-------------------------------- MODULE Startup --------------------------------
(***************************************************************************)
(* runServer up to its listener (cmd/server/main.go): a process opens the  *)
(* database, which brings it up to date (Migrations), and only then loads  *)
(* the master key (MasterKey); when it ends it has neither.  A process has *)
(* not started for MasterKey as long as its OpenDB has not returned.       *)
(***************************************************************************)
EXTENDS MasterKey, Integers

CONSTANTS
    Last, Repeatable, NoProc    \* see Migrations

VARIABLES
    schema, recorded, writer, opener, overlapped    \* see Migrations

M == INSTANCE Migrations

ASSUME DatabaseAssumption == M!MigrationsAssumption

databaseVars == <<schema, recorded, writer, opener, overlapped>>
startupVars == <<vars, databaseVars>>

StartupTypeOK == TypeOK /\ M!TypeOK

StartupInit == Init /\ M!Init

--------------------------------------------------------------------------------
\* Slips of the kind the properties are there to catch are kept next to the
\* definition they would change, under its name with a suffix.

\* In OpenDB, or launched and not there yet.
OpenDB(p) ==
    /\ At(p, "down")
    /\ M!Open(p) \/ M!Step(p)
    /\ UNCHANGED vars

\* OpenDB has returned the database.
LoadKey_Early(p) == Start(p) /\ UNCHANGED databaseVars
LoadKey(p) ==
    /\ M!At(p, "open")
    /\ Start(p) \/ Read(p) \/ Create(p) \/ Write(p)
    /\ UNCHANGED databaseVars

\* Without the port runServer returns, and closes the database.
Bind(p) ==
    /\ Listen(p)
    /\ IF At(p, "up")' THEN UNCHANGED databaseVars ELSE M!Close(p)

\* The process ends, wherever it is.
Die(p) ==
    /\ M!Close(p)
    /\ Exit(p) \/ (At(p, "down") /\ UNCHANGED vars)

Serve(p) ==
    /\ \E u \in Users : StoreAccount(p, u) \/ Refresh(p, u) \/ RemoveAccount(p, u)
    /\ UNCHANGED databaseVars

StartupNext == \E p \in Procs : OpenDB(p) \/ LoadKey(p) \/ Bind(p) \/ Die(p) \/ Serve(p)

StartupSpec == StartupInit /\ [][StartupNext]_startupVars

--------------------------------------------------------------------------------
\* As in Migrations: a lone start is not refused, and OpenDB keeps its promise.
RefusedOnlyInRace == M!RefusedOnlyInRace
UpgradeSpec == M!UpgradeSpec

\* A process serves requests on tables that every migration has been through,
\* whoever applied them, and draws a master key only once it has them: a start
\* that fails on the database leaves no key behind.
ServesMigrated ==
    \A p \in Procs : proc[p].pc \in Starting \cup Loaded => schema = M!Files /\ M!At(p, "open")

================================================================================
