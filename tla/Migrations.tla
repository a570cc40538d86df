------------------------------ MODULE Migrations ------------------------------
(***************************************************************************)
(* Opening the database (core/db.go: OpenDB and migrate) by processes that *)
(* share one data directory, each of which may die at any instant.         *)
(*                                                                         *)
(* SQLite is external: one transaction writes at a time, a commit is       *)
(* atomic, and the effects of a transaction that has not committed are     *)
(* gone when its process is.  ALTER TABLE ADD COLUMN fails on a column     *)
(* that is there; CREATE ... IF NOT EXISTS does not mind.  The embedded    *)
(* files are numbered in the order sort.Strings gives their names.         *)
(***************************************************************************)
EXTENDS Integers

CONSTANTS
    Procs,       \* server processes on one data directory
    Last,        \* the migrations are 1..Last
    Repeatable,  \* those that only CREATE ... IF NOT EXISTS
    NoProc       \* "nobody"

\* Assumed by the module that instantiates this one.
MigrationsAssumption ==
    /\ Last \in Nat
    /\ Repeatable \subseteq 1..Last
    /\ NoProc \notin Procs

Files == 1..Last

VARIABLES
    schema,      \* the migrations the committed tables have been through
    recorded,    \* the names in the table _migrations
    writer,      \* the process whose transaction is writing
    opener,      \* the processes: how far OpenDB is
    overlapped   \* history: processes that were not alone while opening

vars == <<schema, recorded, writer, opener, overlapped>>

\* In OpenDB; "record" and "commit" are inside the transaction of migration at.
Opening == {"create", "list", "apply", "record", "commit"}
\* applied: the map migrate reads once; at: the last file its loop has reached.
Opener == [pc : {"down", "open", "refused"} \cup Opening, applied : SUBSET Files, at : 0..Last]

TypeOK ==
    /\ schema \in SUBSET Files
    /\ recorded \in SUBSET Files
    /\ writer \in Procs \cup {NoProc}
    /\ opener \in [Procs -> Opener]
    /\ overlapped \in SUBSET Procs

Blank(pc) == [pc |-> pc, applied |-> {}, at |-> 0]

\* The database of an earlier version of the program, or none.
Init ==
    /\ schema \in {1..m : m \in 0..Last}
    /\ recorded = schema
    /\ writer = NoProc
    /\ opener = [p \in Procs |-> Blank("down")]
    /\ overlapped = {}

--------------------------------------------------------------------------------
\* Slips of the kind the properties are there to catch are kept next to the
\* definition they would change, under its name with a suffix.

At(p, pc) == opener[p].pc = pc
Goto(p, pc) == opener' = [opener EXCEPT ![p].pc = pc]

Rivals(p) == {q \in Procs \ {p} : opener[q].pc \in Opening}

\* sql.Open, which does not touch the file yet.
Open(p) ==
    /\ At(p, "down")
    /\ opener' = [opener EXCEPT ![p] = Blank("create")]
    /\ overlapped' = IF Rivals(p) = {} THEN overlapped \ {p}
                     ELSE overlapped \cup {p} \cup Rivals(p)
    /\ UNCHANGED <<schema, recorded, writer>>

\* CREATE TABLE IF NOT EXISTS _migrations.
CreateTable(p) ==
    /\ At(p, "create")
    /\ Goto(p, "list")
    /\ UNCHANGED <<schema, recorded, writer, overlapped>>

\* SELECT name FROM _migrations: read once, before the loop.
List(p) ==
    /\ At(p, "list")
    /\ opener' = [opener EXCEPT ![p].pc = "apply", ![p].applied = recorded]
    /\ UNCHANGED <<schema, recorded, writer, overlapped>>

\* The file the loop comes to next: the first one not in applied.
Due_AnyOrder(p) == Files \ (opener[p].applied \cup {opener[p].at})
Due(p) ==
    {m \in Files \ opener[p].applied :
        m > opener[p].at /\ \A k \in (opener[p].at + 1)..(m - 1) : k \in opener[p].applied}

\* After the last file OpenDB returns the database.
Return(p) ==
    /\ At(p, "apply") /\ Due(p) = {}
    /\ Goto(p, "open")
    /\ UNCHANGED <<schema, recorded, writer, overlapped>>

\* Exec of the file fails on what is there already.
Clashes(m) == m \in schema \ Repeatable

\* Begin, and Exec of the file, which waits for the writer before it.  An error
\* rolls back, and OpenDB returns it.
Exec_NoTransaction(p) ==
    /\ At(p, "apply") /\ writer = NoProc
    /\ \E m \in Due(p) :
          \/ /\ Clashes(m) /\ Goto(p, "refused")
             /\ UNCHANGED <<schema, writer>>
          \/ /\ ~Clashes(m)
             /\ opener' = [opener EXCEPT ![p].pc = "record", ![p].at = m]
             /\ schema' = schema \cup {m} /\ writer' = p
    /\ UNCHANGED <<recorded, overlapped>>
Exec(p) ==
    /\ At(p, "apply") /\ writer = NoProc
    /\ \E m \in Due(p) :
          \/ /\ Clashes(m) /\ Goto(p, "refused")
             /\ UNCHANGED writer
          \/ /\ ~Clashes(m)
             /\ opener' = [opener EXCEPT ![p].pc = "record", ![p].at = m]
             /\ writer' = p
    /\ UNCHANGED <<schema, recorded, overlapped>>

\* INSERT INTO _migrations; the name is its primary key.
Record(p) ==
    /\ At(p, "record")
    /\ \/ opener[p].at \in recorded /\ Goto(p, "refused") /\ writer' = NoProc
       \/ opener[p].at \notin recorded /\ Goto(p, "commit") /\ UNCHANGED writer
    /\ UNCHANGED <<schema, recorded, overlapped>>

\* Commit: the tables and the name together.
Commit(p) ==
    /\ At(p, "commit")
    /\ schema' = schema \cup {opener[p].at}
    /\ recorded' = recorded \cup {opener[p].at}
    /\ writer' = NoProc
    /\ Goto(p, "apply")
    /\ UNCHANGED overlapped

\* The process ends: an error of the database (among them that it stayed locked
\* for too long), a refusal, a crash, or a shutdown.  Its transaction is undone.
Close(p) ==
    /\ ~At(p, "down")
    /\ opener' = [opener EXCEPT ![p] = Blank("down")]
    /\ writer' = IF writer = p THEN NoProc ELSE writer
    /\ UNCHANGED <<schema, recorded, overlapped>>

Step(p) == CreateTable(p) \/ List(p) \/ Exec(p) \/ Record(p) \/ Commit(p) \/ Return(p)

Next == \E p \in Procs : Open(p) \/ Step(p) \/ Close(p)

Spec == Init /\ [][Next]_vars

--------------------------------------------------------------------------------
\* A start is refused by the migrations only if another process was opening the
\* database at the same time: alone, every database an earlier version or a crash
\* in any migration has left is brought up to date, nothing skipped or repeated.
RefusedOnlyInRace == \A p \in Procs : At(p, "refused") => p \in overlapped

\* Opening implements its promise, also with several processes at it, although
\* each goes by a list it has read before the others committed.
Ready == {p \in Procs : At(p, "open")}

U == INSTANCE Upgrade WITH users <- Ready

UpgradeSpec == U!Spec

================================================================================
