-------------------------------- MODULE Upgrade --------------------------------
(***************************************************************************)
(* What opening the database promises, without statements, transactions,   *)
(* names or crashes: the schema moves forward one whole migration at a     *)
(* time, in their order, and a process gets the database to work with only *)
(* when the last one is in ("applies any pending migrations", OpenDB,      *)
(* core/db.go:21-23).                                                      *)
(***************************************************************************)
EXTENDS Integers

CONSTANTS
    Procs,    \* server processes on one data directory
    Last      \* the migrations are 1..Last

VARIABLES
    schema,   \* the migrations the tables have been through
    users     \* the processes that have the database open for use

vars == <<schema, users>>

Init ==
    /\ schema \in {1..m : m \in 0..Last}
    /\ users = {}

Migrate(m) ==
    /\ schema = 1..(m - 1)
    /\ schema' = 1..m
    /\ UNCHANGED users

Open(p) ==
    /\ schema = 1..Last
    /\ users' = users \cup {p}
    /\ UNCHANGED schema

Close(p) ==
    /\ users' = users \ {p}
    /\ UNCHANGED schema

Next ==
    \/ \E m \in 1..Last : Migrate(m)
    \/ \E p \in Procs : Open(p) \/ Close(p)

Spec == Init /\ [][Next]_vars

================================================================================
