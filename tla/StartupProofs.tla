----------------------------- MODULE StartupProofs -----------------------------
(***************************************************************************)
(* Machine-checked proofs about Migrations, for any number of processes    *)
(* and migrations, and about Startup, in which it is followed by           *)
(* MasterKey.                                                              *)
(***************************************************************************)
EXTENDS Startup, MasterKeyProofs

--------------------------------------------------------------------------------
\* Migrations.

Prefix(S) == \E k \in 0..Last : S = 1..k

\* What a process that opens the database knows of the tables: what it has
\* listed and what its loop has passed is in them.
LoopInv(p) ==
    LET o == opener[p]
    IN  /\ o.pc \in {"create", "list"} => o.at = 0
        /\ o.pc \in {"apply", "record", "commit"} => Prefix(o.applied) /\ o.applied \subseteq schema
        /\ o.pc = "apply" => 1..o.at \subseteq schema
        /\ o.pc \in {"record", "commit"} => o.at \in M!Files /\ 1..(o.at - 1) \subseteq schema
        /\ o.pc = "commit" => o.at \notin schema
        /\ o.pc = "open" => schema = M!Files

\* What it knows if it has been alone all the time: nothing else is in them.
LoneInv(p) ==
    LET o == opener[p]
    IN  /\ o.pc = "apply" => schema \subseteq o.applied \cup (1..o.at)
        /\ o.pc = "record" => o.at \notin schema
        /\ o.pc # "refused"

\* Inductive: that nobody alone is refused is not, because it does not say what
\* a process has read, or that transactions exclude each other.
MInv ==
    /\ M!TypeOK
    /\ recorded = schema
    /\ Prefix(schema)
    /\ \A p \in Procs : opener[p].pc \in {"record", "commit"} <=> writer = p
    /\ \A p, q \in Procs : p # q /\ opener[p].pc \in M!Opening /\ opener[q].pc \in M!Opening
          => p \in overlapped
    /\ \A p \in Procs : LoopInv(p) /\ (p \notin overlapped => LoneInv(p))

LEMMA PrefixFacts ==
    /\ Prefix({}) /\ Prefix(M!Files)
    /\ \A S : Prefix(S) => S \subseteq M!Files
<1>1. Last \in Nat
  BY DatabaseAssumption DEF M!MigrationsAssumption
<1>2. 1..0 = {} /\ 0 \in 0..Last /\ Last \in 0..Last
  BY <1>1
<1> QED BY <1>1, <1>2 DEF Prefix, M!Files

LEMMA MInit == M!Init => MInv
<1> SUFFICES ASSUME M!Init PROVE MInv
  OBVIOUS
<1>1. Last \in Nat
  BY DatabaseAssumption DEF M!MigrationsAssumption
<1>2. \A p \in Procs : opener[p] = M!Blank("down")
  BY DEF M!Init
<1>3. Prefix(schema) /\ schema \subseteq M!Files
  BY <1>1 DEF M!Init, Prefix, M!Files
<1>4. M!TypeOK
  BY <1>1, <1>3 DEF M!Init, M!TypeOK, M!Opener, M!Opening, M!Blank
<1>5. NoProc \notin Procs
  BY DatabaseAssumption DEF M!MigrationsAssumption
<1> QED
  BY <1>2, <1>3, <1>4, <1>5
  DEF M!Init, MInv, LoopInv, LoneInv, M!Blank, M!Opening

\* What a step of p leaves of the others, and what MInv gives about p.
LEMMA MFacts ==
    ASSUME MInv, NEW p \in Procs
    PROVE  /\ Last \in Nat /\ NoProc \notin Procs
           /\ opener \in [Procs -> M!Opener] /\ opener[p] \in M!Opener
           /\ opener[p].applied \subseteq M!Files /\ opener[p].at \in 0..Last
           /\ schema \subseteq M!Files
BY DatabaseAssumption DEF MInv, M!TypeOK, M!Opener, M!MigrationsAssumption

\* A step that leaves the tables alone keeps the invariant if it keeps it of p.
LEMMA MQuiet ==
    ASSUME MInv, NEW p \in Procs, NEW new \in M!Opener,
           opener' = [opener EXCEPT ![p] = new],
           UNCHANGED <<schema, recorded, overlapped>>,
           writer' \in {writer, p, NoProc},
           new.pc \in {"record", "commit"} <=> writer' = p,
           writer' # p /\ writer # p => writer' = writer,
           writer' = p => writer \in {p, NoProc},
           new.pc \in M!Opening => opener[p].pc \in M!Opening,
           LoopInv(p)', p \notin overlapped => LoneInv(p)'
    PROVE  MInv'
<1>1. opener'[p] = new /\ \A q \in Procs \ {p} : opener'[q] = opener[q]
  BY MFacts
<1>2. M!TypeOK'
  BY MFacts DEF MInv, M!TypeOK
<1>3. ASSUME NEW q \in Procs, q # p PROVE LoopInv(q)' /\ (q \notin overlapped' => LoneInv(q)')
  BY <1>1, <1>3 DEF MInv, LoopInv, LoneInv
<1>4. \A q \in Procs : opener'[q].pc \in {"record", "commit"} <=> writer' = q
  BY <1>1, MFacts DEF MInv
<1>5. \A q, r \in Procs : q # r /\ opener'[q].pc \in M!Opening /\ opener'[r].pc \in M!Opening
          => q \in overlapped'
  BY <1>1 DEF MInv
<1>6. recorded' = schema' /\ Prefix(schema')
  BY DEF MInv, Prefix
<1> QED BY <1>2, <1>3, <1>4, <1>5, <1>6 DEF MInv, Prefix

LEMMA MOpen == ASSUME MInv, NEW p \in Procs, M!Open(p) PROVE MInv'
<1>1. /\ opener[p].pc = "down" /\ opener' = [opener EXCEPT ![p] = M!Blank("create")]
      /\ UNCHANGED <<schema, recorded, writer>>
      /\ overlapped' \in SUBSET Procs
  BY DEF M!Open, M!At, M!Rivals, MInv, M!TypeOK
<1>2. M!Blank("create") \in M!Opener
  BY MFacts DEF M!Blank, M!Opener, M!Opening
<1>3. /\ opener'[p] = M!Blank("create") /\ opener'[p].pc = "create" /\ opener'[p].at = 0
      /\ \A q \in Procs \ {p} : opener'[q] = opener[q]
  BY <1>1, <1>2, MFacts DEF M!Blank
<1>4. M!TypeOK'
  BY <1>1, <1>2, MFacts DEF MInv, M!TypeOK
<1>5. ASSUME NEW q \in Procs PROVE LoopInv(q)' /\ (q \notin overlapped' => LoneInv(q)')
  <2>1. CASE q = p
    BY <1>3, <2>1 DEF LoopInv, LoneInv
  <2>2. CASE q # p
    <3>1. q \notin overlapped' => q \notin overlapped
      BY <2>2 DEF M!Open, M!Rivals
    <3> QED BY <1>1, <1>3, <2>2, <3>1 DEF MInv, LoopInv, LoneInv
  <2> QED BY <2>1, <2>2
<1>6. ASSUME NEW q \in Procs, NEW r \in Procs, q # r, opener'[q].pc \in M!Opening,
             opener'[r].pc \in M!Opening
      PROVE  q \in overlapped'
  <2>1. CASE q = p
    <3>1. r \in M!Rivals(p)
      BY <1>3, <1>6, <2>1 DEF M!Rivals
    <3> QED BY <2>1, <3>1 DEF M!Open
  <2>2. CASE r = p
    <3>1. q \in M!Rivals(p)
      BY <1>3, <1>6, <2>2 DEF M!Rivals
    <3> QED BY <3>1 DEF M!Open
  <2>3. CASE q # p /\ r # p
    <3>1. q \in overlapped /\ q \in M!Rivals(p)
      BY <1>3, <1>6, <2>3 DEF MInv, M!Rivals
    <3> QED BY <3>1 DEF M!Open
  <2> QED BY <2>1, <2>2, <2>3
<1>7. \A q \in Procs : opener'[q].pc \in {"record", "commit"} <=> writer' = q
  BY <1>1, <1>3 DEF MInv
<1> QED BY <1>1, <1>4, <1>5, <1>6, <1>7 DEF MInv, Prefix

\* The two steps up to the loop, and the return after it.
LEMMA MCreateTable == ASSUME MInv, NEW p \in Procs, M!CreateTable(p) PROVE MInv'
<1> DEFINE new == [opener[p] EXCEPT !.pc = "list"]
<1>1. /\ opener[p].pc = "create" /\ opener' = [opener EXCEPT ![p] = new]
      /\ UNCHANGED <<schema, recorded, writer, overlapped>>
      /\ new \in M!Opener /\ new.pc = "list" /\ new.at = opener[p].at /\ opener'[p] = new
  BY MFacts DEF M!CreateTable, M!At, M!Goto, M!Opener, M!Opening
<1> HIDE DEF new
<1>2. LoopInv(p)' /\ LoneInv(p)'
  BY <1>1 DEF MInv, LoopInv, LoneInv
<1>3. writer # p
  BY <1>1 DEF MInv
<1> QED BY <1>1, <1>2, <1>3, MQuiet DEF M!Opening

LEMMA MList == ASSUME MInv, NEW p \in Procs, M!List(p) PROVE MInv'
<1> DEFINE new == [opener[p] EXCEPT !.pc = "apply", !.applied = recorded]
<1>1. /\ opener[p].pc = "list" /\ opener' = [opener EXCEPT ![p] = new]
      /\ UNCHANGED <<schema, recorded, writer, overlapped>>
      /\ new \in M!Opener /\ new.pc = "apply" /\ new.applied = schema /\ new.at = opener[p].at
      /\ opener'[p] = new
  BY MFacts DEF M!List, M!At, M!Opener, M!Opening, MInv
<1> HIDE DEF new
<1>2. opener[p].at = 0 /\ 1..0 = {} /\ Prefix(schema)
  BY <1>1 DEF MInv, LoopInv
<1>3. LoopInv(p)' /\ LoneInv(p)'
  BY <1>1, <1>2 DEF LoopInv, LoneInv, Prefix
<1>4. writer # p
  BY <1>1 DEF MInv
<1> QED BY <1>1, <1>3, <1>4, MQuiet DEF M!Opening

\* What the loop passes over, and the file it comes to: everything before it is
\* in the tables; and when no file is left, so is everything.
LEMMA DueFacts ==
    ASSUME MInv, NEW p \in Procs, opener[p].pc = "apply"
    PROVE  /\ \A m \in M!Due(p) : /\ m \in M!Files /\ m \in 0..Last /\ 1..(m - 1) \subseteq schema
                                  /\ p \notin overlapped => m \notin schema
           /\ M!Due(p) = {} => schema = M!Files
<1> DEFINE o == opener[p]
<1>1. /\ Last \in Nat /\ o.at \in 0..Last /\ schema \subseteq 1..Last
      /\ o.applied \subseteq schema /\ 1..o.at \subseteq schema
      /\ p \notin overlapped => schema \subseteq o.applied \cup (1..o.at)
  BY MFacts DEF MInv, LoopInv, LoneInv, M!Files
<1>2. PICK j \in 0..Last : o.applied = 1..j
  BY DEF MInv, LoopInv, Prefix
<1>3. ASSUME NEW m \in M!Due(p)
      PROVE  /\ m \in M!Files /\ m \in 0..Last /\ 1..(m - 1) \subseteq schema
             /\ p \notin overlapped => m \notin schema
  <2>1. /\ m \in 1..Last /\ m \notin o.applied /\ m > o.at
        /\ \A k \in (o.at + 1)..(m - 1) : k \in o.applied
    BY <1>3 DEF M!Due, M!Files
  <2>2. 1..(m - 1) \subseteq schema
    BY <1>1, <2>1
  <2>3. m \notin 1..o.at
    BY <1>1, <2>1
  <2> QED BY <1>1, <2>1, <2>2, <2>3 DEF M!Files
<1>4. ASSUME M!Due(p) = {} PROVE schema = M!Files
  <2> DEFINE k == IF o.at < j THEN j ELSE o.at
  <2>1. k \in 0..Last /\ 1..k \subseteq schema /\ o.at <= k /\ j <= k
    BY <1>1, <1>2
  <2>2. CASE k = Last
    BY <1>1, <2>1, <2>2 DEF M!Files
  <2>3. CASE k # Last
    <3>1. k + 1 \in M!Files /\ k + 1 \notin o.applied /\ k + 1 > o.at
      BY <1>1, <1>2, <2>1, <2>3 DEF M!Files
    <3>2. \A i \in (o.at + 1)..((k + 1) - 1) : i \in o.applied
      BY <1>1, <1>2, <2>1
    <3>3. k + 1 \in M!Due(p)
      BY <3>1, <3>2 DEF M!Due
    <3> QED BY <1>4, <3>3
  <2> QED BY <2>2, <2>3
<1> QED BY <1>3, <1>4

LEMMA MReturn == ASSUME MInv, NEW p \in Procs, M!Return(p) PROVE MInv' /\ schema = M!Files
<1> DEFINE new == [opener[p] EXCEPT !.pc = "open"]
<1>1. /\ opener[p].pc = "apply" /\ opener' = [opener EXCEPT ![p] = new]
      /\ UNCHANGED <<schema, recorded, writer, overlapped>>
      /\ new \in M!Opener /\ new.pc = "open" /\ opener'[p] = new
  BY MFacts DEF M!Return, M!At, M!Goto, M!Opener, M!Opening
<1> HIDE DEF new
<1>2. schema = M!Files
  BY <1>1, DueFacts DEF M!Return
<1>3. LoopInv(p)' /\ LoneInv(p)'
  BY <1>1, <1>2 DEF LoopInv, LoneInv
<1>4. writer # p
  BY <1>1 DEF MInv
<1> QED BY <1>1, <1>2, <1>3, <1>4, MQuiet DEF M!Opening

LEMMA MExec == ASSUME MInv, NEW p \in Procs, M!Exec(p) PROVE MInv'
<1>1. PICK m \in M!Due(p) :
         \/ M!Clashes(m) /\ M!Goto(p, "refused") /\ UNCHANGED writer
         \/ /\ opener' = [opener EXCEPT ![p].pc = "record", ![p].at = m]
            /\ writer' = p
  BY DEF M!Exec
<1>2. /\ opener[p].pc = "apply" /\ writer = NoProc /\ writer # p /\ p # NoProc
      /\ UNCHANGED <<schema, recorded, overlapped>>
  BY MFacts DEF M!Exec, M!At
<1>3. /\ m \in M!Files /\ m \in 0..Last /\ 1..(m - 1) \subseteq schema
      /\ p \notin overlapped => m \notin schema
  BY <1>2, DueFacts
<1>4. CASE M!Clashes(m) /\ M!Goto(p, "refused") /\ UNCHANGED writer
  <2> DEFINE new == [opener[p] EXCEPT !.pc = "refused"]
  <2>1. opener' = [opener EXCEPT ![p] = new] /\ new \in M!Opener /\ new.pc = "refused"
        /\ opener'[p] = new
    BY <1>4, MFacts DEF M!Goto, M!Opener
  <2> HIDE DEF new
  <2>2. p \in overlapped
    BY <1>3, <1>4 DEF M!Clashes
  <2>3. LoopInv(p)'
    BY <2>1 DEF LoopInv
  <2> QED BY <1>2, <1>4, <2>1, <2>2, <2>3, MQuiet DEF M!Opening
<1>5. CASE opener' = [opener EXCEPT ![p].pc = "record", ![p].at = m] /\ writer' = p
  <2> DEFINE new == [opener[p] EXCEPT !.pc = "record", !.at = m]
  <2>1. /\ opener' = [opener EXCEPT ![p] = new] /\ new \in M!Opener /\ new.pc = "record"
        /\ new.at = m /\ new.applied = opener[p].applied /\ opener'[p] = new
    BY <1>3, <1>5, MFacts DEF M!Opener, M!Opening
  <2> HIDE DEF new
  <2>2. LoopInv(p)' /\ (p \notin overlapped => LoneInv(p)')
    BY <1>2, <1>3, <2>1 DEF MInv, LoopInv, LoneInv, Prefix, M!Files
  <2> QED BY <1>2, <1>5, <2>1, <2>2, MQuiet DEF M!Opening
<1> QED BY <1>1, <1>4, <1>5

LEMMA MRecord == ASSUME MInv, NEW p \in Procs, M!Record(p) PROVE MInv'
<1>1. /\ opener[p].pc = "record" /\ writer = p /\ p # NoProc
      /\ UNCHANGED <<schema, recorded, overlapped>>
  BY MFacts DEF M!Record, M!At, MInv
<1>2. CASE opener[p].at \in recorded /\ M!Goto(p, "refused") /\ writer' = NoProc
  <2> DEFINE new == [opener[p] EXCEPT !.pc = "refused"]
  <2>1. opener' = [opener EXCEPT ![p] = new] /\ new \in M!Opener /\ new.pc = "refused"
        /\ opener'[p] = new
    BY <1>2, MFacts DEF M!Goto, M!Opener
  <2> HIDE DEF new
  <2>2. p \in overlapped
    BY <1>1, <1>2 DEF MInv, LoneInv
  <2>3. LoopInv(p)'
    BY <2>1 DEF LoopInv
  <2> QED BY <1>1, <1>2, <2>1, <2>2, <2>3, MQuiet DEF M!Opening
<1>3. CASE opener[p].at \notin recorded /\ M!Goto(p, "commit") /\ UNCHANGED writer
  <2> DEFINE new == [opener[p] EXCEPT !.pc = "commit"]
  <2>1. /\ opener' = [opener EXCEPT ![p] = new] /\ new \in M!Opener /\ new.pc = "commit"
        /\ new.at = opener[p].at /\ new.applied = opener[p].applied /\ opener'[p] = new
    BY <1>3, MFacts DEF M!Goto, M!Opener, M!Opening
  <2> HIDE DEF new
  <2>2. LoopInv(p)' /\ LoneInv(p)'
    BY <1>1, <1>3, <2>1 DEF MInv, LoopInv, LoneInv, Prefix
  <2> QED BY <1>1, <1>3, <2>1, <2>2, MQuiet DEF M!Opening
<1> QED BY <1>2, <1>3 DEF M!Record

\* The commit moves the tables on by one migration, the next one.
LEMMA MCommit ==
    ASSUME MInv, NEW p \in Procs, M!Commit(p)
    PROVE  /\ MInv'
           /\ \E m \in M!Files : schema = 1..(m - 1) /\ schema' = 1..m
<1> DEFINE m == opener[p].at
           new == [opener[p] EXCEPT !.pc = "apply"]
<1>1. /\ opener[p].pc = "commit" /\ writer = p /\ writer' = NoProc /\ overlapped' = overlapped
      /\ schema' = schema \cup {m} /\ recorded' = recorded \cup {m}
  BY DEF M!Commit, M!At, MInv
<1>2. /\ opener' = [opener EXCEPT ![p] = new] /\ new \in M!Opener /\ new.pc = "apply"
      /\ new.at = m /\ new.applied = opener[p].applied /\ opener'[p] = new
      /\ \A q \in Procs \ {p} : opener'[q] = opener[q]
  BY <1>1, MFacts DEF M!Commit, M!Goto, M!Opener, M!Opening
<1> HIDE DEF new
<1>3. m \in 1..Last /\ m \notin schema /\ 1..(m - 1) \subseteq schema /\ Last \in Nat
  BY <1>1, MFacts DEF MInv, LoopInv, M!Files
<1> HIDE DEF m
<1>4. schema = 1..(m - 1)
  <2>1. PICK k \in 0..Last : schema = 1..k
    BY DEF MInv, Prefix
  <2>2. k < m
    BY <1>3, <2>1
  <2>3. m - 1 <= k
    <3>1. CASE m = 1
      BY <2>1, <3>1
    <3>2. CASE m # 1
      BY <1>3, <2>1, <3>2
    <3> QED BY <3>1, <3>2
  <2>4. k = m - 1
    BY <1>3, <2>1, <2>2, <2>3
  <2> QED BY <2>1, <2>4
<1>5. schema' = 1..m /\ Prefix(schema')
  <2>1. m \in Int /\ 1 <= m /\ m <= Last /\ m \in 0..Last
    BY <1>3
  <2>2. (1..(m - 1)) \cup {m} = 1..m
    BY <2>1
  <2> QED BY <1>1, <1>4, <2>1, <2>2 DEF Prefix
<1>6. M!TypeOK'
  BY <1>1, <1>2, <1>3, MFacts DEF MInv, M!TypeOK, M!Files
<1>7. ASSUME NEW q \in Procs PROVE LoopInv(q)' /\ (q \notin overlapped' => LoneInv(q)')
  <2>1. CASE q = p
    <3>1. LoopInv(p)'
      <4>1. Prefix(opener[p].applied) /\ opener[p].applied \subseteq schema
        BY <1>1 DEF MInv, LoopInv
      <4>2. Prefix(opener'[p].applied) /\ opener'[p].applied \subseteq schema'
        BY <1>1, <1>2, <4>1 DEF Prefix
      <4>3. opener'[p].pc = "apply" /\ 1..opener'[p].at \subseteq schema'
        BY <1>2, <1>5
      <4> QED BY <4>2, <4>3 DEF LoopInv, Prefix
    <3>2. LoneInv(p)'
      BY <1>2, <1>5 DEF LoneInv
    <3> QED BY <2>1, <3>1, <3>2
  <2>2. CASE q # p
    <3>1. opener'[q] = opener[q] /\ writer # q
      BY <1>1, <1>2, <2>2
    <3>2. opener[q].pc # "commit" /\ opener[q].pc # "record"
      BY <3>1 DEF MInv
    <3>3. opener[q].pc # "open"
      BY <1>3 DEF MInv, LoopInv, M!Files
    <3>4. LoopInv(q)
      BY DEF MInv
    <3>5. LoopInv(q)'
      BY <1>1, <3>1, <3>2, <3>3, <3>4 DEF LoopInv, Prefix
    <3>6. q \notin overlapped => opener[q].pc \notin M!Opening
      BY <1>1, <2>2 DEF MInv, M!Opening
    <3>7. q \notin overlapped => LoneInv(q)
      BY DEF MInv
    <3> QED BY <1>1, <3>1, <3>5, <3>6, <3>7 DEF LoneInv, M!Opening
  <2> QED BY <2>1, <2>2
<1>8. \A q \in Procs : opener'[q].pc \in {"record", "commit"} <=> writer' = q
  BY <1>1, <1>2, MFacts DEF MInv
<1>9. \A q, r \in Procs : q # r /\ opener'[q].pc \in M!Opening /\ opener'[r].pc \in M!Opening
          => q \in overlapped'
  BY <1>1, <1>2 DEF MInv, M!Opening
<1>10. recorded' = schema'
  BY <1>1 DEF MInv
<1> QED BY <1>3, <1>4, <1>5, <1>6, <1>7, <1>8, <1>9, <1>10 DEF MInv, M!Files

LEMMA MClose == ASSUME MInv, NEW p \in Procs, M!Close(p) PROVE MInv'
<1> DEFINE new == M!Blank("down")
<1>1. /\ opener' = [opener EXCEPT ![p] = new] /\ new \in M!Opener /\ new.pc = "down"
      /\ opener'[p] = new /\ UNCHANGED <<schema, recorded, overlapped>>
      /\ writer' = IF writer = p THEN NoProc ELSE writer
      /\ p # NoProc
  BY MFacts DEF M!Close, M!Blank, M!Opener
<1> HIDE DEF new
<1>2. LoopInv(p)' /\ LoneInv(p)'
  BY <1>1 DEF LoopInv, LoneInv
<1> QED BY <1>1, <1>2, MQuiet DEF M!Opening

--------------------------------------------------------------------------------
LEMMA MStep ==
    ASSUME MInv, [M!Next]_M!vars
    PROVE  MInv'
<1>1. CASE UNCHANGED M!vars
  BY <1>1 DEF M!vars, MInv, M!TypeOK, LoopInv, LoneInv, Prefix
<1>2. ASSUME NEW p \in Procs, M!Open(p) \/ M!Step(p) \/ M!Close(p) PROVE MInv'
  BY <1>2, MOpen, MCreateTable, MList, MExec, MRecord, MCommit, MReturn, MClose DEF M!Step
<1> QED BY <1>1, <1>2 DEF M!Next

\* Through every crash and race, what is recorded is what is applied, and the
\* writer alone is inside a transaction (migrate, core/db.go).
THEOREM MigrationsInductive == M!Spec => []MInv
<1>1. MInv /\ [M!Next]_M!vars => MInv'
  BY MStep
<1> QED BY <1>1, MInit, PTL DEF M!Spec

\* Alone, no start is refused by the migrations.
THEOREM AloneNotRefused == M!Spec => []RefusedOnlyInRace
<1>1. MInv => RefusedOnlyInRace
  BY DEF MInv, LoneInv, RefusedOnlyInRace, M!RefusedOnlyInRace, M!At
<1> QED BY <1>1, MigrationsInductive, PTL

\* A step of one process, as Upgrade sees it.
LEMMA UpgradeStep ==
    ASSUME MInv, MInv', [M!Next]_M!vars
    PROVE  [M!U!Next]_M!U!vars
<1>1. CASE UNCHANGED M!vars
  BY <1>1 DEF M!vars, M!U!vars, M!Ready, M!At
<1>2. ASSUME NEW p \in Procs, M!Open(p) PROVE UNCHANGED M!U!vars
  BY <1>2, MFacts DEF M!Open, M!U!vars, M!Ready, M!At, M!Blank
<1>3. ASSUME NEW p \in Procs, M!CreateTable(p) \/ M!List(p) \/ M!Exec(p) \/ M!Record(p)
      PROVE  UNCHANGED M!U!vars
  <2>1. UNCHANGED schema /\ opener[p].pc # "open"
    BY <1>3 DEF M!CreateTable, M!List, M!Exec, M!Record, M!At
  <2>2. \A q \in Procs \ {p} : opener'[q] = opener[q]
    BY <1>3, MFacts DEF M!CreateTable, M!List, M!Exec, M!Record, M!Goto
  <2>3. opener'[p].pc # "open"
    BY <1>3, MFacts DEF M!CreateTable, M!List, M!Exec, M!Record, M!Goto, M!Opener
  <2> QED BY <2>1, <2>2, <2>3 DEF M!U!vars, M!Ready, M!At
<1>4. ASSUME NEW p \in Procs, M!Commit(p) PROVE M!U!Next
  <2>1. PICK m \in M!Files : schema = 1..(m - 1) /\ schema' = 1..m
    BY <1>4, MCommit
  <2>2. M!Ready' = M!Ready
    BY <1>4, MFacts DEF M!Commit, M!Goto, M!Ready, M!At
  <2> QED BY <2>1, <2>2 DEF M!U!Next, M!U!Migrate, M!Files
<1>5. ASSUME NEW p \in Procs, M!Return(p) PROVE M!U!Next
  <2>1. schema = 1..Last /\ UNCHANGED schema
    BY <1>5, MReturn DEF M!Return, M!Files
  <2>2. M!Ready' = M!Ready \cup {p}
    BY <1>5, MFacts DEF M!Return, M!Goto, M!Ready, M!At
  <2> QED BY <2>1, <2>2 DEF M!U!Next, M!U!Open
<1>6. ASSUME NEW p \in Procs, M!Close(p) PROVE M!U!Next
  <2>1. M!Ready' = M!Ready \ {p} /\ UNCHANGED schema
    BY <1>6, MFacts DEF M!Close, M!Ready, M!At, M!Blank
  <2> QED BY <2>1 DEF M!U!Next, M!U!Close
<1> QED BY <1>1, <1>2, <1>3, <1>4, <1>5, <1>6 DEF M!Next, M!Step

\* Opening the database implements its promise.
THEOREM MigrationsImplementUpgrade == M!Spec => UpgradeSpec
<1>1. M!Init => M!U!Init
  BY DEF M!Init, M!U!Init, M!Ready, M!At, M!Blank
<1>2. MInv /\ MInv' /\ [M!Next]_M!vars => [M!U!Next]_M!U!vars
  BY UpgradeStep
<1> QED BY <1>1, <1>2, MigrationsInductive, PTL DEF M!Spec, M!U!Spec, UpgradeSpec, M!UpgradeSpec

--------------------------------------------------------------------------------
\* Startup: each of its steps is a step of both modules, or of one of them.

LEMMA StartupSteps ==
    ASSUME [StartupNext]_startupVars
    PROVE  [M!Next]_M!vars /\ [Next]_vars
<1>1. CASE UNCHANGED startupVars
  BY <1>1 DEF startupVars, databaseVars, M!vars, vars
<1>2. ASSUME NEW p \in Procs, OpenDB(p) PROVE [M!Next]_M!vars /\ [Next]_vars
  BY <1>2 DEF OpenDB, M!Next
<1>3. ASSUME NEW p \in Procs, LoadKey(p) PROVE [M!Next]_M!vars /\ [Next]_vars
  BY <1>3 DEF LoadKey, Next, databaseVars, M!vars
<1>4. ASSUME NEW p \in Procs, Bind(p) PROVE [M!Next]_M!vars /\ [Next]_vars
  BY <1>4 DEF Bind, Next, M!Next, databaseVars, M!vars
<1>5. ASSUME NEW p \in Procs, Die(p) PROVE [M!Next]_M!vars /\ [Next]_vars
  BY <1>5 DEF Die, Next, M!Next
<1>6. ASSUME NEW p \in Procs, Serve(p) PROVE [M!Next]_M!vars /\ [Next]_vars
  BY <1>6 DEF Serve, Next, databaseVars, M!vars
<1> QED BY <1>1, <1>2, <1>3, <1>4, <1>5, <1>6 DEF StartupNext

\* The database of a start behaves as Migrations says, whatever follows it.
THEOREM ImplementsMigrations == StartupSpec => M!Spec
<1>1. StartupInit => M!Init
  BY DEF StartupInit
<1> QED BY <1>1, StartupSteps, PTL DEF StartupSpec, M!Spec

\* The key behaves as MasterKey says, whatever comes before it.
THEOREM ImplementsMasterKey == StartupSpec => Spec
<1>1. StartupInit => Init
  BY DEF StartupInit
<1> QED BY <1>1, StartupSteps, PTL DEF StartupSpec, Spec

\* Every start that is not raced brings the database up to date.
THEOREM RefusedOnlyInRaceHolds == StartupSpec => []RefusedOnlyInRace
BY AloneNotRefused, ImplementsMigrations, PTL

\* Opening the database at a start implements its promise.
THEOREM ImplementsUpgrade == StartupSpec => UpgradeSpec
BY MigrationsImplementUpgrade, ImplementsMigrations, PTL

\* Every variable of a start stays in its type.
THEOREM StartupTypeCorrect == StartupSpec => []StartupTypeOK
<1>1. MInv /\ TypeOK => StartupTypeOK
  BY DEF MInv, StartupTypeOK
<1> QED BY <1>1, MigrationsInductive, ImplementsMigrations, TypeCorrect, ImplementsMasterKey, PTL

\* With the database before it, the key on file still opens every stored refresh
\* token, and whoever serves has it, unless a start has been disturbed.
THEOREM StartupKeepsKeys ==
    StartupSpec => [](KeyOnFileOpensAll /\ ServesWithKeyOnFile) /\ ErrorHasACause
BY KeyOnFileOpensAllHolds, ServesWithKeyOnFileHolds, ErrorHasACauseHolds, ImplementsMasterKey, PTL

\* A start leaves an empty key only by dying between the two system calls of
\* os.WriteFile: dying anywhere else, in OpenDB or after it, costs no key.
THEOREM StartupServesWithAKey ==
    StartupSpec => ([][~TornWrite]_vars => [](~disturbed => ServesWithAKey))
BY OnlyTornWritesLeaveNoKey, ImplementsMasterKey, PTL

\* Whoever has come to the key still has the database open.
OpenInv == \A p \in Procs : proc[p].pc # "down" => opener[p].pc = "open"

LEMMA OpenStep ==
    ASSUME MInv, TypeOK, OpenInv, [StartupNext]_startupVars
    PROVE  OpenInv'
<1>0. opener \in [Procs -> M!Opener] /\ proc \in [Procs -> Process]
  BY DEF MInv, M!TypeOK, TypeOK
<1>1. CASE UNCHANGED startupVars
  BY <1>1 DEF startupVars, databaseVars, vars, OpenInv
<1>2. ASSUME NEW p \in Procs, OpenDB(p) PROVE OpenInv'
  <2>1. proc' = proc /\ proc[p].pc = "down"
    BY <1>2 DEF OpenDB, At, vars
  <2>2. \A q \in Procs \ {p} : opener'[q] = opener[q]
    BY <1>0, <1>2
    DEF OpenDB, M!Open, M!Step, M!CreateTable, M!List, M!Exec, M!Record, M!Commit,
        M!Return, M!Goto
  <2> QED BY <2>1, <2>2 DEF OpenInv
<1>3. ASSUME NEW p \in Procs, LoadKey(p) PROVE OpenInv'
  <2>1. opener' = opener /\ opener[p].pc = "open"
    BY <1>3 DEF LoadKey, databaseVars, M!At
  <2>2. \A q \in Procs \ {p} : proc'[q] = proc[q]
    BY <1>0, <1>3 DEF LoadKey, Start, Read, Create, Write, Become
  <2> QED BY <2>1, <2>2 DEF OpenInv
<1>4. ASSUME NEW p \in Procs, Bind(p) PROVE OpenInv'
  <2>1. /\ \A q \in Procs \ {p} : proc'[q] = proc[q]
        /\ proc'[p].pc \in {"down", "up"} /\ proc[p].pc = "listen"
    BY <1>0, <1>4 DEF Bind, Listen, Become, At, Down
  <2>2. CASE proc'[p].pc = "up"
    <3>1. opener' = opener
      BY <1>4, <2>2 DEF Bind, At, databaseVars
    <3> QED BY <2>1, <3>1 DEF OpenInv
  <2>3. CASE proc'[p].pc = "down"
    <3>1. \A q \in Procs \ {p} : opener'[q] = opener[q]
      BY <1>0, <1>4, <2>3 DEF Bind, At, M!Close
    <3> QED BY <2>1, <2>3, <3>1 DEF OpenInv
  <2> QED BY <2>1, <2>2, <2>3
<1>5. ASSUME NEW p \in Procs, Die(p) PROVE OpenInv'
  <2>1. /\ \A q \in Procs \ {p} : proc'[q] = proc[q] /\ opener'[q] = opener[q]
        /\ proc'[p].pc = "down"
    BY <1>0, <1>5 DEF Die, Exit, Down, At, vars, M!Close
  <2> QED BY <2>1 DEF OpenInv
<1>6. ASSUME NEW p \in Procs, Serve(p) PROVE OpenInv'
  BY <1>6 DEF Serve, StoreAccount, Refresh, RemoveAccount, databaseVars, OpenInv
<1> QED BY <1>1, <1>2, <1>3, <1>4, <1>5, <1>6 DEF StartupNext

\* A process draws a key and serves on migrated tables only.
THEOREM ServesMigratedHolds == StartupSpec => []ServesMigrated
<1>1. StartupInit => OpenInv
  BY DEF StartupInit, Init, Down, OpenInv
<1>2. MInv /\ TypeOK /\ OpenInv /\ [StartupNext]_startupVars => OpenInv'
  BY OpenStep
<1>3. MInv /\ OpenInv => ServesMigrated
  BY DEF MInv, LoopInv, OpenInv, ServesMigrated, M!At, Starting, Loaded
<1> QED
  BY <1>1, <1>2, <1>3, MigrationsInductive, ImplementsMigrations, TypeCorrect,
     ImplementsMasterKey, PTL DEF StartupSpec

================================================================================
