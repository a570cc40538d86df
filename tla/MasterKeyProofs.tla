---------------------------- MODULE MasterKeyProofs ----------------------------
(***************************************************************************)
(* Machine-checked proofs about MasterKey, for any number of processes,    *)
(* keys and users.                                                         *)
(***************************************************************************)
EXTENDS MasterKey, TLAPS

\* Undisturbed, one process at a time is starting; while it is about to create
\* the file there is none, and while it has truncated it nobody else runs.
StartInv ==
    /\ \A p, q \in Procs : proc[p].pc \in Starting /\ proc[q].pc \in Starting => p = q
    /\ \A p \in Procs : At(p, "create") => file = Absent
    /\ \A p \in Procs : At(p, "write") =>
          /\ file = Empty /\ proc[p].key \in Keys
          /\ \A q \in Procs : proc[q].pc \notin Loaded

\* Undisturbed, whoever has loaded a key has the one on file, and so has every
\* stored token.
KeyInv ==
    /\ \A p \in Procs : proc[p].pc \in Loaded => proc[p].key = file /\ file # Absent
    /\ \A u \in Users : sealed[u] # NoKey => sealed[u] = file

\* Inductive: KeyOnFileOpensAll alone is not, because it does not exclude that
\* a process which is still starting will replace the file.
IInv ==
    /\ TypeOK
    /\ \A p \in Procs : proc[p].pc \in Loaded => proc[p].key # NoKey
    /\ \A p \in Procs : At(p, "write") => proc[p].key \in Keys
    /\ ~disturbed => StartInv /\ KeyInv

--------------------------------------------------------------------------------
LEMMA InitInv == Init => IInv
<1> SUFFICES ASSUME Init PROVE IInv
  OBVIOUS
<1>1. \A p \in Procs : proc[p].pc = "down" /\ proc[p] \in Process
  BY DEF Init, Down, Process
<1>2. TypeOK
  BY <1>1 DEF Init, TypeOK
<1>3. StartInv /\ KeyInv
  BY <1>1 DEF Init, StartInv, KeyInv, At, Starting, Loaded
<1> QED BY <1>1, <1>2, <1>3 DEF IInv, At, Loaded

LEMMA StartStep == ASSUME IInv, NEW p \in Procs, Start(p) PROVE IInv'
<1>1. /\ proc' = [proc EXCEPT ![p] = [pc |-> "read", key |-> NoKey]]
      /\ proc \in [Procs -> Process] /\ [pc |-> "read", key |-> NoKey] \in Process
      /\ file' = file /\ sealed' = sealed /\ drawn' = drawn /\ answer' = answer
      /\ disturbed \in BOOLEAN
  BY DEF Start, Become, IInv, TypeOK, Process, Starting
<1>2. TypeOK'
  BY <1>1 DEF Start, IInv, TypeOK
<1>3. \A q \in Procs \ {p} : proc'[q] = proc[q]
  BY <1>1
<1>4. proc'[p].pc = "read"
  BY <1>1
<1>5. /\ \A q \in Procs : proc'[q].pc \in Loaded => proc'[q].key # NoKey
      /\ \A q \in Procs : At(q, "write")' => proc'[q].key \in Keys
  BY <1>1, <1>3, <1>4 DEF IInv, At, Loaded
<1>6. ASSUME ~disturbed' PROVE StartInv' /\ KeyInv'
  <2>1. ~disturbed /\ \A q \in Procs : proc[q].pc \notin Starting
    BY <1>1, <1>6 DEF Start
  <2>2. KeyInv'
    BY <1>1, <1>3, <1>4, <2>1 DEF IInv, KeyInv, Loaded
  <2>3. StartInv'
    BY <1>3, <1>4, <2>1 DEF StartInv, At, Starting
  <2> QED BY <2>2, <2>3
<1> QED BY <1>2, <1>5, <1>6 DEF IInv

LEMMA ReadStep == ASSUME IInv, NEW p \in Procs, Read(p) PROVE IInv'
<1>1. file' = file /\ sealed' = sealed /\ drawn' = drawn /\ answer' = answer
      /\ proc \in [Procs -> Process] /\ proc[p].pc = "read"
  BY DEF Read, At, IInv, TypeOK
<1>2. CASE Become(p, "create", NoKey)
  <2>1. proc'[p] = [pc |-> "create", key |-> NoKey] /\ proc'[p] \in Process
        /\ proc'[p].pc = "create" /\ \A q \in Procs \ {p} : proc'[q] = proc[q]
    BY <1>1, <1>2 DEF Become, Process, Starting
  <2>2. TypeOK'
    BY <1>1, <1>2, <2>1 DEF Read, Become, IInv, TypeOK
  <2>3. /\ \A q \in Procs : proc'[q].pc \in Loaded => proc'[q].key # NoKey
        /\ \A q \in Procs : At(q, "write")' => proc'[q].key \in Keys
    BY <2>1 DEF IInv, At, Loaded
  <2>4. ASSUME ~disturbed' PROVE StartInv' /\ KeyInv'
    <3>1. ~disturbed /\ file = Absent
      BY <1>2, <2>1, <2>4, <1>1, NullsAssumption DEF Read, Become, IInv, TypeOK
    <3>2. KeyInv'
      BY <1>1, <2>1, <3>1 DEF IInv, KeyInv, Loaded
    <3>3. StartInv'
      BY <1>1, <2>1, <3>1 DEF IInv, StartInv, At, Starting, Loaded
    <3> QED BY <3>2, <3>3
  <2> QED BY <2>2, <2>3, <2>4 DEF IInv
<1>3. CASE file # Absent /\ Become(p, "listen", file) /\ UNCHANGED disturbed
  <2>1. proc'[p] = [pc |-> "listen", key |-> file] /\ proc'[p] \in Process
        /\ proc'[p].pc = "listen" /\ proc'[p].key = file /\ file # NoKey
        /\ \A q \in Procs \ {p} : proc'[q] = proc[q]
    BY <1>1, <1>3, NullsAssumption DEF Become, Process, Loaded, IInv, TypeOK
  <2>2. TypeOK'
    BY <1>1, <1>3, <2>1 DEF Become, IInv, TypeOK
  <2>3. /\ \A q \in Procs : proc'[q].pc \in Loaded => proc'[q].key # NoKey
        /\ \A q \in Procs : At(q, "write")' => proc'[q].key \in Keys
    BY <2>1 DEF IInv, At, Loaded
  <2>4. ASSUME ~disturbed PROVE StartInv' /\ KeyInv'
    <3>1. KeyInv'
      BY <1>1, <1>3, <2>1, <2>4 DEF IInv, KeyInv, Loaded
    <3>2. StartInv'
      BY <1>1, <2>1, <2>4 DEF IInv, StartInv, At, Starting, Loaded
    <3> QED BY <3>1, <3>2
  <2> QED BY <1>3, <2>2, <2>3, <2>4 DEF IInv
<1> QED BY <1>2, <1>3 DEF Read

LEMMA CreateStep == ASSUME IInv, NEW p \in Procs, Create(p) PROVE IInv'
BY NullsAssumption
DEF Create, Become, At, IInv, TypeOK, StartInv, KeyInv, Process, Starting, Loaded

LEMMA WriteStep == ASSUME IInv, NEW p \in Procs, Write(p) PROVE IInv'
BY NullsAssumption
DEF Write, Become, At, IInv, TypeOK, StartInv, KeyInv, Process, Starting, Loaded

LEMMA ListenStep == ASSUME IInv, NEW p \in Procs, Listen(p) PROVE IInv'
BY NullsAssumption
DEF Listen, Become, At, Down, IInv, TypeOK, StartInv, KeyInv, Process, Starting, Loaded

LEMMA ExitStep == ASSUME IInv, NEW p \in Procs, Exit(p) PROVE IInv'
BY NullsAssumption
DEF Exit, At, Down, IInv, TypeOK, StartInv, KeyInv, Process, Starting, Loaded

LEMMA StoreAccountStep ==
    ASSUME IInv, NEW p \in Procs, NEW u \in Users, StoreAccount(p, u) PROVE IInv'
BY NullsAssumption
DEF StoreAccount, Seals, At, IInv, TypeOK, StartInv, KeyInv, Process, Starting, Loaded

LEMMA RefreshStep ==
    ASSUME IInv, NEW p \in Procs, NEW u \in Users, Refresh(p, u) PROVE IInv'
BY DEF Refresh, Seals, Opens, At, IInv, TypeOK, StartInv, KeyInv, Process, Starting, Loaded

LEMMA RemoveAccountStep ==
    ASSUME IInv, NEW p \in Procs, NEW u \in Users, RemoveAccount(p, u) PROVE IInv'
BY DEF RemoveAccount, At, IInv, TypeOK, StartInv, KeyInv, Process, Starting, Loaded

--------------------------------------------------------------------------------
\* The invariant holds throughout.
THEOREM Inductive == Spec => []IInv
<1>1. IInv /\ UNCHANGED vars => IInv'
  BY DEF vars, At, IInv, TypeOK, StartInv, KeyInv
<1>2. IInv /\ [Next]_vars => IInv'
  BY <1>1, StartStep, ReadStep, CreateStep, WriteStep, ListenStep, ExitStep,
     StoreAccountStep, RefreshStep, RemoveAccountStep DEF Next
<1> QED BY <1>2, InitInv, PTL DEF Spec

\* Every variable stays in its type.
THEOREM TypeCorrect == Spec => []TypeOK
<1>1. IInv => TypeOK
  BY DEF IInv
<1> QED BY <1>1, Inductive, PTL

\* Undisturbed, the key on file opens every stored refresh token.
THEOREM KeyOnFileOpensAllHolds == Spec => []KeyOnFileOpensAll
<1>1. IInv => KeyOnFileOpensAll
  BY DEF IInv, KeyInv, KeyOnFileOpensAll
<1> QED BY <1>1, Inductive, PTL

\* Undisturbed, whoever serves has the key on file.
THEOREM ServesWithKeyOnFileHolds == Spec => []ServesWithKeyOnFile
<1>1. IInv => ServesWithKeyOnFile
  BY DEF IInv, KeyInv, ServesWithKeyOnFile, At, Loaded
<1> QED BY <1>1, Inductive, PTL

\* A stored refresh token is refused only after a disturbance.
THEOREM ErrorHasACauseHolds == Spec => ErrorHasACause
<1>1. ASSUME IInv, [Next]_vars, NEW u \in Users, answer'[u] = "error", answer[u] # "error",
             ~disturbed
      PROVE  FALSE
  <2>1. PICK p \in Procs, v \in Users : Refresh(p, v)
    BY <1>1 DEF Next, vars, Start, Read, Create, Write, Listen, Exit, StoreAccount,
                RemoveAccount
  <2>2. sealed[u] # NoKey /\ sealed[u] # proc[p].key /\ At(p, "up")
    BY <1>1, <2>1 DEF Refresh, Opens, Seals, IInv, TypeOK
  <2> QED BY <1>1, <2>2 DEF IInv, KeyInv, At, Loaded
<1>2. IInv /\ [Next]_vars
         => [\A u \in Users : answer'[u] = "error" /\ answer[u] # "error" => disturbed]_vars
  BY <1>1
<1> QED BY <1>2, Inductive, PTL DEF Spec, ErrorHasACause

--------------------------------------------------------------------------------
\* A process that ends in the middle of os.WriteFile leaves an empty file behind.
TornWrite == \E p \in Procs : At(p, "write") /\ At(p, "down")'

\* Undisturbed, the file is empty only while it is being written.
EmptyInv == ~disturbed /\ file = Empty => \E p \in Procs : At(p, "write")

LEMMA EmptyStep ==
    ASSUME IInv, EmptyInv, [Next]_vars, [~TornWrite]_vars
    PROVE  EmptyInv'
<1> SUFFICES ASSUME ~disturbed', file' = Empty PROVE \E p \in Procs : At(p, "write")'
  BY DEF EmptyInv
<1>1. ASSUME NEW p \in Procs, At(p, "write"), UNCHANGED <<file, disturbed>>,
             \A q \in Procs : At(q, "write") => proc'[q] = proc[q]
      PROVE  \E q \in Procs : At(q, "write")'
  BY <1>1 DEF At
<1>2. ASSUME NEW p \in Procs, ~At(p, "write"), NEW new, file' = file, ~disturbed,
             proc' = [proc EXCEPT ![p] = new]
      PROVE  \E q \in Procs : At(q, "write")'
  <2>1. PICK q \in Procs : At(q, "write")
    BY <1>2 DEF EmptyInv
  <2> QED BY <1>2, <2>1 DEF At, IInv, TypeOK
<1>3. ASSUME NEW p \in Procs, Start(p) \/ Read(p) \/ Listen(p)
      PROVE  \E q \in Procs : At(q, "write")'
  <2>1. ~At(p, "write") /\ file' = file /\ ~disturbed
    BY <1>3 DEF Start, Read, Listen, At, IInv, TypeOK
  <2>2. \E new : proc' = [proc EXCEPT ![p] = new]
    BY <1>3 DEF Start, Read, Listen, Become
  <2> QED BY <1>2, <2>1, <2>2
<1>4. ASSUME NEW p \in Procs, Create(p) PROVE \E q \in Procs : At(q, "write")'
  BY <1>4 DEF Create, Become, At, IInv, TypeOK
<1>5. ASSUME NEW p \in Procs, Write(p) PROVE FALSE
  BY <1>5, NullsAssumption DEF Write, IInv
<1>6. ASSUME NEW p \in Procs, Exit(p) PROVE \E q \in Procs : At(q, "write")'
  <2>1. At(p, "down")' /\ proc' # proc
    BY <1>6 DEF Exit, At, Down, IInv, TypeOK
  <2>2. ~At(p, "write") /\ file' = file /\ ~disturbed
    BY <1>6, <2>1 DEF Exit, TornWrite, vars
  <2> QED BY <1>2, <1>6, <2>2 DEF Exit
<1>7. ASSUME UNCHANGED <<file, proc, disturbed>> PROVE \E q \in Procs : At(q, "write")'
  BY <1>7 DEF EmptyInv, At
<1> QED
  BY <1>3, <1>4, <1>5, <1>6, <1>7 DEF Next, vars, StoreAccount, Refresh, RemoveAccount

\* As long as no process ends between the two system calls of os.WriteFile, and
\* undisturbed, every process that serves has a key and can store accounts: the
\* run key_empty needs a torn write.
THEOREM OnlyTornWritesLeaveNoKey ==
    Spec => ([][~TornWrite]_vars => [](~disturbed => ServesWithAKey))
<1>1. Init => EmptyInv
  BY NullsAssumption DEF Init, EmptyInv
<1>2. IInv /\ EmptyInv => (~disturbed => ServesWithAKey)
  BY DEF IInv, TypeOK, StartInv, KeyInv, EmptyInv, ServesWithAKey, Seals, At, Loaded
<1> QED BY <1>1, <1>2, EmptyStep, Inductive, PTL DEF Spec

================================================================================
