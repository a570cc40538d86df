--------------------------- MODULE OAuthStateProofs ---------------------------
(***************************************************************************)
(* Machine-checked proofs about OAuthState, for every set of tokens, users *)
(* and callbacks and every TTL.                                            *)
(***************************************************************************)
EXTENDS OAuthState, TLAPS

\* The table only holds rows Create inserted, with at most used changed.
SameTxn(row, s) ==
    /\ issued[s] # NoTxn
    /\ row.user = issued[s].user
    /\ row.expires = issued[s].expires

Redeemed(s) == \E d \in Callbacks : Accepted(d) /\ cb[d].state = s

TableInv ==
    /\ issued[Forged] = NoTxn
    /\ \A s \in Tokens : txns[s] # NoTxn => SameTxn(txns[s], s)
    /\ \A s \in Tokens : issued[s] # NoTxn /\ txns[s] = NoTxn => issued[s].expires < now
    /\ \A s \in Tokens : txns[s] # NoTxn /\ txns[s].used => Redeemed(s)

CallbackInv(c) ==
    LET s == cb[c].state
    IN  /\ cb[c].pc \notin {"idle", "missing"} /\ s # Forged => issued[s] # NoTxn
        /\ cb[c].pc = "idle" => cb[c].seen = NoTxn
        /\ cb[c].seen # NoTxn => SameTxn(cb[c].seen, s)
        /\ cb[c].seen # NoTxn /\ cb[c].seen.used => Redeemed(s)
        /\ cb[c].pc \in {"check", "unknown"} /\ cb[c].seen = NoTxn /\ s # Forged
              => issued[s].expires < now
        /\ cb[c].pc \in {"consume", "accepted", "replayed"} => cb[c].seen # NoTxn
        /\ cb[c].pc \in {"consume", "accepted"} => cb[c].checked <= issued[s].expires
        /\ Accepted(c) => ~Unused(s)
        /\ cb[c].pc = "unknown" /\ s # Forged => issued[s].expires < cb[c].checked
        /\ cb[c].pc = "replayed" =>
              issued[s].expires < now \/ Redeemed(s)

\* Inductive: AcceptedOnce alone is not, because it says nothing of a token
\* that one callback has redeemed and another is about to.
IInv ==
    /\ TypeOK
    /\ TableInv
    /\ \A c \in Callbacks : CallbackInv(c)
    /\ AcceptedOnce

--------------------------------------------------------------------------------
\* Every step keeps every variable in its type.
LEMMA TypeStep == TypeOK /\ [Next]_vars => TypeOK'
<1> USE ConstantsAssumption, NoTxnAssumption DEF Tokens
<1> SUFFICES ASSUME TypeOK, [Next]_vars PROVE TypeOK'
    OBVIOUS
<1>1. ASSUME NEW s \in States, NEW u \in Users, Create(s, u) PROVE TypeOK'
  <2>1. NewTxn(u) \in Txn
    BY DEF NewTxn, Txn, TypeOK
  <2> QED BY <1>1, <2>1 DEF Create, TypeOK
<1>2. ASSUME NEW c \in Callbacks, NEW s \in Tokens, Receive(c, s) PROVE TypeOK'
  BY <1>2 DEF Receive, TypeOK, Callback, Running
<1>3. ASSUME NEW c \in Callbacks, ReceiveIncomplete(c) PROVE TypeOK'
  BY <1>3 DEF ReceiveIncomplete, TypeOK, Callback, Answers
<1>4. ASSUME NEW c \in Callbacks, Find(c) PROVE TypeOK'
  BY <1>4 DEF Find, TypeOK, Callback, Running
<1>5. ASSUME NEW c \in Callbacks, Check(c) PROVE TypeOK'
  <2>1. Verdict(cb[c].seen) \in Running \cup Answers
    BY DEF Verdict, Running, Answers
  <2> QED BY <1>5, <2>1 DEF Check, TypeOK, Callback
<1>6. ASSUME NEW c \in Callbacks, Consume(c) PROVE TypeOK'
  <2> DEFINE st == cb[c].state
  <2>1. st \in Tokens /\ cb' \in [Callbacks -> Callback]
    BY <1>6 DEF Consume, TypeOK, Callback, Answers
  <2>2. Unused(st) => [txns[st] EXCEPT !.used = TRUE] \in Txn
    BY <2>1 DEF Unused, TypeOK, Txn
  <2>3. txns' \in [Tokens -> Txn \cup {NoTxn}]
    BY <1>6, <2>1, <2>2 DEF Consume, TypeOK
  <2> QED BY <1>6, <2>1, <2>3 DEF Consume, TypeOK
<1>7. ASSUME NEW c \in Callbacks, DbError(c) PROVE TypeOK'
  BY <1>7 DEF DbError, TypeOK, Callback, Answers
<1>8. CASE CleanupExpired
  BY <1>8 DEF CleanupExpired, TypeOK
<1>9. CASE Tick
  BY <1>9 DEF Tick, TypeOK
<1>10. CASE Restart
  BY <1>10 DEF Restart, TypeOK, Callback, Answers
<1>11. CASE UNCHANGED vars
  BY <1>11 DEF vars, TypeOK
<1> QED
  BY <1>1, <1>2, <1>3, <1>4, <1>5, <1>6, <1>7, <1>8, <1>9, <1>10, <1>11
  DEF Next, Handler

\* The state of every component stays in its type: rows of the table, history,
\* requests and their snapshots, the clock.
THEOREM TypeCorrect == Spec => []TypeOK
<1>1. Init => TypeOK
  BY ConstantsAssumption DEF Init, TypeOK, Callback, Running, Tokens
<1> QED BY <1>1, TypeStep, PTL DEF Spec

--------------------------------------------------------------------------------
\* What no step undoes: the clock, the history, an answer given, a token
\* redeemed or gone.
LEMMA Irreversible ==
    ASSUME TypeOK, [Next]_vars
    PROVE  /\ now \in Nat /\ now' \in Nat /\ now <= now'
           /\ \A s \in Tokens : issued[s] # NoTxn => issued'[s] = issued[s]
           /\ \A c \in Callbacks : cb[c].pc \in Answers => cb'[c] = cb[c]
           /\ \A s \in Tokens : issued[s] # NoTxn /\ ~Unused(s) => ~Unused(s)'
<1> USE ConstantsAssumption, NoTxnAssumption DEF Tokens
<1>1. now \in Nat /\ now' \in Nat /\ now <= now'
  <2>1. now' = now \/ now' = now + 1
    BY Zenon DEF Next, vars, Create, Receive, ReceiveIncomplete, Handler, Find, Check,
           Consume, DbError, CleanupExpired, Tick, Restart
  <2> QED BY <2>1 DEF TypeOK
<1>2. \A s \in Tokens : issued[s] # NoTxn => issued'[s] = issued[s]
  BY DEF TypeOK, Next, vars, Create, Receive, ReceiveIncomplete, Handler, Find, Check,
         Consume, DbError, CleanupExpired, Tick, Restart
<1>3. \A c \in Callbacks : cb[c].pc \in Answers => cb'[c] = cb[c]
  BY DEF TypeOK, Answers, Running, Next, vars, Create, Receive, ReceiveIncomplete,
         Handler, Find, Check, Consume, DbError, CleanupExpired, Tick, Restart
<1>4. ASSUME NEW s \in Tokens, issued[s] # NoTxn, ~Unused(s) PROVE ~Unused(s)'
  <2>1. ASSUME NEW t \in States, NEW u \in Users, Create(t, u) PROVE ~Unused(s)'
    BY <1>4, <2>1 DEF Create, Unused, TypeOK
  <2>2. ASSUME NEW c \in Callbacks, Consume(c) PROVE ~Unused(s)'
    <3>1. cb[c].state \in Tokens
      BY DEF TypeOK, Callback
    <3> QED BY <1>4, <2>2, <3>1 DEF Consume, Unused, TypeOK, Txn
  <2>3. CASE CleanupExpired
    BY <1>4, <2>3 DEF CleanupExpired, Expired, Unused
  <2>4. CASE UNCHANGED txns
    BY <1>4, <2>4 DEF Unused
  <2> QED
    BY <2>1, <2>2, <2>3, <2>4
    DEF Next, vars, Receive, ReceiveIncomplete, Handler, Find, Check, DbError, Tick, Restart
<1> QED BY <1>1, <1>2, <1>3, <1>4

LEMMA RedeemedStays ==
    ASSUME TypeOK, [Next]_vars
    PROVE  \A s : Redeemed(s) => Redeemed(s)'
BY Irreversible DEF Redeemed, Accepted, Answers

\* A callback the step does not touch keeps its part of the invariant.
LEMMA BystanderInv ==
    ASSUME TypeOK, [Next]_vars, NEW c \in Callbacks, CallbackInv(c), cb'[c] = cb[c]
    PROVE  CallbackInv(c)'
<1> DEFINE s == cb[c].state
<1>1. s \in Tokens /\ cb[c].seen \in Txn \cup {NoTxn} /\ cb[c].checked \in Nat
  BY DEF TypeOK, Callback
<1>2. issued[s] # NoTxn => issued[s] \in Txn /\ issued[s].expires \in Nat
  BY <1>1, NoTxnAssumption DEF TypeOK, Txn
<1>3. /\ now \in Nat /\ now' \in Nat /\ now <= now'
      /\ issued[s] # NoTxn => issued'[s] = issued[s]
      /\ issued[s] # NoTxn /\ ~Unused(s) => ~Unused(s)'
      /\ Redeemed(s) => Redeemed(s)'
  BY <1>1, Irreversible, RedeemedStays
<1>4. issued[s] # NoTxn \/ cb[c].pc \in {"idle", "missing"} \/ s = Forged
  BY DEF CallbackInv
<1>5. cb[c].seen # NoTxn => SameTxn(cb[c].seen, s) /\ SameTxn(cb[c].seen, s)'
  BY <1>3 DEF CallbackInv, SameTxn
<1>6. cb[c].seen = NoTxn \/ issued[s] # NoTxn
  BY <1>5 DEF SameTxn
<1> QED
  <2> DEFINE pc == cb[c].pc
  <2> USE DEF CallbackInv
  <2>1. cb'[c].pc = pc /\ cb'[c].state = s /\ cb'[c].seen = cb[c].seen
        /\ cb'[c].checked = cb[c].checked
    OBVIOUS
  <2>2. pc \notin {"idle", "missing"} /\ s # Forged => issued'[s] # NoTxn
    BY <1>3
  <2>3. cb[c].seen # NoTxn /\ cb[c].seen.used => Redeemed(s)'
    BY <1>3
  <2>4. pc \in {"check", "unknown"} /\ cb[c].seen = NoTxn /\ s # Forged
            => issued'[s].expires < now'
    BY <1>2, <1>3
  <2>5. pc \in {"consume", "accepted", "replayed"} => cb[c].seen # NoTxn
    OBVIOUS
  <2>6. pc \in {"consume", "accepted"} => cb[c].checked <= issued'[s].expires
    BY <1>3, <1>6
  <2>7. pc = "accepted" => ~Unused(s)'
    BY <1>3, <1>6 DEF Accepted
  <2>8. pc = "unknown" /\ s # Forged => issued'[s].expires < cb[c].checked
    BY <1>3
  <2>9. pc = "replayed" => issued'[s].expires < now' \/ Redeemed(s)'
    BY <1>2, <1>3, <1>6
  <2> QED
    BY <1>5, <2>1, <2>2, <2>3, <2>4, <2>5, <2>6, <2>7, <2>8, <2>9
    DEF Accepted, SameTxn, Unused, Redeemed

\* The table part of the invariant: rows come from Create, leave by expiry and
\* are marked used only for a callback that is accepted in the same step.
LEMMA TableStep ==
    ASSUME IInv, [Next]_vars
    PROVE  TableInv'
<1> USE ConstantsAssumption, NoTxnAssumption DEF Tokens
<1>0. TypeOK /\ TableInv /\ TypeOK'
  BY TypeStep DEF IInv
<1>1. \A s : Redeemed(s) => Redeemed(s)'
  BY <1>0, RedeemedStays
<1>2. now \in Nat /\ now' \in Nat /\ now <= now'
  BY <1>0, Irreversible
<1>3. \A s \in Tokens : issued[s] # NoTxn => issued[s].expires \in Nat
  BY <1>0 DEF TypeOK, Txn
<1>4. ASSUME NEW s \in States, NEW u \in Users, Create(s, u) PROVE TableInv'
  <2>1. NewTxn(u) # NoTxn /\ ~NewTxn(u).used /\ NewTxn(u).user = u
    <3>1. NewTxn(u) \in Txn
      BY <1>0 DEF NewTxn, TypeOK, Txn
    <3> QED BY <3>1 DEF NewTxn
  <2>2. /\ txns' = [txns EXCEPT ![s] = NewTxn(u)]
        /\ issued' = [issued EXCEPT ![s] = NewTxn(u)]
        /\ now' = now /\ cb' = cb
    BY <1>4 DEF Create
  <2>3. issued[s] = NoTxn
    BY <1>4 DEF Create
  <2>4. issued'[Forged] = NoTxn
    BY <1>0, <2>2 DEF TableInv, TypeOK
  <2>5. ASSUME NEW t \in Tokens
        PROVE  /\ txns'[t] # NoTxn => SameTxn(txns[t], t)'
               /\ issued'[t] # NoTxn /\ txns'[t] = NoTxn => issued'[t].expires < now'
               /\ txns'[t] # NoTxn /\ txns'[t].used => Redeemed(t)'
    <3>1. CASE t = s
      BY <1>0, <2>1, <2>2, <3>1 DEF SameTxn, TypeOK
    <3>2. CASE t # s
      <4>1. txns'[t] = txns[t] /\ issued'[t] = issued[t]
        BY <1>0, <2>2, <3>2 DEF TypeOK
      <4> QED BY <1>0, <1>1, <2>2, <4>1 DEF TableInv, SameTxn
    <3> QED BY <3>1, <3>2
  <2> QED BY <2>4, <2>5 DEF TableInv
<1>5. ASSUME NEW c \in Callbacks, Consume(c) PROVE TableInv'
  <2> DEFINE st == cb[c].state
  <2>1. CASE UNCHANGED txns
    BY <1>0, <1>1, <1>5, <2>1 DEF Consume, TableInv, SameTxn
  <2>2. CASE /\ Unused(st)
             /\ txns' = [txns EXCEPT ![st].used = TRUE]
             /\ cb' = [cb EXCEPT ![c].pc = "accepted"]
    <3>1. st \in Tokens /\ \E d \in Callbacks : cb'[d].pc = "accepted" /\ cb'[d].state = st
      BY <1>0, <2>2 DEF TypeOK, Callback, Redeemed, Accepted
    <3>2. issued' = issued /\ now' = now
      BY <1>5 DEF Consume
    <3>3. ASSUME NEW t \in Tokens
          PROVE  /\ (txns'[t] = NoTxn) <=> (txns[t] = NoTxn)
                 /\ txns[t] # NoTxn => /\ txns'[t].user = txns[t].user
                                       /\ txns'[t].expires = txns[t].expires
                 /\ t # st => txns'[t] = txns[t]
      <4>1. txns[st] # NoTxn /\ txns[st] \in Txn
        BY <1>0, <2>2, <3>1 DEF Unused, TypeOK
      <4>2. [txns[st] EXCEPT !.used = TRUE] \in Txn
        BY <4>1 DEF Txn
      <4> QED BY <1>0, <2>2, <3>1, <4>1, <4>2 DEF TypeOK, Txn
    <3>4. ASSUME NEW t \in Tokens
          PROVE  /\ txns'[t] # NoTxn => SameTxn(txns[t], t)'
                 /\ issued'[t] # NoTxn /\ txns'[t] = NoTxn => issued'[t].expires < now'
                 /\ txns'[t] # NoTxn /\ txns'[t].used => Redeemed(t)'
      <4>1. txns'[t] # NoTxn => SameTxn(txns[t], t)'
        BY <1>0, <3>2, <3>3 DEF TableInv, SameTxn
      <4>2. issued'[t] # NoTxn /\ txns'[t] = NoTxn => issued'[t].expires < now'
        BY <1>0, <3>2, <3>3 DEF TableInv
      <4>3. txns'[t] # NoTxn /\ txns'[t].used => Redeemed(t)'
        <5>1. CASE t = st
          BY <3>1, <5>1 DEF Redeemed, Accepted
        <5>2. CASE t # st
          <6>1. txns[t] # NoTxn /\ txns[t].used => Redeemed(t)
            BY <1>0 DEF TableInv
          <6> QED BY <1>1, <3>3, <5>2, <6>1
        <5> QED BY <5>1, <5>2
      <4> QED BY <4>1, <4>2, <4>3
    <3>5. issued'[Forged] = NoTxn
      BY <1>0, <3>2 DEF TableInv
    <3> QED BY <3>4, <3>5 DEF TableInv
  <2> QED BY <1>5, <2>1, <2>2 DEF Consume
<1>6. CASE CleanupExpired
  <2>1. issued' = issued /\ now' = now
    BY <1>6 DEF CleanupExpired
  <2>2. ASSUME NEW t \in Tokens
        PROVE  \/ txns'[t] = txns[t]
               \/ txns'[t] = NoTxn /\ txns[t] # NoTxn /\ txns[t].expires < now
    BY <1>6 DEF CleanupExpired, Expired
  <2> QED BY <1>0, <1>1, <2>1, <2>2 DEF TableInv, SameTxn
<1>7. CASE Tick
  BY <1>0, <1>1, <1>2, <1>3, <1>7 DEF Tick, TableInv, SameTxn, TypeOK
<1>8. CASE UNCHANGED <<now, txns, issued>>
  BY <1>0, <1>1, <1>8 DEF TableInv, SameTxn
<1> QED
  BY <1>4, <1>5, <1>6, <1>7, <1>8
  DEF Next, vars, Receive, ReceiveIncomplete, Handler, Find, Check, DbError, Restart

\* A callback that is not running, or whose step only moves it on, is one of the
\* cases below; each says what its new record is and why the invariant holds.
LEMMA ActorInv ==
    ASSUME IInv, [Next]_vars, NEW c \in Callbacks, cb'[c] # cb[c]
    PROVE  CallbackInv(c)'
<1> USE ConstantsAssumption, NoTxnAssumption DEF Tokens
<1> DEFINE s == cb[c].state
<1>0. /\ TypeOK /\ TableInv /\ CallbackInv(c)
      /\ s \in Tokens /\ cb[c].seen \in Txn \cup {NoTxn} /\ cb[c].checked \in Nat
      /\ \A t \in Tokens : issued[t] # NoTxn => issued[t].expires \in Nat
  BY DEF IInv, TypeOK, Callback, Txn
<1>1. \A t : Redeemed(t) => Redeemed(t)'
  BY <1>0, RedeemedStays
<1>2. ASSUME NEW t \in Tokens, Receive(c, t) PROVE CallbackInv(c)'
  <2>1. cb[c].seen = NoTxn
    BY <1>0, <1>2 DEF CallbackInv, Receive
  <2> QED
    BY <1>0, <1>2, <2>1 DEF Receive, CallbackInv, TypeOK, Callback, Accepted
<1>3. CASE ReceiveIncomplete(c)
  BY <1>0, <1>1, <1>3
  DEF ReceiveIncomplete, CallbackInv, TypeOK, Callback, Accepted, SameTxn
<1>4. CASE Find(c)
  <2>1. /\ cb'[c].pc = "check" /\ cb'[c].state = s /\ cb'[c].seen = txns[s]
        /\ txns' = txns /\ issued' = issued /\ now' = now /\ cb[c].pc = "find"
    BY <1>0, <1>4 DEF Find, TypeOK, Callback
  <2> QED
    BY <1>0, <1>1, <2>1 DEF CallbackInv, TableInv, SameTxn, Accepted
<1>5. CASE Check(c)
  <2>1. /\ cb'[c].pc = Verdict(cb[c].seen) /\ cb'[c].state = s
        /\ cb'[c].seen = cb[c].seen /\ cb'[c].checked = now
        /\ txns' = txns /\ issued' = issued /\ now' = now /\ cb[c].pc = "check"
    BY <1>0, <1>5 DEF Check, TypeOK, Callback
  <2>2. CASE cb[c].seen = NoTxn
    BY <1>0, <1>1, <2>1, <2>2 DEF CallbackInv, Verdict, Accepted
  <2>3. CASE cb[c].seen # NoTxn
    <3>1. SameTxn(cb[c].seen, s) /\ issued[s].expires \in Nat /\ now \in Nat
      BY <1>0, <2>3 DEF CallbackInv, SameTxn, TypeOK
    <3> QED
      BY <1>0, <1>1, <2>1, <2>3, <3>1 DEF CallbackInv, Verdict, Accepted, SameTxn
  <2> QED BY <2>2, <2>3
<1>6. CASE Consume(c)
  <2>1. /\ cb'[c].pc \in {"accepted", "replayed"} /\ cb'[c].state = s
        /\ cb'[c].seen = cb[c].seen /\ cb'[c].checked = cb[c].checked
        /\ issued' = issued /\ now' = now /\ cb[c].pc = "consume"
    BY <1>0, <1>6 DEF Consume, TypeOK, Callback
  <2>2. cb[c].seen # NoTxn /\ SameTxn(cb[c].seen, s)
    BY <1>0, <2>1 DEF CallbackInv
  <2>3. cb'[c].pc = "accepted" => ~Unused(s)'
    BY <1>0, <1>6 DEF Consume, Unused, TypeOK, Callback, Txn
  <2>4. cb'[c].pc = "replayed" => issued[s].expires < now \/ Redeemed(s)
    <3>1. cb'[c].pc = "replayed" => ~Unused(s)
      BY <1>0, <1>6 DEF Consume, TypeOK, Callback
    <3> QED BY <1>0, <2>2, <3>1 DEF TableInv, Unused, SameTxn
  <2> QED
    BY <1>0, <1>1, <2>1, <2>2, <2>3, <2>4
    DEF CallbackInv, SameTxn, Accepted, Unused, Redeemed
<1>7. CASE DbError(c)
  BY <1>0, <1>1, <1>7
  DEF DbError, CallbackInv, TypeOK, Callback, Accepted, SameTxn
<1>8. CASE Restart
  BY <1>0, <1>1, <1>8
  DEF Restart, CallbackInv, TypeOK, Callback, Running, Accepted, SameTxn
<1>9. ASSUME NEW d \in Callbacks, c # d PROVE \A t \in Tokens :
          ~Receive(d, t) /\ ~ReceiveIncomplete(d) /\ ~Handler(d) /\ ~DbError(d)
  BY <1>0, <1>9
  DEF TypeOK, Receive, ReceiveIncomplete, Handler, Find, Check, Consume, DbError
<1> QED
  BY <1>2, <1>3, <1>4, <1>5, <1>6, <1>7, <1>8, <1>9
  DEF Next, vars, Handler, Create, CleanupExpired, Tick

\* Two acceptances of a token would need two UPDATEs that found it unused; the
\* first one ends that for good.
LEMMA OnceStep ==
    ASSUME IInv, [Next]_vars
    PROVE  AcceptedOnce'
<1> USE ConstantsAssumption DEF Tokens
<1>0. TypeOK /\ AcceptedOnce /\ \A c \in Callbacks : CallbackInv(c)
  BY DEF IInv
<1>1. ASSUME NEW c \in Callbacks, Consume(c) PROVE AcceptedOnce'
  <2> DEFINE s == cb[c].state
  <2>1. \A d \in Callbacks \ {c} : cb'[d] = cb[d]
    BY <1>0, <1>1 DEF Consume, TypeOK
  <2>2. CASE Unused(s)
    <3>1. \A d \in Callbacks : Accepted(d) => cb[d].state # s
      BY <1>0, <2>2 DEF CallbackInv
    <3>2. cb'[c].state = s
      BY <1>0, <1>1 DEF Consume, TypeOK, Callback
    <3> QED BY <1>0, <2>1, <3>1, <3>2 DEF AcceptedOnce, Accepted
  <2>3. CASE ~Unused(s)
    <3>1. cb'[c].pc = "replayed"
      BY <1>0, <1>1, <2>3 DEF Consume, TypeOK, Callback
    <3> QED BY <1>0, <2>1, <3>1 DEF AcceptedOnce, Accepted
  <2> QED BY <2>2, <2>3
<1>2. CASE \A c \in Callbacks : Accepted(c)' => cb'[c] = cb[c]
  BY <1>0, <1>2 DEF AcceptedOnce, Accepted
<1>3. ASSUME NEW c \in Callbacks, Check(c) PROVE \A d \in Callbacks : Accepted(d)' => cb'[d] = cb[d]
  <2>1. Verdict(cb[c].seen) # "accepted"
    BY DEF Verdict
  <2> QED BY <1>0, <1>3, <2>1 DEF Check, Accepted, TypeOK, Callback
<1>4. ASSUME NEW c \in Callbacks, (\E s \in Tokens : Receive(c, s)) \/ ReceiveIncomplete(c)
                                  \/ Find(c) \/ DbError(c)
      PROVE  \A d \in Callbacks : Accepted(d)' => cb'[d] = cb[d]
  BY <1>0, <1>4
  DEF Receive, ReceiveIncomplete, Find, DbError, Accepted, TypeOK, Callback
<1>5. CASE Restart
  BY <1>0, <1>5, <1>2 DEF Restart, Accepted, TypeOK, Callback
<1>6. CASE UNCHANGED cb
  BY <1>2, <1>6
<1> QED
  BY <1>1, <1>2, <1>3, <1>4, <1>5, <1>6
  DEF Next, vars, Handler, Create, CleanupExpired, Tick

\* IInv is inductive.
THEOREM Inductive == Spec => []IInv
<1> USE ConstantsAssumption, NoTxnAssumption DEF Tokens
<1>1. Init => IInv
  <2>1. Init => TypeOK
    BY DEF Init, TypeOK, Callback, Running
  <2> QED
    BY <2>1 DEF Init, IInv, TableInv, CallbackInv, Accepted, AcceptedOnce
<1>2. ASSUME IInv, [Next]_vars PROVE IInv'
  <2>1. TypeOK' /\ TableInv' /\ AcceptedOnce'
    BY <1>2, TypeStep, TableStep, OnceStep DEF IInv
  <2>2. ASSUME NEW c \in Callbacks PROVE CallbackInv(c)'
    <3>1. CASE cb'[c] = cb[c]
      BY <1>2, <3>1, BystanderInv DEF IInv
    <3>2. CASE cb'[c] # cb[c]
      BY <1>2, <3>2, ActorInv
    <3> QED BY <3>1, <3>2
  <2> QED BY <2>1, <2>2 DEF IInv
<1> QED BY <1>1, <1>2, PTL DEF Spec

\* One token, one acceptance, however SELECTs and UPDATEs of callbacks,
\* cleanups and restarts interleave (ValidateAndConsume).
THEOREM AcceptedOnceHolds == Spec => []AcceptedOnce
<1>1. IInv => AcceptedOnce
  BY DEF IInv
<1> QED BY <1>1, Inductive, PTL

\* The user a callback goes on to connect is the one its token was drawn for
\* (the row is read before it is redeemed, and may be gone in between), and the
\* token passed the expiry test of ValidateAndConsume in time.
THEOREM AcceptedAsIssuedHolds == Spec => []AcceptedAsIssued
<1>1. IInv => AcceptedAsIssued
  BY DEF IInv, CallbackInv, AcceptedAsIssued, Accepted, SameTxn
<1> QED BY <1>1, Inductive, PTL

\* CleanupExpired never takes the row of a live token from under a callback.
THEOREM UnknownOnlyIfExpiredHolds == Spec => []UnknownOnlyIfExpired
<1>1. IInv => UnknownOnlyIfExpired
  BY DEF IInv, CallbackInv, UnknownOnlyIfExpired
<1> QED BY <1>1, Inductive, PTL

\* ValidateAndConsume reports a replay only after an acceptance or the expiry.
THEOREM ReplayHasACauseHolds == Spec => []ReplayHasACause
<1>1. IInv => ReplayHasACause
  BY DEF IInv, CallbackInv, ReplayHasACause, Redeemed
<1> QED BY <1>1, Inductive, PTL

--------------------------------------------------------------------------------
\* The service implements SingleUse, in two halves: who owns, what is redeemed.

\* Create hands a token out; every other step leaves the owners alone.
LEMMA OwnerStep ==
    ASSUME IInv, [Next]_vars
    PROVE  \/ Owner' = Owner
           \/ \E s \in States, u \in Users :
                 /\ Owner[s] = Nobody
                 /\ Owner' = [Owner EXCEPT ![s] = u]
                 /\ cb' = cb
<1> USE ConstantsAssumption, NoTxnAssumption DEF Tokens
<1>1. ASSUME NEW s \in States, NEW u \in Users, Create(s, u)
      PROVE  Owner[s] = Nobody /\ Owner' = [Owner EXCEPT ![s] = u] /\ cb' = cb
  <2>1. NewTxn(u) # NoTxn /\ NewTxn(u).user = u
    <3>1. NewTxn(u) \in Txn
      BY DEF IInv, NewTxn, TypeOK, Txn
    <3> QED BY <3>1 DEF NewTxn
  <2>2. issued[s] = NoTxn /\ issued' = [issued EXCEPT ![s] = NewTxn(u)] /\ cb' = cb
    BY <1>1 DEF Create
  <2>3. \A t \in States : issued'[t] = IF t = s THEN NewTxn(u) ELSE issued[t]
    BY <2>2 DEF IInv, TypeOK
  <2>4. \A t \in States : Owner'[t] = IF t = s THEN u ELSE Owner[t]
    BY <2>1, <2>3 DEF Owner
  <2>5. DOMAIN Owner = States /\ Owner[s] = Nobody
    BY <2>2 DEF Owner
  <2>6. Owner' = [t \in States |-> Owner'[t]]
    BY DEF Owner
  <2>7. [Owner EXCEPT ![s] = u] = [t \in States |-> IF t = s THEN u ELSE Owner[t]]
    BY <2>5
  <2> QED BY <2>2, <2>4, <2>5, <2>6, <2>7
<1>2. CASE issued' = issued
  BY <1>2 DEF Owner
<1> QED
  BY <1>1, <1>2
  DEF Next, vars, Receive, ReceiveIncomplete, Handler, Find, Check, Consume, DbError,
      CleanupExpired, Tick, Restart

\* Only the UPDATE of Consume that finds the token unused redeems anything, and
\* what it redeems was never redeemed and is owned by the user it goes on with.
LEMMA RedemptionsStep ==
    ASSUME IInv, [Next]_vars
    PROVE  \/ Redemptions' = Redemptions
           \/ \E c \in Callbacks, s \in States :
                 /\ Owner[s] # Nobody /\ \A p \in Redemptions : p[2] # s
                 /\ Redemptions' = Redemptions \cup {<<c, s, Owner[s]>>}
                 /\ issued' = issued
<1> USE ConstantsAssumption, NoTxnAssumption DEF Tokens
<1>0. TypeOK /\ TableInv /\ \A d \in Callbacks : CallbackInv(d)
  BY DEF IInv
<1>1. ASSUME \A d \in Callbacks : Accepted(d)' => cb'[d] = cb[d] PROVE Redemptions' = Redemptions
  <2>1. \A d \in Callbacks : Accepted(d) => cb'[d] = cb[d]
    BY <1>0, Irreversible DEF Accepted, Answers
  <2> QED BY <1>1, <2>1 DEF Redemptions, Redemption, Accepted
<1>2. ASSUME NEW c \in Callbacks, Consume(c), Unused(cb[c].state)
      PROVE  LET s == cb[c].state
             IN  /\ s \in States /\ Owner[s] # Nobody /\ \A p \in Redemptions : p[2] # s
                 /\ Redemptions' = Redemptions \cup {<<c, s, Owner[s]>>}
                 /\ issued' = issued
  <2> DEFINE s == cb[c].state
  <2>1. s \in Tokens /\ cb[c].pc = "consume" /\ issued' = issued
    BY <1>0, <1>2 DEF Consume, TypeOK, Callback
  <2>2. SameTxn(cb[c].seen, s)
    BY <1>0, <2>1 DEF CallbackInv
  <2>3. s \in States /\ issued[s] \in Txn
    BY <1>0, <2>1, <2>2 DEF SameTxn, TableInv, TypeOK
  <2>4. Owner[s] = cb[c].seen.user /\ Owner[s] # Nobody
    BY <2>2, <2>3 DEF Owner, SameTxn, Txn
  <2>5. \A d \in Callbacks : Accepted(d) => cb[d].state # s
    BY <1>0, <1>2 DEF CallbackInv
  <2>6. \A p \in Redemptions : p[2] # s
    BY <2>5 DEF Redemptions, Redemption
  <2>7. cb' = [cb EXCEPT ![c].pc = "accepted"]
    BY <1>2 DEF Consume
  <2>8. /\ \A d \in Callbacks \ {c} : cb'[d] = cb[d]
        /\ cb'[c].pc = "accepted" /\ cb'[c].state = s /\ cb'[c].seen = cb[c].seen
        /\ ~Accepted(c)
    BY <1>0, <2>1, <2>7 DEF TypeOK, Callback, Accepted
  <2>9. Redemptions' = Redemptions \cup {Redemption(c)}
    BY <2>8 DEF Redemptions, Redemption, Accepted
  <2> QED BY <2>1, <2>3, <2>4, <2>6, <2>9 DEF Redemption
<1>3. ASSUME NEW c \in Callbacks, Consume(c), ~Unused(cb[c].state)
      PROVE  \A d \in Callbacks : Accepted(d)' => cb'[d] = cb[d]
  BY <1>0, <1>3 DEF Consume, Accepted, TypeOK, Callback
<1>4. ASSUME NEW c \in Callbacks, Check(c)
      PROVE  \A d \in Callbacks : Accepted(d)' => cb'[d] = cb[d]
  <2>1. Verdict(cb[c].seen) # "accepted"
    BY DEF Verdict
  <2> QED BY <1>0, <1>4, <2>1 DEF Check, Accepted, TypeOK, Callback
<1>5. ASSUME NEW c \in Callbacks, (\E s \in Tokens : Receive(c, s)) \/ ReceiveIncomplete(c)
                                  \/ Find(c) \/ DbError(c)
      PROVE  \A d \in Callbacks : Accepted(d)' => cb'[d] = cb[d]
  BY <1>0, <1>5
  DEF Receive, ReceiveIncomplete, Find, DbError, Accepted, TypeOK, Callback
<1>6. ASSUME Restart PROVE \A d \in Callbacks : Accepted(d)' => cb'[d] = cb[d]
  BY <1>0, <1>6 DEF Restart, Accepted, TypeOK, Callback
<1>7. ASSUME UNCHANGED cb PROVE \A d \in Callbacks : Accepted(d)' => cb'[d] = cb[d]
  BY <1>7
<1> QED
  BY <1>1, <1>2, <1>3, <1>4, <1>5, <1>6, <1>7
  DEF Next, vars, Handler, Create, CleanupExpired, Tick

\* Each run of the service is a run of the promise: a token is handed out once,
\* for one user, and redeemed at most once, for that user.
THEOREM ImplementsSingleUse == Spec => SingleUseSpec
<1>1. Init => Promise!Init
  BY DEF Init, Promise!Init, Owner, Redemptions, Accepted, Tokens
<1>2. ASSUME IInv, [Next]_vars PROVE [Promise!Next]_(Promise!vars)
  <2>1. CASE Owner' = Owner /\ Redemptions' = Redemptions
    BY <2>1 DEF Promise!vars
  <2>2. CASE \E s \in States, u \in Users :
                 /\ Owner[s] = Nobody
                 /\ Owner' = [Owner EXCEPT ![s] = u]
                 /\ cb' = cb
    BY <2>2 DEF Promise!Next, Promise!Issue, Redemptions, Redemption, Accepted
  <2>3. CASE \E c \in Callbacks, s \in States :
                 /\ Owner[s] # Nobody /\ \A p \in Redemptions : p[2] # s
                 /\ Redemptions' = Redemptions \cup {<<c, s, Owner[s]>>}
                 /\ issued' = issued
    BY <2>3 DEF Promise!Next, Promise!Redeem, Owner
  <2> QED BY <1>2, <2>1, <2>2, <2>3, OwnerStep, RedemptionsStep
<1> QED BY <1>1, <1>2, Inductive, PTL DEF Spec, SingleUseSpec, Promise!Spec

--------------------------------------------------------------------------------
\* SingleUse says what it is meant to say.

\* Each token is redeemed by one login at most, for the user it was handed out for.
OneRedemptionEach ==
    /\ \A p, q \in Redemptions : p[2] = q[2] => p = q
    /\ \A p \in Redemptions : p[3] = Owner[p[2]] /\ p[3] # Nobody

\* Whatever implements SingleUse cannot redeem a token twice or for another user.
\* This is about the abstract specification alone: nothing of OAuthState is used.
THEOREM SingleUseIsSingleUse == SingleUseSpec => []OneRedemptionEach
<1> DEFINE Typed == /\ DOMAIN Owner = States
                    /\ \A p \in Redemptions : \E l \in Callbacks, s \in States : p = <<l, s, p[3]>>
<1>1. Promise!Init => OneRedemptionEach /\ Typed
  BY DEF Promise!Init, OneRedemptionEach
<1>2. ASSUME OneRedemptionEach, Typed, [Promise!Next]_(Promise!vars)
      PROVE  OneRedemptionEach' /\ Typed'
  <2>1. CASE UNCHANGED Promise!vars
    BY <1>2, <2>1 DEF Promise!vars, OneRedemptionEach
  <2>2. ASSUME NEW s \in States, NEW u \in Users, Promise!Issue(s, u)
        PROVE  OneRedemptionEach' /\ Typed'
    <3>1. Redemptions' = Redemptions /\ Owner' = [Owner EXCEPT ![s] = u] /\ Owner[s] = Nobody
      BY <2>2 DEF Promise!Issue
    <3>2. \A p \in Redemptions : Owner'[p[2]] = Owner[p[2]]
      BY <1>2, <3>1 DEF OneRedemptionEach
    <3>3. DOMAIN Owner' = States
      BY <1>2, <3>1
    <3> HIDE DEF Typed
    <3>4. OneRedemptionEach'
      BY <1>2, <3>1, <3>2 DEF OneRedemptionEach
    <3> QED BY <1>2, <3>1, <3>3, <3>4 DEF Typed
  <2>3. ASSUME NEW l \in Callbacks, NEW s \in States, Promise!Redeem(l, s)
        PROVE  OneRedemptionEach' /\ Typed'
    <3> DEFINE new == <<l, s, Owner[s]>>
    <3>1. /\ Redemptions' = Redemptions \cup {new} /\ Owner' = Owner /\ Owner[s] # Nobody
          /\ \A p \in Redemptions : p[2] # s
      BY <2>3 DEF Promise!Redeem
    <3>2. new[2] = s /\ new[3] = Owner[s] /\ new = <<l, s, new[3]>>
      OBVIOUS
    <3> HIDE DEF new
    <3>3. OneRedemptionEach'
      BY <1>2, <3>1, <3>2 DEF OneRedemptionEach
    <3> QED BY <1>2, <3>1, <3>2, <3>3
  <2> QED BY <1>2, <2>1, <2>2, <2>3 DEF Promise!Next
<1> HIDE DEF Typed
<1> QED BY <1>1, <1>2, PTL DEF SingleUseSpec, Promise!Spec

================================================================================
