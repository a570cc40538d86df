------------------------------ MODULE LoginProofs ------------------------------
(***************************************************************************)
(* Machine-checked proofs about the composition of OAuthState and          *)
(* TokenService, for every set of users, tokens, accounts and requests.    *)
(* Each part behaves in it as it does alone, so that the theorems about    *)
(* the parts hold of the whole; what the parts cannot say is proved here.  *)
(***************************************************************************)
EXTENDS Login, TLAPS

SP == INSTANCE OAuthStateProofs WITH Callbacks <- Logins
AP == INSTANCE TokenServiceProofs

--------------------------------------------------------------------------------
\* The parts in the composition.

LEMMA StateStepSame == [S!Next]_(S!vars) => [SP!Next]_(SP!vars)
BY DEF S!Next, SP!Next, S!Tokens, SP!Tokens, S!Create, SP!Create, S!NewTxn, SP!NewTxn,
   S!Receive, SP!Receive, S!ReceiveIncomplete, SP!ReceiveIncomplete, S!Handler,
   SP!Handler, S!Find, SP!Find, S!Check, SP!Check, S!Verdict, SP!Verdict, S!Consume,
   SP!Consume, S!Unused, SP!Unused, S!DbError, SP!DbError, S!CleanupExpired,
   SP!CleanupExpired, S!Expired, SP!Expired, S!Tick, SP!Tick, S!Restart, SP!Restart,
   S!Running, SP!Running, S!vars, SP!vars

LEMMA StateSame == S!Spec => SP!Spec
<1>1. S!Init => SP!Init
  BY DEF S!Init, SP!Init, S!Tokens, SP!Tokens
<1> QED BY <1>1, StateStepSame, PTL DEF S!Spec, SP!Spec

LEMMA AccountsSame == A!Spec => AP!Spec
<1>1. A!Init => AP!Init
  BY DEF A!Init, AP!Init, A!StoredRows, AP!StoredRows, A!RefreshToken, AP!RefreshToken,
     A!Blank, AP!Blank
<1>2. [A!Next]_(A!vars) => [AP!Next]_(AP!vars)
  <2> USE DEF A!At, AP!At, A!Mine, AP!Mine, A!Goto, AP!Goto, A!End, AP!End, A!Fail,
      AP!Fail, A!Blank, AP!Blank, A!ErrorOf, AP!ErrorOf
  <2>1. ASSUME NEW r \in Reqs, NEW op, NEW u, A!Begin(r, op, u) PROVE AP!Begin(r, op, u)
    BY <2>1 DEF A!Begin, AP!Begin
  <2>2. ASSUME NEW r \in Reqs, A!Handler(r) PROVE AP!Handler(r)
    <3>1. CASE A!Find(r)
      BY <3>1 DEF A!Find, AP!Find, AP!Handler
    <3>2. CASE A!Check(r)
      BY <3>2 DEF A!Check, AP!Check, A!TooNear, AP!TooNear, AP!Handler
    <3>3. CASE A!Open(r)
      BY <3>3 DEF A!Open, AP!Open, AP!Handler
    <3>4. CASE A!Renew(r)
      BY <3>4 DEF A!Renew, AP!Renew, AP!Handler
    <3>5. CASE A!Reread(r)
      BY <3>5 DEF A!Reread, AP!Reread, AP!Handler
    <3>6. CASE A!Write(r)
      BY <3>6 DEF A!Write, AP!Write, A!Written, AP!Written, A!Coalesce, AP!Coalesce, AP!Handler
    <3>7. CASE A!Result(r)
      BY <3>7 DEF A!Result, AP!Result, AP!Handler
    <3>8. CASE A!Exchange(r)
      BY <3>8 DEF A!Exchange, AP!Exchange, AP!Handler
    <3>9. CASE A!Userinfo(r)
      BY <3>9 DEF A!Userinfo, AP!Userinfo, AP!Handler
    <3>10. CASE A!Upsert(r)
      BY <3>10 DEF A!Upsert, AP!Upsert, AP!Handler
    <3>11. CASE A!Insert(r)
      BY <3>11 DEF A!Insert, AP!Insert, A!NewRow, AP!NewRow, AP!Handler
    <3>12. CASE A!Update(r)
      BY <3>12 DEF A!Update, AP!Update, A!NewRow, AP!NewRow, AP!Handler
    <3>13. CASE A!Confirm(r)
      BY <3>13 DEF A!Confirm, AP!Confirm, AP!Handler
    <3>14. CASE A!Delete(r)
      BY <3>14 DEF A!Delete, AP!Delete, AP!Handler
    <3> QED BY <2>2, <3>1, <3>2, <3>3, <3>4, <3>5, <3>6, <3>7, <3>8, <3>9, <3>10, <3>11,
               <3>12, <3>13, <3>14 DEF A!Handler
  <2>3. ASSUME NEW r \in Reqs, A!DbError(r) PROVE AP!DbError(r)
    BY <2>3 DEF A!DbError, AP!DbError, A!Statements, AP!Statements
  <2>4. A!Tick => AP!Tick
    BY DEF A!Tick, AP!Tick, A!Calling, AP!Calling
  <2>5. A!Restart => AP!Restart
    BY DEF A!Restart, AP!Restart, A!Running, AP!Running, A!Calling, AP!Calling,
       A!Statements, AP!Statements
  <2> QED BY <2>1, <2>2, <2>3, <2>4, <2>5 DEF A!Next, AP!Next, A!Ops, AP!Ops, A!vars, AP!vars
<1> QED BY <1>1, <1>2, PTL DEF A!Spec, AP!Spec

\* Every step of the composition is a step of the state service or leaves its
\* state alone: OAuthState is OAuthState still, whatever the logins go on to do.
THEOREM ImplementsState == Spec => S!Spec
<1>1. Init => S!Init
  BY DEF Init
<1>2. [Next]_vars => [S!Next]_(S!vars)
  <2> USE DEF S!vars, S!Next, S!Handler, stateVars
  <2>1. StateOnly => S!Next
    BY DEF StateOnly
  <2>2. ASSUME NEW c \in Logins, Validate(c) \/ Redeem(c) PROVE S!Next
    BY <2>2 DEF Validate, Redeem
  <2>3. ASSUME NEW c \in Logins, Store(c) PROVE UNCHANGED S!vars
    BY <2>3 DEF Store, A!Insert, A!Update
  <2>4. ASSUME NEW r \in Reqs, Proceed(r) \/ Fails(r) PROVE UNCHANGED S!vars
    BY <2>4 DEF Proceed, Fails, A!Find, A!Check, A!Open, A!Renew, A!Reread, A!Write, A!Result,
       A!Exchange, A!Userinfo, A!Upsert, A!Confirm, A!Delete, A!DbError
  <2>5. ASSUME NEW r \in Others, NEW op, NEW u, Arrive(r, op, u) PROVE UNCHANGED S!vars
    BY <2>5 DEF Arrive, A!Begin
  <2>6. Tick => S!Next
    BY DEF Tick
  <2>7. Restart => S!Next \/ UNCHANGED S!vars
    BY DEF Restart
  <2>8. UNCHANGED vars => UNCHANGED S!vars
    BY DEF vars
  <2> QED BY <2>1, <2>2, <2>3, <2>4, <2>5, <2>6, <2>7, <2>8 DEF Next
<1> QED BY <1>1, <1>2, PTL DEF Spec, S!Spec

--------------------------------------------------------------------------------
\* What the theorems about the state service say in the composition.

LEMMA StateParts == SP!ConstantsAssumption /\ SP!NoTxnAssumption
BY PartsAssumption
DEF S!ConstantsAssumption, SP!ConstantsAssumption, S!NoTxnAssumption, SP!NoTxnAssumption,
    S!Txn, SP!Txn

LEMMA StateInv == Spec => []SP!IInv
<1>1. SP!Spec => []SP!IInv
  BY StateParts, SP!Inductive DEF SP!ConstantsAssumption, SP!NoTxnAssumption
<1> QED BY <1>1, StateSame, ImplementsState, PTL

\* A callback that holds a row holds the one of its token, for the user it was
\* drawn for; no two callbacks are accepted with one token.
Rightful(c) ==
    /\ cb[c].state \in States
    /\ issued[cb[c].state] # NoTxn
    /\ cb[c].seen.user = issued[cb[c].state].user
    /\ cb[c].seen.user \in Users
    /\ cb[c].checked <= issued[cb[c].state].expires

StateFacts ==
    /\ cb \in [Logins -> S!Callback]
    /\ \A c \in Logins : cb[c].pc \in {"consume", "accepted"} => Rightful(c)
    /\ \A c, d \in Logins :
          /\ cb[c].pc = "accepted" /\ cb[d].pc = "accepted"
          /\ cb[c].state = cb[d].state
          => c = d
    /\ \A s \in States : issued[s] # NoTxn => issued[s].user # Nobody

LEMMA StateFactsHold == Spec => []StateFacts
<1>1. ASSUME SP!IInv PROVE StateFacts
  <2>1. cb \in [Logins -> S!Callback]
    BY <1>1 DEF SP!IInv, SP!TypeOK, SP!Callback, S!Callback, SP!Running, S!Running,
       SP!Answers, S!Answers, SP!Tokens, S!Tokens, SP!Txn, S!Txn
  <2>2. ASSUME NEW c \in Logins, cb[c].pc \in {"consume", "accepted"} PROVE Rightful(c)
    <3>1. SP!CallbackInv(c) /\ SP!TableInv /\ cb[c] \in SP!Callback
      BY <1>1 DEF SP!IInv, SP!TypeOK
    <3>2. /\ cb[c].seen # NoTxn /\ SP!SameTxn(cb[c].seen, cb[c].state)
          /\ cb[c].checked <= issued[cb[c].state].expires
      BY <2>2, <3>1 DEF SP!CallbackInv
    <3>3. cb[c].state \in States /\ issued[cb[c].state] # NoTxn
      BY <3>1, <3>2 DEF SP!SameTxn, SP!TableInv, SP!Callback, SP!Tokens
    <3> QED BY <3>1, <3>2, <3>3 DEF Rightful, SP!SameTxn, SP!Callback, SP!Txn
  <2>3. \A c, d \in Logins :
          /\ cb[c].pc = "accepted" /\ cb[d].pc = "accepted"
          /\ cb[c].state = cb[d].state
          => c = d
    BY <1>1 DEF SP!IInv, SP!AcceptedOnce, SP!Accepted
  <2>4. \A s \in States : issued[s] # NoTxn => issued[s].user # Nobody
    BY <1>1, PartsAssumption
    DEF SP!IInv, SP!TypeOK, SP!Tokens, SP!Txn, S!ConstantsAssumption
  <2> QED BY <2>1, <2>2, <2>3, <2>4 DEF StateFacts
<1> QED BY <1>1, StateInv, PTL

\* Every step of the composition is a step of the account storage or leaves its
\* state alone: a login begins there at the moment its token is accepted.
THEOREM ImplementsAccounts == Spec => A!Spec
<1>1. Init => A!Init
  BY DEF Init
<1>2. ASSUME StateFacts, [Next]_vars PROVE [A!Next]_(A!vars)
  <2> USE DEF A!vars, A!Next, A!Handler, accountVars, Reqs
  <2>1. StateOnly => UNCHANGED A!vars
    BY DEF StateOnly, S!Create, S!Receive, S!ReceiveIncomplete, S!DbError, S!CleanupExpired
  <2>2. ASSUME NEW c \in Logins, Validate(c) PROVE UNCHANGED A!vars
    BY <2>2 DEF Validate, S!Find, S!Check
  <2>3. ASSUME NEW c \in Logins, Redeem(c) PROVE A!Next \/ UNCHANGED A!vars
    <3>1. LoginUser(c) \in Users /\ "login" \in A!Ops
      BY <1>2, <2>3 DEF Redeem, S!Consume, StateFacts, Rightful, LoginUser, A!Ops
    <3> QED BY <2>3, <3>1 DEF Redeem, S!Consume
  <2>4. ASSUME NEW c \in Logins, Store(c) PROVE A!Next
    BY <2>4 DEF Store
  <2>5. ASSUME NEW r \in Reqs, Proceed(r) \/ Fails(r) PROVE A!Next
    BY <2>5 DEF Proceed, Fails
  <2>6. ASSUME NEW r \in Others, NEW op \in A!Ops \ {"login"}, NEW u \in Users,
               Arrive(r, op, u)
        PROVE  A!Next
    BY <2>6 DEF Arrive
  <2>7. Tick => A!Next
    BY DEF Tick
  <2>8. Restart => A!Next \/ UNCHANGED A!vars
    BY DEF Restart
  <2>9. UNCHANGED vars => UNCHANGED A!vars
    BY DEF vars
  <2> QED BY <1>2, <2>1, <2>2, <2>3, <2>4, <2>5, <2>6, <2>7, <2>8, <2>9 DEF Next
<1> QED BY <1>1, <1>2, StateFactsHold, PTL DEF Spec, A!Spec

LEMMA AccountsParts == AP!TimesAssumption /\ AP!NullsAssumption
BY PartsAssumption
DEF A!TimesAssumption, AP!TimesAssumption, A!NullsAssumption, AP!NullsAssumption, A!Row,
    AP!Row, A!Token, AP!Token, A!AccessToken, AP!AccessToken, A!RefreshToken, AP!RefreshToken

LEMMA AccountsInv == Spec => []AP!IInv
<1>1. AP!Spec => []AP!IInv
  BY AccountsParts, AP!Inductive DEF AP!TimesAssumption, AP!NullsAssumption
<1> QED BY <1>1, AccountsSame, ImplementsAccounts, PTL

AccountFacts ==
    /\ req \in [Reqs -> A!Request]
    /\ accounts \in [Users -> A!Row \cup {NoRow}]
    /\ consented \in [Users -> SUBSET Emails]
    /\ \A r \in Reqs : req[r].pc # "idle" => req[r].user \in Users
    /\ \A r \in Reqs : req[r].pc = "find" => req[r].op \in A!Ops \ {"login"}
    /\ \A r \in Reqs : req[r].pc \in {"insert", "update", "confirm"} =>
          /\ req[r].token.access.owner \in Emails
          /\ req[r].token.access.owner \in consented[req[r].user]

LEMMA AccountFactsHold == Spec => []AccountFacts
<1>1. ASSUME AP!IInv PROVE AccountFacts
  <2>1. /\ req \in [Reqs -> A!Request]
        /\ accounts \in [Users -> A!Row \cup {NoRow}]
        /\ consented \in [Users -> SUBSET Emails]
        /\ \A r \in Reqs : req[r].pc # "idle" => req[r].user \in Users
    BY <1>1
    DEF AP!IInv, AP!TypeOK, A!Request, AP!Request, A!Running, AP!Running, A!Answers,
        AP!Answers, A!Calling, AP!Calling, A!Statements, AP!Statements, A!Ops, AP!Ops,
        A!Row, AP!Row, A!Token, AP!Token, A!AccessToken, AP!AccessToken, A!RefreshToken,
        AP!RefreshToken
  <2>2. ASSUME NEW r \in Reqs, req[r].pc \in {"insert", "update", "confirm"}
        PROVE  /\ req[r].token.access.owner \in Emails
               /\ req[r].token.access.owner \in consented[req[r].user]
    <3>1. /\ req[r].token # NoToken /\ req[r] \in AP!Request
          /\ req[r].token.access.owner \in consented[req[r].user]
      BY <1>1, <2>2 DEF AP!IInv, AP!TypeOK, AP!ReqsInv, AP!ReqOk, AP!GrantOk
    <3> QED BY <3>1 DEF AP!Request, AP!Token, AP!AccessToken
  <2>3. \A r \in Reqs : req[r].pc = "find" => req[r].op \in A!Ops \ {"login"}
    BY <1>1 DEF AP!IInv, AP!TypeOK, AP!ReqsInv, AP!ReqOk, A!Ops
  <2> QED BY <2>1, <2>2, <2>3 DEF AccountFacts
<1> QED BY <1>1, AccountsInv, PTL

--------------------------------------------------------------------------------
\* The whole: the logins of the account storage are the accepted callbacks.

Early == {"exchange", "userinfo", "upsert", "insert", "update"}

LoginInv(c) ==
    req[c].pc # "idle" => cb[c].pc = "accepted" /\ req[c].user = cb[c].seen.user

EntryInv(w) ==
    /\ cb[w.login].pc = "accepted" /\ cb[w.login].state = w.state
    /\ req[w.login].pc \notin Early \cup {"idle"}
    /\ req[w.login].user = w.user
    /\ w.email \in consented[w.user]

\* Inductive together with what the parts guarantee.
Link ==
    /\ stored \in SUBSET Entry
    /\ \A c \in Logins : LoginInv(c)
    /\ \A w \in stored : EntryInv(w)
    /\ \A v, w \in stored : v.login = w.login => v = w

\* An accepted callback stays as it is, and a login starts by being accepted.
LEMMA CallbackMoves ==
    ASSUME StateFacts, [Next]_vars, NEW c \in Logins
    PROVE  \/ cb'[c] = cb[c]
           \/ cb[c].pc # "accepted" /\ ~Redeem(c) /\ cb'[c].pc # "accepted"
           \/ /\ cb[c].pc = "consume" /\ Redeem(c)
              /\ cb'[c].state = cb[c].state /\ cb'[c].seen = cb[c].seen
<1> USE DEF StateFacts, S!Callback
<1>1. CASE StateOnly
  BY <1>1
  DEF StateOnly, S!Create, S!Receive, S!ReceiveIncomplete, S!DbError, S!CleanupExpired, Redeem,
      S!Consume
<1>2. ASSUME NEW d \in Logins, Validate(d) PROVE cb'[c] = cb[c] \/
                (cb[c].pc # "accepted" /\ ~Redeem(c) /\ cb'[c].pc # "accepted")
  <2>1. S!Verdict(cb[d].seen) # "accepted"
    BY DEF S!Verdict
  <2> QED BY <1>2, <2>1 DEF Validate, S!Find, S!Check, Redeem, S!Consume
<1>3. ASSUME NEW d \in Logins, Redeem(d)
      PROVE  \/ cb'[c] = cb[c]
             \/ /\ cb[c].pc = "consume" /\ Redeem(c)
                /\ cb'[c].state = cb[c].state /\ cb'[c].seen = cb[c].seen
  <2>1. /\ cb[d].pc = "consume"
        /\ \E pc \in {"accepted", "replayed"} : cb' = [cb EXCEPT ![d].pc = pc]
    BY <1>3, Zenon DEF Redeem, S!Consume
  <2>2. CASE c = d
    BY <1>3, <2>1, <2>2
  <2>3. CASE c # d
    BY <2>1, <2>3
  <2> QED BY <2>2, <2>3
<1>4. CASE Restart
  BY <1>4 DEF Restart, S!Restart, S!Running, stateVars, Redeem, S!Consume
<1>5. CASE UNCHANGED cb
  BY <1>5
<1> QED
  BY <1>1, <1>2, <1>3, <1>4, <1>5
  DEF Next, vars, Store, Arrive, Proceed, Fails, Tick, S!Tick, stateVars

\* A consent is not forgotten.
LEMMA ConsentsGrow ==
    ASSUME AccountFacts, [Next]_vars, NEW u \in Users
    PROVE  consented[u] \subseteq consented'[u]
<1>1. ASSUME NEW r \in Reqs, A!Userinfo(r) PROVE consented[u] \subseteq consented'[u]
  BY <1>1 DEF A!Userinfo, AccountFacts
<1>2. ASSUME NEW r \in Reqs, Proceed(r) \/ Fails(r)
      PROVE  A!Userinfo(r) \/ consented' = consented
  BY <1>2
  DEF Proceed, Fails, A!Find, A!Check, A!Open, A!Renew, A!Reread, A!Write, A!Result,
      A!Exchange, A!Upsert, A!Confirm, A!Delete, A!DbError
<1>3. StateOnly => consented' = consented
  BY DEF StateOnly, accountVars
<1>4. \A c \in Logins : Validate(c) \/ Redeem(c) \/ Store(c) => consented' = consented
  BY DEF Validate, Redeem, Store, accountVars, A!Begin, A!Insert, A!Update
<1>5. \A r \in Others : \A op, v : Arrive(r, op, v) => consented' = consented
  BY DEF Arrive, A!Begin
<1>6. Tick \/ Restart \/ UNCHANGED vars => consented' = consented
  BY DEF Tick, A!Tick, Restart, A!Restart, accountVars, vars
<1> QED BY <1>1, <1>2, <1>3, <1>4, <1>5, <1>6 DEF Next

\* What one step of a request may do to it.
Moved(r) ==
    /\ req[r].pc # "idle" /\ req'[r].pc # "idle"
    /\ req'[r].user = req[r].user
    /\ req'[r].pc \in Early => req[r].pc \in Early
    /\ req'[r].pc = "confirm" => A!Insert(r) \/ A!Update(r)
    /\ req'[r].pc = "success" => req[r].pc = "confirm"

LEMMA EndMoves ==
    ASSUME AccountFacts, NEW r \in Reqs, NEW answer, NEW access, NEW email,
           A!End(r, answer, access, email)
    PROVE  /\ req'[r].pc = answer /\ req'[r].user = req[r].user /\ req'[r].email = email
           /\ \A q \in Reqs \ {r} : req'[q] = req[q]
BY DEF AccountFacts, A!Request, A!End, A!Blank

LEMMA FailMoves ==
    ASSUME AccountFacts, NEW r \in Reqs, NEW answer \in {"reauth", "notfound", "error",
           "failed", "panic"}, req[r].pc # "idle", A!Fail(r, answer)
    PROVE  Moved(r) /\ \A q \in Reqs \ {r} : req'[q] = req[q]
BY EndMoves DEF A!Fail, Moved, Early

LEMMA GotoMoves ==
    ASSUME AccountFacts, NEW r \in Reqs, NEW pc, A!Goto(r, pc)
    PROVE  /\ req'[r].pc = pc /\ req'[r].user = req[r].user
           /\ \A q \in Reqs \ {r} : req'[q] = req[q]
BY DEF AccountFacts, A!Request, A!Goto

LEMMA RequestMoves ==
    ASSUME AccountFacts, NEW r \in Reqs, A!Handler(r) \/ A!DbError(r)
    PROVE  Moved(r) /\ \A q \in Reqs \ {r} : req'[q] = req[q]
<1> USE DEF A!At
<1>1. CASE A!Find(r)
  <2>1. CASE A!Mine(r) = NoRow
    BY <1>1, <2>1, FailMoves DEF A!Find
  <2>2. CASE A!Mine(r) # NoRow /\ req[r].op = "account"
    BY <1>1, <2>2, EndMoves DEF A!Find, Moved, Early
  <2>3. CASE A!Mine(r) # NoRow /\ req[r].op # "account"
    <3>1. req[r].op \in {"token", "refresh", "delete"} /\ req[r].pc = "find"
      BY <1>1, <2>3 DEF A!Find, AccountFacts, A!Ops
    <3>2. PICK pc \in {"check", "open", "delete"} :
             req' = [req EXCEPT ![r].row = A!Mine(r), ![r].pc = pc]
      <4>1. CASE req[r].op = "token"
        BY <1>1, <2>3, <4>1, Zenon DEF A!Find
      <4>2. CASE req[r].op = "refresh"
        BY <1>1, <2>3, <4>2, Zenon DEF A!Find
      <4>3. CASE req[r].op = "delete"
        BY <1>1, <2>3, <4>3, Zenon DEF A!Find
      <4> QED BY <3>1, <4>1, <4>2, <4>3
    <3> QED BY <3>1, <3>2 DEF Moved, Early, AccountFacts, A!Request
  <2> QED BY <2>1, <2>2, <2>3
<1>2. CASE A!Check(r)
  BY <1>2, EndMoves, GotoMoves DEF A!Check, Moved, Early
<1>3. CASE A!Open(r)
  <2>1. CASE \E answer \in {"reauth", "error"} : A!Fail(r, answer)
    BY <1>3, <2>1, FailMoves DEF A!Open
  <2>2. CASE req' = [req EXCEPT ![r].pc = "renew", ![r].since = now]
    BY <1>3, <2>2 DEF A!Open, Moved, Early, AccountFacts, A!Request
  <2> QED BY <1>3, <2>1, <2>2 DEF A!Open
<1>4. CASE A!Renew(r)
  <2>1. CASE \E answer \in {"reauth", "error"} : A!Fail(r, answer)
    BY <1>4, <2>1, FailMoves DEF A!Renew
  <2>2. ASSUME NEW token, req' = [req EXCEPT ![r].pc = "reread", ![r].token = token]
        PROVE  Moved(r) /\ \A q \in Reqs \ {r} : req'[q] = req[q]
    <3>1. req[r].pc = "renew"
      BY <1>4 DEF A!Renew
    <3> QED BY <2>2, <3>1 DEF Moved, Early, AccountFacts, A!Request
  <2> QED BY <1>4, <2>1, <2>2 DEF A!Renew
<1>5. CASE A!Reread(r)
  <2>1. CASE A!Fail(r, "panic")
    BY <1>5, <2>1, FailMoves DEF A!Reread
  <2>2. CASE req' = [req EXCEPT ![r].pc = "write", ![r].kept = A!Mine(r).refresh]
    BY <1>5, <2>2 DEF A!Reread, Moved, Early, AccountFacts, A!Request
  <2> QED BY <1>5, <2>1, <2>2 DEF A!Reread
<1>6. CASE A!Write(r)
  BY <1>6, GotoMoves DEF A!Write, Moved, Early
<1>7. CASE A!Result(r)
  <2>1. CASE A!Fail(r, "panic")
    BY <1>7, <2>1, FailMoves DEF A!Result
  <2>2. CASE \E access, email : A!End(r, "served", access, email)
    BY <1>7, <2>2, EndMoves DEF A!Result, Moved, Early
  <2> QED BY <1>7, <2>1, <2>2 DEF A!Result
<1>8. CASE A!Exchange(r)
  <2>1. CASE A!Fail(r, "failed")
    BY <1>8, <2>1, FailMoves DEF A!Exchange
  <2>2. ASSUME NEW token, req' = [req EXCEPT ![r].pc = "userinfo", ![r].since = now,
                                             ![r].token = token]
        PROVE  Moved(r) /\ \A q \in Reqs \ {r} : req'[q] = req[q]
    <3>1. req[r].pc = "exchange"
      BY <1>8 DEF A!Exchange
    <3> QED BY <2>2, <3>1 DEF Moved, Early, AccountFacts, A!Request
  <2> QED BY <1>8, <2>1, <2>2 DEF A!Exchange
<1>9. CASE A!Userinfo(r)
  <2>1. CASE A!Fail(r, "failed")
    BY <1>9, <2>1, FailMoves DEF A!Userinfo
  <2>2. CASE req' = [req EXCEPT ![r].pc = "upsert", ![r].token.expires = now + Life]
    BY <1>9, <2>2 DEF A!Userinfo, Moved, Early, AccountFacts, A!Request
  <2> QED BY <1>9, <2>1, <2>2 DEF A!Userinfo
<1>10. CASE A!Upsert(r)
  BY <1>10, GotoMoves DEF A!Upsert, Moved, Early
<1>11. CASE A!Insert(r)
  <2>1. CASE A!Fail(r, "failed")
    BY <1>11, <2>1, FailMoves DEF A!Insert
  <2>2. CASE A!Goto(r, "confirm")
    <3>1. req[r].pc = "insert"
      BY <1>11 DEF A!Insert
    <3> QED BY <1>11, <2>2, <3>1, GotoMoves DEF Moved, Early
  <2> QED BY <1>11, <2>1, <2>2 DEF A!Insert
<1>12. CASE A!Update(r)
  <2>1. A!Goto(r, "confirm") /\ req[r].pc = "update"
    BY <1>12 DEF A!Update
  <2> QED BY <1>12, <2>1, GotoMoves DEF Moved, Early
<1>13. CASE A!Confirm(r)
  <2>1. CASE A!Fail(r, "panic")
    BY <1>13, <2>1, FailMoves DEF A!Confirm
  <2>2. CASE A!Mine(r) # NoRow
    BY <1>13, <2>2, EndMoves DEF A!Confirm, Moved, Early
  <2> QED BY <1>13, <2>1, <2>2 DEF A!Confirm
<1>14. CASE A!Delete(r)
  BY <1>14, EndMoves DEF A!Delete, Moved, Early
<1>15. CASE A!DbError(r)
  <2>1. req[r].pc # "idle" /\ \E answer \in {"failed", "error"} : A!Fail(r, answer)
    BY <1>15 DEF A!DbError, A!Statements, A!ErrorOf
  <2> QED BY <2>1, FailMoves
<1> QED
  BY <1>1, <1>2, <1>3, <1>4, <1>5, <1>6, <1>7, <1>8, <1>9, <1>10, <1>11, <1>12, <1>13,
     <1>14, <1>15 DEF A!Handler

\* The step of a request that stores nothing keeps the invariant.
LEMMA ProceedLink ==
    ASSUME StateFacts, AccountFacts, Link, [Next]_vars, NEW r \in Reqs, Proceed(r) \/ Fails(r)
    PROVE  Link'
<1>1. Moved(r) /\ \A q \in Reqs \ {r} : req'[q] = req[q]
  BY RequestMoves DEF Proceed, Fails, A!Handler
<1>2. cb' = cb /\ stored' = stored
  BY DEF Proceed, Fails, stateVars
<1>3. ASSUME NEW c \in Logins PROVE LoginInv(c)'
  BY <1>1, <1>2 DEF Link, LoginInv, Moved, Reqs
<1>4. ASSUME NEW w \in stored PROVE EntryInv(w)'
  <2>1. EntryInv(w) /\ w.login \in Logins /\ consented[w.user] \subseteq consented'[w.user]
    BY ConsentsGrow DEF Link, Entry
  <2> QED BY <1>1, <1>2, <2>1 DEF EntryInv, Moved, Reqs
<1> QED BY <1>2, <1>3, <1>4 DEF Link

\* A Store that writes a row records it; every other one leaves rows and history
\* alone.
LEMMA StoreWrites ==
    ASSUME StateFacts, AccountFacts, Link, NEW c \in Logins, Store(c)
    PROVE  /\ req[c].pc \in {"insert", "update"}
           /\ LET w == [login |-> c, state |-> cb[c].state, user |-> req[c].user,
                       email |-> req[c].token.access.owner]
              IN  \/ /\ w \in Entry /\ stored' = stored \cup {w} /\ A!Goto(c, "confirm")
                     /\ accounts' = [accounts EXCEPT ![req[c].user] = A!NewRow(req[c].token)]
                  \/ /\ stored' = stored /\ accounts' = accounts
                     /\ A!Goto(c, "confirm") /\ A!Mine(c) = NoRow
                  \/ stored' = stored /\ accounts' = accounts /\ A!Fail(c, "failed")
<1> USE DEF A!At
<1>1. req[c].pc \in {"insert", "update"}
  BY DEF Store, A!Insert, A!Update
<1>2. [login |-> c, state |-> cb[c].state, user |-> req[c].user,
       email |-> req[c].token.access.owner] \in Entry
  <2>1. cb[c].state \in States
    BY <1>1 DEF Link, LoginInv, StateFacts, Rightful
  <2> QED BY <1>1, <2>1 DEF AccountFacts, Reqs, Entry
<1>3. CASE A!Insert(c)
  BY <1>1, <1>2, <1>3 DEF Store, A!Insert, Writes
<1>4. CASE A!Update(c)
  BY <1>1, <1>2, <1>4 DEF Store, A!Update, Writes
<1> QED BY <1>1, <1>3, <1>4 DEF Store

LEMMA StoreLink ==
    ASSUME StateFacts, AccountFacts, Link, [Next]_vars, NEW c \in Logins, Store(c)
    PROVE  Link'
<1> DEFINE new == [login |-> c, state |-> cb[c].state, user |-> req[c].user,
                   email |-> req[c].token.access.owner]
<1>0. new.login = c
  OBVIOUS
<1>1. Moved(c) /\ \A q \in Reqs \ {c} : req'[q] = req[q]
  BY RequestMoves DEF Store, A!Handler, Reqs
<1>2. cb' = cb /\ stored \subseteq stored' /\ stored' \subseteq stored \cup {new}
      /\ stored' \in SUBSET Entry
  BY StoreWrites DEF Store, stateVars, Link
<1>3. ASSUME NEW d \in Logins PROVE LoginInv(d)'
  BY <1>1, <1>2 DEF Link, LoginInv, Moved, Reqs
<1>4. ASSUME NEW w \in stored' PROVE EntryInv(w)'
  <2>1. CASE w \in stored
    <3>1. EntryInv(w) /\ w.login \in Logins /\ consented[w.user] \subseteq consented'[w.user]
      BY <2>1, ConsentsGrow DEF Link, Entry
    <3> QED BY <1>1, <1>2, <3>1 DEF EntryInv, Moved, Reqs
  <2>2. CASE w = new /\ w \notin stored
    <3>1. A!Goto(c, "confirm") /\ req[c].pc \in {"insert", "update"}
      BY <1>2, <2>2, StoreWrites
    <3>2. cb[c].pc = "accepted"
      BY <3>1 DEF Link, LoginInv
    <3>3. req'[c].pc = "confirm" /\ req'[c].user = req[c].user
      BY <3>1, GotoMoves DEF Reqs
    <3>4. new.email \in consented'[new.user]
      BY <3>1, ConsentsGrow DEF AccountFacts, Reqs
    <3> QED BY <1>2, <2>2, <3>2, <3>3, <3>4 DEF EntryInv, Early
  <2> QED BY <1>2, <2>1, <2>2
<1>5. \A v, w \in stored' : v.login = w.login => v = w
  <2>1. \A w \in stored : w.login # c
    BY StoreWrites DEF Link, EntryInv, Early
  <2> HIDE DEF new
  <2> QED BY <1>0, <1>2, <2>1 DEF Link
<1> QED BY <1>2, <1>3, <1>4, <1>5 DEF Link

LEMMA RedeemLink ==
    ASSUME StateFacts, AccountFacts, Link, NEW c \in Logins, Redeem(c), [Next]_vars
    PROVE  Link'
<1>1. \A d \in Logins : cb[d].pc = "accepted" => cb'[d] = cb[d]
  BY CallbackMoves
<1>2. stored' = stored /\ cb[c].pc = "consume"
  BY DEF Redeem, S!Consume
<1>3. CASE cb'[c].pc = "accepted" /\ A!Begin(c, "login", LoginUser(c))
  <2>1. /\ req[c].pc = "idle" /\ req'[c].pc = "exchange" /\ req'[c].user = cb[c].seen.user
        /\ \A q \in Reqs \ {c} : req'[q] = req[q]
    BY <1>3 DEF A!Begin, A!At, A!Blank, LoginUser, AccountFacts, Reqs
  <2>2. cb'[c].seen = cb[c].seen
    BY <1>2, CallbackMoves
  <2>3. ASSUME NEW d \in Logins PROVE LoginInv(d)'
    <3>1. CASE d = c
      BY <1>3, <2>1, <2>2, <3>1 DEF LoginInv
    <3>2. CASE d # c
      <4>1. req'[d] = req[d]
        BY <2>1, <3>2 DEF Reqs
      <4> QED BY <1>1, <1>2, <4>1 DEF Link, LoginInv
    <3> QED BY <3>1, <3>2
  <2>4. ASSUME NEW w \in stored PROVE EntryInv(w)'
    <3>1. EntryInv(w) /\ w.login \in Logins /\ consented[w.user] \subseteq consented'[w.user]
      BY ConsentsGrow DEF Link, Entry
    <3>2. w.login # c
      BY <2>1, <3>1 DEF EntryInv
    <3> QED BY <1>1, <2>1, <3>1, <3>2 DEF EntryInv, Reqs
  <2> QED BY <1>2, <2>3, <2>4 DEF Link
<1>4. CASE UNCHANGED accountVars
  <2>1. \A d \in Logins : LoginInv(d)'
    BY <1>1, <1>2, <1>4 DEF accountVars, Link, LoginInv
  <2>2. ASSUME NEW w \in stored PROVE EntryInv(w)'
    <3>1. EntryInv(w) /\ w.login \in Logins /\ consented[w.user] \subseteq consented'[w.user]
      BY ConsentsGrow DEF Link, Entry
    <3> QED BY <1>1, <1>4, <3>1 DEF EntryInv, accountVars
  <2> QED BY <1>2, <2>1, <2>2 DEF Link
<1> QED BY <1>3, <1>4 DEF Redeem

\* A step that moves no login, except that it may end it with the process.
LEMMA QuietLink ==
    ASSUME StateFacts, AccountFacts, Link, [Next]_vars,
           stored' = stored,
           \A c \in Logins : \/ req'[c] = req[c]
                             \/ /\ req[c].pc # "idle" /\ req'[c].pc = "lost"
                                /\ req'[c].user = req[c].user
    PROVE  Link'
<1>1. \A d \in Logins : cb[d].pc = "accepted" => cb'[d] = cb[d]
  BY CallbackMoves
<1>2. ASSUME NEW c \in Logins PROVE LoginInv(c)'
  BY <1>1 DEF Link, LoginInv
<1>3. ASSUME NEW w \in stored PROVE EntryInv(w)'
  <2>1. EntryInv(w) /\ w.login \in Logins /\ consented[w.user] \subseteq consented'[w.user]
    BY ConsentsGrow DEF Link, Entry
  <2> QED BY <1>1, <2>1 DEF EntryInv, Early
<1> QED BY <1>2, <1>3 DEF Link

LEMMA RestartLink ==
    ASSUME StateFacts, AccountFacts, Link, [Next]_vars, Restart
    PROVE  Link'
<1>1. stored' = stored
  BY DEF Restart
<1>2. ASSUME NEW c \in Logins
      PROVE  \/ req'[c] = req[c]
             \/ /\ req[c].pc # "idle" /\ req'[c].pc = "lost"
                /\ req'[c].user = req[c].user
  <2>1. CASE UNCHANGED accountVars
    BY <2>1 DEF accountVars
  <2>2. CASE A!Restart
    BY <2>2 DEF A!Restart, A!Running, A!Calling, A!Statements, A!Blank, Reqs
  <2> QED BY <2>1, <2>2 DEF Restart
<1> QED BY <1>1, <1>2, QuietLink

LEMMA LinkHolds == Spec => []Link
<1>1. Init => Link
  BY DEF Init, A!Init, A!Blank, Link, LoginInv, Reqs
<1>2. ASSUME StateFacts, AccountFacts, Link, [Next]_vars PROVE Link'
  <2>1. ASSUME NEW c \in Logins, Store(c) PROVE Link'
    BY <1>2, <2>1, StoreLink
  <2>2. ASSUME NEW c \in Logins, Redeem(c) PROVE Link'
    BY <1>2, <2>2, RedeemLink
  <2>3. ASSUME NEW r \in Reqs, Proceed(r) \/ Fails(r) PROVE Link'
    BY <1>2, <2>3, ProceedLink
  <2>4. CASE Restart
    BY <1>2, <2>4, RestartLink
  <2>5. CASE UNCHANGED <<req, stored>>
    BY <1>2, <2>5, QuietLink
  <2>6. ASSUME NEW r \in Others, NEW op, NEW u, Arrive(r, op, u) PROVE Link'
    <3>1. stored' = stored
      BY <2>6 DEF Arrive
    <3>2. \A c \in Logins : req'[c] = req[c]
      BY <1>2, <2>6, PartsAssumption DEF Arrive, A!Begin, AccountFacts, Reqs
    <3> QED BY <1>2, <3>1, <3>2, QuietLink
  <2>7. StateOnly => UNCHANGED <<req, stored>>
    BY DEF StateOnly, accountVars
  <2>8. \A c \in Logins : Validate(c) => UNCHANGED <<req, stored>>
    BY DEF Validate, accountVars
  <2>9. Tick => UNCHANGED <<req, stored>>
    BY DEF Tick, A!Tick
  <2> QED BY <1>2, <2>1, <2>2, <2>3, <2>4, <2>5, <2>6, <2>7, <2>8, <2>9 DEF Next, vars
<1> QED BY <1>1, <1>2, StateFactsHold, AccountFactsHold, PTL DEF Spec

\* What a login stores is consented to, and was started and not used before: each
\* entry's login came back in time with a token drawn for its user.
THEOREM StoredAsStartedHolds == Spec => []StoredAsStarted
<1>1. ASSUME StateFacts, Link PROVE StoredAsStarted
  <2>1. ASSUME NEW w \in stored
        PROVE  /\ S!Accepted(w.login) /\ cb[w.login].state = w.state
               /\ issued[w.state].user = w.user
               /\ cb[w.login].checked <= issued[w.state].expires
               /\ w.email \in consented[w.user]
    <3>1. EntryInv(w) /\ w \in Entry /\ w.login \in Logins
      BY <1>1 DEF Link, Entry
    <3>2. LoginInv(w.login) /\ Rightful(w.login)
      BY <1>1, <3>1 DEF Link, StateFacts, EntryInv
    <3> QED BY <3>1, <3>2 DEF EntryInv, LoginInv, Rightful, S!Accepted
  <2>2. \A v, w \in stored : v.state = w.state => v = w
    <3>1. \A v, w \in stored : v.state = w.state => v.login = w.login
      BY <1>1 DEF Link, EntryInv, Entry, StateFacts
    <3> QED BY <1>1, <3>1 DEF Link
  <2> QED BY <1>1, <2>1, <2>2 DEF StoredAsStarted, Link
<1> QED BY <1>1, StateFactsHold, LinkHolds, PTL

\* A login whose request is about to report success has written its entry.
Stored(c) == \E w \in stored : w.login = c
SuccessInv == \A c \in Logins : req[c].pc \in {"confirm", "success"} => Stored(c)

\* Where the row a login has seen is still there, its UPDATE stores the account.
LEMMA StoreSucceeds ==
    ASSUME StateFacts, AccountFacts, Link, SuccessInv, AP!RowsStay, [Next]_vars,
           NEW c \in Logins, Store(c)
    PROVE  SuccessInv'
<1> DEFINE new == [login |-> c, state |-> cb[c].state, user |-> req[c].user,
                   email |-> req[c].token.access.owner]
<1>1. \A q \in Reqs \ {c} : req'[q] = req[q]
  BY RequestMoves DEF Store, A!Handler, Reqs
<1>2. stored \subseteq stored'
  BY StoreWrites
<1>3. req'[c].pc = "failed" \/ stored' = stored \cup {new}
  <2>1. CASE A!Insert(c)
    <3>1. CASE A!Fail(c, "failed")
      BY <3>1, EndMoves DEF A!Fail, Reqs
    <3>2. CASE A!Mine(c) = NoRow
      BY <2>1, <3>2 DEF Store, Writes, A!Insert
    <3> QED BY <2>1, <3>1, <3>2 DEF A!Insert
  <2>2. CASE A!Update(c)
    <3>1. A!At(c, "update") /\ A!Mine(c) # NoRow
      BY <2>2 DEF A!Update, A!At, A!Mine, AP!RowsStay, AP!HasRow, AP!Mine, Reqs
    <3> QED BY <3>1 DEF Store, Writes
  <2> QED BY <2>1, <2>2 DEF Store
<1>4. new.login = c
  OBVIOUS
<1> HIDE DEF new
<1> QED BY <1>1, <1>2, <1>3, <1>4 DEF SuccessInv, Stored, Reqs

LEMMA ProceedSucceeds ==
    ASSUME AccountFacts, SuccessInv, NEW r \in Reqs, Proceed(r) \/ Fails(r)
    PROVE  SuccessInv'
<1>1. Moved(r) /\ \A q \in Reqs \ {r} : req'[q] = req[q]
  BY RequestMoves DEF Proceed, Fails, A!Handler
<1>2. req'[r].pc # "confirm"
  <2>1. Proceed(r) => req[r].pc \notin {"insert", "update"}
    BY DEF Proceed, A!At, A!Find, A!Check, A!Open, A!Renew, A!Reread, A!Write, A!Result,
       A!Exchange, A!Userinfo, A!Upsert, A!Confirm, A!Delete
  <2>2. Fails(r) => req'[r].pc \in {"failed", "error"}
    BY EndMoves DEF Fails, A!DbError, A!Fail, A!ErrorOf
  <2>3. A!Insert(r) \/ A!Update(r) => req[r].pc \in {"insert", "update"}
    BY DEF A!Insert, A!Update, A!At
  <2> QED BY <1>1, <2>1, <2>2, <2>3 DEF Moved
<1>3. stored' = stored
  BY DEF Proceed, Fails
<1> QED BY <1>1, <1>2, <1>3 DEF SuccessInv, Stored, Moved, Reqs

LEMMA SuccessStep ==
    ASSUME StateFacts, AccountFacts, Link, SuccessInv, AP!RowsStay, [Next]_vars
    PROVE  SuccessInv'
<1>1. ASSUME NEW c \in Logins, Store(c) PROVE SuccessInv'
  BY <1>1, StoreSucceeds
<1>2. ASSUME NEW r \in Reqs, Proceed(r) \/ Fails(r) PROVE SuccessInv'
  BY <1>2, ProceedSucceeds
<1>3. CASE /\ stored' = stored
           /\ \A c \in Logins : req'[c] = req[c] \/ req'[c].pc \in {"exchange", "lost"}
  BY <1>3 DEF SuccessInv, Stored
<1>4. ASSUME NEW c \in Logins, Redeem(c) PROVE SuccessInv'
  <2>1. CASE A!Begin(c, "login", LoginUser(c))
    BY <1>3, <1>4, <2>1 DEF Redeem, A!Begin, A!Blank, AccountFacts, Reqs
  <2> QED BY <1>3, <1>4, <2>1 DEF Redeem, accountVars
<1>5. CASE Restart
  BY <1>3, <1>5 DEF Restart, A!Restart, A!Blank, accountVars, Reqs
<1>6. ASSUME NEW r \in Others, NEW op, NEW u, Arrive(r, op, u) PROVE SuccessInv'
  <2>1. \A c \in Logins : req'[c] = req[c]
    BY <1>6, PartsAssumption DEF Arrive, A!Begin, AccountFacts, Reqs
  <2> QED BY <1>3, <1>6, <2>1 DEF Arrive
<1>7. StateOnly \/ Tick \/ UNCHANGED vars => UNCHANGED <<req, stored>>
  BY DEF StateOnly, accountVars, Tick, A!Tick, vars
<1>8. \A c \in Logins : Validate(c) => UNCHANGED <<req, stored>>
  BY DEF Validate, accountVars
<1> QED BY <1>1, <1>2, <1>3, <1>4, <1>5, <1>6, <1>7, <1>8 DEF Next

\* As long as nobody removes an account, every login that reports success has stored
\* its account: the unstored successes of the login_success run are all of logins
\* that raced a removal.
THEOREM NoRemovalEverySuccessStored ==
    Spec => ([]AP!NoRemovals => []SuccessIsStored)
<1>1. Init => SuccessInv
  BY DEF Init, A!Init, A!Blank, SuccessInv, Reqs
<1>2. SuccessInv => SuccessIsStored
  BY DEF SuccessInv, Stored, SuccessIsStored, A!At
<1>3. AP!Spec => ([]AP!NoRemovals => []AP!RowsStay)
  BY AccountsParts, AP!RowsStayHolds DEF AP!TimesAssumption, AP!NullsAssumption
<1> QED
  BY <1>1, <1>2, <1>3, SuccessStep, AccountsSame, ImplementsAccounts, StateFactsHold,
     AccountFactsHold, LinkHolds, PTL
  DEF Spec

--------------------------------------------------------------------------------
\* The composition implements Binding.

\* A request that stores nothing leaves the accounts alone or removes one.
LEMMA AccountMoves ==
    ASSUME AP!IInv, NEW r \in Reqs, Proceed(r) \/ Fails(r)
    PROVE  \/ A!Account' = A!Account
           \/ \E u \in Users : A!Account' = [A!Account EXCEPT ![u] = NoEmail]
<1>0. A!Account = AP!Account /\ A!Account' = AP!Account'
  BY DEF A!Account, AP!Account, A!Connected, AP!Connected
<1>1. CASE A!Write(r)
  <2>1. AP!Write(r)
    BY <1>1 DEF A!Write, AP!Write, A!Written, AP!Written, A!Coalesce, AP!Coalesce,
       A!At, AP!At, A!Mine, AP!Mine, A!Goto, AP!Goto
  <2>2. AP!Account' = AP!Account
    BY <2>1, AccountsParts, AP!WriteBook DEF AP!TimesAssumption, AP!NullsAssumption
  <2> QED BY <1>0, <2>2
<1>2. CASE A!Delete(r)
  <2>1. AP!Delete(r)
    BY <1>2 DEF A!Delete, AP!Delete, A!At, AP!At, A!End, AP!End, A!Blank, AP!Blank
  <2>2. /\ req[r].user \in Users
        /\ AP!Account' = [AP!Account EXCEPT ![req[r].user] = NoEmail]
    BY <2>1, AccountsParts, AP!DeleteBook DEF AP!TimesAssumption, AP!NullsAssumption
  <2> QED BY <1>0, <2>2
<1>3. CASE UNCHANGED accounts
  BY <1>3 DEF A!Account, A!Connected
<1> QED
  BY <1>1, <1>2, <1>3
  DEF Proceed, Fails, A!Find, A!Check, A!Open, A!Renew, A!Reread, A!Result, A!Exchange,
      A!Userinfo, A!Upsert, A!Confirm, A!DbError

\* A login that stores its account connects it, by an attempt that has connected
\* nothing yet, for the user the attempt was started for.
LEMMA StoreBinds ==
    ASSUME AP!IInv, StateFacts, AccountFacts, Link, NEW c \in Logins, Store(c)
    PROVE  \/ A!Account' = A!Account /\ Attempts' = Attempts
           \/ \E s \in States, e \in Emails :
                 /\ S!Owner[s] # Nobody /\ s \notin Attempts
                 /\ A!Account' = [A!Account EXCEPT ![S!Owner[s]] = e]
                 /\ Attempts' = Attempts \cup {s}
<1> DEFINE s == cb[c].state
           e == req[c].token.access.owner
           new == [login |-> c, state |-> s, user |-> req[c].user, email |-> e]
<1>0. A!Account = AP!Account /\ A!Account' = AP!Account'
  BY DEF A!Account, AP!Account, A!Connected, AP!Connected
<1>1. CASE stored' = stored /\ accounts' = accounts
  BY <1>1 DEF Attempts, A!Account, A!Connected
<1>2. CASE /\ stored' = stored \cup {new}
           /\ accounts' = [accounts EXCEPT ![req[c].user] = A!NewRow(req[c].token)]
  <2>1. req[c].pc \in {"insert", "update"} /\ c \in Reqs
    BY StoreWrites DEF Reqs
  <2>2. cb[c].pc = "accepted" /\ req[c].user = cb[c].seen.user
    BY <2>1 DEF Link, LoginInv
  <2>3. s \in States /\ S!Owner[s] = req[c].user /\ S!Owner[s] # Nobody
    BY <2>2 DEF StateFacts, Rightful, S!Owner
  <2>4. s \notin Attempts
    <3>1. ASSUME NEW w \in stored, w.state = s PROVE FALSE
      <4>1. EntryInv(w) /\ w.login \in Logins
        BY DEF Link, Entry
      <4>2. w.login = c
        BY <2>2, <3>1, <4>1 DEF EntryInv, StateFacts
      <4> QED BY <2>1, <4>1, <4>2 DEF EntryInv, Early
    <3> QED BY <3>1 DEF Attempts
  <2>5. Attempts' = Attempts \cup {s}
    <3>1. new.state = s
      OBVIOUS
    <3> HIDE DEF new
    <3> QED BY <1>2, <3>1 DEF Attempts
  <2>6. /\ AP!At(c, "insert") \/ AP!At(c, "update")
        /\ accounts' = [accounts EXCEPT ![req[c].user] = AP!NewRow(req[c].token)]
    BY <1>2, <2>1 DEF A!NewRow, AP!NewRow, AP!At
  <2>7. AP!Account' = [AP!Account EXCEPT ![req[c].user] = e] /\ e \in Emails
    BY <2>1, <2>6, AccountsParts, AP!StoreBook DEF AP!TimesAssumption, AP!NullsAssumption
  <2> QED BY <1>0, <2>3, <2>4, <2>5, <2>7
<1> QED BY <1>1, <1>2, StoreWrites

\* From end to end, a user's account changes only by an attempt started for that
\* user, once, or by a removal: the state service and the account storage
\* together keep what README.md promises of /auth-url and /callback.
THEOREM ImplementsBinding == Spec => BindingSpec
<1>1. Init => B!Init
  <2>1. S!Init => S!Owner = [s \in States |-> Nobody]
    BY DEF S!Init, S!Owner, S!Tokens
  <2>2. A!Init => A!Account \in [Users -> Emails \cup {NoEmail}]
    BY DEF A!Init, A!Account, A!Connected, A!StoredRows
  <2> QED BY <2>1, <2>2 DEF Init, B!Init, Attempts
<1>2. ASSUME SP!IInv, AP!IInv, StateFacts, AccountFacts, Link, [Next]_vars
      PROVE  [B!Next]_(B!vars)
  <2> USE DEF B!vars
  <2>1. CASE StateOnly
    <3>1. A!Account' = A!Account /\ Attempts' = Attempts
      BY <2>1 DEF StateOnly, accountVars, A!Account, A!Connected, Attempts
    <3>2. S!Owner = SP!Owner /\ S!Owner' = SP!Owner'
      BY DEF S!Owner, SP!Owner
    <3>3. [SP!Next]_(SP!vars)
      BY <2>1, StateStepSame DEF StateOnly, S!Next, S!Tokens
    <3>4. \/ SP!Owner' = SP!Owner
          \/ \E s \in States, u \in Users :
                SP!Owner[s] = Nobody /\ SP!Owner' = [SP!Owner EXCEPT ![s] = u]
      BY <1>2, <3>3, StateParts, SP!OwnerStep DEF SP!ConstantsAssumption, SP!NoTxnAssumption
    <3> QED BY <3>1, <3>2, <3>4 DEF B!Next, B!Start
  <2>2. CASE issued' = issued
    <3>1. S!Owner' = S!Owner
      BY <2>2 DEF S!Owner
    <3>2. ASSUME NEW c \in Logins, Store(c) PROVE [B!Next]_(B!vars)
      BY <1>2, <3>1, <3>2, StoreBinds DEF B!Next, B!Bind
    <3>3. ASSUME NEW r \in Reqs, Proceed(r) \/ Fails(r) PROVE [B!Next]_(B!vars)
      <4>1. Attempts' = Attempts
        BY <3>3 DEF Proceed, Fails, Attempts
      <4> QED BY <1>2, <3>1, <3>3, <4>1, AccountMoves DEF B!Next, B!Unbind
    <3>4. CASE UNCHANGED <<accounts, stored>>
      BY <3>1, <3>4 DEF A!Account, A!Connected, Attempts
    <3>5. \A c \in Logins : Validate(c) \/ Redeem(c) => UNCHANGED <<accounts, stored>>
      BY DEF Validate, Redeem, accountVars, A!Begin
    <3>6. \A r \in Others : \A op, u : Arrive(r, op, u) => UNCHANGED <<accounts, stored>>
      BY DEF Arrive, A!Begin
    <3>7. Tick \/ Restart => UNCHANGED <<accounts, stored>>
      BY DEF Tick, A!Tick, Restart, A!Restart, accountVars
    <3>8. StateOnly => UNCHANGED <<accounts, stored>>
      BY DEF StateOnly, accountVars
    <3> QED BY <1>2, <3>2, <3>3, <3>4, <3>5, <3>6, <3>7, <3>8 DEF Next, vars
  <2>3. StateOnly \/ issued' = issued
    <3>1. \A c \in Logins : Validate(c) \/ Redeem(c) \/ Store(c) => issued' = issued
      BY DEF Validate, S!Find, S!Check, Redeem, S!Consume, Store, stateVars
    <3>2. \A r \in Reqs : Proceed(r) \/ Fails(r) => issued' = issued
      BY DEF Proceed, Fails, stateVars
    <3>3. \A r \in Others : \A op, u : Arrive(r, op, u) => issued' = issued
      BY DEF Arrive, stateVars
    <3>4. Tick \/ Restart => issued' = issued
      BY DEF Tick, S!Tick, Restart, S!Restart, stateVars
    <3> QED BY <1>2, <3>1, <3>2, <3>3, <3>4 DEF Next, vars
  <2> QED BY <2>1, <2>2, <2>3
<1> QED
  BY <1>1, <1>2, StateInv, AccountsInv, StateFactsHold, AccountFactsHold, LinkHolds, PTL
  DEF Spec, BindingSpec, B!Spec

\* What Binding says of a step: an account is replaced only when an attempt that its
\* user started connects for the first time.
AttemptsStarted == \A s \in Attempts : S!Owner[s] # Nobody
OwnAttempt ==
    \A u \in Users : \/ A!Account'[u] \in {A!Account[u], NoEmail}
                     \/ \E s \in Attempts' \ Attempts : S!Owner[s] = u
BindingDomains == DOMAIN S!Owner = States /\ DOMAIN A!Account = Users

\* The account of a user is replaced only by an attempt that this user started and
\* that has connected nothing before; one that nobody started connects nothing.
THEOREM OwnAttemptsOnly == Spec => []AttemptsStarted /\ [][OwnAttempt]_vars
<1> USE DEF AttemptsStarted, OwnAttempt, BindingDomains
<1>1. B!Init => AttemptsStarted /\ BindingDomains
  BY DEF B!Init
<1>2. ASSUME AttemptsStarted, BindingDomains, [B!Next]_(B!vars)
      PROVE  AttemptsStarted' /\ BindingDomains' /\ OwnAttempt
  <2>1. CASE UNCHANGED B!vars
    BY <1>2, <2>1 DEF B!vars
  <2>2. CASE \E s \in States, u \in Users : B!Start(s, u)
    BY <1>2, <2>2 DEF B!Start
  <2>3. CASE \E s \in States, e \in Emails : B!Bind(s, e)
    BY <1>2, <2>3 DEF B!Bind
  <2>4. CASE \E u \in Users : B!Unbind(u)
    BY <1>2, <2>4 DEF B!Unbind
  <2> QED BY <1>2, <2>1, <2>2, <2>3, <2>4 DEF B!Next
<1>3. AttemptsStarted /\ BindingDomains /\ [B!Next]_(B!vars) => [OwnAttempt]_vars
  BY <1>2
<1> HIDE DEF AttemptsStarted, OwnAttempt, BindingDomains
<1> QED BY <1>1, <1>2, <1>3, ImplementsBinding, PTL DEF BindingSpec, B!Spec

\* The parts' variables and the history of stored accounts stay in their types.
THEOREM TypeCorrect == Spec => []TypeOK
<1>1. SP!IInv => S!TypeOK
  BY DEF SP!IInv, SP!TypeOK, S!TypeOK, SP!Callback, S!Callback, SP!Running, S!Running,
     SP!Answers, S!Answers, SP!Tokens, S!Tokens, SP!Txn, S!Txn
<1>2. AP!IInv => A!TypeOK
  BY DEF AP!IInv, AP!TypeOK, A!TypeOK, A!Request, AP!Request, A!Running, AP!Running,
     A!Answers, AP!Answers, A!Calling, AP!Calling, A!Statements, AP!Statements, A!Ops,
     AP!Ops, A!Row, AP!Row, A!Token, AP!Token, A!AccessToken, AP!AccessToken,
     A!RefreshToken, AP!RefreshToken
<1>3. Link => stored \in SUBSET Entry
  BY DEF Link
<1> QED BY <1>1, <1>2, <1>3, StateInv, AccountsInv, LinkHolds, PTL DEF TypeOK

--------------------------------------------------------------------------------
\* What the parts promise alone, they keep in the composition: no callback beside a
\* login, and no login beside a refresh or a removal, gets around the state service
\* or the account storage.

\* The callbacks of /callback, seen as redemptions of SingleUse.
LEMMA StatePromise == Spec => S!SingleUseSpec
<1>1. SP!Spec => SP!SingleUseSpec
  BY StateParts, SP!ImplementsSingleUse DEF SP!ConstantsAssumption, SP!NoTxnAssumption
<1> USE DEF S!Owner, SP!Owner, S!Redemptions, SP!Redemptions, S!Redemption, SP!Redemption,
            S!Accepted, SP!Accepted
<1>2. SP!Promise!Init => S!Promise!Init
  BY DEF S!Promise!Init, SP!Promise!Init
<1>3. [SP!Promise!Next]_(SP!Promise!vars) => [S!Promise!Next]_(S!Promise!vars)
  BY DEF S!Promise!Next, SP!Promise!Next, S!Promise!Issue, SP!Promise!Issue,
         S!Promise!Redeem, SP!Promise!Redeem, S!Promise!vars, SP!Promise!vars
<1> QED
  BY <1>1, <1>2, <1>3, StateSame, ImplementsState, PTL
  DEF S!SingleUseSpec, SP!SingleUseSpec, S!Promise!Spec, SP!Promise!Spec

\* The logins, seen as consents of AccountBook.
LEMMA AccountsPromise == Spec => A!AccountBookSpec
<1>1. AP!Spec => AP!AccountBookSpec
  BY AccountsParts, AP!ImplementsAccountBook DEF AP!TimesAssumption, AP!NullsAssumption
<1> USE DEF A!Account, AP!Account, A!Connected, AP!Connected, A!Pending, AP!Pending,
            A!Holding, AP!Holding
<1>2. AP!Book!Init => A!Book!Init
  BY DEF A!Book!Init, AP!Book!Init
<1>3. [AP!Book!Next]_(AP!Book!vars) => [A!Book!Next]_(A!Book!vars)
  BY DEF A!Book!Next, AP!Book!Next, A!Book!Consent, AP!Book!Consent, A!Book!Connect,
         AP!Book!Connect, A!Book!Drop, AP!Book!Drop, A!Book!Disconnect, AP!Book!Disconnect,
         A!Book!vars, AP!Book!vars
<1> QED
  BY <1>1, <1>2, <1>3, AccountsSame, ImplementsAccounts, PTL
  DEF A!AccountBookSpec, AP!AccountBookSpec, A!Book!Spec, AP!Book!Spec

\* Requests of one user one after the other.
LEMMA AccountsSerial == Spec => A!SerialIsSafe
<1>1. AP!Spec => AP!SerialIsSafe
  BY AccountsParts, AP!SerialIsSafeHolds DEF AP!TimesAssumption, AP!NullsAssumption
<1>2. A!OneAtATime => AP!OneAtATime
  BY DEF A!OneAtATime, AP!OneAtATime, A!Running, AP!Running, A!Calling, AP!Calling,
         A!Statements, AP!Statements
<1>3. AP!NeverPanics /\ AP!ReconnectReplaces /\ AP!NothingUndone
         => A!NeverPanics /\ A!ReconnectReplaces /\ A!NothingUndone
  BY DEF A!NeverPanics, AP!NeverPanics, A!ReconnectReplaces, AP!ReconnectReplaces,
         A!NothingUndone, AP!NothingUndone, A!Connected, AP!Connected, A!At, AP!At,
         A!Mine, AP!Mine
<1> QED
  BY <1>1, <1>2, <1>3, AccountsSame, ImplementsAccounts, PTL
  DEF A!SerialIsSafe, AP!SerialIsSafe

\* A token taken from the table is alive at Google.
LEMMA AccountsFresh == Spec => A!ServedFresh
<1>1. AP!Spec => AP!ServedFresh
  BY AccountsParts, AP!ServedFreshHolds DEF AP!TimesAssumption, AP!NullsAssumption
<1>2. [\A r \in Reqs : AP!At(r, "check") /\ AP!At(r, "served")'
          => now < req[r].row.access.dies]_(AP!vars)
      => [\A r \in Reqs : A!At(r, "check") /\ A!At(r, "served")'
             => now < req[r].row.access.dies]_(A!vars)
  BY DEF A!At, AP!At, A!vars, AP!vars
<1> QED
  BY <1>1, <1>2, AccountsSame, ImplementsAccounts, PTL DEF A!ServedFresh, AP!ServedFresh

\* The callbacks and the accounts of the whole system keep every promise that
\* OAuthState and TokenService were shown to keep on their own.
THEOREM PartsKeepTheirPromises ==
    Spec => /\ S!SingleUseSpec /\ A!AccountBookSpec /\ A!SerialIsSafe /\ A!ServedFresh
            /\ [](/\ S!AcceptedOnce /\ S!AcceptedAsIssued
                  /\ S!UnknownOnlyIfExpired /\ S!ReplayHasACause
                  /\ A!OnlyConsentedAccounts /\ A!RefreshTokenOnFile /\ A!ExpiryTracksToken)
<1>1. SP!IInv => /\ S!AcceptedOnce /\ S!AcceptedAsIssued
                 /\ S!UnknownOnlyIfExpired /\ S!ReplayHasACause
  <2> USE DEF S!Accepted, SP!Accepted
  <2>1. SP!IInv => S!AcceptedOnce
    BY DEF SP!IInv, S!AcceptedOnce, SP!AcceptedOnce
  <2>2. SP!IInv => S!AcceptedAsIssued
    BY DEF SP!IInv, SP!CallbackInv, SP!SameTxn, S!AcceptedAsIssued
  <2>3. SP!IInv => S!UnknownOnlyIfExpired
    BY DEF SP!IInv, SP!CallbackInv, S!UnknownOnlyIfExpired
  <2>4. SP!IInv => S!ReplayHasACause
    BY DEF SP!IInv, SP!CallbackInv, SP!Redeemed, S!ReplayHasACause
  <2> QED BY <2>1, <2>2, <2>3, <2>4
<1>2. AP!IInv => A!OnlyConsentedAccounts /\ A!RefreshTokenOnFile /\ A!ExpiryTracksToken
  <2> USE DEF A!Connected, AP!IInv, AP!RowsInv, AP!RowOk
  <2>1. AP!IInv => A!OnlyConsentedAccounts
    BY DEF AP!ReqsInv, AP!ReqOk, A!OnlyConsentedAccounts
  <2>2. AP!IInv => A!RefreshTokenOnFile /\ A!ExpiryTracksToken
    BY DEF A!RefreshTokenOnFile, A!ExpiryTracksToken, AP!Tracks
  <2> QED BY <2>1, <2>2
<1> QED
  BY <1>1, <1>2, StateInv, AccountsInv, StatePromise, AccountsPromise, AccountsSerial,
     AccountsFresh, PTL

================================================================================
