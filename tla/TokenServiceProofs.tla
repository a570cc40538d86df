-------------------------- MODULE TokenServiceProofs --------------------------
(***************************************************************************)
(* Machine-checked proofs about TokenService, for all sets of users,       *)
(* Google accounts and requests, and all lifetimes and timeouts.           *)
(***************************************************************************)
EXTENDS TokenService, TLAPS

\* Recorded expiry against the expiry at Google.
Tracks(access, expires) ==
    access.dies <= expires /\ expires <= access.dies + 2 * Timeout

\* A row, on file or in a snapshot, of a user with consents C.
RowOk(row, C) ==
    /\ row.refresh # NoToken
    /\ row.email \in C /\ row.access.owner \in C /\ row.refresh.owner \in C
    /\ Tracks(row.access, row.expires)

\* What Google granted to a request of a user with consents C.
GrantOk(token, C) ==
    /\ token # NoToken
    /\ token.access.owner \in C
    /\ token.refresh # NoToken => token.refresh.owner \in C
    /\ Tracks(token.access, token.expires)

\* What a request carries, by where it is, at time t.
ReqOk(q, C, t) ==
    /\ q.pc = "idle" => q.access = NoToken /\ q.email = NoEmail
    /\ q.pc = "find" => q.op \in {"token", "refresh", "delete", "account"}
    /\ q.row # NoRow => RowOk(q.row, C)
    /\ q.pc \in {"check", "open", "renew", "reread", "write", "result", "delete"}
          => q.row # NoRow
    /\ q.pc \in Calling => q.since <= t /\ t <= q.since + Timeout
    /\ q.pc = "userinfo" =>
          /\ q.token # NoToken /\ q.token.refresh # NoToken
          /\ q.token.refresh.owner = q.token.access.owner
          /\ q.token.access.dies <= q.since + Life
          /\ q.since + Life <= q.token.access.dies + Timeout
    /\ q.pc \in {"reread", "write", "result", "upsert", "insert", "update", "confirm"}
          => GrantOk(q.token, C)
    /\ q.pc \in {"upsert", "insert", "update", "confirm"} => q.token.refresh # NoToken
    /\ q.pc = "write" => q.kept # NoToken /\ q.kept.owner \in C
    /\ q.access # NoToken => q.access.owner \in C
    /\ q.email # NoEmail => q.email \in C

\* Inductive: the stored rows alone are not, because what is written was read or
\* granted several steps earlier.
RowsInv == \A u \in Users : accounts[u] # NoRow => RowOk(accounts[u], consented[u])
ReqsInv ==
    \A r \in Reqs :
        IF req[r].pc = "idle" THEN req[r].access = NoToken /\ req[r].email = NoEmail
        ELSE ReqOk(req[r], consented[req[r].user], now)
IInv == TypeOK /\ RowsInv /\ ReqsInv

--------------------------------------------------------------------------------
\* More consents do no harm.
LEMMA RowOkGrows ==
    ASSUME NEW row, NEW C, NEW D, C \subseteq D, RowOk(row, C)
    PROVE  RowOk(row, D)
BY DEF RowOk

LEMMA ReqOkGrows ==
    ASSUME NEW q, NEW C, NEW D, NEW t, C \subseteq D, ReqOk(q, C, t)
    PROVE  ReqOk(q, D, t)
BY RowOkGrows DEF ReqOk, GrantOk

\* A step that gives request r a new record and may rewrite the tables keeps the
\* invariant if what it writes satisfies it.
LEMMA MoveInv ==
    ASSUME IInv, NEW r \in Reqs, NEW new \in Request, new.user \in Users,
           req' = [req EXCEPT ![r] = new], now' = now,
           consented' \in [Users -> SUBSET Emails],
           \A u \in Users : consented[u] \subseteq consented'[u],
           accounts' \in [Users -> Row \cup {NoRow}],
           \A u \in Users : accounts'[u] # NoRow => RowOk(accounts'[u], consented'[u]),
           ReqOk(new, consented'[new.user], now)
    PROVE  IInv'
<1>1. req'[r] = new /\ \A q \in Reqs \ {r} : req'[q] = req[q]
  BY DEF IInv, TypeOK
<1>2. TypeOK'
  <2>1. req' \in [Reqs -> Request]
    BY DEF IInv, TypeOK
  <2> QED BY <1>1, <2>1 DEF IInv, TypeOK
<1>3. RowsInv'
  BY DEF RowsInv
<1>4. ASSUME NEW q \in Reqs
      PROVE  IF req'[q].pc = "idle" THEN req'[q].access = NoToken /\ req'[q].email = NoEmail
             ELSE ReqOk(req'[q], consented'[req'[q].user], now')
  <2>1. CASE q = r
    BY <1>1, <2>1 DEF ReqOk
  <2>2. CASE q # r /\ req[q].pc = "idle"
    BY <1>1, <2>2 DEF IInv, ReqsInv
  <2>3. CASE q # r /\ req[q].pc # "idle"
    <3>1. req'[q] = req[q] /\ req[q].user \in Users
      BY <1>1, <2>3 DEF IInv, TypeOK
    <3>2. ReqOk(req[q], consented[req[q].user], now)
      BY <2>3 DEF IInv, ReqsInv
    <3> QED BY <2>3, <3>1, <3>2, ReqOkGrows
  <2> QED BY <2>1, <2>2, <2>3
<1> QED BY <1>2, <1>3, <1>4 DEF IInv, ReqsInv

\* The same for a step that leaves the tables alone.
LEMMA QuietInv ==
    ASSUME IInv, NEW r \in Reqs, NEW new \in Request, new.user \in Users,
           req' = [req EXCEPT ![r] = new], UNCHANGED <<now, accounts, consented>>,
           ReqOk(new, consented[new.user], now)
    PROVE  IInv'
BY MoveInv DEF IInv, TypeOK, RowsInv

\* The same for a request that ends.
LEMMA EndInv ==
    ASSUME IInv, NEW r \in Reqs, ~At(r, "idle"), NEW answer \in Answers,
           NEW access \in AccessToken \cup {NoToken}, NEW email \in Emails \cup {NoEmail},
           access # NoToken => access.owner \in consented[req[r].user],
           email # NoEmail => email \in consented[req[r].user],
           End(r, answer, access, email), UNCHANGED <<now, consented>>,
           accounts' \in [Users -> Row \cup {NoRow}],
           \A u \in Users : accounts'[u] # NoRow => RowOk(accounts'[u], consented[u])
    PROVE  IInv'
<1>1. req[r].op \in Ops \cup {"none"} /\ req[r].user \in Users
  BY DEF IInv, TypeOK, Request, At
<1> DEFINE new == [Blank(answer, req[r].op, req[r].user) EXCEPT
                      !.access = access, !.email = email]
<1>2. new \in Request /\ new.user = req[r].user
  BY <1>1 DEF Blank, Request
<1>3. ReqOk(new, consented[req[r].user], now)
  BY DEF ReqOk, Blank, Answers, Calling
<1>4. req' = [req EXCEPT ![r] = new]
  BY DEF End, IInv, TypeOK
<1> HIDE DEF new
<1> QED BY <1>1, <1>2, <1>3, <1>4, MoveInv DEF IInv, TypeOK

LEMMA FailInv ==
    ASSUME IInv, NEW r \in Reqs, ~At(r, "idle"), NEW answer \in Answers \ {"served"},
           Fail(r, answer), UNCHANGED <<now, accounts, consented>>
    PROVE  IInv'
BY EndInv DEF Fail, IInv, TypeOK, RowsInv

--------------------------------------------------------------------------------
\* Each action keeps the invariant.

\* What an action may assume of its request, its user and its row.
LEMMA Facts ==
    ASSUME IInv, NEW r \in Reqs, ~At(r, "idle")
    PROVE  /\ req[r] \in Request /\ req[r].user \in Users /\ now \in Nat
           /\ req \in [Reqs -> Request] /\ accounts \in [Users -> Row \cup {NoRow}]
           /\ consented \in [Users -> SUBSET Emails]
           /\ ReqOk(req[r], consented[req[r].user], now)
           /\ Mine(r) \in Row \cup {NoRow}
           /\ Mine(r) # NoRow => RowOk(Mine(r), consented[req[r].user])
           /\ \A u \in Users : accounts[u] # NoRow => RowOk(accounts[u], consented[u])
BY DEF IInv, TypeOK, ReqsInv, RowsInv, Mine, At

LEMMA BeginInv ==
    ASSUME IInv, NEW r \in Reqs, NEW op \in Ops, NEW u \in Users, Begin(r, op, u)
    PROVE  IInv'
<1> DEFINE new == [Blank(IF op = "login" THEN "exchange" ELSE "find", op, u)
                      EXCEPT !.since = now]
<1>1. now \in Nat /\ Timeout \in Nat
  BY TimesAssumption DEF IInv, TypeOK
<1>2. new \in Request /\ new.user = u
  BY <1>1 DEF Blank, Request, Running, Calling, Statements
<1>3. ReqOk(new, consented[u], now)
  BY <1>1 DEF ReqOk, Blank, Calling, Ops
<1>4. req' = [req EXCEPT ![r] = new] /\ UNCHANGED <<now, accounts, consented>>
  BY DEF Begin
<1> HIDE DEF new
<1> QED BY <1>2, <1>3, <1>4, QuietInv

LEMMA FindInv ==
    ASSUME IInv, NEW r \in Reqs, Find(r)
    PROVE  IInv'
<1>1. At(r, "find") /\ ~At(r, "idle") /\ UNCHANGED <<now, accounts, consented>>
  BY DEF Find, At
<1>2. CASE Mine(r) = NoRow
  <2>1. Fail(r, IF req[r].op \in {"token", "refresh"} THEN "reauth" ELSE "notfound")
    BY <1>2 DEF Find
  <2> QED BY <1>1, <2>1, FailInv DEF Answers
<1>3. CASE Mine(r) # NoRow /\ req[r].op = "account"
  <2>1. End(r, "shown", NoToken, Mine(r).email)
    BY <1>3 DEF Find
  <2>2. Mine(r).email \in Emails /\ Mine(r).email \in consented[req[r].user]
    BY <1>1, <1>3, Facts DEF Row, RowOk
  <2> QED BY <1>1, <2>1, <2>2, EndInv, Facts DEF Answers
<1>4. CASE Mine(r) # NoRow /\ req[r].op # "account"
  <2> DEFINE pc == CASE req[r].op = "token" -> "check"
                     [] req[r].op = "refresh" -> "open"
                     [] req[r].op = "delete" -> "delete"
             new == [req[r] EXCEPT !.row = Mine(r), !.pc = pc]
  <2>1. req[r].op \in {"token", "refresh", "delete"}
    BY <1>1, <1>4, Facts DEF At, ReqOk
  <2>2. pc \in {"check", "open", "delete"}
    BY <2>1
  <2>3. req' = [req EXCEPT ![r].row = Mine(r), ![r].pc = pc]
    BY <1>4 DEF Find
  <2> HIDE DEF pc
  <2>4. req' = [req EXCEPT ![r] = new]
    BY <1>1, <2>3, Facts DEF Request
  <2>5. new \in Request /\ new.user = req[r].user /\ new.user \in Users
    BY <1>1, <1>4, <2>2, Facts DEF Request, Running, Statements
  <2>6. ReqOk(new, consented[new.user], now)
    BY <1>1, <1>4, <2>2, Facts DEF Request, ReqOk, Calling
  <2> HIDE DEF new
  <2> QED BY <1>1, <2>4, <2>5, <2>6, QuietInv
<1> QED BY <1>2, <1>3, <1>4

LEMMA CheckInv ==
    ASSUME IInv, NEW r \in Reqs, Check(r)
    PROVE  IInv'
<1>1. At(r, "check") /\ ~At(r, "idle") /\ UNCHANGED <<now, accounts, consented>>
  BY DEF Check, At
<1>2. req[r].row \in Row /\ RowOk(req[r].row, consented[req[r].user])
  BY <1>1, Facts DEF At, ReqOk, Request
<1>3. CASE End(r, "served", req[r].row.access, req[r].row.email)
  <2>1. req[r].row.access \in AccessToken /\ req[r].row.email \in Emails
        /\ req[r].row.access # NoToken
    BY <1>2, NullsAssumption DEF Row
  <2> QED BY <1>1, <1>2, <1>3, <2>1, EndInv, Facts DEF Answers, RowOk
<1>4. CASE Goto(r, "open")
  <2> DEFINE new == [req[r] EXCEPT !.pc = "open"]
  <2>1. req' = [req EXCEPT ![r] = new]
    BY <1>4 DEF Goto
  <2>2. new \in Request /\ new.user = req[r].user /\ new.user \in Users
    BY <1>1, Facts DEF Request, Running
  <2>3. ReqOk(new, consented[new.user], now)
    BY <1>1, Facts DEF At, Request, ReqOk, Calling
  <2> HIDE DEF new
  <2> QED BY <1>1, <2>1, <2>2, <2>3, QuietInv
<1> QED BY <1>3, <1>4 DEF Check

LEMMA OpenInv ==
    ASSUME IInv, NEW r \in Reqs, Open(r)
    PROVE  IInv'
<1>1. At(r, "open") /\ ~At(r, "idle") /\ UNCHANGED <<now, accounts, consented>>
  BY DEF Open, At
<1>2. CASE Fail(r, "reauth") \/ Fail(r, "error")
  BY <1>1, <1>2, FailInv DEF Answers
<1>3. CASE req' = [req EXCEPT ![r].pc = "renew", ![r].since = now]
  <2> DEFINE new == [req[r] EXCEPT !.pc = "renew", !.since = now]
  <2>1. req' = [req EXCEPT ![r] = new]
    BY <1>1, <1>3, Facts DEF Request
  <2>2. new \in Request /\ new.user = req[r].user /\ new.user \in Users
    BY <1>1, Facts DEF Request, Running, Calling
  <2>3. ReqOk(new, consented[new.user], now)
    BY <1>1, Facts, TimesAssumption DEF At, Request, ReqOk, Calling
  <2> HIDE DEF new
  <2> QED BY <1>1, <2>1, <2>2, <2>3, QuietInv
<1> QED BY <1>2, <1>3 DEF Open

LEMMA RenewInv ==
    ASSUME IInv, NEW r \in Reqs, Renew(r)
    PROVE  IInv'
<1>1. At(r, "renew") /\ ~At(r, "idle") /\ UNCHANGED <<now, accounts, consented>>
  BY DEF Renew, At
<1>2. CASE Fail(r, "reauth") \/ Fail(r, "error")
  BY <1>1, <1>2, FailInv DEF Answers
<1> DEFINE e == req[r].row.refresh.owner
           grant(b, g, x) == [access |-> [owner |-> e, dies |-> b + Life],
                              refresh |-> IF x THEN [owner |-> e, gen |-> g] ELSE NoToken,
                              expires |-> now + Life]
<1>3. ASSUME NEW b \in req[r].since .. now, NEW g \in Gens, NEW x \in BOOLEAN,
             req' = [req EXCEPT ![r].pc = "reread", ![r].token = grant(b, g, x)]
      PROVE  IInv'
  <2> DEFINE new == [req[r] EXCEPT !.pc = "reread", !.token = grant(b, g, x)]
  <2>1. /\ req[r].row \in Row /\ req[r].row.refresh \in RefreshToken
        /\ e \in consented[req[r].user] /\ e \in Emails
        /\ req[r].since \in Nat /\ now <= req[r].since + Timeout
    BY <1>1, Facts DEF At, Request, ReqOk, RowOk, Row, RefreshToken, Calling
  <2>2. b \in Nat /\ b <= now /\ now <= b + Timeout
    BY <1>1, <2>1, Facts, TimesAssumption
  <2>3. grant(b, g, x) \in Token /\ grant(b, g, x) # NoToken
    <3>1. grant(b, g, x) \in Token
      BY <1>1, <2>1, <2>2, Facts, TimesAssumption DEF Token, AccessToken, RefreshToken
    <3> QED BY <3>1, NullsAssumption
  <2>4. GrantOk(grant(b, g, x), consented[req[r].user])
    BY <1>1, <2>1, <2>2, <2>3, Facts, TimesAssumption DEF GrantOk, Tracks
  <2> HIDE DEF grant
  <2>5. req' = [req EXCEPT ![r] = new]
    BY <1>1, <1>3, Facts DEF Request
  <2>6. new \in Request /\ new.user = req[r].user /\ new.user \in Users
    BY <1>1, <2>3, Facts DEF Request, Running, Statements
  <2>7. ReqOk(new, consented[new.user], now)
    BY <1>1, <2>4, Facts DEF At, Request, ReqOk, Calling
  <2> HIDE DEF new
  <2> QED BY <1>1, <2>5, <2>6, <2>7, QuietInv
<1> QED BY <1>2, <1>3 DEF Renew

LEMMA RereadInv ==
    ASSUME IInv, NEW r \in Reqs, Reread(r)
    PROVE  IInv'
<1>1. At(r, "reread") /\ ~At(r, "idle") /\ UNCHANGED <<now, accounts, consented>>
  BY DEF Reread, At
<1>2. CASE Fail(r, "panic")
  BY <1>1, <1>2, FailInv DEF Answers
<1>3. CASE /\ Mine(r) # NoRow
           /\ req' = [req EXCEPT ![r].pc = "write", ![r].kept = Mine(r).refresh]
  <2> DEFINE new == [req[r] EXCEPT !.pc = "write", !.kept = Mine(r).refresh]
  <2>1. /\ Mine(r).refresh \in RefreshToken \cup {NoToken} /\ Mine(r).refresh # NoToken
        /\ Mine(r).refresh.owner \in consented[req[r].user]
    BY <1>1, <1>3, Facts DEF Row, RowOk
  <2>2. req' = [req EXCEPT ![r] = new]
    BY <1>1, <1>3, Facts DEF Request
  <2>3. new \in Request /\ new.user = req[r].user /\ new.user \in Users
    BY <1>1, <2>1, Facts DEF Request, Running, Statements
  <2>4. ReqOk(new, consented[new.user], now)
    BY <1>1, <2>1, Facts DEF At, Request, ReqOk, Calling
  <2> HIDE DEF new
  <2> QED BY <1>1, <2>2, <2>3, <2>4, QuietInv
<1> QED BY <1>2, <1>3 DEF Reread

\* What the UPDATE of a refresh leaves in a row.
LEMMA WrittenOk ==
    ASSUME NEW row \in Row, NEW t \in Token, NEW kept \in RefreshToken, NEW C,
           RowOk(row, C), GrantOk(t, C), kept.owner \in C
    PROVE  Written(row, t, kept) \in Row /\ RowOk(Written(row, t, kept), C)
<1>1. /\ Coalesce(t, kept) \in RefreshToken /\ Coalesce(t, kept) # NoToken
      /\ Coalesce(t, kept).owner \in C
  BY NullsAssumption DEF Coalesce, GrantOk, Token
<1>2. t.access \in AccessToken /\ t.expires \in Nat
  BY DEF Token
<1>3. Written(row, t, kept) \in Row
  BY <1>1, <1>2 DEF Written, Row
<1>4. /\ Written(row, t, kept).email = row.email
      /\ Written(row, t, kept).access = t.access
      /\ Written(row, t, kept).expires = t.expires
      /\ Written(row, t, kept).refresh = Coalesce(t, kept)
  BY DEF Written, Row
<1> QED BY <1>1, <1>3, <1>4 DEF RowOk, GrantOk

LEMMA WriteInv ==
    ASSUME IInv, NEW r \in Reqs, Write(r)
    PROVE  IInv'
<1>1. At(r, "write") /\ ~At(r, "idle") /\ UNCHANGED <<now, consented>>
  BY DEF Write, At
<1> DEFINE new == [req[r] EXCEPT !.pc = "result"]
           u == req[r].user
           row == Written(Mine(r), req[r].token, req[r].kept)
<1>2. req' = [req EXCEPT ![r] = new]
  BY DEF Write, Goto
<1>3. new \in Request /\ new.user = u /\ new.user \in Users
  BY <1>1, Facts DEF Request, Running, Statements
<1>4. ReqOk(new, consented[u], now)
  BY <1>1, Facts DEF At, Request, ReqOk, Calling
<1>5. /\ req[r].token \in Token /\ GrantOk(req[r].token, consented[u])
      /\ req[r].kept \in RefreshToken /\ req[r].kept.owner \in consented[u]
  BY <1>1, Facts DEF At, Request, ReqOk, GrantOk
<1> HIDE DEF new
<1>6. CASE accounts' = accounts
  BY <1>1, <1>2, <1>3, <1>4, <1>6, QuietInv
<1>7. CASE Mine(r) # NoRow /\ accounts' = [accounts EXCEPT ![u] = row]
  <2>1. row \in Row /\ RowOk(row, consented[u])
    BY <1>1, <1>5, <1>7, WrittenOk, Facts
  <2> HIDE DEF row
  <2>2. accounts' \in [Users -> Row \cup {NoRow}]
    BY <1>1, <1>7, <2>1, Facts
  <2>3. \A v \in Users : accounts'[v] # NoRow => RowOk(accounts'[v], consented[v])
    BY <1>1, <1>7, <2>1, Facts
  <2> QED BY <1>1, <1>2, <1>3, <1>4, <2>2, <2>3, MoveInv, Facts
<1> QED BY <1>6, <1>7 DEF Write, Mine

LEMMA ResultInv ==
    ASSUME IInv, NEW r \in Reqs, Result(r)
    PROVE  IInv'
<1>1. At(r, "result") /\ ~At(r, "idle") /\ UNCHANGED <<now, accounts, consented>>
  BY DEF Result, At
<1>2. CASE Fail(r, "panic")
  BY <1>1, <1>2, FailInv DEF Answers
<1> DEFINE email == IF req[r].op = "token" THEN req[r].row.email ELSE NoEmail
<1>3. CASE Mine(r) # NoRow /\ End(r, "served", Mine(r).access, email)
  <2>1. /\ email \in Emails \cup {NoEmail}
        /\ email # NoEmail => email \in consented[req[r].user]
    BY <1>1, Facts DEF At, Request, ReqOk, Row, RowOk
  <2>2. /\ Mine(r).access \in AccessToken /\ Mine(r).access # NoToken
        /\ Mine(r).access.owner \in consented[req[r].user]
    BY <1>1, <1>3, Facts, NullsAssumption DEF Row, RowOk
  <2> QED BY <1>1, <1>3, <2>1, <2>2, EndInv, Facts DEF Answers
<1> QED BY <1>2, <1>3 DEF Result

LEMMA ExchangeInv ==
    ASSUME IInv, NEW r \in Reqs, Exchange(r)
    PROVE  IInv'
<1>1. At(r, "exchange") /\ ~At(r, "idle") /\ UNCHANGED <<now, accounts, consented>>
  BY DEF Exchange, At
<1>2. CASE Fail(r, "failed")
  BY <1>1, <1>2, FailInv DEF Answers
<1> DEFINE grant(b, e, g) == [access |-> [owner |-> e, dies |-> b + Life],
                              refresh |-> [owner |-> e, gen |-> g], expires |-> 0]
<1>3. ASSUME NEW b \in req[r].since .. now, NEW e \in Emails, NEW g \in Gens,
             req' = [req EXCEPT ![r].pc = "userinfo", ![r].since = now,
                                ![r].token = grant(b, e, g)]
      PROVE  IInv'
  <2> DEFINE new == [req[r] EXCEPT !.pc = "userinfo", !.since = now,
                                   !.token = grant(b, e, g)]
  <2>1. req[r].since \in Nat /\ now <= req[r].since + Timeout /\ now \in Nat
    BY <1>1, Facts DEF At, Request, ReqOk, Calling
  <2>2. b \in Nat /\ b <= now /\ now <= b + Timeout
    BY <1>1, <2>1, TimesAssumption
  <2>3. /\ grant(b, e, g) \in Token /\ grant(b, e, g) # NoToken
        /\ grant(b, e, g).refresh # NoToken
    <3>1. grant(b, e, g) \in Token /\ grant(b, e, g).refresh \in RefreshToken
      BY <2>2, TimesAssumption DEF Token, AccessToken, RefreshToken
    <3> QED BY <3>1, NullsAssumption
  <2>4. /\ grant(b, e, g).refresh.owner = grant(b, e, g).access.owner
        /\ grant(b, e, g).access.dies <= now + Life
        /\ now + Life <= grant(b, e, g).access.dies + Timeout
    BY <2>1, <2>2, TimesAssumption
  <2> HIDE DEF grant
  <2>5. req' = [req EXCEPT ![r] = new]
    BY <1>1, <1>3, Facts DEF Request
  <2>6. new \in Request /\ new.user = req[r].user /\ new.user \in Users
    BY <1>1, <2>3, Facts DEF Request, Running, Calling
  <2>7. ReqOk(new, consented[new.user], now)
    BY <1>1, <2>3, <2>4, Facts, TimesAssumption DEF At, Request, ReqOk, Calling
  <2> HIDE DEF new
  <2> QED BY <1>1, <2>5, <2>6, <2>7, QuietInv
<1> QED BY <1>2, <1>3 DEF Exchange

LEMMA UserinfoInv ==
    ASSUME IInv, NEW r \in Reqs, Userinfo(r)
    PROVE  IInv'
<1>1. At(r, "userinfo") /\ ~At(r, "idle") /\ UNCHANGED <<now, accounts>>
  BY DEF Userinfo, At
<1>2. CASE Fail(r, "failed") /\ UNCHANGED consented
  BY <1>1, <1>2, FailInv DEF Answers
<1> DEFINE u == req[r].user
           t == req[r].token
<1>3. CASE /\ req' = [req EXCEPT ![r].pc = "upsert", ![r].token.expires = now + Life]
           /\ consented' = [consented EXCEPT ![u] = @ \cup {t.access.owner}]
  <2> DEFINE grant == [t EXCEPT !.expires = now + Life]
             new == [req[r] EXCEPT !.pc = "upsert", !.token = grant]
  <2>1. /\ t \in Token /\ t.access \in AccessToken /\ t.refresh \in RefreshToken
        /\ t.refresh.owner = t.access.owner
        /\ t.access.dies <= req[r].since + Life
        /\ req[r].since + Life <= t.access.dies + Timeout
        /\ req[r].since <= now /\ now <= req[r].since + Timeout
        /\ req[r].since \in Nat /\ t.access.dies \in Nat /\ now \in Nat
    BY <1>1, Facts DEF At, Request, ReqOk, Calling, Token, AccessToken
  <2>2. /\ grant \in Token /\ grant.refresh = t.refresh /\ grant.access = t.access
        /\ grant.expires = now + Life /\ grant.refresh # NoToken
    BY <2>1, TimesAssumption, NullsAssumption DEF Token
  <2>3. Tracks(grant.access, grant.expires) /\ grant # NoToken
    BY <2>1, <2>2, TimesAssumption, NullsAssumption DEF Tracks
  <2> HIDE DEF grant
  <2>4. /\ consented' \in [Users -> SUBSET Emails]
        /\ \A v \in Users : consented[v] \subseteq consented'[v]
        /\ consented[u] \subseteq consented'[u] /\ t.access.owner \in consented'[u]
    BY <1>1, <1>3, <2>1, Facts DEF AccessToken
  <2>5. req' = [req EXCEPT ![r] = new]
    BY <1>1, <1>3, Facts DEF Request, grant
  <2>6. new \in Request /\ new.user = u /\ new.user \in Users
    <3>1. req[r] \in Request /\ req[r].user \in Users
      BY <1>1, Facts
    <3>2. grant \in Token /\ "upsert" \in Running
      BY <2>2 DEF Running, Statements
    <3>3. new \in Request
      BY <3>1, <3>2 DEF Request
    <3> QED BY <3>1, <3>3 DEF Request
  <2>7. ReqOk(new, consented'[new.user], now)
    <3>1. ReqOk(req[r], consented'[u], now)
      BY <1>1, <2>4, Facts, ReqOkGrows
    <3>2. GrantOk(grant, consented'[u])
      BY <2>1, <2>2, <2>3, <2>4 DEF GrantOk
    <3> QED BY <1>1, <2>2, <2>6, <3>1, <3>2, Facts DEF At, Request, ReqOk, Calling
  <2>8. \A v \in Users : accounts'[v] # NoRow => RowOk(accounts'[v], consented'[v])
    BY <1>1, <2>4, Facts, RowOkGrows
  <2> HIDE DEF new
  <2> QED BY <1>1, <2>4, <2>5, <2>6, <2>7, <2>8, MoveInv, Facts
<1> QED BY <1>2, <1>3 DEF Userinfo

LEMMA UpsertInv ==
    ASSUME IInv, NEW r \in Reqs, Upsert(r)
    PROVE  IInv'
<1>1. At(r, "upsert") /\ ~At(r, "idle") /\ UNCHANGED <<now, accounts, consented>>
  BY DEF Upsert, At
<1>2. PICK pc \in {"insert", "update"} : Goto(r, pc)
  BY DEF Upsert
<1> DEFINE new == [req[r] EXCEPT !.pc = pc]
<1>3. req' = [req EXCEPT ![r] = new]
  BY <1>2 DEF Goto
<1>4. new \in Request /\ new.user = req[r].user /\ new.user \in Users
  BY <1>1, Facts DEF Request, Running, Statements
<1>5. ReqOk(new, consented[new.user], now)
  BY <1>1, Facts DEF At, Request, ReqOk, Calling
<1> HIDE DEF new
<1> QED BY <1>1, <1>3, <1>4, <1>5, QuietInv

\* A login that has written its row.
LEMMA StoreInv ==
    ASSUME IInv, NEW r \in Reqs, At(r, "insert") \/ At(r, "update"), Goto(r, "confirm"),
           UNCHANGED <<now, consented>>,
           \/ accounts' = accounts
           \/ accounts' = [accounts EXCEPT ![req[r].user] = NewRow(req[r].token)]
    PROVE  IInv'
<1> DEFINE new == [req[r] EXCEPT !.pc = "confirm"]
           u == req[r].user
           row == NewRow(req[r].token)
<1>1. ~At(r, "idle")
  BY DEF At
<1>2. req' = [req EXCEPT ![r] = new]
  BY DEF Goto
<1>3. new \in Request /\ new.user = u /\ new.user \in Users
  BY <1>1, Facts DEF Request, Running, Statements
<1>4. ReqOk(new, consented[u], now)
  BY <1>1, Facts DEF At, Request, ReqOk, Calling
<1>5. /\ req[r].token \in Token /\ GrantOk(req[r].token, consented[u])
      /\ req[r].token.refresh # NoToken
  BY <1>1, Facts DEF At, Request, ReqOk, GrantOk
<1>6. row \in Row /\ RowOk(row, consented[u])
  BY <1>5 DEF NewRow, Row, RowOk, GrantOk, Token, AccessToken
<1> HIDE DEF new, row
<1>7. accounts' \in [Users -> Row \cup {NoRow}]
  BY <1>1, <1>6, Facts DEF row
<1>8. \A v \in Users : accounts'[v] # NoRow => RowOk(accounts'[v], consented[v])
  BY <1>1, <1>6, Facts DEF row
<1> QED BY <1>1, <1>2, <1>3, <1>4, <1>7, <1>8, MoveInv, Facts

LEMMA InsertInv ==
    ASSUME IInv, NEW r \in Reqs, Insert(r)
    PROVE  IInv'
<1>1. At(r, "insert") /\ ~At(r, "idle") /\ UNCHANGED <<now, consented>>
  BY DEF Insert, At
<1>2. CASE Fail(r, "failed") /\ UNCHANGED accounts
  BY <1>1, <1>2, FailInv DEF Answers
<1> QED BY <1>1, <1>2, StoreInv DEF Insert

LEMMA UpdateInv ==
    ASSUME IInv, NEW r \in Reqs, Update(r)
    PROVE  IInv'
BY StoreInv DEF Update, At

LEMMA ConfirmInv ==
    ASSUME IInv, NEW r \in Reqs, Confirm(r)
    PROVE  IInv'
<1>1. At(r, "confirm") /\ ~At(r, "idle") /\ UNCHANGED <<now, accounts, consented>>
  BY DEF Confirm, At
<1>2. CASE Fail(r, "panic")
  BY <1>1, <1>2, FailInv DEF Answers
<1>3. CASE End(r, "success", NoToken, req[r].token.access.owner)
  <2>1. /\ req[r].token.access.owner \in Emails
        /\ req[r].token.access.owner \in consented[req[r].user]
    BY <1>1, Facts DEF At, Request, ReqOk, GrantOk, Token, AccessToken
  <2> QED BY <1>1, <1>3, <2>1, EndInv, Facts DEF Answers
<1> QED BY <1>2, <1>3 DEF Confirm

LEMMA DeleteInv ==
    ASSUME IInv, NEW r \in Reqs, Delete(r)
    PROVE  IInv'
<1>1. At(r, "delete") /\ ~At(r, "idle") /\ UNCHANGED <<now, consented>>
  BY DEF Delete, At
<1>2. req[r].row.email \in Emails /\ req[r].row.email \in consented[req[r].user]
  BY <1>1, Facts DEF At, Request, ReqOk, Row, RowOk
<1>3. /\ accounts' \in [Users -> Row \cup {NoRow}]
      /\ \A u \in Users : accounts'[u] # NoRow => RowOk(accounts'[u], consented[u])
  BY <1>1, Facts DEF Delete
<1> QED BY <1>1, <1>2, <1>3, EndInv DEF Delete, Answers

LEMMA DbErrorInv ==
    ASSUME IInv, NEW r \in Reqs, DbError(r)
    PROVE  IInv'
<1>1. ~At(r, "idle") /\ UNCHANGED <<now, accounts, consented>> /\ Fail(r, ErrorOf(r))
  BY DEF DbError, At, Statements
<1>2. ErrorOf(r) \in Answers \ {"served"}
  BY DEF ErrorOf, Answers
<1> QED BY <1>1, <1>2, FailInv

LEMMA TickInv ==
    ASSUME IInv, Tick
    PROVE  IInv'
<1>1. now \in Nat /\ now' = now + 1 /\ UNCHANGED <<accounts, consented, req>>
  BY DEF Tick, IInv, TypeOK
<1>2. TypeOK' /\ RowsInv'
  BY <1>1 DEF IInv, TypeOK, RowsInv
<1>3. ASSUME NEW r \in Reqs, req[r].pc # "idle"
      PROVE  ReqOk(req[r], consented[req[r].user], now + 1)
  <2>1. ReqOk(req[r], consented[req[r].user], now) /\ req[r] \in Request
    BY <1>3 DEF IInv, ReqsInv, TypeOK
  <2>2. req[r].pc \in Calling =>
           req[r].since <= now + 1 /\ now + 1 <= req[r].since + Timeout
    BY <1>1, <2>1, TimesAssumption DEF Tick, ReqOk, Request
  <2> QED BY <2>1, <2>2 DEF ReqOk
<1> QED BY <1>1, <1>2, <1>3 DEF IInv, ReqsInv

LEMMA RestartInv ==
    ASSUME IInv, Restart
    PROVE  IInv'
<1>1. UNCHANGED <<now, accounts, consented>>
  BY DEF Restart
<1>2. ASSUME NEW r \in Reqs
      PROVE  /\ req'[r] \in Request
             /\ req'[r].pc = "idle" => req'[r].access = NoToken /\ req'[r].email = NoEmail
             /\ req'[r].pc # "idle" =>
                  /\ req'[r].user \in Users
                  /\ ReqOk(req'[r], consented[req'[r].user], now)
  <2> DEFINE lost == Blank("lost", req[r].op, req[r].user)
  <2>1. CASE req[r].pc \in Running
    <3>1. ~At(r, "idle") /\ req'[r] = lost
      BY <2>1 DEF Restart, At, Running, Calling, Statements
    <3>2. lost \in Request /\ lost.user \in Users /\ lost.pc = "lost"
      BY <3>1, Facts DEF Blank, Request, Answers
    <3>3. ReqOk(lost, consented[lost.user], now)
      BY DEF ReqOk, Blank, Calling
    <3> HIDE DEF lost
    <3> QED BY <3>1, <3>2, <3>3
  <2>2. CASE req[r].pc \notin Running
    <3>1. req'[r] = req[r]
      BY <2>2 DEF Restart
    <3> QED BY <3>1 DEF IInv, TypeOK, ReqsInv
  <2> QED BY <2>1, <2>2
<1>3. req' \in [Reqs -> Request]
  BY <1>2 DEF Restart
<1> QED BY <1>1, <1>2, <1>3 DEF IInv, TypeOK, RowsInv, ReqsInv

--------------------------------------------------------------------------------
\* Rows of an earlier life of the service are as good as new ones.
LEMMA InitInv == Init => IInv
<1> SUFFICES ASSUME Init PROVE IInv
  OBVIOUS
<1>1. /\ req \in [Reqs -> Request]
      /\ \A r \in Reqs : /\ req[r].pc = "idle"
                        /\ req[r].access = NoToken /\ req[r].email = NoEmail
  BY DEF Init, Blank, Request
<1>2. ASSUME NEW row \in StoredRows PROVE row \in Row /\ RowOk(row, {row.email})
  BY <1>2, TimesAssumption, NullsAssumption
  DEF StoredRows, Row, AccessToken, RefreshToken, RowOk, Tracks
<1>3. ASSUME NEW u \in Users
      PROVE  /\ accounts[u] \in Row \cup {NoRow} /\ consented[u] \in SUBSET Emails
             /\ accounts[u] # NoRow => RowOk(accounts[u], consented[u])
  BY <1>2 DEF Init, Row
<1>4. accounts \in [Users -> Row \cup {NoRow}] /\ consented \in [Users -> SUBSET Emails]
  BY <1>3 DEF Init
<1> QED BY <1>1, <1>3, <1>4 DEF Init, IInv, TypeOK, RowsInv, ReqsInv

\* IInv is inductive.
THEOREM Inductive == Spec => []IInv
<1>1. ASSUME IInv, [Next]_vars PROVE IInv'
  <2>1. ASSUME NEW r \in Reqs, Handler(r) PROVE IInv'
    BY <1>1, <2>1, FindInv, CheckInv, OpenInv, RenewInv, RereadInv, WriteInv, ResultInv,
       ExchangeInv, UserinfoInv, UpsertInv, InsertInv, UpdateInv, ConfirmInv, DeleteInv
    DEF Handler
  <2>2. CASE UNCHANGED vars
    BY <1>1, <2>2 DEF vars, IInv, TypeOK, RowsInv, ReqsInv
  <2> QED BY <1>1, <2>1, <2>2, BeginInv, DbErrorInv, TickInv, RestartInv DEF Next
<1> QED BY <1>1, InitInv, PTL DEF Spec

\* The table, the requests and their snapshots, the clock stay in their types:
\* no dereference of a missing row or token but the ones that end in "panic".
THEOREM TypeCorrect == Spec => []TypeOK
<1>1. IInv => TypeOK
  BY DEF IInv
<1> QED BY <1>1, Inductive, PTL

\* What is stored for or handed to a user gives access only to Google accounts
\* its own logins brought in, however refreshes, logins and removals interleave.
THEOREM OnlyConsentedAccountsHolds == Spec => []OnlyConsentedAccounts
<1>1. IInv => OnlyConsentedAccounts
  BY DEF IInv, RowsInv, ReqsInv, RowOk, ReqOk, OnlyConsentedAccounts, Connected, At
<1> QED BY <1>1, Inductive, PTL

\* Every connected account keeps a refresh token on file.
THEOREM RefreshTokenOnFileHolds == Spec => []RefreshTokenOnFile
<1>1. IInv => RefreshTokenOnFile
  BY DEF IInv, RowsInv, RowOk, RefreshTokenOnFile, Connected
<1> QED BY <1>1, Inductive, PTL

\* The recorded expiry is the recorded token's, late by two timeouts at most.
THEOREM ExpiryTracksTokenHolds == Spec => []ExpiryTracksToken
<1>1. IInv => ExpiryTracksToken
  BY DEF IInv, RowsInv, RowOk, Tracks, ExpiryTracksToken, Connected
<1> QED BY <1>1, Inductive, PTL

--------------------------------------------------------------------------------
\* A step of one request leaves the other ones alone.
LEMMA OthersStay ==
    ASSUME TypeOK, NEW q \in Reqs, NEW r \in Reqs, q # r,
           Handler(q) \/ DbError(q) \/ (\E op \in Ops, u \in Users : Begin(q, op, u))
    PROVE  req'[r] = req[r]
BY DEF TypeOK, Handler, DbError, Begin, Find, Check, Open, Renew, Reread, Write, Result,
       Exchange, Userinfo, Upsert, Insert, Update, Confirm, Delete, Goto, Fail, End

\* A request that has changed was moved by a step of its own or by a restart.
LEMMA Moved ==
    ASSUME TypeOK, [Next]_vars, NEW r \in Reqs, req'[r] # req[r], ~Restart
    PROVE  Handler(r) \/ DbError(r) \/ (\E op \in Ops, u \in Users : Begin(r, op, u))
<1>1. PICK q \in Reqs :
         Handler(q) \/ DbError(q) \/ (\E op \in Ops, u \in Users : Begin(q, op, u))
  BY DEF Next, vars, Tick
<1>2. q = r
  BY <1>1, OthersStay
<1> QED BY <1>1, <1>2

\* The token GET /token takes from the table is alive at Google when it is taken:
\* the skew (5 min) covers the two call timeouts (2 * 15 s) of ExpiryTracksToken.
THEOREM ServedFreshHolds == Spec => ServedFresh
<1>1. ASSUME IInv, [Next]_vars, NEW r \in Reqs, At(r, "check"), At(r, "served")'
      PROVE  now < req[r].row.access.dies
  <2>1. Check(r)
    <3>1. req'[r] # req[r]
      BY <1>1 DEF At
    <3>2. ~Restart
      BY <1>1 DEF Restart, At, Running, Blank
    <3>3. Handler(r) \/ DbError(r) \/ (\E op \in Ops, u \in Users : Begin(r, op, u))
      BY <1>1, <3>1, <3>2, Moved DEF IInv
    <3> QED
      BY <1>1, <3>3
      DEF At, Handler, DbError, Statements, Begin, Find, Open, Renew, Reread, Write, Result,
          Exchange, Userinfo, Upsert, Insert, Update, Confirm, Delete
  <2>2. ~At(r, "idle") /\ req[r] \in Request /\ req[r].row \in Row
        /\ RowOk(req[r].row, consented[req[r].user]) /\ now \in Nat
    BY <1>1, Facts DEF At, ReqOk, Request
  <2>3. ~TooNear(req[r].row)
    BY <1>1, <2>1, <2>2 DEF Check, Goto, At, IInv, TypeOK, Request
  <2> QED BY <2>2, <2>3, TimesAssumption DEF TooNear, RowOk, Tracks, Row, AccessToken
<1>2. IInv /\ [Next]_vars
         => [\A r \in Reqs : At(r, "check") /\ At(r, "served")'
                => now < req[r].row.access.dies]_vars
  BY <1>1
<1> QED BY <1>2, Inductive, PTL DEF Spec, ServedFresh

--------------------------------------------------------------------------------
\* How many steps of its own a request has left, at most.
StepsLeft(pc) ==
    CASE pc = "idle" -> 8
      [] pc = "find" -> 7
      [] pc \in {"check", "exchange"} -> 6
      [] pc \in {"open", "userinfo"} -> 5
      [] pc \in {"renew", "upsert"} -> 4
      [] pc \in {"reread", "insert", "update"} -> 3
      [] pc = "write" -> 2
      [] pc \in {"result", "confirm", "delete"} -> 1
      [] pc \in Answers -> 0

LEMMA HandlerAdvances ==
    ASSUME IInv, NEW r \in Reqs, Handler(r)
    PROVE  StepsLeft(req'[r].pc) < StepsLeft(req[r].pc)
<1>1. ~At(r, "idle")
  BY DEF Handler, Find, Check, Open, Renew, Reread, Write, Result, Exchange, Userinfo, Upsert,
         Insert, Update, Confirm, Delete, At
<1>2. req \in [Reqs -> Request] /\ req[r] \in Request
  BY <1>1, Facts
<1>3. ASSUME NEW answer \in Answers, NEW access, NEW email, End(r, answer, access, email)
      PROVE  req'[r].pc = answer
  BY <1>2, <1>3 DEF End, Blank
<1>4. ASSUME NEW answer \in Answers, Fail(r, answer) PROVE req'[r].pc \in Answers
  BY <1>3, <1>4 DEF Fail
<1>5. ASSUME NEW pc, Goto(r, pc) PROVE req'[r].pc = pc
  BY <1>2, <1>5 DEF Goto, Request
<1>6. CASE Find(r)
  <2>1. req[r].op \in {"token", "refresh", "delete", "account"}
    BY <1>1, <1>6, Facts DEF Find, At, ReqOk
  <2>2. CASE Mine(r) = NoRow
    <3>1. Fail(r, IF req[r].op \in {"token", "refresh"} THEN "reauth" ELSE "notfound")
      BY <1>6, <2>2 DEF Find
    <3> QED BY <1>4, <1>6, <3>1 DEF Answers, StepsLeft, Find, At
  <2>3. CASE Mine(r) # NoRow /\ req[r].op = "account"
    <3>1. End(r, "shown", NoToken, Mine(r).email)
      BY <1>6, <2>3 DEF Find
    <3> QED BY <1>3, <1>6, <3>1 DEF Answers, StepsLeft, Find, At
  <2>4. CASE Mine(r) # NoRow /\ req[r].op # "account"
    <3>1. req'[r].pc \in {"check", "open", "delete"}
      BY <1>2, <1>6, <2>1, <2>4 DEF Find, Request
    <3> QED BY <1>6, <3>1 DEF StepsLeft, Find, At, Answers
  <2> QED BY <2>2, <2>3, <2>4
<1>7. CASE Check(r)
  <2>1. req'[r].pc \in {"open", "served"}
    BY <1>3, <1>5, <1>7 DEF Check, Answers
  <2> QED BY <1>7, <2>1 DEF Check, At, StepsLeft, Answers
<1>8. CASE Open(r)
  <2>1. req'[r].pc \in {"renew"} \cup Answers
    BY <1>2, <1>4, <1>8 DEF Open, Answers, Request
  <2> QED BY <1>8, <2>1 DEF Open, At, StepsLeft, Answers
<1>9. CASE Renew(r)
  <2>1. req'[r].pc \in {"reread"} \cup Answers
    BY <1>2, <1>4, <1>9 DEF Renew, Answers, Request
  <2> QED BY <1>9, <2>1 DEF Renew, At, StepsLeft, Answers
<1>10. CASE Reread(r)
  <2>1. req'[r].pc \in {"write"} \cup Answers
    BY <1>2, <1>4, <1>10 DEF Reread, Answers, Request
  <2> QED BY <1>10, <2>1 DEF Reread, At, StepsLeft, Answers
<1>11. CASE Exchange(r) \/ Userinfo(r)
  <2>1. CASE Fail(r, "failed")
    BY <1>4, <1>11, <2>1 DEF Exchange, Userinfo, At, StepsLeft, Answers
  <2>2. CASE ~Fail(r, "failed")
    <3>1. req'[r].pc = IF Exchange(r) THEN "userinfo" ELSE "upsert"
      BY <1>2, <1>11, <2>2 DEF Exchange, Userinfo, Request, At
    <3> QED BY <1>11, <3>1 DEF Exchange, Userinfo, At, StepsLeft, Answers
  <2> QED BY <2>1, <2>2
<1>12. CASE Write(r) \/ Upsert(r) \/ Update(r)
  BY <1>5, <1>12 DEF Write, Upsert, Update, At, StepsLeft, Answers
<1>13. CASE Insert(r)
  <2>1. req'[r].pc \in {"confirm", "failed"}
    BY <1>3, <1>5, <1>13 DEF Insert, Fail, Answers
  <2> QED BY <1>13, <2>1 DEF Insert, At, StepsLeft, Answers
<1>14. CASE Result(r) \/ Confirm(r) \/ Delete(r)
  <2>1. req'[r].pc \in Answers
    BY <1>3, <1>14 DEF Result, Confirm, Delete, Fail, Answers
  <2> QED BY <1>14, <2>1 DEF Result, Confirm, Delete, At, StepsLeft, Answers
<1> QED BY <1>6, <1>7, <1>8, <1>9, <1>10, <1>11, <1>12, <1>13, <1>14 DEF Handler

\* A request never goes back: with every step it has fewer left, seven at most once
\* it has begun, so that no retry or loop keeps a handler running and an answered
\* request stays answered.  EveryRequestEnds needs the handler to be run, no more.
THEOREM HandlersAdvance ==
    Spec => [][\A r \in Reqs : req'[r].pc # req[r].pc
                  => StepsLeft(req'[r].pc) < StepsLeft(req[r].pc)]_vars
<1>1. ASSUME IInv, [Next]_vars, NEW r \in Reqs, req'[r].pc # req[r].pc
      PROVE  StepsLeft(req'[r].pc) < StepsLeft(req[r].pc)
  <2>1. CASE Restart
    BY <1>1, <2>1
    DEF Restart, Blank, Running, Calling, Statements, StepsLeft, Answers
  <2>2. CASE Handler(r)
    BY <1>1, <2>2, HandlerAdvances
  <2>3. CASE DbError(r)
    <3>1. req'[r].pc \in {"failed", "error"}
      BY <1>1, <2>3 DEF DbError, ErrorOf, Fail, End, Blank, IInv, TypeOK
    <3> QED BY <2>3, <3>1 DEF DbError, Statements, StepsLeft, Answers
  <2>4. ASSUME NEW op \in Ops, NEW u \in Users, Begin(r, op, u)
        PROVE  StepsLeft(req'[r].pc) < StepsLeft(req[r].pc)
    BY <1>1, <2>4 DEF Begin, At, Blank, IInv, TypeOK, StepsLeft, Answers
  <2> QED BY <1>1, <2>1, <2>2, <2>3, <2>4, Moved DEF IInv
<1>2. IInv /\ [Next]_vars => [\A r \in Reqs : req'[r].pc # req[r].pc
                                => StepsLeft(req'[r].pc) < StepsLeft(req[r].pc)]_vars
  BY <1>1
<1> QED BY <1>2, Inductive, PTL DEF Spec

--------------------------------------------------------------------------------
\* Account storage implements AccountBook, one request at a time.

Mover(r) == \A q \in Reqs \ {r} : req'[q] = req[q]
Own(r) == <<r, req[r].user, req[r].token.access.owner>>

\* How the pending consents follow the request that moves.
LEMMA PendingMoves ==
    ASSUME NEW r \in Reqs, Mover(r)
    PROVE  /\ ~Holding(r) /\ ~Holding(r)' => Pending' = Pending
           /\ Holding(r) /\ Holding(r)' /\ Own(r)' = Own(r) => Pending' = Pending
           /\ ~Holding(r) /\ Holding(r)' => Pending' = Pending \cup {Own(r)'}
           /\ Holding(r) /\ ~Holding(r)' =>
                 Own(r) \in Pending /\ Pending' = Pending \ {Own(r)}
<1>1. \A q \in Reqs \ {r} : (Holding(q) <=> Holding(q)') /\ Own(q)' = Own(q) /\ Own(q) # Own(r)
  BY DEF Mover, Holding, Own
<1>2. /\ Pending = {Own(q) : q \in {p \in Reqs : Holding(p)}}
      /\ Pending' = {Own(q)' : q \in {p \in Reqs : Holding(p)'}}
  BY DEF Pending, Own
<1> QED BY <1>1, <1>2

\* Steps before a consent is obtained, and after it is used, are stutters.
LEMMA QuietBook ==
    ASSUME IInv, NEW r \in Reqs,
           \/ \E op \in Ops, u \in Users : Begin(r, op, u)
           \/ Find(r) \/ Check(r) \/ Open(r) \/ Renew(r) \/ Reread(r) \/ Result(r)
           \/ Exchange(r) \/ Confirm(r)
    PROVE  accounts' = accounts /\ ~Holding(r) /\ ~Holding(r)'
<1>1. accounts' = accounts /\ ~Holding(r)
  BY DEF Begin, Find, Check, Open, Renew, Reread, Result, Exchange, Confirm, Holding, At
<1>2. req \in [Reqs -> Request] /\ req[r] \in Request
  BY DEF IInv, TypeOK
<1>3. ASSUME \E op \in Ops, u \in Users : Begin(r, op, u) PROVE ~Holding(r)'
  BY <1>2, <1>3 DEF Begin, Blank, Holding
<1>4. ASSUME NEW answer \in Answers, NEW access, NEW email, End(r, answer, access, email)
      PROVE  ~Holding(r)'
  BY <1>2, <1>4 DEF End, Blank, Holding, Answers
<1>5. ASSUME NEW answer \in Answers, Fail(r, answer) PROVE ~Holding(r)'
  BY <1>4, <1>5 DEF Fail
<1>6. ASSUME Find(r) PROVE ~Holding(r)'
  <2>1. ~At(r, "idle") /\ At(r, "find")
    BY <1>6 DEF Find, At
  <2>2. req[r].op \in {"token", "refresh", "delete", "account"}
    BY <2>1, Facts DEF ReqOk, At
  <2>3. CASE Mine(r) = NoRow
    <3>1. Fail(r, IF req[r].op \in {"token", "refresh"} THEN "reauth" ELSE "notfound")
      BY <1>6, <2>3 DEF Find
    <3> QED BY <1>5, <3>1 DEF Answers
  <2>4. CASE Mine(r) # NoRow /\ req[r].op = "account"
    <3>1. End(r, "shown", NoToken, Mine(r).email)
      BY <1>6, <2>4 DEF Find
    <3> QED BY <1>4, <3>1 DEF Answers
  <2>5. CASE Mine(r) # NoRow /\ req[r].op # "account"
    <3>1. PICK pc \in {"check", "open", "delete"} :
             req' = [req EXCEPT ![r].row = Mine(r), ![r].pc = pc]
      BY <1>6, <2>2, <2>5 DEF Find
    <3> QED BY <1>2, <3>1 DEF Holding, Request
  <2> QED BY <2>3, <2>4, <2>5
<1>7. ASSUME Goto(r, "open") PROVE ~Holding(r)'
  BY <1>2, <1>7 DEF Goto, Holding, Request
<1>8. ASSUME Check(r) \/ Result(r) \/ Confirm(r) PROVE ~Holding(r)'
  BY <1>4, <1>5, <1>7, <1>8 DEF Check, Result, Confirm, Answers
<1>9. ASSUME Open(r) \/ Renew(r) \/ Reread(r) \/ Exchange(r) PROVE ~Holding(r)'
  BY <1>2, <1>5, <1>9
  DEF Open, Renew, Reread, Exchange, Holding, Answers, Request
<1> QED BY <1>1, <1>3, <1>6, <1>8, <1>9

\* Account only looks at the emails of the rows.
LEMMA SameEmails ==
    ASSUME \A u \in Users :
              /\ accounts'[u] = NoRow <=> accounts[u] = NoRow
              /\ accounts[u] # NoRow => accounts'[u].email = accounts[u].email
    PROVE  Account' = Account
BY DEF Account, Connected

\* A refresh rewrites a row without its email; a removal empties it.
LEMMA WriteBook ==
    ASSUME IInv, NEW r \in Reqs, Write(r)
    PROVE  Account' = Account /\ ~Holding(r) /\ ~Holding(r)'
<1>1. At(r, "write") /\ ~At(r, "idle")
  BY DEF Write, At
<1>2. ~Holding(r) /\ ~Holding(r)'
  BY <1>1, Facts DEF Write, Goto, At, Holding, Request
<1>3. CASE accounts' = accounts
  BY <1>2, <1>3, SameEmails
<1> DEFINE u == req[r].user
           row == Written(Mine(r), req[r].token, req[r].kept)
<1>4. CASE Mine(r) # NoRow /\ accounts' = [accounts EXCEPT ![u] = row]
  <2>1. row \in Row /\ row.email = Mine(r).email
    <3>1. /\ req[r].token \in Token /\ GrantOk(req[r].token, consented[u])
          /\ req[r].kept \in RefreshToken /\ req[r].kept.owner \in consented[u]
      BY <1>1, Facts DEF At, Request, ReqOk, GrantOk
    <3>2. Mine(r) \in Row /\ RowOk(Mine(r), consented[u])
      BY <1>1, <1>4, Facts
    <3>3. row \in Row
      BY <3>1, <3>2, WrittenOk
    <3>4. row.email = Mine(r).email
      BY <3>2 DEF Written, Row
    <3> QED BY <3>3, <3>4
  <2>2. row # NoRow
    BY <2>1, NullsAssumption
  <2> HIDE DEF row
  <2>3. ASSUME NEW v \in Users
        PROVE  /\ accounts'[v] = NoRow <=> accounts[v] = NoRow
               /\ accounts[v] # NoRow => accounts'[v].email = accounts[v].email
    BY <1>1, <1>4, <2>1, <2>2, Facts DEF Mine
  <2> QED BY <1>2, <2>3, SameEmails
<1> QED BY <1>2, <1>3, <1>4 DEF Write, Mine

LEMMA DeleteBook ==
    ASSUME IInv, NEW r \in Reqs, Delete(r)
    PROVE  /\ Account' = [Account EXCEPT ![req[r].user] = NoEmail]
           /\ req[r].user \in Users /\ ~Holding(r) /\ ~Holding(r)'
<1>1. At(r, "delete") /\ ~At(r, "idle") /\ req[r].user \in Users
  BY Facts DEF Delete, At
<1>2. ~Holding(r) /\ ~Holding(r)'
  BY <1>1, Facts DEF Delete, End, Blank, At, Holding
<1>3. accounts' = [accounts EXCEPT ![req[r].user] = NoRow]
  BY DEF Delete
<1>4. Account' = [Account EXCEPT ![req[r].user] = NoEmail]
  BY <1>1, <1>3, Facts DEF Account, Connected
<1> QED BY <1>1, <1>2, <1>4

\* The INSERT or UPDATE of a login connects the account of its consent.
LEMMA StoreBook ==
    ASSUME IInv, NEW r \in Reqs, At(r, "insert") \/ At(r, "update"),
           accounts' = [accounts EXCEPT ![req[r].user] = NewRow(req[r].token)]
    PROVE  /\ Account' = [Account EXCEPT ![req[r].user] = req[r].token.access.owner]
           /\ req[r].user \in Users /\ req[r].token.access.owner \in Emails
<1>1. ~At(r, "idle")
  BY DEF At
<1>2. req[r].token \in Token /\ req[r].token.refresh \in RefreshToken /\ req[r].user \in Users
  BY <1>1, Facts DEF At, Request, ReqOk, GrantOk, Token
<1>3. NewRow(req[r].token) \in Row /\ NewRow(req[r].token).email = req[r].token.access.owner
  BY <1>2 DEF NewRow, Row, Token, AccessToken
<1>4. NewRow(req[r].token) # NoRow
  BY <1>3, NullsAssumption
<1>5. req[r].token.access.owner \in Emails
  BY <1>2 DEF Token, AccessToken
<1> QED BY <1>1, <1>2, <1>3, <1>4, <1>5, Facts DEF Account, Connected

\* The steps of a login that hold a consent.
LEMMA UserinfoBook ==
    ASSUME IInv, NEW r \in Reqs, Mover(r), Userinfo(r)
    PROVE  Book!Next \/ UNCHANGED <<Account, Pending>>
<1>1. At(r, "userinfo") /\ ~At(r, "idle") /\ ~Holding(r) /\ Account' = Account
  BY DEF Userinfo, At, Holding, Account, Connected
<1>2. req[r] \in Request /\ req[r].user \in Users /\ req[r].token \in Token
  BY <1>1, Facts DEF At, Request, ReqOk, GrantOk
<1>3. CASE Fail(r, "failed")
  <2>1. ~Holding(r)'
    BY <1>1, <1>3, Facts DEF Fail, End, Blank, Holding
  <2> QED BY <1>1, <2>1, PendingMoves
<1>4. CASE req' = [req EXCEPT ![r].pc = "upsert", ![r].token.expires = now + Life]
  <2>1. Holding(r)' /\ Own(r)' = Own(r) /\ Own(r) = <<r, req[r].user, req[r].token.access.owner>>
    BY <1>1, <1>2, <1>4, Facts DEF Holding, Own, Request, Token
  <2>2. Pending' = Pending \cup {Own(r)}
    BY <1>1, <2>1, PendingMoves
  <2>3. req[r].token.access.owner \in Emails
    BY <1>2 DEF Token, AccessToken
  <2>4. Book!Consent(r, req[r].user, req[r].token.access.owner)
    BY <1>1, <2>1, <2>2 DEF Book!Consent
  <2> QED BY <1>2, <2>3, <2>4 DEF Book!Next
<1> QED BY <1>3, <1>4 DEF Userinfo

LEMMA UpsertBook ==
    ASSUME IInv, NEW r \in Reqs, Mover(r), Upsert(r)
    PROVE  UNCHANGED <<Account, Pending>>
<1>1. Holding(r) /\ Holding(r)' /\ Own(r)' = Own(r)
  BY Facts DEF Upsert, At, Goto, Holding, Own, Request
<1>2. Account' = Account
  BY DEF Upsert, Account, Connected
<1> QED BY <1>1, <1>2, PendingMoves

LEMMA InsertUpdateBook ==
    ASSUME IInv, NEW r \in Reqs, Mover(r), Insert(r) \/ Update(r)
    PROVE  Book!Next
<1>1. (At(r, "insert") \/ At(r, "update")) /\ Holding(r) /\ ~At(r, "idle")
  BY DEF Insert, Update, At, Holding
<1>2. ~Holding(r)'
  <2>1. CASE Goto(r, "confirm")
    BY <1>1, <2>1, Facts DEF Goto, Holding, Request
  <2>2. CASE Fail(r, "failed")
    BY <1>1, <2>2, Facts DEF Fail, End, Blank, Holding
  <2> QED BY <2>1, <2>2 DEF Insert, Update
<1>3. Own(r) \in Pending /\ Pending' = Pending \ {Own(r)}
  BY <1>1, <1>2, PendingMoves
<1>4. CASE accounts' = accounts
  BY <1>3, <1>4 DEF Book!Next, Book!Drop, Account, Connected
<1>5. CASE accounts' = [accounts EXCEPT ![req[r].user] = NewRow(req[r].token)]
  <2>1. Book!Connect(r, req[r].user, req[r].token.access.owner)
    BY <1>1, <1>3, <1>5, StoreBook DEF Book!Connect, Own
  <2> QED BY <1>1, <1>5, <2>1, StoreBook DEF Book!Next
<1> QED BY <1>4, <1>5 DEF Insert, Update, Mine

\* An error, or a crash, loses the consents that were pending.
LEMMA DbErrorBook ==
    ASSUME IInv, NEW r \in Reqs, Mover(r), DbError(r)
    PROVE  Book!Next
<1>1. Account' = Account /\ ~At(r, "idle") /\ Fail(r, ErrorOf(r))
  BY DEF DbError, Statements, At, Account, Connected
<1>2. ~Holding(r)'
  BY <1>1, Facts DEF Fail, End, Blank, ErrorOf, Holding
<1>3. Pending' \in SUBSET Pending
  BY <1>2, PendingMoves
<1> QED BY <1>1, <1>3 DEF Book!Next, Book!Drop

LEMMA RestartBook ==
    ASSUME IInv, Restart
    PROVE  Book!Next
<1>1. Account' = Account
  BY DEF Restart, Account, Connected
<1>2. \A r \in Reqs : Holding(r)' => req'[r] = req[r]
  BY DEF Restart, Holding, Blank, Running
<1>3. Pending' \in SUBSET Pending
  BY <1>2 DEF Pending, Holding
<1> QED BY <1>1, <1>3 DEF Book!Next, Book!Drop

\* Account storage implements AccountBook: whatever the interleaving of logins,
\* refreshes and removals, a user's account changes only by a consent of that
\* user, used once, or by a removal.
THEOREM ImplementsAccountBook == Spec => AccountBookSpec
<1>1. Init => Book!Init
  <2> SUFFICES ASSUME Init PROVE Book!Init
    OBVIOUS
  <2>1. Pending = {}
    BY DEF Init, Pending, Holding, Blank
  <2>2. Account \in [Users -> Emails \cup {NoEmail}]
    <3>1. \A u \in Users : accounts[u] # NoRow => accounts[u].email \in Emails
      BY DEF Init, StoredRows
    <3> QED BY <3>1 DEF Account, Connected
  <2> QED BY <2>1, <2>2 DEF Book!Init
<1>2. ASSUME IInv, [Next]_vars PROVE Book!Next \/ UNCHANGED <<Account, Pending>>
  <2>1. CASE UNCHANGED vars \/ Tick
    BY <2>1 DEF vars, Tick, Account, Connected, Pending, Holding
  <2>2. CASE Restart
    BY <1>2, <2>2, RestartBook
  <2>3. ASSUME NEW r \in Reqs,
               Handler(r) \/ DbError(r) \/ (\E op \in Ops, u \in Users : Begin(r, op, u))
        PROVE  Book!Next \/ UNCHANGED <<Account, Pending>>
    <3>1. Mover(r)
      BY <1>2, <2>3, OthersStay DEF Mover, IInv
    <3>2. CASE \/ \E op \in Ops, u \in Users : Begin(r, op, u)
               \/ Find(r) \/ Check(r) \/ Open(r) \/ Renew(r) \/ Reread(r) \/ Result(r)
               \/ Exchange(r) \/ Confirm(r)
      <4>1. accounts' = accounts /\ ~Holding(r) /\ ~Holding(r)'
        BY <1>2, <3>2, QuietBook
      <4> QED BY <3>1, <4>1, PendingMoves DEF Account, Connected
    <3>3. CASE Write(r)
      BY <1>2, <3>1, <3>3, WriteBook, PendingMoves
    <3>4. CASE Delete(r)
      <4>1. Book!Disconnect(req[r].user) /\ req[r].user \in Users
        BY <1>2, <3>1, <3>4, DeleteBook, PendingMoves DEF Book!Disconnect
      <4> QED BY <4>1 DEF Book!Next
    <3>5. CASE Userinfo(r)
      BY <1>2, <3>1, <3>5, UserinfoBook
    <3>6. CASE Upsert(r)
      BY <1>2, <3>1, <3>6, UpsertBook
    <3>7. CASE Insert(r) \/ Update(r)
      BY <1>2, <3>1, <3>7, InsertUpdateBook
    <3>8. CASE DbError(r)
      BY <1>2, <3>1, <3>8, DbErrorBook
    <3> QED BY <2>3, <3>2, <3>3, <3>4, <3>5, <3>6, <3>7, <3>8 DEF Handler
  <2> QED BY <1>2, <2>1, <2>2, <2>3 DEF Next
<1>3. IInv /\ [Next]_vars => [Book!Next]_(Book!vars)
  BY <1>2 DEF Book!vars
<1> QED BY <1>1, <1>3, Inductive, PTL DEF Spec, AccountBookSpec, Book!Spec

--------------------------------------------------------------------------------
\* One request of a user at a time: what the races between two take away.

\* The tokens of a row are of the account it names.
Whole(row) == row.access.owner = row.email /\ row.refresh.owner = row.email

\* What a request may rely on when no other one serves its user, whose row is mine:
\* the snapshot is the row, and what is to be written is of the row's account.
Alone(q, mine) ==
    /\ q.pc # "panic"
    /\ q.pc \in {"check", "open", "renew", "reread", "write", "delete"}
          => mine # NoRow /\ q.row = mine
    /\ q.pc \in {"reread", "write"} =>
          /\ q.token.access.owner = q.row.email
          /\ q.token.refresh # NoToken => q.token.refresh.owner = q.row.email
    /\ q.pc = "write" => q.kept = mine.refresh
    /\ q.pc \in {"result", "update", "confirm"} => mine # NoRow
    /\ q.pc = "insert" => mine = NoRow
    /\ q.pc \in {"userinfo", "upsert", "insert", "update", "confirm"}
          => q.token.refresh.owner = q.token.access.owner

SerialInv ==
    /\ \A u \in Users : Connected(u) => Whole(accounts[u])
    /\ \A r \in Reqs : Alone(req[r], Mine(r))

\* A step of r keeps it if its own record and row do: r alone serves its user.
LEMMA SerialMove ==
    ASSUME IInv, OneAtATime, SerialInv, NEW r \in Reqs, NEW new,
           req' = [req EXCEPT ![r] = new],
           \/ accounts' = accounts
           \/ req[r].pc \in Running /\ \E row : accounts' = [accounts EXCEPT ![req[r].user] = row],
           \A u \in Users : accounts'[u] # NoRow => Whole(accounts'[u]),
           Alone(new, accounts'[new.user])
    PROVE  SerialInv'
<1>1. req'[r] = new /\ \A q \in Reqs \ {r} : req'[q] = req[q]
  BY DEF IInv, TypeOK
<1>2. ASSUME NEW q \in Reqs PROVE Alone(req'[q], accounts'[req'[q].user])
  <2>1. CASE q = r
    BY <1>1, <2>1
  <2>2. CASE q # r /\ req[q].pc \notin Running
    BY <1>1, <2>2 DEF SerialInv, Alone, Running, Statements, Calling
  <2>3. CASE q # r /\ req[q].pc \in Running
    <3>1. req[q].user \in Users /\ accounts \in [Users -> Row \cup {NoRow}]
      BY <2>3 DEF IInv, TypeOK, Running, Statements, Calling
    <3>2. req[r].pc \in Running => req[q].user # req[r].user
      BY <2>3 DEF OneAtATime
    <3>3. accounts'[req[q].user] = accounts[req[q].user]
      BY <3>1, <3>2
    <3> QED BY <1>1, <2>3, <3>3 DEF SerialInv, Mine
  <2> QED BY <2>1, <2>2, <2>3
<1> QED BY <1>2 DEF SerialInv, Connected, Mine

\* A request that ends without a panic and leaves the table alone.
LEMMA SerialEnd ==
    ASSUME IInv, OneAtATime, SerialInv, NEW r \in Reqs, NEW answer \in Answers \ {"panic"},
           NEW access, NEW email, End(r, answer, access, email), UNCHANGED accounts
    PROVE  SerialInv'
<1> DEFINE new == [Blank(answer, req[r].op, req[r].user) EXCEPT
                      !.access = access, !.email = email]
<1>1. req' = [req EXCEPT ![r] = new]
  BY DEF End, IInv, TypeOK
<1>2. Alone(new, accounts'[new.user])
  BY DEF Alone, Blank, Answers
<1>3. \A u \in Users : accounts'[u] # NoRow => Whole(accounts'[u])
  BY DEF SerialInv, Connected
<1> HIDE DEF new
<1> QED BY <1>1, <1>2, <1>3, SerialMove

\* What an action may assume of the request it moves.
LEMMA SerialFacts ==
    ASSUME IInv, SerialInv, NEW r \in Reqs, ~At(r, "idle")
    PROVE  /\ Alone(req[r], Mine(r))
           /\ Mine(r) # NoRow => Whole(Mine(r))
           /\ \A u \in Users : accounts[u] # NoRow => Whole(accounts[u])
BY Facts DEF SerialInv, Connected, Mine

LEMMA SerialBegin ==
    ASSUME IInv, OneAtATime, SerialInv,
           NEW r \in Reqs, NEW op \in Ops, NEW u \in Users, Begin(r, op, u)
    PROVE  SerialInv'
<1> DEFINE new == [Blank(IF op = "login" THEN "exchange" ELSE "find", op, u)
                      EXCEPT !.since = now]
<1>1. req' = [req EXCEPT ![r] = new] /\ accounts' = accounts
  BY DEF Begin
<1>2. Alone(new, accounts'[new.user])
  BY DEF Alone, Blank
<1>3. \A v \in Users : accounts'[v] # NoRow => Whole(accounts'[v])
  BY <1>1 DEF SerialInv, Connected
<1> HIDE DEF new
<1> QED BY <1>1, <1>2, <1>3, SerialMove

LEMMA SerialFind ==
    ASSUME IInv, OneAtATime, SerialInv, NEW r \in Reqs, Find(r)
    PROVE  SerialInv'
<1>1. At(r, "find") /\ ~At(r, "idle") /\ UNCHANGED accounts
  BY DEF Find, At
<1>2. CASE Mine(r) = NoRow
  <2>1. Fail(r, IF req[r].op \in {"token", "refresh"} THEN "reauth" ELSE "notfound")
    BY <1>2 DEF Find
  <2> QED BY <1>1, <2>1, SerialEnd DEF Answers, Fail
<1>3. CASE Mine(r) # NoRow /\ req[r].op = "account"
  <2>1. End(r, "shown", NoToken, Mine(r).email)
    BY <1>3 DEF Find
  <2> QED BY <1>1, <2>1, SerialEnd DEF Answers
<1>4. CASE Mine(r) # NoRow /\ req[r].op # "account"
  <2>1. req[r].op \in {"token", "refresh", "delete"}
    BY <1>1, <1>4, Facts DEF At, ReqOk
  <2>2. PICK pc \in {"check", "open", "delete"} :
           req' = [req EXCEPT ![r].row = Mine(r), ![r].pc = pc]
    BY <1>4, <2>1 DEF Find
  <2> DEFINE new == [req[r] EXCEPT !.row = Mine(r), !.pc = pc]
  <2>3. req' = [req EXCEPT ![r] = new]
    BY <1>1, <2>2, Facts DEF Request
  <2>4. Alone(new, accounts'[new.user])
    BY <1>1, <1>4, Facts DEF Alone, Request, Mine
  <2> HIDE DEF new
  <2> QED BY <1>1, <2>3, <2>4, SerialMove, SerialFacts
<1> QED BY <1>2, <1>3, <1>4

LEMMA SerialCheckOpen ==
    ASSUME IInv, OneAtATime, SerialInv, NEW r \in Reqs, Check(r) \/ Open(r)
    PROVE  SerialInv'
<1>1. (At(r, "check") \/ At(r, "open")) /\ ~At(r, "idle") /\ UNCHANGED accounts
  BY DEF Check, Open, At
<1>2. CASE \E answer \in {"served", "reauth", "error"} : \E access, email :
              End(r, answer, access, email)
  BY <1>1, <1>2, SerialEnd DEF Answers
<1>3. ASSUME NEW new, req' = [req EXCEPT ![r] = new], new.pc \in {"open", "renew"},
             new.row = req[r].row, new.user = req[r].user
      PROVE  SerialInv'
  <2>1. Alone(new, accounts'[new.user])
    BY <1>1, <1>3, SerialFacts DEF Alone, At, Mine
  <2> QED BY <1>1, <1>3, <2>1, SerialMove, SerialFacts
<1>4. CASE Goto(r, "open")
  <2>1. req' = [req EXCEPT ![r] = [req[r] EXCEPT !.pc = "open"]]
    BY <1>4 DEF Goto
  <2> QED BY <1>1, <1>3, <2>1, Facts DEF Request
<1>5. CASE req' = [req EXCEPT ![r].pc = "renew", ![r].since = now]
  <2>1. req' = [req EXCEPT ![r] = [req[r] EXCEPT !.pc = "renew", !.since = now]]
    BY <1>1, <1>5, Facts DEF Request
  <2> QED BY <1>1, <1>3, <2>1, Facts DEF Request
<1> QED BY <1>2, <1>4, <1>5 DEF Check, Open, Fail

LEMMA SerialRenew ==
    ASSUME IInv, OneAtATime, SerialInv, NEW r \in Reqs, Renew(r)
    PROVE  SerialInv'
<1>1. At(r, "renew") /\ ~At(r, "idle") /\ UNCHANGED accounts
  BY DEF Renew, At
<1>2. CASE Fail(r, "reauth") \/ Fail(r, "error")
  BY <1>1, <1>2, SerialEnd DEF Answers, Fail
<1>3. ASSUME NEW b \in req[r].since .. now, NEW g \in Gens, NEW x \in BOOLEAN,
             req' = [req EXCEPT ![r].pc = "reread",
                ![r].token = [access |-> [owner |-> req[r].row.refresh.owner, dies |-> b + Life],
                              refresh |-> IF x THEN [owner |-> req[r].row.refresh.owner, gen |-> g]
                                               ELSE NoToken,
                              expires |-> now + Life]]
      PROVE  SerialInv'
  <2> DEFINE e == req[r].row.refresh.owner
             grant == [access |-> [owner |-> e, dies |-> b + Life],
                       refresh |-> IF x THEN [owner |-> e, gen |-> g] ELSE NoToken,
                       expires |-> now + Life]
             new == [req[r] EXCEPT !.pc = "reread", !.token = grant]
  <2>1. req' = [req EXCEPT ![r] = new]
    BY <1>1, <1>3, Facts DEF Request
  <2>2. Mine(r) # NoRow /\ req[r].row = Mine(r) /\ e = req[r].row.email
    BY <1>1, SerialFacts DEF At, Alone, Whole
  <2>3. /\ grant.access.owner = req[r].row.email
        /\ grant.refresh # NoToken => grant.refresh.owner = req[r].row.email
    BY <2>2
  <2> HIDE DEF grant
  <2>4. Alone(new, accounts'[new.user])
    BY <1>1, <2>2, <2>3, Facts DEF Alone, Request, Mine
  <2> HIDE DEF new
  <2> QED BY <1>1, <2>1, <2>4, SerialMove, SerialFacts
<1> QED BY <1>2, <1>3 DEF Renew

LEMMA SerialReread ==
    ASSUME IInv, OneAtATime, SerialInv, NEW r \in Reqs, Reread(r)
    PROVE  SerialInv'
<1>1. At(r, "reread") /\ ~At(r, "idle") /\ UNCHANGED accounts
  BY DEF Reread, At
<1>2. Mine(r) # NoRow /\ req[r].row = Mine(r)
  BY <1>1, SerialFacts DEF At, Alone
<1> DEFINE new == [req[r] EXCEPT !.pc = "write", !.kept = Mine(r).refresh]
<1>3. req' = [req EXCEPT ![r] = new]
  BY <1>1, <1>2, Facts DEF Request, Reread
<1>4. Alone(new, accounts'[new.user])
  BY <1>1, <1>2, Facts, SerialFacts DEF At, Alone, Request, Mine
<1> HIDE DEF new
<1> QED BY <1>1, <1>3, <1>4, SerialMove, SerialFacts

\* What the UPDATE of a refresh leaves in a row of the account it asked about.
LEMMA WrittenWhole ==
    ASSUME NEW row \in Row, NEW t \in Token, NEW kept,
           Whole(row), t.access.owner = row.email, kept = row.refresh,
           t.refresh # NoToken => t.refresh.owner = row.email
    PROVE  Whole(Written(row, t, kept))
BY DEF Whole, Written, Coalesce, Row

LEMMA SerialWrite ==
    ASSUME IInv, OneAtATime, SerialInv, NEW r \in Reqs, Write(r)
    PROVE  SerialInv'
<1>1. At(r, "write") /\ ~At(r, "idle")
  BY DEF Write, At
<1> DEFINE u == req[r].user
           row == Written(Mine(r), req[r].token, req[r].kept)
           new == [req[r] EXCEPT !.pc = "result"]
<1>2. /\ Mine(r) \in Row /\ Mine(r) # NoRow /\ Whole(Mine(r)) /\ req[r].token \in Token
      /\ RowOk(Mine(r), consented[u]) /\ GrantOk(req[r].token, consented[u])
      /\ req[r].kept \in RefreshToken /\ req[r].kept.owner \in consented[u]
  BY <1>1, Facts, SerialFacts DEF At, Alone, ReqOk, GrantOk, Request
<1>3. row \in Row
  BY <1>2, WrittenOk
<1>4. Whole(row) /\ row # NoRow
  BY <1>1, <1>2, <1>3, WrittenWhole, SerialFacts, NullsAssumption DEF At, Alone
<1>5. req' = [req EXCEPT ![r] = new]
  BY DEF Write, Goto
<1>6. new.pc = "result" /\ new.user = u /\ u \in Users
  BY <1>1, Facts DEF Request
<1>7. accounts' = [accounts EXCEPT ![u] = row]
  BY <1>2 DEF Write, Mine
<1> HIDE DEF row, new
<1>8. Alone(new, accounts'[new.user])
  BY <1>1, <1>4, <1>6, <1>7, Facts DEF Alone
<1>9. \A v \in Users : accounts'[v] # NoRow => Whole(accounts'[v])
  BY <1>1, <1>4, <1>7, Facts, SerialFacts
<1> QED BY <1>1, <1>5, <1>7, <1>8, <1>9, SerialMove DEF At, Running, Statements

LEMMA SerialResultConfirm ==
    ASSUME IInv, OneAtATime, SerialInv, NEW r \in Reqs, Result(r) \/ Confirm(r)
    PROVE  SerialInv'
<1>1. (At(r, "result") \/ At(r, "confirm")) /\ ~At(r, "idle") /\ UNCHANGED accounts
  BY DEF Result, Confirm, At
<1>2. Mine(r) # NoRow
  BY <1>1, SerialFacts DEF At, Alone
<1>3. PICK answer \in {"served", "success"} : \E access, email : End(r, answer, access, email)
  BY <1>2 DEF Result, Confirm
<1> QED BY <1>1, <1>3, SerialEnd DEF Answers

LEMMA SerialExchange ==
    ASSUME IInv, OneAtATime, SerialInv, NEW r \in Reqs, Exchange(r)
    PROVE  SerialInv'
<1>1. At(r, "exchange") /\ ~At(r, "idle") /\ UNCHANGED accounts
  BY DEF Exchange, At
<1>2. CASE Fail(r, "failed")
  BY <1>1, <1>2, SerialEnd DEF Answers, Fail
<1>3. ASSUME NEW b \in req[r].since .. now, NEW e \in Emails, NEW g \in Gens,
             req' = [req EXCEPT ![r].pc = "userinfo", ![r].since = now,
                ![r].token = [access |-> [owner |-> e, dies |-> b + Life],
                              refresh |-> [owner |-> e, gen |-> g], expires |-> 0]]
      PROVE  SerialInv'
  <2> DEFINE grant == [access |-> [owner |-> e, dies |-> b + Life],
                       refresh |-> [owner |-> e, gen |-> g], expires |-> 0]
             new == [req[r] EXCEPT !.pc = "userinfo", !.since = now, !.token = grant]
  <2>1. req' = [req EXCEPT ![r] = new]
    BY <1>1, <1>3, Facts DEF Request
  <2>2. grant.refresh.owner = grant.access.owner
    OBVIOUS
  <2> HIDE DEF grant
  <2>3. Alone(new, accounts'[new.user])
    BY <1>1, <2>2, Facts DEF Alone, Request
  <2> HIDE DEF new
  <2> QED BY <1>1, <2>1, <2>3, SerialMove, SerialFacts
<1> QED BY <1>2, <1>3 DEF Exchange

LEMMA SerialUserinfo ==
    ASSUME IInv, OneAtATime, SerialInv, NEW r \in Reqs, Userinfo(r)
    PROVE  SerialInv'
<1>1. At(r, "userinfo") /\ ~At(r, "idle") /\ UNCHANGED accounts
  BY DEF Userinfo, At
<1>2. CASE Fail(r, "failed")
  BY <1>1, <1>2, SerialEnd DEF Answers, Fail
<1>3. CASE req' = [req EXCEPT ![r].pc = "upsert", ![r].token.expires = now + Life]
  <2> DEFINE grant == [req[r].token EXCEPT !.expires = now + Life]
             new == [req[r] EXCEPT !.pc = "upsert", !.token = grant]
  <2>1. req[r].token \in Token
    BY <1>1, Facts DEF At, ReqOk, Request
  <2>2. req' = [req EXCEPT ![r] = new]
    BY <1>1, <1>3, Facts DEF Request
  <2>3. grant.refresh.owner = grant.access.owner
    BY <1>1, <2>1, SerialFacts DEF At, Alone, Token
  <2> HIDE DEF grant
  <2>4. Alone(new, accounts'[new.user])
    BY <1>1, <2>3, Facts DEF Alone, Request
  <2> HIDE DEF new
  <2> QED BY <1>1, <2>2, <2>4, SerialMove, SerialFacts
<1> QED BY <1>2, <1>3 DEF Userinfo

LEMMA SerialUpsert ==
    ASSUME IInv, OneAtATime, SerialInv, NEW r \in Reqs, Upsert(r)
    PROVE  SerialInv'
<1>1. At(r, "upsert") /\ ~At(r, "idle") /\ UNCHANGED accounts
  BY DEF Upsert, At
<1> DEFINE pc == IF Mine(r) = NoRow THEN "insert" ELSE "update"
           new == [req[r] EXCEPT !.pc = pc]
<1>2. req' = [req EXCEPT ![r] = new]
  BY DEF Upsert, Goto
<1>3. Alone(new, accounts'[new.user])
  BY <1>1, Facts, SerialFacts DEF At, Alone, Request, Mine
<1> HIDE DEF new
<1> QED BY <1>1, <1>2, <1>3, SerialMove, SerialFacts

LEMMA SerialStore ==
    ASSUME IInv, OneAtATime, SerialInv, NEW r \in Reqs, Insert(r) \/ Update(r)
    PROVE  SerialInv'
<1>1. (At(r, "insert") \/ At(r, "update")) /\ ~At(r, "idle")
  BY DEF Insert, Update, At
<1> DEFINE u == req[r].user
           row == NewRow(req[r].token)
           new == [req[r] EXCEPT !.pc = "confirm"]
<1>2. req' = [req EXCEPT ![r] = new] /\ accounts' = [accounts EXCEPT ![u] = row]
  BY <1>1, SerialFacts DEF Insert, Update, Goto, At, Alone
<1>3. req[r].token \in Token /\ req[r].token.refresh \in RefreshToken
  BY <1>1, Facts DEF At, Request, ReqOk, GrantOk, Token
<1>4. row \in Row /\ Whole(row)
  BY <1>1, <1>3, SerialFacts DEF At, Alone, NewRow, Row, Whole, Token, AccessToken
<1>5. row # NoRow
  BY <1>4, NullsAssumption
<1>6. /\ new.pc = "confirm" /\ new.user = u /\ u \in Users
      /\ new.token.refresh.owner = new.token.access.owner
  BY <1>1, Facts, SerialFacts DEF At, Alone, Request
<1> HIDE DEF row, new
<1>7. Alone(new, accounts'[new.user])
  BY <1>1, <1>2, <1>5, <1>6, Facts DEF Alone
<1>8. \A v \in Users : accounts'[v] # NoRow => Whole(accounts'[v])
  BY <1>1, <1>2, <1>4, Facts, SerialFacts
<1> QED BY <1>1, <1>2, <1>7, <1>8, SerialMove DEF At, Running, Statements

LEMMA SerialDelete ==
    ASSUME IInv, OneAtATime, SerialInv, NEW r \in Reqs, Delete(r)
    PROVE  SerialInv'
<1>1. At(r, "delete") /\ ~At(r, "idle")
  BY DEF Delete, At
<1> DEFINE new == [Blank("removed", req[r].op, req[r].user) EXCEPT
                      !.access = NoToken, !.email = req[r].row.email]
<1>2. req' = [req EXCEPT ![r] = new] /\ accounts' = [accounts EXCEPT ![req[r].user] = NoRow]
  BY DEF Delete, End, IInv, TypeOK
<1>3. Alone(new, accounts'[new.user])
  BY DEF Alone, Blank
<1>4. \A v \in Users : accounts'[v] # NoRow => Whole(accounts'[v])
  BY <1>1, <1>2, Facts, SerialFacts
<1> HIDE DEF new
<1> QED BY <1>1, <1>2, <1>3, <1>4, SerialMove DEF At, Running, Statements

LEMMA SerialDbError ==
    ASSUME IInv, OneAtATime, SerialInv, NEW r \in Reqs, DbError(r)
    PROVE  SerialInv'
<1>1. UNCHANGED accounts /\ Fail(r, ErrorOf(r)) /\ ErrorOf(r) \in Answers \ {"panic"}
  BY DEF DbError, ErrorOf, Answers
<1> QED BY <1>1, SerialEnd DEF Fail

LEMMA SerialRestart ==
    ASSUME IInv, SerialInv, Restart
    PROVE  SerialInv'
<1>1. \A r \in Reqs : Alone(req'[r], accounts'[req'[r].user])
  BY DEF Restart, SerialInv, Alone, Blank, Mine
<1> QED BY <1>1 DEF Restart, SerialInv, Connected, Mine

LEMMA SerialStep ==
    ASSUME IInv, OneAtATime, SerialInv, [Next]_vars
    PROVE  SerialInv'
<1>1. ASSUME NEW r \in Reqs, Handler(r) PROVE SerialInv'
  BY <1>1, SerialFind, SerialCheckOpen, SerialRenew, SerialReread, SerialWrite,
     SerialResultConfirm, SerialExchange, SerialUserinfo, SerialUpsert, SerialStore,
     SerialDelete
  DEF Handler
<1>2. CASE Tick \/ UNCHANGED vars
  BY <1>2 DEF Tick, vars, SerialInv, Connected, Mine
<1> QED BY <1>1, <1>2, SerialBegin, SerialDbError, SerialRestart DEF Next

LEMMA SerialInductive == Spec => ([]OneAtATime => []SerialInv)
<1>1. Init => SerialInv
  BY DEF Init, SerialInv, StoredRows, Connected, Whole, Alone, Blank
<1> QED BY <1>1, SerialStep, Inductive, PTL DEF Spec

\* Requests of one user served one after the other, with crashes and errors in
\* between, end without a nil dereference, store what a login or a refresh brought
\* as a whole, and write back no refresh token that has been replaced: what the
\* violation runs show takes two requests of the same user at the same time.
THEOREM SerialIsSafeHolds == Spec => SerialIsSafe
<1>1. SerialInv => NeverPanics /\ ReconnectReplaces /\ NothingUndone
  BY DEF SerialInv, Alone, Whole, NeverPanics, ReconnectReplaces, NothingUndone, At
<1> QED BY <1>1, SerialInductive, PTL DEF SerialIsSafe

\* Served one at a time, a refresh for which Google granted no new refresh token
\* leaves the one on file as it was.
THEOREM SerialKeepsRefreshToken == Spec => ([]OneAtATime => KeepsRefreshToken)
<1>1. ASSUME IInv, SerialInv, [Next]_vars, NEW r \in Reqs, At(r, "write"), At(r, "result")',
             Mine(r) # NoRow, req[r].token.refresh = NoToken
      PROVE  accounts'[req[r].user].refresh = Mine(r).refresh
  <2>1. Handler(r) \/ DbError(r) \/ (\E op \in Ops, u \in Users : Begin(r, op, u))
    BY <1>1, Moved DEF IInv, At, Restart, Blank, Running, Statements
  <2>2. Write(r) /\ ~At(r, "idle")
    BY <1>1, <2>1, Facts
    DEF At, Handler, DbError, ErrorOf, Begin, Find, Check, Open, Renew, Reread, Result,
        Exchange, Userinfo, Upsert, Insert, Update, Confirm, Delete, Fail, End, Blank
  <2>3. req[r].kept = Mine(r).refresh /\ Mine(r) \in Row /\ req[r].user \in Users
    BY <1>1, <2>2, Facts, SerialFacts DEF At, Alone
  <2>4. accounts'[req[r].user] = Written(Mine(r), req[r].token, req[r].kept)
    BY <1>1, <2>2, <2>3, Facts DEF Write, Mine
  <2> QED BY <1>1, <2>3, <2>4 DEF Written, Coalesce, Row
<1>2. IInv /\ SerialInv /\ [Next]_vars =>
         [\A r \in Reqs :
             At(r, "write") /\ At(r, "result")' /\ Mine(r) # NoRow
                 /\ req[r].token.refresh = NoToken
             => accounts'[req[r].user].refresh = Mine(r).refresh]_vars
  BY <1>1
<1> QED BY <1>2, Inductive, SerialInductive, PTL DEF Spec, KeepsRefreshToken

--------------------------------------------------------------------------------
\* Without removals no row disappears, and nothing that is looked up is missing.

NoRemovals == \A r \in Reqs : req[r].op # "delete"

\* Where a request is only if its user had a row, which is mine now.
HasRow(q, mine) ==
    /\ q.pc \notin {"panic", "delete"}
    /\ q.pc \in {"check", "open", "renew", "reread", "write", "result", "update", "confirm"}
          => mine # NoRow

RowsStay == \A r \in Reqs : HasRow(req[r], Mine(r))

LEMMA StayMove ==
    ASSUME IInv, RowsStay, NEW r \in Reqs, NEW new, req' = [req EXCEPT ![r] = new],
           \A u \in Users : accounts[u] # NoRow => accounts'[u] # NoRow,
           HasRow(new, accounts'[new.user])
    PROVE  RowsStay'
<1>1. ASSUME NEW q \in Reqs PROVE HasRow(req'[q], accounts'[req'[q].user])
  <2>1. CASE q = r
    BY <2>1 DEF IInv, TypeOK
  <2>2. CASE q # r
    <3>1. req'[q] = req[q] /\ (req[q].pc # "idle" => req[q].user \in Users)
      BY <2>2 DEF IInv, TypeOK
    <3> QED BY <3>1 DEF RowsStay, HasRow, Mine
  <2> QED BY <2>1, <2>2
<1> QED BY <1>1 DEF RowsStay, Mine

LEMMA StayEnd ==
    ASSUME IInv, RowsStay, NEW r \in Reqs, NEW answer \in Answers \ {"panic"},
           NEW access, NEW email, End(r, answer, access, email), UNCHANGED accounts
    PROVE  RowsStay'
<1> DEFINE new == [Blank(answer, req[r].op, req[r].user) EXCEPT
                      !.access = access, !.email = email]
<1>1. req' = [req EXCEPT ![r] = new]
  BY DEF End, IInv, TypeOK
<1>2. HasRow(new, accounts'[new.user])
  BY DEF HasRow, Blank, Answers
<1> HIDE DEF new
<1> QED BY <1>1, <1>2, StayMove

\* The steps that leave the table alone and go on.
LEMMA StayGoOn ==
    ASSUME IInv, RowsStay, NEW r \in Reqs, ~At(r, "idle"), NEW new,
           req' = [req EXCEPT ![r] = new], UNCHANGED accounts, new.user = req[r].user,
           new.pc \in Running \ {"delete"},
           \/ Mine(r) # NoRow
           \/ new.pc \in {"userinfo", "upsert", "insert"}
    PROVE  RowsStay'
<1>1. HasRow(new, accounts'[new.user])
  BY DEF HasRow, Mine, Running, Calling, Statements
<1> QED BY <1>1, StayMove

LEMMA StayReads ==
    ASSUME IInv, RowsStay, NoRemovals, NEW r \in Reqs, Find(r) \/ Check(r) \/ Open(r)
    PROVE  RowsStay'
<1>1. /\ At(r, "find") \/ At(r, "check") \/ At(r, "open")
      /\ ~At(r, "idle") /\ UNCHANGED accounts
  BY DEF Find, Check, Open, At
<1>2. CASE \E answer \in Answers \ {"panic"} : \E access, email : End(r, answer, access, email)
  BY <1>1, <1>2, StayEnd
<1>3. ASSUME NEW pc \in {"check", "open"}, Mine(r) # NoRow,
             req' = [req EXCEPT ![r].row = Mine(r), ![r].pc = pc]
      PROVE  RowsStay'
  <2>1. req' = [req EXCEPT ![r] = [req[r] EXCEPT !.row = Mine(r), !.pc = pc]]
    BY <1>1, <1>3, Facts DEF Request
  <2> QED BY <1>1, <1>3, <2>1, StayGoOn, Facts DEF Request, Running
<1>4. CASE Find(r)
  <2>1. At(r, "find") /\ req[r].op \in {"token", "refresh", "account"}
    BY <1>1, <1>4, Facts DEF Find, At, ReqOk, NoRemovals
  <2>2. CASE Mine(r) = NoRow
    <3>1. Fail(r, IF req[r].op \in {"token", "refresh"} THEN "reauth" ELSE "notfound")
      BY <1>4, <2>2 DEF Find
    <3> QED BY <1>2, <3>1 DEF Fail, Answers
  <2>3. CASE Mine(r) # NoRow /\ req[r].op = "account"
    <3>1. End(r, "shown", NoToken, Mine(r).email)
      BY <1>4, <2>3 DEF Find
    <3> QED BY <1>2, <3>1 DEF Answers
  <2>4. CASE Mine(r) # NoRow /\ req[r].op # "account"
    <3>1. PICK pc \in {"check", "open"} :
             req' = [req EXCEPT ![r].row = Mine(r), ![r].pc = pc]
      BY <1>4, <2>1, <2>4 DEF Find
    <3> QED BY <1>3, <2>4, <3>1
  <2> QED BY <2>2, <2>3, <2>4
<1>5. CASE Check(r) \/ Open(r)
  <2>1. Mine(r) # NoRow
    BY <1>5 DEF RowsStay, HasRow, Check, Open, At
  <2>2. CASE Goto(r, "open")
    <3>1. req' = [req EXCEPT ![r] = [req[r] EXCEPT !.pc = "open"]]
      BY <2>2 DEF Goto
    <3> QED BY <1>1, <2>1, <3>1, StayGoOn, Facts DEF Request, Running
  <2>3. CASE req' = [req EXCEPT ![r].pc = "renew", ![r].since = now]
    <3>1. req' = [req EXCEPT ![r] = [req[r] EXCEPT !.pc = "renew", !.since = now]]
      BY <1>1, <2>3, Facts DEF Request
    <3> QED BY <1>1, <2>1, <3>1, StayGoOn, Facts DEF Request, Running, Calling
  <2> QED BY <1>2, <1>5, <2>2, <2>3 DEF Check, Open, Fail, Answers
<1> QED BY <1>4, <1>5

LEMMA StayGoogle ==
    ASSUME IInv, RowsStay, NEW r \in Reqs, Renew(r) \/ Exchange(r) \/ Userinfo(r)
    PROVE  RowsStay'
<1>1. ~At(r, "idle") /\ UNCHANGED accounts
  BY DEF Renew, Exchange, Userinfo, At
<1>2. CASE Fail(r, "reauth") \/ Fail(r, "error") \/ Fail(r, "failed")
  BY <1>1, <1>2, StayEnd DEF Fail, Answers
<1>3. ASSUME Renew(r),
             NEW grant, req' = [req EXCEPT ![r].pc = "reread", ![r].token = grant]
      PROVE  RowsStay'
  <2>1. req' = [req EXCEPT ![r] = [req[r] EXCEPT !.pc = "reread", !.token = grant]]
    BY <1>1, <1>3, Facts DEF Request
  <2>2. Mine(r) # NoRow
    BY <1>3 DEF Renew, At, RowsStay, HasRow
  <2> QED BY <1>1, <2>1, <2>2, StayGoOn, Facts DEF Request, Running, Statements
<1>4. ASSUME NEW grant,
             req' = [req EXCEPT ![r].pc = "userinfo", ![r].since = now, ![r].token = grant]
      PROVE  RowsStay'
  <2>1. req' = [req EXCEPT ![r] = [req[r] EXCEPT !.pc = "userinfo", !.since = now,
                                                 !.token = grant]]
    BY <1>1, <1>4, Facts DEF Request
  <2> QED BY <1>1, <2>1, StayGoOn, Facts DEF Request, Running, Calling
<1>5. CASE req' = [req EXCEPT ![r].pc = "upsert", ![r].token.expires = now + Life]
  <2>1. req' = [req EXCEPT ![r] = [req[r] EXCEPT !.pc = "upsert",
                                     !.token = [req[r].token EXCEPT !.expires = now + Life]]]
    BY <1>1, <1>5, Facts DEF Request
  <2> QED BY <1>1, <2>1, StayGoOn, Facts DEF Request, Running, Statements
<1> QED BY <1>2, <1>3, <1>4, <1>5 DEF Renew, Exchange, Userinfo

LEMMA StayLookups ==
    ASSUME IInv, RowsStay, NEW r \in Reqs,
           Reread(r) \/ Result(r) \/ Upsert(r) \/ Confirm(r)
    PROVE  RowsStay'
<1>1. ~At(r, "idle") /\ UNCHANGED accounts
  BY DEF Reread, Result, Upsert, Confirm, At
<1>2. CASE \E answer \in {"served", "success"} : \E access, email : End(r, answer, access, email)
  BY <1>1, <1>2, StayEnd DEF Answers
<1>3. CASE Mine(r) # NoRow /\ req' = [req EXCEPT ![r].pc = "write", ![r].kept = Mine(r).refresh]
  <2>1. req' = [req EXCEPT ![r] = [req[r] EXCEPT !.pc = "write", !.kept = Mine(r).refresh]]
    BY <1>1, <1>3, Facts DEF Request
  <2> QED BY <1>1, <1>3, <2>1, StayGoOn, Facts DEF Request, Running, Statements
<1>4. CASE Upsert(r)
  <2>1. PICK pc \in {"insert", "update"} : Goto(r, pc) /\ (pc = "update" => Mine(r) # NoRow)
    BY <1>4 DEF Upsert
  <2>2. req' = [req EXCEPT ![r] = [req[r] EXCEPT !.pc = pc]]
    BY <2>1 DEF Goto
  <2> QED BY <1>1, <2>1, <2>2, StayGoOn, Facts DEF Request, Running, Statements
<1>5. ~At(r, "upsert") => (Mine(r) # NoRow \/ ~(Reread(r) \/ Result(r) \/ Confirm(r)))
  BY DEF Reread, Result, Confirm, At, RowsStay, HasRow
<1> QED BY <1>2, <1>3, <1>4, <1>5 DEF Reread, Result, Confirm, At

LEMMA StayWrites ==
    ASSUME IInv, RowsStay, NEW r \in Reqs, Write(r) \/ Insert(r) \/ Update(r)
    PROVE  RowsStay'
<1>1. ~At(r, "idle") /\ (At(r, "write") \/ At(r, "insert") \/ At(r, "update"))
  BY DEF Write, Insert, Update, At
<1>2. CASE Fail(r, "failed") /\ UNCHANGED accounts
  BY <1>1, <1>2, StayEnd DEF Fail, Answers
<1> DEFINE u == req[r].user
<1>3. ASSUME NEW row \in Row, NEW pc \in {"result", "confirm"}, Goto(r, pc),
             accounts' = [accounts EXCEPT ![u] = row]
      PROVE  RowsStay'
  <2> DEFINE new == [req[r] EXCEPT !.pc = pc]
  <2>1. req' = [req EXCEPT ![r] = new]
    BY <1>3 DEF Goto
  <2>2. row # NoRow /\ u \in Users /\ accounts \in [Users -> Row \cup {NoRow}]
    BY <1>1, <1>3, Facts, NullsAssumption
  <2>3. new.user = u /\ new.pc = pc
    BY <1>1, Facts DEF Request
  <2> HIDE DEF new
  <2>4. HasRow(new, accounts'[new.user])
    BY <1>3, <2>2, <2>3 DEF HasRow
  <2>5. \A v \in Users : accounts[v] # NoRow => accounts'[v] # NoRow
    BY <1>3, <2>2
  <2> QED BY <2>1, <2>4, <2>5, StayMove
<1>4. CASE Write(r)
  <2>1. Mine(r) # NoRow /\ Mine(r) \in Row /\ RowOk(Mine(r), consented[u])
    BY <1>1, <1>4, Facts DEF Write, At, RowsStay, HasRow
  <2>2. /\ req[r].token \in Token /\ GrantOk(req[r].token, consented[u])
        /\ req[r].kept \in RefreshToken /\ req[r].kept.owner \in consented[u]
    BY <1>1, <1>4, Facts DEF Write, At, Request, ReqOk, GrantOk
  <2>3. Written(Mine(r), req[r].token, req[r].kept) \in Row
    BY <2>1, <2>2, WrittenOk
  <2> QED BY <1>3, <1>4, <2>1, <2>3 DEF Write, Mine
<1>5. CASE Goto(r, "confirm") /\ accounts' = [accounts EXCEPT ![u] = NewRow(req[r].token)]
           /\ (At(r, "insert") \/ At(r, "update"))
  <2>1. /\ req[r].token \in Token /\ GrantOk(req[r].token, consented[u])
        /\ req[r].token.refresh # NoToken
    BY <1>1, <1>5, Facts DEF At, Request, ReqOk, GrantOk
  <2>2. NewRow(req[r].token) \in Row
    BY <2>1 DEF NewRow, Row, Token, AccessToken
  <2> QED BY <1>3, <1>5, <2>2
<1>6. Update(r) => Mine(r) # NoRow
  BY DEF Update, At, RowsStay, HasRow
<1> QED BY <1>2, <1>4, <1>5, <1>6 DEF Insert, Update

LEMMA StayStep ==
    ASSUME IInv, NoRemovals, RowsStay, [Next]_vars
    PROVE  RowsStay'
<1>1. ASSUME NEW r \in Reqs PROVE ~Delete(r)
  BY DEF RowsStay, HasRow, Delete, At
<1>2. ASSUME NEW r \in Reqs, Handler(r) PROVE RowsStay'
  BY <1>1, <1>2, StayReads, StayGoogle, StayLookups, StayWrites DEF Handler
<1>3. ASSUME NEW r \in Reqs, DbError(r) PROVE RowsStay'
  <2>1. UNCHANGED accounts /\ Fail(r, ErrorOf(r)) /\ ErrorOf(r) \in Answers \ {"panic"}
    BY <1>3 DEF DbError, ErrorOf, Answers
  <2> QED BY <2>1, StayEnd DEF Fail
<1>4. ASSUME NEW r \in Reqs, NEW op \in Ops, NEW u \in Users, Begin(r, op, u)
      PROVE  RowsStay'
  <2> DEFINE new == [Blank(IF op = "login" THEN "exchange" ELSE "find", op, u)
                        EXCEPT !.since = now]
  <2>1. req' = [req EXCEPT ![r] = new] /\ accounts' = accounts
    BY <1>4 DEF Begin
  <2>2. HasRow(new, accounts'[new.user])
    BY DEF HasRow, Blank
  <2> HIDE DEF new
  <2> QED BY <2>1, <2>2, StayMove
<1>5. CASE Restart
  <2>1. \A r \in Reqs : HasRow(req'[r], accounts'[req'[r].user])
    BY <1>5 DEF Restart, RowsStay, HasRow, Blank, Mine
  <2> QED BY <2>1 DEF RowsStay, Mine
<1>6. CASE Tick \/ UNCHANGED vars
  BY <1>6 DEF Tick, vars, RowsStay, Mine
<1> QED BY <1>2, <1>3, <1>4, <1>5, <1>6 DEF Next

LEMMA RowsStayHolds == Spec => ([]NoRemovals => []RowsStay)
<1>1. Init => RowsStay
  BY DEF Init, RowsStay, HasRow, Blank
<1> QED BY <1>1, StayStep, Inductive, PTL DEF Spec

\* As long as nobody removes an account, no request ends in a nil dereference,
\* whatever logins, refreshes, errors and crashes overlap: the panics of the
\* token_panic run are all of requests that raced a removal.
THEOREM NoRemovalNoPanic == Spec => ([]NoRemovals => []NeverPanics)
<1>1. RowsStay => NeverPanics
  BY DEF RowsStay, HasRow, NeverPanics, At
<1> QED BY <1>1, RowsStayHolds, PTL

================================================================================
