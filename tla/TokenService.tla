----------------------------- MODULE TokenService -----------------------------
(***************************************************************************)
(* Account storage and token refresh: core/tokenservice.go,                *)
(* core/accounts.go, the calls to Google of core/oauth.go, and the         *)
(* handlers of core/httpapi.go that drive them (the second half of         *)
(* /callback, /account, /token, /refresh-token).                           *)
(*                                                                         *)
(* Handlers run concurrently and hold no lock and no transaction: each SQL *)
(* statement and each call to Google is one action, and everything a       *)
(* handler carries from one to the next is a snapshot in its request.      *)
(* Google is external: it may answer a call in every way the code tells    *)
(* apart.  last_used_at, created_at and updated_at are left out: nothing   *)
(* decides on them.                                                        *)
(***************************************************************************)
EXTENDS Integers

CONSTANTS
    Users,     \* application-level user ids
    Emails,    \* Google accounts, by email
    Gens,      \* tells the refresh tokens of one Google account apart
    Reqs,      \* HTTP requests, each served once
    Life,      \* expires_in: lifetime of an access token, in clock ticks
    Skew,      \* refresh this long before the recorded expiry
    Timeout,   \* http.Client.Timeout of one call to Google
    MaxTime,   \* bound: the clock stops here
    NoRow, NoToken, NoEmail, NoUser

ASSUME TimesAssumption ==
    /\ Life \in Nat /\ Skew \in Nat /\ Timeout \in Nat /\ MaxTime \in Nat
    /\ 2 * Timeout <= Skew     \* 2 * 15 s against 5 min

\* owner: the Google account it gives access to; dies: its expiry at Google.
AccessToken == [owner : Emails, dies : Nat]
RefreshToken == [owner : Emails, gen : Gens]

\* A row of google_accounts; expires is what gauth recorded.
Row == [email : Emails, access : AccessToken, refresh : RefreshToken \cup {NoToken},
        expires : Nat]

\* TokenResult; its Email is the owner of its access token.
Token == [access : AccessToken, refresh : RefreshToken \cup {NoToken}, expires : Nat]

ASSUME NullsAssumption ==
    /\ NoRow \notin Row
    /\ NoToken \notin AccessToken \cup RefreshToken \cup Token
    /\ NoEmail \notin Emails
    /\ NoUser \notin Users

VARIABLES
    now,        \* wall clock
    accounts,   \* the table google_accounts, by user_id
    consented,  \* history: the accounts Google confirmed for each user
    req         \* the requests

vars == <<now, accounts, consented, req>>

Ops == {"token", "refresh", "login", "delete", "account"}
Calling == {"exchange", "userinfo", "renew"}    \* a call to Google is in flight
Statements == {"find", "reread", "write", "result",
               "upsert", "insert", "update", "confirm", "delete"}
Running == Calling \cup Statements \cup {"check", "open"}
\* How a request ends: "panic" is a nil dereference (net/http drops the
\* connection), "lost" a process that died, "error" a 500.
Answers == {"served", "reauth", "shown", "removed", "notfound", "success", "failed",
            "error", "panic", "lost"}

\* since: when its call to Google started; row: the row it first read; token:
\* what Google granted; kept: the refresh token UpdateTokens found on file;
\* access, email: what its answer carries.
Request == [pc : {"idle"} \cup Running \cup Answers,
            op : Ops \cup {"none"}, user : Users \cup {NoUser},
            since : Nat, row : Row \cup {NoRow}, token : Token \cup {NoToken},
            kept : RefreshToken \cup {NoToken},
            access : AccessToken \cup {NoToken}, email : Emails \cup {NoEmail}]

TypeOK ==
    /\ now \in Nat
    /\ accounts \in [Users -> Row \cup {NoRow}]
    /\ consented \in [Users -> SUBSET Emails]
    /\ req \in [Reqs -> Request]
    /\ \A r \in Reqs : req[r].pc # "idle" => req[r].user \in Users

Blank(pc, op, u) == [pc |-> pc, op |-> op, user |-> u, since |-> 0, row |-> NoRow,
                     token |-> NoToken, kept |-> NoToken,
                     access |-> NoToken, email |-> NoEmail]

\* The database may hold rows of an earlier life of the service: refresh token
\* on file, expiry recorded up to two call timeouts late (see Userinfo).
StoredRows ==
    {row \in [email : Emails, access : [owner : Emails, dies : 0..Life],
              refresh : RefreshToken, expires : 0..(Life + 2 * Timeout)] :
        /\ row.access.owner = row.email /\ row.refresh.owner = row.email
        /\ row.expires \in row.access.dies .. (row.access.dies + 2 * Timeout)}

Init ==
    /\ now = 0
    /\ accounts \in [Users -> StoredRows \cup {NoRow}]
    /\ consented = [u \in Users |->
                       IF accounts[u] = NoRow THEN {} ELSE {accounts[u].email}]
    /\ req = [r \in Reqs |-> Blank("idle", "none", NoUser)]

--------------------------------------------------------------------------------
\* How requests move.  Slips of the kind the properties are there to catch are
\* kept next to the definition they would change, under its name with a suffix.

At(r, pc) == req[r].pc = pc
Mine(r) == accounts[req[r].user]          \* WHERE user_id = ?
Goto(r, pc) == req' = [req EXCEPT ![r].pc = pc]

\* A request that has ended keeps only its answer.
End(r, answer, access, email) ==
    req' = [req EXCEPT ![r] = [Blank(answer, @.op, @.user) EXCEPT
                                  !.access = access, !.email = email]]
Fail(r, answer) == End(r, answer, NoToken, NoEmail)

\* /callback answers every failure by the same redirect, the others by a 500.
ErrorOf(r) == IF req[r].op = "login" THEN "failed" ELSE "error"

\* A request for u arrives; a login has just had its state token accepted.
Begin(r, op, u) ==
    /\ At(r, "idle")
    /\ req' = [req EXCEPT ![r] =
                  [Blank(IF op = "login" THEN "exchange" ELSE "find", op, u)
                      EXCEPT !.since = now]]
    /\ UNCHANGED <<now, accounts, consented>>

\* FindByUserID, the first statement of every operation but the login.
Find(r) ==
    /\ At(r, "find")
    /\ LET row == Mine(r)
       IN  CASE row = NoRow ->
                  Fail(r, IF req[r].op \in {"token", "refresh"} THEN "reauth" ELSE "notfound")
             [] row # NoRow /\ req[r].op = "account" -> End(r, "shown", NoToken, row.email)
             [] row # NoRow /\ req[r].op # "account" ->
                  req' = [req EXCEPT ![r].row = row,
                                     ![r].pc = CASE req[r].op = "token" -> "check"
                                                 [] req[r].op = "refresh" -> "open"
                                                 [] req[r].op = "delete" -> "delete"]
    /\ UNCHANGED <<now, accounts, consented>>

\* GetValidToken: is the recorded expiry too near?  If not, the row that was
\* read is the answer (TouchLastUsed, whose error is ignored, aside).
TooNear_NoSkew(row) == row.expires <= now
TooNear(row) == row.expires <= now + Skew
Check(r) ==
    /\ At(r, "check")
    /\ LET row == req[r].row
       IN  \/ TooNear(row) /\ Goto(r, "open")
           \/ ~TooNear(row) /\ End(r, "served", row.access, row.email)
    /\ UNCHANGED <<now, accounts, consented>>

\* refresh: the sealed refresh token is opened, which fails when it was sealed
\* under another master key, and the call to Google starts.
Open(r) ==
    /\ At(r, "open")
    /\ \/ req[r].row.refresh = NoToken /\ Fail(r, "reauth")
       \/ req[r].row.refresh # NoToken /\ Fail(r, "error")
       \/ /\ req[r].row.refresh # NoToken
          /\ req' = [req EXCEPT ![r].pc = "renew", ![r].since = now]
    /\ UNCHANGED <<now, accounts, consented>>

\* Google's reply to a refresh: invalid_grant, another failure or a timeout, or
\* a new access token minted at some instant of the call, and perhaps a new
\* refresh token.  The expiry is counted from the end of the call.
Renew(r) ==
    /\ At(r, "renew")
    /\ \/ Fail(r, "reauth")
       \/ Fail(r, "error")
       \/ \E born \in req[r].since .. now, g \in Gens, rotated \in BOOLEAN :
             LET e == req[r].row.refresh.owner
             IN  req' = [req EXCEPT
                    ![r].pc = "reread",
                    ![r].token =
                       [access |-> [owner |-> e, dies |-> born + Life],
                        refresh |-> IF rotated THEN [owner |-> e, gen |-> g] ELSE NoToken,
                        expires |-> now + Life]]
    /\ UNCHANGED <<now, accounts, consented>>

\* UpdateTokens: FindByUserID.  Without a row it returns nil and no error, and
\* the caller dereferences it.
Reread_NoAnswer(r) ==
    /\ At(r, "reread")
    /\ Mine(r) # NoRow
    /\ req' = [req EXCEPT ![r].pc = "write", ![r].kept = Mine(r).refresh]
    /\ UNCHANGED <<now, accounts, consented>>
Reread(r) ==
    /\ At(r, "reread")
    /\ \/ Mine(r) = NoRow /\ Fail(r, "panic")
       \/ /\ Mine(r) # NoRow
          /\ req' = [req EXCEPT ![r].pc = "write", ![r].kept = Mine(r).refresh]
    /\ UNCHANGED <<now, accounts, consented>>

\* coalesceRefreshToken
Coalesce_NewOnly(token, kept) == token.refresh
Coalesce(token, kept) == IF token.refresh # NoToken THEN token.refresh ELSE kept

\* The SET clause of the UPDATE in UpdateTokens: everything but the email.
Written_KeepExpiry(row, t, kept) ==
    [row EXCEPT !.access = t.access, !.refresh = Coalesce(t, kept)]
Written(row, t, kept) ==
    [row EXCEPT !.access = t.access, !.expires = t.expires, !.refresh = Coalesce(t, kept)]

\* The row a login stores; its refresh token is never missing.
NewRow_NoAccess(t) == [email |-> t.access.owner, access |-> NoToken, refresh |-> t.refresh,
                       expires |-> t.expires]
NewRow(t) == [email |-> t.access.owner, access |-> t.access, refresh |-> t.refresh,
              expires |-> t.expires]

\* UpdateTokens: the UPDATE, which matches no row when the account is gone.
Write_AnyUser(r) ==
    /\ At(r, "write")
    /\ accounts' = [u \in Users |-> IF accounts[u] = NoRow THEN NoRow
                                    ELSE Written(accounts[u], req[r].token, req[r].kept)]
    /\ Goto(r, "result")
    /\ UNCHANGED <<now, consented>>
Write_Recreate(r) ==
    /\ At(r, "write")
    /\ accounts' = [accounts EXCEPT ![req[r].user] =
                       Written(NewRow(req[r].token), req[r].token, req[r].kept)]
    /\ Goto(r, "result")
    /\ UNCHANGED <<now, consented>>
Write(r) ==
    /\ At(r, "write")
    /\ accounts' = IF Mine(r) = NoRow THEN accounts
                   ELSE [accounts EXCEPT ![req[r].user] =
                            Written(@, req[r].token, req[r].kept)]
    /\ Goto(r, "result")
    /\ UNCHANGED <<now, consented>>

\* UpdateTokens: the closing FindByUserID.  GET /token answers with the email of
\* the row it read at first.
Result(r) ==
    /\ At(r, "result")
    /\ \/ Mine(r) = NoRow /\ Fail(r, "panic")
       \/ /\ Mine(r) # NoRow
          /\ End(r, "served", Mine(r).access,
                 IF req[r].op = "token" THEN req[r].row.email ELSE NoEmail)
    /\ UNCHANGED <<now, accounts, consented>>

--------------------------------------------------------------------------------
\* The login: ExchangeCode, then StoreAccount.

\* Google's reply to the code: a failure, or tokens of the account e that the
\* user has picked, with a refresh token or (rejected) without.
Exchange(r) ==
    /\ At(r, "exchange")
    /\ \/ Fail(r, "failed")
       \/ \E born \in req[r].since .. now, e \in Emails, g \in Gens :
             req' = [req EXCEPT
                ![r].pc = "userinfo", ![r].since = now,
                ![r].token = [access |-> [owner |-> e, dies |-> born + Life],
                              refresh |-> [owner |-> e, gen |-> g], expires |-> 0]]
    /\ UNCHANGED <<now, accounts, consented>>

\* fetchEmail, a second call; only after it is the expiry counted.
Userinfo(r) ==
    /\ At(r, "userinfo")
    /\ \/ Fail(r, "failed") /\ UNCHANGED consented
       \/ /\ req' = [req EXCEPT ![r].pc = "upsert", ![r].token.expires = now + Life]
          /\ consented' = [consented EXCEPT
                              ![req[r].user] = @ \cup {req[r].token.access.owner}]
    /\ UNCHANGED <<now, accounts>>

\* Upsert: FindByUserID decides between UPDATE and INSERT.
Upsert_Blind(r) ==
    /\ At(r, "upsert")
    /\ Goto(r, "update")
    /\ UNCHANGED <<now, accounts, consented>>
Upsert(r) ==
    /\ At(r, "upsert")
    /\ Goto(r, IF Mine(r) = NoRow THEN "insert" ELSE "update")
    /\ UNCHANGED <<now, accounts, consented>>

\* INSERT; user_id is unique.
Insert(r) ==
    /\ At(r, "insert")
    /\ \/ Mine(r) # NoRow /\ Fail(r, "failed") /\ UNCHANGED accounts
       \/ /\ Mine(r) = NoRow
          /\ accounts' = [accounts EXCEPT ![req[r].user] = NewRow(req[r].token)]
          /\ Goto(r, "confirm")
    /\ UNCHANGED <<now, consented>>

\* UPDATE; it matches no row when the account has gone since.
Update(r) ==
    /\ At(r, "update")
    /\ accounts' = IF Mine(r) = NoRow THEN accounts
                   ELSE [accounts EXCEPT ![req[r].user] = NewRow(req[r].token)]
    /\ Goto(r, "confirm")
    /\ UNCHANGED <<now, consented>>

\* Upsert's closing FindByUserID; accountToView dereferences what it returns.
Confirm(r) ==
    /\ At(r, "confirm")
    /\ \/ Mine(r) = NoRow /\ Fail(r, "panic")
       \/ Mine(r) # NoRow /\ End(r, "success", NoToken, req[r].token.access.owner)
    /\ UNCHANGED <<now, accounts, consented>>

--------------------------------------------------------------------------------
\* RemoveAccount: the DELETE; whether it matched a row is not looked at.
Delete(r) ==
    /\ At(r, "delete")
    /\ accounts' = [accounts EXCEPT ![req[r].user] = NoRow]
    /\ End(r, "removed", NoToken, req[r].row.email)
    /\ UNCHANGED <<now, consented>>

\* A statement, or the Seal before it, returns an error; nothing has changed.
DbError(r) ==
    /\ req[r].pc \in Statements
    /\ Fail(r, ErrorOf(r))
    /\ UNCHANGED <<now, accounts, consented>>

Handler(r) ==
    \/ Find(r) \/ Check(r) \/ Open(r) \/ Renew(r) \/ Reread(r) \/ Write(r) \/ Result(r)
    \/ Exchange(r) \/ Userinfo(r) \/ Upsert(r) \/ Insert(r) \/ Update(r) \/ Confirm(r)
    \/ Delete(r)

\* Time passes, but no call to Google outlives the client's timeout.
Tick ==
    /\ now < MaxTime
    /\ \A r \in Reqs : req[r].pc \in Calling => now < req[r].since + Timeout
    /\ now' = now + 1
    /\ UNCHANGED <<accounts, consented, req>>

\* The process dies and is started again: the table survives, requests do not.
Restart ==
    /\ \E r \in Reqs : req[r].pc \in Running
    /\ req' = [r \in Reqs |-> IF req[r].pc \in Running
                              THEN Blank("lost", req[r].op, req[r].user) ELSE req[r]]
    /\ UNCHANGED <<now, accounts, consented>>

Next ==
    \/ \E r \in Reqs, op \in Ops, u \in Users : Begin(r, op, u)
    \/ \E r \in Reqs : Handler(r) \/ DbError(r)
    \/ Tick
    \/ Restart

Spec == Init /\ [][Next]_vars

\* A handler goroutine keeps running, and a call to Google returns, with an
\* error at the latest when it times out.
Fairness == \A r \in Reqs : WF_vars(Handler(r))

FairSpec == Spec /\ Fairness

--------------------------------------------------------------------------------
Connected(u) == accounts[u] # NoRow

\* What is stored for a user, and every token and email it is answered with, are
\* of Google accounts its own logins brought in: no request writes or reads across
\* users, whatever it carries from before a reconnect or a delete.
OnlyConsentedAccounts ==
    /\ \A u \in Users : Connected(u) =>
          {accounts[u].email, accounts[u].access.owner, accounts[u].refresh.owner}
              \subseteq consented[u]
    /\ \A r \in Reqs :
          /\ req[r].access # NoToken => req[r].access.owner \in consented[req[r].user]
          /\ req[r].email # NoEmail => req[r].email \in consented[req[r].user]

\* No interleaving of refreshes, reconnects and deletes leaves an account
\* without a refresh token, with which it could only be reconnected by hand.
RefreshTokenOnFile ==
    \A u \in Users : Connected(u) => accounts[u].refresh # NoToken

\* The recorded expiry belongs to the recorded token: it is never before the
\* token's expiry at Google, and late by two timed-out calls at most.
ExpiryTracksToken ==
    \A u \in Users : Connected(u) =>
        /\ accounts[u].access.dies <= accounts[u].expires
        /\ accounts[u].expires <= accounts[u].access.dies + 2 * Timeout

\* A token that GET /token takes from the table without asking Google is alive
\* at Google, although its expiry was recorded too late and the row may have
\* been read some time ago.
ServedFresh ==
    [][\A r \in Reqs : At(r, "check") /\ At(r, "served")'
          => now < req[r].row.access.dies]_vars

\* Every request is answered, or ends in a panic or with the process.
EveryRequestEnds ==
    \A r \in Reqs : req[r].pc \in Running ~> req[r].pc \in Answers

\* Account storage implements its promise.  A login holds an unused consent from
\* the answer of fetchEmail to its INSERT or UPDATE.
Account == [u \in Users |-> IF Connected(u) THEN accounts[u].email ELSE NoEmail]
Holding(r) == req[r].pc \in {"upsert", "insert", "update"}
Pending == {<<r, req[r].user, req[r].token.access.owner>> : r \in {q \in Reqs : Holding(q)}}

Book == INSTANCE AccountBook WITH account <- Account, pending <- Pending

AccountBookSpec == Book!Spec

--------------------------------------------------------------------------------
\* What comments in the code and README.md say, and the interleavings refute.

\* README.md: GET /token answers 401 with needsReauth if re-auth is needed; here,
\* no request ends in a nil dereference instead of an answer.
NeverPanics == \A r \in Reqs : ~At(r, "panic")

\* accounts.go: Upsert fully replaces the account, so that what is stored under
\* an email are the tokens of that Google account.
ReconnectReplaces ==
    \A u \in Users : Connected(u) => accounts[u].access.owner = accounts[u].email

\* accounts.go: the refresh token on file is kept when Google supplies no new one.
KeepsRefreshToken ==
    [][\A r \in Reqs :
          At(r, "write") /\ At(r, "result")' /\ Mine(r) # NoRow
              /\ req[r].token.refresh = NoToken
          => accounts'[req[r].user].refresh = Mine(r).refresh]_vars

--------------------------------------------------------------------------------
\* Those three need two requests of one user at the same time.  Served one after
\* the other, also with crashes and errors in between, no request ends in a nil
\* dereference, no row mixes two Google accounts, and no refresh writes back a
\* refresh token that has been replaced.
OneAtATime ==
    \A r, q \in Reqs :
        req[r].pc \in Running /\ req[q].pc \in Running /\ req[r].user = req[q].user => r = q

NothingUndone ==
    \A r \in Reqs : At(r, "write") => Mine(r) # NoRow /\ req[r].kept = Mine(r).refresh

SerialIsSafe == []OneAtATime => [](NeverPanics /\ ReconnectReplaces /\ NothingUndone)

================================================================================

