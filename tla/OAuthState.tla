------------------------------ MODULE OAuthState ------------------------------
(***************************************************************************)
(* The OAuth state service (core/oauthstate.go) with the callers that      *)
(* drive it: GET /auth-url, the front half of GET /callback                *)
(* (core/httpapi.go) and the cleanup goroutine (cmd/server/main.go).       *)
(*                                                                         *)
(* Every SQL statement is one action, because the connection pool has one  *)
(* connection (core/db.go:31) and no handler opens a transaction; whatever *)
(* a handler does between two statements interleaves with everything else. *)
(* A state token stands for everything Create draws with it: its hash (the *)
(* primary key), the PKCE verifier and the attempt id are one-to-one with  *)
(* the token, and SHA-256 is taken to be injective on the tokens drawn.    *)
(***************************************************************************)
EXTENDS Integers

CONSTANTS
    States,     \* state tokens GenerateState can draw
    Users,      \* application-level user ids
    Callbacks,  \* callback requests, each served once
    TTL,        \* lifetime of a transaction, in clock ticks
    MaxTime,    \* bound: the clock stops here
    Forged,     \* any token gauth never drew
    NoTxn,      \* "no row"
    Nobody      \* "no user"

ASSUME ConstantsAssumption ==
    /\ TTL \in Nat
    /\ MaxTime \in Nat
    /\ Forged \notin States
    /\ Nobody \notin Users

Tokens == States \cup {Forged}

\* A row of oauth_transactions; used stands for used_at IS NOT NULL.
Txn == [user : Users, expires : Nat, used : BOOLEAN]

ASSUME NoTxnAssumption == NoTxn \notin Txn

VARIABLES
    now,     \* wall clock
    txns,    \* the table oauth_transactions, by state
    issued,  \* history: each token's row as Create inserted it, never deleted
    cb       \* the callback requests

vars == <<now, txns, issued, cb>>

\* Where a callback is.  The last line lists the answers: "accepted" is a
\* return of the transaction to handleCallback, "failed" a database error,
\* "missing" a request without code or state, "lost" a process that died.
Running == {"find", "check", "consume"}
Answers == {"accepted", "unknown", "replayed", "expired", "failed", "missing", "lost"}

\* seen is the row the SELECT returned; checked the clock at the expiry test.
Callback == [pc : {"idle"} \cup Running \cup Answers,
             state : Tokens, seen : Txn \cup {NoTxn}, checked : Nat]

TypeOK ==
    /\ now \in Nat
    /\ txns \in [Tokens -> Txn \cup {NoTxn}]
    /\ issued \in [Tokens -> Txn \cup {NoTxn}]
    /\ cb \in [Callbacks -> Callback]

Init ==
    /\ now = 0
    /\ txns = [s \in Tokens |-> NoTxn]
    /\ issued = [s \in Tokens |-> NoTxn]
    /\ cb = [c \in Callbacks |->
                [pc |-> "idle", state |-> Forged, seen |-> NoTxn, checked |-> 0]]

--------------------------------------------------------------------------------
\* Slips of the kind the properties are there to catch are kept next to the
\* definition they would change, under its name with a suffix.

\* The row Create inserts.
NewTxn_BackInTime(u) == [user |-> u, expires |-> now - TTL, used |-> FALSE]
NewTxn(u) == [user |-> u, expires |-> now + TTL, used |-> FALSE]

\* GET /auth-url: one INSERT of a token never drawn before (32 random bytes).
Create(s, u) ==
    /\ issued[s] = NoTxn
    /\ txns' = [txns EXCEPT ![s] = NewTxn(u)]
    /\ issued' = [issued EXCEPT ![s] = NewTxn(u)]
    /\ UNCHANGED <<now, cb>>

\* GET /callback arrives with a token: any one handed out so far, for the first
\* time or again, or a forged one.
Receive(c, s) ==
    /\ cb[c].pc = "idle"
    /\ issued[s] # NoTxn \/ s = Forged
    /\ cb' = [cb EXCEPT ![c].pc = "find", ![c].state = s]
    /\ UNCHANGED <<now, txns, issued>>

\* GET /callback arrives without code or without state, and is turned away.
ReceiveIncomplete(c) ==
    /\ cb[c].pc = "idle"
    /\ cb' = [cb EXCEPT ![c].pc = "missing"]
    /\ UNCHANGED <<now, txns, issued>>

\* SELECT ... WHERE state_hash = ?
Find_AnyRow(c) ==
    /\ cb[c].pc = "find"
    /\ \E s \in Tokens : cb' = [cb EXCEPT ![c].pc = "check", ![c].seen = txns[s]]
    /\ UNCHANGED <<now, txns, issued>>
Find(c) ==
    /\ cb[c].pc = "find"
    /\ cb' = [cb EXCEPT ![c].pc = "check", ![c].seen = txns[cb[c].state]]
    /\ UNCHANGED <<now, txns, issued>>

\* The verdict of the three early returns on the row that was read.
Verdict_NoExpiry(row) ==
    IF row = NoTxn THEN "unknown" ELSE IF row.used THEN "replayed" ELSE "consume"
Verdict(row) ==
    IF row = NoTxn THEN "unknown"
    ELSE IF row.used THEN "replayed"
    ELSE IF row.expires < now THEN "expired"
    ELSE "consume"

\* The early returns of ValidateAndConsume, after the SELECT has returned.
Check(c) ==
    /\ cb[c].pc = "check"
    /\ cb' = [cb EXCEPT ![c].pc = Verdict(cb[c].seen), ![c].checked = now]
    /\ UNCHANGED <<now, txns, issued>>

\* The rows UPDATE ... WHERE state_hash = ? AND used_at IS NULL matches.
Unused_Unconditional(s) == txns[s] # NoTxn
Unused(s) == txns[s] # NoTxn /\ ~txns[s].used

\* The UPDATE, and the test of the number of rows it affected.
Consume_NoAnswer(c) ==
    /\ cb[c].pc = "consume"
    /\ Unused(cb[c].state)
    /\ txns' = [txns EXCEPT ![cb[c].state].used = TRUE]
    /\ cb' = [cb EXCEPT ![c].pc = "accepted"]
    /\ UNCHANGED <<now, issued>>
Consume(c) ==
    /\ cb[c].pc = "consume"
    /\ LET s == cb[c].state
       IN  \/ /\ Unused(s)
              /\ txns' = [txns EXCEPT ![s].used = TRUE]
              /\ cb' = [cb EXCEPT ![c].pc = "accepted"]
           \/ /\ ~Unused(s)
              /\ cb' = [cb EXCEPT ![c].pc = "replayed"]
              /\ UNCHANGED txns
    /\ UNCHANGED <<now, issued>>

\* A statement returns a database error; it has changed nothing.
DbError(c) ==
    /\ cb[c].pc \in {"find", "consume"}
    /\ cb' = [cb EXCEPT ![c].pc = "failed"]
    /\ UNCHANGED <<now, txns, issued>>

Handler(c) == Find(c) \/ Check(c) \/ Consume(c)

\* The rows DELETE ... WHERE expires_at < now matches.
Expired_Early(s) == txns[s] # NoTxn /\ txns[s].expires <= now
Expired_UsedOnly(s) == txns[s] # NoTxn /\ txns[s].used /\ txns[s].expires < now
Expired(s) == txns[s] # NoTxn /\ txns[s].expires < now

\* One tick of the cleanup goroutine.  A failed DELETE is ignored and the next
\* tick repeats it, so failing is not doing it yet.
CleanupExpired ==
    /\ \E s \in Tokens : Expired(s)
    /\ txns' = [s \in Tokens |-> IF Expired(s) THEN NoTxn ELSE txns[s]]
    /\ UNCHANGED <<now, issued, cb>>

Tick ==
    /\ now < MaxTime
    /\ now' = now + 1
    /\ UNCHANGED <<txns, issued, cb>>

\* The process dies and is started again: the table survives, requests do not.
Restart ==
    /\ \E c \in Callbacks : cb[c].pc \in Running
    /\ cb' = [c \in Callbacks |->
                 IF cb[c].pc \in Running THEN [cb[c] EXCEPT !.pc = "lost"] ELSE cb[c]]
    /\ UNCHANGED <<now, txns, issued>>

Next ==
    \/ \E s \in States, u \in Users : Create(s, u)
    \/ \E c \in Callbacks, s \in Tokens : Receive(c, s)
    \/ \E c \in Callbacks : ReceiveIncomplete(c) \/ Handler(c) \/ DbError(c)
    \/ CleanupExpired
    \/ Tick
    \/ Restart

Spec == Init /\ [][Next]_vars

\* A handler goroutine keeps running, and the ticker keeps firing, as long as
\* the process is up; nothing is assumed of browsers, the clock or crashes.
Fairness ==
    /\ \A c \in Callbacks : WF_vars(Handler(c))
    /\ WF_vars(CleanupExpired)

FairSpec == Spec /\ Fairness

--------------------------------------------------------------------------------
Accepted(c) == cb[c].pc = "accepted"

\* No two callbacks get past ValidateAndConsume with the same token, whatever
\* the order of their SELECTs and UPDATEs, of cleanups and of restarts.
AcceptedOnce ==
    \A c, d \in Callbacks :
        Accepted(c) /\ Accepted(d) /\ cb[c].state = cb[d].state => c = d

\* The user a callback goes on to connect is the one its token was created for,
\* although the row may have been deleted since it was read, and the token was
\* tested no later than TTL ticks after its creation.  The UPDATE comes a step
\* later: now <= expires is not promised of the moment the token is taken.
AcceptedAsIssued ==
    \A c \in Callbacks :
        Accepted(c) => /\ issued[cb[c].state] # NoTxn
                       /\ cb[c].seen.user = issued[cb[c].state].user
                       /\ cb[c].checked <= issued[cb[c].state].expires

\* A token that was handed out is reported unknown only after it has expired:
\* the cleanup never takes a row away from a callback that comes in time.
UnknownOnlyIfExpired ==
    \A c \in Callbacks :
        cb[c].pc = "unknown" /\ cb[c].state # Forged
            => issued[cb[c].state].expires < cb[c].checked

\* A callback turned away as a replay has lost to another one or to the clock:
\* a browser in time is not refused a token that nobody has redeemed.
ReplayHasACause ==
    \A c \in Callbacks :
        cb[c].pc = "replayed" =>
            \/ issued[cb[c].state].expires < now
            \/ \E d \in Callbacks : Accepted(d) /\ cb[d].state = cb[c].state

\* Every callback the server starts on is answered, unless the process dies.
EveryCallbackAnswered ==
    \A c \in Callbacks : cb[c].pc \in Running ~> cb[c].pc \in Answers

\* Expired rows do not stay in the table.
ExpiredRowsPurged ==
    \A s \in States :
        txns[s] # NoTxn /\ txns[s].expires < now ~> txns[s] = NoTxn

\* The service implements its promise: handing a token out is its INSERT, and
\* redeeming it is the UPDATE that finds it unused.
Owner == [s \in States |-> IF issued[s] = NoTxn THEN Nobody ELSE issued[s].user]
Redemption(c) == <<c, cb[c].state, cb[c].seen.user>>
Redemptions == {Redemption(c) : c \in {d \in Callbacks : Accepted(d)}}

Promise == INSTANCE SingleUse
    WITH Logins <- Callbacks, owner <- Owner, redeemed <- Redemptions

SingleUseSpec == Promise!Spec

================================================================================
