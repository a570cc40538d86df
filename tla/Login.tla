--------------------------------- MODULE Login ---------------------------------
(***************************************************************************)
(* The whole login: OAuthState and TokenService composed as handleCallback *)
(* (core/httpapi.go) composes them.  The two share the clock and nothing   *)
(* else: a callback that ValidateAndConsume accepts goes on, in the same   *)
(* goroutine, to exchange its code and to store the account for the user   *)
(* of the transaction it was handed.  Token, refresh, account and delete   *)
(* requests run beside it, and a crash takes all of them at once.          *)
(***************************************************************************)
EXTENDS Integers

CONSTANTS
    Users, States, Forged, TTL,                \* see OAuthState
    Emails, Gens, Life, Skew, Timeout,         \* see TokenService
    Logins,    \* requests to /callback
    Others,    \* requests to /token, /refresh-token and /account
    MaxTime,   \* bound: the clock stops here
    NoTxn, Nobody, NoRow, NoToken, NoEmail, NoUser

Reqs == Logins \cup Others

VARIABLES
    now,                         \* wall clock
    txns, issued, cb,            \* see OAuthState
    accounts, consented, req,    \* see TokenService
    stored     \* history: the accounts logins have written, one entry per write

S == INSTANCE OAuthState WITH Callbacks <- Logins
A == INSTANCE TokenService

ASSUME PartsAssumption ==
    /\ Logins \cap Others = {}
    /\ S!ConstantsAssumption /\ S!NoTxnAssumption
    /\ A!TimesAssumption /\ A!NullsAssumption

stateVars == <<txns, issued, cb>>
accountVars == <<accounts, consented, req>>
vars == <<now, txns, issued, cb, accounts, consented, req, stored>>

Entry == [login : Logins, state : States, user : Users, email : Emails]

TypeOK == S!TypeOK /\ A!TypeOK /\ stored \in SUBSET Entry

Init == S!Init /\ A!Init /\ stored = {}

--------------------------------------------------------------------------------
\* Slips of the kind the properties are there to catch are kept next to the
\* definition they would change, under its name with a suffix.

\* The transaction store moves and no account does: /auth-url, a callback up to
\* its UPDATE, the cleanup.
StateOnly ==
    /\ \/ \E s \in States, u \in Users : S!Create(s, u)
       \/ \E c \in Logins, s \in S!Tokens : S!Receive(c, s)
       \/ \E c \in Logins : S!ReceiveIncomplete(c) \/ S!DbError(c)
       \/ S!CleanupExpired
    /\ UNCHANGED <<accountVars, stored>>

Validate(c) == (S!Find(c) \/ S!Check(c)) /\ UNCHANGED <<accountVars, stored>>

\* The user the login goes on with is the one of the transaction.
LoginUser(c) == cb[c].seen.user

\* The UPDATE that marks the transaction used; the callback whose UPDATE it was
\* goes on to Google at once, the others have been answered.
Redeem_Regardless(c) ==
    /\ S!Consume(c)
    /\ A!Begin(c, "login", LoginUser(c))
    /\ UNCHANGED stored
Redeem(c) ==
    /\ S!Consume(c)
    /\ \/ cb'[c].pc = "accepted" /\ A!Begin(c, "login", LoginUser(c))
       \/ cb'[c].pc # "accepted" /\ UNCHANGED accountVars
    /\ UNCHANGED stored

\* A request of another kind arrives.
Arrive(r, op, u) ==
    /\ A!Begin(r, op, u)
    /\ UNCHANGED <<stateVars, stored>>

\* The INSERT or the UPDATE of a login: did it write a row?
Writes(c) ==
    \/ A!At(c, "insert") /\ A!Mine(c) = NoRow
    \/ A!At(c, "update") /\ A!Mine(c) # NoRow

Store(c) ==
    /\ A!Insert(c) \/ A!Update(c)
    /\ stored' = IF Writes(c)
                 THEN stored \cup {[login |-> c, state |-> cb[c].state, user |-> req[c].user,
                                    email |-> req[c].token.access.owner]}
                 ELSE stored
    /\ UNCHANGED stateVars

\* Any other step of a request, a login or not.
Proceed(r) ==
    /\ \/ A!Find(r) \/ A!Check(r) \/ A!Open(r) \/ A!Renew(r) \/ A!Reread(r) \/ A!Write(r)
       \/ A!Result(r) \/ A!Exchange(r) \/ A!Userinfo(r) \/ A!Upsert(r) \/ A!Confirm(r)
       \/ A!Delete(r)
    /\ UNCHANGED <<stateVars, stored>>

Fails(r) == A!DbError(r) /\ UNCHANGED <<stateVars, stored>>

Tick == S!Tick /\ A!Tick /\ UNCHANGED stored

\* The process dies and is started again, and takes every request with it.
Idle == ~(\E c \in Logins : cb[c].pc \in S!Running)
Quiet == ~(\E r \in Reqs : req[r].pc \in A!Running)
Restart ==
    /\ ~(Idle /\ Quiet)
    /\ S!Restart \/ (Idle /\ UNCHANGED <<now, stateVars>>)
    /\ A!Restart \/ (Quiet /\ UNCHANGED <<now, accountVars>>)
    /\ UNCHANGED stored

Next ==
    \/ StateOnly
    \/ \E c \in Logins : Validate(c) \/ Redeem(c) \/ Store(c)
    \/ \E r \in Others, op \in A!Ops \ {"login"}, u \in Users : Arrive(r, op, u)
    \/ \E r \in Reqs : Proceed(r) \/ Fails(r)
    \/ Tick
    \/ Restart

Spec == Init /\ [][Next]_vars

--------------------------------------------------------------------------------
\* From end to end: the account of a user changes only by an attempt that was
\* started for that user, which connects once at most, or by a removal.  Neither
\* part shows it alone: the state service knows no accounts, and the account
\* storage takes the user it is given.
Attempts == {w.state : w \in stored}

B == INSTANCE Binding WITH owner <- S!Owner, bound <- Attempts, account <- A!Account

BindingSpec == B!Spec

\* Every account a login has stored was consented to, in a login of that user which
\* came back with a state token drawn for the user, tested before it expired, and
\* stored once: what the callback was told before its first call to Google still
\* holds of what it writes after the last.
StoredAsStarted ==
    /\ stored \subseteq Entry
    /\ \A w \in stored :
          /\ S!Accepted(w.login) /\ cb[w.login].state = w.state
          /\ issued[w.state].user = w.user
          /\ cb[w.login].checked <= issued[w.state].expires
          /\ w.email \in consented[w.user]
    /\ \A v, w \in stored : v.state = w.state => v = w

--------------------------------------------------------------------------------
\* README.md: the callback "stores the account, redirects to" the page with
\* auth=success.  A login whose UPDATE matches no row, because the user was removed
\* since its SELECT, stores nothing; it still reports success when another login of
\* the user has stored a row before its last SELECT.
SuccessIsStored ==
    \A c \in Logins : A!At(c, "success") => \E w \in stored : w.login = c

================================================================================
