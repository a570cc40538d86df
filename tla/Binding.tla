-------------------------------- MODULE Binding --------------------------------
(***************************************************************************)
(* What connecting a Google account promises from end to end, without      *)
(* tables, requests, tokens or clocks: a user is connected only by an      *)
(* attempt that was started for that user, an attempt connects once at     *)
(* most, and only another attempt or a removal changes what is connected.  *)
(* It is what README.md says of GET /auth-url and GET /callback together   *)
(* ("validates the signed PKCE-bound state, exchanges the code, stores the *)
(* account") and core/oauthstate.go:61-65 of cross-user account binding.   *)
(***************************************************************************)
CONSTANTS
    States,   \* the attempts, by the state token that stands for them
    Users,    \* application-level user ids
    Emails,   \* Google accounts
    Nobody,   \* the owner of an attempt that was never started
    NoEmail   \* "no account"

VARIABLES
    owner,    \* owner[s]: the user attempt s was started for
    bound,    \* the attempts that have connected an account
    account   \* account[u]: the Google account u is connected to

vars == <<owner, bound, account>>

Init ==
    /\ owner = [s \in States |-> Nobody]
    /\ bound = {}
    /\ account \in [Users -> Emails \cup {NoEmail}]

Start(s, u) ==
    /\ owner[s] = Nobody
    /\ owner' = [owner EXCEPT ![s] = u]
    /\ UNCHANGED <<bound, account>>

Bind(s, e) ==
    /\ owner[s] # Nobody
    /\ s \notin bound
    /\ account' = [account EXCEPT ![owner[s]] = e]
    /\ bound' = bound \cup {s}
    /\ UNCHANGED owner

Unbind(u) ==
    /\ account' = [account EXCEPT ![u] = NoEmail]
    /\ UNCHANGED <<owner, bound>>

Next ==
    \/ \E s \in States, u \in Users : Start(s, u)
    \/ \E s \in States, e \in Emails : Bind(s, e)
    \/ \E u \in Users : Unbind(u)

Spec == Init /\ [][Next]_vars

================================================================================
