------------------------------ MODULE AccountBook ------------------------------
(***************************************************************************)
(* What account storage promises, without rows, tokens, SQL or requests:   *)
(* each user has at most one Google account ("one Google account per       *)
(* userID", core/tokenservice.go:39-40); it is the one of some consent the *)
(* user's browser brought back from Google, each consent connects once at  *)
(* most, and nothing but a consent connects or replaces an account.        *)
(***************************************************************************)
CONSTANTS
    Users,    \* application-level user ids
    Emails,   \* Google accounts
    Reqs,     \* requests; a consent belongs to the request that obtained it
    NoEmail   \* "no account"

VARIABLES
    account,  \* account[u]: the Google account u is connected to
    pending   \* consents not used yet: <<request, user, account>>

vars == <<account, pending>>

Consents == Reqs \X Users \X Emails

Init ==
    /\ account \in [Users -> Emails \cup {NoEmail}]
    /\ pending = {}

\* Google confirms that the user of r has consented for e.
Consent(r, u, e) ==
    /\ pending' = pending \cup {<<r, u, e>>}
    /\ UNCHANGED account

\* A consent is used up: its account replaces whatever u was connected to.
Connect(r, u, e) ==
    /\ <<r, u, e>> \in pending
    /\ account' = [account EXCEPT ![u] = e]
    /\ pending' = pending \ {<<r, u, e>>}

\* Consents are lost: a failed write, a crash.
Drop ==
    /\ pending' \in SUBSET pending
    /\ UNCHANGED account

Disconnect(u) ==
    /\ account' = [account EXCEPT ![u] = NoEmail]
    /\ UNCHANGED pending

Next ==
    \/ \E r \in Reqs, u \in Users, e \in Emails : Consent(r, u, e) \/ Connect(r, u, e)
    \/ Drop
    \/ \E u \in Users : Disconnect(u)

Spec == Init /\ [][Next]_vars

================================================================================
