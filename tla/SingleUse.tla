------------------------------- MODULE SingleUse -------------------------------
(***************************************************************************)
(* What the OAuth state service promises, without tables, clocks, requests *)
(* or restarts: a state token is handed out once, for one user, and is     *)
(* redeemed at most once, for exactly that user.  This is the promise      *)
(* stated in core/oauthstate.go:61-65 ("single-use OAuth transactions ...  *)
(* this is what prevents OAuth login CSRF and cross-user account binding").*)
(***************************************************************************)
CONSTANTS
    States,   \* the state tokens GenerateState can draw
    Users,    \* application-level user ids
    Logins,   \* who may redeem: the callback requests
    Nobody    \* the owner of a token that was never handed out; not a user

VARIABLES
    owner,    \* owner[s]: the user token s was handed out for
    redeemed  \* which login proceeds by which token, and for whom

vars == <<owner, redeemed>>

TypeOK ==
    /\ owner \in [States -> Users \cup {Nobody}]
    /\ redeemed \in SUBSET (Logins \X States \X Users)

Init ==
    /\ owner = [s \in States |-> Nobody]
    /\ redeemed = {}

Issue(s, u) ==
    /\ owner[s] = Nobody
    /\ owner' = [owner EXCEPT ![s] = u]
    /\ UNCHANGED redeemed

Redeem(l, s) ==
    /\ owner[s] # Nobody
    /\ \A p \in redeemed : p[2] # s
    /\ redeemed' = redeemed \cup {<<l, s, owner[s]>>}
    /\ UNCHANGED owner

Next ==
    \/ \E s \in States, u \in Users : Issue(s, u)
    \/ \E l \in Logins, s \in States : Redeem(l, s)

Spec == Init /\ [][Next]_vars

================================================================================
