-------------------------------- MODULE MCLogin --------------------------------
(***************************************************************************)
(* Login on a small instance.  Users, state tokens, Google accounts and    *)
(* callbacks are interchangeable: no definition names or orders them.      *)
(***************************************************************************)
EXTENDS Login, TLC

MCSymmetry ==
    Permutations(Users) \cup Permutations(States) \cup Permutations(Emails)
        \cup Permutations(Logins)

\* Bound: the clock moves only where no other request has arrived, so that the
\* expiry of a login's state is met by logins alone.
MCBound == now = 0 \/ \A r \in Others : req[r].pc = "idle"

================================================================================
