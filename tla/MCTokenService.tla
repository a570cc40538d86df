---------------------------- MODULE MCTokenService ----------------------------
(***************************************************************************)
(* TokenService on small instances.  Requests are interchangeable, and so  *)
(* are users, emails and refresh tokens of one account: no definition      *)
(* names or orders them.                                                   *)
(***************************************************************************)
EXTENDS TokenService, TLC

MCSymmetry ==
    Permutations(Reqs) \cup Permutations(Users) \cup Permutations(Emails)
        \cup Permutations(Gens)

================================================================================
