------------------------------- MODULE MCStartup -------------------------------
(***************************************************************************)
(* Values for model-checking Startup: no definition names a process, a     *)
(* key or a user.  The migrations are the three files of core/migrations,  *)
(* of which the first only creates what does not exist.                    *)
(***************************************************************************)
EXTENDS Startup, TLC

MCSymmetry == Permutations(Procs) \cup Permutations(Keys) \cup Permutations(Users)

================================================================================
