----------------------------- MODULE MCMasterKey -----------------------------
(***************************************************************************)
(* Values for model-checking MasterKey: no definition names a process, a   *)
(* key or a user.                                                          *)
(***************************************************************************)
EXTENDS MasterKey, TLC

MCSymmetry == Permutations(Procs) \cup Permutations(Keys) \cup Permutations(Users)

================================================================================
