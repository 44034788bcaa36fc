---------------------------- MODULE MCLoginPath ----------------------------
(* LoginPath with interchangeable calls. *)
EXTENDS LoginPath, TLC

AttemptSymmetry == Permutations(Attempts)
=============================================================================
