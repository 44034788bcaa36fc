-------------------------- MODULE MCLoginAttempts --------------------------
(* LoginAttempts with interchangeable attempts. *)
EXTENDS LoginAttempts, TLC

AttemptSymmetry == Permutations(Attempts)
=============================================================================
