--------------------------- MODULE MCIdempotency ---------------------------
(* Idempotency on small sets of interchangeable calls and bodies. *)
EXTENDS Idempotency, TLC

CallSymmetry == Permutations(Calls) \cup Permutations(Bodies)
=============================================================================
