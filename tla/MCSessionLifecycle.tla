------------------------ MODULE MCSessionLifecycle -------------------------
(* SessionLifecycle on small sets of interchangeable requests. *)
EXTENDS SessionLifecycle, TLC

RequestSymmetry ==
    Permutations(Logins) \cup Permutations(Refreshes) \cup Permutations(Logouts)
=============================================================================
