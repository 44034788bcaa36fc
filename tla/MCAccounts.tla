----------------------------- MODULE MCAccounts -----------------------------
(* AccountLifecycle on small sets of interchangeable requests. *)
EXTENDS AccountLifecycle, TLC

RequestSymmetry ==
    Permutations(Registrations) \cup Permutations(Verifications)
        \cup Permutations(Callbacks) \cup Permutations(States) \cup Permutations(Subjects)
=============================================================================
