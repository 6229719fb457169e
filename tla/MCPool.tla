------------------------------- MODULE MCPool -------------------------------
(* Small instances of Pool.  Goroutines, names and models are interchangeable. *)
EXTENDS Pool, TLC

Symmetry == Permutations(Thread) \cup Permutations(Name) \cup Permutations(Model)
=============================================================================
