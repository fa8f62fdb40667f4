------------------------------- MODULE MCTurns -------------------------------
(* Small instances of Turns for TLC. *)
EXTENDS Turns, TLC

\* Requests, switches and providers are interchangeable (safety runs only).
Symmetry == Permutations(Req) \cup Permutations(Switcher) \cup Permutations(Provider)
=============================================================================
