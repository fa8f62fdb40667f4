------------------------------ MODULE MCDisplay ------------------------------
(* Small instances of Display for TLC. *)
EXTENDS Display, TLC

\* Requests and droppings are interchangeable (safety runs only).
Symmetry == Permutations(Req) \cup Permutations(Dropper)

\* Bound: a behaviour records or drops a call, not both.
EitherInit ==
  /\ Init
  /\ presses = 0 <=> \A d \in Dropper : drop[d] = "done"

EitherSpec == EitherInit /\ [][Next]_vars
=============================================================================
