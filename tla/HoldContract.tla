---------------------------- MODULE HoldContract ----------------------------
(***************************************************************************)
(* What the daemon promises about a held call, whatever runs beside it     *)
(* (the hold queue of crates/cosmo-gate and the two confirmation paths of  *)
(* crates/cosmo-daemon/src/engine.rs): it is parked once; while it waits,  *)
(* one confirmation may take it or one cancellation may drop it, never     *)
(* both; what was taken is run, once; what was dropped is never run.       *)
(***************************************************************************)
CONSTANT Call         \* the calls that may be parked

VARIABLE status       \* where each call stands

Status == {"unborn", "held", "taken", "run", "dropped"}

HoldTypeOK == status \in [Call -> Status]

HoldInit == status = [c \in Call |-> "unborn"]

Move(c, from, to) == status[c] = from /\ status' = [status EXCEPT ![c] = to]

ParkCall(c) == Move(c, "unborn", "held")
Take(c)     == Move(c, "held", "taken")
Drop(c)     == Move(c, "held", "dropped")
Run(c)      == Move(c, "taken", "run")

HoldNext == \E c \in Call : ParkCall(c) \/ Take(c) \/ Drop(c) \/ Run(c)

HoldSafety == HoldInit /\ [][HoldNext]_status

\* A call the user approved is run.
HoldFairness == \A c \in Call : WF_status(Run(c))

HoldSpec == HoldSafety /\ HoldFairness
=============================================================================
