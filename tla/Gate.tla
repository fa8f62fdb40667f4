-------------------------------- MODULE Gate --------------------------------
(***************************************************************************)
(* The policy gate of crates/cosmo-gate: the hold queue, the user-turn     *)
(* counter, the session lock state and the verdict on one tool call.       *)
(* The module has no next-state relation of its own: the gate is a passive *)
(* object, and each operator below is one access to it, atomic because it  *)
(* takes one lock or touches one atomic.  A call of its interface that     *)
(* makes two accesses (park and the two confirmations read the turn number *)
(* first) is two steps of Turns, which drives the gate.                    *)
(*                                                                         *)
(* Abstractions.  A tool call is its policy class: what the annotations,   *)
(* the command matcher and the clipboard arm say of it is BaseVerdict.     *)
(* A confirmation token is the call's sequence number (next_token is a     *)
(* bijection of a counter, so tokens are distinct).  "Oldest" orders by    *)
(* (parked_at_ms, seq); with a clock that does not step back between two   *)
(* parks that is the order of seq.                                         *)
(***************************************************************************)
EXTENDS Naturals

CONSTANTS
  AllowTools,       \* calls the gate lets run
  HoldTools,        \* calls it parks for a local confirmation
  DenyTools,        \* calls it never lets run
  SensitiveTools    \* calls that also need an unlocked session

Tool == AllowTools \cup HoldTools \cup DenyTools

ASSUME GateAssumption ==
  /\ AllowTools \cap HoldTools = {}
  /\ AllowTools \cap DenyTools = {}
  /\ HoldTools \cap DenyTools = {}
  /\ SensitiveTools \subseteq Tool

VARIABLES
  holds,            \* the parked calls
  turn,             \* the user-turn counter
  nextSeq,          \* the sequence number of the next parked call
  lock              \* what the gate believes of the session lock

gateVars == <<holds, turn, nextSeq, lock>>

LockState  == {"unlocked", "locked", "unknown"}
Source     == {"Typed", "KeyHeld", "OpenMic"}
Verdict    == {"allow", "hold", "deny"}
ParkedCall == [seq : Nat, turn : Nat, tool : Tool]

GateTypeOK ==
  /\ holds \in SUBSET ParkedCall
  /\ turn \in Nat
  /\ nextSeq \in Nat
  /\ lock \in LockState

GateInit ==
  /\ holds = {}
  /\ turn = 0
  /\ nextSeq = 0
  /\ lock = "unknown"

-----------------------------------------------------------------------------
(* Verdicts *)

BaseVerdict(tool) ==
  CASE tool \in AllowTools -> "allow"
    [] tool \in HoldTools  -> "hold"
    [] OTHER               -> "deny"

VerdictForCall(tool) ==
  IF tool \in SensitiveTools /\ lock # "unlocked" THEN "deny" ELSE BaseVerdict(tool)

\* A call that is not plainly allowed, in a response whose text itself holds
\* confirmation language, is denied.
SameResponseVerdict(confirming, verdict) ==
  IF verdict # "allow" /\ confirming THEN "deny" ELSE verdict

MayConfirm(source) == source # "OpenMic"

-----------------------------------------------------------------------------
(* The hold queue *)

\* Mutant: the turn check is dropped.
EligibleAnyTurn(current) == holds

\* The holds a confirmation that read turn number `current` may resolve.
Eligible(current) == {p \in holds : p.turn # current}

Oldest(calls) == {p \in calls : \A q \in calls : p.seq <= q.seq}

BeginTurn == turn' = turn + 1

\* Mutant: the call is handed over and stays in the queue.
RemoveKeeps(p) == p \in holds /\ UNCHANGED holds

Remove(p) == p \in holds /\ holds' = holds \ {p}

\* The call is parked under turn number `read`.  (Its sequence number is taken
\* under the lock before; only the turn that holds the reasoner parks, so
\* nothing can tell the two apart.)
Park(tool, read) ==
  /\ holds' = holds \cup {[seq |-> nextSeq, turn |-> read, tool |-> tool]}
  /\ nextSeq' = nextSeq + 1

SetLockState(s) == lock' = s
=============================================================================
