----------------------------- MODULE TurnsProofs -----------------------------
(***************************************************************************)
(* Theorems about Turns, for every set of requests, tools, providers and   *)
(* switches: the request handlers keep their types; every held call that   *)
(* runs was approved and runs once; what a turn leaves behind, which is    *)
(* the stored conversation, the holds of a cancelled turn, and the         *)
(* reasoner's client after provider switches; and Turns as an              *)
(* implementation of HoldContract.                                         *)
(***************************************************************************)
EXTENDS Turns, TLAPS

-----------------------------------------------------------------------------
(* Lemmas about the locals of a handler *)

LEMMA FreshIsLocal == Fresh \in Locals
  BY DEF Fresh, Locals

LEMMA SetBargeAt ==
  ASSUME NEW l \in Locals, NEW n \in Nat PROVE [l EXCEPT !.bargeAt = n] \in Locals
  BY DEF Locals

LEMMA SetLoaded ==
  ASSUME NEW l \in Locals, NEW n \in Nat PROVE [l EXCEPT !.loaded = n] \in Locals
  BY DEF Locals

LEMMA SetTaken ==
  ASSUME NEW l \in Locals, NEW p \in ParkedCall PROVE [l EXCEPT !.taken = {p}] \in Locals
  BY DEF Locals

LEMMA SetTodo ==
  ASSUME NEW l \in Locals, NEW s \in Seq(Tool) PROVE [l EXCEPT !.todo = s] \in Locals
  BY DEF Locals

LEMMA SetRound ==
  ASSUME NEW l \in Locals, NEW n \in Nat PROVE [l EXCEPT !.round = n] \in Locals
  BY DEF Locals

LEMMA SetConfirming ==
  ASSUME NEW l \in Locals, NEW b \in BOOLEAN PROVE [l EXCEPT !.confirming = b] \in Locals
  BY DEF Locals

LEMMA SetCopy ==
  ASSUME NEW l \in Locals, NEW s \in Seq(Exchange) PROVE [l EXCEPT !.copy = s] \in Locals
  BY DEF Locals

\* A request's locals replaced as a whole.
LEMMA SetLocal ==
  ASSUME local \in [Req -> Locals], NEW r \in Req, NEW l \in Locals
  PROVE  [local EXCEPT ![r] = l] \in [Req -> Locals]
  OBVIOUS

LEMMA GotoTypes ==
  ASSUME ControlTypeOK, NEW r \in Req, NEW from, NEW to \in PC, Goto(r, from, to)
  PROVE  pc' \in [Req -> PC] /\ outcome' \in [Req -> Outcome]
  BY DEF ControlTypeOK, Goto

LEMMA ReturnTypes ==
  ASSUME ControlTypeOK, NEW r \in Req, NEW from, NEW o \in Outcome, Return(r, from, o)
  PROVE  ControlTypeOK'
  BY FreshIsLocal DEF ControlTypeOK, Return, PC

LEMMA LoopEndsTypes ==
  ASSUME ControlTypeOK, ReasonerTypeOK, client \in Provider, NEW r \in Req, NEW from,
         NEW o \in Outcome, LoopEnds(r, from, o)
  PROVE  ControlTypeOK'
  <1> DEFINE x == [by |-> r, provider |-> client]
             c == Append(local[r].copy, x)
  <1>1. local[r].copy \in Seq(Exchange)
    BY DEF ControlTypeOK, Locals
  <1>2. x \in Exchange
    BY DEF Exchange
  <1>3. c \in Seq(Exchange)
    BY <1>1, <1>2
  <1>4. [Fresh EXCEPT !.copy = c] \in Locals
    BY <1>3, FreshIsLocal, SetCopy
  <1>5. local' \in [Req -> Locals]
    BY <1>4, SetLocal DEF LoopEnds, ControlTypeOK
  <1> QED
    BY <1>5 DEF LoopEnds, ControlTypeOK, PC

-----------------------------------------------------------------------------
(* Type correctness, with the mutex invariant it needs: the exchange a turn *)
(* records names the client's provider, which exists while the mutex is held *)

TypeInv == TypeOK /\ LoopHoldsReasoner

LEMMA TypeInit ==
  ASSUME TurnsAssumption, Init PROVE TypeInv
  <1>1. GateTypeOK
    BY DEF Init, GateInit, GateTypeOK, LockState
  <1>2. ControlTypeOK
    BY FreshIsLocal DEF Init, ControlTypeOK, PC, Outcome
  <1>3. RequestTypeOK
    BY DEF Init, RequestTypeOK, Kind, Source
  <1>4. ReasonerTypeOK
    BY DEF Init, ReasonerTypeOK
  <1>5. GhostTypeOK
    BY DEF Init, GhostTypeOK
  <1>6. LoopHoldsReasoner
    BY DEF Init, LoopHoldsReasoner, InLoop
  <1> QED
    BY <1>1, <1>2, <1>3, <1>4, <1>5, <1>6 DEF TypeInv, TypeOK, Init

\* A step of one request that leaves the mutex and the client alone, and does
\* not enter the loop, keeps the mutex invariant.
LEMMA SlotKept ==
  ASSUME ControlTypeOK, LoopHoldsReasoner, NEW r \in Req, NEW to,
         pc' = [pc EXCEPT ![r] = to], to \in InLoop => pc[r] \in InLoop,
         UNCHANGED <<slot, client>>
  PROVE  LoopHoldsReasoner'
  BY DEF LoopHoldsReasoner, ControlTypeOK

\* A step by which the holder of the mutex gives it back.
LEMMA SlotGiven ==
  ASSUME TurnsAssumption, ControlTypeOK, LoopHoldsReasoner, NEW r \in Req, NEW to, to \notin InLoop,
         pc[r] \in InLoop, pc' = [pc EXCEPT ![r] = to], slot' = None, UNCHANGED client
  PROVE  LoopHoldsReasoner'
  BY DEF LoopHoldsReasoner, ControlTypeOK, TurnsAssumption

Frame == <<gateVars, requestVars, reasonerVars, history, ghostVars, attached, barge>>

\* A step that changes only one request's control and locals.
LEMMA ControlStep ==
  ASSUME TypeInv, NEW r \in Req, NEW to, pc' = [pc EXCEPT ![r] = to],
         to \in InLoop => pc[r] \in InLoop, ControlTypeOK', UNCHANGED Frame
  PROVE  TypeInv'
  <1>1. LoopHoldsReasoner'
    BY SlotKept DEF TypeInv, TypeOK, Frame, reasonerVars
  <1>2. TypeOK'
    BY DEF TypeInv, TypeOK, Frame, gateVars, requestVars, reasonerVars, switchVars, ghostVars,
       GateTypeOK, RequestTypeOK, ReasonerTypeOK, GhostTypeOK
  <1> QED
    BY <1>1, <1>2 DEF TypeInv

\* The same for a step that returns.
LEMMA ReturnStep ==
  ASSUME TypeInv, NEW r \in Req, NEW from, NEW o \in Outcome, Return(r, from, o), UNCHANGED Frame
  PROVE  TypeInv'
  <1>1. ControlTypeOK'
    BY ReturnTypes DEF TypeInv, TypeOK
  <1> QED
    BY <1>1, ControlStep DEF Return, InLoop

\* The same for a step that goes on and keeps its locals.
LEMMA GotoStep ==
  ASSUME TypeInv, NEW r \in Req, NEW from, NEW to \in PC, Goto(r, from, to),
         to \in InLoop => from \in InLoop, local' \in [Req -> Locals], UNCHANGED Frame
  PROVE  TypeInv'
  <1>1. ControlTypeOK'
    BY GotoTypes DEF TypeInv, TypeOK, ControlTypeOK
  <1> QED
    BY <1>1, ControlStep DEF Goto

\* The same for a step that goes on and changes its locals.
LEMMA LocalStep ==
  ASSUME TypeInv, NEW r \in Req, NEW from, NEW to \in PC, Goto(r, from, to),
         to \in InLoop => from \in InLoop, NEW l \in Locals,
         local' = [local EXCEPT ![r] = l], UNCHANGED Frame
  PROVE  TypeInv'
  <1>1. local' \in [Req -> Locals]
    BY SetLocal DEF TypeInv, TypeOK, ControlTypeOK
  <1> QED
    BY <1>1, GotoStep

\* A step that ends the tool loop: the turn still holds the mutex.
LEMMA LoopEndsStep ==
  ASSUME TypeInv, NEW r \in Req, NEW from \in InLoop, NEW o \in Outcome, LoopEnds(r, from, o)
  PROVE  /\ ControlTypeOK'
         /\ pc' = [pc EXCEPT ![r] = "release"]
         /\ pc[r] \in InLoop
  <1>1. client \in Provider
    BY DEF TypeInv, LoopHoldsReasoner, LoopEnds
  <1> QED
    BY <1>1, LoopEndsTypes DEF TypeInv, TypeOK, LoopEnds

\* What a turn is about to park is a call the gate holds: its verdict was given
\* a step before, and the lock may have changed since.
Parking ==
  \A r \in Req : pc[r] = "park" => local[r].todo # <<>> /\ Head(local[r].todo) \in HoldTools

\* One case for each action of a request.
LEMMA TypeStep ==
  ASSUME TurnsAssumption, TypeInv, Parking, NEW r \in Req, Step(r)
  PROVE  TypeInv'
  <1> DEFINE l == local[r]
  <1>0. /\ l \in Locals /\ turn \in Nat /\ barge \in Nat /\ history \in Seq(Exchange)
        /\ local \in [Req -> Locals] /\ pc \in [Req -> PC]
        /\ l.todo \in Seq(Tool) /\ l.round \in Nat /\ l.copy \in Seq(Exchange)
        /\ l.taken \in SUBSET ParkedCall /\ l.loaded \in Nat
    BY DEF TypeInv, TypeOK, GateTypeOK, ControlTypeOK, ReasonerTypeOK, Locals
  <1>1. CASE BargeIn(r)
    <2>1. ControlTypeOK'
      BY <1>1, <1>0, GotoTypes DEF BargeIn, TypeInv, TypeOK, ControlTypeOK, PC
    <2>2. LoopHoldsReasoner'
      BY <1>1, SlotKept DEF BargeIn, Goto, InLoop, TypeInv, TypeOK, reasonerVars
    <2>3. barge' \in Nat /\ ticket' \in [Req -> Nat]
      BY <1>1, <1>0 DEF BargeIn, TypeInv, TypeOK, GhostTypeOK
    <2> QED
      BY <1>1, <2>1, <2>2, <2>3 DEF BargeIn, TypeInv, TypeOK, gateVars, requestVars,
         reasonerVars, switchVars, GateTypeOK, RequestTypeOK, ReasonerTypeOK, GhostTypeOK
  <1>2. CASE ReadBarge(r)
    <2>1. [l EXCEPT !.bargeAt = barge] \in Locals
      BY <1>0, SetBargeAt
    <2>2. local' = [local EXCEPT ![r] = [l EXCEPT !.bargeAt = barge]]
      BY <1>2 DEF ReadBarge
    <2>3. Goto(r, "readBarge", "begin") /\ UNCHANGED Frame
      BY <1>2 DEF ReadBarge, Frame
    <2>4. "begin" \in PC /\ "begin" \notin InLoop
      BY DEF PC, InLoop
    <2> QED
      BY <2>1, <2>2, <2>3, <2>4, LocalStep
  <1>3. CASE Begin(r)
    <2>1. ControlTypeOK'
      BY <1>3, <1>0, GotoTypes DEF Begin, TypeInv, TypeOK, ControlTypeOK, PC
    <2>2. LoopHoldsReasoner'
      BY <1>3, SlotKept DEF Begin, Goto, InLoop, TypeInv, TypeOK, reasonerVars
    <2>3. GateTypeOK'
      BY <1>3, <1>0 DEF Begin, BeginTurn, TypeInv, TypeOK, GateTypeOK
    <2> QED
      BY <1>3, <2>1, <2>2, <2>3 DEF Begin, TypeInv, TypeOK, requestVars, reasonerVars,
         switchVars, ghostVars, RequestTypeOK, ReasonerTypeOK, GhostTypeOK
  <1>4. CASE NeedsKey(r)
    BY <1>4, ReturnStep DEF NeedsKey, Outcome, Frame
  <1>5. CASE LoadTurn(r)
    <2>1. [l EXCEPT !.loaded = turn] \in Locals
      BY <1>0, SetLoaded
    <2>2. local' = [local EXCEPT ![r] = [l EXCEPT !.loaded = turn]]
      BY <1>5 DEF LoadTurn
    <2>3. Goto(r, "confirm", "resolve") /\ UNCHANGED Frame
      BY <1>5 DEF LoadTurn, Frame
    <2>4. "resolve" \in PC /\ "resolve" \notin InLoop
      BY DEF PC, InLoop
    <2> QED
      BY <2>1, <2>2, <2>3, <2>4, LocalStep
  <1>6. CASE Resolve(r)
    <2>1. PICK p \in Candidates(r) : Remove(p) /\ local' = [local EXCEPT ![r].taken = {p}]
      BY <1>6 DEF Resolve
    <2>2. p \in ParkedCall /\ holds' \in SUBSET ParkedCall
      BY <2>1 DEF Remove, TypeInv, TypeOK, GateTypeOK
    <2>3. [l EXCEPT !.taken = {p}] \in Locals
      BY <1>0, <2>2, SetTaken
    <2>4. local' = [local EXCEPT ![r] = [l EXCEPT !.taken = {p}]]
      BY <2>1
    <2>5. local' \in [Req -> Locals]
      BY <1>0, <2>3, <2>4, SetLocal
    <2>6. ControlTypeOK'
      BY <1>6, <2>5, GotoTypes DEF Resolve, TypeInv, TypeOK, ControlTypeOK, PC
    <2>7. LoopHoldsReasoner'
      BY <1>6, SlotKept DEF Resolve, Goto, InLoop, TypeInv, TypeOK, reasonerVars
    <2> QED
      BY <1>6, <2>2, <2>6, <2>7 DEF Resolve, TypeInv, TypeOK, requestVars,
         reasonerVars, switchVars, ghostVars, GateTypeOK, RequestTypeOK, ReasonerTypeOK,
         GhostTypeOK
  <1>7. CASE UnknownToken(r)
    BY <1>7, ReturnStep DEF UnknownToken, Outcome, Frame
  <1>8. CASE NonePending(r)
    BY <1>8, <1>0, GotoStep DEF NonePending, PC, InLoop, Frame
  <1>9. CASE ExecuteParked(r)
    <2>1. ControlTypeOK'
      BY <1>9, ReturnTypes DEF ExecuteParked, TypeInv, TypeOK, Outcome
    <2>2. LoopHoldsReasoner'
      BY <1>9, SlotKept DEF ExecuteParked, Return, InLoop, TypeInv, TypeOK, reasonerVars
    <2>3. executed' \in SUBSET [call : ParkedCall, by : Req, at : Nat]
      BY <1>9, <1>0 DEF ExecuteParked, TypeInv, TypeOK, GhostTypeOK
    <2> QED
      BY <1>9, <2>1, <2>2, <2>3 DEF ExecuteParked, TypeInv, TypeOK, gateVars, requestVars,
         reasonerVars, switchVars, GateTypeOK, RequestTypeOK, ReasonerTypeOK, GhostTypeOK
  <1>10. CASE NoReflex(r)
    <2>1. CASE attached
      BY <1>10, <1>0, <2>1, GotoStep DEF NoReflex, Escalate, PC, InLoop, Frame
    <2>2. CASE ~attached
      BY <1>10, <2>2, ReturnStep DEF NoReflex, Escalate, Outcome, Frame
    <2> QED
      BY <2>1, <2>2
  <1>11. CASE Reflex(r)
    BY <1>11, <1>0, GotoStep DEF Reflex, PC, InLoop, Frame
  <1>12. CASE ReflexDone(r)
    <2>1. CASE Return(r, "reflexAct", "reflexed")
      BY <1>12, <2>1, ReturnStep DEF ReflexDone, Outcome, Frame
    <2>2. CASE Escalate(r, "reflexAct") /\ attached
      BY <1>12, <1>0, <2>2, GotoStep DEF ReflexDone, Escalate, PC, InLoop, Frame
    <2>3. CASE Escalate(r, "reflexAct") /\ ~attached
      BY <1>12, <2>3, ReturnStep DEF ReflexDone, Escalate, Outcome, Frame
    <2> QED
      BY <1>12, <2>1, <2>2, <2>3 DEF ReflexDone
  <1>13. CASE TakeReasoner(r)
    <2>1. ControlTypeOK'
      BY <1>13, <1>0, GotoTypes DEF TakeReasoner, TypeInv, TypeOK, ControlTypeOK, PC
    <2>2. client' \in Provider /\ slot' = r
      BY <1>13 DEF TakeReasoner, TypeInv, TypeOK, ReasonerTypeOK
    <2>3. LoopHoldsReasoner'
      BY <1>13, <1>0, <2>2 DEF TakeReasoner, Goto, TypeInv, LoopHoldsReasoner, TurnsAssumption
    <2> QED
      BY <1>13, <2>1, <2>2, <2>3 DEF TakeReasoner, TypeInv, TypeOK, gateVars, requestVars,
         switchVars, ghostVars, GateTypeOK, RequestTypeOK, ReasonerTypeOK, GhostTypeOK
  <1>14. CASE NoClient(r)
    BY <1>14, ReturnStep DEF NoClient, Outcome, Frame
  <1>15. CASE Think(r)
    <2>1. [[l EXCEPT !.copy = history] EXCEPT !.round = 1] \in Locals
      BY <1>0, SetCopy, SetRound
    <2>2. local' = [local EXCEPT ![r] = [[l EXCEPT !.copy = history] EXCEPT !.round = 1]]
      BY <1>15, <1>0 DEF Think, Locals
    <2>3. Goto(r, "context", "model") /\ UNCHANGED Frame
      BY <1>15 DEF Think, Frame
    <2>4. "model" \in PC /\ "context" \in InLoop
      BY DEF PC, InLoop
    <2> QED
      BY <2>1, <2>2, <2>3, <2>4, LocalStep
  <1>16. CASE Cancel(r)
    <2>1. PICK from \in {"model", "tool"} : Return(r, from, "interrupted")
      BY <1>16 DEF Cancel
    <2>2. ControlTypeOK'
      BY <2>1, ReturnTypes DEF TypeInv, TypeOK, Outcome
    <2>3. LoopHoldsReasoner'
      BY <1>16, <2>1, SlotGiven DEF Cancel, Return, InLoop, TypeInv, TypeOK
    <2>4. ReasonerTypeOK'
      BY <1>16 DEF Cancel, TypeInv, TypeOK, switchVars, ReasonerTypeOK
    <2> QED
      BY <1>16, <2>2, <2>3, <2>4 DEF Cancel, TypeInv, TypeOK, gateVars, requestVars,
         ghostVars, GateTypeOK, RequestTypeOK, GhostTypeOK
  <1>17. CASE ModelEnds(r)
    <2>1. PICK o \in {"reply", "error"} : LoopEnds(r, "model", o)
      BY <1>17 DEF ModelEnds
    <2>2. "model" \in InLoop /\ o \in Outcome
      BY DEF InLoop, Outcome
    <2>3. UNCHANGED Frame
      BY <1>17 DEF ModelEnds, Frame
    <2> QED
      BY <2>1, <2>2, <2>3, LoopEndsStep, ControlStep
  <1>18. CASE ModelCalls(r)
    <2>1. PICK calls \in Responses, c \in BOOLEAN :
            local' = [local EXCEPT ![r].todo = calls, ![r].confirming = c]
      BY <1>18 DEF ModelCalls
    <2>2. calls \in Seq(Tool)
      BY <2>1 DEF Responses
    <2>3. [[l EXCEPT !.todo = calls] EXCEPT !.confirming = c] \in Locals
      BY <1>0, <2>2, SetTodo, SetConfirming
    <2>4. local' = [local EXCEPT ![r] = [[l EXCEPT !.todo = calls] EXCEPT !.confirming = c]]
      BY <2>1, <1>0 DEF Locals
    <2>5. Goto(r, "model", "calls") /\ UNCHANGED Frame
      BY <1>18 DEF ModelCalls, Frame
    <2>6. "calls" \in PC /\ "model" \in InLoop
      BY DEF PC, InLoop
    <2> QED
      BY <2>3, <2>4, <2>5, <2>6, LocalStep
  <1>19. CASE NextRound(r)
    <2>1. UNCHANGED Frame
      BY <1>19 DEF NextRound, Frame
    <2>2. CASE LoopEnds(r, "calls", "reply")
      <3>1. "calls" \in InLoop /\ "reply" \in Outcome
        BY DEF InLoop, Outcome
      <3> QED
        BY <2>1, <2>2, <3>1, LoopEndsStep, ControlStep
    <2>3. CASE /\ Goto(r, "calls", "model")
               /\ local' = [local EXCEPT ![r].round = @ + 1, ![r].confirming = FALSE]
      <3>1. [[l EXCEPT !.round = l.round + 1] EXCEPT !.confirming = FALSE] \in Locals
        <4>1. l.round + 1 \in Nat
          BY <1>0
        <4> QED
          BY <4>1, <1>0, SetRound, SetConfirming
      <3>2. local' = [local EXCEPT ![r] =
                        [[l EXCEPT !.round = l.round + 1] EXCEPT !.confirming = FALSE]]
        BY <2>3, <1>0 DEF Locals
      <3>3. "model" \in PC /\ "calls" \in InLoop
        BY DEF PC, InLoop
      <3> QED
        BY <2>1, <2>3, <3>1, <3>2, <3>3, LocalStep
    <2> QED
      BY <1>19, <2>2, <2>3 DEF NextRound
  <1>20. CASE Refuse(r) \/ RunTool(r)
    <2>1. PICK to \in {"calls", "tool"} : Goto(r, "calls", to)
      BY <1>20 DEF Refuse, RunTool
    <2>2. Tail(l.todo) \in Seq(Tool)
      BY <1>20, <1>0 DEF Refuse, RunTool
    <2>3. [l EXCEPT !.todo = Tail(l.todo)] \in Locals
      BY <1>0, <2>2, SetTodo
    <2>4. /\ local' = [local EXCEPT ![r] = [l EXCEPT !.todo = Tail(l.todo)]]
          /\ UNCHANGED Frame
      BY <1>20, <1>0 DEF Refuse, RunTool, Frame
    <2>5. to \in PC /\ "calls" \in InLoop
      BY DEF PC, InLoop
    <2> QED
      BY <2>1, <2>3, <2>4, <2>5, LocalStep
  <1>21. CASE ToolDone(r)
    BY <1>21, <1>0, GotoStep DEF ToolDone, PC, InLoop, Frame
  <1>22. CASE HoldReads(r)
    <2>1. [l EXCEPT !.loaded = turn] \in Locals
      BY <1>0, SetLoaded
    <2>2. local' = [local EXCEPT ![r] = [l EXCEPT !.loaded = turn]]
      BY <1>22 DEF HoldReads
    <2>3. Goto(r, "calls", "park") /\ UNCHANGED Frame
      BY <1>22 DEF HoldReads, Frame
    <2>4. "park" \in PC /\ "calls" \in InLoop
      BY DEF PC, InLoop
    <2> QED
      BY <2>1, <2>2, <2>3, <2>4, LocalStep
  <1>23. CASE Hold(r)
    <2>1. LoopEnds(r, "park", "held")
      BY <1>23 DEF Hold
    <2>2. "park" \in InLoop /\ "held" \in Outcome
      BY DEF InLoop, Outcome
    <2>3. ControlTypeOK' /\ pc' = [pc EXCEPT ![r] = "release"] /\ pc[r] \in InLoop
      BY <2>1, <2>2, LoopEndsStep
    <2>4. LoopHoldsReasoner'
      BY <1>23, <2>3, SlotKept DEF Hold, TypeInv, TypeOK, reasonerVars
    <2>5. Head(l.todo) \in Tool
      BY <2>1 DEF LoopEnds, Parking, Tool
    <2>6. GateTypeOK'
      BY <1>23, <2>5, <1>0 DEF Hold, Park, TypeInv, TypeOK, GateTypeOK, ParkedCall
    <2>7. GhostTypeOK'
      BY <1>23 DEF Hold, TypeInv, TypeOK, GateTypeOK, GhostTypeOK
    <2> QED
      BY <1>23, <2>3, <2>4, <2>6, <2>7 DEF Hold, TypeInv, TypeOK, requestVars, reasonerVars,
         switchVars, RequestTypeOK, ReasonerTypeOK
  <1>24. CASE Release(r)
    <2>1. ControlTypeOK'
      BY <1>24, <1>0, GotoTypes DEF Release, TypeInv, TypeOK, ControlTypeOK, PC
    <2>2. LoopHoldsReasoner'
      BY <1>24, SlotGiven DEF Release, Goto, InLoop, TypeInv, TypeOK
    <2>3. ReasonerTypeOK'
      BY <1>24 DEF Release, TypeInv, TypeOK, switchVars, ReasonerTypeOK
    <2> QED
      BY <1>24, <2>1, <2>2, <2>3 DEF Release, TypeInv, TypeOK, gateVars, requestVars,
         ghostVars, GateTypeOK, RequestTypeOK, GhostTypeOK
  <1>25. CASE Persist(r)
    <2>1. outcome[r] \in Outcome
      BY DEF TypeInv, TypeOK, ControlTypeOK
    <2>2. ControlTypeOK'
      BY <1>25, <2>1, ReturnTypes DEF Persist, TypeInv, TypeOK
    <2>3. LoopHoldsReasoner'
      BY <1>25, SlotKept DEF Persist, Return, InLoop, TypeInv, TypeOK, reasonerVars
    <2>4. ReasonerTypeOK'
      BY <1>25, <1>0 DEF Persist, TypeInv, TypeOK, reasonerVars, switchVars, ReasonerTypeOK
    <2> QED
      BY <1>25, <2>2, <2>3, <2>4 DEF Persist, TypeInv, TypeOK, gateVars, requestVars,
         ghostVars, GateTypeOK, RequestTypeOK, GhostTypeOK
  <1> QED
    BY <1>1, <1>2, <1>3, <1>4, <1>5, <1>6, <1>7, <1>8, <1>9, <1>10, <1>11, <1>12, <1>13,
       <1>14, <1>15, <1>16, <1>17, <1>18, <1>19, <1>20, <1>21, <1>22, <1>23, <1>24,
       <1>25
       DEF Step

LEMMA TypeArrive ==
  ASSUME TurnsAssumption, TypeInv, NEW r \in Req, Arrive(r)
  PROVE  TypeInv'
  <1>0. nextSeq \in Nat /\ local \in [Req -> Locals] /\ pc \in [Req -> PC]
    BY DEF TypeInv, TypeOK, GateTypeOK, ControlTypeOK
  <1>1. CASE Say(r)
    <2>1. ControlTypeOK'
      BY <1>1, <1>0, GotoTypes DEF Say, TypeInv, TypeOK, ControlTypeOK, PC
    <2>2. LoopHoldsReasoner'
      BY <1>1, SlotKept DEF Say, Goto, InLoop, TypeInv, TypeOK, reasonerVars
    <2>3. kind' \in [Req -> Kind] /\ source' \in [Req -> Source]
      BY <1>1 DEF Say, TypeInv, TypeOK, RequestTypeOK, TurnsAssumption
    <2> QED
      BY <1>1, <2>1, <2>2, <2>3 DEF Say, TypeInv, TypeOK, gateVars, reasonerVars,
         switchVars, ghostVars, GateTypeOK, RequestTypeOK, ReasonerTypeOK, GhostTypeOK
  <1>2. CASE SayPaused(r)
    BY <1>2, ReturnStep DEF SayPaused, Outcome, Frame
  <1>3. CASE ConfirmToken(r)
    <2>1. ControlTypeOK'
      BY <1>3, <1>0, GotoTypes DEF ConfirmToken, TypeInv, TypeOK, ControlTypeOK, PC
    <2>2. LoopHoldsReasoner'
      BY <1>3, SlotKept DEF ConfirmToken, Goto, InLoop, TypeInv, TypeOK, reasonerVars
    <2>3. kind' \in [Req -> Kind]
      BY <1>3 DEF ConfirmToken, TypeInv, TypeOK, RequestTypeOK, Kind
    <2>4. token' \in [Req -> Nat]
      BY <1>3, <1>0 DEF ConfirmToken, TypeInv, TypeOK, RequestTypeOK, TurnsAssumption
    <2> QED
      BY <1>3, <2>1, <2>2, <2>3, <2>4 DEF ConfirmToken, TypeInv, TypeOK, gateVars,
         reasonerVars, switchVars, ghostVars, GateTypeOK, RequestTypeOK, ReasonerTypeOK,
         GhostTypeOK
  <1> QED
    BY <1>1, <1>2, <1>3 DEF Arrive

\* The steps no request takes leave control, requests and ghosts alone, and at
\* most take the client of a free mutex away.
LEMMA TypeSwitch ==
  ASSUME TurnsAssumption, TypeInv, NEW c \in Switcher, Switch(c)
  PROVE  TypeInv'
  <1>1. UNCHANGED switcherFrame
    BY DEF Switch, CompareProvider, WriteProvider, KeyChanged, ResetClient, ClearHistory
  <1>2. UNCHANGED client \/ (slot = None /\ client' = None)
    BY DEF Switch, CompareProvider, WriteProvider, KeyChanged, ResetClient, ClearHistory
  <1>3. LoopHoldsReasoner'
    BY <1>1, <1>2 DEF switcherFrame, TypeInv, LoopHoldsReasoner, TurnsAssumption
  <1>4. ReasonerTypeOK'
    <2>1. CASE CompareProvider(c)
      BY <1>1, <2>1 DEF CompareProvider, switcherFrame, TypeInv, TypeOK, ReasonerTypeOK
    <2>2. CASE WriteProvider(c)
      BY <1>1, <2>2 DEF WriteProvider, switcherFrame, TypeInv, TypeOK, ReasonerTypeOK
    <2>3. CASE KeyChanged(c)
      BY <1>1, <2>3 DEF KeyChanged, switcherFrame, TypeInv, TypeOK, ReasonerTypeOK
    <2>4. CASE ResetClient(c)
      BY <1>1, <2>4 DEF ResetClient, switcherFrame, TypeInv, TypeOK, ReasonerTypeOK
    <2>5. CASE ClearHistory(c)
      BY <1>1, <2>5 DEF ClearHistory, switcherFrame, TypeInv, TypeOK, ReasonerTypeOK
    <2> QED
      BY <2>1, <2>2, <2>3, <2>4, <2>5 DEF Switch
  <1> QED
    BY <1>1, <1>3, <1>4 DEF switcherFrame, TypeInv, TypeOK, gateVars, requestVars, ghostVars,
       GateTypeOK, ControlTypeOK, RequestTypeOK, GhostTypeOK

\* A request or a switch dropped with its client: what it held of the mutex goes
\* with it.
LEMMA TypeDisconnect ==
  ASSUME TurnsAssumption, TypeInv, NEW r \in Req, Disconnect(r)
  PROVE  TypeInv'
  <1>1. PICK from \in Awaits : Return(r, from, "abandoned")
    BY DEF Disconnect
  <1>2. ControlTypeOK'
    BY <1>1, ReturnTypes DEF TypeInv, TypeOK, Outcome
  <1>3. ReasonerTypeOK'
    BY DEF Disconnect, TypeInv, TypeOK, switchVars, ReasonerTypeOK
  <1>4. \A q \in Req : pc'[q] \in InLoop => q # r /\ pc[q] \in InLoop
    BY <1>1 DEF Return, InLoop, TypeInv, TypeOK, ControlTypeOK
  <1>5. LoopHoldsReasoner'
    BY <1>4 DEF Disconnect, TypeInv, LoopHoldsReasoner
  <1> QED
    BY <1>2, <1>3, <1>5 DEF Disconnect, TypeInv, TypeOK, gateVars, requestVars, ghostVars,
       GateTypeOK, RequestTypeOK, GhostTypeOK

LEMMA TypeDisconnectSwitch ==
  ASSUME TypeInv, NEW c \in Switcher, DisconnectSwitch(c)
  PROVE  TypeInv'
  BY DEF DisconnectSwitch, switcherFrame, TypeInv, TypeOK, LoopHoldsReasoner, gateVars,
     requestVars, ghostVars, GateTypeOK, ControlTypeOK, RequestTypeOK, ReasonerTypeOK, GhostTypeOK

LEMMA TypeEnvironment ==
  ASSUME TurnsAssumption, TypeInv, DropHold \/ LockChanges \/ AttachTools
  PROVE  TypeInv'
  <1>1. UNCHANGED <<turn, nextSeq, requestVars, pc, outcome, local, barge, reasonerVars,
                    history, ghostVars>>
    BY DEF DropHold, LockChanges, AttachTools, gateVars
  <1>2. holds' \in SUBSET ParkedCall
    BY DEF DropHold, LockChanges, AttachTools, gateVars, Remove, TypeInv, TypeOK, GateTypeOK
  <1>3. lock' \in LockState
    BY DEF DropHold, LockChanges, AttachTools, gateVars, SetLockState, TypeInv, TypeOK,
       GateTypeOK, TurnsAssumption
  <1>4. attached' \in BOOLEAN
    BY DEF DropHold, LockChanges, AttachTools, TypeInv, TypeOK
  <1>5. LoopHoldsReasoner'
    BY <1>1 DEF reasonerVars, TypeInv, LoopHoldsReasoner
  <1> QED
    BY <1>1, <1>2, <1>3, <1>4, <1>5 DEF TypeInv, TypeOK, requestVars, reasonerVars,
       switchVars, ghostVars, GateTypeOK, ControlTypeOK, RequestTypeOK, ReasonerTypeOK,
       GhostTypeOK

LEMMA TypeStutter ==
  ASSUME TypeInv, UNCHANGED vars PROVE TypeInv'
  BY DEF vars, TypeInv, TypeOK, gateVars, requestVars, reasonerVars, switchVars, ghostVars,
     GateTypeOK, ControlTypeOK, RequestTypeOK, ReasonerTypeOK, GhostTypeOK, LoopHoldsReasoner

LEMMA TypeNext ==
  ASSUME TurnsAssumption, TypeInv, Parking, [Next]_vars PROVE TypeInv'
  BY TypeStep, TypeArrive, TypeSwitch, TypeDisconnect, TypeDisconnectSwitch, TypeEnvironment,
     TypeStutter DEF Next

\* Only a call the gate holds gets the verdict to hold.
LEMMA HeldIsHoldTool ==
  ASSUME NEW r, NextVerdict(r) = "hold" PROVE Head(local[r].todo) \in HoldTools
  BY DEF NextVerdict, SameResponseVerdict, VerdictForCall, BaseVerdict

\* A step of request r that does not go to "park".
LEMMA NotParking ==
  ASSUME TypeInv, Parking, NEW r \in Req, NEW to, to # "park", pc' = [pc EXCEPT ![r] = to],
         \A q \in Req : q # r => local'[q] = local[q]
  PROVE  Parking'
  BY DEF Parking, TypeInv, TypeOK, ControlTypeOK

LEMMA ParkingNext ==
  ASSUME TypeInv, Parking, [Next]_vars PROVE Parking'
  <1>0. local \in [Req -> Locals]
    BY DEF TypeInv, TypeOK, ControlTypeOK
  <1>1. ASSUME NEW r \in Req, HoldReads(r) PROVE Parking'
    <2>1. Head(local[r].todo) \in HoldTools /\ local[r].todo # <<>>
      BY <1>1, HeldIsHoldTool DEF HoldReads
    <2>2. local'[r].todo = local[r].todo /\ \A q \in Req : q # r => local'[q] = local[q]
      BY <1>0, <1>1 DEF HoldReads, Locals
    <2>3. \A q \in Req : q # r => pc'[q] = pc[q]
      BY <1>1 DEF HoldReads, Goto, TypeInv, TypeOK, ControlTypeOK
    <2> QED
      BY <2>1, <2>2, <2>3 DEF Parking
  <1>2. ASSUME NEW r \in Req, Arrive(r) \/ Disconnect(r) PROVE Parking'
    BY <1>0, <1>2, NotParking DEF Arrive, Say, SayPaused, ConfirmToken, Disconnect, Goto, Return
  <1>3. ASSUME NEW r \in Req, Step(r), ~HoldReads(r) PROVE Parking'
    <2>1. \A q \in Req : q # r => local'[q] = local[q]
      BY <1>0, <1>3 DEF Step, BargeIn, ReadBarge, Begin, NeedsKey, LoadTurn, Resolve,
         UnknownToken, NonePending, ExecuteParked, NoReflex, Reflex, ReflexDone, Escalate,
         TakeReasoner, NoClient, Think, Cancel, ModelEnds, ModelCalls, NextRound, Refuse,
         RunTool, ToolDone, Hold, Release, Persist, Goto, Return, LoopEnds
    <2>2. \E to : to # "park" /\ pc' = [pc EXCEPT ![r] = to]
      BY <1>3 DEF Step, BargeIn, ReadBarge, Begin, NeedsKey, LoadTurn, Resolve,
         UnknownToken, NonePending, ExecuteParked, NoReflex, Reflex, ReflexDone, Escalate,
         TakeReasoner, NoClient, Think, Cancel, ModelEnds, ModelCalls, NextRound, Refuse,
         RunTool, ToolDone, Hold, Release, Persist, Goto, Return, LoopEnds
    <2> QED
      BY <2>1, <2>2, NotParking
  <1>4. CASE UNCHANGED <<pc, local>>
    BY <1>4 DEF Parking
  <1> QED
    BY <1>1, <1>2, <1>3, <1>4 DEF Next, DropHold, LockChanges, AttachTools, Switch,
       CompareProvider, WriteProvider, KeyChanged, ResetClient, ClearHistory, DisconnectSwitch,
       switcherFrame, vars

LEMMA TypeInvariant == Spec => [](TypeInv /\ Parking)
  <1>1. Init => TypeInv /\ Parking
    BY TypeInit, TurnsAssumption DEF Init, Parking
  <1>2. TypeInv /\ Parking /\ [Next]_vars => (TypeInv /\ Parking)'
    BY TypeNext, ParkingNext, TurnsAssumption
  <1> QED
    BY <1>1, <1>2, PTL DEF Spec

\* In every run of the daemon, whatever the requests, every variable has its
\* type.
THEOREM TypeCorrect == Spec => []TypeOK
  <1>1. TypeInv => TypeOK
    BY DEF TypeInv
  <1> QED
    BY <1>1, TypeInvariant, PTL

\* In every run, a turn in the tool loop holds the reasoner's mutex and has a
\* client: two turns never share the reasoner, and no switch takes the client
\* from under a turn.
THEOREM OneTurnInLoop == Spec => []LoopHoldsReasoner
  <1>1. TypeInv => LoopHoldsReasoner
    BY DEF TypeInv
  <1> QED
    BY <1>1, TypeInvariant, PTL

-----------------------------------------------------------------------------
(* Held calls.  ApprovedExecution and SingleUse are not inductive: what they  *)
(* say of a call that runs follows from what holds of it in the queue and in  *)
(* the hands of the request that took it, and from the seqs being distinct.   *)

\* Request r may take a call.
MayTake(r) == kind[r] = "token" \/ (kind[r] = "confirm" /\ MayConfirm(source[r]))

\* A waiting call is one the gate holds, with a sequence number of its own.
Waiting ==
  /\ \A p \in holds : p.tool \in HoldTools /\ p.seq < nextSeq
  /\ \A p, o \in holds : p.seq = o.seq => p = o

\* Only a request that may take calls reaches the queue.
Confirming ==
  \A r \in Req :
    /\ pc[r] = "confirm" => kind[r] \in {"confirm", "token"}
    /\ pc[r] \in {"resolve", "exec"} => MayTake(r)

\* A call that was taken: by whom, when, and what stays true of it.
Taken ==
  \A r \in Req : \A p \in local[r].taken :
    /\ pc[r] = "exec"
    /\ p.tool \in HoldTools
    /\ p.turn # local[r].loaded
    /\ p.seq < nextSeq
    /\ kind[r] = "token" => p.seq = token[r]
    /\ \A o \in local[r].taken : o = p

\* A call that ran was taken by a request that has arrived.
Ran == \A e \in executed : pc[e.by] # "new" /\ e.call.seq < nextSeq

HoldInv ==
  /\ Waiting /\ Confirming /\ Taken /\ Ran
  /\ ApprovedExecution /\ SingleUse

LEMMA HoldInit == ASSUME Init PROVE HoldInv
  <1>1. holds = {} /\ executed = {} /\ \A r \in Req : local[r].taken = {} /\ pc[r] = "new"
    BY DEF Init, GateInit, Fresh
  <1> QED
    BY <1>1 DEF HoldInv, Waiting, Confirming, Taken, Ran, ApprovedExecution, SingleUse

\* A step of request r after which it holds no call, and that takes and parks
\* none: most of the steps.  What r is may be settled as it arrives.
LEMMA QuietStep ==
  ASSUME TypeInv, HoldInv, NEW r \in Req, NEW to, NEW m,
         pc' = [pc EXCEPT ![r] = to], local' = [local EXCEPT ![r] = m], m.taken = {},
         to # "new",
         to = "confirm" => kind'[r] \in {"confirm", "token"},
         to \in {"resolve", "exec"} => MayTake(r)',
         \A q \in Req : pc[q] # "new" => /\ kind'[q] = kind[q]
                                         /\ source'[q] = source[q]
                                         /\ token'[q] = token[q],
         \A q \in Req : q # r => /\ kind'[q] = kind[q]
                                  /\ source'[q] = source[q]
                                  /\ token'[q] = token[q],
         UNCHANGED <<holds, nextSeq, executed>>
  PROVE  HoldInv'
  <1>1. /\ \A q \in Req : q # r => pc'[q] = pc[q] /\ local'[q] = local[q]
        /\ pc'[r] = to /\ local'[r].taken = {}
    BY DEF TypeInv, TypeOK, ControlTypeOK
  <1>2. \A e \in executed : e.by \in Req /\ pc[e.by] # "new"
    BY DEF HoldInv, Ran, TypeInv, TypeOK, GhostTypeOK
  <1>3. Waiting'
    BY DEF HoldInv, Waiting
  <1>4. Confirming'
    BY <1>1 DEF HoldInv, Confirming, MayTake
  <1>5. Taken'
    BY <1>1 DEF HoldInv, Taken
  <1>6. Ran'
    BY <1>1, <1>2 DEF HoldInv, Ran
  <1>7. ApprovedExecution'
    BY <1>2 DEF HoldInv, ApprovedExecution
  <1>8. SingleUse'
    BY <1>1 DEF HoldInv, SingleUse
  <1> QED
    BY <1>3, <1>4, <1>5, <1>6, <1>7, <1>8 DEF HoldInv

\* The same for a step that leaves the requests as they are.
LEMMA QuietGoes ==
  ASSUME TypeInv, HoldInv, NEW r \in Req, NEW to, NEW m,
         pc' = [pc EXCEPT ![r] = to], local' = [local EXCEPT ![r] = m], m.taken = {},
         to \notin {"new", "confirm", "resolve", "exec"},
         UNCHANGED <<holds, nextSeq, executed, kind, source, token>>
  PROVE  HoldInv'
  BY QuietStep

\* The same for a step that returns.
LEMMA QuietReturns ==
  ASSUME TypeInv, HoldInv, NEW r \in Req, NEW from, NEW o, Return(r, from, o),
         UNCHANGED <<holds, nextSeq, executed, kind, source, token>>
  PROVE  HoldInv'
  <1>1. Fresh.taken = {}
    BY DEF Fresh
  <1> QED
    BY <1>1, QuietGoes DEF Return

\* The same for a step that goes on and keeps its locals.
LEMMA QuietKeeps ==
  ASSUME TypeInv, HoldInv, NEW r \in Req, NEW from, NEW to, Goto(r, from, to), from # "exec",
         to \notin {"new", "confirm", "resolve", "exec"},
         UNCHANGED <<local, holds, nextSeq, executed, kind, source, token>>
  PROVE  HoldInv'
  <1>1. local[r].taken = {}
    BY DEF Goto, HoldInv, Taken
  <1>2. local' = [local EXCEPT ![r] = local[r]]
    BY DEF TypeInv, TypeOK, ControlTypeOK
  <1> QED
    BY <1>1, <1>2, QuietGoes DEF Goto

\* The same for a step that ends the tool loop.
LEMMA QuietEnds ==
  ASSUME TypeInv, HoldInv, NEW r \in Req, NEW from, NEW o, LoopEnds(r, from, o),
         UNCHANGED <<holds, nextSeq, executed, kind, source, token>>
  PROVE  HoldInv'
  <1> DEFINE m == [Fresh EXCEPT !.copy = Append(local[r].copy, [by |-> r, provider |-> client])]
  <1>1. m.taken = {}
    BY DEF Fresh
  <1>2. local' = [local EXCEPT ![r] = m] /\ pc' = [pc EXCEPT ![r] = "release"]
    BY DEF LoopEnds
  <1> HIDE DEF m
  <1> QED
    BY <1>1, <1>2, QuietGoes

\* Nothing of a request changes, and the queue at most shrinks.
LEMMA QueueShrinks ==
  ASSUME HoldInv, UNCHANGED <<pc, local, nextSeq, executed, kind, source, token>>,
         holds' \subseteq holds
  PROVE  HoldInv'
  BY DEF HoldInv, Waiting, Confirming, Taken, Ran, ApprovedExecution, SingleUse, MayTake

\* A waiting call is taken: it leaves the queue for the locals of one request.
LEMMA ResolveStep ==
  ASSUME TypeInv, HoldInv, NEW r \in Req, Resolve(r)
  PROVE  HoldInv'
  <1>1. PICK p \in Candidates(r) : Remove(p) /\ local' = [local EXCEPT ![r].taken = {p}]
    BY DEF Resolve
  <1>2. /\ p \in holds /\ holds' = holds \ {p}
        /\ p.turn # local[r].loaded
        /\ kind[r] = "token" => p.seq = token[r]
    BY <1>1 DEF Remove, Candidates, Eligible, Oldest
  <1>3. /\ \A q \in Req : q # r => pc'[q] = pc[q] /\ local'[q] = local[q]
        /\ pc'[r] = "exec" /\ pc[r] = "resolve"
        /\ local'[r].taken = {p} /\ local'[r].loaded = local[r].loaded
    BY <1>1 DEF Resolve, Goto, TypeInv, TypeOK, ControlTypeOK, Locals
  <1>4. UNCHANGED <<turn, nextSeq, kind, source, token, executed>>
    BY DEF Resolve, requestVars, ghostVars
  <1>5. p.tool \in HoldTools /\ p.seq < nextSeq
    BY <1>2 DEF HoldInv, Waiting
  <1>6. MayTake(r)
    BY <1>3 DEF HoldInv, Confirming
  <1>7. Waiting'
    BY <1>2, <1>4 DEF HoldInv, Waiting
  <1>8. Confirming'
    BY <1>3, <1>4, <1>6 DEF HoldInv, Confirming, MayTake
  <1>9. Taken'
    BY <1>2, <1>3, <1>4, <1>5 DEF HoldInv, Taken
  <1>10. Ran'
    <2>1. \A e \in executed : e.by \in Req
      BY DEF TypeInv, TypeOK, GhostTypeOK
    <2> QED
      BY <1>3, <1>4, <2>1 DEF HoldInv, Ran
  <1>11. ApprovedExecution'
    BY <1>4 DEF HoldInv, ApprovedExecution
  <1>12. SingleUse'
    <2>1. \A o \in holds' : o.seq # p.seq
      BY <1>2 DEF HoldInv, Waiting
    <2>2. \A q \in Req : \A o \in local[q].taken : o.seq # p.seq
      BY <1>2 DEF HoldInv, SingleUse
    <2>3. \A e \in executed : e.call.seq # p.seq
      BY <1>2 DEF HoldInv, SingleUse
    <2>4. /\ \A q \in Req : \A o \in local[q].taken : \A h \in holds' : o.seq # h.seq
          /\ \A e \in executed : \A h \in holds' : e.call.seq # h.seq
      BY <1>2 DEF HoldInv, SingleUse
    <2> QED
      BY <1>3, <1>4, <2>1, <2>2, <2>3, <2>4 DEF HoldInv, SingleUse
  <1> QED
    BY <1>7, <1>8, <1>9, <1>10, <1>11, <1>12 DEF HoldInv

\* The taken call is handed to the tool host, and the request returns.
LEMMA ExecuteStep ==
  ASSUME TypeInv, HoldInv, NEW r \in Req, ExecuteParked(r)
  PROVE  HoldInv'
  <1> DEFINE new == {[call |-> p, by |-> r, at |-> local[r].loaded] : p \in local[r].taken}
  <1>1. executed' = executed \cup new
    BY DEF ExecuteParked
  <1>2. /\ \A q \in Req : q # r => pc'[q] = pc[q] /\ local'[q] = local[q]
        /\ pc'[r] = "done" /\ pc[r] = "exec" /\ local'[r].taken = {}
    BY DEF ExecuteParked, Return, TypeInv, TypeOK, ControlTypeOK, Fresh
  <1>3. UNCHANGED <<holds, nextSeq, kind, source, token>>
    BY DEF ExecuteParked, requestVars, gateVars
  <1>4. \A e \in new : /\ e.by = r /\ e.at = local[r].loaded
                        /\ e.call \in local[r].taken
    OBVIOUS
  <1>5. MayTake(r)
    BY <1>2 DEF HoldInv, Confirming
  <1>6. \A e \in executed : e.by \in Req
    BY DEF TypeInv, TypeOK, GhostTypeOK
  <1>7. \A d, e \in new : d = e
    BY DEF HoldInv, Taken
  <1> HIDE DEF new
  <1>8. Waiting'
    BY <1>3 DEF HoldInv, Waiting
  <1>9. Confirming'
    BY <1>2, <1>3 DEF HoldInv, Confirming, MayTake
  <1>10. Taken'
    BY <1>2, <1>3 DEF HoldInv, Taken
  <1>11. Ran'
    <2>1. \A e \in new : pc'[e.by] # "new" /\ e.call.seq < nextSeq
      BY <1>2, <1>4 DEF HoldInv, Taken
    <2>2. \A e \in executed : pc'[e.by] # "new" /\ e.call.seq < nextSeq
      BY <1>2, <1>6 DEF HoldInv, Ran
    <2> QED
      BY <1>1, <1>3, <2>1, <2>2 DEF Ran
  <1>12. ApprovedExecution'
    <2>1. r \in Req /\ source[r] \in Source
      BY DEF TypeInv, TypeOK, RequestTypeOK
    <2>2. \A e \in new :
            /\ e.call.tool \in HoldTools
            /\ e.call.turn # e.at
            /\ kind[r] = "token" => e.call.seq = token[r]
      BY <1>4 DEF HoldInv, Taken
    <2>3. \/ kind[r] = "confirm" /\ source[r] \in {"Typed", "KeyHeld"}
          \/ kind[r] = "token"
      BY <1>5, <2>1 DEF MayTake, MayConfirm, Source
    <2> QED
      BY <1>1, <1>3, <1>4, <2>2, <2>3 DEF HoldInv, ApprovedExecution
  <1>13. SingleUse'
    <2>1. \A q \in Req : q # r => \A p \in local[q].taken, e \in new : p.seq # e.call.seq
      BY <1>4 DEF HoldInv, SingleUse
    <2>2. /\ \A o \in holds, e \in new : o.seq # e.call.seq
          /\ \A d \in executed, e \in new : d.call.seq # e.call.seq
      BY <1>4 DEF HoldInv, SingleUse
    <2> QED
      BY <1>1, <1>2, <1>3, <1>7, <2>1, <2>2 DEF HoldInv, SingleUse
  <1> QED
    BY <1>8, <1>9, <1>10, <1>11, <1>12, <1>13 DEF HoldInv

\* A call is parked, under a sequence number no call has had.
LEMMA HoldStep ==
  ASSUME TypeInv, Parking, HoldInv, NEW r \in Req, Hold(r)
  PROVE  HoldInv'
  <1> DEFINE new == [seq |-> nextSeq, turn |-> local[r].loaded, tool |-> Head(local[r].todo)]
             m == [Fresh EXCEPT !.copy = Append(local[r].copy, [by |-> r, provider |-> client])]
  <1>1. holds' = holds \cup {new} /\ nextSeq' = nextSeq + 1 /\ nextSeq \in Nat
    BY DEF Hold, Park, TypeInv, TypeOK, GateTypeOK
  <1>2. new.seq = nextSeq /\ new.tool \in HoldTools
    BY DEF Hold, LoopEnds, Parking
  <1>3. m.taken = {}
    BY DEF Fresh
  <1> HIDE DEF new, m
  <1>4. local' = [local EXCEPT ![r] = m]
    BY DEF Hold, LoopEnds, m
  <1>5. /\ \A q \in Req : q # r => pc'[q] = pc[q] /\ local'[q] = local[q]
        /\ pc'[r] = "release" /\ local'[r].taken = {}
    BY <1>3, <1>4 DEF Hold, LoopEnds, TypeInv, TypeOK, ControlTypeOK
  <1>6. UNCHANGED <<kind, source, token, executed>>
    BY DEF Hold, requestVars
  <1>7. /\ holds \in SUBSET ParkedCall
        /\ \A e \in executed : e.by \in Req /\ e.call \in ParkedCall
        /\ \A q \in Req : local[q].taken \in SUBSET ParkedCall
    BY DEF TypeInv, TypeOK, GateTypeOK, GhostTypeOK, ControlTypeOK, Locals
  <1>8. /\ \A p \in holds : p.seq \in Nat /\ p.seq < nextSeq
        /\ \A e \in executed : e.call.seq \in Nat /\ e.call.seq < nextSeq
        /\ \A q \in Req : \A p \in local[q].taken : p.seq \in Nat /\ p.seq < nextSeq
    BY <1>7 DEF HoldInv, Waiting, Ran, Taken, ParkedCall
  <1>9. Waiting'
    BY <1>1, <1>2, <1>8 DEF HoldInv, Waiting
  <1>10. Confirming'
    BY <1>5, <1>6 DEF HoldInv, Confirming, MayTake
  <1>11. Taken'
    BY <1>1, <1>5, <1>6, <1>8 DEF HoldInv, Taken
  <1>12. Ran'
    BY <1>1, <1>5, <1>6, <1>7, <1>8 DEF HoldInv, Ran
  <1>13. ApprovedExecution'
    BY <1>6 DEF HoldInv, ApprovedExecution
  <1>14. SingleUse'
    BY <1>1, <1>2, <1>5, <1>6, <1>8 DEF HoldInv, SingleUse
  <1> QED
    BY <1>9, <1>10, <1>11, <1>12, <1>13, <1>14 DEF HoldInv

\* One case for each action of a request.
LEMMA HoldInvStep ==
  ASSUME TypeInv, Parking, HoldInv, NEW r \in Req, Step(r)
  PROVE  HoldInv'
  <1> DEFINE l == local[r]
  <1>0. local \in [Req -> Locals] /\ pc \in [Req -> PC] /\ l \in Locals
    BY DEF TypeInv, TypeOK, ControlTypeOK
  <1>a. l.taken = {} \/ pc[r] = "exec"
    BY DEF HoldInv, Taken
  <1> USE DEF gateVars, requestVars, ghostVars
  <1>1. CASE BargeIn(r)
    BY <1>1, QuietKeeps DEF BargeIn
  <1>2. CASE ReadBarge(r)
    <2>1. local' = [local EXCEPT ![r] = [l EXCEPT !.bargeAt = barge]]
      BY <1>2 DEF ReadBarge
    <2>2. [l EXCEPT !.bargeAt = barge].taken = {}
      BY <1>2, <1>0, <1>a DEF ReadBarge, Goto, Locals
    <2> QED
      BY <1>2, <2>1, <2>2, QuietGoes DEF ReadBarge, Goto
  <1>3. CASE Begin(r)
    <2>1. l.taken = {} /\ local' = [local EXCEPT ![r] = l]
      BY <1>3, <1>0, <1>a DEF Begin, Goto
    <2>2. CASE kind[r] \in {"confirm", "token"}
      BY <1>3, <2>1, <2>2, QuietStep DEF Begin, Goto
    <2>3. CASE kind[r] \notin {"confirm", "token"}
      BY <1>3, <2>1, <2>3, QuietGoes DEF Begin, Goto
    <2> QED
      BY <2>2, <2>3
  <1>4. CASE NeedsKey(r)
    BY <1>4, QuietReturns DEF NeedsKey
  <1>5. CASE LoadTurn(r)
    <2>1. local' = [local EXCEPT ![r] = [l EXCEPT !.loaded = turn]]
      BY <1>5 DEF LoadTurn
    <2>2. [l EXCEPT !.loaded = turn].taken = {}
      BY <1>5, <1>0, <1>a DEF LoadTurn, Goto, Locals
    <2>3. kind[r] \in {"confirm", "token"}
      BY <1>5 DEF LoadTurn, Goto, HoldInv, Confirming
    <2>4. MayTake(r)'
      BY <1>5, <2>3 DEF LoadTurn, MayTake, MayConfirm
    <2> QED
      BY <1>5, <2>1, <2>2, <2>4, QuietStep DEF LoadTurn, Goto
  <1>6. CASE Resolve(r)
    BY <1>6, ResolveStep
  <1>7. CASE UnknownToken(r)
    BY <1>7, QuietReturns DEF UnknownToken
  <1>8. CASE NonePending(r)
    BY <1>8, QuietKeeps DEF NonePending
  <1>9. CASE ExecuteParked(r)
    BY <1>9, ExecuteStep
  <1>10. CASE NoReflex(r)
    BY <1>10, QuietKeeps, QuietReturns DEF NoReflex, Escalate
  <1>11. CASE Reflex(r)
    BY <1>11, QuietKeeps DEF Reflex
  <1>12. CASE ReflexDone(r)
    BY <1>12, QuietKeeps, QuietReturns DEF ReflexDone, Escalate
  <1>13. CASE TakeReasoner(r)
    BY <1>13, QuietKeeps DEF TakeReasoner
  <1>14. CASE NoClient(r)
    BY <1>14, QuietReturns DEF NoClient
  <1>15. CASE Think(r)
    <2> DEFINE m == [[l EXCEPT !.copy = history] EXCEPT !.round = 1]
    <2>1. local' = [local EXCEPT ![r] = m]
      BY <1>15, <1>0 DEF Think, Locals
    <2>2. m.taken = {}
      BY <1>15, <1>0, <1>a DEF Think, Goto, Locals
    <2> HIDE DEF m
    <2> QED
      BY <1>15, <2>1, <2>2, QuietGoes DEF Think, Goto
  <1>16. CASE Cancel(r)
    BY <1>16, QuietReturns DEF Cancel
  <1>17. CASE ModelEnds(r)
    BY <1>17, QuietEnds DEF ModelEnds
  <1>18. CASE ModelCalls(r)
    <2>1. PICK calls \in Responses, c \in BOOLEAN :
            local' = [local EXCEPT ![r].todo = calls, ![r].confirming = c]
      BY <1>18 DEF ModelCalls
    <2> DEFINE m == [[l EXCEPT !.todo = calls] EXCEPT !.confirming = c]
    <2>2. local' = [local EXCEPT ![r] = m]
      BY <2>1, <1>0 DEF Locals
    <2>3. m.taken = {}
      BY <1>18, <1>0, <1>a DEF ModelCalls, Goto, Locals
    <2> HIDE DEF m
    <2> QED
      BY <1>18, <2>2, <2>3, QuietGoes DEF ModelCalls, Goto
  <1>19. CASE NextRound(r)
    <2>1. CASE LoopEnds(r, "calls", "reply")
      BY <1>19, <2>1, QuietEnds DEF NextRound
    <2>2. CASE /\ Goto(r, "calls", "model")
               /\ local' = [local EXCEPT ![r].round = @ + 1, ![r].confirming = FALSE]
      <3> DEFINE m == [[l EXCEPT !.round = l.round + 1] EXCEPT !.confirming = FALSE]
      <3>1. local' = [local EXCEPT ![r] = m]
        BY <2>2, <1>0 DEF Locals
      <3>2. m.taken = {}
        BY <2>2, <1>0, <1>a DEF Goto, Locals
      <3> HIDE DEF m
      <3> QED
        BY <1>19, <2>2, <3>1, <3>2, QuietGoes DEF NextRound, Goto
    <2> QED
      BY <1>19, <2>1, <2>2 DEF NextRound
  <1>20. CASE Refuse(r) \/ RunTool(r)
    <2> DEFINE m == [l EXCEPT !.todo = Tail(l.todo)]
    <2>1. PICK to \in {"calls", "tool"} : Goto(r, "calls", to)
      BY <1>20 DEF Refuse, RunTool
    <2>2. local' = [local EXCEPT ![r] = m]
      BY <1>20, <1>0 DEF Refuse, RunTool
    <2>3. m.taken = {}
      BY <2>1, <1>0, <1>a DEF Goto, Locals
    <2> HIDE DEF m
    <2> QED
      BY <1>20, <2>1, <2>2, <2>3, QuietGoes DEF Refuse, RunTool, Goto
  <1>21. CASE ToolDone(r)
    BY <1>21, QuietKeeps DEF ToolDone
  <1>22. CASE HoldReads(r)
    <2>1. local' = [local EXCEPT ![r] = [l EXCEPT !.loaded = turn]]
      BY <1>22 DEF HoldReads
    <2>2. [l EXCEPT !.loaded = turn].taken = {}
      BY <1>22, <1>0, <1>a DEF HoldReads, Goto, Locals
    <2> QED
      BY <1>22, <2>1, <2>2, QuietGoes DEF HoldReads, Goto
  <1>23. CASE Hold(r)
    BY <1>23, HoldStep
  <1>24. CASE Release(r)
    BY <1>24, QuietKeeps DEF Release
  <1>25. CASE Persist(r)
    BY <1>25, QuietReturns DEF Persist
  <1> QED
    BY <1>1, <1>2, <1>3, <1>4, <1>5, <1>6, <1>7, <1>8, <1>9, <1>10, <1>11, <1>12, <1>13,
       <1>14, <1>15, <1>16, <1>17, <1>18, <1>19, <1>20, <1>21, <1>22, <1>23, <1>24,
       <1>25 DEF Step

LEMMA HoldInvArrive ==
  ASSUME TypeInv, HoldInv, NEW r \in Req, Arrive(r)
  PROVE  HoldInv'
  <1>0. pc[r] = "new" /\ local[r].taken = {} /\ local \in [Req -> Locals]
    BY DEF Arrive, Say, SayPaused, ConfirmToken, Goto, Return, HoldInv, Taken, TypeInv,
       TypeOK, ControlTypeOK
  <1>1. CASE SayPaused(r)
    BY <1>1, QuietReturns DEF SayPaused, gateVars, requestVars, ghostVars
  <1>2. CASE Say(r) \/ ConfirmToken(r)
    <2>1. \A q \in Req : q # r => kind'[q] = kind[q] /\ source'[q] = source[q] /\ token'[q] = token[q]
      BY <1>2 DEF Say, ConfirmToken, TypeInv, TypeOK, RequestTypeOK
    <2>2. local' = [local EXCEPT ![r] = local[r]]
      BY <1>0, <1>2 DEF Say, ConfirmToken
    <2>3. UNCHANGED <<holds, nextSeq, executed>>
      BY <1>2 DEF Say, ConfirmToken, gateVars, ghostVars
    <2>4. PICK to \in {"bargeIn", "begin"} : pc' = [pc EXCEPT ![r] = to]
      BY <1>2 DEF Say, ConfirmToken, Goto
    <2> QED
      BY <1>0, <2>1, <2>2, <2>3, <2>4, QuietStep
  <1> QED
    BY <1>1, <1>2 DEF Arrive

LEMMA HoldInvNext ==
  ASSUME TypeInv, Parking, HoldInv, [Next]_vars PROVE HoldInv'
  <1>1. CASE DropHold \/ LockChanges \/ AttachTools
    BY <1>1, QueueShrinks DEF DropHold, LockChanges, AttachTools, Remove, gateVars,
       requestVars, ghostVars
  <1>2. ASSUME NEW c \in Switcher, Switch(c) \/ DisconnectSwitch(c) PROVE HoldInv'
    <2>1. UNCHANGED switcherFrame
      BY <1>2 DEF Switch, CompareProvider, WriteProvider, KeyChanged, ResetClient, ClearHistory,
         DisconnectSwitch
    <2> QED
      BY <2>1, QueueShrinks DEF switcherFrame, gateVars, requestVars, ghostVars
  <1>3. CASE UNCHANGED vars
    BY <1>3, QueueShrinks DEF vars, gateVars, requestVars, ghostVars
  <1>4. ASSUME NEW r \in Req, Disconnect(r) PROVE HoldInv'
    BY <1>4, QuietReturns DEF Disconnect, gateVars, requestVars, ghostVars
  <1> QED
    BY <1>1, <1>2, <1>3, <1>4, HoldInvStep, HoldInvArrive DEF Next

LEMMA HoldInvariant == Spec => []HoldInv
  <1>1. Init => HoldInv
    BY HoldInit
  <1>2. TypeInv /\ Parking /\ HoldInv /\ [Next]_vars => HoldInv'
    BY HoldInvNext
  <1> QED
    BY <1>1, <1>2, TypeInvariant, PTL DEF Spec

\* For any number of requests racing each other, a held call runs only on a
\* local approval entitled to approve it, given in another turn than the one it
\* was parked in, and a call the gate does not hold never runs this way.
THEOREM HeldCallsRunOnApproval == Spec => []ApprovedExecution
  <1>1. HoldInv => ApprovedExecution
    BY DEF HoldInv
  <1> QED
    BY <1>1, HoldInvariant, PTL

\* No two confirmations ever get the same call, and no call runs twice, in
\* whatever order confirmations, cancellations and expiry reach the queue.
THEOREM HeldCallsRunOnce == Spec => []SingleUse
  <1>1. HoldInv => SingleUse
    BY DEF HoldInv
  <1> QED
    BY <1>1, HoldInvariant, PTL

-----------------------------------------------------------------------------
(* What a turn leaves behind *)

\* The outcomes of a turn whose exchange is part of a conversation.
Kept == {"reply", "held", "error"}

\* Where a request's outcome is settled.
Settling == {"release", "persist", "done"}

\* Conversation s, when the outcomes are out, has each exchange once and only
\* exchanges of turns that were not cancelled.
Clean(s, out) ==
  /\ \A i, j \in DOMAIN s : s[i].by = s[j].by => i = j
  /\ \A i \in DOMAIN s : out[s[i].by] \in Kept

\* The outcome of a request is settled where the code returns or ends its loop.
Outcomes ==
  \A r \in Req : /\ pc[r] \notin Settling => outcome[r] = "none"
                 /\ pc[r] \in {"release", "persist"} => outcome[r] \in Kept

\* The stored conversation is clean, and so is the copy of every turn: a turn
\* stores the copy it took before others ended, and theirs are lost with it.
Copies == \A r \in Req : Clean(local[r].copy, outcome)

\* Only a turn that ends held has parked a call.
ParkedIsHeld == \A r \in Req : parked[r] # {} => outcome[r] = "held"

KeepInv == Outcomes /\ Copies /\ Clean(history, outcome) /\ ParkedIsHeld

LEMMA FreshIsClean == ASSUME NEW out PROVE Clean(Fresh.copy, out)
  BY DEF Clean, Fresh

\* A conversation stays clean while a request it does not hold gets its outcome.
LEMMA CleanKept ==
  ASSUME NEW s \in Seq(Exchange), outcome \in [Req -> Outcome], Clean(s, outcome),
         NEW r \in Req, outcome[r] = "none" \/ outcome'[r] = outcome[r],
         \A q \in Req : q # r => outcome'[q] = outcome[q]
  PROVE  Clean(s, outcome')
  <1>1. \A i \in DOMAIN s : s[i].by \in Req
    <2>1. \A i \in DOMAIN s : s[i] \in Exchange
      OBVIOUS
    <2> QED
      BY <2>1 DEF Exchange
  <1>2. \A q \in Req : outcome[q] \in Kept => outcome'[q] \in Kept
    BY DEF Kept
  <1> QED
    BY <1>1, <1>2 DEF Clean

\* A turn whose exchange is not yet part of a conversation appends it.
LEMMA CleanAppend ==
  ASSUME NEW s \in Seq(Exchange), NEW x \in Exchange, NEW out, Clean(s, out),
         \A i \in DOMAIN s : s[i].by # x.by, out[x.by] \in Kept
  PROVE  Clean(Append(s, x), out)
  <1>1. DOMAIN Append(s, x) = 1..(Len(s) + 1) /\ DOMAIN s = 1..Len(s)
    OBVIOUS
  <1>2. \A i \in DOMAIN Append(s, x) :
          Append(s, x)[i] = IF i = Len(s) + 1 THEN x ELSE s[i]
    OBVIOUS
  <1>3. \A i \in DOMAIN Append(s, x) : i = Len(s) + 1 \/ i \in DOMAIN s
    BY <1>1
  <1> QED
    BY <1>1, <1>2, <1>3 DEF Clean

LEMMA KeepInit == ASSUME Init PROVE KeepInv
  <1>1. history = <<>> /\ \A r \in Req : local[r].copy = <<>>
    BY DEF Init, Fresh
  <1>2. \A r \in Req : pc[r] = "new" /\ outcome[r] = "none" /\ parked[r] = {}
    BY DEF Init
  <1> QED
    BY <1>1, <1>2 DEF KeepInv, Outcomes, Copies, Clean, ParkedIsHeld, Settling

\* A step of request r by which it goes on, its copy kept or just taken.
LEMMA KeepGoes ==
  ASSUME TypeInv, KeepInv, NEW r \in Req, NEW from, NEW to, NEW m, Goto(r, from, to),
         from \notin Settling, to \notin Settling, local' = [local EXCEPT ![r] = m],
         m.copy \in {local[r].copy, history}, UNCHANGED <<history, parked>>
  PROVE  KeepInv'
  <1>1. /\ \A q \in Req : q # r => pc'[q] = pc[q] /\ local'[q] = local[q]
        /\ pc'[r] = to /\ local'[r] = m /\ pc[r] = from
        /\ outcome' = outcome
    BY DEF Goto, TypeInv, TypeOK, ControlTypeOK
  <1>2. Outcomes'
    BY <1>1 DEF KeepInv, Outcomes, Settling
  <1>3. Copies'
    BY <1>1 DEF KeepInv, Copies
  <1> QED
    BY <1>1, <1>2, <1>3 DEF KeepInv, ParkedIsHeld

LEMMA KeepStays ==
  ASSUME TypeInv, KeepInv, NEW r \in Req, NEW from, NEW to, Goto(r, from, to),
         from \notin Settling, to \notin Settling, UNCHANGED <<local, history, parked>>
  PROVE  KeepInv'
  <1>1. local' = [local EXCEPT ![r] = local[r]]
    BY DEF TypeInv, TypeOK, ControlTypeOK
  <1> QED
    BY <1>1, KeepGoes

\* A step by which request r gets its outcome, whatever copy it has left.
LEMMA KeepSettles ==
  ASSUME TypeInv, KeepInv, NEW r \in Req, pc[r] \notin Settling,
         NEW to \in Settling, NEW o, NEW m,
         pc' = [pc EXCEPT ![r] = to], outcome' = [outcome EXCEPT ![r] = o],
         local' = [local EXCEPT ![r] = m], Clean(m.copy, outcome'),
         to # "done" => o \in Kept, UNCHANGED history,
         parked'[r] # {} => o = "held" \/ parked[r] # {},
         \A q \in Req : q # r => parked'[q] = parked[q]
  PROVE  KeepInv'
  <1>1. /\ \A q \in Req : q # r => /\ pc'[q] = pc[q] /\ local'[q] = local[q]
                                    /\ outcome'[q] = outcome[q]
        /\ pc'[r] = to /\ local'[r] = m /\ outcome'[r] = o
        /\ outcome[r] = "none" /\ outcome \in [Req -> Outcome]
        /\ history \in Seq(Exchange) /\ \A q \in Req : local[q].copy \in Seq(Exchange)
    BY DEF KeepInv, Outcomes, TypeInv, TypeOK, ControlTypeOK, ReasonerTypeOK, Locals
  <1>2. Outcomes'
    BY <1>1 DEF KeepInv, Outcomes, Settling
  <1>3. \A q \in Req : q # r => Clean(local[q].copy, outcome')
    BY <1>1, CleanKept DEF KeepInv, Copies
  <1>4. Copies'
    BY <1>1, <1>3 DEF Copies
  <1>5. Clean(history, outcome)'
    BY <1>1, CleanKept DEF KeepInv
  <1>6. parked[r] = {}
    BY <1>1 DEF KeepInv, ParkedIsHeld
  <1>7. ParkedIsHeld'
    BY <1>1, <1>6 DEF KeepInv, ParkedIsHeld
  <1> QED
    BY <1>2, <1>4, <1>5, <1>7 DEF KeepInv

LEMMA KeepReturns ==
  ASSUME TypeInv, KeepInv, NEW r \in Req, NEW from, NEW o, Return(r, from, o),
         from \notin Settling, UNCHANGED <<history, parked>>
  PROVE  KeepInv'
  BY FreshIsClean, KeepSettles DEF Return, Settling

\* The tool loop ends: the turn's exchange joins its copy.
LEMMA KeepEnds ==
  ASSUME TypeInv, KeepInv, NEW r \in Req, NEW from \in InLoop, NEW o \in Kept,
         LoopEnds(r, from, o), from # "release", UNCHANGED history,
         parked'[r] # {} => o = "held" \/ parked[r] # {},
         \A q \in Req : q # r => parked'[q] = parked[q]
  PROVE  KeepInv'
  <1> DEFINE x == [by |-> r, provider |-> client]
             m == [Fresh EXCEPT !.copy = Append(local[r].copy, x)]
  <1>1. /\ pc[r] = from /\ pc' = [pc EXCEPT ![r] = "release"]
        /\ outcome' = [outcome EXCEPT ![r] = o] /\ local' = [local EXCEPT ![r] = m]
    BY DEF LoopEnds
  <1>2. pc[r] \notin Settling /\ outcome[r] = "none"
    BY <1>1 DEF InLoop, Settling, KeepInv, Outcomes
  <1>3. client \in Provider
    BY <1>1 DEF TypeInv, LoopHoldsReasoner
  <1>4. local[r].copy \in Seq(Exchange) /\ x \in Exchange /\ outcome \in [Req -> Outcome]
    BY <1>3 DEF TypeInv, TypeOK, ControlTypeOK, Locals, Exchange
  <1>5. Clean(local[r].copy, outcome)
    BY DEF KeepInv, Copies
  <1>6. Clean(local[r].copy, outcome')
    BY <1>1, <1>2, <1>4, <1>5, CleanKept
  <1>7. \A i \in DOMAIN local[r].copy : local[r].copy[i].by # x.by
    BY <1>2, <1>5 DEF Clean, Kept
  <1>8. outcome'[x.by] \in Kept
    BY <1>1, <1>4
  <1>9. Clean(Append(local[r].copy, x), outcome')
    BY <1>4, <1>6, <1>7, <1>8, CleanAppend
  <1>10. m.copy = Append(local[r].copy, x)
    BY DEF Fresh
  <1> HIDE DEF m, x
  <1> QED
    BY <1>1, <1>2, <1>9, <1>10, KeepSettles DEF Settling

\* The copy replaces the stored conversation.
LEMMA KeepStores ==
  ASSUME TypeInv, KeepInv, NEW r \in Req, Persist(r)
  PROVE  KeepInv'
  <1>1. /\ pc[r] = "persist" /\ pc'[r] = "done" /\ outcome' = outcome
        /\ \A q \in Req : q # r => pc'[q] = pc[q] /\ local'[q] = local[q]
        /\ local'[r] = Fresh /\ history' = local[r].copy /\ UNCHANGED parked
    BY DEF Persist, Return, ghostVars, TypeInv, TypeOK, ControlTypeOK
  <1>2. Outcomes'
    BY <1>1 DEF KeepInv, Outcomes, Settling
  <1>3. Copies'
    BY <1>1, FreshIsClean DEF KeepInv, Copies
  <1>4. Clean(history, outcome)'
    BY <1>1 DEF KeepInv, Copies
  <1> QED
    BY <1>1, <1>2, <1>3, <1>4 DEF KeepInv, ParkedIsHeld

\* One case for each action of a request.
LEMMA KeepStep ==
  ASSUME TypeInv, KeepInv, NEW r \in Req, Step(r)
  PROVE  KeepInv'
  <1> DEFINE l == local[r]
  <1>0. local \in [Req -> Locals] /\ l \in Locals
    BY DEF TypeInv, TypeOK, ControlTypeOK
  <1> USE DEF Settling, ghostVars
  <1>1. CASE BargeIn(r) \/ Begin(r) \/ NonePending(r) \/ Reflex(r) \/ TakeReasoner(r) \/ ToolDone(r)
    BY <1>1, KeepStays DEF BargeIn, Begin, NonePending, Reflex, TakeReasoner, ToolDone
  <1>2. CASE NeedsKey(r) \/ UnknownToken(r) \/ ExecuteParked(r) \/ NoClient(r) \/ Cancel(r)
    BY <1>2, KeepReturns DEF NeedsKey, UnknownToken, ExecuteParked, NoClient, Cancel
  <1>3. CASE NoReflex(r) \/ ReflexDone(r)
    BY <1>3, KeepStays, KeepReturns DEF NoReflex, ReflexDone, Escalate
  <1>4. CASE ReadBarge(r)
    <2>1. /\ local' = [local EXCEPT ![r] = [l EXCEPT !.bargeAt = barge]]
          /\ [l EXCEPT !.bargeAt = barge].copy = l.copy
      BY <1>4, <1>0 DEF ReadBarge, Locals
    <2> QED
      BY <1>4, <2>1, KeepGoes DEF ReadBarge
  <1>5. CASE LoadTurn(r) \/ HoldReads(r)
    <2>1. /\ local' = [local EXCEPT ![r] = [l EXCEPT !.loaded = turn]]
          /\ [l EXCEPT !.loaded = turn].copy = l.copy
      BY <1>5, <1>0 DEF LoadTurn, HoldReads, Locals
    <2> QED
      BY <1>5, <2>1, KeepGoes DEF LoadTurn, HoldReads
  <1>6. CASE Resolve(r)
    <2>1. PICK p : local' = [local EXCEPT ![r] = [l EXCEPT !.taken = {p}]]
      BY <1>6 DEF Resolve
    <2>2. [l EXCEPT !.taken = {p}].copy = l.copy
      BY <1>0 DEF Locals
    <2> QED
      BY <1>6, <2>1, <2>2, KeepGoes DEF Resolve
  <1>7. CASE Think(r)
    <2> DEFINE m == [[l EXCEPT !.copy = history] EXCEPT !.round = 1]
    <2>1. local' = [local EXCEPT ![r] = m] /\ m.copy = history
      BY <1>7, <1>0 DEF Think, Locals
    <2> HIDE DEF m
    <2> QED
      BY <1>7, <2>1, KeepGoes DEF Think
  <1>8. CASE ModelEnds(r)
    BY <1>8, KeepEnds DEF ModelEnds, InLoop, Kept
  <1>9. CASE ModelCalls(r)
    <2>1. PICK calls \in Responses, c \in BOOLEAN :
            local' = [local EXCEPT ![r].todo = calls, ![r].confirming = c]
      BY <1>9 DEF ModelCalls
    <2> DEFINE m == [[l EXCEPT !.todo = calls] EXCEPT !.confirming = c]
    <2>2. local' = [local EXCEPT ![r] = m] /\ m.copy = l.copy
      BY <2>1, <1>0 DEF Locals
    <2> HIDE DEF m
    <2> QED
      BY <1>9, <2>2, KeepGoes DEF ModelCalls
  <1>10. CASE NextRound(r)
    <2>1. CASE LoopEnds(r, "calls", "reply")
      BY <1>10, <2>1, KeepEnds DEF NextRound, InLoop, Kept
    <2>2. CASE /\ Goto(r, "calls", "model")
               /\ local' = [local EXCEPT ![r].round = @ + 1, ![r].confirming = FALSE]
      <3> DEFINE m == [[l EXCEPT !.round = l.round + 1] EXCEPT !.confirming = FALSE]
      <3>1. local' = [local EXCEPT ![r] = m] /\ m.copy = l.copy
        BY <2>2, <1>0 DEF Locals
      <3> HIDE DEF m
      <3> QED
        BY <1>10, <2>2, <3>1, KeepGoes DEF NextRound
    <2> QED
      BY <1>10, <2>1, <2>2 DEF NextRound
  <1>11. CASE Refuse(r) \/ RunTool(r)
    <2> DEFINE m == [l EXCEPT !.todo = Tail(l.todo)]
    <2>1. PICK to \in {"calls", "tool"} : Goto(r, "calls", to)
      BY <1>11 DEF Refuse, RunTool
    <2>2. local' = [local EXCEPT ![r] = m] /\ m.copy = l.copy
      BY <1>11, <1>0 DEF Refuse, RunTool, Locals
    <2> HIDE DEF m
    <2> QED
      BY <1>11, <2>1, <2>2, KeepGoes DEF Refuse, RunTool
  <1>12. CASE Hold(r)
    <2>1. \A q \in Req : q # r => parked'[q] = parked[q]
      BY <1>12 DEF Hold, TypeInv, TypeOK, GhostTypeOK
    <2> QED
      BY <1>12, <2>1, KeepEnds DEF Hold, InLoop, Kept
  <1>13. CASE Release(r)
    <2>1. /\ \A q \in Req : q # r => pc'[q] = pc[q]
          /\ pc'[r] = "persist" /\ pc[r] = "release"
          /\ UNCHANGED <<local, outcome, history, parked>>
      BY <1>13 DEF Release, Goto, TypeInv, TypeOK, ControlTypeOK
    <2> QED
      BY <2>1 DEF KeepInv, Outcomes, Copies, ParkedIsHeld
  <1>14. CASE Persist(r)
    BY <1>14, KeepStores
  <1> QED
    BY <1>1, <1>2, <1>3, <1>4, <1>5, <1>6, <1>7, <1>8, <1>9, <1>10, <1>11, <1>12, <1>13,
       <1>14
       DEF Step

LEMMA KeepNext ==
  ASSUME TypeInv, KeepInv, [Next]_vars PROVE KeepInv'
  <1> USE DEF ghostVars, Settling
  <1>1. ASSUME NEW r \in Req, Arrive(r) PROVE KeepInv'
    BY <1>1, KeepStays, KeepReturns DEF Arrive, Say, SayPaused, ConfirmToken
  <1>2. ASSUME NEW r \in Req, Disconnect(r) PROVE KeepInv'
    BY <1>2, KeepReturns DEF Disconnect, Awaits
  <1>3. ASSUME NEW c \in Switcher, ClearHistory(c) PROVE KeepInv'
    <2>1. UNCHANGED <<pc, outcome, local, parked>> /\ history' \in {<<>>, history}
      BY <1>3 DEF ClearHistory, switcherFrame
    <2> QED
      BY <2>1 DEF KeepInv, Outcomes, Copies, Clean, ParkedIsHeld
  <1>4. CASE UNCHANGED <<pc, outcome, local, history, parked>>
    BY <1>4 DEF KeepInv, Outcomes, Copies, ParkedIsHeld
  <1> QED
    BY <1>1, <1>2, <1>3, <1>4, KeepStep DEF Next, Switch, CompareProvider, WriteProvider,
       KeyChanged, ResetClient, DisconnectSwitch, switcherFrame, DropHold, LockChanges,
       AttachTools, vars

LEMMA KeepInvariant == Spec => []KeepInv
  <1>1. Init => KeepInv
    BY KeepInit
  <1>2. TypeInv /\ KeepInv /\ [Next]_vars => KeepInv'
    BY KeepNext
  <1> QED
    BY <1>1, <1>2, TypeInvariant, PTL DEF Spec

\* In whatever order any number of turns take their copy of the conversation,
\* end, are cancelled and store it, the stored conversation has no exchange
\* twice and none of a cancelled turn.
THEOREM StoredConversationIsClean == Spec => []ConversationIsClean
  <1>1. KeepInv => ConversationIsClean
    BY DEF KeepInv, Clean, ConversationIsClean, Kept
  <1> QED
    BY <1>1, KeepInvariant, PTL

\* A turn that was cancelled by a barge-in or dropped with its client has parked
\* no call, whatever it was doing when it was.
THEOREM NoHoldOfACancelledTurn == Spec => []CancelledLeavesNoHold
  <1>1. KeepInv => CancelledLeavesNoHold
    BY DEF KeepInv, ParkedIsHeld, CancelledLeavesNoHold
  <1> QED
    BY <1>1, KeepInvariant, PTL

-----------------------------------------------------------------------------
(* The client of the reasoner.  ClientFollowsConfiguration speaks of the times *)
(* when no switch is in progress; the invariant says who is going to take an   *)
(* outdated client away when one is.                                           *)

\* A switch that wrote what is now configured and has yet to reset the client,
\* or one that was dropped before it could.
Owed ==
  \E c \in Switcher :
    \/ switch[c] = "abandoned"
    \/ switch[c] \in {"changed", "reset"} /\ target[c] = provider

ClientInv == client \in {None, provider} \/ Owed

LEMMA ClientNext ==
  ASSUME TypeInv, ClientInv, [Next]_vars PROVE ClientInv'
  <1>0. switch \in [Switcher -> {"new", "write", "changed", "reset", "clear", "done",
                                 "abandoned"}] /\ target \in [Switcher -> Provider]
    BY DEF TypeInv, TypeOK, ReasonerTypeOK
  <1>1. CASE UNCHANGED <<client, provider, switch, target>>
    BY <1>1 DEF ClientInv, Owed
  <1>2. ASSUME NEW r \in Req, TakeReasoner(r) PROVE ClientInv'
    BY <1>2 DEF TakeReasoner, switchVars, ClientInv, Owed
  <1>3. ASSUME NEW c \in Switcher, CompareProvider(c) PROVE ClientInv'
    BY <1>0, <1>3 DEF CompareProvider, ClientInv, Owed
  <1>4. ASSUME NEW c \in Switcher, WriteProvider(c) PROVE ClientInv'
    BY <1>0, <1>4 DEF WriteProvider, ClientInv, Owed
  <1>5. ASSUME NEW c \in Switcher, KeyChanged(c) PROVE ClientInv'
    BY <1>0, <1>5 DEF KeyChanged, ClientInv, Owed
  <1>6. ASSUME NEW c \in Switcher, ResetClient(c) PROVE ClientInv'
    BY <1>6 DEF ResetClient, ClientInv
  <1>7. ASSUME NEW c \in Switcher, ClearHistory(c) PROVE ClientInv'
    BY <1>0, <1>7 DEF ClearHistory, ClientInv, Owed
  <1>8. ASSUME NEW c \in Switcher, DisconnectSwitch(c) PROVE ClientInv'
    BY <1>0, <1>8 DEF DisconnectSwitch, ClientInv, Owed
  <1>9. ASSUME NEW r \in Req, Step(r), ~TakeReasoner(r) PROVE UNCHANGED <<client, provider, switch, target>>
    BY <1>9 DEF reasonerVars, switchVars, Step, BargeIn, ReadBarge, Begin, NeedsKey, LoadTurn,
       Resolve, UnknownToken, NonePending, ExecuteParked, NoReflex, Reflex, ReflexDone,
       NoClient, Think, Cancel, ModelEnds, ModelCalls, NextRound, Refuse, RunTool, ToolDone,
       HoldReads, Hold, Release, Persist
  <1>10. ASSUME NEW r \in Req, Arrive(r) \/ Disconnect(r)
         PROVE  UNCHANGED <<client, provider, switch, target>>
    BY <1>10 DEF reasonerVars, switchVars, Arrive, Say, SayPaused, ConfirmToken, Disconnect
  <1> QED
    BY <1>1, <1>2, <1>3, <1>4, <1>5, <1>6, <1>7, <1>8, <1>9, <1>10
       DEF Next, Switch, DropHold, LockChanges, AttachTools, vars, reasonerVars, switchVars

\* However many switches of provider and turns run beside each other, once no
\* switch is in progress the client that is kept is the configured provider's.
THEOREM NoOldClientStays == Spec => []ClientFollowsConfiguration
  <1>1. Init => ClientInv
    BY DEF Init, ClientInv
  <1>2. TypeInv /\ ClientInv /\ [Next]_vars => ClientInv'
    BY ClientNext
  <1>3. ClientInv => ClientFollowsConfiguration
    BY DEF ClientInv, Owed, ClientFollowsConfiguration, Settled
  <1> QED
    BY <1>1, <1>2, <1>3, TypeInvariant, PTL DEF Spec
-----------------------------------------------------------------------------
(***************************************************************************)
(* Turns implements HoldContract, its promise of progress apart: under the *)
(* mapping StatusOf, the initial states are the contract's, and every step *)
(* of any number of requests is a step of the contract or a stutter.       *)
(***************************************************************************)
\* The calls of the contract.
Call == 0..(MaxHolds - 1)

\* The three places a parked call can be in.
InQueue(k) == \E p \in holds : p.seq = k
InHands(k) == \E r \in Req : \E p \in local[r].taken : p.seq = k
HasRun(k)  == \E e \in executed : e.call.seq = k

\* What StatusOf says, when a call is in one place only.
StatusTable ==
  \A k \in Call :
    /\ k >= nextSeq <=> StatusOf(k) = "unborn"
    /\ InQueue(k) <=> StatusOf(k) = "held"
    /\ HasRun(k)  <=> StatusOf(k) = "run"
    /\ InHands(k) <=> StatusOf(k) = "taken"
    /\ StatusOf(k) \in {"unborn", "held", "run", "taken", "dropped"}

LEMMA StatusIs == TypeInv /\ HoldInv => StatusTable
  <1> SUFFICES ASSUME TypeInv, HoldInv, NEW k \in Call
               PROVE  /\ k >= nextSeq <=> StatusOf(k) = "unborn"
                      /\ InQueue(k) <=> StatusOf(k) = "held"
                      /\ HasRun(k)  <=> StatusOf(k) = "run"
                      /\ InHands(k) <=> StatusOf(k) = "taken"
                      /\ StatusOf(k) \in {"unborn", "held", "run", "taken", "dropped"}
    BY DEF StatusTable
  <1>0. k \in Nat /\ nextSeq \in Nat
    BY TurnsAssumption DEF Call, TypeInv, TypeOK, GateTypeOK, TurnsAssumption
  <1>1. InQueue(k) => ~(k >= nextSeq)
    BY <1>0 DEF InQueue, HoldInv, Waiting
  <1>2. HasRun(k) => ~(k >= nextSeq)
    BY <1>0 DEF HasRun, HoldInv, Ran
  <1>3. InHands(k) => ~(k >= nextSeq)
    BY <1>0 DEF InHands, HoldInv, Taken
  <1>4. ~(InQueue(k) /\ HasRun(k)) /\ ~(InQueue(k) /\ InHands(k)) /\ ~(HasRun(k) /\ InHands(k))
    BY DEF InQueue, HasRun, InHands, HoldInv, SingleUse
  <1>5. StatusOf(k) = CASE k >= nextSeq -> "unborn"
                        [] InQueue(k)   -> "held"
                        [] HasRun(k)    -> "run"
                        [] InHands(k)   -> "taken"
                        [] OTHER        -> "dropped"
    BY DEF StatusOf, InQueue, HasRun, InHands
  <1> QED
    BY <1>1, <1>2, <1>3, <1>4, <1>5

-----------------------------------------------------------------------------
(* Steps *)

\* One call moves and the others stay: a step of the contract.
LEMMA OneMoves ==
  ASSUME NEW c \in Call, NEW from, NEW to, StatusOf(c) = from, StatusOf(c)' = to,
         <<from, to>> \in {<<"unborn", "held">>, <<"held", "taken">>, <<"held", "dropped">>,
                           <<"taken", "run">>},
         \A k \in Call : k # c => StatusOf(k)' = StatusOf(k)
  PROVE  Contract!HoldNext
  <1> DEFINE st == [k \in Call |-> StatusOf(k)]
  <1>1. st[c] = from /\ st' = [st EXCEPT ![c] = to]
    OBVIOUS
  <1> QED
    BY <1>1 DEF Contract!HoldNext, Contract!ParkCall, Contract!Take, Contract!Drop, Contract!Run,
       Contract!Move, Call

\* Nothing about call k changes.
LEMMA CallStays ==
  ASSUME StatusTable, StatusTable', NEW k \in Call, k >= nextSeq' <=> k >= nextSeq,
         InQueue(k)' <=> InQueue(k), HasRun(k)' <=> HasRun(k), InHands(k)' <=> InHands(k)
  PROVE  StatusOf(k)' = StatusOf(k)
  BY DEF StatusTable

\* Nothing about any call changes: a stutter of the contract.
LEMMA NoneMoves ==
  ASSUME StatusTable, StatusTable', UNCHANGED <<holds, nextSeq, executed>>,
         \A q \in Req : local'[q].taken = local[q].taken
  PROVE  \A k \in Call : StatusOf(k)' = StatusOf(k)
  <1> SUFFICES ASSUME NEW k \in Call PROVE StatusOf(k)' = StatusOf(k)
    OBVIOUS
  <1>1. /\ InQueue(k)' <=> InQueue(k)
        /\ HasRun(k)' <=> HasRun(k)
        /\ InHands(k)' <=> InHands(k)
    BY DEF InQueue, HasRun, InHands
  <1> QED
    BY <1>1, CallStays

\* A request parks a call: it is born, and waits.
LEMMA HoldParks ==
  ASSUME TypeInv, HoldInv, HoldInv', StatusTable, StatusTable', NEW r \in Req, Hold(r)
  PROVE  Contract!HoldNext \/ \A k \in Call : StatusOf(k)' = StatusOf(k)
  <1> DEFINE new == [seq |-> nextSeq, turn |-> local[r].loaded, tool |-> Head(local[r].todo)]
  <1>1. holds' = holds \cup {new} /\ nextSeq' = nextSeq + 1 /\ nextSeq \in Nat
    BY DEF Hold, Park, TypeInv, TypeOK, GateTypeOK
  <1>2. new.seq = nextSeq
    OBVIOUS
  <1> HIDE DEF new
  <1>3. \A q \in Req : local'[q].taken = local[q].taken
    <2>1. \A q \in Req : q # r => local'[q] = local[q]
      BY DEF Hold, LoopEnds, TypeInv, TypeOK, ControlTypeOK
    <2>2. pc[r] = "park" /\ pc'[r] = "release"
      BY DEF Hold, LoopEnds, TypeInv, TypeOK, ControlTypeOK
    <2>3. local[r].taken = {} /\ local'[r].taken = {}
      BY <2>2 DEF HoldInv, Taken
    <2> QED
      BY <2>1, <2>3
  <1>4. UNCHANGED executed
    BY DEF Hold
  <1>5. ASSUME NEW k \in Call, k # nextSeq PROVE StatusOf(k)' = StatusOf(k)
    <2>1. k \in Nat
      BY TurnsAssumption DEF Call, TurnsAssumption
    <2>2. k >= nextSeq' <=> k >= nextSeq
      BY <1>1, <1>5, <2>1
    <2>3. InQueue(k)' <=> InQueue(k)
      BY <1>1, <1>2, <1>5 DEF InQueue
    <2>4. (HasRun(k)' <=> HasRun(k)) /\ (InHands(k)' <=> InHands(k))
      BY <1>3, <1>4 DEF HasRun, InHands
    <2> QED
      BY <2>2, <2>3, <2>4, CallStays
  <1>6. CASE nextSeq \in Call
    <2>1. StatusOf(nextSeq) = "unborn"
      BY <1>1, <1>6 DEF StatusTable
    <2>2. \E p \in holds' : p.seq = nextSeq
      BY <1>1, <1>2
    <2>3. \A k \in Call : (\E p \in holds' : p.seq = k) => StatusOf(k)' = "held"
      BY DEF StatusTable, InQueue
    <2> QED
      BY <1>5, <1>6, <2>1, <2>2, <2>3, OneMoves
  <1>7. CASE nextSeq \notin Call
    BY <1>5, <1>7
  <1> QED
    BY <1>6, <1>7

\* A request takes a waiting call.
LEMMA ResolveTakes ==
  ASSUME TypeInv, HoldInv, HoldInv', StatusTable, StatusTable', NEW r \in Req, Resolve(r)
  PROVE  Contract!HoldNext \/ \A k \in Call : StatusOf(k)' = StatusOf(k)
  <1>1. PICK p \in Candidates(r) : Remove(p) /\ local' = [local EXCEPT ![r].taken = {p}]
    BY DEF Resolve
  <1>2. p \in holds /\ holds' = holds \ {p} /\ UNCHANGED <<nextSeq, executed>>
    BY <1>1 DEF Remove, Resolve, ghostVars
  <1>3. /\ \A q \in Req : q # r => local'[q] = local[q]
        /\ local'[r].taken = {p} /\ local[r].taken = {}
    <2>1. local[r].taken = {}
      BY DEF Resolve, Goto, HoldInv, Taken
    <2> QED
      BY <1>1, <2>1 DEF TypeInv, TypeOK, ControlTypeOK, Locals
  <1>4. ASSUME NEW k \in Call, k # p.seq PROVE StatusOf(k)' = StatusOf(k)
    <2>1. InQueue(k)' <=> InQueue(k)
      BY <1>2, <1>4 DEF InQueue
    <2>2. InHands(k)' <=> InHands(k)
      BY <1>3, <1>4 DEF InHands
    <2>3. HasRun(k)' <=> HasRun(k)
      BY <1>2 DEF HasRun
    <2> QED
      BY <1>2, <2>1, <2>2, <2>3, CallStays
  <1>5. ASSUME NEW c \in Call, c = p.seq PROVE StatusOf(c) = "held" /\ StatusOf(c)' = "taken"
    <2>1. InQueue(c)
      BY <1>2, <1>5 DEF InQueue
    <2>2. InHands(c)'
      BY <1>3, <1>5 DEF InHands
    <2> QED
      BY <2>1, <2>2 DEF StatusTable
  <1> QED
    BY <1>4, <1>5, OneMoves

\* A taken call is handed to the tool host.
LEMMA ExecuteRuns ==
  ASSUME TypeInv, HoldInv, HoldInv', StatusTable, StatusTable', NEW r \in Req, ExecuteParked(r)
  PROVE  Contract!HoldNext \/ \A k \in Call : StatusOf(k)' = StatusOf(k)
  <1>1. UNCHANGED <<holds, nextSeq>>
    BY DEF ExecuteParked, gateVars
  <1>2. /\ \A q \in Req : q # r => local'[q] = local[q]
        /\ local'[r].taken = {}
    BY DEF ExecuteParked, Return, TypeInv, TypeOK, ControlTypeOK, Fresh
  <1>3. /\ \A e \in executed' : e \in executed \/ e.call \in local[r].taken
        /\ \A p \in local[r].taken : \E e \in executed' : e.call = p
        /\ executed \subseteq executed'
    <2> DEFINE ran(p) == [call |-> p, by |-> r, at |-> local[r].loaded]
               new == {ran(p) : p \in local[r].taken}
    <2>1. executed' = executed \cup new
      BY DEF ExecuteParked
    <2>2. \A e \in new : e.call \in local[r].taken
      OBVIOUS
    <2>3. \A p \in local[r].taken : ran(p) \in new /\ ran(p).call = p
      OBVIOUS
    <2> HIDE DEF new, ran
    <2> QED
      BY <2>1, <2>2, <2>3
  <1>4. CASE local[r].taken = {}
    <2>1. \A e : e \in executed' <=> e \in executed
      BY <1>3, <1>4
    <2>2. executed' = executed
      BY <2>1
    <2>3. \A q \in Req : local'[q].taken = local[q].taken
      BY <1>2, <1>4
    <2> QED
      BY <1>1, <2>2, <2>3, NoneMoves
  <1>5. ASSUME NEW p \in local[r].taken
        PROVE  Contract!HoldNext \/ \A k \in Call : StatusOf(k)' = StatusOf(k)
    <2>1. \A o \in local[r].taken : o = p
      BY DEF HoldInv, Taken
    <2>2. ASSUME NEW k \in Call, k # p.seq PROVE StatusOf(k)' = StatusOf(k)
      <3>1. InQueue(k)' <=> InQueue(k)
        BY <1>1 DEF InQueue
      <3>2. InHands(k)' <=> InHands(k)
        BY <1>2, <2>1, <2>2 DEF InHands
      <3>3. HasRun(k)' <=> HasRun(k)
        BY <1>3, <2>1, <2>2 DEF HasRun
      <3> QED
        BY <1>1, <3>1, <3>2, <3>3, CallStays
    <2>3. ASSUME NEW c \in Call, c = p.seq PROVE StatusOf(c) = "taken" /\ StatusOf(c)' = "run"
      <3>1. InHands(c)
        BY <2>3 DEF InHands
      <3>2. HasRun(c)'
        BY <1>3, <2>3 DEF HasRun
      <3> QED
        BY <3>1, <3>2 DEF StatusTable
    <2> QED
      BY <2>2, <2>3, OneMoves
  <1> QED
    BY <1>4, <1>5

\* A waiting call is cancelled, or has expired.
LEMMA DropDrops ==
  ASSUME TypeInv, HoldInv, HoldInv', StatusTable, StatusTable', DropHold
  PROVE  Contract!HoldNext \/ \A k \in Call : StatusOf(k)' = StatusOf(k)
  <1>1. PICK p \in holds : holds' = holds \ {p}
    BY DEF DropHold, Remove
  <1>2. UNCHANGED <<nextSeq, executed, local>>
    BY DEF DropHold, ghostVars
  <1>3. \A k \in Call : (HasRun(k)' <=> HasRun(k)) /\ (InHands(k)' <=> InHands(k))
    BY <1>2 DEF HasRun, InHands
  <1>4. ASSUME NEW k \in Call, k # p.seq PROVE StatusOf(k)' = StatusOf(k)
    <2>1. InQueue(k)' <=> InQueue(k)
      BY <1>1, <1>4 DEF InQueue
    <2> QED
      BY <1>2, <1>3, <2>1, CallStays
  <1>5. ASSUME NEW c \in Call, c = p.seq PROVE StatusOf(c) = "held" /\ StatusOf(c)' = "dropped"
    <2>1. InQueue(c) /\ ~InQueue(c)'
      BY <1>1, <1>5 DEF InQueue, HoldInv, Waiting
    <2>2. StatusOf(c) = "held"
      BY <2>1 DEF StatusTable
    <2>3. ~(c >= nextSeq) /\ ~HasRun(c) /\ ~InHands(c)
      BY <2>2 DEF StatusTable
    <2> QED
      BY <1>2, <1>3, <2>1, <2>2, <2>3 DEF StatusTable
  <1> QED
    BY <1>4, <1>5, OneMoves

\* A step of request r from and to a place where it holds no call.
LEMMA QuietMoves ==
  ASSUME TypeInv, HoldInv, HoldInv', StatusTable, StatusTable', NEW r \in Req, NEW to,
         pc' = [pc EXCEPT ![r] = to], pc[r] # "exec", to # "exec",
         \A q \in Req : q # r => local'[q] = local[q], UNCHANGED <<holds, nextSeq, executed>>
  PROVE  \A k \in Call : StatusOf(k)' = StatusOf(k)
  <1>1. pc'[r] # "exec"
    BY DEF TypeInv, TypeOK, ControlTypeOK
  <1>2. local[r].taken = {} /\ local'[r].taken = {}
    BY <1>1 DEF HoldInv, Taken
  <1> QED
    BY <1>2, NoneMoves

\* Every step of the daemon is a step of the contract or leaves it alone.
LEMMA ContractStep ==
  ASSUME TypeInv, HoldInv, HoldInv', StatusTable, StatusTable', [Next]_vars
  PROVE  Contract!HoldNext \/ \A k \in Call : StatusOf(k)' = StatusOf(k)
  <1>0. local \in [Req -> Locals]
    BY DEF TypeInv, TypeOK, ControlTypeOK
  <1> USE DEF gateVars, ghostVars
  <1>1. ASSUME NEW r \in Req, Step(r), ~Resolve(r), ~ExecuteParked(r), ~Hold(r)
        PROVE  \A k \in Call : StatusOf(k)' = StatusOf(k)
    <2>1. \A q \in Req : q # r => local'[q] = local[q]
      BY <1>0, <1>1 DEF Step, BargeIn, ReadBarge, Begin, NeedsKey, LoadTurn,
         UnknownToken, NonePending, NoReflex, Reflex, ReflexDone, Escalate,
         TakeReasoner, NoClient, Think, Cancel, ModelEnds, ModelCalls, NextRound, Refuse,
         RunTool, ToolDone, HoldReads, Release, Persist, Goto, Return, LoopEnds
    <2>2. \E to : to # "exec" /\ pc[r] # "exec" /\ pc' = [pc EXCEPT ![r] = to]
      BY <1>1 DEF Step, BargeIn, ReadBarge, Begin, NeedsKey, LoadTurn,
         UnknownToken, NonePending, NoReflex, Reflex, ReflexDone, Escalate,
         TakeReasoner, NoClient, Think, Cancel, ModelEnds, ModelCalls, NextRound, Refuse,
         RunTool, ToolDone, HoldReads, Release, Persist, Goto, Return, LoopEnds
    <2>3. UNCHANGED <<holds, nextSeq, executed>>
      BY <1>1 DEF Step, BargeIn, ReadBarge, Begin, BeginTurn, NeedsKey, LoadTurn,
         UnknownToken, NonePending, NoReflex, Reflex, ReflexDone,
         TakeReasoner, NoClient, Think, Cancel, ModelEnds, ModelCalls, NextRound, Refuse,
         RunTool, ToolDone, HoldReads, Release, Persist
    <2> QED
      BY <2>1, <2>2, <2>3, QuietMoves
  <1>2. ASSUME NEW r \in Req, Arrive(r) \/ Disconnect(r)
        PROVE  \A k \in Call : StatusOf(k)' = StatusOf(k)
    <2>1. \A q \in Req : q # r => local'[q] = local[q]
      BY <1>0, <1>2 DEF Arrive, Say, SayPaused, ConfirmToken, Disconnect, Goto, Return
    <2>2. \E to : to # "exec" /\ pc[r] # "exec" /\ pc' = [pc EXCEPT ![r] = to]
      BY <1>2 DEF Arrive, Say, SayPaused, ConfirmToken, Disconnect, Awaits, Goto, Return
    <2>3. UNCHANGED <<holds, nextSeq, executed>>
      BY <1>2 DEF Arrive, Say, SayPaused, ConfirmToken, Disconnect
    <2> QED
      BY <2>1, <2>2, <2>3, QuietMoves
  <1>3. CASE UNCHANGED <<holds, nextSeq, executed, local>>
    BY <1>3, NoneMoves
  <1> QED
    BY <1>1, <1>2, <1>3, HoldParks, ResolveTakes, ExecuteRuns, DropDrops
       DEF Next, LockChanges, AttachTools, Switch, CompareProvider, WriteProvider, KeyChanged,
       ResetClient, ClearHistory, DisconnectSwitch, switcherFrame, vars

\* In every run of the daemon each held call goes through the contract's states
\* and no other way: parked once, then taken by one confirmation or dropped, and
\* run once if it was taken; never run after it was dropped.
THEOREM HoldsFollowContract == Spec => Contract!HoldSafety
  <1> DEFINE st == [k \in Call |-> StatusOf(k)]
  <1>1. Init => Contract!HoldInit
    <2> SUFFICES ASSUME Init PROVE Contract!HoldInit
      OBVIOUS
    <2>1. TypeInv /\ HoldInv
      BY TypeInit, HoldInit, TurnsAssumption
    <2>2. \A k \in Call : k \in Nat /\ nextSeq = 0
      BY TurnsAssumption DEF Init, GateInit, Call, TurnsAssumption
    <2>3. \A k \in Call : StatusOf(k) = "unborn"
      BY <2>1, <2>2, StatusIs DEF StatusTable
    <2> QED
      BY <2>3 DEF Contract!HoldInit, Call
  <1>2. (TypeInv /\ HoldInv) /\ (TypeInv /\ HoldInv)' /\ [Next]_vars => [Contract!HoldNext]_st
    <2> SUFFICES ASSUME TypeInv, HoldInv, TypeInv', HoldInv', [Next]_vars
                 PROVE  Contract!HoldNext \/ UNCHANGED st
      OBVIOUS
    <2>1. (TypeInv /\ HoldInv => StatusTable)'
      BY StatusIs, PTL
    <2>2. StatusTable /\ StatusTable'
      BY <2>1, StatusIs
    <2> QED
      BY <2>2, ContractStep
  <1>3. Spec => [](TypeInv /\ HoldInv)
    BY TypeInvariant, HoldInvariant, PTL
  <1> QED
    BY <1>1, <1>2, <1>3, PTL DEF Spec, Contract!HoldSafety, Call

-----------------------------------------------------------------------------
(* Cancellation: the barge counter, bumped and read back in two steps by any *)
(* number of turns, lets no turn cancel itself or a newer one.               *)

\* Where a request has no count of its own to be compared: between its bump and
\* its read, and once its tool loop is over.
Uncounted == {"readBarge", "release", "persist", "done"}

\* The counter is the highest ticket drawn.
Drawn ==
  /\ \A q \in Req : ticket[q] <= barge
  /\ barge = 0 \/ \E q \in Req : ticket[q] = barge

\* The count a turn has read includes its own bump.
Noted ==
  \A r \in Req : pc[r] \notin Uncounted =>
    /\ ticket[r] <= local[r].bargeAt
    /\ local[r].bargeAt <= barge

\* What is cancelled has ended.
Over == \A r \in Req : outcome[r] = "interrupted" => pc[r] = "done"

BargeInv == Drawn /\ Noted /\ Over /\ CancelledByNewer

LEMMA BargeInit == ASSUME Init PROVE BargeInv
  BY DEF Init, BargeInv, Drawn, Noted, Over, CancelledByNewer, Fresh

\* A step of request r that neither bumps nor reads the counter, nor cancels.
LEMMA UncountedStep ==
  ASSUME TypeInv, BargeInv, NEW r \in Req, NEW to, NEW m,
         pc' = [pc EXCEPT ![r] = to], local' = [local EXCEPT ![r] = m], pc[r] # "done",
         to \notin Uncounted => pc[r] \notin Uncounted /\ m.bargeAt = local[r].bargeAt,
         outcome'[r] # "interrupted", \A q \in Req : q # r => outcome'[q] = outcome[q],
         UNCHANGED <<barge, ticket>>
  PROVE  BargeInv'
  <1>1. \A q \in Req : q # r => pc'[q] = pc[q] /\ local'[q] = local[q]
    BY DEF TypeInv, TypeOK, ControlTypeOK
  <1>2. pc'[r] = to /\ local'[r] = m
    BY DEF TypeInv, TypeOK, ControlTypeOK
  <1>3. Drawn'
    BY DEF BargeInv, Drawn
  <1>4. Noted'
    BY <1>1, <1>2 DEF BargeInv, Noted
  <1>5. Over'
    BY <1>1, <1>2 DEF BargeInv, Over
  <1>6. CancelledByNewer'
    BY DEF BargeInv, CancelledByNewer
  <1> QED
    BY <1>3, <1>4, <1>5, <1>6 DEF BargeInv

\* The same for a step that returns with another outcome,
LEMMA UncountedReturn ==
  ASSUME TypeInv, BargeInv, NEW r \in Req, NEW from, NEW o, Return(r, from, o), from # "done",
         o # "interrupted", UNCHANGED <<barge, ticket>>
  PROVE  BargeInv'
  <1>1. outcome'[r] # "interrupted" /\ \A q \in Req : q # r => outcome'[q] = outcome[q]
    BY DEF Return, TypeInv, TypeOK, ControlTypeOK
  <1> QED
    BY <1>1, UncountedStep DEF Return, Uncounted

\* for one that ends the tool loop,
LEMMA UncountedEnds ==
  ASSUME TypeInv, BargeInv, NEW r \in Req, NEW from, NEW o, LoopEnds(r, from, o), from # "done",
         o # "interrupted", UNCHANGED <<barge, ticket>>
  PROVE  BargeInv'
  <1> DEFINE m == [Fresh EXCEPT !.copy = Append(local[r].copy, [by |-> r, provider |-> client])]
  <1>1. outcome'[r] # "interrupted" /\ \A q \in Req : q # r => outcome'[q] = outcome[q]
    BY DEF LoopEnds, TypeInv, TypeOK, ControlTypeOK
  <1>2. local' = [local EXCEPT ![r] = m] /\ pc' = [pc EXCEPT ![r] = "release"] /\ pc[r] = from
    BY DEF LoopEnds
  <1> HIDE DEF m
  <1> QED
    BY <1>1, <1>2, UncountedStep DEF Uncounted

\* and for one that goes on with the same count.
LEMMA UncountedGoes ==
  ASSUME TypeInv, BargeInv, NEW r \in Req, NEW from, NEW to, NEW m, Goto(r, from, to),
         from # "done", from \in Uncounted => to \in Uncounted,
         local' = [local EXCEPT ![r] = m], m.bargeAt = local[r].bargeAt,
         UNCHANGED <<barge, ticket>>
  PROVE  BargeInv'
  <1>1. outcome' = outcome /\ outcome[r] # "interrupted"
    BY DEF Goto, BargeInv, Over
  <1> QED
    BY <1>1, UncountedStep DEF Goto

LEMMA UncountedKeeps ==
  ASSUME TypeInv, BargeInv, NEW r \in Req, NEW from, NEW to, Goto(r, from, to),
         from # "done", from \in Uncounted => to \in Uncounted,
         UNCHANGED <<local, barge, ticket>>
  PROVE  BargeInv'
  <1>1. local' = [local EXCEPT ![r] = local[r]]
    BY DEF TypeInv, TypeOK, ControlTypeOK
  <1> QED
    BY <1>1, UncountedGoes

\* A step that leaves every request alone.
LEMMA CountersKept ==
  ASSUME BargeInv, UNCHANGED <<pc, local, outcome, barge, ticket>> PROVE BargeInv'
  BY DEF BargeInv, Drawn, Noted, Over, CancelledByNewer

\* A turn draws the next ticket; the tickets of the others are older.
LEMMA BargeInStep ==
  ASSUME TypeInv, BargeInv, NEW r \in Req, BargeIn(r)
  PROVE  BargeInv'
  <1>0. /\ barge \in Nat /\ ticket \in [Req -> Nat] /\ local \in [Req -> Locals]
        /\ pc \in [Req -> PC]
    BY DEF TypeInv, TypeOK, ControlTypeOK, GhostTypeOK
  <1>1. /\ barge' = barge + 1 /\ ticket'[r] = barge + 1
        /\ \A q \in Req : q # r => ticket'[q] = ticket[q] /\ pc'[q] = pc[q]
        /\ pc'[r] = "readBarge" /\ UNCHANGED <<local, outcome>> /\ pc[r] = "bargeIn"
    BY <1>0 DEF BargeIn, Goto
  <1>2. \A q \in Req : ticket[q] \in Nat /\ ticket[q] <= barge /\ local[q].bargeAt \in Nat
    BY <1>0 DEF BargeInv, Drawn, Locals
  <1>3. Drawn'
    BY <1>0, <1>1, <1>2 DEF Drawn
  <1>4. Noted'
    BY <1>0, <1>1, <1>2 DEF BargeInv, Noted, Uncounted
  <1>5. Over'
    BY <1>1 DEF BargeInv, Over
  <1>6. CancelledByNewer'
    <2> SUFFICES ASSUME NEW q \in Req, outcome[q] = "interrupted"
                 PROVE  \E p \in Req : ticket'[p] > ticket'[q]
      BY <1>1 DEF CancelledByNewer
    <2>1. q # r
      BY <1>1 DEF BargeInv, Over
    <2>2. ticket'[r] > ticket'[q]
      BY <2>1, <1>0, <1>1, <1>2
    <2> QED
      BY <2>2
  <1> QED
    BY <1>3, <1>4, <1>5, <1>6 DEF BargeInv

\* The count is read back: it is at least the turn's own ticket.
LEMMA ReadBargeStep ==
  ASSUME TypeInv, BargeInv, NEW r \in Req, ReadBarge(r)
  PROVE  BargeInv'
  <1>0. /\ barge \in Nat /\ ticket \in [Req -> Nat] /\ local \in [Req -> Locals]
        /\ pc \in [Req -> PC]
    BY DEF TypeInv, TypeOK, ControlTypeOK, GhostTypeOK
  <1>1. /\ local'[r].bargeAt = barge
        /\ \A q \in Req : q # r => local'[q] = local[q] /\ pc'[q] = pc[q]
        /\ UNCHANGED <<barge, ticket, outcome>> /\ pc[r] = "readBarge"
    BY <1>0 DEF ReadBarge, Goto, ghostVars, Locals
  <1>2. Noted'
    BY <1>0, <1>1 DEF BargeInv, Drawn, Noted
  <1>3. Drawn' /\ CancelledByNewer'
    BY <1>1 DEF BargeInv, Drawn, CancelledByNewer
  <1>4. Over'
    BY <1>1 DEF BargeInv, Over
  <1> QED
    BY <1>2, <1>3, <1>4 DEF BargeInv

\* A turn is cancelled when the count has moved on from the one it read: the
\* highest ticket was drawn by another.
LEMMA CancelStep ==
  ASSUME TypeInv, BargeInv, NEW r \in Req, Cancel(r)
  PROVE  BargeInv'
  <1>0. /\ barge \in Nat /\ ticket \in [Req -> Nat] /\ local \in [Req -> Locals]
        /\ pc \in [Req -> PC] /\ outcome \in [Req -> Outcome]
    BY DEF TypeInv, TypeOK, ControlTypeOK, GhostTypeOK
  <1>1. /\ pc[r] \in {"model", "tool"} /\ pc'[r] = "done"
        /\ \A q \in Req : q # r => pc'[q] = pc[q] /\ local'[q] = local[q]
                                     /\ outcome'[q] = outcome[q]
        /\ UNCHANGED <<barge, ticket>>
    BY <1>0 DEF Cancel, Return, ghostVars
  <1>2. \E q \in Req : ticket[q] > ticket[r]
    <2>1. local[r].bargeAt \in Nat /\ ticket[r] \in Nat
      BY <1>0 DEF Locals
    <2>2. ticket[r] <= local[r].bargeAt /\ local[r].bargeAt <= barge
      BY <1>1 DEF BargeInv, Noted, Uncounted
    <2>3. barge # local[r].bargeAt
      BY DEF Cancel, Cancelled
    <2>4. PICK q \in Req : ticket[q] = barge
      BY <1>0, <2>1, <2>2, <2>3 DEF BargeInv, Drawn
    <2>5. ticket[q] > ticket[r]
      BY <1>0, <2>1, <2>2, <2>3, <2>4
    <2> QED
      BY <2>5
  <1>3. Drawn'
    BY <1>1 DEF BargeInv, Drawn
  <1>4. Noted'
    BY <1>1 DEF BargeInv, Noted, Uncounted
  <1>5. Over'
    BY <1>1 DEF BargeInv, Over
  <1>6. CancelledByNewer'
    BY <1>1, <1>2 DEF BargeInv, CancelledByNewer
  <1> QED
    BY <1>3, <1>4, <1>5, <1>6 DEF BargeInv

\* One case for each action of a request.
LEMMA BargeInvStep ==
  ASSUME TypeInv, BargeInv, NEW r \in Req, Step(r)
  PROVE  BargeInv'
  <1> DEFINE l == local[r]
  <1>0. local \in [Req -> Locals] /\ l \in Locals
    BY DEF TypeInv, TypeOK, ControlTypeOK
  <1> USE DEF Uncounted, ghostVars
  <1>1. CASE BargeIn(r)
    BY <1>1, BargeInStep
  <1>2. CASE ReadBarge(r)
    BY <1>2, ReadBargeStep
  <1>3. CASE Begin(r)
    BY <1>3, UncountedKeeps DEF Begin
  <1>4. CASE NeedsKey(r)
    BY <1>4, UncountedReturn DEF NeedsKey
  <1>5. CASE LoadTurn(r) \/ HoldReads(r)
    <2>1. local' = [local EXCEPT ![r] = [l EXCEPT !.loaded = turn]]
      BY <1>5 DEF LoadTurn, HoldReads
    <2>2. [l EXCEPT !.loaded = turn].bargeAt = l.bargeAt
      BY <1>0 DEF Locals
    <2> QED
      BY <1>5, <2>1, <2>2, UncountedGoes DEF LoadTurn, HoldReads
  <1>6. CASE Resolve(r)
    <2>1. PICK p : local' = [local EXCEPT ![r].taken = {p}]
      BY <1>6 DEF Resolve
    <2>2. local' = [local EXCEPT ![r] = [l EXCEPT !.taken = {p}]]
      BY <2>1
    <2>3. [l EXCEPT !.taken = {p}].bargeAt = l.bargeAt
      BY <1>0 DEF Locals
    <2> QED
      BY <1>6, <2>2, <2>3, UncountedGoes DEF Resolve
  <1>7. CASE UnknownToken(r)
    BY <1>7, UncountedReturn DEF UnknownToken
  <1>8. CASE NonePending(r)
    BY <1>8, UncountedKeeps DEF NonePending
  <1>9. CASE ExecuteParked(r)
    BY <1>9, UncountedReturn DEF ExecuteParked
  <1>10. CASE NoReflex(r)
    BY <1>10, UncountedKeeps, UncountedReturn DEF NoReflex, Escalate
  <1>11. CASE Reflex(r)
    BY <1>11, UncountedKeeps DEF Reflex
  <1>12. CASE ReflexDone(r)
    BY <1>12, UncountedKeeps, UncountedReturn DEF ReflexDone, Escalate
  <1>13. CASE TakeReasoner(r)
    BY <1>13, UncountedKeeps DEF TakeReasoner
  <1>14. CASE NoClient(r)
    BY <1>14, UncountedReturn DEF NoClient
  <1>15. CASE Think(r)
    <2> DEFINE m == [[l EXCEPT !.copy = history] EXCEPT !.round = 1]
    <2>1. local' = [local EXCEPT ![r] = m] /\ m.bargeAt = l.bargeAt
      BY <1>15, <1>0 DEF Think, Locals
    <2> HIDE DEF m
    <2> QED
      BY <1>15, <2>1, UncountedGoes DEF Think
  <1>16. CASE Cancel(r)
    BY <1>16, CancelStep
  <1>17. CASE ModelEnds(r)
    BY <1>17, UncountedEnds DEF ModelEnds
  <1>18. CASE ModelCalls(r)
    <2>1. PICK calls \in Responses, c \in BOOLEAN :
            local' = [local EXCEPT ![r].todo = calls, ![r].confirming = c]
      BY <1>18 DEF ModelCalls
    <2> DEFINE m == [[l EXCEPT !.todo = calls] EXCEPT !.confirming = c]
    <2>2. local' = [local EXCEPT ![r] = m] /\ m.bargeAt = l.bargeAt
      BY <2>1, <1>0 DEF Locals
    <2> HIDE DEF m
    <2> QED
      BY <1>18, <2>2, UncountedGoes DEF ModelCalls
  <1>19. CASE NextRound(r)
    <2>1. CASE LoopEnds(r, "calls", "reply")
      BY <1>19, <2>1, UncountedEnds DEF NextRound
    <2>2. CASE /\ Goto(r, "calls", "model")
               /\ local' = [local EXCEPT ![r].round = @ + 1, ![r].confirming = FALSE]
      <3> DEFINE m == [[l EXCEPT !.round = l.round + 1] EXCEPT !.confirming = FALSE]
      <3>1. local' = [local EXCEPT ![r] = m] /\ m.bargeAt = l.bargeAt
        BY <2>2, <1>0 DEF Locals
      <3> HIDE DEF m
      <3> QED
        BY <1>19, <2>2, <3>1, UncountedGoes DEF NextRound
    <2> QED
      BY <1>19, <2>1, <2>2 DEF NextRound
  <1>20. CASE Refuse(r) \/ RunTool(r)
    <2> DEFINE m == [l EXCEPT !.todo = Tail(l.todo)]
    <2>1. PICK to \in {"calls", "tool"} : Goto(r, "calls", to)
      BY <1>20 DEF Refuse, RunTool
    <2>2. local' = [local EXCEPT ![r] = m] /\ m.bargeAt = l.bargeAt
      BY <1>20, <1>0 DEF Refuse, RunTool, Locals
    <2> HIDE DEF m
    <2> QED
      BY <1>20, <2>1, <2>2, UncountedGoes DEF Refuse, RunTool
  <1>21. CASE ToolDone(r)
    BY <1>21, UncountedKeeps DEF ToolDone
  <1>22. CASE Hold(r)
    BY <1>22, UncountedEnds DEF Hold
  <1>23. CASE Release(r)
    BY <1>23, UncountedKeeps DEF Release
  <1>24. CASE Persist(r)
    <2>1. outcome[r] # "interrupted"
      BY <1>24 DEF Persist, Return, BargeInv, Over
    <2> QED
      BY <1>24, <2>1, UncountedReturn DEF Persist
  <1> QED
    BY <1>1, <1>2, <1>3, <1>4, <1>5, <1>6, <1>7, <1>8, <1>9, <1>10, <1>11, <1>12, <1>13,
       <1>14, <1>15, <1>16, <1>17, <1>18, <1>19, <1>20, <1>21, <1>22, <1>23, <1>24
       DEF Step

LEMMA BargeInvNext ==
  ASSUME TypeInv, BargeInv, [Next]_vars PROVE BargeInv'
  <1> USE DEF ghostVars, Uncounted
  <1>1. ASSUME NEW r \in Req, Arrive(r) PROVE BargeInv'
    BY <1>1, UncountedKeeps, UncountedReturn DEF Arrive, Say, SayPaused, ConfirmToken
  <1>2. ASSUME NEW r \in Req, Disconnect(r) PROVE BargeInv'
    BY <1>2, UncountedReturn DEF Disconnect, Awaits
  <1>3. ASSUME NEW c \in Switcher, Switch(c) \/ DisconnectSwitch(c) PROVE BargeInv'
    BY <1>3, CountersKept DEF Switch, CompareProvider, WriteProvider, KeyChanged,
       ResetClient, ClearHistory, DisconnectSwitch, switcherFrame
  <1>4. CASE DropHold \/ LockChanges \/ AttachTools
    BY <1>4, CountersKept DEF DropHold, LockChanges, AttachTools
  <1>5. CASE UNCHANGED vars
    BY <1>5, CountersKept DEF vars
  <1> QED
    BY <1>1, <1>2, <1>3, <1>4, <1>5, BargeInvStep DEF Next

\* For any number of turns bumping the barge counter and reading it back in any
\* order, a turn is cancelled only by one that barged in after it: the one that
\* barged in last is never cancelled.
THEOREM OnlyNewerCancels == Spec => []CancelledByNewer
  <1>1. Init => BargeInv
    BY BargeInit
  <1>2. TypeInv /\ BargeInv /\ [Next]_vars => BargeInv'
    BY BargeInvNext
  <1>3. BargeInv => CancelledByNewer
    BY DEF BargeInv
  <1> QED
    BY <1>1, <1>2, <1>3, TypeInvariant, PTL DEF Spec
=============================================================================
