---------------------------- MODULE DisplayProofs ----------------------------
(***************************************************************************)
(* Theorems about what is shown, said and heard.  Of Display: what is      *)
(* shown comes to rest, a silenced reply plays at most one more sentence,  *)
(* and it changes nothing that is shown, for any number of requests,       *)
(* recordings and dropped holds.  Of Sentences: a reply of any length is   *)
(* spoken whole.  Of Reflexes: a word nobody knows escalates a transcript. *)
(* Of Commands: a command line is judged by each of its parts.             *)
(***************************************************************************)
EXTENDS Display, Sentences, Reflexes, Commands, Induction, FiniteSetTheorems, TLAPS

Live == {"recv", "synth", "play", "drain"}

\* Where a request is bound to write a state of its own yet, or to say that it
\* will not (silent).
Handling == {"barge", "bump", "stop", "decide", "acting", "executing", "reflexAct", "reason",
             "think", "speak"}

\* Who will bring the display to rest: the end of startup, the ears, a request
\* that has not written its state yet, or the reply that has the generation.
InCharge ==
  \/ ~started
  \/ ears # "off"
  \/ \E r \in Req : pc[r] \in Handling
  \/ \E r \in Req : generation = r /\ stream[r].phase \in Live

\* Whatever is shown, it rests or somebody is in charge; whoever takes the
\* generation from a reply takes the charge with it.
Charge == silent \/ state \in {"Idle", "Waiting"} \/ InCharge

\* A request has no stream before it starts one.
Unspoken ==
  \A r \in Req : pc[r] \notin {"model", "release", "announce", "done"} => stream[r].phase = "none"

\* Reply r is one an interruption has in hand or has silenced.
Interrupted(r) == r \in silenced \/ r \in earsOlder \/ \E q \in Req : r \in older[q]

\* It was being spoken then, and has lost the generation for good.
Outdated == \A r \in Req : Interrupted(r) => generation # r /\ stream[r].phase # "none"

\* The sentence that is late was admitted before the interruption.
Admitted ==
  \A r \in Req : late[r] = 0 \/ (late[r] = 1 /\ r \in silenced /\ stream[r].phase # "play")

SpeechInv == Unspoken /\ Outdated /\ Admitted

DisplayInv == TypeOK /\ SpeechInv /\ Charge

-----------------------------------------------------------------------------
(* What a step does to the tasks that speak *)

LEMMA SetTask ==
  ASSUME DisplayAssumption, NEW t \in Stream
  PROVE  /\ NoStream \in Stream
         /\ [t EXCEPT !.closed = TRUE] \in Stream
         /\ \A n \in 0..MaxSentences : [t EXCEPT !.text = n] \in Stream
         /\ \A p \in Phase : [t EXCEPT !.phase = p] \in Stream
  <1>1. NoStream \in Stream
    BY DEF DisplayAssumption, Stream, NoStream, Phase
  <1>2. [t EXCEPT !.closed = TRUE] \in Stream
    BY DEF Stream
  <1>3. ASSUME NEW n \in 0..MaxSentences PROVE [t EXCEPT !.text = n] \in Stream
    BY DEF Stream
  <1>4. ASSUME NEW p \in Phase PROVE [t EXCEPT !.phase = p] \in Stream
    BY DEF Stream
  <1> QED
    BY <1>1, <1>2, <1>3, <1>4

\* The streams keep their type; request r's goes to phase p, the others stay.
Moves(r, p) ==
  /\ stream' \in [Req -> Stream]
  /\ stream'[r].phase = p
  /\ \A q \in Req : q # r => stream'[q] = stream[q]

LEMMA TaskMoves ==
  ASSUME TypeOK, NEW r \in Req, NEW t \in Stream, stream' = [stream EXCEPT ![r] = t]
  PROVE  Moves(r, t.phase)
  BY DEF TypeOK, Moves

\* The stream of a reply, and the one sentence of an answer.
ReplyTask  == [NoStream EXCEPT !.phase = "recv"]
AnswerTask == [NoStream EXCEPT !.phase = "synth", !.closed = TRUE]

LEMMA SpawnMoves ==
  ASSUME DisplayAssumption, TypeOK, NEW r \in Req
  PROVE  /\ Spawn(r, ReplyTask) => Moves(r, "recv")
         /\ Spawn(r, AnswerTask) => Moves(r, "synth")
  <1>1. NoStream \in Stream /\ NoStream.phase = "none" /\ {"none", "recv", "synth"} \subseteq Phase
    BY DEF DisplayAssumption, Stream, NoStream, Phase
  <1>2. ReplyTask \in Stream /\ ReplyTask.phase = "recv"
    BY <1>1, SetTask DEF ReplyTask, NoStream
  <1>3. AnswerTask = [[NoStream EXCEPT !.phase = "synth"] EXCEPT !.closed = TRUE]
    BY DEF AnswerTask, NoStream
  <1>4. AnswerTask \in Stream
    <2> DEFINE u == [NoStream EXCEPT !.phase = "synth"]
    <2>1. u \in Stream
      BY <1>1, SetTask
    <2> HIDE DEF u
    <2>2. [u EXCEPT !.closed = TRUE] \in Stream
      BY <2>1, SetTask
    <2> QED
      BY <1>3, <2>2 DEF u
  <1>5. AnswerTask.phase = "synth"
    BY DEF AnswerTask, NoStream
  <1> QED
    BY <1>2, <1>4, <1>5, TaskMoves DEF Spawn

LEMMA CloseMoves ==
  ASSUME DisplayAssumption, TypeOK, NEW r \in Req, Close(r)
  PROVE  Moves(r, stream[r].phase)
  <1>1. stream[r] \in Stream
    BY DEF TypeOK
  <1>2. [stream[r] EXCEPT !.closed = TRUE].phase = stream[r].phase
    BY <1>1 DEF Stream
  <1>3. stream' = [stream EXCEPT ![r] = [stream[r] EXCEPT !.closed = TRUE]]
    BY DEF Close
  <1> QED
    BY <1>1, <1>2, <1>3, SetTask, TaskMoves

LEMMA ToMoves ==
  ASSUME DisplayAssumption, TypeOK, NEW r \in Req, NEW from, NEW to \in Phase, To(r, from, to)
  PROVE  Moves(r, to)
  <1>1. stream[r] \in Stream /\ NoStream \in Stream /\ "ended" \in Phase
    BY SetTask DEF TypeOK, Phase
  <1>2. [stream[r] EXCEPT !.phase = to] \in Stream /\ [stream[r] EXCEPT !.phase = to].phase = to
    BY <1>1, SetTask DEF Stream
  <1>3. [NoStream EXCEPT !.phase = "ended"] \in Stream
    BY <1>1, SetTask
  <1>4. [NoStream EXCEPT !.phase = "ended"].phase = "ended"
    BY DEF NoStream
  <1>5. stream' = [stream EXCEPT ![r] = IF to = "ended" THEN [NoStream EXCEPT !.phase = "ended"]
                                        ELSE [stream[r] EXCEPT !.phase = to]]
    BY DEF To
  <1> QED
    BY <1>2, <1>3, <1>4, <1>5, TaskMoves

\* A sentence more, or the sentences there are received or dropped.
LEMMA TextMoves ==
  ASSUME DisplayAssumption, TypeOK, NEW r \in Req, NEW p \in Phase, NEW n \in 0..MaxSentences,
         stream' = [stream EXCEPT ![r] = [[stream[r] EXCEPT !.phase = p] EXCEPT !.text = n]]
  PROVE  Moves(r, p)
  <1>1. stream[r] \in Stream
    BY DEF TypeOK
  <1>2. /\ [[stream[r] EXCEPT !.phase = p] EXCEPT !.text = n] \in Stream
        /\ [[stream[r] EXCEPT !.phase = p] EXCEPT !.text = n].phase = p
    BY <1>1, SetTask DEF Stream
  <1> QED
    BY <1>2, TaskMoves

LEMMA WriteMoves ==
  ASSUME DisplayAssumption, TypeOK, NEW r \in Req, WriteSentence(r)
  PROVE  Moves(r, stream[r].phase)
  <1>1. stream[r] \in Stream /\ stream[r].text \in 0..MaxSentences /\ stream[r].phase \in Phase
    BY DEF TypeOK, Stream
  <1>2. stream[r].text + 1 \in 0..MaxSentences
    BY <1>1 DEF WriteSentence, DisplayAssumption
  <1>3. stream' = [stream EXCEPT ![r] =
                     [[stream[r] EXCEPT !.phase = stream[r].phase] EXCEPT !.text = stream[r].text + 1]]
    BY <1>1 DEF WriteSentence, TypeOK, Stream
  <1> QED
    BY <1>1, <1>2, <1>3, TextMoves

LEMMA ReceiveMoves ==
  ASSUME DisplayAssumption, TypeOK, NEW r \in Req, Receive(r)
  PROVE  Moves(r, IF generation = r THEN "synth" ELSE "ended")
  <1>1. CASE generation = r
    <2>1. stream[r] \in Stream /\ stream[r].text - 1 \in 0..MaxSentences /\ "synth" \in Phase
      BY DEF TypeOK, Stream, Receive, Phase, DisplayAssumption
    <2>2. stream' = [stream EXCEPT ![r] =
                       [[stream[r] EXCEPT !.phase = "synth"] EXCEPT !.text = stream[r].text - 1]]
      BY <1>1, <2>1 DEF Receive, Stream
    <2> QED
      BY <1>1, <2>1, <2>2, TextMoves
  <1>2. CASE generation # r
    BY <1>2, ToMoves DEF Receive, Phase
  <1> QED
    BY <1>1, <1>2

LEMMA SynthesisFailsMoves ==
  ASSUME DisplayAssumption, TypeOK, NEW r \in Req, SynthesisFails(r)
  PROVE  Moves(r, "recv")
  <1>1. PICK n \in 0..stream[r].text : stream' = [stream EXCEPT ![r].phase = "recv", ![r].text = n]
    BY DEF SynthesisFails
  <1>2. stream[r] \in Stream /\ n \in 0..MaxSentences /\ "recv" \in Phase
    BY DEF TypeOK, Stream, Phase, DisplayAssumption
  <1>3. stream' = [stream EXCEPT ![r] = [[stream[r] EXCEPT !.phase = "recv"] EXCEPT !.text = n]]
    BY <1>1, <1>2 DEF Stream
  <1> QED
    BY <1>2, <1>3, TextMoves

LEMMA PlayMoves ==
  ASSUME DisplayAssumption, TypeOK, NEW r \in Req, Play(r)
  PROVE  Moves(r, "recv")
  <1> DEFINE t == [[stream[r] EXCEPT !.phase = "recv"] EXCEPT !.first = FALSE]
  <1>0. stream[r] \in Stream /\ "recv" \in Phase
    BY DEF TypeOK, Phase
  <1>1. t \in Stream /\ t.phase = "recv"
    BY <1>0 DEF Stream
  <1>2. stream' = [stream EXCEPT ![r] = t]
    BY DEF Play, TypeOK, Stream
  <1> HIDE DEF t
  <1> QED
    BY <1>1, <1>2, TaskMoves

-----------------------------------------------------------------------------
(* Type correctness *)

LEMMA TypeInit == ASSUME DisplayAssumption, Init PROVE TypeOK
  <1>1. NoStream \in Stream
    BY DEF DisplayAssumption, Stream, NoStream, Phase
  <1>2. stream \in [Req -> Stream]
    BY <1>1 DEF Init
  <1>3. drop \in [Dropper -> {"new", "pending", "state", "idle", "done"}]
    BY DEF Init
  <1>4. /\ older \in [Req -> SUBSET Req] /\ late \in [Req -> Nat]
        /\ pc \in [Req -> PC] /\ kind \in [Req -> Kind] /\ outcome \in [Req -> Outcome]
    BY DEF Init, PC, Kind, Outcome
  <1>5. presses \in 0..MaxPresses
    BY DEF Init, DisplayAssumption
  <1> QED
    BY <1>2, <1>3, <1>4, <1>5 DEF Init, TypeOK, State

\* The steps of a request that leave the streams alone.
LEMMA TypeStep ==
  ASSUME DisplayAssumption, TypeOK, NEW r \in Req, Arrive(r) \/ Step(r), UNCHANGED stream
  PROVE  TypeOK'
  <1> USE DEF TypeOK, Goto, Others
  <1>1. CASE Arrive(r)
    BY <1>1 DEF Arrive, Speech, DisplayAssumption, PC
  <1>2. CASE BargeIn(r)
    BY <1>2 DEF BargeIn, Speech, PC
  <1>3. CASE Interrupt(r)
    BY <1>3 DEF Interrupt, Bump, Replies, PC
  <1>4. CASE StopSink(r)
    BY <1>4 DEF StopSink, Silence, PC
  <1>5. CASE TakeHold(r) \/ GoOn(r) \/ ReflexFails(r) \/ TakeReasoner(r)
    BY <1>5 DEF TakeHold, GoOn, ReflexFails, TakeReasoner, Speech, PC
  <1>6. CASE ResolveNothing(r) \/ CannotReason(r)
    <2>1. PICK from : ReturnSilently(r, from)
      BY <1>6 DEF ResolveNothing, CannotReason
    <2>2. silent' \in BOOLEAN /\ pc' \in [Req -> PC] /\ kind' \in [Req -> Kind]
      BY <2>1 DEF ReturnSilently, PC, Kind
    <2> QED
      BY <1>6, <2>1, <2>2 DEF ResolveNothing, CannotReason, ReturnSilently, Speech
  <1>7. CASE ConfirmActs(r) \/ Reflex(r) \/ ReflexDone(r) \/ Think(r)
    BY <1>7 DEF ConfirmActs, Reflex, ReflexDone, Think, Set, State, Speech, PC
  <1>8. CASE Confirmed(r)
    BY <1>8 DEF Confirmed, Return, Set, State, Speech, PC, Kind, Outcome
  <1>9. CASE Answer(r)
    <2>1. generation' \in Req \cup {None}
      BY <1>9 DEF Answer, Spawn, Speech
    <2> QED
      BY <1>9, <2>1 DEF Answer, Spawn, Return, Speech, PC, Kind, Outcome
  <1>10. CASE SpeakStream(r)
    BY <1>10 DEF SpeakStream, Spawn, PC
  <1>11. CASE Cancel(r)
    BY <1>11 DEF Cancel, Close, Return, PC, Kind, Outcome
  <1>12. CASE LoopEnds(r)
    BY <1>12 DEF LoopEnds, Speech, PC, Outcome
  <1>13. CASE Release(r)
    BY <1>13 DEF Release, Close, PC
  <1>14. CASE Announce(r)
    BY <1>14 DEF Announce, Return, Set, State, Speech, PC, Kind, Outcome
  <1> QED
    BY <1>1, <1>2, <1>3, <1>4, <1>5, <1>6, <1>7, <1>8, <1>9, <1>10, <1>11, <1>12, <1>13,
       <1>14 DEF Step

\* A step that changes the streams as Moves says, and what it does to the rest.
LEMMA TypeMoves ==
  ASSUME DisplayAssumption, TypeOK, NEW r \in Req,
         Arrive(r) \/ Step(r) \/ Disconnect(r) \/ WriteSentence(r) \/ Speaks(r),
         stream' \in [Req -> Stream]
  PROVE  TypeOK'
  <1> USE DEF TypeOK
  <1>1. CASE UNCHANGED stream /\ (Arrive(r) \/ Step(r))
    BY <1>1, TypeStep
  <1>2. CASE Answer(r)
    <2>1. generation' \in Req \cup {None}
      BY <1>2 DEF Answer, Spawn, Speech
    <2>2. /\ pc' \in [Req -> PC] /\ kind' \in [Req -> Kind] /\ outcome' \in [Req -> Outcome]
          /\ barged' \in SUBSET Req /\ UNCHANGED silent
      BY <1>2 DEF Answer, Return, PC, Kind, Outcome
    <2> QED
      BY <1>2, <2>1, <2>2 DEF Answer, Spawn, Speech, Others
  <1>3. CASE SpeakStream(r)
    BY <1>3 DEF SpeakStream, Spawn, Goto, Others, PC
  <1>4. CASE Cancel(r)
    BY <1>4 DEF Cancel, Close, Return, Others, PC, Kind, Outcome
  <1>5. CASE Release(r)
    BY <1>5 DEF Release, Close, Goto, Others, PC
  <1>6. CASE Disconnect(r)
    <2>1. /\ pc' \in [Req -> PC] /\ kind' \in [Req -> Kind] /\ outcome' \in [Req -> Outcome]
          /\ barged' \in SUBSET Req /\ silent' \in BOOLEAN
      <3>1. CASE Return(r, "model")
        BY <3>1 DEF Return, PC, Kind, Outcome
      <3>2. ASSUME NEW from, ReturnSilently(r, from)
            PROVE  /\ pc' \in [Req -> PC] /\ kind' \in [Req -> Kind]
                   /\ outcome' \in [Req -> Outcome] /\ barged' \in SUBSET Req
                   /\ silent' \in BOOLEAN
        BY <3>2 DEF ReturnSilently, PC, Kind
      <3> QED
        BY <1>6, <3>1, <3>2 DEF Disconnect
    <2>2. /\ UNCHANGED <<generation, sink, older, silenced, late>>
          /\ slot' \in Req \cup {None}
      BY <1>6 DEF Disconnect, Close, Speech
    <2> QED
      BY <1>6, <2>1, <2>2 DEF Disconnect, Others
  <1>7. CASE WriteSentence(r)
    BY <1>7 DEF WriteSentence, turnVars, ghostVars
  <1>8. CASE Receive(r) \/ SynthesisFails(r) \/ StreamClosed(r)
    BY <1>8 DEF Receive, SynthesisFails, StreamClosed, streamFrame, turnVars
  <1>9. CASE Admit(r)
    BY <1>9 DEF Admit, SetIfCurrent, State, streamFrame, turnVars
  <1>10. CASE Play(r)
    <2>1. late' \in [Req -> Nat]
      BY <1>10 DEF Play
    <2> QED
      BY <1>10, <2>1 DEF Play, streamFrame, turnVars
  <1>11. CASE StreamEnds(r)
    BY <1>11 DEF StreamEnds, SetIfCurrent, State, streamFrame, turnVars
  <1>12. CASE ~Answer(r) /\ ~SpeakStream(r) /\ ~Cancel(r) /\ ~Release(r) /\ (Arrive(r) \/ Step(r))
    <2>1. UNCHANGED stream
      BY <1>12 DEF Arrive, Step, BargeIn, Interrupt, StopSink, TakeHold, ResolveNothing, GoOn,
         ConfirmActs, Confirmed, Reflex, ReflexFails, ReflexDone, CannotReason, TakeReasoner,
         Think, LoopEnds, Announce, Speech
    <2> QED
      BY <1>12, <2>1, TypeStep
  <1> QED
    BY <1>2, <1>3, <1>4, <1>5, <1>6, <1>7, <1>8, <1>9, <1>10, <1>11, <1>12 DEF Speaks

\* What the step of a request does to its stream.
LEMMA RequestMoves ==
  ASSUME DisplayAssumption, TypeOK, NEW r \in Req,
         Arrive(r) \/ Step(r) \/ Disconnect(r) \/ WriteSentence(r) \/ Speaks(r)
  PROVE  \E p \in Phase : Moves(r, p)
  <1>0. stream[r] \in Stream /\ stream[r].phase \in Phase
    BY DEF TypeOK, Stream
  <1>1. CASE UNCHANGED stream
    BY <1>0, <1>1 DEF Moves, TypeOK
  <1>2. CASE Answer(r) /\ ~UNCHANGED stream
    <2>1. "synth" \in Phase /\ Spawn(r, AnswerTask)
      BY <1>2 DEF Answer, Speech, Phase, AnswerTask
    <2> QED
      BY <2>1, SpawnMoves
  <1>3. CASE SpeakStream(r)
    <2>1. "recv" \in Phase /\ Spawn(r, ReplyTask)
      BY <1>3 DEF SpeakStream, Phase, ReplyTask
    <2> QED
      BY <2>1, SpawnMoves
  <1>4. CASE Close(r)
    BY <1>0, <1>4, CloseMoves
  <1>5. CASE WriteSentence(r)
    BY <1>0, <1>5, WriteMoves
  <1>6. CASE Receive(r)
    BY <1>6, ReceiveMoves DEF Phase
  <1>7. CASE SynthesisFails(r)
    BY <1>7, SynthesisFailsMoves DEF Phase
  <1>8. CASE Admit(r)
    BY <1>8, ToMoves DEF Admit, Phase
  <1>9. CASE Play(r)
    BY <1>9, PlayMoves DEF Phase
  <1>10. CASE StreamClosed(r) \/ StreamEnds(r)
    BY <1>10, ToMoves DEF StreamClosed, StreamEnds, Phase
  <1> QED
    BY <1>1, <1>2, <1>3, <1>4, <1>5, <1>6, <1>7, <1>8, <1>9, <1>10
       DEF Arrive, Step, BargeIn, Interrupt, StopSink, TakeHold, ResolveNothing, GoOn,
         ConfirmActs, Confirmed, Reflex, ReflexFails, ReflexDone, CannotReason, TakeReasoner,
         Think, Cancel, LoopEnds, Release, Announce, Disconnect, Speaks, Speech

LEMMA TypeNext == ASSUME DisplayAssumption, TypeOK, [Next]_vars PROVE TypeOK'
  <1>1. ASSUME NEW r \in Req,
               Arrive(r) \/ Step(r) \/ Disconnect(r) \/ WriteSentence(r) \/ Speaks(r)
        PROVE  TypeOK'
    <2>1. stream' \in [Req -> Stream]
      BY <1>1, RequestMoves DEF Moves
    <2> QED
      BY <1>1, <2>1, TypeMoves
  <1> USE DEF TypeOK
  <1>2. CASE Drained
    BY <1>2 DEF Drained, streamFrame, turnVars
  <1>3. CASE EarsInterrupt \/ KeyDuringWake
    BY <1>3 DEF EarsInterrupt, KeyDuringWake, EarsTo, Bump, Replies, earsFrame, turnVars,
       DisplayAssumption
  <1>4. CASE Ears
    BY <1>4 DEF Ears, EarsStop, Listen, RecordingEnds, EarsTo, Silence, Set, State, earsFrame,
       turnVars
  <1>5. CASE Started
    BY <1>5 DEF Started, Set, State, Speech
  <1>6. ASSUME NEW d \in Dropper, Drops(d) PROVE TypeOK'
    BY <1>6 DEF Drops, Reject, LookPending, LookState, LeaveWaiting, DropTo, Set, State,
       dropFrame, Speech
  <1>7. CASE UNCHANGED vars
    BY <1>7 DEF vars, turnVars, ghostVars
  <1> QED
    BY <1>1, <1>2, <1>3, <1>4, <1>5, <1>6, <1>7 DEF Next

-----------------------------------------------------------------------------
(* Interrupted replies *)

Spoken == {"model", "release", "announce", "done"}

\* A step of request r that interrupts nobody and starts no reply.
LEMMA SpeechKept ==
  ASSUME TypeOK, SpeechInv, NEW r \in Req, NEW p, Moves(r, p),
         \A q \in Req : q # r => pc'[q] = pc[q],
         pc[r] \in Spoken => pc'[r] \in Spoken,
         pc'[r] \in Spoken \/ p = "none",
         stream[r].phase # "none" => p # "none",
         p = "play" => stream[r].phase = "play" \/ generation = r,
         UNCHANGED <<generation, silenced, older, earsOlder, late>>
  PROVE  SpeechInv'
  <1>1. Unspoken'
    BY DEF SpeechInv, Unspoken, Spoken, Moves
  <1>2. Outdated'
    BY DEF SpeechInv, Outdated, Interrupted, Moves
  <1>3. Admitted'
    BY DEF SpeechInv, Admitted, Outdated, Interrupted, Moves
  <1> QED
    BY <1>1, <1>2, <1>3 DEF SpeechInv

\* A step of request r that leaves the streams alone as well.
LEMMA SpeechStays ==
  ASSUME TypeOK, SpeechInv, NEW r \in Req, \A q \in Req : q # r => pc'[q] = pc[q],
         pc[r] \in Spoken => pc'[r] \in Spoken,
         pc'[r] \in Spoken => pc[r] \in Spoken \/ stream[r].phase = "none",
         UNCHANGED <<stream, generation, silenced, older, earsOlder, late>>
  PROVE  SpeechInv'
  BY DEF SpeechInv, Unspoken, Spoken, Outdated, Interrupted, Admitted

\* Request r starts a reply, its first.
LEMMA SpeechStarts ==
  ASSUME TypeOK, SpeechInv, NEW r \in Req, NEW p \in {"recv", "synth"}, Moves(r, p),
         \A q \in Req : q # r => pc'[q] = pc[q], pc[r] \notin Spoken, pc'[r] \in Spoken,
         generation' = r, UNCHANGED <<silenced, older, earsOlder, late>>
  PROVE  SpeechInv'
  <1>1. stream[r].phase = "none"
    BY DEF SpeechInv, Unspoken, Spoken
  <1>2. Unspoken'
    BY DEF SpeechInv, Unspoken, Spoken, Moves
  <1>3. Outdated'
    BY <1>1 DEF SpeechInv, Outdated, Interrupted, Moves
  <1>4. Admitted'
    BY <1>1 DEF SpeechInv, Admitted, Moves
  <1> QED
    BY <1>2, <1>3, <1>4 DEF SpeechInv

\* One case for each action of a request.
LEMMA SpeechStep ==
  ASSUME DisplayAssumption, TypeOK, SpeechInv, NEW r \in Req,
         Arrive(r) \/ Step(r) \/ Disconnect(r)
  PROVE  SpeechInv'
  <1>0. pc \in [Req -> PC] /\ stream[r] \in Stream
    BY DEF TypeOK
  <1> USE DEF Goto, Return, ReturnSilently, Speech, Others, Spoken
  <1>1. CASE Arrive(r)
    BY <1>0, <1>1, SpeechStays DEF Arrive
  <1>2. CASE BargeIn(r) \/ TakeHold(r) \/ GoOn(r) \/ ConfirmActs(r) \/ Reflex(r)
    BY <1>0, <1>2, SpeechStays DEF BargeIn, TakeHold, GoOn, ConfirmActs, Reflex
  <1>3. CASE ReflexFails(r) \/ ReflexDone(r) \/ TakeReasoner(r) \/ Think(r) \/ LoopEnds(r)
    BY <1>0, <1>3, SpeechStays DEF ReflexFails, ReflexDone, TakeReasoner, Think, LoopEnds
  <1>4. CASE ResolveNothing(r) \/ Confirmed(r) \/ CannotReason(r) \/ Announce(r)
    <2>1. pc[r] \in Spoken \/ stream[r].phase = "none"
      BY DEF SpeechInv, Unspoken
    <2> QED
      BY <1>0, <1>4, <2>1, SpeechStays DEF ResolveNothing, Confirmed, CannotReason, Announce
  <1>5. CASE Interrupt(r)
    <2>1. /\ \A q \in Req : q # r => pc'[q] = pc[q] /\ older'[q] = older[q]
          /\ older'[r] = Replies /\ generation' = None /\ None \notin Req
          /\ pc[r] = "bump" /\ pc'[r] = "stop"
          /\ UNCHANGED <<stream, silenced, earsOlder, late>>
      BY <1>0, <1>5 DEF Interrupt, Bump, TypeOK, DisplayAssumption
    <2>2. \A q \in Replies : q \in Req /\ stream[q].phase # "none"
      BY DEF Replies
    <2> HIDE DEF Goto
    <2>3. Outdated'
      BY <2>1, <2>2 DEF SpeechInv, Outdated, Interrupted
    <2> QED
      BY <2>1, <2>3 DEF SpeechInv, Unspoken, Admitted
  <1>6. CASE StopSink(r)
    <2>1. /\ \A q \in Req : q # r => pc'[q] = pc[q] /\ older'[q] = older[q]
          /\ older'[r] = {} /\ silenced' = silenced \cup older[r]
          /\ pc[r] = "stop" /\ pc'[r] = "decide"
          /\ UNCHANGED <<stream, generation, earsOlder, late>>
      BY <1>0, <1>6 DEF StopSink, Silence, TypeOK
    <2>2. Outdated'
      BY <2>1 DEF SpeechInv, Outdated, Interrupted
    <2> QED
      BY <2>1, <2>2 DEF SpeechInv, Unspoken, Admitted
  <1>7. CASE Answer(r)
    <2>1. CASE UNCHANGED Speech
      <3>1. stream[r].phase = "none"
        BY <1>7 DEF Answer, SpeechInv, Unspoken
      <3> QED
        BY <1>0, <1>7, <2>1, <3>1, SpeechStays DEF Answer
    <2>2. CASE Spawn(r, AnswerTask)
      <3>1. Moves(r, "synth")
        BY <2>2, SpawnMoves
      <3> QED
        BY <1>0, <1>7, <2>2, <3>1, SpeechStarts DEF Answer, Spawn
    <2> QED
      BY <1>7, <2>1, <2>2 DEF Answer, AnswerTask
  <1>8. CASE SpeakStream(r)
    <2>1. Spawn(r, ReplyTask)
      BY <1>8 DEF SpeakStream, ReplyTask
    <2>2. Moves(r, "recv")
      BY <2>1, SpawnMoves
    <2> QED
      BY <1>0, <1>8, <2>1, <2>2, SpeechStarts DEF SpeakStream, Spawn
  <1>9. CASE Cancel(r) \/ Release(r) \/ (Disconnect(r) /\ Close(r))
    <2>1. Moves(r, stream[r].phase)
      BY <1>9, CloseMoves DEF Cancel, Release
    <2> QED
      BY <1>0, <1>9, <2>1, SpeechKept DEF Cancel, Release, Disconnect, Close
  <1>10. CASE Disconnect(r) /\ UNCHANGED Speech
    <2>1. pc[r] \in Spoken \/ stream[r].phase = "none"
      BY DEF SpeechInv, Unspoken
    <2> QED
      BY <1>0, <1>10, <2>1, SpeechStays DEF Disconnect
  <1> QED
    BY <1>1, <1>2, <1>3, <1>4, <1>5, <1>6, <1>7, <1>8, <1>9, <1>10 DEF Step, Disconnect

LEMMA SpeechSpeaks ==
  ASSUME DisplayAssumption, TypeOK, SpeechInv, NEW r \in Req, WriteSentence(r) \/ Speaks(r)
  PROVE  SpeechInv'
  <1>0. UNCHANGED <<pc, generation, silenced, older, earsOlder>>
    BY DEF WriteSentence, Speaks, Receive, SynthesisFails, Admit, Play, StreamClosed, StreamEnds,
       streamFrame, turnVars, ghostVars
  <1>1. stream[r].phase # "none" => pc[r] \in Spoken
    BY DEF SpeechInv, Unspoken, Spoken
  <1>2. CASE WriteSentence(r)
    <2>1. Moves(r, stream[r].phase)
      BY <1>2, WriteMoves
    <2> QED
      BY <1>0, <1>1, <1>2, <2>1, SpeechKept DEF WriteSentence, ghostVars
  <1>3. CASE Receive(r)
    <2>1. Moves(r, IF generation = r THEN "synth" ELSE "ended") /\ stream[r].phase = "recv"
      BY <1>3, ReceiveMoves DEF Receive, To
    <2> QED
      BY <1>0, <1>1, <1>3, <2>1, SpeechKept DEF Receive
  <1>4. CASE SynthesisFails(r)
    <2>1. Moves(r, "recv") /\ stream[r].phase = "synth"
      BY <1>4, SynthesisFailsMoves DEF SynthesisFails
    <2> QED
      BY <1>0, <1>1, <1>4, <2>1, SpeechKept DEF SynthesisFails
  <1>5. CASE Admit(r)
    <2>1. Moves(r, IF generation = r THEN "play" ELSE "ended") /\ stream[r].phase = "synth"
      BY <1>5, ToMoves DEF Admit, To, Phase
    <2> QED
      BY <1>0, <1>1, <1>5, <2>1, SpeechKept DEF Admit
  <1>6. CASE Play(r)
    <2>1. Moves(r, "recv") /\ stream[r].phase = "play"
      BY <1>6, PlayMoves DEF Play
    <2>2. /\ \A q \in Req : q # r => late'[q] = late[q]
          /\ late'[r] = IF r \in silenced THEN late[r] + 1 ELSE late[r]
      BY <1>6 DEF Play, TypeOK
    <2>3. late[r] = 0
      BY <2>1 DEF SpeechInv, Admitted
    <2>4. Admitted'
      BY <1>0, <2>1, <2>2, <2>3 DEF SpeechInv, Admitted, Moves
    <2>5. Unspoken' /\ Outdated'
      BY <1>0, <1>1, <2>1 DEF SpeechInv, Unspoken, Spoken, Outdated, Interrupted, Moves
    <2> QED
      BY <2>4, <2>5 DEF SpeechInv
  <1>7. CASE StreamClosed(r)
    <2>1. Moves(r, "drain") /\ stream[r].phase = "recv"
      BY <1>7, ToMoves DEF StreamClosed, To, Phase
    <2> QED
      BY <1>0, <1>1, <1>7, <2>1, SpeechKept DEF StreamClosed
  <1>8. CASE StreamEnds(r)
    <2>1. Moves(r, "ended") /\ stream[r].phase = "drain"
      BY <1>8, ToMoves DEF StreamEnds, To, Phase
    <2> QED
      BY <1>0, <1>1, <1>8, <2>1, SpeechKept DEF StreamEnds
  <1> QED
    BY <1>2, <1>3, <1>4, <1>5, <1>6, <1>7, <1>8 DEF Speaks

LEMMA SpeechNext ==
  ASSUME DisplayAssumption, TypeOK, SpeechInv, [Next]_vars PROVE SpeechInv'
  <1> USE DEF earsFrame, turnVars
  <1>1. CASE EarsInterrupt \/ KeyDuringWake
    <2>1. /\ earsOlder' = Replies /\ generation' = None /\ None \notin Req
          /\ UNCHANGED <<pc, stream, silenced, older, late>>
      BY <1>1 DEF EarsInterrupt, KeyDuringWake, Bump, DisplayAssumption
    <2>2. \A q \in Replies : stream[q].phase # "none"
      BY DEF Replies
    <2>3. Outdated'
      BY <2>1, <2>2 DEF SpeechInv, Outdated, Interrupted
    <2> QED
      BY <2>1, <2>3 DEF SpeechInv, Unspoken, Admitted
  <1>2. CASE EarsStop
    <2>1. /\ earsOlder' = {} /\ silenced' = silenced \cup earsOlder
          /\ UNCHANGED <<pc, stream, generation, older, late>>
      BY <1>2 DEF EarsStop, Silence
    <2>2. Outdated'
      BY <2>1 DEF SpeechInv, Outdated, Interrupted
    <2> QED
      BY <2>1, <2>2 DEF SpeechInv, Unspoken, Admitted
  <1>3. CASE UNCHANGED <<pc, stream, generation, silenced, earsOlder, older, late>>
    BY <1>3 DEF SpeechInv, Unspoken, Outdated, Interrupted, Admitted
  <1>4. ASSUME Drained \/ Listen \/ RecordingEnds \/ Started \/ (\E d \in Dropper : Drops(d))
               \/ UNCHANGED vars
        PROVE  UNCHANGED <<pc, stream, generation, silenced, earsOlder, older, late>>
    BY <1>4 DEF Drained, streamFrame, Listen, RecordingEnds, Started, Drops, Reject, LookPending,
       LookState, LeaveWaiting, dropFrame, Speech, vars, ghostVars
  <1> QED
    BY <1>1, <1>2, <1>3, <1>4, SpeechStep, SpeechSpeaks DEF Next, Ears

-----------------------------------------------------------------------------
(* Who is in charge of the display *)

\* A step of request r that neither ends its charge nor takes it from a reply.
LEMMA ChargeKept ==
  ASSUME TypeOK, Charge, NEW r \in Req, \A q \in Req : q # r => pc'[q] = pc[q],
         pc[r] \in Handling => pc'[r] \in Handling,
         \A q \in Req : stream[q].phase \in Live => stream'[q].phase \in Live,
         UNCHANGED <<state, generation, silent, started, ears>>
  PROVE  Charge'
  BY DEF Charge, InCharge

\* A step after which request r has its state yet to write.
LEMMA ChargeTaken ==
  ASSUME NEW r \in Req, pc'[r] \in Handling PROVE Charge'
  BY DEF Charge, InCharge

LEMMA ChargeStep ==
  ASSUME DisplayAssumption, TypeOK, Charge, NEW r \in Req, Arrive(r) \/ Step(r) \/ Disconnect(r)
  PROVE  Charge'
  <1>0. pc \in [Req -> PC] /\ outcome[r] \in Outcome
    BY DEF TypeOK
  <1> USE DEF Goto, Set, Others
  <1>1. CASE Arrive(r) \/ BargeIn(r) \/ Interrupt(r) \/ StopSink(r) \/ TakeHold(r) \/ GoOn(r)
    BY <1>0, <1>1, ChargeTaken DEF Arrive, BargeIn, Interrupt, StopSink, TakeHold, GoOn, Handling
  <1>2. CASE ConfirmActs(r) \/ Reflex(r) \/ ReflexFails(r) \/ TakeReasoner(r) \/ Think(r)
    BY <1>0, <1>2, ChargeTaken DEF ConfirmActs, Reflex, ReflexFails, TakeReasoner, Think, Handling
  <1>3. CASE Confirmed(r) \/ ReflexDone(r)
    BY <1>3 DEF Confirmed, ReflexDone, Charge
  <1>4. CASE ResolveNothing(r) \/ CannotReason(r)
    BY <1>4 DEF ResolveNothing, CannotReason, ReturnSilently, Charge
  <1>5. CASE Answer(r)
    <2>1. CASE UNCHANGED Speech
      BY <1>0, <1>5, <2>1, ChargeKept DEF Answer, Return, Speech, Handling
    <2>2. CASE Spawn(r, AnswerTask)
      <3>1. stream'[r].phase = "synth" /\ generation' = r
        BY <2>2, SpawnMoves DEF Moves, Spawn
      <3> QED
        BY <3>1 DEF Charge, InCharge, Live
    <2> QED
      BY <1>5, <2>1, <2>2 DEF Answer, AnswerTask
  <1>6. CASE SpeakStream(r)
    <2>1. Spawn(r, ReplyTask)
      BY <1>6 DEF SpeakStream, ReplyTask
    <2>2. stream'[r].phase = "recv" /\ generation' = r
      BY <2>1, SpawnMoves DEF Moves, Spawn
    <2> QED
      BY <2>2 DEF Charge, InCharge, Live
  <1>7. CASE LoopEnds(r)
    BY <1>0, <1>7, ChargeKept DEF LoopEnds, Speech, Handling
  <1>8. CASE Announce(r)
    <2>1. CASE outcome[r] \in {"held", "error"}
      BY <1>8, <2>1 DEF Announce, Charge
    <2>2. CASE outcome[r] \notin {"held", "error"}
      <3>1. UNCHANGED state
        BY <1>8, <2>2 DEF Announce
      <3> QED
        BY <1>0, <1>8, <3>1, ChargeKept DEF Announce, Return, Speech, Handling
    <2> QED
      BY <2>1, <2>2
  <1>9. CASE Cancel(r) \/ Release(r) \/ (Disconnect(r) /\ Return(r, "model") /\ Close(r))
    <2>1. Moves(r, stream[r].phase)
      BY <1>9, CloseMoves DEF Cancel, Release
    <2>2. \A q \in Req : stream'[q].phase = stream[q].phase
      BY <2>1 DEF Moves
    <2> QED
      BY <1>0, <1>9, <2>2, ChargeKept DEF Cancel, Release, Disconnect, Return, Close, Handling
  <1>10. CASE Disconnect(r) /\ \E p \in {"executing", "reflexAct", "reason", "think"} :
                                 ReturnSilently(r, p)
    BY <1>10 DEF ReturnSilently, Charge
  <1> QED
    BY <1>1, <1>2, <1>3, <1>4, <1>5, <1>6, <1>7, <1>8, <1>9, <1>10 DEF Step, Disconnect

\* A stream that has lost the generation has no charge to lose; one that has it
\* goes on, or ends and writes Idle.
LEMMA ChargeSpeaks ==
  ASSUME DisplayAssumption, TypeOK, Charge, NEW r \in Req, WriteSentence(r) \/ Speaks(r)
  PROVE  Charge'
  <1>0. UNCHANGED <<pc, generation, silent, started, ears>>
    BY DEF WriteSentence, Speaks, Receive, SynthesisFails, Admit, Play, StreamClosed, StreamEnds,
       streamFrame, turnVars, ghostVars
  <1>1. PICK p \in Phase : Moves(r, p)
    BY RequestMoves
  <1>2. ASSUME UNCHANGED state, generation = r => p \in Live \/ stream[r].phase \notin Live
        PROVE  Charge'
    BY <1>0, <1>1, <1>2 DEF Charge, InCharge, Moves
  <1>3. CASE WriteSentence(r)
    BY <1>1, <1>2, <1>3, WriteMoves DEF Moves, WriteSentence
  <1>4. CASE Receive(r)
    BY <1>1, <1>2, <1>4, ReceiveMoves DEF Moves, Receive, Live
  <1>5. CASE SynthesisFails(r)
    BY <1>1, <1>2, <1>5, SynthesisFailsMoves DEF Moves, SynthesisFails, Live
  <1>6. CASE Admit(r)
    <2>1. Moves(r, IF generation = r THEN "play" ELSE "ended")
      BY <1>6, ToMoves DEF Admit, Phase
    <2>2. CASE generation = r
      BY <1>0, <2>1, <2>2 DEF Moves, Charge, InCharge, Live
    <2>3. CASE generation # r
      BY <1>2, <1>6, <2>3 DEF Admit, SetIfCurrent
    <2> QED
      BY <2>2, <2>3
  <1>7. CASE Play(r)
    BY <1>1, <1>2, <1>7, PlayMoves DEF Moves, Play, Live
  <1>8. CASE StreamClosed(r)
    <2>1. Moves(r, "drain")
      BY <1>8, ToMoves DEF StreamClosed, Phase
    <2> QED
      BY <1>1, <1>2, <1>8, <2>1 DEF Moves, StreamClosed, Live
  <1>9. CASE StreamEnds(r)
    <2>1. CASE generation = r
      BY <1>9, <2>1 DEF StreamEnds, SetIfCurrent, Charge
    <2>2. CASE generation # r
      BY <1>2, <1>9, <2>2 DEF StreamEnds, SetIfCurrent
    <2> QED
      BY <2>1, <2>2
  <1> QED
    BY <1>3, <1>4, <1>5, <1>6, <1>7, <1>8, <1>9 DEF Speaks

LEMMA ChargeNext ==
  ASSUME DisplayAssumption, TypeOK, Charge, [Next]_vars PROVE Charge'
  <1> USE DEF turnVars
  <1>1. CASE EarsInterrupt \/ KeyDuringWake \/ EarsStop \/ Listen
    BY <1>1 DEF EarsInterrupt, KeyDuringWake, EarsStop, Listen, EarsTo, Charge, InCharge
  <1>2. CASE RecordingEnds
    BY <1>2 DEF RecordingEnds, Set, Charge
  <1>3. CASE Started
    BY <1>3 DEF Started, Set, Charge
  <1>4. CASE UNCHANGED <<state, pc, stream, generation, silent, started, ears>>
    BY <1>4 DEF Charge, InCharge
  <1>5. ASSUME NEW d \in Dropper, Drops(d) PROVE Charge'
    <2>1. CASE LeaveWaiting(d)
      BY <2>1 DEF LeaveWaiting, Set, Charge
    <2>2. CASE Reject(d) \/ LookPending(d) \/ LookState(d)
      BY <1>4, <2>2 DEF Reject, LookPending, LookState, dropFrame, Speech
    <2> QED
      BY <1>5, <2>1, <2>2 DEF Drops
  <1>6. CASE Drained \/ UNCHANGED vars
    BY <1>4, <1>6 DEF Drained, streamFrame, vars, ghostVars
  <1> QED
    BY <1>1, <1>2, <1>3, <1>5, <1>6, ChargeStep, ChargeSpeaks DEF Next, Ears

-----------------------------------------------------------------------------
(* The theorems *)

LEMMA DisplayInvariant == Spec => []DisplayInv
  <1>1. Init => DisplayInv
    <2> SUFFICES ASSUME Init PROVE DisplayInv
      OBVIOUS
    <2>1. TypeOK
      BY TypeInit, DisplayAssumption
    <2>2. SpeechInv
      BY DEF Init, SpeechInv, Unspoken, Outdated, Interrupted, Admitted, NoStream
    <2>3. Charge
      BY DEF Init, Charge
    <2> QED
      BY <2>1, <2>2, <2>3 DEF DisplayInv
  <1>2. DisplayInv /\ [Next]_vars => DisplayInv'
    BY TypeNext, SpeechNext, ChargeNext, DisplayAssumption DEF DisplayInv
  <1> QED
    BY <1>1, <1>2, PTL DEF Spec

\* However many turns, replies, recordings and confirmations cut each other off,
\* once all have ended the display is at rest, unless a request ended without
\* writing a state; and every variable has its type.
THEOREM DisplayComesToRest == Spec => []DisplaySettles
  <1>1. DisplayInv => DisplaySettles
    <2> SUFFICES ASSUME TypeOK, Charge, Settled, ~silent PROVE state \in {"Idle", "Waiting"}
      BY DEF DisplayInv, DisplaySettles, DisplayRests
    <2>1. ~InCharge
      BY DEF Settled, InCharge, Handling, Live
    <2> QED
      BY <2>1 DEF Charge
  <1> QED
    BY <1>1, DisplayInvariant, PTL

\* A reply that was interrupted plays at most one sentence more, whatever
\* interrupted it and whenever.
THEOREM OneSentenceIsLate == Spec => []OneLateSentence
  <1>1. DisplayInv => OneLateSentence
    <2> SUFFICES ASSUME DisplayInv, NEW r \in Req PROVE late[r] <= 1
      BY DEF OneLateSentence
    <2>1. late[r] = 0 \/ late[r] = 1
      BY DEF DisplayInv, SpeechInv, Admitted
    <2> QED
      BY <2>1
  <1> QED
    BY <1>1, DisplayInvariant, PTL

\* No reply changes what is shown once an interruption has begun: the check of
\* the generation and the write it guards are never outrun.
THEOREM InterruptedReplyIsMute == Spec => OldReplyIsMute
  <1> DEFINE Mute == \A r \in Req : stream'[r].phase # stream[r].phase /\ pc' = pc /\ state' # state =>
                       /\ r \notin silenced \cup earsOlder
                       /\ \A q \in Req : r \notin older[q]
  <1>1. DisplayInv /\ [Next]_vars => [Mute]_vars
    <2> SUFFICES ASSUME DisplayInv, Next, NEW r \in Req,
                        stream'[r].phase # stream[r].phase, pc' = pc, state' # state
                 PROVE  ~Interrupted(r)
      BY DEF Interrupted
    <2>1. TypeOK /\ pc \in [Req -> PC]
      BY DEF DisplayInv, TypeOK
    <2>2. ASSUME NEW q \in Req, Arrive(q) \/ Step(q) \/ Disconnect(q) PROVE FALSE
      <3>1. pc'[q] # pc[q]
        BY <2>1, <2>2 DEF Arrive, Step, Disconnect, BargeIn, Interrupt, StopSink, TakeHold,
           ResolveNothing, GoOn, ConfirmActs, Confirmed, Reflex, ReflexFails, ReflexDone, Answer,
           CannotReason, TakeReasoner, Think, SpeakStream, Cancel, LoopEnds, Release, Announce,
           Goto, Return, ReturnSilently
      <3> QED
        BY <3>1
    <2>3. UNCHANGED stream \/ \E q \in Req : WriteSentence(q) \/ Speaks(q)
      BY <2>2 DEF Next, Drained, EarsInterrupt, KeyDuringWake, Ears, EarsStop, Listen,
         RecordingEnds, Started, Drops, Reject, LookPending, LookState, LeaveWaiting, earsFrame,
         dropFrame, Speech
    <2>4. PICK q \in Req : WriteSentence(q) \/ Speaks(q)
      BY <2>3
    <2>5. q = r
      BY <2>1, <2>4, RequestMoves, DisplayAssumption DEF Moves
    <2>6. generation = r
      BY <2>4, <2>5 DEF WriteSentence, Speaks, Receive, SynthesisFails, Admit, Play, StreamClosed,
         StreamEnds, SetIfCurrent
    <2> QED
      BY <2>6 DEF DisplayInv, SpeechInv, Outdated
  <1> QED
    BY <1>1, DisplayInvariant, PTL DEF Spec, OldReplyIsMute

-----------------------------------------------------------------------------
(* A reply in sentences *)

Text == Seq(Char)

\* The pieces of Solid: one character of text each, or none.
Pieces(s) == [i \in DOMAIN s |-> IF s[i] \in Space THEN <<>> ELSE <<s[i]>>]

LEMMA PiecesTyped ==
  ASSUME NEW s \in Text
  PROVE  /\ Pieces(s) \in Seq(Text) /\ Len(Pieces(s)) = Len(s)
         /\ \A i \in 1..Len(s) : Pieces(s)[i] = IF s[i] \in Space THEN <<>> ELSE <<s[i]>>
  <1>1. DOMAIN s = 1..Len(s) /\ Len(s) \in Nat
    BY DEF Text
  <1>2. ASSUME NEW i \in 1..Len(s)
        PROVE  (IF s[i] \in Space THEN <<>> ELSE <<s[i]>>) \in Text
    BY DEF Text
  <1> QED BY <1>1, <1>2 DEF Pieces, Text

LEMMA SolidTyped ==
  ASSUME NEW s \in Text PROVE Solid(s) \in Text
  <1>1. Pieces(s) \in Seq(Seq(Char))
    BY PiecesTyped DEF Text
  <1> QED BY <1>1, FlattenTyped DEF Solid, Pieces, Text

LEMMA SolidConcat ==
  ASSUME NEW s \in Text, NEW t \in Text
  PROVE  Solid(s \o t) = Solid(s) \o Solid(t) /\ s \o t \in Text
  <1> DEFINE both == s \o t
             p == Pieces(s)
             q == Pieces(t)
             r == Pieces(both)
  <1>1. /\ both \in Text /\ Len(both) = Len(s) + Len(t) /\ Len(s) \in Nat /\ Len(t) \in Nat
        /\ \A i \in 1..Len(s) : both[i] = s[i]
        /\ \A i \in 1..Len(t) : both[Len(s) + i] = t[i]
    BY DEF Text
  <1> HIDE DEF both
  <1>2. /\ p \in Seq(Text) /\ Len(p) = Len(s)
        /\ \A i \in 1..Len(s) : p[i] = IF s[i] \in Space THEN <<>> ELSE <<s[i]>>
    BY PiecesTyped
  <1>3. /\ q \in Seq(Text) /\ Len(q) = Len(t)
        /\ \A i \in 1..Len(t) : q[i] = IF t[i] \in Space THEN <<>> ELSE <<t[i]>>
    BY PiecesTyped
  <1>4. /\ r \in Seq(Text) /\ Len(r) = Len(both)
        /\ \A i \in 1..Len(both) : r[i] = IF both[i] \in Space THEN <<>> ELSE <<both[i]>>
    BY <1>1, PiecesTyped
  <1> HIDE DEF p, q, r
  <1>5. r = p \o q
    <2>1. /\ p \o q \in Seq(Text) /\ Len(p \o q) = Len(p) + Len(q)
          /\ \A i \in 1..Len(p) : (p \o q)[i] = p[i]
          /\ \A i \in 1..Len(q) : (p \o q)[Len(p) + i] = q[i]
      <3>1. \A a, b \in Seq(Text) :
              /\ a \o b \in Seq(Text) /\ Len(a \o b) = Len(a) + Len(b)
              /\ \A i \in 1..Len(a) : (a \o b)[i] = a[i]
              /\ \A i \in 1..Len(b) : (a \o b)[Len(a) + i] = b[i]
        BY ConcatTyped
      <3> QED BY <1>2, <1>3, <3>1, Zenon
    <2>2. PICK pq : pq = p \o q
      OBVIOUS
    <2>3. ASSUME NEW i \in 1..Len(r) PROVE r[i] = pq[i]
      <3>1. CASE i \in 1..Len(s)
        <4>1. i \in 1..Len(both) /\ both[i] = s[i] /\ pq[i] = p[i]
          BY <1>1, <1>2, <2>1, <2>2, <3>1
        <4> QED BY <1>2, <1>4, <3>1, <4>1
      <3>2. CASE i \notin 1..Len(s)
        <4>1. PICK j \in 1..Len(t) : i = Len(s) + j
          <5>1. i - Len(s) \in 1..Len(t) /\ i = Len(s) + (i - Len(s))
            BY <1>1, <1>4, <3>2
          <5> QED BY <5>1
        <4>2. i \in 1..Len(both) /\ both[i] = t[j] /\ pq[i] = q[j]
          BY <1>1, <1>2, <1>3, <1>4, <2>1, <2>2, <4>1
        <4> QED BY <1>3, <1>4, <4>2
      <3> QED BY <3>1, <3>2
    <2>4. Len(r) = Len(pq) /\ pq \in Seq(Text)
      BY <1>1, <1>2, <1>3, <1>4, <2>1, <2>2
    <2> QED BY <1>4, <2>2, <2>3, <2>4, SameSequence
  <1>6. FlattenSeq(p \o q) = FlattenSeq(p) \o FlattenSeq(q)
    BY <1>2, <1>3, FlattenConcat DEF Text
  <1>7. Solid(s) = FlattenSeq(p) /\ Solid(t) = FlattenSeq(q) /\ Solid(both) = FlattenSeq(r)
    BY DEF Solid, p, q, r, Pieces
  <1> QED BY <1>1, <1>5, <1>6, <1>7 DEF both

LEMMA SolidBlank ==
  ASSUME NEW s \in Text, \A i \in 1..Len(s) : s[i] \in Space
  PROVE  Solid(s) = <<>>
  <1>1. Pieces(s) \in Seq(Seq(Char)) /\ \A i \in 1..Len(Pieces(s)) : Pieces(s)[i] = <<>>
    BY PiecesTyped DEF Text
  <1>2. FlattenSeq(Pieces(s)) = <<>>
    BY <1>1, FlattenBlank
  <1> QED BY <1>2 DEF Solid, Pieces

\* A piece of a text, by its places.
LEMMA PartTyped ==
  ASSUME NEW s \in Text, NEW a \in Nat \ {0}, NEW b \in Nat, b <= Len(s), a <= b + 1
  PROVE  /\ SubSeq(s, a, b) \in Text /\ Len(SubSeq(s, a, b)) = b + 1 - a
         /\ \A i \in 1..(b + 1 - a) : SubSeq(s, a, b)[i] = s[a + i - 1]
  BY DEF Text

LEMMA PartsJoin ==
  ASSUME NEW s \in Text, NEW a \in Nat \ {0}, NEW b \in Nat, NEW c \in Nat,
         a <= b + 1, b <= c, c <= Len(s)
  PROVE  SubSeq(s, a, c) = SubSeq(s, a, b) \o SubSeq(s, b + 1, c)
  <1> DEFINE x == SubSeq(s, a, b)
             y == SubSeq(s, b + 1, c)
             z == SubSeq(s, a, c)
  <1>0. Len(s) \in Nat
    BY DEF Text
  <1>1. x \in Text /\ Len(x) = b + 1 - a /\ \A i \in 1..(b + 1 - a) : x[i] = s[a + i - 1]
    BY <1>0, PartTyped
  <1>2. y \in Text /\ Len(y) = c - b /\ \A i \in 1..(c - b) : y[i] = s[b + i]
    <2>1. /\ y \in Text /\ Len(y) = c + 1 - (b + 1)
          /\ \A i \in 1..(c + 1 - (b + 1)) : y[i] = s[(b + 1) + i - 1]
      BY <1>0, PartTyped
    <2>2. \A i \in 1..(c - b) : (b + 1) + i - 1 = b + i
      OBVIOUS
    <2> QED BY <2>1, <2>2
  <1>3. z \in Text /\ Len(z) = c + 1 - a /\ \A i \in 1..(c + 1 - a) : z[i] = s[a + i - 1]
    BY <1>0, PartTyped
  <1> HIDE DEF x, y, z
  <1>4. /\ x \o y \in Text /\ Len(x \o y) = Len(x) + Len(y)
        /\ \A i \in 1..Len(x) : (x \o y)[i] = x[i]
        /\ \A i \in 1..Len(y) : (x \o y)[Len(x) + i] = y[i]
    <2>1. \A q, r \in Seq(Char) :
            /\ q \o r \in Seq(Char) /\ Len(q \o r) = Len(q) + Len(r)
            /\ \A i \in 1..Len(q) : (q \o r)[i] = q[i]
            /\ \A i \in 1..Len(r) : (q \o r)[Len(q) + i] = r[i]
      BY ConcatTyped
    <2> QED BY <1>1, <1>2, <2>1, Zenon DEF Text
  <1>5. PICK xy : xy = x \o y
    OBVIOUS
  <1>6. ASSUME NEW i \in 1..Len(z) PROVE z[i] = xy[i]
    <2>1. CASE i \in 1..Len(x)
      BY <1>1, <1>3, <1>4, <1>5, <2>1
    <2>2. CASE i \notin 1..Len(x)
      <3>1. /\ i - Len(x) \in 1..Len(y) /\ i = Len(x) + (i - Len(x))
            /\ b + (i - Len(x)) = a + i - 1 /\ i \in 1..(c + 1 - a)
            /\ i - Len(x) \in 1..(c - b)
        BY <1>1, <1>2, <1>3, <2>2
      <3>2. xy[i] = y[i - Len(x)]
        BY <1>4, <1>5, <3>1
      <3>3. y[i - Len(x)] = s[b + (i - Len(x))]
        BY <1>2, <3>1
      <3> QED BY <1>3, <3>1, <3>2, <3>3
    <2> QED BY <2>1, <2>2
  <1>7. Len(z) = Len(xy) /\ xy \in Seq(Char) /\ z \in Seq(Char)
    <2>1. Len(xy) = (b + 1 - a) + (c - b) /\ xy \in Text
      BY <1>1, <1>2, <1>4, <1>5
    <2>2. Len(z) = Len(xy)
      BY <1>3, <2>1
    <2> QED BY <1>3, <2>1, <2>2 DEF Text
  <1>8. z = xy
    BY <1>6, <1>7, SameSequence
  <1> QED BY <1>5, <1>8 DEF x, y, z

\* The least and the greatest of a set of numbers.
LEMMA MinIsLeast ==
  ASSUME NEW T \in SUBSET Nat, T # {}
  PROVE  Min(T) \in T /\ \A x \in T : Min(T) <= x
  BY LeastNumber DEF Min

LEMMA MaxIsGreatest ==
  ASSUME NEW n \in Nat, NEW T \in SUBSET (0..n), T # {}
  PROVE  Max(T) \in T /\ \A x \in T : x <= Max(T)
  <1> DEFINE U == {n - x : x \in T}
  <1>1. U \in SUBSET Nat /\ U # {}
    <2>1. \A x \in T : x \in 0..n /\ n - x \in Nat
      OBVIOUS
    <2> QED BY <2>1
  <1>2. PICK u \in U : \A v \in U : u <= v
    BY <1>1, LeastNumber
  <1>3. n - u \in T /\ \A x \in T : x <= n - u
    <2>1. PICK y \in T : u = n - y
      OBVIOUS
    <2>2. \A x \in T : n - y <= n - x
      BY <1>2, <2>1
    <2> QED BY <2>1, <2>2
  <1> QED BY <1>3 DEF Max

LEMMA SkipsPast ==
  ASSUME NEW s \in Text, NEW i \in 1..(Len(s) + 1), NEW cs
  PROVE  /\ SkipPast(s, i, cs) \in i..(Len(s) + 1)
         /\ \A j \in i..(SkipPast(s, i, cs) - 1) : s[j] \in cs
  <1> DEFINE T == {j \in i..Len(s) : s[j] \notin cs} \cup {Len(s) + 1}
  <1>1. Len(s) \in Nat
    BY DEF Text
  <1>2. T \in SUBSET Nat /\ T # {}
    BY <1>1
  <1>3. Min(T) \in T /\ \A x \in T : Min(T) <= x
    BY <1>2, MinIsLeast
  <1>4. SkipPast(s, i, cs) = Min(T)
    BY DEF SkipPast
  <1>5. PICK m : m = Min(T)
    OBVIOUS
  <1>6. m \in i..(Len(s) + 1)
    BY <1>1, <1>3, <1>5
  <1>7. ASSUME NEW j \in i..(m - 1) PROVE s[j] \in cs
    <2>1. j \in i..Len(s) /\ ~(m <= j)
      BY <1>1, <1>6
    <2> QED BY <1>3, <1>5, <2>1
  <1> QED BY <1>4, <1>5, <1>6, <1>7

\* What is trimmed off has no characters of text.
LEMMA TrimKeepsText ==
  ASSUME NEW s \in Text
  PROVE  /\ Chunk(s) \in Seq(Text) /\ Solid(FlattenSeq(Chunk(s))) = Solid(s)
  <1>0. Len(s) \in Nat
    BY DEF Text
  <1>1. CASE Printed(s) = {}
    <2>1. Chunk(s) = <<>>
      BY <1>1 DEF Chunk, Trim
    <2>2. \A i \in 1..Len(s) : s[i] \in Space
      BY <1>1 DEF Printed
    <2>3. Solid(s) = <<>> /\ <<>> \in Text
      BY <2>2, SolidBlank DEF Text
    <2>4. Solid(<<>>) = <<>>
      <3>1. <<>> \in Text /\ Len(<<>>) = 0
        BY DEF Text
      <3> QED BY <3>1, SolidBlank
    <2> QED BY <2>1, <2>3, <2>4, FlattenNone
  <1>2. CASE Printed(s) # {}
    <2>1. Printed(s) \in SUBSET Nat /\ Printed(s) \in SUBSET (0..Len(s))
      BY <1>0 DEF Printed
    <2>2. PICK a, b : a = Min(Printed(s)) /\ b = Max(Printed(s))
      OBVIOUS
    <2>3. /\ a \in Printed(s) /\ b \in Printed(s)
          /\ \A x \in Printed(s) : a <= x /\ x <= b
      BY <1>0, <1>2, <2>1, <2>2, MinIsLeast, MaxIsGreatest
    <2>4. a \in 1..Len(s) /\ b \in 1..Len(s) /\ a <= b
      BY <2>3 DEF Printed
    <2> DEFINE x == SubSeq(s, 1, a - 1)
               y == SubSeq(s, a, b)
               z == SubSeq(s, b + 1, Len(s))
    <2>5. x \in Text /\ Len(x) = a - 1 /\ \A i \in 1..(a - 1) : x[i] = s[i]
      <3>1. /\ x \in Text /\ Len(x) = (a - 1) + 1 - 1
            /\ \A i \in 1..((a - 1) + 1 - 1) : x[i] = s[1 + i - 1]
        BY <1>0, <2>4, PartTyped
      <3>2. (a - 1) + 1 - 1 = a - 1 /\ \A i \in 1..(a - 1) : 1 + i - 1 = i
        BY <2>4
      <3> QED BY <3>1, <3>2
    <2>6. y \in Text /\ Len(y) = b + 1 - a
      BY <1>0, <2>4, PartTyped
    <2>7. z \in Text /\ Len(z) = Len(s) - b /\ \A i \in 1..(Len(s) - b) : z[i] = s[b + i]
      <3>1. /\ z \in Text /\ Len(z) = Len(s) + 1 - (b + 1)
            /\ \A i \in 1..(Len(s) + 1 - (b + 1)) : z[i] = s[(b + 1) + i - 1]
        BY <1>0, <2>4, PartTyped
      <3>2. Len(s) + 1 - (b + 1) = Len(s) - b /\ \A i \in 1..(Len(s) - b) : (b + 1) + i - 1 = b + i
        BY <1>0, <2>4
      <3> QED BY <3>1, <3>2
    <2>8. s = x \o (y \o z)
      <3>1. SubSeq(s, 1, Len(s)) = s
        BY DEF Text
      <3>2. SubSeq(s, 1, Len(s)) = SubSeq(s, 1, a - 1) \o SubSeq(s, (a - 1) + 1, Len(s))
        BY <1>0, <2>4, PartsJoin
      <3>3. SubSeq(s, a, Len(s)) = y \o z /\ (a - 1) + 1 = a
        <4>1. a \in Nat \ {0} /\ b \in Nat /\ a <= b + 1 /\ b <= Len(s) /\ (a - 1) + 1 = a
          BY <1>0, <2>4
        <4>2. SubSeq(s, a, Len(s)) = SubSeq(s, a, b) \o SubSeq(s, b + 1, Len(s))
          <5>1. Len(s) <= Len(s)
            BY <1>0
          <5> QED BY <1>0, <4>1, <5>1, PartsJoin, Zenon
        <4> QED BY <4>1, <4>2
      <3> QED BY <3>1, <3>2, <3>3
    <2>9. Solid(x) = <<>>
      <3>1. \A i \in 1..(a - 1) : i \in 1..Len(s) /\ ~(a <= i)
        BY <1>0, <2>4
      <3>2. \A i \in 1..Len(x) : x[i] \in Space
        BY <2>3, <2>5, <3>1 DEF Printed
      <3> QED BY <2>5, <3>2, SolidBlank
    <2>10. Solid(z) = <<>>
      <3>1. \A i \in 1..(Len(s) - b) : b + i \in 1..Len(s) /\ ~(b + i <= b)
        BY <1>0, <2>4
      <3>2. \A i \in 1..Len(z) : z[i] \in Space
        BY <2>3, <2>7, <3>1 DEF Printed
      <3> QED BY <2>7, <3>2, SolidBlank
    <2> HIDE DEF x, y, z
    <2>11. Solid(s) = Solid(y)
      <3>1. Solid(y \o z) = Solid(y) \o Solid(z) /\ y \o z \in Text
        BY <2>6, <2>7, SolidConcat
      <3>2. Solid(s) = Solid(x) \o Solid(y \o z)
        BY <2>5, <2>8, <3>1, SolidConcat
      <3>3. Solid(y) \in Seq(Char)
        BY <2>6, SolidTyped DEF Text
      <3> QED BY <2>9, <2>10, <3>1, <3>2, <3>3, ConcatEmpty
    <2>12. Trim(s) = y /\ y # <<>>
      <3>1. Trim(s) = y
        BY <1>2, <2>2 DEF Trim, y
      <3>2. Len(y) # 0
        BY <2>4, <2>6
      <3> QED BY <3>1, <3>2
    <2>13. Chunk(s) = <<y>>
      BY <2>12 DEF Chunk
    <2>14. FlattenSeq(<<y>>) = y /\ <<y>> \in Seq(Text)
      BY <2>6, FlattenOne DEF Text
    <2> QED BY <2>11, <2>13, <2>14
  <1> QED BY <1>1, <1>2

(* The loop of split *)

Scanned == [out : Seq(Text), from : Nat \ {0}, at : Nat \ {0}]

\* What lies before the sentence being read is in the pieces so far.
ScanHolds(s, st) ==
  /\ st \in Scanned /\ st.from <= st.at /\ st.at <= Len(s) + 1
  /\ Solid(FlattenSeq(st.out)) = Solid(SubSeq(s, 1, st.from - 1))

\* A piece more, to place last, with white space up to place next.
LEMMA UpTo ==
  ASSUME NEW s \in Text, NEW st, ScanHolds(s, st), NEW last \in Nat, NEW next \in Nat,
         st.from <= last + 1, last < next, next <= Len(s) + 1,
         \A j \in (last + 1)..(next - 1) : s[j] \in Space
  PROVE  LET out == st.out \o Chunk(SubSeq(s, st.from, last))
         IN  /\ out \in Seq(Text)
             /\ Solid(FlattenSeq(out)) = Solid(SubSeq(s, 1, next - 1))
  <1> DEFINE c == Chunk(SubSeq(s, st.from, last))
             out == st.out \o c
             from == st.from
  <1>0. /\ Len(s) \in Nat /\ from \in Nat \ {0} /\ st.out \in Seq(Text)
        /\ Solid(FlattenSeq(st.out)) = Solid(SubSeq(s, 1, from - 1))
    BY DEF Text, ScanHolds, Scanned
  <1> HIDE DEF from
  <1>1. SubSeq(s, from, last) \in Text
    BY <1>0, PartTyped DEF from
  <1>2. c \in Seq(Text) /\ Solid(FlattenSeq(c)) = Solid(SubSeq(s, from, last))
    BY <1>1, TrimKeepsText DEF from
  <1> HIDE DEF c
  <1>3. out \in Seq(Text) /\ FlattenSeq(out) = FlattenSeq(st.out) \o FlattenSeq(c)
    BY <1>0, <1>2, ConcatTyped, FlattenConcat DEF Text
  <1>4. FlattenSeq(st.out) \in Text /\ FlattenSeq(c) \in Text
    BY <1>0, <1>2, FlattenTyped DEF Text
  <1> HIDE DEF out
  <1>5. Solid(FlattenSeq(out)) = Solid(SubSeq(s, 1, from - 1)) \o Solid(SubSeq(s, from, last))
    <2>1. Solid(FlattenSeq(st.out) \o FlattenSeq(c)) = Solid(FlattenSeq(st.out)) \o Solid(FlattenSeq(c))
      BY <1>4, SolidConcat
    <2> QED BY <1>0, <1>2, <1>3, <2>1
  <1> DEFINE x == SubSeq(s, 1, from - 1)
             y == SubSeq(s, from, last)
             z == SubSeq(s, last + 1, next - 1)
  <1>6. x \in Text /\ y \in Text /\ z \in Text
    BY <1>0, <1>1, PartTyped DEF from
  <1>7. SubSeq(s, 1, last) = x \o y
    <2>1. /\ from - 1 \in Nat /\ from - 1 <= last /\ last <= Len(s) /\ (from - 1) + 1 = from
          /\ 1 <= (from - 1) + 1 /\ 1 \in Nat \ {0}
      BY <1>0 DEF from
    <2>2. SubSeq(s, 1, last) = SubSeq(s, 1, from - 1) \o SubSeq(s, (from - 1) + 1, last)
      BY <2>1, PartsJoin, Zenon
    <2> QED BY <2>1, <2>2
  <1>8. SubSeq(s, 1, next - 1) = (x \o y) \o z
    <2>1. /\ next - 1 \in Nat /\ last <= next - 1 /\ next - 1 <= Len(s) /\ 1 <= last + 1
          /\ 1 \in Nat \ {0}
      BY <1>0
    <2>2. SubSeq(s, 1, next - 1) = SubSeq(s, 1, last) \o SubSeq(s, last + 1, next - 1)
      BY <2>1, PartsJoin, Zenon
    <2> QED BY <1>7, <2>2
  <1>9. Solid(z) = <<>>
    <2>1. /\ Len(z) = (next - 1) + 1 - (last + 1)
          /\ \A i \in 1..((next - 1) + 1 - (last + 1)) : z[i] = s[(last + 1) + i - 1]
      <3>1. /\ last + 1 \in Nat \ {0} /\ next - 1 \in Nat /\ next - 1 <= Len(s)
            /\ last + 1 <= (next - 1) + 1
        BY <1>0
      <3> QED BY <3>1, PartTyped, Zenon
    <2>2. \A i \in 1..Len(z) : (last + 1) + i - 1 \in (last + 1)..(next - 1)
      BY <2>1
    <2>3. \A i \in 1..Len(z) : z[i] \in Space
      BY <2>1, <2>2
    <2> QED BY <1>6, <2>3, SolidBlank
  <1> HIDE DEF x, y, z
  <1>10. Solid((x \o y) \o z) = Solid(x) \o Solid(y)
    <2>1. Solid(x \o y) = Solid(x) \o Solid(y) /\ x \o y \in Text
      BY <1>6, SolidConcat
    <2>2. Solid((x \o y) \o z) = Solid(x \o y) \o Solid(z)
      BY <1>6, <2>1, SolidConcat
    <2>3. Solid(x \o y) \in Seq(Char)
      BY <2>1, SolidTyped DEF Text
    <2>4. Solid(x \o y) \o <<>> = Solid(x \o y)
      BY <2>3, ConcatEmpty
    <2> QED BY <1>9, <2>1, <2>2, <2>4
  <1>11. Solid(FlattenSeq(out)) = Solid(SubSeq(s, 1, next - 1))
    BY <1>5, <1>8, <1>10 DEF x, y
  <1> QED BY <1>3, <1>11 DEF out, c, from

LEMMA ScanStep ==
  ASSUME NEW s \in Text, NEW st, ScanHolds(s, st)
  PROVE  ScanHolds(s, Scan(s, st))
  <1> DEFINE i == st.at
             blank == SkipPast(s, i, Space)
             lines == Cardinality({j \in i..(blank - 1) : s[j] = "/"})
             run == SkipPast(s, i, {s[i]}) - 1
             end == SkipPast(s, run + 1, Closing) - 1
             after == SkipPast(s, end + 1, Space)
             boundary == \/ after > Len(s)
                         \/ /\ after > end + 1
                            /\ AllowsBoundary(s, st.from, i, run, s[after], end > run)
             upTo(last) == st.out \o Chunk(SubSeq(s, st.from, last))
  <1>0. /\ Len(s) \in Nat /\ i \in Nat \ {0} /\ st.from \in Nat \ {0} /\ st.from <= i /\ i <= Len(s) + 1
        /\ st \in Scanned
    BY DEF Text, ScanHolds, Scanned
  <1>1. Scan(s, st) =
          IF i > Len(s) THEN st
          ELSE IF s[i] = "/" /\ lines >= 2 THEN [out |-> upTo(i - 1), from |-> blank, at |-> blank]
          ELSE IF s[i] \notin Terminator THEN [st EXCEPT !.at = i + 1]
          ELSE IF boundary THEN [out |-> upTo(end), from |-> end + 1, at |-> end + 1]
          ELSE [st EXCEPT !.at = end + 1]
    BY DEF Scan
  <1>2. CASE i > Len(s)
    BY <1>1, <1>2
  <1>3. ASSUME i <= Len(s) PROVE ScanHolds(s, Scan(s, st))
    <2>0. i \in 1..(Len(s) + 1) /\ i \in 1..Len(s)
      BY <1>0, <1>3
    <2>1. /\ blank \in i..(Len(s) + 1) /\ \A j \in i..(blank - 1) : s[j] \in Space
      BY <2>0, SkipsPast
    <2>2. run \in i..Len(s)
      <3>1. SkipPast(s, i, {s[i]}) \in i..(Len(s) + 1)
        BY <2>0, SkipsPast
      <3>2. SkipPast(s, i, {s[i]}) # i
        <4>1. SkipPast(s, i, {s[i]}) \notin {j \in i..Len(s) : s[j] \notin {s[i]}} \/ SkipPast(s, i, {s[i]}) # i
          OBVIOUS
        <4>2. SkipPast(s, i, {s[i]}) \in {j \in i..Len(s) : s[j] \notin {s[i]}} \cup {Len(s) + 1}
          <5> DEFINE T == {j \in i..Len(s) : s[j] \notin {s[i]}} \cup {Len(s) + 1}
          <5>1. T \in SUBSET Nat /\ T # {}
            BY <1>0
          <5>2. Min(T) \in T
            BY <5>1, MinIsLeast
          <5> QED BY <5>2 DEF SkipPast
        <4> QED BY <1>0, <1>3, <4>1, <4>2
      <3> QED BY <1>0, <3>1, <3>2
    <2>3. end \in run..Len(s)
      <3>1. run + 1 \in 1..(Len(s) + 1)
        BY <1>0, <2>2
      <3>2. SkipPast(s, run + 1, Closing) \in (run + 1)..(Len(s) + 1)
        BY <3>1, SkipsPast
      <3> QED BY <1>0, <2>2, <3>2
    <2> HIDE DEF blank, lines, run, end, boundary, after
    <2>4. CASE s[i] = "/" /\ lines >= 2
      <3>1. Scan(s, st) = [out |-> upTo(i - 1), from |-> blank, at |-> blank]
        BY <1>0, <1>1, <1>3, <2>4
      <3>2. blank > i
        <4>1. SkipPast(s, i, Space) \in {j \in i..Len(s) : s[j] \notin Space} \cup {Len(s) + 1}
          <5> DEFINE T == {j \in i..Len(s) : s[j] \notin Space} \cup {Len(s) + 1}
          <5>1. T \in SUBSET Nat /\ T # {}
            BY <1>0
          <5>2. Min(T) \in T
            BY <5>1, MinIsLeast
          <5> QED BY <5>2 DEF SkipPast
        <4>2. s[i] \in Space
          BY <2>4 DEF Space
        <4> QED BY <1>0, <1>3, <2>1, <4>1, <4>2 DEF blank
      <3>3. /\ i - 1 \in Nat /\ blank \in Nat /\ st.from <= (i - 1) + 1 /\ i - 1 < blank
            /\ blank <= Len(s) + 1 /\ (i - 1) + 1 = i
        BY <1>0, <2>1, <3>2
      <3>4. upTo(i - 1) \in Seq(Text) /\ Solid(FlattenSeq(upTo(i - 1))) = Solid(SubSeq(s, 1, blank - 1))
        BY <2>1, <3>3, UpTo
      <3> HIDE DEF upTo
      <3>5. PICK n : n = [out |-> upTo(i - 1), from |-> blank, at |-> blank]
        OBVIOUS
      <3>6. n.out = upTo(i - 1) /\ n.from = blank /\ n.at = blank /\ n \in Scanned
        BY <3>3, <3>2, <1>0, <3>4, <3>5 DEF Scanned
      <3>7. ScanHolds(s, n)
        BY <3>3, <3>4, <3>6 DEF ScanHolds
      <3> QED BY <3>1, <3>5, <3>7
    <2>5. CASE ~(s[i] = "/" /\ lines >= 2) /\ s[i] \notin Terminator
      <3>1. Scan(s, st) = [st EXCEPT !.at = i + 1]
        BY <1>0, <1>1, <1>3, <2>5
      <3> QED BY <1>0, <1>3, <3>1 DEF ScanHolds, Scanned
    <2>6. CASE ~(s[i] = "/" /\ lines >= 2) /\ s[i] \in Terminator /\ boundary
      <3>1. Scan(s, st) = [out |-> upTo(end), from |-> end + 1, at |-> end + 1]
        BY <1>0, <1>1, <1>3, <2>6
      <3>3. /\ end \in Nat /\ end + 1 \in Nat \ {0} /\ st.from <= end + 1 /\ end < end + 1
            /\ end + 1 <= Len(s) + 1 /\ (end + 1)..((end + 1) - 1) = {} /\ (end + 1) - 1 = end
        BY <1>0, <2>2, <2>3
      <3>4. upTo(end) \in Seq(Text) /\ Solid(FlattenSeq(upTo(end))) = Solid(SubSeq(s, 1, (end + 1) - 1))
        BY <3>3, UpTo
      <3> HIDE DEF upTo
      <3>5. PICK n : n = [out |-> upTo(end), from |-> end + 1, at |-> end + 1]
        OBVIOUS
      <3>6. n.out = upTo(end) /\ n.from = end + 1 /\ n.at = end + 1 /\ n \in Scanned
        BY <3>3, <3>4, <3>5 DEF Scanned
      <3>7. ScanHolds(s, n)
        BY <3>3, <3>4, <3>6 DEF ScanHolds
      <3> QED BY <3>1, <3>5, <3>7
    <2>7. CASE ~(s[i] = "/" /\ lines >= 2) /\ s[i] \in Terminator /\ ~boundary
      <3>1. Scan(s, st) = [st EXCEPT !.at = end + 1]
        BY <1>0, <1>1, <1>3, <2>7
      <3>2. end \in Nat /\ st.from <= end + 1 /\ end + 1 <= Len(s) + 1
        BY <1>0, <2>2, <2>3
      <3> QED BY <1>0, <3>1, <3>2 DEF ScanHolds, Scanned
    <2> QED BY <2>4, <2>5, <2>6, <2>7
  <1> QED BY <1>0, <1>2, <1>3

LEMMA SplitKeepsText ==
  ASSUME NEW s \in Text
  PROVE  Split(s) \in Seq(Text) /\ Solid(FlattenSeq(Split(s))) = Solid(s)
  <1> DEFINE n == Len(s)
             S == {st \in Scanned : ScanHolds(s, st)}
             base == [out |-> <<>>, from |-> 1, at |-> 1]
             g == [i \in 1..n |-> [st \in S |-> Scan(s, st)]]
             body(e) == [i \in 0..n |-> IF i = 0 THEN base ELSE Scan(s, e[i - 1])]
             F == CHOOSE e : e = body(e)
  <1>0. n \in Nat
    BY DEF Text
  <1>1. base \in S
    <2>1. base \in Scanned /\ base.from = 1 /\ base.at = 1 /\ base.out = <<>>
      BY DEF Scanned
    <2>2. SubSeq(s, 1, 1 - 1) \in Text /\ Len(SubSeq(s, 1, 1 - 1)) = 0
      <3>1. /\ 1 \in Nat \ {0} /\ 1 - 1 \in Nat /\ 1 - 1 <= Len(s) /\ 1 <= (1 - 1) + 1
            /\ (1 - 1) + 1 - 1 = 0
        BY <1>0
      <3> QED BY <3>1, PartTyped, Zenon
    <2>3. SubSeq(s, 1, 1 - 1) = <<>>
      BY <2>2 DEF Text
    <2> HIDE DEF base
    <2>4. FlattenSeq(base.out) = <<>>
      BY <2>1, FlattenNone
    <2>5. SubSeq(s, 1, base.from - 1) = <<>>
      BY <2>1, <2>3
    <2>6. ScanHolds(s, base)
      <3>1. Solid(FlattenSeq(base.out)) = Solid(SubSeq(s, 1, base.from - 1))
        BY <2>4, <2>5, Zenon
      <3> QED BY <1>0, <2>1, <3>1 DEF ScanHolds
    <2> QED BY <2>1, <2>6
  <1>2. \A st \in S : Scan(s, st) \in S
    <2>1. ASSUME NEW st \in S PROVE Scan(s, st) \in S
      <3>1. ScanHolds(s, Scan(s, st))
        BY ScanStep
      <3> QED BY <3>1 DEF ScanHolds
    <2> QED BY <2>1
  <1> HIDE DEF S, base
  <1>3. g \in [1..n -> [S -> S]]
    BY <1>2
  <1>4. PICK f : Follows(f, n, S, base, g)
    BY <1>0, <1>1, <1>3, RecursionExists
  <1>5. \A i \in 1..n : f[i] = Scan(s, f[i - 1])
    <2> SUFFICES ASSUME NEW i \in 1..n PROVE f[i] = Scan(s, f[i - 1])
      OBVIOUS
    <2>1. i - 1 \in 0..n
      BY <1>0
    <2>2. f[i - 1] \in S /\ f[i] = g[i][f[i - 1]]
      BY <1>4, <2>1 DEF Follows
    <2> QED BY <2>2
  <1>6. f = body(f)
    BY <1>0, <1>4, <1>5 DEF Follows
  <1>7. F = body(F)
    <2> HIDE DEF body
    <2> QED BY <1>6
  <1>8. Split(s) = F[n].out \o Chunk(SubSeq(s, F[n].from, n))
    BY DEF Split, base
  <1> HIDE DEF F, g, n
  <1>9. DOMAIN F = 0..n /\ F[0] = base /\ \A i \in 1..n : F[i] = Scan(s, F[i - 1])
    <2>1. F[0] = base /\ DOMAIN F = 0..n
      BY <1>0, <1>7
    <2>2. \A i \in 1..n : i \in 0..n /\ i # 0
      BY <1>0
    <2> QED BY <1>7, <2>1, <2>2
  <1> DEFINE T == {i \in 0..n : F[i] \in S}
  <1>10. 0..n \subseteq T
    <2>1. 0 \in T
      BY <1>0, <1>1, <1>9
    <2>2. ASSUME NEW i \in 0..(n - 1), i \in T PROVE i + 1 \in T
      <3>1. i + 1 \in 1..n /\ i + 1 \in 0..n /\ (i + 1) - 1 = i
        BY <1>0
      <3>2. F[i + 1] = Scan(s, F[(i + 1) - 1])
        BY <1>9, <3>1, Zenon
      <3> QED BY <1>2, <2>2, <3>1, <3>2
    <2> QED BY <1>0, <2>1, <2>2, NumbersUpTo, Zenon
  <1>11. ScanHolds(s, F[n])
    BY <1>0, <1>10 DEF S
  <1>12. /\ F[n].from \in Nat \ {0} /\ F[n].from <= n + 1
    BY <1>0, <1>11 DEF ScanHolds, Scanned, n
  <1> DEFINE out == F[n].out \o Chunk(SubSeq(s, F[n].from, n))
  <1>13. /\ out \in Seq(Text) /\ Solid(FlattenSeq(out)) = Solid(SubSeq(s, 1, (n + 1) - 1))
    <2>1. /\ n \in Nat /\ n + 1 \in Nat /\ F[n].from <= n + 1 /\ n < n + 1 /\ n + 1 <= Len(s) + 1
          /\ \A j \in (n + 1)..((n + 1) - 1) : s[j] \in Space
      BY <1>0, <1>12 DEF n
    <2> QED BY <1>11, <2>1, UpTo
  <1>14. SubSeq(s, 1, (n + 1) - 1) = s
    <2>1. (n + 1) - 1 = Len(s)
      BY <1>0 DEF n
    <2>2. SubSeq(s, 1, Len(s)) = s
      BY DEF Text
    <2> QED BY <2>1, <2>2
  <1> QED BY <1>8, <1>13, <1>14

LEMMA BeginningTyped ==
  ASSUME NEW S, NEW q \in Seq(S), NEW m \in Nat, m <= Len(q)
  PROVE  /\ SubSeq(q, 1, m) \in Seq(S) /\ Len(SubSeq(q, 1, m)) = m
         /\ \A i \in 1..m : SubSeq(q, 1, m)[i] = q[i]
  OBVIOUS

\* All but the last piece, and the last.
LEMMA LastOfPieces ==
  ASSUME NEW parts \in Seq(Text), Len(parts) >= 1
  PROVE  /\ Front(parts) \in Seq(Text) /\ Growing(parts) \in Text
         /\ FlattenSeq(parts) = FlattenSeq(Front(parts)) \o Growing(parts)
  <1> DEFINE n == Len(parts)
             front == Front(parts)
             last == Growing(parts)
             both == front \o <<last>>
  <1>1. n \in Nat /\ n \in 1..n /\ n - 1 \in Nat
    OBVIOUS
  <1>2. last \in Text
    BY <1>1 DEF Growing
  <1>3. front \in Seq(Text) /\ Len(front) = n - 1 /\ \A i \in 1..(n - 1) : front[i] = parts[i]
    <2>1. front = SubSeq(parts, 1, n - 1)
      BY DEF Front
    <2> HIDE DEF front
    <2>2. n - 1 <= Len(parts)
      BY <1>1
    <2> HIDE DEF n
    <2> QED BY <1>1, <2>1, <2>2, BeginningTyped, Zenon
  <1> HIDE DEF front
  <1>4. <<last>> \in Seq(Text) /\ Len(<<last>>) = 1 /\ <<last>>[1] = last
    BY <1>2
  <1>5. both = parts
    <2>1. /\ both \in Seq(Text) /\ Len(both) = n /\ (\A i \in 1..(n - 1) : both[i] = parts[i])
          /\ both[n] = last
      BY <1>1, <1>2, <1>3
    <2>2. last = parts[n]
      BY DEF Growing
    <2> HIDE DEF both, last
    <2>3. \A i \in 1..n : i \in 1..(n - 1) \/ i = n
      BY <1>1
    <2>4. \A i \in 1..Len(both) : both[i] = parts[i]
      BY <2>1, <2>2, <2>3
    <2> QED BY <2>1, <2>4, SameSequence
  <1>6. FlattenSeq(both) = FlattenSeq(front) \o FlattenSeq(<<last>>)
    BY <1>3, <1>4, FlattenConcat DEF Text
  <1>7. FlattenSeq(<<last>>) = last
    BY <1>2, FlattenOne DEF Text
  <1> QED BY <1>2, <1>3, <1>5, <1>6, <1>7 DEF front

SentencesInv ==
  /\ reply \in Text /\ pending \in Text /\ spoken \in Seq(Text)
  /\ NothingLost

\* What is spoken more is what pending has less.
LEMMA SpokenMore ==
  ASSUME SentencesInv, NEW more \in Seq(Text), spoken' = spoken \o more
  PROVE  /\ spoken' \in Seq(Text) /\ Solid(Said)' = Solid(Said) \o Solid(FlattenSeq(more))
         /\ Solid(Said) \in Seq(Char) /\ Solid(FlattenSeq(more)) \in Seq(Char)
  <1>1. spoken \in Seq(Seq(Char)) /\ more \in Seq(Seq(Char))
    BY DEF SentencesInv, Text
  <1>2. spoken \o more \in Seq(Seq(Char))
    BY <1>1, ConcatTyped
  <1>3. FlattenSeq(spoken \o more) = FlattenSeq(spoken) \o FlattenSeq(more)
    BY <1>1, FlattenConcat
  <1>4. FlattenSeq(spoken) \in Text /\ FlattenSeq(more) \in Text
    BY <1>1, FlattenTyped DEF Text
  <1>5. Solid(FlattenSeq(spoken) \o FlattenSeq(more)) = Solid(FlattenSeq(spoken)) \o Solid(FlattenSeq(more))
    BY <1>4, SolidConcat
  <1>6. Solid(FlattenSeq(spoken)) \in Seq(Char) /\ Solid(FlattenSeq(more)) \in Seq(Char)
    BY <1>4, SolidTyped DEF Text
  <1>7. Solid(Said)' = Solid(FlattenSeq(spoken \o more)) /\ Solid(Said) = Solid(FlattenSeq(spoken))
    BY DEF Said, Solid
  <1> QED BY <1>2, <1>3, <1>5, <1>6, <1>7 DEF Text

\* NothingLost: however a reply is cut into pieces on its way, and whatever the length of
\* either, each character of it that is not white space is spoken once and in order, or
\* still waiting to be (cosmo-tts sentence.rs split, speech.rs speak_stream).
THEOREM EverythingIsSpoken == SentencesSpec => []NothingLost
  <1>1. SentencesInit => SentencesInv
    <2> SUFFICES ASSUME SentencesInit PROVE SentencesInv
      OBVIOUS
    <2>1. reply = <<>> /\ pending = <<>> /\ spoken = <<>> /\ <<>> \in Text /\ <<>> \in Seq(Text)
      BY DEF SentencesInit, Text
    <2>2. Solid(<<>>) = <<>>
      <3>1. <<>> \in Text /\ Len(<<>>) = 0
        BY DEF Text
      <3> QED BY <3>1, SolidBlank
    <2>3. <<>> \o <<>> = <<>>
      BY <2>1, ConcatEmpty DEF Text
    <2> QED BY <2>1, <2>2, <2>3, FlattenNone DEF SentencesInv, NothingLost, Said
  <1>2. SentencesInv /\ [SentencesNext]_sentencesVars => SentencesInv'
    <2> SUFFICES ASSUME SentencesInv, [SentencesNext]_sentencesVars PROVE SentencesInv'
      OBVIOUS
    <2>0. /\ reply \in Text /\ pending \in Text /\ spoken \in Seq(Text)
          /\ Solid(Said) \o Solid(pending) = Solid(reply)
      BY DEF SentencesInv, NothingLost
    <2>1. CASE Arrives
      <3>1. PICK d \in UNION {[1..n -> Char] : n \in 1..MaxDelta} :
              /\ reply' = reply \o d
              /\ IF Len(Split(pending \o d)) < 2
                 THEN pending' = pending \o d /\ UNCHANGED spoken
                 ELSE /\ pending' = Growing(Split(pending \o d))
                      /\ spoken' = spoken \o Front(Split(pending \o d))
        BY <2>1 DEF Arrives
      <3>2. d \in Text
        BY SentencesAssumption DEF Text
      <3> DEFINE text == pending \o d
                 parts == Split(text)
      <3>3. /\ text \in Text /\ Solid(text) = Solid(pending) \o Solid(d)
            /\ reply' \in Text /\ Solid(reply') = Solid(reply) \o Solid(d)
        BY <2>0, <3>1, <3>2, SolidConcat
      <3>4. Solid(pending) \in Seq(Char) /\ Solid(d) \in Seq(Char) /\ Solid(Said) \in Seq(Char)
        <4>1. <<>> \in Seq(Text) /\ Said \in Text
          BY <2>0, FlattenTyped DEF Text, Said
        <4> QED BY <2>0, <3>2, <4>1, SolidTyped DEF Text
      <3>5. Solid(reply') = Solid(Said) \o Solid(text)
        <4>1. \A a, b, c \in Seq(Char) : (a \o b) \o c = a \o (b \o c)
          BY ConcatRegroups
        <4>2. (Solid(Said) \o Solid(pending)) \o Solid(d) = Solid(Said) \o (Solid(pending) \o Solid(d))
          BY <3>4, <4>1, Zenon
        <4> QED BY <2>0, <3>3, <4>2
      <3>6. parts \in Seq(Text) /\ Solid(FlattenSeq(parts)) = Solid(text)
        BY <3>3, SplitKeepsText
      <3>7. CASE Len(parts) < 2
        <4>1. pending' = text /\ spoken' = spoken
          BY <3>1, <3>7
        <4>2. Solid(Said)' = Solid(Said) /\ Solid(pending)' = Solid(text) /\ Solid(reply)' = Solid(reply')
          BY <4>1 DEF Said, Solid
        <4> HIDE DEF text
        <4> QED BY <2>0, <3>3, <3>5, <4>1, <4>2 DEF SentencesInv, NothingLost
      <3>8. CASE ~(Len(parts) < 2)
        <4>1. pending' = Growing(parts) /\ spoken' = spoken \o Front(parts)
          BY <3>1, <3>8
        <4>2. Len(parts) >= 1
          BY <3>6, <3>8
        <4> HIDE DEF parts, text
        <4>3. /\ Front(parts) \in Seq(Text) /\ Growing(parts) \in Text
              /\ FlattenSeq(parts) = FlattenSeq(Front(parts)) \o Growing(parts)
          BY <3>6, <4>2, LastOfPieces
        <4>4. FlattenSeq(Front(parts)) \in Text
          BY <4>3, FlattenTyped DEF Text
        <4>5. Solid(text) = Solid(FlattenSeq(Front(parts))) \o Solid(Growing(parts))
          BY <3>6, <4>3, <4>4, SolidConcat
        <4>6. /\ spoken' \in Seq(Text) /\ Solid(Said)' = Solid(Said) \o Solid(FlattenSeq(Front(parts)))
          BY <4>1, <4>3, SpokenMore
        <4>7. /\ Solid(FlattenSeq(Front(parts))) \in Seq(Char) /\ Solid(Growing(parts)) \in Seq(Char)
          BY <4>3, <4>4, SolidTyped DEF Text
        <4>8. \A a, b, c \in Seq(Char) : (a \o b) \o c = a \o (b \o c)
          BY ConcatRegroups
        <4>9. Solid(Said)' \o Solid(Growing(parts)) = Solid(Said) \o Solid(text)
          <5>1. (Solid(Said) \o Solid(FlattenSeq(Front(parts)))) \o Solid(Growing(parts))
                = Solid(Said) \o (Solid(FlattenSeq(Front(parts))) \o Solid(Growing(parts)))
            BY <3>4, <4>7, <4>8, Zenon
          <5> QED BY <4>5, <4>6, <5>1
        <4>10. Solid(pending)' = Solid(Growing(parts)) /\ Solid(reply)' = Solid(reply')
          BY <4>1 DEF Solid
        <4> QED BY <3>3, <3>5, <4>1, <4>3, <4>6, <4>9, <4>10 DEF SentencesInv, NothingLost
      <3> QED BY <3>7, <3>8
    <2>2. CASE Finish
      <3>1. spoken' = spoken \o Split(pending) /\ pending' = <<>> /\ reply' = reply
        BY <2>2 DEF Finish
      <3>2. Split(pending) \in Seq(Text) /\ Solid(FlattenSeq(Split(pending))) = Solid(pending)
        BY <2>0, SplitKeepsText
      <3>3. /\ spoken' \in Seq(Text) /\ Solid(Said)' = Solid(Said) \o Solid(pending)
            /\ Solid(Said) \in Seq(Char) /\ Solid(pending) \in Seq(Char)
        BY <3>1, <3>2, SpokenMore
      <3>4. <<>> \in Text /\ Solid(<<>>) = <<>>
        <4>1. <<>> \in Text /\ Len(<<>>) = 0
          BY DEF Text
        <4> QED BY <4>1, SolidBlank
      <3>5. Solid(pending)' = <<>> /\ Solid(reply)' = Solid(reply)
        BY <3>1, <3>4 DEF Solid
      <3>6. Solid(reply) \in Seq(Char)
        BY <2>0, SolidTyped DEF Text
      <3>7. Solid(reply) \o <<>> = Solid(reply)
        BY <3>6, ConcatEmpty
      <3> QED BY <2>0, <3>1, <3>3, <3>4, <3>5, <3>7 DEF SentencesInv, NothingLost
    <2>3. CASE UNCHANGED sentencesVars
      BY <2>0, <2>3 DEF SentencesInv, NothingLost, sentencesVars, Said, Solid
    <2> QED BY <2>1, <2>2, <2>3 DEF SentencesNext
  <1>3. SentencesInv => NothingLost
    BY DEF SentencesInv
  <1> QED BY <1>1, <1>2, <1>3, PTL DEF SentencesSpec

(* Reflexes: what is taken out of a transcript, and what stays *)

\* x is one of the words of w.
Amid(x, w) == \E i \in 1..Len(w) : w[i] = x

\* y comes right behind x, and before them w has words of T only.
Adjacent(w, T, x, y) ==
  \E j \in 1..(Len(w) - 1) : w[j] = x /\ w[j + 1] = y /\ \A i \in 1..(j - 1) : w[i] \in T

LEMMA ElementsIn ==
  ASSUME NEW S, NEW s \in Seq(S)
  PROVE  \A i \in 1..Len(s) : s[i] \in S
  OBVIOUS

LEMMA ThreeParts ==
  ASSUME NEW S, NEW s \in Seq(S), NEW k \in 1..Len(s)
  PROVE  s = (SubSeq(s, 1, k - 1) \o <<s[k]>>) \o SubSeq(s, k + 1, Len(s))
  <1> DEFINE u == SubSeq(s, 1, k - 1)
             x == <<s[k]>>
             v == SubSeq(s, k + 1, Len(s))
  <1>1. u \in Seq(S) /\ Len(u) = k - 1 /\ \A i \in 1..(k - 1) : u[i] = s[i]
    OBVIOUS
  <1>2. x \in Seq(S) /\ Len(x) = 1 /\ x[1] = s[k]
    OBVIOUS
  <1>3. v \in Seq(S) /\ Len(v) = Len(s) - k /\ \A i \in 1..(Len(s) - k) : v[i] = s[k + i]
    OBVIOUS
  <1> HIDE DEF u, x, v
  <1> DEFINE c == u \o x
             d == c \o v
  <1>4. /\ c \in Seq(S) /\ Len(c) = Len(u) + Len(x)
        /\ (\A i \in 1..Len(u) : c[i] = u[i]) /\ \A i \in 1..Len(x) : c[Len(u) + i] = x[i]
    <2>1. u \in Seq(S) /\ x \in Seq(S)
      BY <1>1, <1>2
    <2> QED BY <2>1, ConcatTyped
  <1> HIDE DEF c
  <1>5. Len(c) = k /\ (\A i \in 1..(k - 1) : c[i] = s[i]) /\ c[k] = s[k]
    <2>1. c[(k - 1) + 1] = x[1]
      BY <1>1, <1>2, <1>4
    <2> QED BY <1>1, <1>2, <1>4, <2>1
  <1>6. /\ d \in Seq(S) /\ Len(d) = Len(c) + Len(v)
        /\ (\A i \in 1..Len(c) : d[i] = c[i]) /\ \A i \in 1..Len(v) : d[Len(c) + i] = v[i]
    <2>1. c \in Seq(S) /\ v \in Seq(S)
      BY <1>3, <1>4
    <2> QED BY <2>1, ConcatTyped
  <1> HIDE DEF d
  <1>7. Len(d) = Len(s)
    BY <1>3, <1>5, <1>6
  <1>8. ASSUME NEW i \in 1..Len(s) PROVE d[i] = s[i]
    <2>1. CASE i <= k
      <3>1. i \in 1..Len(c) /\ c[i] = s[i]
        BY <1>5, <2>1
      <3> QED BY <1>6, <3>1
    <2>2. CASE i > k
      <3>1. i - k \in 1..Len(v) /\ k + (i - k) = i
        BY <1>3, <2>2
      <3>2. d[Len(c) + (i - k)] = v[i - k]
        BY <1>6, <3>1
      <3> QED BY <1>3, <1>5, <3>1, <3>2
    <2> QED BY <2>1, <2>2
  <1>9. d = s
    BY <1>6, <1>7, <1>8, SameSequence
  <1> QED BY <1>9 DEF u, x, v, c, d

LEMMA Between ==
  ASSUME NEW S, NEW T \in SUBSET S, NEW a \in Seq(T), NEW b \in Seq(S), NEW x \in S, NEW y \in S,
         NEW w, w = (a \o <<x>>) \o (<<y>> \o b)
  PROVE  Adjacent(w, T, x, y)
  <1> DEFINE c == a \o <<x>>
             d == <<y>> \o b
  <1>1. a \in Seq(S) /\ Len(a) \in Nat /\ (\A i \in 1..Len(a) : a[i] \in T) /\ Len(b) \in Nat
    OBVIOUS
  <1>2. <<x>> \in Seq(S) /\ Len(<<x>>) = 1 /\ <<x>>[1] = x /\ <<y>> \in Seq(S) /\ Len(<<y>>) = 1 /\ <<y>>[1] = y
    OBVIOUS
  <1>3. /\ c \in Seq(S) /\ Len(c) = Len(a) + Len(<<x>>)
        /\ (\A i \in 1..Len(a) : c[i] = a[i]) /\ \A i \in 1..Len(<<x>>) : c[Len(a) + i] = <<x>>[i]
    <2>1. a \in Seq(S) /\ <<x>> \in Seq(S)
      BY <1>1, <1>2
    <2> QED BY <2>1, ConcatTyped
  <1>4. /\ d \in Seq(S) /\ Len(d) = Len(<<y>>) + Len(b)
        /\ (\A i \in 1..Len(<<y>>) : d[i] = <<y>>[i])
    <2>1. <<y>> \in Seq(S) /\ b \in Seq(S)
      BY <1>2
    <2> QED BY <2>1, ConcatTyped
  <1>5. Len(c) = Len(a) + 1 /\ c[Len(a) + 1] = x /\ Len(d) = 1 + Len(b) /\ d[1] = y
    <2>1. 1 \in 1..Len(<<x>>) /\ 1 \in 1..Len(<<y>>)
      BY <1>2
    <2> QED BY <1>2, <1>3, <1>4, <2>1
  <1> HIDE DEF c, d
  <1>6. /\ w \in Seq(S) /\ Len(w) = Len(c) + Len(d)
        /\ (\A i \in 1..Len(c) : w[i] = c[i]) /\ \A i \in 1..Len(d) : w[Len(c) + i] = d[i]
    <2>1. c \in Seq(S) /\ d \in Seq(S)
      BY <1>3, <1>4
    <2>2. w = c \o d
      BY DEF c, d
    <2>3. /\ c \o d \in Seq(S) /\ Len(c \o d) = Len(c) + Len(d)
          /\ (\A i \in 1..Len(c) : (c \o d)[i] = c[i]) /\ \A i \in 1..Len(d) : (c \o d)[Len(c) + i] = d[i]
      BY <2>1, ConcatTyped
    <2> QED BY <2>2, <2>3
  <1> DEFINE j == Len(a) + 1
  <1>7. Len(w) = Len(a) + 2 + Len(b)
    BY <1>1, <1>5, <1>6
  <1>8. j \in 1..(Len(w) - 1)
    BY <1>1, <1>7
  <1>9. w[j] = x
    BY <1>1, <1>5, <1>6
  <1>10. w[j + 1] = y
    <2>1. 1 \in 1..Len(d) /\ Len(c) + 1 = j + 1
      BY <1>1, <1>5
    <2> QED BY <1>5, <1>6, <2>1
  <1>11. \A i \in 1..(j - 1) : w[i] \in T
    <2> SUFFICES ASSUME NEW i \in 1..(j - 1) PROVE w[i] \in T
      OBVIOUS
    <2>1. i \in 1..Len(a) /\ i \in 1..Len(c)
      BY <1>1, <1>5
    <2> QED BY <1>1, <1>3, <1>6, <2>1
  <1> HIDE DEF j
  <1> QED BY <1>8, <1>9, <1>10, <1>11 DEF Adjacent

\* A part of a flattened sequence stands between what the parts before it and
\* behind it give.
LEMMA FlattenAround ==
  ASSUME NEW S, NEW T \in SUBSET S, NEW pp \in Seq(Seq(S)), NEW k \in 1..Len(pp),
         \A i \in 1..(k - 1) : pp[i] \in Seq(T)
  PROVE  \E a \in Seq(T) : FlattenSeq(pp) = (a \o pp[k]) \o FlattenSeq(SubSeq(pp, k + 1, Len(pp)))
  <1> DEFINE qq == SubSeq(pp, 1, k - 1)
             one == <<pp[k]>>
             rr == SubSeq(pp, k + 1, Len(pp))
  <1>1. pp[k] \in Seq(S)
    OBVIOUS
  <1>2. qq \in Seq(Seq(T)) /\ qq \in Seq(Seq(S)) /\ one \in Seq(Seq(S)) /\ rr \in Seq(Seq(S))
    <2>1. qq \in Seq(Seq(S)) /\ Len(qq) = k - 1 /\ \A i \in 1..(k - 1) : qq[i] = pp[i]
      OBVIOUS
    <2>2. qq \in Seq(Seq(T))
      BY <2>1
    <2> QED BY <1>1, <2>1, <2>2
  <1>3. pp = (qq \o one) \o rr
    BY ThreeParts
  <1> HIDE DEF qq, one, rr
  <1>4. qq \o one \in Seq(Seq(S))
    BY <1>2, ConcatTyped
  <1>5. FlattenSeq(pp) = (FlattenSeq(qq) \o FlattenSeq(one)) \o FlattenSeq(rr)
    <2>1. FlattenSeq(pp) = FlattenSeq(qq \o one) \o FlattenSeq(rr)
      BY <1>2, <1>3, <1>4, FlattenConcat
    <2>2. FlattenSeq(qq \o one) = FlattenSeq(qq) \o FlattenSeq(one)
      BY <1>2, FlattenConcat
    <2> QED BY <2>1, <2>2
  <1>6. FlattenSeq(one) = pp[k]
    BY <1>1, FlattenOne, Zenon DEF one
  <1>7. FlattenSeq(qq) \in Seq(T) /\ FlattenSeq(rr) \in Seq(S)
    BY <1>2, FlattenTyped, Zenon
  <1> QED BY <1>5, <1>6, <1>7, Zenon DEF rr

\* Two parts that follow each other, each of one word.
LEMMA FlattenWords ==
  ASSUME NEW S, NEW T \in SUBSET S, NEW pp \in Seq(Seq(S)), NEW k \in 1..(Len(pp) - 1),
         NEW x, NEW y, pp[k] = <<x>>, pp[k + 1] = <<y>>, \A i \in 1..(k - 1) : pp[i] \in Seq(T)
  PROVE  Adjacent(FlattenSeq(pp), T, x, y)
  <1> DEFINE rr == SubSeq(pp, k + 1, Len(pp))
             r2 == SubSeq(rr, 2, Len(rr))
  <1>1. rr \in Seq(Seq(S)) /\ Len(rr) = Len(pp) - k /\ rr[1] = pp[k + 1] /\ 1 \in 1..Len(rr) /\ k \in 1..Len(pp)
    OBVIOUS
  <1>2. r2 \in Seq(Seq(S))
    BY <1>1
  <1>3. PICK a \in Seq(T) : FlattenSeq(pp) = (a \o pp[k]) \o FlattenSeq(rr)
    BY <1>1, FlattenAround
  <1> HIDE DEF rr
  <1>4. PICK e \in Seq({}) : FlattenSeq(rr) = (e \o rr[1]) \o FlattenSeq(SubSeq(rr, 1 + 1, Len(rr)))
    <2>1. \A i \in 1..(1 - 1) : rr[i] \in Seq({})
      OBVIOUS
    <2> QED BY <1>1, <2>1, FlattenAround
  <1> DEFINE b == FlattenSeq(r2)
  <1>5. b \in Seq(S)
    BY <1>2, FlattenTyped
  <1>6. FlattenSeq(rr) = (e \o <<y>>) \o b
    BY <1>1, <1>4
  <1> HIDE DEF r2, b
  <1>7. e = <<>>
    OBVIOUS
  <1>8. x \in S /\ y \in S
    <2>1. pp[k] \in Seq(S) /\ pp[k + 1] \in Seq(S)
      <3>1. k \in 1..Len(pp) /\ k + 1 \in 1..Len(pp)
        OBVIOUS
      <3>2. \A i \in 1..Len(pp) : pp[i] \in Seq(S)
        BY Zenon, ElementsIn
      <3> QED BY <3>1, <3>2, Zenon
    <2>2. <<x>> \in Seq(S) /\ <<y>> \in Seq(S)
      BY <2>1
    <2>3. <<x>>[1] \in S /\ <<y>>[1] \in S
      BY <2>2
    <2> QED BY <2>3
  <1>9. FlattenSeq(pp) = (a \o <<x>>) \o (<<y>> \o b)
    BY <1>3, <1>6, <1>7
  <1> QED BY <1>5, <1>8, <1>9, Between

LEMMA AmidParts ==
  ASSUME NEW S, NEW a \in Seq(S), NEW b \in Seq(S), NEW x \in S
  PROVE  Amid(x, (a \o <<x>>) \o b)
  <1>1. <<x>> \in Seq(S) /\ Len(<<x>>) = 1 /\ <<x>>[1] = x /\ Len(a) \in Nat /\ Len(b) \in Nat
    OBVIOUS
  <1> DEFINE c == a \o <<x>>
             w == c \o b
  <1>2. /\ c \in Seq(S) /\ Len(c) = Len(a) + Len(<<x>>) /\ \A i \in 1..Len(<<x>>) : c[Len(a) + i] = <<x>>[i]
    <2>1. <<x>> \in Seq(S)
      BY <1>1
    <2> QED BY <2>1, ConcatTyped
  <1>3. Len(c) = Len(a) + 1 /\ c[Len(a) + 1] = x
    BY <1>1, <1>2
  <1> HIDE DEF c
  <1>4. Len(w) = Len(c) + Len(b) /\ \A i \in 1..Len(c) : w[i] = c[i]
    <2>1. c \in Seq(S)
      BY <1>2
    <2> QED BY <2>1, ConcatTyped
  <1> HIDE DEF w
  <1>5. Len(a) + 1 \in 1..Len(w) /\ w[Len(a) + 1] = x
    BY <1>1, <1>3, <1>4
  <1>6. Amid(x, w)
    BY <1>5, Zenon DEF Amid
  <1> QED BY <1>6 DEF w, c

LEMMA FlattenKeeps ==
  ASSUME NEW S, NEW pp \in Seq(Seq(S)), NEW k \in 1..Len(pp), NEW x, pp[k] = <<x>>
  PROVE  Amid(x, FlattenSeq(pp))
  <1>1. SubSeq(pp, k + 1, Len(pp)) \in Seq(Seq(S))
    OBVIOUS
  <1> DEFINE b == FlattenSeq(SubSeq(pp, k + 1, Len(pp)))
  <1>2. b \in Seq(S)
    BY <1>1, FlattenTyped
  <1>3. pp[k] \in Seq(S)
    BY ElementsIn, Zenon
  <1>4. x \in S
    <2>1. <<x>> \in Seq(S)
      BY <1>3
    <2>2. <<x>>[1] \in S
      BY <2>1
    <2> QED BY <2>2
  <1>5. \E a \in Seq(S) : FlattenSeq(pp) = (a \o pp[k]) \o b
    <2>1. \A i \in 1..(k - 1) : pp[i] \in Seq(S)
      <3>1. \A i \in 1..Len(pp) : pp[i] \in Seq(S)
        BY ElementsIn, Zenon
      <3> QED BY <3>1
    <2> QED BY <2>1, FlattenAround
  <1> HIDE DEF b
  <1>6. PICK a \in Seq(S) : FlattenSeq(pp) = (a \o <<x>>) \o b
    BY <1>5
  <1>7. Amid(x, (a \o <<x>>) \o b)
    BY <1>2, <1>4, AmidParts
  <1> QED BY <1>6, <1>7

LEMMA FunctionSequence ==
  ASSUME NEW S, NEW n \in Nat, NEW f, f = [i \in 1..n |-> f[i]], \A i \in 1..n : f[i] \in S
  PROVE  f \in Seq(S) /\ Len(f) = n
  OBVIOUS

\* What is chosen of a transcript.
LEMMA ChosenParts ==
  ASSUME NEW S, NEW w \in Seq(S), NEW places, NEW pp,
         pp = [i \in DOMAIN w |-> IF i \in places THEN <<w[i]>> ELSE <<>>]
  PROVE  pp \in Seq(Seq(S)) /\ Len(pp) = Len(w) /\ \A i \in 1..Len(w) : pp[i] = IF i \in places THEN <<w[i]>> ELSE <<>>
  <1>1. DOMAIN w = 1..Len(w) /\ Len(w) \in Nat
    OBVIOUS
  <1>2. \A i \in 1..Len(w) : pp[i] = IF i \in places THEN <<w[i]>> ELSE <<>>
    BY <1>1
  <1>3. \A i \in 1..Len(w) : pp[i] \in Seq(S)
    <2>1. \A i \in 1..Len(w) : <<w[i]>> \in Seq(S)
      OBVIOUS
    <2>2. <<>> \in Seq(S)
      OBVIOUS
    <2> QED BY <1>2, <2>1, <2>2
  <1>4. pp = [i \in 1..Len(w) |-> pp[i]]
    BY <1>1
  <1>5. pp \in Seq(Seq(S)) /\ Len(pp) = Len(w)
    BY <1>1, <1>3, <1>4, FunctionSequence
  <1> QED BY <1>2, <1>5

LEMMA ChosenTyped ==
  ASSUME NEW S, NEW w \in Seq(S), NEW places
  PROVE  Chosen(w, places) \in Seq(S)
  <1> DEFINE pp == [i \in DOMAIN w |-> IF i \in places THEN <<w[i]>> ELSE <<>>]
  <1>1. pp \in Seq(Seq(S))
    <2>1. pp \in Seq(Seq(S)) /\ Len(pp) = Len(w) /\ \A i \in 1..Len(w) : pp[i] = IF i \in places THEN <<w[i]>> ELSE <<>>
      BY ChosenParts, Zenon
    <2> QED BY <2>1, Zenon
  <1> HIDE DEF pp
  <1>2. FlattenSeq(pp) \in Seq(S)
    BY <1>1, FlattenTyped
  <1> QED BY <1>2 DEF Chosen, pp

LEMMA ChosenKeeps ==
  ASSUME NEW S, NEW w \in Seq(S), NEW places, NEW k \in 1..Len(w), k \in places
  PROVE  Amid(w[k], Chosen(w, places))
  <1> DEFINE pp == [i \in DOMAIN w |-> IF i \in places THEN <<w[i]>> ELSE <<>>]
  <1>0. pp \in Seq(Seq(S)) /\ Len(pp) = Len(w) /\ \A i \in 1..Len(w) : pp[i] = IF i \in places THEN <<w[i]>> ELSE <<>>
    BY ChosenParts, Zenon
  <1>1. pp \in Seq(Seq(S)) /\ Len(pp) = Len(w) /\ pp[k] = <<w[k]>>
    BY <1>0
  <1> HIDE DEF pp
  <1>2. Amid(w[k], FlattenSeq(pp))
    BY <1>1, FlattenKeeps
  <1> QED BY <1>2 DEF Chosen, pp

LEMMA ChosenAdjacent ==
  ASSUME NEW S, NEW T \in SUBSET S, NEW w \in Seq(S), NEW places, NEW k \in 1..(Len(w) - 1),
         k \in places, k + 1 \in places, \A i \in 1..(k - 1) : w[i] \in T
  PROVE  Adjacent(Chosen(w, places), T, w[k], w[k + 1])
  <1> DEFINE pp == [i \in DOMAIN w |-> IF i \in places THEN <<w[i]>> ELSE <<>>]
  <1>1. /\ pp \in Seq(Seq(S)) /\ Len(pp) = Len(w) /\ pp[k] = <<w[k]>> /\ pp[k + 1] = <<w[k + 1]>>
        /\ \A i \in 1..(k - 1) : pp[i] \in Seq(T)
    <2>1. pp \in Seq(Seq(S)) /\ Len(pp) = Len(w) /\ \A i \in 1..Len(w) : pp[i] = IF i \in places THEN <<w[i]>> ELSE <<>>
      BY ChosenParts, Zenon
    <2>2. k \in 1..Len(w) /\ k + 1 \in 1..Len(w) /\ \A i \in 1..(k - 1) : i \in 1..Len(w)
      OBVIOUS
    <2>3. \A i \in 1..(k - 1) : <<w[i]>> \in Seq(T)
      OBVIOUS
    <2>4. <<>> \in Seq(T)
      OBVIOUS
    <2> HIDE DEF pp
    <2>5. \A i \in 1..(k - 1) : pp[i] \in Seq(T)
      BY <2>1, <2>2, <2>3, <2>4
    <2>6. pp[k] = <<w[k]>> /\ pp[k + 1] = <<w[k + 1]>>
      BY <2>1, <2>2
    <2> QED BY <2>1, <2>5, <2>6
  <1> HIDE DEF pp
  <1>2. Adjacent(FlattenSeq(pp), T, w[k], w[k + 1])
    BY <1>1, FlattenWords
  <1> QED BY <1>2 DEF Chosen, pp

LEMMA WithoutKeeps ==
  ASSUME NEW S, NEW w \in Seq(S), NEW ws, NEW x, x \notin ws, Amid(x, w)
  PROVE  Without(w, ws) \in Seq(S) /\ Amid(x, Without(w, ws))
  <1>1. PICK k \in 1..Len(w) : w[k] = x
    BY DEF Amid
  <1> DEFINE places == {i \in DOMAIN w : w[i] \notin ws}
  <1>2. k \in places
    BY <1>1
  <1> HIDE DEF places
  <1>3. Chosen(w, places) \in Seq(S) /\ Amid(x, Chosen(w, places))
    BY <1>1, <1>2, ChosenTyped, ChosenKeeps
  <1> QED BY <1>3 DEF Without, places

LEMMA WordsKeep ==
  ASSUME NEW S, "workspace" \in S, NEW s \in Seq(S), NEW x, x \notin {"work", "space"}, Amid(x, s)
  PROVE  Words(s) \in Seq(S) /\ Amid(x, Words(s))
  <1>1. PICK k \in 1..Len(s) : s[k] = x
    BY DEF Amid
  <1> DEFINE pp == [i \in DOMAIN s |-> IF TwoWords(s, i) THEN <<"workspace">>
                                       ELSE IF TwoWords(s, i - 1) THEN <<>> ELSE <<s[i]>>]
  <1>2. ~TwoWords(s, k) /\ ~TwoWords(s, k - 1)
    BY <1>1 DEF TwoWords
  <1>3. pp \in Seq(Seq(S)) /\ Len(pp) = Len(s)
    <2>1. DOMAIN s = 1..Len(s) /\ Len(s) \in Nat
      OBVIOUS
    <2>2. \A i \in 1..Len(s) : <<s[i]>> \in Seq(S)
      OBVIOUS
    <2>3. <<>> \in Seq(S) /\ <<"workspace">> \in Seq(S)
      OBVIOUS
    <2>4. \A i \in 1..Len(s) : pp[i] \in Seq(S)
      BY <2>1, <2>2, <2>3
    <2>5. pp = [i \in 1..Len(s) |-> pp[i]]
      BY <2>1
    <2> HIDE DEF pp
    <2> QED BY <2>1, <2>4, <2>5, FunctionSequence
  <1>4. pp[k] = <<x>>
    BY <1>1, <1>2
  <1> HIDE DEF pp
  <1>5. FlattenSeq(pp) \in Seq(S) /\ Amid(x, FlattenSeq(pp))
    BY <1>3, <1>4, FlattenTyped, FlattenKeeps
  <1> QED BY <1>5 DEF Words, pp

(* Reflexes: a stray word keeps every verb from reading the transcript *)

Known == SUBSET Vocabulary

LEMMA IsNever ==
  ASSUME NEW S, NEW w \in Seq(S), Amid(Stray, w), NEW p \in Seq(Known)
  PROVE  ~Is(w, p)
  <1>1. PICK k \in 1..Len(w) : w[k] = Stray
    BY DEF Amid
  <1>2. \A i \in 1..Len(p) : p[i] \in Known
    BY ElementsIn
  <1>3. Stray \notin Vocabulary
    BY ReflexesAssumption
  <1> QED BY <1>1, <1>2, <1>3 DEF Is, Known

LEMMA IsAnyNever ==
  ASSUME NEW S, NEW w \in Seq(S), Amid(Stray, w), NEW ps \in SUBSET Seq(Known)
  PROVE  ~IsAny(w, ps)
  BY IsNever DEF IsAny

LEMMA BeginsRest ==
  ASSUME NEW S, NEW w \in Seq(S), Amid(Stray, w), NEW p \in Seq(Known), Begins(w, p)
  PROVE  Rest(w, Len(p)) \in Seq(S) /\ Amid(Stray, Rest(w, Len(p)))
  <1>1. PICK k \in 1..Len(w) : w[k] = Stray
    BY DEF Amid
  <1>2. \A i \in 1..Len(p) : p[i] \in Known
    BY ElementsIn
  <1>3. Stray \notin Vocabulary
    BY ReflexesAssumption
  <1>4. Len(p) \in Nat /\ Len(w) \in Nat /\ Len(p) <= Len(w) /\ \A i \in 1..Len(p) : w[i] \in p[i]
    BY DEF Begins
  <1>5. k > Len(p)
    BY <1>1, <1>2, <1>3, <1>4 DEF Known
  <1> DEFINE r == Rest(w, Len(p))
  <1>6. r \in Seq(S) /\ Len(r) = Len(w) - Len(p) /\ \A i \in 1..(Len(w) - Len(p)) : r[i] = w[i + Len(p)]
    BY <1>4 DEF Rest
  <1> HIDE DEF r
  <1>7. k - Len(p) \in 1..Len(r) /\ r[k - Len(p)] = Stray
    BY <1>1, <1>4, <1>5, <1>6
  <1>8. Amid(Stray, r)
    BY <1>7, Zenon DEF Amid
  <1> QED BY <1>6, <1>8 DEF r

LEMMA ThingKnown ==
  /\ Thing \in Known /\ PlayerName \in Known /\ {"playing"} \cup Thing \in Known
  /\ {"pause"} \in Known /\ {"stop"} \in Known /\ {"play", "resume"} \in Known
  /\ {"start", "continue"} \in Known /\ {"turn"} \in Known /\ {"on"} \in Known /\ {"off"} \in Known
  /\ {"next", "skip"} \in Known /\ {"skip"} \in Known /\ {"this"} \in Known
  /\ {"previous"} \in Known /\ {"previous", "last"} \in Known /\ {"go", "skip"} \in Known /\ {"back"} \in Known
  BY DEF Known, Vocabulary, Thing, PlayerName

LEMMA NoMedia ==
  ASSUME NEW S, NEW u \in Seq(S), Amid(Stray, u)
  PROVE  Media(u) = NoMatch
  <1> DEFINE w == Without(u, {"some", "again", "back"})
             thing(r) == r = <<>> \/ Is(r, <<Thing>>)
             named(r) == thing(r) \/ Is(r, <<PlayerName>>)
  <1>1. w \in Seq(S) /\ Amid(Stray, w)
    <2>1. Stray \notin {"some", "again", "back"}
      BY ReflexesAssumption DEF Vocabulary
    <2> QED BY <2>1, WithoutKeeps
  <1> HIDE DEF w
  <1>2. ASSUME NEW r \in Seq(S), Amid(Stray, r) PROVE ~named(r) /\ ~thing(r)
    <2>1. <<Thing>> \in Seq(Known) /\ <<PlayerName>> \in Seq(Known)
      BY ThingKnown
    <2>2. r # <<>>
      BY <1>2 DEF Amid
    <2> QED BY <1>2, <2>1, <2>2, IsNever
  <1>3. ASSUME NEW p \in Seq(Known), Begins(w, p) PROVE ~named(Rest(w, Len(p))) /\ ~thing(Rest(w, Len(p)))
    BY <1>1, <1>2, <1>3, BeginsRest
  <1> HIDE DEF thing, named
  <1>4. /\ <<{"pause"}>> \in Seq(Known) /\ <<{"play", "resume"}>> \in Seq(Known) /\ <<{"next", "skip"}>> \in Seq(Known)
        /\ <<{"skip"}, {"this"}>> \in Seq(Known) /\ <<{"go", "skip"}, {"back"}>> \in Seq(Known)
    BY ThingKnown
  <1>5. /\ ~(Begins(w, <<{"pause"}>>) /\ named(Rest(w, 1)))
        /\ ~(Begins(w, <<{"play", "resume"}>>) /\ named(Rest(w, 1)))
        /\ ~(Begins(w, <<{"next", "skip"}>>) /\ thing(Rest(w, 1)))
    BY <1>3, <1>4
  <1>6. /\ ~(Begins(w, <<{"skip"}, {"this"}>>) /\ thing(Rest(w, 2)))
        /\ ~(Begins(w, <<{"go", "skip"}, {"back"}>>) /\ thing(Rest(w, 2)))
    BY <1>3, <1>4
  <1>7. <<{"stop"}, Thing>> \in Seq(Known)
    BY ThingKnown
  <1>8. {<<{"start", "continue"}, {"playing"} \cup Thing>>, <<{"turn"}, {"on"}, Thing>>,
         <<{"turn"}, Thing, {"on"}>>} \in SUBSET Seq(Known)
    BY ThingKnown
  <1>9. {<<{"turn"}, {"off"}, Thing>>, <<{"turn"}, Thing, {"off"}>>} \in SUBSET Seq(Known)
    BY ThingKnown
  <1>10. {<<{"previous"}>>, <<{"previous", "last"}, Thing>>} \in SUBSET Seq(Known)
    BY ThingKnown
  <1>11. /\ ~Is(w, <<{"stop"}, Thing>>)
         /\ ~IsAny(w, {<<{"start", "continue"}, {"playing"} \cup Thing>>, <<{"turn"}, {"on"}, Thing>>,
                       <<{"turn"}, Thing, {"on"}>>})
         /\ ~IsAny(w, {<<{"turn"}, {"off"}, Thing>>, <<{"turn"}, Thing, {"off"}>>})
         /\ ~IsAny(w, {<<{"previous"}>>, <<{"previous", "last"}, Thing>>})
    BY <1>1, <1>7, <1>8, <1>9, <1>10, IsNever, IsAnyNever, Zenon
  <1> QED BY <1>5, <1>6, <1>11 DEF Media, w, thing, named

LEMMA ClockKnown ==
  /\ {"what"} \in Known /\ {"what's"} \in Known /\ {"time"} \in Known /\ {"is"} \in Known
  /\ {"it"} \in Known /\ {"day"} \in Known /\ {"date"} \in Known
  BY DEF Known, Vocabulary, Thing

LEMMA NoAsk ==
  ASSUME NEW S, NEW w \in Seq(S), Amid(Stray, w)
  PROVE  Ask(w) = NoMatch
  <1>1. {<<{"what"}, {"time"}, {"is"}, {"it"}>>, <<{"what's"}, {"time"}>>, <<{"time"}>>} \in SUBSET Seq(Known)
    BY ClockKnown
  <1>2. {<<{"what"}, {"day"}, {"is"}, {"it"}>>, <<{"what's"}, {"date"}>>} \in SUBSET Seq(Known)
    BY ClockKnown
  <1>3. /\ ~IsAny(w, {<<{"what"}, {"time"}, {"is"}, {"it"}>>, <<{"what's"}, {"time"}>>, <<{"time"}>>})
        /\ ~IsAny(w, {<<{"what"}, {"day"}, {"is"}, {"it"}>>, <<{"what's"}, {"date"}>>})
    BY <1>1, <1>2, IsAnyNever, Zenon
  <1> QED BY <1>3 DEF Ask

LEMMA SoundKnown ==
  /\ Sound \in Known /\ Numeral \in Known /\ Larger \cup Smaller \in Known /\ Sound \cup {"it"} \in Known
  /\ {"bit"} \cup Numeral \in Known /\ {"percent"} \in Known /\ {"by"} \in Known
  /\ {"mute", "unmute"} \in Known /\ {"turn"} \in Known /\ {"on", "off"} \in Known
  /\ {"louder", "quieter"} \in Known /\ {"set", "turn"} \in Known /\ {"to"} \in Known
  /\ {"volume"} \in Known /\ {"raise", "lower"} \in Known
  BY DEF Known, Vocabulary, Thing, Sound, Numeral, Larger, Smaller

LEMMA NoAmount ==
  ASSUME NEW S, NEW r \in Seq(S), Amid(Stray, r)
  PROVE  ~Amount(r)
  <1> DEFINE n == IF Begins(r, <<{"by"}>>) THEN Rest(r, 1) ELSE r
  <1>1. n \in Seq(S) /\ Amid(Stray, n)
    <2>1. <<{"by"}>> \in Seq(Known) /\ Len(<<{"by"}>>) = 1
      BY SoundKnown
    <2>2. CASE Begins(r, <<{"by"}>>)
      <3>1. Rest(r, Len(<<{"by"}>>)) \in Seq(S) /\ Amid(Stray, Rest(r, Len(<<{"by"}>>)))
        BY <2>1, <2>2, BeginsRest, Zenon
      <3> QED BY <2>1, <2>2, <3>1
    <2> QED BY <2>2
  <1> HIDE DEF n
  <1>2. <<{"bit"} \cup Numeral>> \in Seq(Known) /\ <<Numeral, {"percent"}>> \in Seq(Known)
    BY SoundKnown
  <1>3. n # <<>>
    BY <1>1 DEF Amid
  <1>4. ~Is(n, <<{"bit"} \cup Numeral>>) /\ ~Is(n, <<Numeral, {"percent"}>>)
    BY <1>1, <1>2, IsNever, Zenon
  <1> QED BY <1>3, <1>4 DEF Amount, n

LEMMA NoVolume ==
  ASSUME NEW S, NEW u \in Seq(S), Amid(Stray, u)
  PROVE  Volume(u) = NoMatch
  <1> DEFINE w == Without(u, {"back"})
             turns == Larger \cup Smaller
             short == {<<{"mute", "unmute"}>>, <<{"mute", "unmute"}, Sound \cup {"it"}>>,
                       <<{"turn"}, Sound, {"on", "off"}>>, <<{"turn"}, {"on", "off"}, Sound>>,
                       <<{"louder", "quieter"}>>,
                       <<{"set", "turn"}, Sound, {"to"}, Numeral>>,
                       <<{"set", "turn"}, Sound, {"to"}, Numeral, {"percent"}>>}
  <1>1. w \in Seq(S) /\ Amid(Stray, w)
    <2>1. Stray \notin {"back"}
      BY ReflexesAssumption DEF Vocabulary
    <2> QED BY <2>1, WithoutKeeps
  <1> HIDE DEF w
  <1>2. short \in SUBSET Seq(Known)
    <2>1. /\ <<{"mute", "unmute"}>> \in Seq(Known) /\ <<{"mute", "unmute"}, Sound \cup {"it"}>> \in Seq(Known)
          /\ <<{"turn"}, Sound, {"on", "off"}>> \in Seq(Known) /\ <<{"turn"}, {"on", "off"}, Sound>> \in Seq(Known)
          /\ <<{"louder", "quieter"}>> \in Seq(Known)
      BY SoundKnown
    <2>2. /\ <<{"set", "turn"}, Sound, {"to"}, Numeral>> \in Seq(Known)
          /\ <<{"set", "turn"}, Sound, {"to"}, Numeral, {"percent"}>> \in Seq(Known)
      BY SoundKnown
    <2> QED BY <2>1, <2>2
  <1>3. ~IsAny(w, short)
    <2> HIDE DEF short
    <2> QED BY <1>1, <1>2, IsAnyNever, Zenon
  <1>4. ASSUME NEW p \in Seq(Known), Begins(w, p) PROVE ~Amount(Rest(w, Len(p)))
    BY <1>1, <1>4, BeginsRest, NoAmount
  <1>5. /\ <<{"volume"}, turns>> \in Seq(Known) /\ <<{"turn"}, Sound \cup {"it"}, turns>> \in Seq(Known)
        /\ <<{"turn"}, turns, Sound>> \in Seq(Known) /\ <<{"raise", "lower"}, Sound>> \in Seq(Known)
    BY SoundKnown
  <1>6. /\ ~(Begins(w, <<{"volume"}, turns>>) /\ Amount(Rest(w, 2)))
        /\ ~(Begins(w, <<{"raise", "lower"}, Sound>>) /\ Amount(Rest(w, 2)))
    <2> HIDE DEF turns
    <2> QED BY <1>4, <1>5
  <1>7. /\ ~(Begins(w, <<{"turn"}, Sound \cup {"it"}, turns>>) /\ Amount(Rest(w, 3)))
        /\ ~(Begins(w, <<{"turn"}, turns, Sound>>) /\ Amount(Rest(w, 3)))
    <2> HIDE DEF turns
    <2> QED BY <1>4, <1>5
  <1> QED BY <1>3, <1>6, <1>7 DEF Volume, w

LEMMA WindowKnown ==
  /\ {"this"} \in Known /\ {"window"} \in Known /\ {"this", "it", "window"} \in Known
  /\ {"maximize", "minimize"} \in Known
  BY DEF Known, Vocabulary, Thing

LEMMA NotThisWindow ==
  ASSUME NEW S, NEW r \in Seq(S), Amid(Stray, r)
  PROVE  ~ThisWindow(r)
  <1>1. {<<{"this", "it", "window"}>>, <<{"this"}, {"window"}>>} \in SUBSET Seq(Known)
    BY WindowKnown
  <1>2. ~IsAny(r, {<<{"this", "it", "window"}>>, <<{"this"}, {"window"}>>})
    BY <1>1, IsAnyNever, Zenon
  <1>3. r # <<>>
    BY DEF Amid
  <1> QED BY <1>2, <1>3 DEF ThisWindow

LEMMA NoWindows ==
  ASSUME NEW S, NEW w \in Seq(S), Amid(Stray, w)
  PROVE  Windows(w) = NoMatch
  <1>1. <<{"maximize", "minimize"}>> \in Seq(Known) /\ Len(<<{"maximize", "minimize"}>>) = 1
    BY WindowKnown
  <1>2. ASSUME Begins(w, <<{"maximize", "minimize"}>>) PROVE ~ThisWindow(Rest(w, 1))
    <2>1. Rest(w, Len(<<{"maximize", "minimize"}>>)) \in Seq(S) /\ Amid(Stray, Rest(w, Len(<<{"maximize", "minimize"}>>)))
      BY <1>1, <1>2, BeginsRest, Zenon
    <2> QED BY <1>1, <2>1, NotThisWindow
  <1> QED BY <1>2 DEF Windows

LEMMA UnfilledKeeps ==
  ASSUME NEW S, NEW raw \in Seq(S), NEW x, x \notin Filler, Amid(x, raw)
  PROVE  Unfilled(raw) \in Seq(S) /\ Amid(x, Unfilled(raw))
  <1>1. PICK k \in 1..Len(raw) : raw[k] = x
    BY DEF Amid
  <1> DEFINE places == {i \in DOMAIN raw : raw[i] \notin Filler \/ (i > 1 /\ raw[i - 1] \in Spaces)}
  <1>2. k \in places
    BY <1>1
  <1> HIDE DEF places
  <1>3. Chosen(raw, places) \in Seq(S) /\ Amid(x, Chosen(raw, places))
    BY <1>1, <1>2, ChosenTyped, ChosenKeeps
  <1> QED BY <1>3 DEF Unfilled, places

\* The number of a workspace stays behind the word it was read after.
LEMMA NumberStays ==
  ASSUME NEW S, NEW raw \in Seq(S), WorkspaceNumber(raw) # 0
  PROVE  \E s \in Spaces, x \in S \ {Stray} : Adjacent(Without(Unfilled(raw), Articles), S \ Spaces, s, x)
  <1> DEFINE at == {i \in DOMAIN raw : raw[i] \in Spaces}
             first == CHOOSE i \in at : \A j \in at : i <= j
             T == S \ Spaces
  <1>1. at # {} /\ first # Len(raw) /\ Number(raw[first + 1]) # 0
    BY DEF WorkspaceNumber
  <1>2. first \in at /\ \A j \in at : first <= j
    <2>1. at \in SUBSET Nat
      OBVIOUS
    <2> HIDE DEF at
    <2>2. \E i \in at : \A j \in at : i <= j
      BY <1>1, <2>1, LeastNumber, Zenon
    <2> QED BY <2>2, Zenon
  <1>3. first \in 1..(Len(raw) - 1) /\ raw[first] \in Spaces
    BY <1>1, <1>2
  <1>4. \A i \in 1..(first - 1) : raw[i] \in T
    <2> SUFFICES ASSUME NEW i \in 1..(first - 1) PROVE raw[i] \in T
      OBVIOUS
    <2>1. i \in DOMAIN raw /\ i < first
      BY <1>3
    <2>2. i \notin at
      BY <1>2, <2>1
    <2> QED BY <2>1, <2>2
  <1> DEFINE s == raw[first]
             x == raw[first + 1]
             u == Unfilled(raw)
  <1>5. s \in Spaces /\ x \in S /\ Number(x) # 0
    BY <1>1, <1>3
  <1>6. x \notin Articles /\ x # Stray /\ s \notin Articles /\ s \notin Filler
    <2>1. Number(x) # 0 => x \in {"1", "one", "won", "2", "two", "to", "too", "4", "four", "for", "fore"}
      BY DEF Number
    <2>2. Stray \notin {"1", "one", "won", "2", "two", "to", "too", "4", "four", "for", "fore"}
      BY ReflexesAssumption DEF Vocabulary, Numeral, Filler
    <2> HIDE DEF x, s, first
    <2>3. x \notin Articles
      BY <1>5, <2>1 DEF Articles
    <2>4. s \notin Articles /\ s \notin Filler
      BY <1>5 DEF Articles, Filler, Spaces
    <2> QED BY <1>5, <2>1, <2>2, <2>3, <2>4
  <1>7. Adjacent(u, T, s, x) /\ u \in Seq(S)
    <2> DEFINE places == {i \in DOMAIN raw : raw[i] \notin Filler \/ (i > 1 /\ raw[i - 1] \in Spaces)}
    <2> HIDE DEF first
    <2>1. first \in places /\ first + 1 \in places
      BY <1>3, <1>6
    <2> HIDE DEF places, T
    <2>2. T \in SUBSET S
      BY DEF T
    <2>3. Adjacent(Chosen(raw, places), T, raw[first], raw[first + 1]) /\ Chosen(raw, places) \in Seq(S)
      BY <1>3, <1>4, <2>1, <2>2, ChosenAdjacent, ChosenTyped
    <2> QED BY <2>3 DEF Unfilled, places
  <1> HIDE DEF s, x, u, first, at
  <1>8. PICK j \in 1..(Len(u) - 1) : u[j] = s /\ u[j + 1] = x /\ \A i \in 1..(j - 1) : u[i] \in T
    BY <1>7 DEF Adjacent
  <1> DEFINE kept == {i \in DOMAIN u : u[i] \notin Articles}
  <1>9. j \in kept /\ j + 1 \in kept
    BY <1>6, <1>7, <1>8
  <1> HIDE DEF kept
  <1>10. Adjacent(Chosen(u, kept), T, u[j], u[j + 1])
    <2>1. T \in SUBSET S
      OBVIOUS
    <2> HIDE DEF T
    <2> QED BY <1>7, <1>8, <1>9, <2>1, ChosenAdjacent
  <1>11. Adjacent(Without(u, Articles), T, s, x)
    BY <1>8, <1>10 DEF Without, kept
  <1> QED BY <1>5, <1>6, <1>11 DEF u

LEMMA ThisWindowWords ==
  ASSUME NEW r, ThisWindow(r), NEW i \in 1..Len(r)
  PROVE  r[i] \in {"this", "it", "window"}
  <1>1. CASE r = <<>>
    BY <1>1
  <1>2. CASE Is(r, <<{"this", "it", "window"}>>)
    BY <1>2 DEF Is
  <1>3. CASE Is(r, <<{"this"}, {"window"}>>)
    BY <1>3 DEF Is
  <1> QED BY <1>1, <1>2, <1>3 DEF ThisWindow, IsAny

LEMMA NoWorkspaces ==
  ASSUME NEW S, NEW raw \in Seq(S), NEW w \in Seq(S), w = Without(Unfilled(raw), Articles), Amid(Stray, w)
  PROVE  Workspaces(w, WorkspaceNumber(raw)) = NoMatch
  <1> DEFINE to == {i \in 2..Len(w) : w[i] = "to"}
             first == CHOOSE i \in to : \A j \in to : i <= j
             switch == \/ Len(w) = 4 /\ Begins(w, <<{"switch", "go"}, {"to"}, Spaces>>)
                       \/ Len(w) = 2 /\ Begins(w, <<Spaces>>)
             move == /\ Begins(w, <<{"move", "send", "put"}>>) /\ to # {}
                     /\ ThisWindow(SubSeq(w, 2, first - 1))
                     /\ Len(w) = first + 2 /\ w[first + 1] \in Spaces
  <1> SUFFICES ASSUME WorkspaceNumber(raw) # 0 PROVE ~switch /\ ~move
    BY DEF Workspaces
  <1>1. PICK s \in Spaces, x \in S \ {Stray} : Adjacent(w, S \ Spaces, s, x)
    BY NumberStays
  <1>2. PICK j \in 1..(Len(w) - 1) : w[j] = s /\ w[j + 1] = x /\ \A i \in 1..(j - 1) : w[i] \notin Spaces
    BY <1>1 DEF Adjacent
  <1>3. PICK k \in 1..Len(w) : w[k] = Stray
    BY DEF Amid
  <1>4. Stray \notin Spaces /\ Stray \notin {"switch", "go", "to", "move", "send", "put", "this", "it", "window"}
    BY ReflexesAssumption DEF Vocabulary, Spaces, Thing
  <1>5. ~switch
    <2>1. ASSUME Len(w) = 4, Begins(w, <<{"switch", "go"}, {"to"}, Spaces>>) PROVE FALSE
      <3>1. w[1] \in {"switch", "go"} /\ w[2] = "to" /\ w[3] \in Spaces
        BY <2>1 DEF Begins
      <3>2. w[1] \notin Spaces /\ w[2] \notin Spaces
        BY <3>1 DEF Spaces
      <3>3. j = 3
        <4>1. j # 1 /\ j # 2 /\ j \in 1..3
          BY <1>2, <2>1, <3>2
        <4> QED BY <4>1
      <3>4. k \in {1, 2, 3, 4}
        BY <1>3, <2>1
      <3> QED BY <1>1, <1>2, <1>3, <1>4, <3>1, <3>3, <3>4
    <2>2. ASSUME Len(w) = 2, Begins(w, <<Spaces>>) PROVE FALSE
      <3>1. w[1] \in Spaces /\ j = 1 /\ k \in {1, 2}
        BY <1>2, <1>3, <2>2 DEF Begins
      <3> QED BY <1>1, <1>2, <1>3, <1>4, <3>1
    <2> QED BY <2>1, <2>2
  <1>6. ASSUME move PROVE FALSE
    <2>0. /\ Begins(w, <<{"move", "send", "put"}>>) /\ to # {} /\ ThisWindow(SubSeq(w, 2, first - 1))
          /\ Len(w) = first + 2 /\ w[first + 1] \in Spaces
      <3> HIDE DEF first, to
      <3> QED BY <1>6, Zenon
    <2>1. first \in to
      <3>1. to # {} /\ to \in SUBSET Nat
        <4>1. to \in SUBSET Nat
          OBVIOUS
        <4> QED BY <2>0, <4>1, Zenon
      <3> HIDE DEF to
      <3>2. \E i \in to : \A m \in to : i <= m
        BY <3>1, LeastNumber, Zenon
      <3> QED BY <3>2, Zenon
    <2>2. first \in 2..Len(w) /\ w[first] = "to"
      BY <2>1
    <2>3. w[1] \in {"move", "send", "put"} /\ ThisWindow(SubSeq(w, 2, first - 1)) /\ Len(w) = first + 2 /\ w[first + 1] \in Spaces
      <3>1. w[1] \in {"move", "send", "put"}
        <4>1. Begins(w, <<{"move", "send", "put"}>>)
          BY <2>0, Zenon
        <4> QED BY <4>1 DEF Begins
      <3> HIDE DEF first, to
      <3> QED BY <2>0, <3>1, Zenon
    <2> HIDE DEF first, move, switch, to
    <2>4. ASSUME NEW i \in 2..(first - 1) PROVE w[i] \in {"this", "it", "window"}
      <3> DEFINE r == SubSeq(w, 2, first - 1)
      <3>1. Len(r) = first - 2 /\ r[i - 1] = w[i] /\ i - 1 \in 1..Len(r)
        BY <2>2
      <3> HIDE DEF r
      <3>2. ThisWindow(r)
        BY <2>3 DEF r
      <3>3. r[i - 1] \in {"this", "it", "window"}
        BY <3>1, <3>2, ThisWindowWords
      <3> QED BY <3>1, <3>3
    <2>5. ASSUME NEW i \in 1..first PROVE w[i] \notin Spaces /\ w[i] # Stray
      <3>1. w[i] \in {"to", "move", "send", "put", "this", "it", "window"}
        <4>1. i = 1 \/ i = first \/ i \in 2..(first - 1)
          BY <2>2
        <4> QED BY <2>2, <2>3, <2>4, <4>1
      <3> QED BY <1>4, <3>1 DEF Spaces
    <2>6. j = first + 1
      <3>1. j > first
        BY <1>1, <1>2, <2>2, <2>5
      <3>2. j <= first + 1
        BY <1>2, <2>2, <2>3
      <3> QED BY <2>2, <3>1, <3>2
    <2>7. w[first + 1] # Stray /\ w[first + 2] # Stray
      <3>1. (first + 1) + 1 = first + 2
        BY <2>2
      <3> QED BY <1>1, <1>2, <1>4, <2>3, <2>6, <3>1
    <2>8. k \in 1..first \/ k = first + 1 \/ k = first + 2
      BY <1>3, <2>2, <2>3
    <2> QED BY <1>3, <2>5, <2>7, <2>8
  <1> QED BY <1>5, <1>6

LEMMA NotFound ==
  ASSUME NEW S, NEW q \in Seq(S), Amid(Stray, q)
  PROVE  ~(Find(q) >= Threshold)
  <1> DEFINE best == CHOOSE a \in Apps : \A b \in Apps : Similarity(q, a) >= Similarity(q, b)
             score == Similarity(q, best)
             rival == \E b \in Apps \ {best} : score - Similarity(q, b) < 5
  <1>1. PICK k \in 1..Len(q) : q[k] = Stray
    BY DEF Amid
  <1>2. Stray \notin {"spotify", "web", "terminal"}
    BY ReflexesAssumption DEF Vocabulary, PlayerName
  <1>3. ASSUME NEW a \in Apps PROVE Similarity(q, a) = 0
    <2>1. \A i \in 1..Len(a) : a[i] \in {"spotify", "web", "terminal"}
      BY DEF Apps
    <2>2. Stray \notin ToSet(a)
      <3>1. DOMAIN a = 1..Len(a)
        BY DEF Apps
      <3> QED BY <1>2, <2>1, <3>1 DEF ToSet
    <2>3. q # a
      BY <1>1, <1>2, <2>1
    <2>4. ~\A i \in DOMAIN q : q[i] \in ToSet(a)
      BY <1>1, <2>2
    <2> QED BY <2>3, <2>4 DEF Similarity
  <1>4. best \in Apps
    <2>1. \E a \in Apps : \A b \in Apps : Similarity(q, a) >= Similarity(q, b)
      <3>1. <<"spotify">> \in Apps
        BY DEF Apps
      <3> QED BY <1>3, <3>1
    <2> QED BY <2>1, Zenon
  <1>5. score = 0
    <2> HIDE DEF best
    <2> QED BY <1>3, <1>4
  <1>6. Find(q) = IF rival THEN (85 * score) \div 100 ELSE score
    BY DEF Find
  <1> HIDE DEF best, score, rival
  <1>7. (85 * score) \div 100 = 0
    BY <1>5
  <1> QED BY <1>5, <1>6, <1>7 DEF Threshold

LEMMA ParticleKeeps ==
  ASSUME NEW S, NEW r \in Seq(S), NEW x \in Vocabulary, Amid(Stray, r)
  PROVE  Particle(r, x) \in Seq(S) /\ Amid(Stray, Particle(r, x))
  <1>1. PICK k \in 1..Len(r) : r[k] = Stray
    BY DEF Amid
  <1>2. CASE r # <<>> /\ r[1] = x
    <2>1. k # 1
      BY <1>1, <1>2, ReflexesAssumption
    <2> DEFINE t == Tail(r)
    <2>2. t \in Seq(S) /\ k - 1 \in 1..Len(t) /\ t[k - 1] = Stray
      BY <1>1, <1>2, <2>1
    <2> HIDE DEF t
    <2>3. Amid(Stray, t)
      BY <2>2, Zenon DEF Amid
    <2> QED BY <1>2, <2>2, <2>3 DEF Particle, t
  <1>3. CASE ~(r # <<>> /\ r[1] = x)
    BY <1>3 DEF Particle
  <1> QED BY <1>2, <1>3

LEMMA AppKnown ==
  /\ {"open", "launch", "start", "run"} \in Known /\ {"focus", "show"} \in Known
  /\ {"switch", "go"} \in Known /\ {"to"} \in Known /\ {"in", "on"} \in Known /\ {"new"} \in Known
  /\ Spaces \in Known /\ "up" \in Vocabulary /\ "new" \in Vocabulary
  BY DEF Known, Vocabulary, Larger, Spaces

LEMMA NoApp ==
  ASSUME NEW S, NEW w \in Seq(S), Amid(Stray, w)
  PROVE  AppVerb(w) = NoMatch
  <1> DEFINE launch == Begins(w, <<{"open", "launch", "start", "run"}>>)
             focus1 == Begins(w, <<{"focus", "show"}>>)
             focus2 == Begins(w, <<{"switch", "go"}, {"to"}>>)
             after == Rest(w, IF focus2 THEN 2 ELSE 1)
             rest == Without(after, Articles)
             n == Len(rest)
             placed == /\ launch /\ n >= 3
                       /\ Is(SubSeq(rest, n - 2, n), <<{"in", "on"}, {"new"}, Spaces>>)
             head == IF placed THEN SubSeq(rest, 1, n - 3) ELSE rest
             name == IF launch THEN Particle(Particle(head, "up"), "new") ELSE head
  <1> SUFFICES ASSUME launch \/ focus1 \/ focus2 PROVE ~(Find(name) >= Threshold)
    BY DEF AppVerb
  <1>1. after \in Seq(S) /\ Amid(Stray, after)
    <2>1. /\ <<{"open", "launch", "start", "run"}>> \in Seq(Known) /\ <<{"focus", "show"}>> \in Seq(Known)
          /\ <<{"switch", "go"}, {"to"}>> \in Seq(Known)
      BY AppKnown
    <2>2. ASSUME NEW p \in Seq(Known), Begins(w, p) PROVE Rest(w, Len(p)) \in Seq(S) /\ Amid(Stray, Rest(w, Len(p)))
      BY <2>2, BeginsRest
    <2>3. focus2 => Rest(w, 2) \in Seq(S) /\ Amid(Stray, Rest(w, 2))
      BY <2>1, <2>2
    <2>4. launch \/ focus1 => Rest(w, 1) \in Seq(S) /\ Amid(Stray, Rest(w, 1))
      BY <2>1, <2>2
    <2> QED BY <2>3, <2>4
  <1> HIDE DEF after
  <1>2. rest \in Seq(S) /\ Amid(Stray, rest)
    <2>1. Stray \notin Articles
      BY ReflexesAssumption DEF Vocabulary
    <2> QED BY <1>1, <2>1, WithoutKeeps
  <1> HIDE DEF rest
  <1>3. head \in Seq(S) /\ Amid(Stray, head)
    <2>1. CASE ~placed
      BY <1>2, <2>1
    <2>2. CASE placed
      <3>1. PICK k \in 1..n : rest[k] = Stray
        BY <1>2 DEF Amid
      <3> DEFINE end == SubSeq(rest, n - 2, n)
                 front == SubSeq(rest, 1, n - 3)
      <3>2. n \in Nat /\ n >= 3 /\ Is(end, <<{"in", "on"}, {"new"}, Spaces>>)
        BY <1>2, <2>2
      <3>3. end \in Seq(S) /\ Len(end) = 3 /\ end[1] = rest[n - 2] /\ end[2] = rest[n - 1] /\ end[3] = rest[n]
        BY <1>2, <3>2
      <3>4. front \in Seq(S) /\ Len(front) = n - 3 /\ \A i \in 1..(n - 3) : front[i] = rest[i]
        BY <1>2, <3>2
      <3>5. <<{"in", "on"}, {"new"}, Spaces>> \in Seq(Known)
        BY AppKnown
      <3>6. head = front
        BY <2>2
      <3> HIDE DEF end, front, n, head
      <3>7. ~Amid(Stray, end)
        BY <3>2, <3>3, <3>5, IsNever
      <3>8. \A i \in 1..3 : end[i] # Stray
        BY <3>3, <3>7, Zenon DEF Amid
      <3>9. k \in 1..(n - 3)
        BY <3>1, <3>2, <3>3, <3>8
      <3>10. Amid(Stray, front)
        BY <3>1, <3>4, <3>9 DEF Amid
      <3> QED BY <3>4, <3>6, <3>10
    <2> QED BY <2>1, <2>2
  <1> HIDE DEF head
  <1>4. name \in Seq(S) /\ Amid(Stray, name)
    BY <1>3, AppKnown, ParticleKeeps
  <1> HIDE DEF name
  <1> QED BY <1>4, NotFound

LEMMA NoConfirmation ==
  ASSUME NEW w, Amid(Stray, w)
  PROVE  ~IsConfirmUtterance(w)
  <1>1. Stray \notin {"confirm", "yes", "please", "ok", "do", "it", "go", "ahead"}
    BY ReflexesAssumption DEF Vocabulary, Filler, Thing
  <1> QED BY <1>1 DEF IsConfirmUtterance, ConfirmPhrases, Amid

LEMMA StrayEscalates ==
  ASSUME NEW S, "workspace" \in S, NEW s \in Seq(S), Amid(Stray, s)
  PROVE  Match(s) = NoMatch
  <1> DEFINE raw == Words(s)
             w == Without(Unfilled(raw), Articles)
             verbs == <<Media(w), Volume(w), Ask(w), Workspaces(w, WorkspaceNumber(raw)), Windows(w), AppVerb(w)>>
             hits == {i \in DOMAIN verbs : verbs[i] # NoMatch}
  <1>1. Stray \notin {"work", "space"} /\ Stray \notin Filler /\ Stray \notin Articles
    BY ReflexesAssumption DEF Vocabulary
  <1>2. raw \in Seq(S) /\ Amid(Stray, raw)
    BY <1>1, WordsKeep
  <1> HIDE DEF raw
  <1>3. Unfilled(raw) \in Seq(S) /\ Amid(Stray, Unfilled(raw))
    BY <1>1, <1>2, UnfilledKeeps
  <1>4. w \in Seq(S) /\ Amid(Stray, w)
    BY <1>1, <1>3, WithoutKeeps
  <1>5. Workspaces(w, WorkspaceNumber(raw)) = NoMatch
    BY <1>2, <1>4, NoWorkspaces
  <1> HIDE DEF w
  <1>6. /\ Media(w) = NoMatch /\ Volume(w) = NoMatch /\ Ask(w) = NoMatch
        /\ Windows(w) = NoMatch /\ AppVerb(w) = NoMatch
    BY <1>4, NoMedia, NoVolume, NoAsk, NoWindows, NoApp
  <1>7. hits = {}
    BY <1>5, <1>6
  <1>8. Match(s) = IF hits = {} THEN NoMatch ELSE verbs[Min(hits)]
    BY DEF Match, raw, w
  <1> QED BY <1>7, <1>8

\* A word nobody accounts for escalates the transcript to reasoning and keeps a
\* confirmation from being one, wherever it is said and however much is said:
\* the code takes a transcript by itself only when it knows every word of it.
THEOREM StrayWords == ReflexesSpec => []StrayWordEscalates
  <1> DEFINE S == Heard \cup {Stray, "workspace"}
  <1>1. ReflexesInit => said \in Seq(Heard)
    BY DEF ReflexesInit
  <1>2. said \in Seq(Heard) /\ [NextHeard]_said => (said \in Seq(Heard))'
    BY DEF NextHeard
  <1>3. said \in Seq(Heard) => StrayWordEscalates
    <2> SUFFICES ASSUME said \in Seq(Heard), NEW i \in 0..Len(said)
                 PROVE  LET heard == SubSeq(said, 1, i) \o <<Stray>> \o Rest(said, i)
                        IN Match(heard) = NoMatch /\ ~IsConfirmUtterance(heard)
      BY DEF StrayWordEscalates
    <2> DEFINE a == SubSeq(said, 1, i)
               b == Rest(said, i)
               heard == (a \o <<Stray>>) \o b
    <2>1. a \in Seq(S) /\ b \in Seq(S) /\ <<Stray>> \in Seq(S) /\ Stray \in S
      BY DEF Rest
    <2> HIDE DEF a, b, S
    <2>2. heard \in Seq(S)
      <3>1. a \o <<Stray>> \in Seq(S)
        BY <2>1, ConcatTyped
      <3> QED BY <2>1, <3>1, ConcatTyped
    <2>3. Amid(Stray, heard)
      BY <2>1, AmidParts
    <2> HIDE DEF heard
    <2>4. Match(heard) = NoMatch
      BY <2>2, <2>3, StrayEscalates DEF S
    <2>5. ~IsConfirmUtterance(heard)
      BY <2>3, NoConfirmation
    <2> QED BY <2>4, <2>5, Zenon DEF heard, a, b
  <1> QED BY <1>1, <1>2, <1>3, PTL DEF ReflexesSpec

-----------------------------------------------------------------------------
(* What is part of a command line, and what each part is judged *)

Verdicts == {"Allow", "Hold", "Deny"}

LEMMA AtLeastFacts ==
  /\ \A v \in Verdicts : AtLeast("Deny", v) /\ AtLeast(v, "Allow") /\ AtLeast(v, v)
  /\ \A u, v, w \in Verdicts : AtLeast(u, v) /\ AtLeast(v, w) => AtLeast(u, w)
  BY DEF Verdicts, AtLeast, Strictness

LEMMA StrictestIs ==
  ASSUME NEW vs \in SUBSET Verdicts
  PROVE  /\ Strictest(vs) \in Verdicts /\ Strictest(vs) \in vs \cup {"Allow"}
         /\ \A w \in vs : AtLeast(Strictest(vs), w)
  <1>1. \E v \in vs \cup {"Allow"} : \A w \in vs : AtLeast(v, w)
    <2>1. CASE "Deny" \in vs
      BY <2>1, AtLeastFacts
    <2>2. CASE "Deny" \notin vs /\ "Hold" \in vs
      BY <2>2 DEF Verdicts, AtLeast, Strictness
    <2>3. CASE "Deny" \notin vs /\ "Hold" \notin vs
      BY <2>3 DEF Verdicts, AtLeast, Strictness
    <2> QED BY <2>1, <2>2, <2>3
  <1>2. Strictest(vs) \in vs \cup {"Allow"} /\ \A w \in vs : AtLeast(Strictest(vs), w)
    BY <1>1, Zenon DEF Strictest
  <1> QED BY <1>2 DEF Verdicts

LEMMA LeastIs ==
  ASSUME NEW T \in SUBSET Nat, T # {}
  PROVE  Least(T) \in T /\ \A i \in T : Least(T) <= i
  BY LeastNumber, Zenon DEF Least

LEMMA LeastOf ==
  ASSUME NEW T \in SUBSET Nat, NEW k \in T, \A i \in T : k <= i
  PROVE  Least(T) = k
  <1>1. Least(T) \in T /\ \A i \in T : Least(T) <= i
    BY LeastIs
  <1>2. Least(T) \in Nat /\ k \in Nat /\ Least(T) <= k /\ k <= Least(T)
    BY <1>1
  <1> QED BY <1>2

LEMMA PartIs ==
  ASSUME NEW S, NEW s \in Seq(S), NEW a \in 1..(Len(s) + 1), NEW b \in 0..Len(s), a <= b + 1
  PROVE  /\ SubSeq(s, a, b) \in Seq(S) /\ Len(SubSeq(s, a, b)) = b - (a - 1)
         /\ \A k \in 1..(b - (a - 1)) : SubSeq(s, a, b)[k] = s[k + (a - 1)]
  OBVIOUS

\* A part of a part.
LEMMA PartOfPart ==
  ASSUME NEW S, NEW s \in Seq(S), NEW a \in 1..(Len(s) + 1), NEW b \in 0..Len(s), a <= b + 1,
         NEW i \in 1..(b - a + 2), NEW j \in 0..(b - a + 1), i <= j + 1
  PROVE  SubSeq(SubSeq(s, a, b), i, j) = SubSeq(s, i + (a - 1), j + (a - 1))
  OBVIOUS

Shifted(A, c) == {k + c : k \in A}

LEMMA ShiftCount ==
  ASSUME NEW i \in Int, NEW j \in Int, NEW c \in Int, NEW A \in SUBSET (i..j)
  PROVE  IsFiniteSet(A) /\ Cardinality(A) \in Nat /\ Cardinality(Shifted(A, c)) = Cardinality(A)
  <1>1. IsFiniteSet(A) /\ Cardinality(A) \in Nat
    <2>1. IsFiniteSet(i..j)
      BY FS_Interval
    <2>2. IsFiniteSet(A)
      BY <2>1, FS_Subset
    <2> QED BY <2>2, FS_CardinalityType
  <1> DEFINE f == [k \in A |-> k + c]
             B == {k + c : k \in A}
  <1>2. f \in Bijection(A, B)
    <2>1. f \in [A -> B] /\ \A k, l \in A : f[k] = f[l] => k = l
      OBVIOUS
    <2>2. \A y \in B : \E k \in A : f[k] = y
      OBVIOUS
    <2> HIDE DEF f
    <2> QED BY <2>1, <2>2 DEF Bijection, Injection, Surjection, IsInjective
  <1>3. ExistsBijection(A, B)
    BY <1>2, Zenon DEF ExistsBijection
  <1> QED BY <1>1, <1>3, FS_Bijection DEF Shifted

LEMMA DepthOfPart ==
  ASSUME NEW S, NEW s \in Seq(S), NEW a \in 1..(Len(s) + 1), NEW b \in 0..Len(s), a <= b + 1,
         NEW i \in 1..(b - a + 1), NEW j \in i..(b - a + 1)
  PROVE  Depth(SubSeq(s, a, b), i, j) = Depth(s, i + (a - 1), j + (a - 1))
  <1> DEFINE t == SubSeq(s, a, b)
             c == a - 1
  <1>1. Len(s) \in Nat /\ c \in Nat /\ i \in Int /\ j \in Int /\ i + c \in Int /\ j + c \in Int
    OBVIOUS
  <1>2. \A k \in i..j : t[k] = s[k + c]
    BY PartIs
  <1> HIDE DEF t, c
  <1>3. ASSUME NEW x PROVE Cardinality({k \in (i + c)..(j + c) : s[k] = x}) = Cardinality({k \in i..j : t[k] = x})
    <2> DEFINE A == {k \in i..j : t[k] = x}
               B == {k \in (i + c)..(j + c) : s[k] = x}
    <2>1. ASSUME NEW k \in A PROVE k + c \in B
      BY <1>1, <1>2
    <2>2. ASSUME NEW k \in B PROVE k - c \in A /\ (k - c) + c = k
      <3>1. k - c \in i..j /\ (k - c) + c = k
        BY <1>1
      <3>2. t[k - c] = s[k]
        BY <1>2, <3>1
      <3> QED BY <3>1, <3>2
    <2>3. A \in SUBSET (i..j)
      OBVIOUS
    <2> HIDE DEF A, B
    <2>4. B = Shifted(A, c)
      BY <2>1, <2>2 DEF Shifted
    <2>5. Cardinality(Shifted(A, c)) = Cardinality(A)
      <3>1. i \in Int /\ j \in Int /\ c \in Int
        BY <1>1
      <3> QED BY <2>3, <3>1, ShiftCount, Zenon
    <2>6. Cardinality(B) = Cardinality(A)
      BY <2>4, <2>5, Zenon
    <2> QED BY <2>6 DEF A, B
  <1>4. /\ Cardinality({k \in (i + c)..(j + c) : s[k] = "$("}) = Cardinality({k \in i..j : t[k] = "$("})
        /\ Cardinality({k \in (i + c)..(j + c) : s[k] = ")"}) = Cardinality({k \in i..j : t[k] = ")"})
    BY <1>3, Zenon
  <1>5. Depth(t, i, j) = Depth(s, i + c, j + c)
    BY <1>4, Zenon DEF Depth
  <1> QED BY <1>5, Zenon DEF t, c

LEMMA ClosesOfPart ==
  ASSUME NEW S, NEW s \in Seq(S), NEW a \in 1..(Len(s) + 1), NEW b \in 0..Len(s), a <= b + 1,
         NEW i \in 1..(b - a + 1), NEW j \in Int
  PROVE  j \in Closes(SubSeq(s, a, b), i) <=> j + (a - 1) \in Closes(s, i + (a - 1)) /\ j <= b - a + 1
  <1> DEFINE t == SubSeq(s, a, b)
             c == a - 1
  <1>1. Len(s) \in Nat /\ c \in Nat /\ Len(t) = b - c /\ \A k \in 1..(b - c) : t[k] = s[k + c]
    BY PartIs
  <1>2. \A k \in i..(b - a + 1) : Depth(t, i, k) = Depth(s, i + c, k + c)
    BY DepthOfPart
  <1> HIDE DEF t
  <1>3. CASE j \in i..(b - a + 1)
    <2>1. j \in i..Len(t) /\ j + c \in (i + c)..Len(s) /\ t[j] = s[j + c] /\ Depth(t, i, j) = Depth(s, i + c, j + c)
      BY <1>1, <1>2, <1>3
    <2> QED BY <1>3, <2>1 DEF Closes, t
  <1>4. CASE j \notin i..(b - a + 1)
    <2>1. j \notin Closes(t, i)
      BY <1>1, <1>4 DEF Closes
    <2>2. j + c \in Closes(s, i + c) => j > b - a + 1
      BY <1>1, <1>4 DEF Closes
    <2> QED BY <2>1, <2>2 DEF t
  <1> QED BY <1>3, <1>4

LEMMA SpanIs ==
  ASSUME NEW S, NEW s \in Seq(S), NEW i, NEW j
  PROVE  <<i, j>> \in Spans(s) <=>
           i \in 1..Len(s) /\ s[i] = "$(" /\ j \in Closes(s, i) /\ \A k \in Closes(s, i) : j <= k
  <1>1. ASSUME NEW m \in 1..Len(s), Closes(s, m) # {} 
        PROVE  Least(Closes(s, m)) \in Closes(s, m) /\ \A k \in Closes(s, m) : Least(Closes(s, m)) <= k
    <2>1. Closes(s, m) \in SUBSET Nat
      BY DEF Closes
    <2> QED BY <1>1, <2>1, LeastIs, Zenon
  <1>2. ASSUME <<i, j>> \in Spans(s)
        PROVE  i \in 1..Len(s) /\ s[i] = "$(" /\ j \in Closes(s, i) /\ \A k \in Closes(s, i) : j <= k
    <2>1. PICK m \in At(s, {"$("}) : Closes(s, m) # {} /\ <<i, j>> = <<m, Least(Closes(s, m))>>
      BY <1>2 DEF Spans
    <2>2. i = m /\ j = Least(Closes(s, m)) /\ m \in 1..Len(s) /\ s[m] = "$("
      BY <2>1 DEF At
    <2> QED BY <1>1, <2>1, <2>2
  <1>3. ASSUME i \in 1..Len(s), s[i] = "$(", j \in Closes(s, i), \A k \in Closes(s, i) : j <= k
        PROVE  <<i, j>> \in Spans(s)
    <2>1. Closes(s, i) \in SUBSET Nat
      BY <1>3 DEF Closes
    <2>2. Least(Closes(s, i)) = j
      BY <1>3, <2>1, LeastOf
    <2>3. i \in At(s, {"$("}) /\ Closes(s, i) # {}
      BY <1>3 DEF At
    <2> QED BY <2>2, <2>3 DEF Spans
  <1> QED BY <1>2, <1>3

\* A substitution in a part of a line is one in the line, with the same body, and
\* the other way round.
LEMMA SpanOfPart ==
  ASSUME NEW S, NEW s \in Seq(S), NEW a \in 1..(Len(s) + 1), NEW b \in 0..Len(s), a <= b + 1,
         NEW i \in Int, NEW j \in Int
  PROVE  <<i, j>> \in Spans(SubSeq(s, a, b)) <=>
           <<i + (a - 1), j + (a - 1)>> \in Spans(s) /\ i >= 1 /\ j <= b - a + 1
  <1> DEFINE t == SubSeq(s, a, b)
             c == a - 1
  <1>1. t \in Seq(S) /\ Len(s) \in Nat /\ c \in Nat /\ Len(t) = b - c /\ \A k \in 1..(b - c) : t[k] = s[k + c]
    BY PartIs
  <1>2. \A m \in 1..(b - a + 1), k \in Int : k \in Closes(t, m) <=> k + c \in Closes(s, m + c) /\ k <= b - a + 1
    BY ClosesOfPart
  <1> HIDE DEF t
  <1>3. ASSUME <<i, j>> \in Spans(t) PROVE <<i + c, j + c>> \in Spans(s) /\ i >= 1 /\ j <= b - a + 1
    <2>1. i \in 1..Len(t) /\ t[i] = "$(" /\ j \in Closes(t, i) /\ \A k \in Closes(t, i) : j <= k
      BY <1>1, <1>3, SpanIs
    <2>2. j + c \in Closes(s, i + c) /\ j <= b - a + 1 /\ i + c \in 1..Len(s) /\ s[i + c] = "$("
      BY <1>1, <1>2, <2>1
    <2>3. ASSUME NEW k \in Closes(s, i + c) PROVE j + c <= k
      <3>1. k \in Nat /\ k - c \in Int /\ (k - c) + c = k
        <4>1. i + c \in Nat
          BY <1>1, <2>2
        <4> QED BY <1>1, <4>1 DEF Closes
      <3>2. CASE k - c <= b - a + 1
        <4>1. k - c \in Closes(t, i)
          BY <1>1, <1>2, <2>1, <3>1, <3>2
        <4>2. j <= k - c
          BY <2>1, <4>1
        <4> QED BY <1>1, <3>1, <4>2
      <3>3. CASE k - c > b - a + 1
        BY <1>1, <2>2, <3>1, <3>3
      <3> QED BY <3>1, <3>2, <3>3
    <2>4. <<i + c, j + c>> \in Spans(s)
      BY <2>2, <2>3, SpanIs
    <2> QED BY <2>1, <2>2, <2>4
  <1>4. ASSUME <<i + c, j + c>> \in Spans(s), i >= 1, j <= b - a + 1 PROVE <<i, j>> \in Spans(t)
    <2>1. i + c \in 1..Len(s) /\ s[i + c] = "$(" /\ j + c \in Closes(s, i + c) /\ \A k \in Closes(s, i + c) : j + c <= k
      BY <1>4, SpanIs
    <2>2. j >= i
      BY <1>1, <2>1 DEF Closes
    <2>3. i \in 1..(b - a + 1) /\ i \in 1..Len(t) /\ t[i] = "$("
      BY <1>1, <1>4, <2>1, <2>2
    <2>4. j \in Closes(t, i)
      BY <1>2, <1>4, <2>1, <2>3
    <2>5. ASSUME NEW k \in Closes(t, i) PROVE j <= k
      <3>1. k \in Int
        BY <1>1, <2>3 DEF Closes
      <3>2. k + c \in Closes(s, i + c)
        BY <1>2, <2>3, <3>1
      <3> QED BY <1>1, <2>1, <3>1, <3>2
    <2> QED BY <1>1, <2>3, <2>4, <2>5, SpanIs
  <1> QED BY <1>3, <1>4 DEF t

\* The words between the cuts i and e are a segment of s.
IsSegment(s, i, e) ==
  /\ i \in 0..Len(s) /\ e \in (i + 2)..(Len(s) + 1)
  /\ i = 0 \/ s[i] \in Separators
  /\ e = Len(s) + 1 \/ s[e] \in Separators
  /\ \A k \in (i + 1)..(e - 1) : s[k] \notin Separators

LEMMA SegmentIs ==
  ASSUME NEW S, NEW s \in Seq(S)
  PROVE  /\ \A i \in DOMAIN Segments(s) :
              \E e \in Nat : IsSegment(s, i, e) /\ Segments(s)[i] = SubSeq(s, i + 1, e - 1)
         /\ \A i, e : IsSegment(s, i, e) => i \in DOMAIN Segments(s) /\ Segments(s)[i] = SubSeq(s, i + 1, e - 1)
  <1> DEFINE cuts == At(s, Separators) \cup {0, Len(s) + 1}
             end(i) == Least({j \in cuts : j > i})
             starts == {c \in cuts \ {Len(s) + 1} : end(c) > c + 1}
  <1>1. Len(s) \in Nat /\ (\A x \in cuts : x \in Nat /\ x <= Len(s) + 1) /\ Len(s) + 1 \in cuts
    BY DEF At
  <1>2. \A k \in 1..Len(s) : k \in cuts <=> s[k] \in Separators
    BY <1>1 DEF At
  <1>3. 0 \in cuts
    OBVIOUS
  <1>4. ASSUME NEW i \in cuts \ {Len(s) + 1}
        PROVE  end(i) \in cuts /\ end(i) > i /\ \A j \in cuts : j > i => end(i) <= j
    <2> HIDE DEF cuts
    <2> DEFINE T == {j \in cuts : j > i}
    <2>0. i \in Nat /\ i < Len(s) + 1
      BY <1>1
    <2>1. T \in SUBSET Nat /\ T # {}
      BY <1>1, <2>0
    <2>2. Least(T) \in T /\ \A j \in T : Least(T) <= j
      BY <2>1, LeastIs, Zenon
    <2> QED BY <2>2
  <1>5. Segments(s) = [i \in starts |-> SubSeq(s, i + 1, end(i) - 1)]
    BY DEF Segments
  <1>6. DOMAIN Segments(s) = starts /\ \A i \in starts : Segments(s)[i] = SubSeq(s, i + 1, end(i) - 1)
    <2> HIDE DEF starts, end
    <2> QED BY <1>5
  <1> HIDE DEF cuts, end
  <1>7. ASSUME NEW i \in DOMAIN Segments(s)
        PROVE  \E e \in Nat : IsSegment(s, i, e) /\ Segments(s)[i] = SubSeq(s, i + 1, e - 1)
    <2>1. i \in cuts \ {Len(s) + 1} /\ end(i) > i + 1
      BY <1>6
    <2>2. end(i) \in cuts /\ \A j \in cuts : j > i => end(i) <= j
      BY <1>4, <2>1
    <2>3. i \in 0..Len(s) /\ end(i) \in (i + 2)..(Len(s) + 1) /\ end(i) \in Nat
      BY <1>1, <2>1, <2>2
    <2>4. ASSUME NEW k \in (i + 1)..(end(i) - 1) PROVE s[k] \notin Separators
      <3>1. k \in 1..Len(s) /\ k > i /\ k < end(i)
        BY <1>1, <2>3
      <3>2. k \notin cuts
        BY <2>2, <2>3, <3>1
      <3> QED BY <1>2, <3>1, <3>2
    <2>5. i = 0 \/ s[i] \in Separators
      BY <1>1, <1>2, <2>1, <2>3
    <2>6. end(i) = Len(s) + 1 \/ s[end(i)] \in Separators
      BY <1>1, <1>2, <2>2, <2>3
    <2>7. IsSegment(s, i, end(i))
      BY <2>3, <2>4, <2>5, <2>6 DEF IsSegment
    <2> QED BY <1>6, <2>3, <2>7
  <1>8. ASSUME NEW i, NEW e, IsSegment(s, i, e)
        PROVE  i \in DOMAIN Segments(s) /\ Segments(s)[i] = SubSeq(s, i + 1, e - 1)
    <2>1. /\ i \in 0..Len(s) /\ e \in (i + 2)..(Len(s) + 1) /\ (i = 0 \/ s[i] \in Separators)
          /\ (e = Len(s) + 1 \/ s[e] \in Separators) /\ \A k \in (i + 1)..(e - 1) : s[k] \notin Separators
      BY <1>8 DEF IsSegment
    <2>2. i \in cuts \ {Len(s) + 1} /\ e \in cuts /\ e > i + 1
      BY <1>1, <1>2, <1>3, <2>1
    <2>3. end(i) \in cuts /\ end(i) > i /\ end(i) <= e
      BY <1>1, <1>4, <2>1, <2>2
    <2>4. end(i) = e
      <3>1. end(i) \in Nat
        BY <1>1, <2>3
      <3>2. ASSUME end(i) < e PROVE FALSE
        <4>1. end(i) \in (i + 1)..(e - 1) /\ end(i) \in 1..Len(s)
          BY <1>1, <2>1, <2>3, <3>1, <3>2
        <4> QED BY <1>2, <2>1, <2>3, <4>1
      <3> QED BY <2>1, <2>3, <3>1, <3>2
    <2>5. i \in starts
      BY <2>2, <2>4
    <2> QED BY <1>6, <2>4, <2>5
  <1> QED BY <1>7, <1>8

\* A part of a line between separators.
IsPart(s, a, b) ==
  /\ a \in 1..(Len(s) + 1) /\ b \in 0..Len(s) /\ a <= b + 1
  /\ a = 1 \/ s[a - 1] \in Separators
  /\ b = Len(s) \/ s[b + 1] \in Separators

LEMMA SegmentOfPart ==
  ASSUME NEW S, NEW s \in Seq(S), NEW a, NEW b, IsPart(s, a, b),
         NEW i, i \in DOMAIN Segments(SubSeq(s, a, b))
  PROVE  /\ i \in Nat /\ i + (a - 1) \in DOMAIN Segments(s)
         /\ Segments(s)[i + (a - 1)] = Segments(SubSeq(s, a, b))[i]
  <1> DEFINE t == SubSeq(s, a, b)
             c == a - 1
  <1>1. /\ a \in 1..(Len(s) + 1) /\ b \in 0..Len(s) /\ a <= b + 1 /\ (a = 1 \/ s[a - 1] \in Separators)
        /\ (b = Len(s) \/ s[b + 1] \in Separators)
    BY DEF IsPart
  <1>2. t \in Seq(S) /\ Len(s) \in Nat /\ c \in Nat /\ Len(t) = b - c /\ \A k \in 1..(b - c) : t[k] = s[k + c]
    BY <1>1, PartIs
  <1>3. PICK e \in Nat : IsSegment(t, i, e) /\ Segments(t)[i] = SubSeq(t, i + 1, e - 1)
    BY <1>2, SegmentIs
  <1>4. /\ i \in 0..Len(t) /\ e \in (i + 2)..(Len(t) + 1) /\ (i = 0 \/ t[i] \in Separators)
        /\ (e = Len(t) + 1 \/ t[e] \in Separators) /\ \A k \in (i + 1)..(e - 1) : t[k] \notin Separators
    BY <1>3 DEF IsSegment
  <1> HIDE DEF t
  <1>5. /\ i \in Nat /\ e \in Nat /\ a \in Nat /\ b \in Nat /\ i <= b - c /\ i + 2 <= e /\ e <= b - c + 1
        /\ c = a - 1 /\ c <= b /\ b <= Len(s)
    BY <1>1, <1>2, <1>4
  <1>6. i + c = 0 \/ s[i + c] \in Separators
    <2>1. CASE i = 0
      <3>1. i + c = a - 1
        BY <1>5, <2>1
      <3>2. CASE a = 1
        BY <1>5, <2>1, <3>2
      <3>3. CASE s[a - 1] \in Separators
        BY <3>1, <3>3
      <3> QED BY <1>1, <3>2, <3>3
    <2>2. CASE i # 0
      <3>1. i \in 1..(b - c)
        BY <1>2, <1>5, <2>2
      <3> QED BY <1>2, <1>4, <2>2, <3>1
    <2> QED BY <2>1, <2>2
  <1>7. e + c = Len(s) + 1 \/ s[e + c] \in Separators
    <2>1. CASE e = Len(t) + 1
      <3>1. e + c = b + 1
        BY <1>2, <1>5, <2>1
      <3>2. CASE b = Len(s)
        BY <3>1, <3>2
      <3>3. CASE s[b + 1] \in Separators
        BY <3>1, <3>3
      <3> QED BY <1>1, <3>2, <3>3
    <2>2. CASE e # Len(t) + 1
      <3>1. e \in 1..(b - c)
        BY <1>2, <1>5, <2>2
      <3> QED BY <1>2, <1>4, <2>2, <3>1
    <2> QED BY <2>1, <2>2
  <1>8. \A k \in ((i + c) + 1)..((e + c) - 1) : s[k] \notin Separators
    <2> SUFFICES ASSUME NEW k \in ((i + c) + 1)..((e + c) - 1) PROVE s[k] \notin Separators
      OBVIOUS
    <2>1. k - c \in (i + 1)..(e - 1) /\ k - c \in 1..(b - c) /\ (k - c) + c = k
      BY <1>2, <1>5
    <2>2. t[k - c] = s[k]
      BY <1>2, <2>1
    <2> QED BY <1>4, <2>1, <2>2
  <1>9. IsSegment(s, i + c, e + c)
    <2> DEFINE m == i + c
               n == e + c
    <2>1. m \in Nat /\ n \in Nat /\ m <= Len(s) /\ m + 2 <= n /\ n <= Len(s) + 1 /\ Len(s) \in Nat
      <3>1. Len(s) \in Nat /\ c \in Nat
        BY <1>2
      <3>2. i \in Nat /\ e \in Nat /\ b \in Nat /\ i <= b - c /\ i + 2 <= e /\ e <= b - c + 1 /\ b <= Len(s)
        BY <1>5
      <3> HIDE DEF c
      <3> QED BY <3>1, <3>2
    <2>2. (m = 0 \/ s[m] \in Separators) /\ (n = Len(s) + 1 \/ s[n] \in Separators)
      BY <1>6, <1>7
    <2>3. \A k \in (m + 1)..(n - 1) : s[k] \notin Separators
      BY <1>8
    <2> HIDE DEF m, n
    <2>4. IsSegment(s, m, n)
      BY <2>1, <2>2, <2>3 DEF IsSegment
    <2> QED BY <2>4 DEF m, n
  <1>10. i + c \in DOMAIN Segments(s) /\ Segments(s)[i + c] = SubSeq(s, (i + c) + 1, (e + c) - 1)
    BY <1>9, SegmentIs, Zenon
  <1>11. SubSeq(t, i + 1, e - 1) = SubSeq(s, (i + 1) + (a - 1), (e - 1) + (a - 1))
    <2>1. i + 1 \in 1..(b - a + 2) /\ e - 1 \in 0..(b - a + 1) /\ i + 1 <= (e - 1) + 1
      BY <1>2, <1>5
    <2> QED BY <1>1, <2>1, PartOfPart DEF t
  <1>12. (i + 1) + (a - 1) = (i + c) + 1 /\ (e - 1) + (a - 1) = (e + c) - 1
    BY <1>2, <1>5
  <1>13. Segments(s)[i + c] = Segments(t)[i]
    BY <1>3, <1>10, <1>11, <1>12
  <1> QED BY <1>5, <1>10, <1>13 DEF t

\* A line without separators is one segment.
LEMMA WholeSegment ==
  ASSUME NEW S, NEW s \in Seq(S), s # <<>>, \A k \in 1..Len(s) : s[k] \notin Separators
  PROVE  DOMAIN Segments(s) = {0} /\ Segments(s)[0] = s
  <1>1. Len(s) \in Nat /\ Len(s) >= 1
    OBVIOUS
  <1>2. IsSegment(s, 0, Len(s) + 1)
    BY <1>1 DEF IsSegment
  <1>3. SubSeq(s, 0 + 1, (Len(s) + 1) - 1) = s
    BY <1>1
  <1>4. 0 \in DOMAIN Segments(s) /\ Segments(s)[0] = s
    BY <1>2, <1>3, SegmentIs
  <1>5. ASSUME NEW i \in DOMAIN Segments(s) PROVE i = 0
    <2>1. PICK e \in Nat : IsSegment(s, i, e)
      BY SegmentIs
    <2>2. i \in 0..Len(s) /\ (i = 0 \/ s[i] \in Separators)
      BY <2>1 DEF IsSegment
    <2> QED BY <1>1, <2>2
  <1> QED BY <1>4, <1>5

LEMMA FromIs ==
  ASSUME NEW S, NEW s \in Seq(S), NEW i \in 1..(Len(s) + 1)
  PROVE  /\ From(s, i) \in Seq(S) /\ Len(From(s, i)) = Len(s) - (i - 1)
         /\ \A k \in 1..(Len(s) - (i - 1)) : From(s, i)[k] = s[k + (i - 1)]
  BY DEF From

\* Where the leading assignments end, and the leading words of a wrapper.
AssignmentsEnd(s) == Least({i \in 1..Len(s) : i < Len(s) => s[i] \notin Assignments})
OptionsEnd(s) == Least({i \in 1..(Len(s) + 1) : i <= Len(s) => ~IsWrapperOption(s[i])})

LEMMA AssignmentsEndIs ==
  ASSUME NEW S, NEW s \in Seq(S), s # <<>>
  PROVE  LET k == AssignmentsEnd(s)
         IN /\ k \in 1..Len(s) /\ (k < Len(s) => s[k] \notin Assignments)
            /\ \A i \in 1..(k - 1) : s[i] \in Assignments
            /\ SkipAssignments(s) = From(s, k)
  <1> DEFINE T == {i \in 1..Len(s) : i < Len(s) => s[i] \notin Assignments}
             k == AssignmentsEnd(s)
  <1>1. Len(s) \in T /\ T \in SUBSET Nat
    OBVIOUS
  <1>2. k = Least(T) /\ SkipAssignments(s) = From(s, k)
    BY DEF AssignmentsEnd, SkipAssignments
  <1>3. Least(T) \in T /\ \A i \in T : Least(T) <= i
    <2> HIDE DEF T
    <2> QED BY <1>1, LeastIs
  <1>4. k \in T /\ \A i \in T : k <= i
    BY <1>2, <1>3, Zenon
  <1> HIDE DEF k
  <1>5. \A i \in 1..(k - 1) : s[i] \in Assignments
    BY <1>4
  <1> QED BY <1>2, <1>4, <1>5 DEF k

LEMMA OptionsEndIs ==
  ASSUME NEW S, NEW s \in Seq(S)
  PROVE  LET k == OptionsEnd(s)
         IN /\ k \in 1..(Len(s) + 1) /\ (k <= Len(s) => ~IsWrapperOption(s[k]))
            /\ \A i \in 1..(k - 1) : IsWrapperOption(s[i])
            /\ SkipOptions(s) = From(s, k)
  <1> DEFINE T == {i \in 1..(Len(s) + 1) : i <= Len(s) => ~IsWrapperOption(s[i])}
             k == OptionsEnd(s)
  <1>1. Len(s) + 1 \in T /\ T \in SUBSET Nat
    OBVIOUS
  <1>2. k = Least(T) /\ SkipOptions(s) = From(s, k)
    BY DEF OptionsEnd, SkipOptions
  <1>3. Least(T) \in T /\ \A i \in T : Least(T) <= i
    <2> HIDE DEF T
    <2> QED BY <1>1, LeastIs
  <1>4. k \in T /\ \A i \in T : k <= i
    BY <1>2, <1>3, Zenon
  <1> HIDE DEF k
  <1>5. \A i \in 1..(k - 1) : IsWrapperOption(s[i])
    BY <1>4
  <1> QED BY <1>2, <1>4, <1>5 DEF k

LEMMA SkipAssignmentsTyped ==
  ASSUME NEW S, NEW s \in Seq(S), s # <<>>
  PROVE  SkipAssignments(s) \in Seq(S) /\ SkipAssignments(s) # <<>>
  <1> DEFINE k == AssignmentsEnd(s)
  <1>1. k \in 1..Len(s) /\ SkipAssignments(s) = From(s, k)
    BY AssignmentsEndIs
  <1> HIDE DEF k
  <1>2. From(s, k) \in Seq(S) /\ Len(From(s, k)) = Len(s) - (k - 1) /\ Len(s) - (k - 1) >= 1
    <2>1. k \in 1..(Len(s) + 1)
      BY <1>1
    <2>2. From(s, k) \in Seq(S) /\ Len(From(s, k)) = Len(s) - (k - 1)
      BY <2>1, FromIs
    <2>3. Len(s) - (k - 1) >= 1
      BY <1>1
    <2> QED BY <2>2, <2>3
  <1> QED BY <1>1, <1>2

LEMMA NestedTyped ==
  ASSUME NEW S, NEW s \in Seq(S), s # <<>>
  PROVE  NestedCommand(s) \in Seq(S)
  <1> DEFINE exec == At(s, ExecFlags)
             flag == At(s, CommandFlags)
  <1>1. exec \in SUBSET Nat /\ exec \in SUBSET (1..Len(s)) /\ flag \in SUBSET Nat /\ flag \in SUBSET (1..Len(s))
    BY DEF At
  <1>2. ASSUME exec # {}, Least(exec) < Len(s) PROVE From(s, Least(exec) + 1) \in Seq(S)
    <2>1. Least(exec) \in exec
      BY <1>1, <1>2, LeastIs
    <2>2. Least(exec) + 1 \in 1..(Len(s) + 1)
      BY <1>1, <2>1
    <2> QED BY <2>2, FromIs
  <1>3. ASSUME flag # {} PROVE From(s, Least(flag) + 1) \in Seq(S)
    <2>1. Least(flag) \in flag
      BY <1>1, <1>3, LeastIs
    <2>2. Least(flag) + 1 \in 1..(Len(s) + 1)
      BY <1>1, <2>1
    <2> QED BY <2>2, FromIs
  <1>4. SkipOptions(Tail(s)) \in Seq(S)
    <2> DEFINE t == Tail(s)
    <2>1. t \in Seq(S)
      OBVIOUS
    <2> HIDE DEF t
    <2>2. OptionsEnd(t) \in 1..(Len(t) + 1) /\ SkipOptions(t) = From(t, OptionsEnd(t))
      BY <2>1, OptionsEndIs
    <2>3. From(t, OptionsEnd(t)) \in Seq(S)
      BY <2>1, <2>2, FromIs
    <2> QED BY <2>2, <2>3 DEF t
  <1>5. <<>> \in Seq(S)
    OBVIOUS
  <1> HIDE DEF exec, flag
  <1> QED BY <1>2, <1>3, <1>4, <1>5 DEF NestedCommand, exec, flag

LEMMA ListedTyped ==
  ASSUME NEW seg, NEW s
  PROVE  Listed(seg, s) \in Verdicts
  BY DEF Listed, Verdicts

Lines == Seq(AnyWord)

\* What a segment is judged, of what is nested in it by prev.
JudgedBy(prev, seg) ==
  LET s == SkipAssignments(seg)
      nested == NestedCommand(s)
  IN IF At(s, Elevators) # {} THEN "Deny"
     ELSE IF Head(s) \in Interpreters /\ At(s, {"-c", "-e", "-exec"}) # {} THEN "Hold"
     ELSE IF nested # <<>> THEN prev[nested]
     ELSE Listed(seg, s)

LEMMA JudgedTyped ==
  ASSUME NEW prev \in [Lines -> Verdicts], NEW seg \in Lines, seg # <<>>
  PROVE  JudgedBy(prev, seg) \in Verdicts
  <1>1. SkipAssignments(seg) \in Lines /\ SkipAssignments(seg) # <<>>
    BY SkipAssignmentsTyped DEF Lines
  <1>2. NestedCommand(SkipAssignments(seg)) \in Lines
    BY <1>1, NestedTyped DEF Lines
  <1>3. "Deny" \in Verdicts /\ "Hold" \in Verdicts /\ Listed(seg, SkipAssignments(seg)) \in Verdicts
    BY ListedTyped DEF Verdicts
  <1> QED BY <1>2, <1>3 DEF JudgedBy

Levels == MaxNestDepth + 1

LEMMA LevelsNumber == Levels \in Nat /\ Levels = 9
  BY DEF Levels, MaxNestDepth

LEMMA SegmentLevels ==
  /\ SegmentLevel \in [0..Levels -> [Lines -> Verdicts]]
  /\ \A seg \in Lines : SegmentLevel[0][seg] = "Deny"
  /\ \A n \in 1..Levels, seg \in Lines :
       SegmentLevel[n][seg] = IF seg = <<>> THEN "Allow" ELSE JudgedBy(SegmentLevel[n - 1], seg)
  <1> DEFINE V == [Lines -> Verdicts]
             base == [seg \in Lines |-> "Deny"]
             step(F) == [seg \in Lines |-> IF seg = <<>> THEN "Allow" ELSE JudgedBy(F, seg)]
             g == [n \in 1..Levels |-> [F \in V |-> step(F)]]
             body(h) == [left \in 0..Levels |->
                           [seg \in Lines |-> IF left = 0 THEN "Deny"
                                              ELSE IF seg = <<>> THEN "Allow" ELSE JudgedBy(h[left - 1], seg)]]
  <1>1. base \in V /\ \A F \in V : step(F) \in V
    <2>1. "Deny" \in Verdicts /\ "Allow" \in Verdicts
      BY DEF Verdicts
    <2>2. ASSUME NEW F \in V, NEW seg \in Lines PROVE (IF seg = <<>> THEN "Allow" ELSE JudgedBy(F, seg)) \in Verdicts
      BY <2>1, JudgedTyped
    <2> QED BY <2>1, <2>2
  <1> HIDE DEF V, base
  <1>2. g \in [1..Levels -> [V -> V]]
    BY <1>1
  <1>3. PICK f : Follows(f, Levels, V, base, g)
    BY <1>1, <1>2, LevelsNumber, RecursionExists
  <1>4. f \in [0..Levels -> V] /\ f[0] = base /\ \A n \in 1..Levels : f[n] = g[n][f[n - 1]]
    BY <1>3 DEF Follows
  <1>5. ASSUME NEW n \in 1..Levels PROVE f[n - 1] \in V /\ f[n] = step(f[n - 1])
    <2>1. n - 1 \in 0..Levels
      BY LevelsNumber
    <2>2. f[n - 1] \in V
      BY <1>4, <2>1
    <2>3. f[n] = g[n][f[n - 1]]
      BY <1>4
    <2> QED BY <2>2, <2>3
  <1> HIDE DEF g
  <1>6. f = body(f)
    <2>1. ASSUME NEW n \in 0..Levels
          PROVE  f[n] = [seg \in Lines |-> IF n = 0 THEN "Deny" ELSE IF seg = <<>> THEN "Allow" ELSE JudgedBy(f[n - 1], seg)]
      <3>1. CASE n = 0
        BY <1>4, <3>1 DEF base
      <3>2. CASE n # 0
        <4>1. n \in 1..Levels
          BY <3>2, LevelsNumber
        <4>2. f[n] = step(f[n - 1])
          BY <1>5, <4>1, Zenon
        <4> QED BY <3>2, <4>2
      <3> QED BY <3>1, <3>2
    <2>2. f = [n \in 0..Levels |-> f[n]]
      BY <1>4
    <2> QED BY <2>1, <2>2, Zenon
  <1>7. SegmentLevel = CHOOSE h : h = body(h)
    BY Zenon DEF SegmentLevel, JudgedBy, Lines, Levels
  <1>8. SegmentLevel = body(SegmentLevel)
    <2> HIDE DEF body
    <2> QED BY <1>6, <1>7, Zenon
  <1>9. /\ SegmentLevel = [n \in 0..Levels |-> SegmentLevel[n]]
        /\ \A n \in 0..Levels : SegmentLevel[n] =
             [seg \in Lines |-> IF n = 0 THEN "Deny"
                                ELSE IF seg = <<>> THEN "Allow" ELSE JudgedBy(SegmentLevel[n - 1], seg)]
    <2> DEFINE h == SegmentLevel
    <2>1. h = body(h)
      BY <1>8
    <2> HIDE DEF h
    <2>2. \A n \in 0..Levels : h[n] = [seg \in Lines |-> IF n = 0 THEN "Deny"
                                ELSE IF seg = <<>> THEN "Allow" ELSE JudgedBy(h[n - 1], seg)]
      BY <2>1
    <2>3. h = [n \in 0..Levels |-> h[n]]
      BY <2>1
    <2> QED BY <2>2, <2>3 DEF h
  <1>10. SegmentLevel[0] = base
    BY <1>9, LevelsNumber DEF base
  <1>11. ASSUME NEW n \in 1..Levels PROVE SegmentLevel[n] = step(SegmentLevel[n - 1])
    <2>1. n \in 0..Levels /\ n # 0
      BY LevelsNumber
    <2> QED BY <1>9, <2>1
  <1> DEFINE T == {n \in 0..Levels : SegmentLevel[n] \in V}
  <1>12. 0 \in T
    BY <1>1, <1>10, LevelsNumber
  <1>13. ASSUME NEW n \in 0..(Levels - 1), n \in T PROVE n + 1 \in T
    <2>1. n + 1 \in 1..Levels /\ n + 1 \in 0..Levels /\ (n + 1) - 1 = n
      BY LevelsNumber
    <2>2. SegmentLevel[n + 1] = step(SegmentLevel[n])
      <3>1. SegmentLevel[n + 1] = step(SegmentLevel[(n + 1) - 1])
        BY <1>11, <2>1, Zenon
      <3> QED BY <2>1, <3>1
    <2>3. step(SegmentLevel[n]) \in V
      BY <1>1, <1>13
    <2> QED BY <2>1, <2>2, <2>3, Zenon
  <1>14. 0..Levels \subseteq T
    BY <1>12, <1>13, LevelsNumber, NumbersUpTo, Zenon
  <1>15. SegmentLevel \in [0..Levels -> V]
    BY <1>9, <1>14
  <1>16. \A seg \in Lines : SegmentLevel[0][seg] = "Deny"
    BY <1>10 DEF base
  <1>17. ASSUME NEW n \in 1..Levels, NEW seg \in Lines
         PROVE  SegmentLevel[n][seg] = IF seg = <<>> THEN "Allow" ELSE JudgedBy(SegmentLevel[n - 1], seg)
    <2>1. SegmentLevel[n] = step(SegmentLevel[n - 1])
      BY <1>11, Zenon
    <2> QED BY <2>1
  <1> QED BY <1>15, <1>16, <1>17, Zenon DEF V

\* What a line is judged with n levels left, its substitutions by prev.
JudgedOf(n, prev, s) ==
  IF FetchPipedToShell(Segments(s)) THEN "Deny"
  ELSE Strictest({prev[t] : t \in Substitutions(s)}
                 \cup {SegmentLevel[n][Segments(s)[i]] : i \in DOMAIN Segments(s)})

LEMMA SpanBody ==
  ASSUME NEW S, NEW s \in Seq(S), NEW i, NEW j, <<i, j>> \in Spans(s)
  PROVE  /\ i \in 1..Len(s) /\ j \in (i + 1)..Len(s)
         /\ SubSeq(s, i + 1, j - 1) \in Seq(S) /\ Len(SubSeq(s, i + 1, j - 1)) = j - (i + 1)
  <1>1. i \in 1..Len(s) /\ s[i] = "$(" /\ j \in Closes(s, i)
    BY SpanIs
  <1>2. j \in i..Len(s) /\ s[j] = ")"
    BY <1>1 DEF Closes
  <1>3. j # i
    BY <1>1, <1>2
  <1>4. Len(s) \in Nat /\ i \in Nat /\ j \in Nat /\ i + 1 \in 1..(Len(s) + 1) /\ j - 1 \in 0..Len(s) /\ i + 1 <= (j - 1) + 1
    BY <1>1, <1>2, <1>3
  <1>5. SubSeq(s, i + 1, j - 1) \in Seq(S) /\ Len(SubSeq(s, i + 1, j - 1)) = (j - 1) - ((i + 1) - 1)
    BY <1>4, PartIs
  <1>6. (j - 1) - ((i + 1) - 1) = j - (i + 1)
    BY <1>4
  <1> QED BY <1>1, <1>2, <1>3, <1>5, <1>6

LEMMA SegmentTyped ==
  ASSUME NEW S, NEW s \in Seq(S), NEW i \in DOMAIN Segments(s)
  PROVE  Segments(s)[i] \in Seq(S) /\ Segments(s)[i] # <<>>
  <1>1. PICK e \in Nat : IsSegment(s, i, e) /\ Segments(s)[i] = SubSeq(s, i + 1, e - 1)
    BY SegmentIs
  <1>2. i \in 0..Len(s) /\ e \in (i + 2)..(Len(s) + 1)
    BY <1>1 DEF IsSegment
  <1>3. Len(s) \in Nat /\ i + 1 \in 1..(Len(s) + 1) /\ e - 1 \in 0..Len(s) /\ i + 1 <= (e - 1) + 1 /\ (e - 1) - ((i + 1) - 1) >= 1
    BY <1>2
  <1>4. SubSeq(s, i + 1, e - 1) \in Seq(S) /\ Len(SubSeq(s, i + 1, e - 1)) = (e - 1) - ((i + 1) - 1)
    BY <1>3, PartIs
  <1> DEFINE part == SubSeq(s, i + 1, e - 1)
  <1>5. part \in Seq(S) /\ Len(part) >= 1
    BY <1>3, <1>4
  <1> HIDE DEF part
  <1>6. part # <<>>
    BY <1>5
  <1>7. Segments(s)[i] = part
    BY <1>1, Zenon DEF part
  <1> QED BY <1>5, <1>6, <1>7

LEMMA SubstitutionIs ==
  ASSUME NEW s, NEW t
  PROVE  t \in Substitutions(s) <=>
           \E i, j : /\ <<i, j>> \in Spans(s) /\ t = SubSeq(s, i + 1, j - 1)
                    /\ ~\E o \in Spans(s) : o[1] < i /\ j < o[2]
  <1>1. \A b \in Spans(s) : b = <<b[1], b[2]>>
    BY DEF Spans
  <1>2. ASSUME t \in Substitutions(s)
        PROVE  \E i, j : /\ <<i, j>> \in Spans(s) /\ t = SubSeq(s, i + 1, j - 1)
                        /\ ~\E o \in Spans(s) : o[1] < i /\ j < o[2]
    <2>1. PICK b \in Spans(s) : t = SubSeq(s, b[1] + 1, b[2] - 1) /\ ~\E o \in Spans(s) : o[1] < b[1] /\ b[2] < o[2]
      BY <1>2 DEF Substitutions
    <2> QED BY <1>1, <2>1
  <1>3. ASSUME NEW i, NEW j, <<i, j>> \in Spans(s), t = SubSeq(s, i + 1, j - 1),
               ~\E o \in Spans(s) : o[1] < i /\ j < o[2]
        PROVE  t \in Substitutions(s)
    <2> DEFINE b == <<i, j>>
    <2>1. b[1] = i /\ b[2] = j
      OBVIOUS
    <2>2. b \in {c \in Spans(s) : ~\E o \in Spans(s) : o[1] < c[1] /\ c[2] < o[2]} /\ t = SubSeq(s, b[1] + 1, b[2] - 1)
      BY <1>3, <2>1
    <2> HIDE DEF b
    <2> QED BY <2>2 DEF Substitutions
  <1> QED BY <1>2, <1>3

LEMMA SubstitutionTyped ==
  ASSUME NEW S, NEW s \in Seq(S), NEW t \in Substitutions(s)
  PROVE  t \in Seq(S)
  <1>1. PICK i, j : <<i, j>> \in Spans(s) /\ t = SubSeq(s, i + 1, j - 1)
    BY SubstitutionIs
  <1> QED BY <1>1, SpanBody

LEMMA JudgedOfTyped ==
  ASSUME NEW n \in 0..Levels, NEW prev \in [Lines -> Verdicts], NEW s \in Lines
  PROVE  JudgedOf(n, prev, s) \in Verdicts
  <1> DEFINE vs == {prev[t] : t \in Substitutions(s)} \cup {SegmentLevel[n][Segments(s)[i]] : i \in DOMAIN Segments(s)}
  <1>1. \A t \in Substitutions(s) : prev[t] \in Verdicts
    BY SubstitutionTyped DEF Lines
  <1>2. \A i \in DOMAIN Segments(s) : SegmentLevel[n][Segments(s)[i]] \in Verdicts
    BY SegmentTyped, SegmentLevels DEF Lines
  <1>3. vs \in SUBSET Verdicts
    BY <1>1, <1>2
  <1> HIDE DEF vs
  <1>4. Strictest(vs) \in Verdicts
    BY <1>3, StrictestIs
  <1>5. "Deny" \in Verdicts
    BY DEF Verdicts
  <1> QED BY <1>4, <1>5 DEF JudgedOf, vs

LEMMA CommandLevels ==
  /\ CommandLevel \in [0..Levels -> [Lines -> Verdicts]]
  /\ \A seg \in Lines : CommandLevel[0][seg] = "Deny"
  /\ \A n \in 1..Levels, seg \in Lines :
       CommandLevel[n][seg] = JudgedOf(n, CommandLevel[n - 1], seg)
  <1> DEFINE V == [Lines -> Verdicts]
             base == [seg \in Lines |-> "Deny"]
             step(n, F) == [seg \in Lines |-> JudgedOf(n, F, seg)]
             g == [n \in 1..Levels |-> [F \in V |-> step(n, F)]]
             body(h) == [left \in 0..Levels |->
                           [seg \in Lines |-> IF left = 0 THEN "Deny" ELSE JudgedOf(left, h[left - 1], seg)]]
  <1>1. base \in V /\ \A n \in 1..Levels, F \in V : step(n, F) \in V
    <2>1. "Deny" \in Verdicts
      BY DEF Verdicts
    <2>2. ASSUME NEW n \in 1..Levels, NEW F \in V, NEW seg \in Lines PROVE JudgedOf(n, F, seg) \in Verdicts
      BY JudgedOfTyped, LevelsNumber
    <2> QED BY <2>1, <2>2
  <1> HIDE DEF V, base
  <1>2. g \in [1..Levels -> [V -> V]]
    BY <1>1
  <1>3. PICK f : Follows(f, Levels, V, base, g)
    BY <1>1, <1>2, LevelsNumber, RecursionExists
  <1>4. f \in [0..Levels -> V] /\ f[0] = base /\ \A n \in 1..Levels : f[n] = g[n][f[n - 1]]
    BY <1>3 DEF Follows
  <1>5. ASSUME NEW n \in 1..Levels PROVE f[n - 1] \in V /\ f[n] = step(n, f[n - 1])
    <2>1. n - 1 \in 0..Levels
      BY LevelsNumber
    <2>2. f[n - 1] \in V
      BY <1>4, <2>1
    <2>3. f[n] = g[n][f[n - 1]]
      BY <1>4
    <2> QED BY <2>2, <2>3
  <1> HIDE DEF g
  <1>6. f = body(f)
    <2>1. ASSUME NEW n \in 0..Levels
          PROVE  f[n] = [seg \in Lines |-> IF n = 0 THEN "Deny" ELSE JudgedOf(n, f[n - 1], seg)]
      <3>1. CASE n = 0
        BY <1>4, <3>1 DEF base
      <3>2. CASE n # 0
        <4>1. n \in 1..Levels
          BY <3>2, LevelsNumber
        <4>2. f[n] = step(n, f[n - 1])
          BY <1>5, <4>1, Zenon
        <4> QED BY <3>2, <4>2
      <3> QED BY <3>1, <3>2
    <2>2. f = [n \in 0..Levels |-> f[n]]
      BY <1>4
    <2> QED BY <2>1, <2>2, Zenon
  <1>7. CommandLevel = CHOOSE h : h = body(h)
    BY Zenon DEF CommandLevel, JudgedOf, Lines, Levels
  <1>8. CommandLevel = body(CommandLevel)
    <2> HIDE DEF body
    <2> QED BY <1>6, <1>7, Zenon
  <1>9. /\ CommandLevel = [n \in 0..Levels |-> CommandLevel[n]]
        /\ \A n \in 0..Levels : CommandLevel[n] =
             [seg \in Lines |-> IF n = 0 THEN "Deny" ELSE JudgedOf(n, CommandLevel[n - 1], seg)]
    <2> DEFINE h == CommandLevel
    <2>1. h = body(h)
      BY <1>8
    <2> HIDE DEF h
    <2>2. \A n \in 0..Levels : h[n] = [seg \in Lines |-> IF n = 0 THEN "Deny" ELSE JudgedOf(n, h[n - 1], seg)]
      BY <2>1
    <2>3. h = [n \in 0..Levels |-> h[n]]
      BY <2>1
    <2> QED BY <2>2, <2>3 DEF h
  <1>10. CommandLevel[0] = base
    BY <1>9, LevelsNumber DEF base
  <1>11. ASSUME NEW n \in 1..Levels PROVE CommandLevel[n] = step(n, CommandLevel[n - 1])
    <2>1. n \in 0..Levels /\ n # 0
      BY LevelsNumber
    <2> QED BY <1>9, <2>1
  <1> DEFINE T == {n \in 0..Levels : CommandLevel[n] \in V}
  <1>12. 0 \in T
    BY <1>1, <1>10, LevelsNumber
  <1>13. ASSUME NEW n \in 0..(Levels - 1), n \in T PROVE n + 1 \in T
    <2>1. n + 1 \in 1..Levels /\ n + 1 \in 0..Levels /\ (n + 1) - 1 = n
      BY LevelsNumber
    <2>2. CommandLevel[n + 1] = step(n + 1, CommandLevel[n])
      <3>1. CommandLevel[n + 1] = step(n + 1, CommandLevel[(n + 1) - 1])
        BY <1>11, <2>1, Zenon
      <3> QED BY <2>1, <3>1
    <2>3. step(n + 1, CommandLevel[n]) \in V
      <3>1. CommandLevel[n] \in V
        BY <1>13
      <3> HIDE DEF step
      <3> QED BY <1>1, <2>1, <3>1, Zenon
    <2> QED BY <2>1, <2>2, <2>3, Zenon
  <1>14. 0..Levels \subseteq T
    BY <1>12, <1>13, LevelsNumber, NumbersUpTo, Zenon
  <1>15. CommandLevel \in [0..Levels -> V]
    BY <1>9, <1>14
  <1>16. \A seg \in Lines : CommandLevel[0][seg] = "Deny"
    BY <1>10 DEF base
  <1>17. ASSUME NEW n \in 1..Levels, NEW seg \in Lines
         PROVE  CommandLevel[n][seg] = JudgedOf(n, CommandLevel[n - 1], seg)
    <2>1. CommandLevel[n] = step(n, CommandLevel[n - 1])
      BY <1>11, Zenon
    <2> QED BY <2>1
  <1> QED BY <1>15, <1>16, <1>17, Zenon DEF V

\* The more levels are left, the milder a verdict may be.
LEMMA JudgedMilder ==
  ASSUME NEW f \in [Lines -> Verdicts], NEW h \in [Lines -> Verdicts], \A t \in Lines : AtLeast(f[t], h[t]),
         NEW seg \in Lines, seg # <<>>
  PROVE  AtLeast(JudgedBy(f, seg), JudgedBy(h, seg))
  <1> DEFINE s == SkipAssignments(seg)
             nested == NestedCommand(s)
  <1>1. s \in Lines /\ s # <<>>
    BY SkipAssignmentsTyped DEF Lines
  <1>2. nested \in Lines
    BY <1>1, NestedTyped DEF Lines
  <1>3. AtLeast(f[nested], h[nested])
    BY <1>2
  <1>4. AtLeast("Deny", "Deny") /\ AtLeast("Hold", "Hold") /\ AtLeast(Listed(seg, s), Listed(seg, s))
    BY AtLeastFacts, ListedTyped DEF Verdicts
  <1> QED BY <1>3, <1>4 DEF JudgedBy

LEMMA SegmentMilder ==
  \A n \in 1..Levels, seg \in Lines : AtLeast(SegmentLevel[n - 1][seg], SegmentLevel[n][seg])
  <1> DEFINE V == [Lines -> Verdicts]
             Ok(n) == \A seg \in Lines : AtLeast(SegmentLevel[n][seg], SegmentLevel[n + 1][seg])
             T == {n \in 0..(Levels - 1) : Ok(n)}
  <1>1. \A n \in 0..Levels : SegmentLevel[n] \in V
    BY SegmentLevels
  <1>2. 0 \in T
    <2>1. ASSUME NEW seg \in Lines PROVE AtLeast(SegmentLevel[0][seg], SegmentLevel[0 + 1][seg])
      <3>1. SegmentLevel[0 + 1][seg] \in Verdicts
        BY <1>1, LevelsNumber
      <3> QED BY <3>1, SegmentLevels, AtLeastFacts
    <2> QED BY <2>1, LevelsNumber
  <1>3. ASSUME NEW n \in 0..((Levels - 1) - 1), n \in T PROVE n + 1 \in T
    <2>1. n + 1 \in 1..Levels /\ n + 2 \in 1..Levels /\ (n + 1) - 1 = n /\ (n + 2) - 1 = n + 1 /\ (n + 1) + 1 = n + 2
          /\ n + 1 \in 0..(Levels - 1) /\ n \in 0..Levels /\ n + 1 \in 0..Levels
      BY LevelsNumber
    <2>2. ASSUME NEW seg \in Lines PROVE AtLeast(SegmentLevel[n + 1][seg], SegmentLevel[n + 2][seg])
      <3>1. /\ SegmentLevel[n + 1][seg] = IF seg = <<>> THEN "Allow" ELSE JudgedBy(SegmentLevel[n], seg)
            /\ SegmentLevel[n + 2][seg] = IF seg = <<>> THEN "Allow" ELSE JudgedBy(SegmentLevel[n + 1], seg)
        BY <2>1, SegmentLevels
      <3>2. CASE seg = <<>>
        BY <3>1, <3>2, AtLeastFacts DEF Verdicts
      <3>3. CASE seg # <<>>
        <4>1. SegmentLevel[n] \in [Lines -> Verdicts] /\ SegmentLevel[n + 1] \in [Lines -> Verdicts]
          BY <1>1, <2>1
        <4>2. \A t \in Lines : AtLeast(SegmentLevel[n][t], SegmentLevel[n + 1][t])
          BY <1>3
        <4>3. AtLeast(JudgedBy(SegmentLevel[n], seg), JudgedBy(SegmentLevel[n + 1], seg))
          BY <3>3, <4>1, <4>2, JudgedMilder
        <4> QED BY <3>1, <3>3, <4>3
      <3> QED BY <3>2, <3>3
    <2> QED BY <2>1, <2>2
  <1>4. 0..(Levels - 1) \subseteq T
    <2>1. Levels - 1 \in Nat
      BY LevelsNumber
    <2> HIDE DEF T
    <2> QED BY <1>2, <1>3, <2>1, NumbersUpTo, Zenon
  <1>5. ASSUME NEW n \in 1..Levels, NEW seg \in Lines PROVE AtLeast(SegmentLevel[n - 1][seg], SegmentLevel[n][seg])
    <2>1. n - 1 \in 0..(Levels - 1) /\ (n - 1) + 1 = n
      BY LevelsNumber
    <2>2. Ok(n - 1)
      BY <1>4, <2>1
    <2> QED BY <2>1, <2>2
  <1> QED BY <1>5

\* A line is judged no more mildly than any of what it is judged by, ...
LEMMA CommandJudges ==
  ASSUME NEW n \in 1..Levels, NEW s \in Lines
  PROVE  /\ CommandLevel[n][s] \in Verdicts
         /\ FetchPipedToShell(Segments(s)) => CommandLevel[n][s] = "Deny"
         /\ \A t \in Substitutions(s) : AtLeast(CommandLevel[n][s], CommandLevel[n - 1][t])
         /\ \A i \in DOMAIN Segments(s) : AtLeast(CommandLevel[n][s], SegmentLevel[n][Segments(s)[i]])
  <1> DEFINE vs == {CommandLevel[n - 1][t] : t \in Substitutions(s)}
                   \cup {SegmentLevel[n][Segments(s)[i]] : i \in DOMAIN Segments(s)}
  <1>0. n \in 0..Levels /\ n - 1 \in 0..Levels
    BY LevelsNumber
  <1>1. \A t \in Substitutions(s) : CommandLevel[n - 1][t] \in Verdicts
    BY <1>0, SubstitutionTyped, CommandLevels DEF Lines
  <1>2. \A i \in DOMAIN Segments(s) : SegmentLevel[n][Segments(s)[i]] \in Verdicts
    BY <1>0, SegmentTyped, SegmentLevels DEF Lines
  <1>3. vs \in SUBSET Verdicts
    BY <1>1, <1>2
  <1>4. CommandLevel[n][s] = IF FetchPipedToShell(Segments(s)) THEN "Deny" ELSE Strictest(vs)
    BY CommandLevels DEF JudgedOf
  <1>5. (\A t \in Substitutions(s) : CommandLevel[n - 1][t] \in vs)
        /\ \A i \in DOMAIN Segments(s) : SegmentLevel[n][Segments(s)[i]] \in vs
    OBVIOUS
  <1> HIDE DEF vs
  <1>6. CASE FetchPipedToShell(Segments(s))
    <2>1. CommandLevel[n][s] = "Deny" /\ "Deny" \in Verdicts
      BY <1>4, <1>6 DEF Verdicts
    <2> QED BY <1>1, <1>2, <2>1, AtLeastFacts
  <1>7. CASE ~FetchPipedToShell(Segments(s))
    <2>1. CommandLevel[n][s] = Strictest(vs)
      BY <1>4, <1>7
    <2>2. Strictest(vs) \in Verdicts /\ \A w \in vs : AtLeast(Strictest(vs), w)
      BY <1>3, StrictestIs
    <2> QED BY <1>5, <1>7, <2>1, <2>2
  <1> QED BY <1>6, <1>7

\* ... and no more strictly than the strictest of it.
LEMMA CommandMildest ==
  ASSUME NEW n \in 1..Levels, NEW s \in Lines, NEW v \in Verdicts,
         FetchPipedToShell(Segments(s)) => v = "Deny",
         \A t \in Substitutions(s) : AtLeast(v, CommandLevel[n - 1][t]),
         \A i \in DOMAIN Segments(s) : AtLeast(v, SegmentLevel[n][Segments(s)[i]])
  PROVE  AtLeast(v, CommandLevel[n][s])
  <1> DEFINE vs == {CommandLevel[n - 1][t] : t \in Substitutions(s)}
                   \cup {SegmentLevel[n][Segments(s)[i]] : i \in DOMAIN Segments(s)}
  <1>0. n \in 0..Levels /\ n - 1 \in 0..Levels
    BY LevelsNumber
  <1>1. \A t \in Substitutions(s) : CommandLevel[n - 1][t] \in Verdicts
    BY <1>0, SubstitutionTyped, CommandLevels DEF Lines
  <1>2. \A i \in DOMAIN Segments(s) : SegmentLevel[n][Segments(s)[i]] \in Verdicts
    BY <1>0, SegmentTyped, SegmentLevels DEF Lines
  <1>3. vs \in SUBSET Verdicts /\ \A w \in vs : AtLeast(v, w)
    BY <1>1, <1>2
  <1>4. CommandLevel[n][s] = IF FetchPipedToShell(Segments(s)) THEN "Deny" ELSE Strictest(vs)
    BY CommandLevels DEF JudgedOf
  <1> HIDE DEF vs
  <1>5. Strictest(vs) \in vs \cup {"Allow"}
    BY <1>3, StrictestIs
  <1>6. AtLeast(v, Strictest(vs))
    BY <1>3, <1>5, AtLeastFacts
  <1>7. FetchPipedToShell(Segments(s)) => AtLeast(v, "Deny")
    BY AtLeastFacts
  <1> QED BY <1>4, <1>6, <1>7

LEMMA CommandMilder ==
  \A n \in 1..Levels, s \in Lines : AtLeast(CommandLevel[n - 1][s], CommandLevel[n][s])
  <1> DEFINE Ok(n) == \A s \in Lines : AtLeast(CommandLevel[n][s], CommandLevel[n + 1][s])
             T == {n \in 0..(Levels - 1) : Ok(n)}
  <1>1. \A n \in 0..Levels, s \in Lines : CommandLevel[n][s] \in Verdicts
    BY CommandLevels
  <1>2. 0 \in T
    <2>1. ASSUME NEW s \in Lines PROVE AtLeast(CommandLevel[0][s], CommandLevel[0 + 1][s])
      <3>1. CommandLevel[0 + 1][s] \in Verdicts
        BY <1>1, LevelsNumber
      <3> QED BY <3>1, CommandLevels, AtLeastFacts
    <2> QED BY <2>1, LevelsNumber
  <1>3. ASSUME NEW n \in 0..((Levels - 1) - 1), n \in T PROVE n + 1 \in T
    <2> DEFINE m == n + 1
               k == n + 2
    <2>1. m \in 1..Levels /\ k \in 1..Levels /\ m - 1 = n /\ k - 1 = m /\ m + 1 = k
          /\ m \in 0..(Levels - 1) /\ n \in 0..Levels /\ m \in 0..Levels /\ k \in 0..Levels
      BY LevelsNumber
    <2> HIDE DEF m, k
    <2>2. ASSUME NEW s \in Lines PROVE AtLeast(CommandLevel[m][s], CommandLevel[k][s])
      <3> DEFINE v == CommandLevel[m][s]
      <3>1. v \in Verdicts
        BY <1>1, <2>1
      <3>2. FetchPipedToShell(Segments(s)) => v = "Deny"
        BY <2>1, CommandJudges
      <3>3. ASSUME NEW t \in Substitutions(s) PROVE AtLeast(v, CommandLevel[k - 1][t])
        <4>1. t \in Lines
          BY SubstitutionTyped DEF Lines
        <4>2. AtLeast(v, CommandLevel[m - 1][t])
          BY <2>1, CommandJudges
        <4>3. AtLeast(CommandLevel[n][t], CommandLevel[m][t])
          BY <1>3, <4>1 DEF m
        <4>4. CommandLevel[n][t] \in Verdicts /\ CommandLevel[m][t] \in Verdicts
          BY <1>1, <2>1, <4>1
        <4>5. AtLeast(v, CommandLevel[m][t])
          <5>1. AtLeast(v, CommandLevel[n][t])
            BY <2>1, <4>2
          <5> HIDE DEF v
          <5> QED BY <3>1, <4>3, <4>4, <5>1, AtLeastFacts
        <4> QED BY <2>1, <4>5
      <3>4. ASSUME NEW i \in DOMAIN Segments(s) PROVE AtLeast(v, SegmentLevel[k][Segments(s)[i]])
        <4> DEFINE seg == Segments(s)[i]
        <4>1. seg \in Lines
          BY SegmentTyped DEF Lines
        <4>2. AtLeast(v, SegmentLevel[m][seg])
          BY <2>1, CommandJudges
        <4> HIDE DEF seg, v
        <4>3. AtLeast(SegmentLevel[k - 1][seg], SegmentLevel[k][seg])
          BY <2>1, <4>1, SegmentMilder
        <4>4. SegmentLevel[m][seg] \in Verdicts /\ SegmentLevel[k][seg] \in Verdicts
          BY <2>1, <4>1, SegmentLevels
        <4>5. AtLeast(v, SegmentLevel[k][seg])
          BY <2>1, <3>1, <4>2, <4>3, <4>4, AtLeastFacts
        <4> QED BY <4>5 DEF seg
      <3> HIDE DEF v
      <3>5. AtLeast(v, CommandLevel[k][s])
        BY <2>1, <3>1, <3>2, <3>3, <3>4, CommandMildest
      <3> QED BY <3>5 DEF v
    <2>3. Ok(m)
      BY <2>1, <2>2
    <2> QED BY <2>1, <2>3 DEF m
  <1>4. 0..(Levels - 1) \subseteq T
    <2>1. Levels - 1 \in Nat
      BY LevelsNumber
    <2> HIDE DEF T
    <2> QED BY <1>2, <1>3, <2>1, NumbersUpTo, Zenon
  <1>5. ASSUME NEW n \in 1..Levels, NEW s \in Lines PROVE AtLeast(CommandLevel[n - 1][s], CommandLevel[n][s])
    <2>1. n - 1 \in 0..(Levels - 1) /\ (n - 1) + 1 = n
      BY LevelsNumber
    <2>2. Ok(n - 1)
      BY <1>4, <2>1
    <2> QED BY <2>1, <2>2
  <1> QED BY <1>5

\* A substitution stands in an outermost one, or is one.
LEMMA OutermostSpan ==
  ASSUME NEW S, NEW s \in Seq(S), NEW i, NEW j, <<i, j>> \in Spans(s)
  PROVE  \/ SubSeq(s, i + 1, j - 1) \in Substitutions(s)
         \/ \E a \in Nat, b \in Nat : /\ <<a, b>> \in Spans(s) /\ a < i /\ j < b
                                     /\ SubSeq(s, a + 1, b - 1) \in Substitutions(s)
  <1> DEFINE Outer(a) == \E b \in Nat : <<a, b>> \in Spans(s) /\ a < i /\ j < b
             T == {a \in Nat : Outer(a)}
  <1>1. \A b \in Spans(s) : b = <<b[1], b[2]>>
    BY DEF Spans
  <1>2. CASE T = {}
    <2>1. ASSUME NEW o \in Spans(s), o[1] < i, j < o[2] PROVE FALSE
      <3>1. <<o[1], o[2]>> \in Spans(s)
        BY <1>1
      <3>2. o[1] \in Nat /\ o[2] \in Nat
        BY <3>1, SpanBody
      <3> QED BY <1>2, <2>1, <3>1, <3>2
    <2> QED BY <2>1, SubstitutionIs
  <1>3. CASE T # {}
    <2>1. PICK a \in T : \A m \in T : a <= m
      <3>1. T \in SUBSET Nat
        OBVIOUS
      <3> HIDE DEF T
      <3> QED BY <1>3, <3>1, LeastNumber
    <2>2. PICK b \in Nat : <<a, b>> \in Spans(s) /\ a < i /\ j < b
      BY <2>1
    <2>3. ASSUME NEW o \in Spans(s), o[1] < a, b < o[2] PROVE FALSE
      <3> DEFINE oa == o[1]
                 ob == o[2]
      <3>1. <<oa, ob>> \in Spans(s)
        BY <1>1
      <3>2. oa \in Nat /\ ob \in Nat /\ i \in Nat /\ j \in Nat
        <4> HIDE DEF oa, ob
        <4>1. i \in 1..Len(s) /\ j \in (i + 1)..Len(s)
          BY SpanBody
        <4>2. oa \in 1..Len(s) /\ ob \in (oa + 1)..Len(s)
          BY <3>1, SpanBody
        <4> QED BY <4>1, <4>2
      <3>3. oa < a /\ b < ob
        BY <2>3
      <3> HIDE DEF oa, ob
      <3>4. oa < i /\ j < ob
        BY <2>1, <2>2, <3>2, <3>3
      <3>5. oa \in T
        BY <3>1, <3>2, <3>4
      <3>6. a <= oa
        BY <2>1, <3>5
      <3> QED BY <2>1, <3>2, <3>3, <3>6
    <2>4. SubSeq(s, a + 1, b - 1) \in Substitutions(s)
      BY <2>2, <2>3, SubstitutionIs
    <2> QED BY <2>1, <2>2, <2>4
  <1> QED BY <1>2, <1>3

\* The line s is judged no more mildly than what any of its substitutions is judged
\* one level down, however deep the substitution stands.
NestedJudges(s) ==
  \A n \in 1..Levels, i, j \in Nat :
    <<i, j>> \in Spans(s) => AtLeast(CommandLevel[n][s], CommandLevel[n - 1][SubSeq(s, i + 1, j - 1)])

LEMMA NestedJudged ==
  ASSUME NEW s \in Lines
  PROVE  NestedJudges(s)
  <1> DEFINE T == {m \in Nat : \A t \in Lines : Len(t) <= m => NestedJudges(t)}
  <1>1. 0 \in T
    <2>1. ASSUME NEW t \in Lines, Len(t) <= 0, NEW i \in Nat, NEW j \in Nat, <<i, j>> \in Spans(t) PROVE FALSE
      <3>1. i \in 1..Len(t)
        BY <2>1, SpanBody DEF Lines
      <3> QED BY <2>1, <3>1
    <2> QED BY <2>1 DEF NestedJudges
  <1>2. ASSUME NEW m \in Nat, m \in T PROVE m + 1 \in T
    <2>1. ASSUME NEW t \in Lines, Len(t) <= m + 1, NEW n \in 1..Levels, NEW i \in Nat, NEW j \in Nat, <<i, j>> \in Spans(t)
          PROVE  AtLeast(CommandLevel[n][t], CommandLevel[n - 1][SubSeq(t, i + 1, j - 1)])
      <3> DEFINE inner == SubSeq(t, i + 1, j - 1)
      <3>0. n \in 0..Levels /\ n - 1 \in 0..Levels /\ t \in Seq(AnyWord)
        BY LevelsNumber DEF Lines
      <3>1. inner \in Lines /\ i \in 1..Len(t) /\ j \in (i + 1)..Len(t)
        BY <2>1, <3>0, SpanBody DEF Lines
      <3>2. CASE inner \in Substitutions(t)
        BY <3>2, CommandJudges
      <3>3. ASSUME NEW a \in Nat, NEW b \in Nat, <<a, b>> \in Spans(t), a < i, j < b,
                   SubSeq(t, a + 1, b - 1) \in Substitutions(t)
            PROVE  AtLeast(CommandLevel[n][t], CommandLevel[n - 1][inner])
        <4> DEFINE outer == SubSeq(t, a + 1, b - 1)
        <4>1. a \in 1..Len(t) /\ b \in (a + 1)..Len(t) /\ outer \in Lines /\ Len(outer) = b - (a + 1)
          BY <3>0, <3>3, SpanBody DEF Lines
        <4>2. Len(outer) <= m
          BY <2>1, <3>0, <4>1
        <4>3. <<i - a, j - a>> \in Spans(outer)
          <5>1. a + 1 \in 1..(Len(t) + 1) /\ b - 1 \in 0..Len(t) /\ a + 1 <= (b - 1) + 1 /\ i - a \in Int /\ j - a \in Int
            BY <3>0, <4>1
          <5>2. <<i - a, j - a>> \in Spans(outer) <=>
                  <<(i - a) + ((a + 1) - 1), (j - a) + ((a + 1) - 1)>> \in Spans(t) /\ i - a >= 1 /\ j - a <= (b - 1) - (a + 1) + 1
            BY <3>0, <5>1, SpanOfPart
          <5>3. (i - a) + ((a + 1) - 1) = i /\ (j - a) + ((a + 1) - 1) = j /\ i - a >= 1 /\ j - a <= (b - 1) - (a + 1) + 1
            BY <3>3, <4>1
          <5> QED BY <2>1, <5>2, <5>3
        <4>4. SubSeq(outer, (i - a) + 1, (j - a) - 1) = inner
          <5>1. a + 1 \in 1..(Len(t) + 1) /\ b - 1 \in 0..Len(t) /\ a + 1 <= (b - 1) + 1
            BY <3>0, <4>1
          <5>2. (i - a) + 1 \in 1..((b - 1) - (a + 1) + 2) /\ (j - a) - 1 \in 0..((b - 1) - (a + 1) + 1)
                /\ (i - a) + 1 <= ((j - a) - 1) + 1
            BY <3>1, <3>3, <4>1
          <5>3. SubSeq(outer, (i - a) + 1, (j - a) - 1) = SubSeq(t, ((i - a) + 1) + ((a + 1) - 1), ((j - a) - 1) + ((a + 1) - 1))
            BY <3>0, <5>1, <5>2, PartOfPart
          <5>4. ((i - a) + 1) + ((a + 1) - 1) = i + 1 /\ ((j - a) - 1) + ((a + 1) - 1) = j - 1
            BY <3>1, <4>1
          <5> QED BY <5>3, <5>4
        <4>5. AtLeast(CommandLevel[n][t], CommandLevel[n - 1][outer])
          BY <3>3, CommandJudges
        <4>6. CommandLevel[n][t] \in Verdicts /\ CommandLevel[n - 1][outer] \in Verdicts /\ CommandLevel[n - 1][inner] \in Verdicts
          BY <3>0, <3>1, <4>1, CommandLevels
        <4>7. AtLeast(CommandLevel[n - 1][outer], CommandLevel[n - 1][inner])
          <5>1. CASE n = 1
            <6>1. CommandLevel[n - 1][outer] = "Deny"
              BY <4>1, <5>1, CommandLevels
            <6> QED BY <4>6, <6>1, AtLeastFacts
          <5>2. CASE n # 1
            <6>1. n - 1 \in 1..Levels /\ (n - 1) - 1 \in 0..Levels
              BY <5>2, LevelsNumber
            <6>2. NestedJudges(outer)
              BY <1>2, <4>1, <4>2
            <6>3. i - a \in Nat /\ j - a \in Nat
              BY <3>1, <3>3
            <6>4. AtLeast(CommandLevel[n - 1][outer], CommandLevel[(n - 1) - 1][SubSeq(outer, (i - a) + 1, (j - a) - 1)])
              <7> HIDE DEF outer
              <7> QED BY <4>3, <6>1, <6>2, <6>3 DEF NestedJudges
            <6>5. AtLeast(CommandLevel[n - 1][outer], CommandLevel[(n - 1) - 1][inner])
              BY <4>4, <6>4, Zenon
            <6>6. AtLeast(CommandLevel[(n - 1) - 1][inner], CommandLevel[n - 1][inner])
              BY <3>1, <6>1, CommandMilder
            <6>7. CommandLevel[(n - 1) - 1][inner] \in Verdicts
              BY <3>1, <6>1, CommandLevels
            <6> HIDE DEF outer, inner
            <6> QED BY <4>6, <6>5, <6>6, <6>7, AtLeastFacts
          <5> QED BY <5>1, <5>2
        <4> HIDE DEF outer, inner
        <4> QED BY <4>5, <4>6, <4>7, AtLeastFacts
      <3> QED BY <2>1, <3>0, <3>2, <3>3, OutermostSpan
    <2> QED BY <2>1 DEF NestedJudges
  <1>3. Nat \subseteq T
    BY <1>1, <1>2, NumbersBySteps, Zenon
  <1>4. Len(s) \in Nat /\ Len(s) <= Len(s)
    BY DEF Lines
  <1> QED BY <1>3, <1>4

\* A substitution of a part of a line is one of the line, with the same body.
LEMMA BodyOfPart ==
  ASSUME NEW S, NEW s \in Seq(S), NEW a \in 1..(Len(s) + 1), NEW b \in 0..Len(s), a <= b + 1,
         NEW u \in Substitutions(SubSeq(s, a, b))
  PROVE  \E i, j \in Nat : <<i, j>> \in Spans(s) /\ u = SubSeq(s, i + 1, j - 1)
  <1> DEFINE t == SubSeq(s, a, b)
             c == a - 1
  <1>1. t \in Seq(S) /\ Len(s) \in Nat /\ c \in Nat /\ Len(t) = b - c
    BY PartIs
  <1>2. PICK i, j : <<i, j>> \in Spans(t) /\ u = SubSeq(t, i + 1, j - 1)
    <2>1. u \in Substitutions(t)
      OBVIOUS
    <2> HIDE DEF t
    <2>2. \E i, j : /\ <<i, j>> \in Spans(t) /\ u = SubSeq(t, i + 1, j - 1)
                    /\ ~\E o \in Spans(t) : o[1] < i /\ j < o[2]
      BY <2>1, SubstitutionIs, Zenon
    <2> QED BY <2>2
  <1>3. i \in 1..Len(t) /\ j \in (i + 1)..Len(t)
    <2> HIDE DEF t
    <2> QED BY <1>1, <1>2, SpanBody
  <1>4. i \in Int /\ j \in Int /\ i + c \in Nat /\ j + c \in Nat
    <2> HIDE DEF t, c
    <2> QED BY <1>1, <1>3
  <1>5. <<i + c, j + c>> \in Spans(s)
    BY <1>2, <1>4, SpanOfPart
  <1>6. SubSeq(t, i + 1, j - 1) = SubSeq(s, (i + 1) + (a - 1), (j - 1) + (a - 1))
    <2>1. i + 1 \in 1..(b - a + 2) /\ j - 1 \in 0..(b - a + 1) /\ i + 1 <= (j - 1) + 1
      <3> HIDE DEF t
      <3> QED BY <1>1, <1>3
    <2> QED BY <2>1, PartOfPart
  <1>7. (i + 1) + (a - 1) = (i + c) + 1 /\ (j - 1) + (a - 1) = (j + c) - 1
    BY <1>4
  <1>8. u = SubSeq(s, (i + c) + 1, (j + c) - 1)
    BY <1>2, <1>6, <1>7
  <1> HIDE DEF c
  <1> QED BY <1>4, <1>5, <1>8

\* A line is judged no more mildly than a part of it between separators.
LEMMA PartJudged ==
  ASSUME NEW s \in Lines, NEW a, NEW b, IsPart(s, a, b), NEW n \in 1..Levels
  PROVE  AtLeast(CommandLevel[n][s], CommandLevel[n][SubSeq(s, a, b)])
  <1> DEFINE t == SubSeq(s, a, b)
             v == CommandLevel[n][s]
  <1>0. s \in Seq(AnyWord) /\ a \in 1..(Len(s) + 1) /\ b \in 0..Len(s) /\ a <= b + 1 /\ n - 1 \in 0..Levels /\ n \in 0..Levels
    BY LevelsNumber DEF Lines, IsPart
  <1>1. t \in Lines
    BY <1>0, PartIs DEF Lines
  <1>2. v \in Verdicts
    BY <1>0, CommandLevels
  <1>3. ASSUME NEW i \in DOMAIN Segments(t)
        PROVE  i \in Nat /\ i + (a - 1) \in DOMAIN Segments(s) /\ Segments(s)[i + (a - 1)] = Segments(t)[i]
    BY <1>0, SegmentOfPart
  <1>4. FetchPipedToShell(Segments(t)) => v = "Deny"
    <2> SUFFICES ASSUME FetchPipedToShell(Segments(t)) PROVE FetchPipedToShell(Segments(s))
      BY CommandJudges
    <2>1. PICK i, j \in DOMAIN Segments(t) : i < j /\ Head(Segments(t)[i]) \in Fetchers /\ Head(Segments(t)[j]) \in Shells
      BY DEF FetchPipedToShell
    <2> DEFINE k == i + (a - 1)
               m == j + (a - 1)
    <2>2. k \in DOMAIN Segments(s) /\ m \in DOMAIN Segments(s) /\ Segments(s)[k] = Segments(t)[i] /\ Segments(s)[m] = Segments(t)[j]
      BY <1>3
    <2>3. k < m
      BY <1>0, <1>3, <2>1
    <2> HIDE DEF k, m, t
    <2> QED BY <2>1, <2>2, <2>3 DEF FetchPipedToShell
  <1>5. ASSUME NEW u \in Substitutions(t) PROVE AtLeast(v, CommandLevel[n - 1][u])
    <2>1. PICK i, j \in Nat : <<i, j>> \in Spans(s) /\ u = SubSeq(s, i + 1, j - 1)
      BY <1>0, BodyOfPart
    <2> QED BY <2>1, NestedJudged DEF NestedJudges
  <1>6. ASSUME NEW i \in DOMAIN Segments(t) PROVE AtLeast(v, SegmentLevel[n][Segments(t)[i]])
    BY <1>3, CommandJudges
  <1> HIDE DEF t, v
  <1>7. AtLeast(v, CommandLevel[n][t])
    BY <1>1, <1>2, <1>4, <1>5, <1>6, CommandMildest
  <1> QED BY <1>7 DEF t, v

\* What stands behind a prefix.
LEMMA FromConcat ==
  ASSUME NEW S, NEW p \in Seq(S), NEW s \in Seq(S), NEW k \in 1..(Len(s) + 1)
  PROVE  From(p \o s, Len(p) + k) = From(s, k)
  <1> DEFINE w == p \o s
  <1>1. w \in Seq(S) /\ Len(w) = Len(p) + Len(s) /\ (\A i \in 1..Len(p) : w[i] = p[i])
        /\ \A i \in 1..Len(s) : w[Len(p) + i] = s[i]
    BY ConcatTyped
  <1>2. Len(p) \in Nat /\ Len(s) \in Nat /\ Len(p) + k \in 1..(Len(w) + 1)
    BY <1>1
  <1> HIDE DEF w
  <1>3. From(w, Len(p) + k) \in Seq(S) /\ Len(From(w, Len(p) + k)) = Len(w) - ((Len(p) + k) - 1)
        /\ \A i \in 1..(Len(w) - ((Len(p) + k) - 1)) : From(w, Len(p) + k)[i] = w[i + ((Len(p) + k) - 1)]
    BY <1>1, <1>2, FromIs
  <1>4. From(s, k) \in Seq(S) /\ Len(From(s, k)) = Len(s) - (k - 1)
        /\ \A i \in 1..(Len(s) - (k - 1)) : From(s, k)[i] = s[i + (k - 1)]
    BY FromIs
  <1>5. Len(w) - ((Len(p) + k) - 1) = Len(s) - (k - 1)
    BY <1>1, <1>2
  <1>6. ASSUME NEW i \in 1..(Len(s) - (k - 1)) PROVE w[i + ((Len(p) + k) - 1)] = s[i + (k - 1)]
    <2>1. i + (k - 1) \in 1..Len(s) /\ i + ((Len(p) + k) - 1) = Len(p) + (i + (k - 1))
      BY <1>2
    <2> QED BY <1>1, <2>1
  <1>7. From(w, Len(p) + k) = From(s, k)
    <2> DEFINE f == From(w, Len(p) + k)
               g == From(s, k)
    <2>1. f \in Seq(S) /\ g \in Seq(S) /\ Len(f) = Len(g) /\ Len(f) = Len(s) - (k - 1)
      BY <1>3, <1>4, <1>5
    <2>2. \A i \in 1..(Len(s) - (k - 1)) : f[i] = g[i]
      BY <1>3, <1>4, <1>5, <1>6
    <2> HIDE DEF f, g
    <2>3. f = g
      BY <2>1, <2>2, SameSequence
    <2> QED BY <2>3 DEF f, g
  <1> QED BY <1>7 DEF w

Plain(s) == \A k \in 1..Len(s) : s[k] \notin Separators

\* One command is judged no more mildly behind a prefix when its words are not.
LEMMA PrefixJudged ==
  ASSUME NEW p \in Lines, NEW s \in Lines, s # <<>>, Plain(p), Plain(s), NEW n \in 1..Levels,
         AtLeast(SegmentLevel[n][p \o s], SegmentLevel[n][s])
  PROVE  AtLeast(CommandLevel[n][p \o s], CommandLevel[n][s])
  <1> DEFINE w == p \o s
             v == CommandLevel[n][w]
  <1>0. p \in Seq(AnyWord) /\ s \in Seq(AnyWord) /\ n \in 0..Levels /\ n - 1 \in 0..Levels
    BY LevelsNumber DEF Lines
  <1>1. w \in Seq(AnyWord) /\ Len(w) = Len(p) + Len(s) /\ (\A i \in 1..Len(p) : w[i] = p[i])
        /\ \A i \in 1..Len(s) : w[Len(p) + i] = s[i]
    BY <1>0, ConcatTyped
  <1>2. Len(p) \in Nat /\ Len(s) \in Nat /\ Len(s) >= 1
    BY <1>0
  <1> HIDE DEF w
  <1>3. w # <<>> /\ \A k \in 1..Len(w) : w[k] \notin Separators
    <2>1. ASSUME NEW k \in 1..Len(w) PROVE w[k] \notin Separators
      <3>1. CASE k <= Len(p)
        BY <1>1, <1>2, <3>1 DEF Plain
      <3>2. CASE k > Len(p)
        <4>1. k - Len(p) \in 1..Len(s) /\ k = Len(p) + (k - Len(p))
          BY <1>1, <1>2, <3>2
        <4>2. w[k] = s[k - Len(p)]
          BY <1>1, <4>1
        <4> QED BY <4>1, <4>2 DEF Plain
      <3> QED BY <1>1, <1>2, <3>1, <3>2
    <2> QED BY <1>1, <1>2, <2>1
  <1>4. DOMAIN Segments(w) = {0} /\ Segments(w)[0] = w
    BY <1>1, <1>3, WholeSegment
  <1>5. DOMAIN Segments(s) = {0} /\ Segments(s)[0] = s
    BY <1>0, WholeSegment DEF Plain
  <1>6. w \in Lines /\ v \in Verdicts
    BY <1>0, <1>1, CommandLevels DEF Lines
  <1>7. ~FetchPipedToShell(Segments(s))
    BY <1>5 DEF FetchPipedToShell
  <1>8. ASSUME NEW u \in Substitutions(s) PROVE AtLeast(v, CommandLevel[n - 1][u])
    <2>1. Len(p) + 1 \in 1..(Len(w) + 1) /\ Len(w) \in 0..Len(w) /\ Len(p) + 1 <= Len(w) + 1
      BY <1>1, <1>2
    <2>2. SubSeq(w, Len(p) + 1, Len(w)) = s
      <3>1. From(w, Len(p) + 1) = From(s, 1)
        BY <1>0, <1>2, FromConcat DEF w
      <3>2. From(s, 1) = s
        BY <1>0 DEF From
      <3> QED BY <3>1, <3>2 DEF From
    <2>3. PICK i, j \in Nat : <<i, j>> \in Spans(w) /\ u = SubSeq(w, i + 1, j - 1)
      BY <1>1, <2>1, <2>2, BodyOfPart
    <2> QED BY <1>6, <2>3, NestedJudged DEF NestedJudges
  <1>9. ASSUME NEW i \in DOMAIN Segments(s) PROVE AtLeast(v, SegmentLevel[n][Segments(s)[i]])
    <2>1. i = 0 /\ Segments(s)[i] = s
      BY <1>5
    <2>2. AtLeast(v, SegmentLevel[n][w])
      BY <1>4, <1>6, CommandJudges
    <2>3. AtLeast(SegmentLevel[n][w], SegmentLevel[n][s])
      BY DEF w
    <2>4. SegmentLevel[n][w] \in Verdicts /\ SegmentLevel[n][s] \in Verdicts
      BY <1>0, <1>6, SegmentLevels
    <2> HIDE DEF v
    <2>5. AtLeast(v, SegmentLevel[n][s])
      BY <1>6, <2>2, <2>3, <2>4, AtLeastFacts
    <2> QED BY <2>1, <2>5
  <1> HIDE DEF v
  <1>10. AtLeast(v, CommandLevel[n][s])
    BY <1>6, <1>7, <1>8, <1>9, CommandMildest
  <1> QED BY <1>10 DEF v, w

\* Where the leading assignments and the options of a wrapper end, of a line behind
\* a prefix of them.
LEMMA AssignmentsEndAt ==
  ASSUME NEW S, NEW s \in Seq(S), NEW k \in 1..Len(s), k < Len(s) => s[k] \notin Assignments,
         \A i \in 1..(k - 1) : s[i] \in Assignments
  PROVE  SkipAssignments(s) = From(s, k)
  <1> DEFINE T == {i \in 1..Len(s) : i < Len(s) => s[i] \notin Assignments}
  <1>1. T \in SUBSET Nat /\ k \in T
    OBVIOUS
  <1>2. \A i \in T : k <= i
    OBVIOUS
  <1>3. Least(T) = k
    <2> HIDE DEF T
    <2> QED BY <1>1, <1>2, LeastOf
  <1> QED BY <1>3 DEF SkipAssignments

LEMMA OptionsEndAt ==
  ASSUME NEW S, NEW s \in Seq(S), NEW k \in 1..(Len(s) + 1), k <= Len(s) => ~IsWrapperOption(s[k]),
         \A i \in 1..(k - 1) : IsWrapperOption(s[i])
  PROVE  SkipOptions(s) = From(s, k)
  <1> DEFINE T == {i \in 1..(Len(s) + 1) : i <= Len(s) => ~IsWrapperOption(s[i])}
  <1>1. T \in SUBSET Nat /\ k \in T
    OBVIOUS
  <1>2. \A i \in T : k <= i
    OBVIOUS
  <1>3. Least(T) = k
    <2> HIDE DEF T
    <2> QED BY <1>1, <1>2, LeastOf
  <1> QED BY <1>3 DEF SkipOptions

LEMMA PrefixedOptions ==
  ASSUME NEW S, NEW p \in Seq(S), NEW s \in Seq(S), \A i \in 1..Len(p) : IsWrapperOption(p[i])
  PROVE  SkipOptions(p \o s) = SkipOptions(s)
  <1> DEFINE k == OptionsEnd(s)
             w == p \o s
  <1>1. /\ k \in 1..(Len(s) + 1) /\ (k <= Len(s) => ~IsWrapperOption(s[k]))
        /\ (\A i \in 1..(k - 1) : IsWrapperOption(s[i])) /\ SkipOptions(s) = From(s, k)
    BY OptionsEndIs
  <1>2. w \in Seq(S) /\ Len(w) = Len(p) + Len(s) /\ (\A i \in 1..Len(p) : w[i] = p[i])
        /\ (\A i \in 1..Len(s) : w[Len(p) + i] = s[i]) /\ Len(p) \in Nat /\ Len(s) \in Nat
    BY ConcatTyped
  <1> HIDE DEF k
  <1>3. From(w, Len(p) + k) = From(s, k)
    BY <1>1, FromConcat
  <1> HIDE DEF w
  <1>4. Len(p) + k \in 1..(Len(w) + 1)
    BY <1>1, <1>2
  <1>5. ASSUME Len(p) + k <= Len(w) PROVE ~IsWrapperOption(w[Len(p) + k])
    <2>1. k \in 1..Len(s)
      BY <1>1, <1>2, <1>5
    <2> QED BY <1>1, <1>2, <2>1
  <1>6. ASSUME NEW i \in 1..((Len(p) + k) - 1) PROVE IsWrapperOption(w[i])
    <2>1. CASE i <= Len(p)
      BY <1>2, <2>1
    <2>2. CASE i > Len(p)
      <3>1. i - Len(p) \in 1..(k - 1) /\ i - Len(p) \in 1..Len(s) /\ i = Len(p) + (i - Len(p))
        BY <1>1, <1>2, <2>2
      <3>2. w[i] = s[i - Len(p)]
        BY <1>2, <3>1
      <3> QED BY <1>1, <3>1, <3>2
    <2> QED BY <1>2, <2>1, <2>2
  <1>7. SkipOptions(w) = From(w, Len(p) + k)
    BY <1>2, <1>4, <1>5, <1>6, OptionsEndAt
  <1> QED BY <1>1, <1>3, <1>7 DEF w

\* The lists find no less in a segment that has the words they look for.
LEMMA ListedMore ==
  ASSUME NEW seg, NEW more, NEW s,
         Head(s) = "rm" /\ Recursive(seg) => Recursive(more),
         Head(s) = "git" /\ At(seg, {"--hard"}) # {} => At(more, {"--hard"}) # {},
         Head(s) \in Installers /\ At(Tail(seg), {"install"}) # {} => At(Tail(more), {"install"}) # {}
  PROVE  AtLeast(Listed(more, s), Listed(seg, s))
  <1>1. CASE Head(s) = "rm"
    BY <1>1 DEF Listed, AtLeast, Strictness
  <1>2. CASE Head(s) = "git"
    <2> DEFINE second == IF Len(s) > 1 THEN s[2] ELSE ""
               verdict(words) == IF second = "push" THEN "Deny"
                                 ELSE IF second = "reset" /\ At(words, {"--hard"}) # {} THEN "Hold" ELSE "Allow"
    <2>1. ASSUME NEW words PROVE Listed(words, s) = verdict(words)
      <3> DEFINE base == Head(s)
      <3>1. base = "git"
        BY <1>2
      <3> HIDE DEF base
      <3>2. base # "dd" /\ base # "rm" /\ base # "reboot" /\ base \notin Installers
        BY <3>1 DEF Installers
      <3>3. Listed(words, s) =
              CASE base = "dd" -> "Deny"
                [] base = "rm" -> IF Recursive(words) THEN "Deny" ELSE "Allow"
                [] base = "git" -> verdict(words)
                [] base = "reboot" -> "Hold"
                [] base \in Installers -> IF At(Tail(words), {"install"}) # {} THEN "Hold" ELSE "Allow"
                [] OTHER -> "Allow"
        BY Zenon DEF Listed, base
      <3> HIDE DEF verdict
      <3> QED BY <3>1, <3>2, <3>3
    <2>2. verdict(more) = "Deny" \/ verdict(more) = verdict(seg) \/ verdict(seg) = "Allow"
      BY <1>2
    <2>3. verdict(more) \in Verdicts /\ verdict(seg) \in Verdicts
      BY DEF Verdicts
    <2> HIDE DEF verdict
    <2> QED BY <2>1, <2>2, <2>3, AtLeastFacts
  <1>3. CASE Head(s) \in Installers
    BY <1>3 DEF Listed, AtLeast, Strictness, Installers
  <1>4. CASE Head(s) # "rm" /\ Head(s) # "git" /\ Head(s) \notin Installers
    <2>1. Listed(more, s) = Listed(seg, s)
      BY <1>4, Zenon DEF Listed
    <2>2. Listed(seg, s) \in Verdicts
      BY ListedTyped
    <2> QED BY <2>1, <2>2, AtLeastFacts
  <1> QED BY <1>1, <1>2, <1>3, <1>4

LEMMA WordAt ==
  ASSUME NEW s, NEW x
  PROVE  At(s, {x}) # {} <=> \E i \in 1..Len(s) : s[i] = x
  BY DEF At

LEMMA WordInTail ==
  ASSUME NEW S, NEW s \in Seq(S), s # <<>>, NEW x
  PROVE  At(Tail(s), {x}) # {} <=> \E i \in 2..Len(s) : s[i] = x
  <1> DEFINE t == Tail(s)
  <1>1. Len(s) \in Nat /\ Len(s) >= 1 /\ Len(t) = Len(s) - 1 /\ \A i \in 1..(Len(s) - 1) : t[i] = s[i + 1]
    OBVIOUS
  <1> HIDE DEF t
  <1>2. ASSUME NEW i \in 1..Len(t), t[i] = x PROVE \E k \in 2..Len(s) : s[k] = x
    <2>1. i + 1 \in 2..Len(s) /\ s[i + 1] = x
      BY <1>1, <1>2
    <2> QED BY <2>1
  <1>3. ASSUME NEW k \in 2..Len(s), s[k] = x PROVE \E i \in 1..Len(t) : t[i] = x
    <2>1. k - 1 \in 1..Len(t) /\ t[k - 1] = s[(k - 1) + 1] /\ (k - 1) + 1 = k
      BY <1>1
    <2> QED BY <1>3, <2>1
  <1>4. At(t, {x}) # {} <=> \E i \in 1..Len(t) : t[i] = x
    BY WordAt
  <1> QED BY <1>2, <1>3, <1>4 DEF t

\* All that the lists find in a segment they find in it behind a prefix.
LEMMA ListedBehind ==
  ASSUME NEW S, NEW p \in Seq(S), NEW seg \in Seq(S), p # <<>>, seg # <<>>, NEW s
  PROVE  AtLeast(Listed(p \o seg, s), Listed(seg, s))
  <1> DEFINE w == p \o seg
  <1>1. w \in Seq(S) /\ Len(w) = Len(p) + Len(seg) /\ (\A i \in 1..Len(seg) : w[Len(p) + i] = seg[i])
        /\ Len(p) \in Nat /\ Len(p) >= 1 /\ Len(seg) \in Nat /\ Len(seg) >= 1
    BY ConcatTyped
  <1> HIDE DEF w
  <1>2. ASSUME NEW x, NEW i \in 1..Len(seg), seg[i] = x PROVE At(w, {x}) # {} /\ At(Tail(w), {x}) # {}
    <2>1. Len(p) + i \in 1..Len(w) /\ Len(p) + i \in 2..Len(w) /\ w[Len(p) + i] = x
      BY <1>1, <1>2
    <2>2. w # <<>>
      BY <1>1
    <2>3. At(w, {x}) # {}
      BY <2>1, WordAt
    <2>4. At(Tail(w), {x}) # {}
      BY <1>1, <2>1, <2>2, WordInTail
    <2> QED BY <2>3, <2>4
  <1>3. ASSUME NEW x, At(Tail(seg), {x}) # {} PROVE At(Tail(w), {x}) # {}
    <2>1. PICK i \in 2..Len(seg) : seg[i] = x
      BY <1>3, WordInTail
    <2>2. i \in 1..Len(seg)
      BY <1>1
    <2> QED BY <1>2, <2>1, <2>2
  <1>4. ASSUME NEW x, At(seg, {x}) # {} PROVE At(w, {x}) # {}
    <2>1. PICK i \in 1..Len(seg) : seg[i] = x
      BY <1>4, WordAt
    <2> QED BY <1>2, <2>1
  <1>5. AtLeast(Listed(w, s), Listed(seg, s))
    BY <1>3, <1>4, ListedMore DEF Recursive
  <1> QED BY <1>5 DEF w

\* ... and all that they find in it they find in it from its program on.
LEMMA ListedFromProgram ==
  ASSUME NEW seg \in Lines, seg # <<>>
  PROVE  LET s == SkipAssignments(seg) IN AtLeast(Listed(s, s), Listed(seg, s))
  <1> DEFINE s == SkipAssignments(seg)
             k == AssignmentsEnd(seg)
  <1>0. seg \in Seq(AnyWord)
    BY DEF Lines
  <1>1. k \in 1..Len(seg) /\ (\A i \in 1..(k - 1) : seg[i] \in Assignments) /\ s = From(seg, k)
    BY <1>0, AssignmentsEndIs
  <1> HIDE DEF s, k
  <1>2. Len(seg) \in Nat /\ k \in 1..(Len(seg) + 1)
    BY <1>0, <1>1
  <1>3. From(seg, k) \in Seq(AnyWord) /\ Len(From(seg, k)) = Len(seg) - (k - 1)
        /\ \A i \in 1..(Len(seg) - (k - 1)) : From(seg, k)[i] = seg[i + (k - 1)]
    BY <1>0, <1>2, FromIs
  <1>4. s \in Seq(AnyWord) /\ Len(s) = Len(seg) - (k - 1) /\ \A i \in 1..(Len(seg) - (k - 1)) : s[i] = seg[i + (k - 1)]
    BY <1>1, <1>3
  <1>5. Len(s) >= 1 /\ s # <<>> /\ Head(s) = s[1] /\ s[1] = seg[k]
    <2>1. Len(s) >= 1 /\ 1 \in 1..(Len(seg) - (k - 1)) /\ 1 + (k - 1) = k
      BY <1>1, <1>2, <1>4
    <2>2. s # <<>> /\ Head(s) = s[1]
      BY <1>4, <2>1
    <2>3. s[1] = seg[1 + (k - 1)]
      BY <1>4, <2>1
    <2> QED BY <2>1, <2>2, <2>3
  <1>6. ASSUME NEW x, x \notin Assignments, NEW i \in 1..Len(seg), seg[i] = x, Head(s) # x
        PROVE  i - (k - 1) \in 2..Len(s) /\ s[i - (k - 1)] = x
    <2>1. i > k
      BY <1>1, <1>2, <1>5, <1>6
    <2>2. i - (k - 1) \in 2..Len(s) /\ i - (k - 1) \in 1..(Len(seg) - (k - 1)) /\ (i - (k - 1)) + (k - 1) = i
      BY <1>1, <1>2, <1>4, <2>1
    <2> QED BY <1>4, <1>6, <2>2
  <1>7. ASSUME NEW x, x \notin Assignments, Head(s) # x, At(Tail(seg), {x}) # {} PROVE At(Tail(s), {x}) # {}
    <2>1. PICK i \in 2..Len(seg) : seg[i] = x
      BY <1>0, <1>7, WordInTail
    <2>2. i \in 1..Len(seg)
      OBVIOUS
    <2>3. i - (k - 1) \in 2..Len(s) /\ s[i - (k - 1)] = x
      BY <1>6, <1>7, <2>1, <2>2
    <2> QED BY <1>4, <1>5, <2>3, WordInTail
  <1>8. ASSUME NEW x, x \notin Assignments, Head(s) # x, At(seg, {x}) # {} PROVE At(s, {x}) # {}
    <2>1. PICK i \in 1..Len(seg) : seg[i] = x
      BY <1>8, WordAt
    <2>2. i - (k - 1) \in 2..Len(s) /\ s[i - (k - 1)] = x
      BY <1>6, <1>8, <2>1
    <2>3. i - (k - 1) \in 1..Len(s)
      BY <2>2
    <2> QED BY <2>2, <2>3, WordAt
  <1>9. "-rf" \notin Assignments /\ "--hard" \notin Assignments /\ "install" \notin Assignments
    BY DEF Assignments
  <1>10. Head(s) = "rm" /\ Recursive(seg) => Recursive(s)
    BY <1>7, <1>9 DEF Recursive
  <1>11. Head(s) = "git" /\ At(seg, {"--hard"}) # {} => At(s, {"--hard"}) # {}
    BY <1>8, <1>9
  <1>12. Head(s) \in Installers /\ At(Tail(seg), {"install"}) # {} => At(Tail(s), {"install"}) # {}
    BY <1>7, <1>9 DEF Installers
  <1>13. AtLeast(Listed(s, s), Listed(seg, s))
    BY <1>10, <1>11, <1>12, ListedMore
  <1> QED BY <1>13 DEF s

\* A prefixed line, word by word.
LEMMA PrefixedIs ==
  ASSUME NEW p \in Lines, NEW s \in Lines, p # <<>>, s # <<>>
  PROVE  /\ p \o s \in Lines /\ p \o s # <<>> /\ Len(p \o s) = Len(p) + Len(s)
         /\ Len(p) \in Nat /\ Len(s) \in Nat /\ Len(p) >= 1 /\ Len(s) >= 1
         /\ (\A i \in 1..Len(p) : (p \o s)[i] = p[i]) /\ (\A i \in 1..Len(s) : (p \o s)[Len(p) + i] = s[i])
         /\ \A i \in 1..Len(p \o s) : i \in 1..Len(p) \/ \E k \in 1..Len(s) : i = Len(p) + k
         /\ Head(p \o s) = p[1]
  <1> DEFINE w == p \o s
  <1>1. p \in Seq(AnyWord) /\ s \in Seq(AnyWord)
    BY DEF Lines
  <1>2. w \in Seq(AnyWord) /\ Len(w) = Len(p) + Len(s) /\ (\A i \in 1..Len(p) : w[i] = p[i])
        /\ \A i \in 1..Len(s) : w[Len(p) + i] = s[i]
    BY <1>1, ConcatTyped
  <1>3. Len(p) \in Nat /\ Len(s) \in Nat /\ Len(p) >= 1 /\ Len(s) >= 1
    BY <1>1
  <1> HIDE DEF w
  <1>4. w # <<>> /\ Head(w) = w[1] /\ w[1] = p[1]
    <2>1. Len(w) >= 1 /\ 1 \in 1..Len(p)
      BY <1>2, <1>3
    <2> QED BY <1>2, <2>1
  <1>5. ASSUME NEW i \in 1..Len(w), i \notin 1..Len(p) PROVE \E k \in 1..Len(s) : i = Len(p) + k
    <2>1. i - Len(p) \in 1..Len(s) /\ i = Len(p) + (i - Len(p))
      BY <1>2, <1>3, <1>5
    <2> QED BY <2>1
  <1> QED BY <1>2, <1>3, <1>4, <1>5 DEF w, Lines

LEMMA HeadIs ==
  ASSUME NEW S, NEW s \in Seq(S), s # <<>>
  PROVE  Head(s) = s[1] /\ 1 \in 1..Len(s)
  OBVIOUS

\* What a segment of n levels is judged, by its program.
LEMMA SegmentJudged ==
  ASSUME NEW n \in 1..Levels, NEW seg \in Lines, seg # <<>>
  PROVE  LET s == SkipAssignments(seg)
             nested == NestedCommand(s)
         IN /\ SegmentLevel[n][seg] \in Verdicts
            /\ At(s, Elevators) # {} => SegmentLevel[n][seg] = "Deny"
            /\ At(s, Elevators) = {} /\ Head(s) \notin Interpreters /\ nested # <<>> =>
                 SegmentLevel[n][seg] = SegmentLevel[n - 1][nested]
            /\ At(s, Elevators) = {} /\ Head(s) \notin Interpreters /\ nested = <<>> =>
                 SegmentLevel[n][seg] = Listed(seg, s)
  <1>1. SegmentLevel[n][seg] = JudgedBy(SegmentLevel[n - 1], seg)
    BY SegmentLevels
  <1>2. SegmentLevel[n][seg] \in Verdicts
    BY SegmentLevels, LevelsNumber
  <1> QED BY <1>1, <1>2 DEF JudgedBy

LEMMA WordsTyped ==
  ASSUME NEW S, NEW x \in S, NEW y \in S
  PROVE  /\ <<x>> \in Seq(S) /\ Len(<<x>>) = 1 /\ <<x>>[1] = x /\ <<x>> # <<>>
         /\ <<x, y>> \in Seq(S) /\ Len(<<x, y>>) = 2 /\ <<x, y>>[1] = x /\ <<x, y>>[2] = y /\ <<x, y>> # <<>>
  OBVIOUS

\* An assignment in front of a command leaves its verdict.
LEMMA AssignedJudged ==
  ASSUME NEW s \in Lines, s # <<>>, NEW n \in 1..Levels
  PROVE  AtLeast(SegmentLevel[n][<<"A=1">> \o s], SegmentLevel[n][s])
  <1> DEFINE p == <<"A=1">>
             w == p \o s
             k == AssignmentsEnd(s)
  <1>0. p \in Lines /\ p # <<>> /\ Len(p) = 1 /\ p[1] \in Assignments /\ s \in Seq(AnyWord) /\ p \in Seq(AnyWord)
    <2>1. p \in Seq(AnyWord) /\ Len(p) = 1 /\ p[1] = "A=1" /\ p # <<>>
      <3>1. "A=1" \in AnyWord
        BY DEF AnyWord, Assignments
      <3> QED BY <3>1, WordsTyped, Zenon
    <2> HIDE DEF p
    <2> QED BY <2>1 DEF Lines, Assignments
  <1> HIDE DEF p
  <1>1. /\ w \in Lines /\ w \in Seq(AnyWord) /\ w # <<>> /\ Len(w) = 1 + Len(s) /\ Len(s) \in Nat
        /\ w[1] \in Assignments /\ \A i \in 1..Len(s) : w[1 + i] = s[i]
    <2>1. /\ w \in Lines /\ w # <<>> /\ Len(w) = Len(p) + Len(s) /\ Len(s) \in Nat
          /\ (\A i \in 1..Len(p) : w[i] = p[i]) /\ (\A i \in 1..Len(s) : w[Len(p) + i] = s[i])
      BY <1>0, PrefixedIs
    <2> HIDE DEF w
    <2> QED BY <1>0, <2>1 DEF Lines
  <1>2. /\ k \in 1..Len(s) /\ (k < Len(s) => s[k] \notin Assignments)
        /\ (\A i \in 1..(k - 1) : s[i] \in Assignments) /\ SkipAssignments(s) = From(s, k)
    BY <1>0, AssignmentsEndIs
  <1> HIDE DEF k
  <1>3. From(w, 1 + k) = From(s, k)
    <2>1. k \in 1..(Len(s) + 1)
      BY <1>2
    <2>2. From(w, Len(p) + k) = From(s, k)
      BY <1>0, <2>1, FromConcat
    <2> HIDE DEF w
    <2> QED BY <1>0, <2>2
  <1>4. SkipAssignments(w) = SkipAssignments(s)
    <2> HIDE DEF w
    <2>1. 1 + k \in 1..Len(w)
      BY <1>1, <1>2
    <2>2. ASSUME 1 + k < Len(w) PROVE w[1 + k] \notin Assignments
      BY <1>1, <1>2, <2>2
    <2>3. ASSUME NEW i \in 1..((1 + k) - 1) PROVE w[i] \in Assignments
      <3>1. CASE i = 1
        BY <1>1, <3>1
      <3>2. CASE i # 1
        <4>1. i - 1 \in 1..(k - 1) /\ i - 1 \in 1..Len(s) /\ 1 + (i - 1) = i
          BY <1>2, <3>2
        <4> QED BY <1>1, <1>2, <4>1
      <3> QED BY <3>1, <3>2
    <2>4. SkipAssignments(w) = From(w, 1 + k)
      BY <1>1, <2>1, <2>2, <2>3, AssignmentsEndAt
    <2> QED BY <1>2, <1>3, <2>4
  <1>5. AtLeast(Listed(w, SkipAssignments(s)), Listed(s, SkipAssignments(s)))
    BY <1>0, ListedBehind
  <1> HIDE DEF w
  <1>6. SegmentLevel[n][w] = JudgedBy(SegmentLevel[n - 1], w) /\ SegmentLevel[n][s] = JudgedBy(SegmentLevel[n - 1], s)
    BY <1>1, SegmentLevels
  <1>7. SegmentLevel[n][s] \in Verdicts
    BY SegmentJudged
  <1>8. SegmentLevel[n][w] = SegmentLevel[n][s]
        \/ (SegmentLevel[n][w] = Listed(w, SkipAssignments(s)) /\ SegmentLevel[n][s] = Listed(s, SkipAssignments(s)))
    BY <1>4, <1>6 DEF JudgedBy
  <1>9. AtLeast(SegmentLevel[n][w], SegmentLevel[n][s])
    BY <1>5, <1>7, <1>8, AtLeastFacts
  <1> QED BY <1>9 DEF w, p

\* A command in front of another one, no assignment itself, is the program.
LEMMA ProgramFirst ==
  ASSUME NEW S, NEW s \in Seq(S), s # <<>>, s[1] \notin Assignments
  PROVE  SkipAssignments(s) = s
  <1>1. 1 \in 1..Len(s) /\ \A i \in 1..(1 - 1) : s[i] \in Assignments
    BY HeadIs
  <1>2. SkipAssignments(s) = From(s, 1)
    BY <1>1, AssignmentsEndAt
  <1> QED BY <1>2 DEF From

\* A command given to a shell.
LEMMA ShellJudged ==
  ASSUME NEW s \in Lines, s # <<>>, At(s, ExecFlags) = {}, NEW n \in 1..Levels
  PROVE  AtLeast(SegmentLevel[n][<<"sh", "-c">> \o s], SegmentLevel[n][s])
  <1> DEFINE p == <<"sh", "-c">>
             w == p \o s
  <1>0. p \in Lines /\ p # <<>> /\ Len(p) = 2 /\ p[1] = "sh" /\ p[2] = "-c" /\ s \in Seq(AnyWord) /\ p \in Seq(AnyWord)
    <2>1. p \in Seq(AnyWord) /\ Len(p) = 2 /\ p[1] = "sh" /\ p[2] = "-c" /\ p # <<>>
      <3>1. "sh" \in AnyWord /\ "-c" \in AnyWord
        BY DEF AnyWord, Shells, Options
      <3> QED BY <3>1, WordsTyped, Zenon
    <2> HIDE DEF p
    <2> QED BY <2>1 DEF Lines
  <1> HIDE DEF p
  <1>1. /\ w \in Lines /\ w \in Seq(AnyWord) /\ w # <<>> /\ Len(w) = 2 + Len(s) /\ Len(s) \in Nat /\ Len(s) >= 1
        /\ w[1] = "sh" /\ w[2] = "-c" /\ Head(w) = "sh"
        /\ \A i \in 1..Len(w) : i \in 1..2 \/ \E k \in 1..Len(s) : i = 2 + k /\ w[i] = s[k]
    <2>1. /\ w \in Lines /\ w # <<>> /\ Len(w) = Len(p) + Len(s) /\ Len(s) \in Nat /\ Len(s) >= 1
          /\ (\A i \in 1..Len(p) : w[i] = p[i]) /\ (\A i \in 1..Len(s) : w[Len(p) + i] = s[i])
          /\ (\A i \in 1..Len(w) : i \in 1..Len(p) \/ \E k \in 1..Len(s) : i = Len(p) + k)
          /\ Head(w) = p[1]
      BY <1>0, PrefixedIs
    <2> HIDE DEF w
    <2> QED BY <1>0, <2>1 DEF Lines
  <1>2. From(w, 3) = s
    <2>1. From(w, 2 + 1) = From(s, 1)
      <3>1. 1 \in 1..(Len(s) + 1)
        BY <1>1
      <3>2. From(w, Len(p) + 1) = From(s, 1)
        BY <1>0, <3>1, FromConcat
      <3> HIDE DEF w
      <3> QED BY <1>0, <3>2
    <2>2. From(s, 1) = s
      BY <1>0 DEF From
    <2> HIDE DEF w
    <2> QED BY <2>1, <2>2
  <1> HIDE DEF w
  <1>3. SkipAssignments(w) = w
    BY <1>1, ProgramFirst DEF Assignments
  <1>4. At(w, ExecFlags) = {}
    <2>1. ASSUME NEW i \in 1..Len(w), w[i] \in ExecFlags PROVE FALSE
      <3>1. CASE i \in 1..2
        BY <1>1, <2>1, <3>1 DEF ExecFlags
      <3>2. CASE \E k \in 1..Len(s) : i = 2 + k /\ w[i] = s[k]
        BY <2>1, <3>2 DEF At
      <3> QED BY <1>1, <3>1, <3>2
    <2> QED BY <2>1 DEF At
  <1>5. NestedCommand(w) = s
    <2> DEFINE flag == At(w, CommandFlags)
    <2>1. flag \in SUBSET Nat /\ 2 \in flag /\ \A i \in flag : 2 <= i
      <3>1. 2 \in flag /\ 1 \notin flag
        BY <1>1 DEF At, CommandFlags
      <3>2. flag \in SUBSET Nat /\ \A i \in flag : i >= 1
        BY DEF At
      <3> HIDE DEF flag
      <3> QED BY <3>1, <3>2
    <2> HIDE DEF flag
    <2>2. flag # {} /\ Least(flag) = 2
      BY <2>1, LeastOf
    <2>3. Head(w) \in Shells
      BY <1>1 DEF Shells
    <2>4. NestedCommand(w) = From(w, Least(flag) + 1)
      BY <1>4, <2>2, <2>3 DEF NestedCommand, flag
    <2>5. Least(flag) + 1 = 3
      BY <2>2
    <2> QED BY <1>2, <2>4, <2>5
  <1>6. Head(w) \notin Interpreters
    BY <1>1 DEF Interpreters
  <1>7. CASE At(w, Elevators) # {}
    <2>1. SegmentLevel[n][w] = "Deny" /\ SegmentLevel[n][s] \in Verdicts
      BY <1>1, <1>3, <1>7, SegmentJudged
    <2> QED BY <2>1, AtLeastFacts DEF w, p
  <1>8. CASE At(w, Elevators) = {}
    <2>1. SegmentLevel[n][w] = SegmentLevel[n - 1][s]
      BY <1>1, <1>3, <1>5, <1>6, <1>8, SegmentJudged
    <2> QED BY <2>1, SegmentMilder DEF w, p
  <1> QED BY <1>7, <1>8

\* A command behind a wrapper and what the wrapper takes for itself.
LEMMA WrappedJudged ==
  ASSUME NEW p \in Lines, p # <<>>, p[1] \in Wrappers,
         \A i \in 2..Len(p) : IsWrapperOption(p[i]) /\ p[i] \notin ExecFlags,
         NEW s \in Lines, s # <<>>, At(s, ExecFlags) = {}, NEW n \in 1..Levels
  PROVE  AtLeast(SegmentLevel[n][p \o s], SegmentLevel[n][s])
  <1> DEFINE w == p \o s
             k == AssignmentsEnd(s)
             prog == SkipAssignments(s)
             o == SkipOptions(s)
  <1>0. s \in Seq(AnyWord) /\ p \in Seq(AnyWord)
    BY DEF Lines
  <1>1. /\ w \in Lines /\ w \in Seq(AnyWord) /\ w # <<>> /\ Head(w) = p[1] /\ w[1] = p[1]
        /\ Len(p) \in Nat /\ Len(p) >= 1 /\ Len(s) \in Nat /\ Len(s) >= 1 /\ Len(w) = Len(p) + Len(s)
        /\ (\A i \in 1..Len(p) : w[i] = p[i]) /\ (\A i \in 1..Len(s) : w[Len(p) + i] = s[i])
        /\ \A i \in 1..Len(w) : i \in 1..Len(p) \/ \E m \in 1..Len(s) : i = Len(p) + m
    BY <1>0, PrefixedIs DEF Lines
  <1>2. Tail(w) = Tail(p) \o s
    BY <1>0, <1>1
  <1>3. SkipOptions(Tail(w)) = o
    <2>1. Tail(p) \in Seq(AnyWord) /\ \A i \in 1..Len(Tail(p)) : IsWrapperOption(Tail(p)[i])
      <3> DEFINE t == Tail(p)
      <3>1. t \in Seq(AnyWord) /\ Len(t) = Len(p) - 1 /\ \A i \in 1..(Len(p) - 1) : t[i] = p[i + 1]
        BY <1>0
      <3> HIDE DEF t
      <3>2. ASSUME NEW i \in 1..Len(t) PROVE IsWrapperOption(t[i])
        <4>1. i + 1 \in 2..Len(p) /\ t[i] = p[i + 1]
          BY <1>1, <3>1
        <4> QED BY <4>1
      <3> QED BY <3>1, <3>2 DEF t
    <2>2. SkipOptions(Tail(p) \o s) = SkipOptions(s)
      BY <1>0, <2>1, PrefixedOptions
    <2> QED BY <1>2, <2>2
  <1> HIDE DEF w, k, prog, o
  <1>4. SkipAssignments(w) = w
    <2>1. w[1] \notin Assignments
      BY <1>1 DEF Wrappers, Assignments
    <2> QED BY <1>1, <2>1, ProgramFirst
  <1>5. At(w, ExecFlags) = {}
    <2>1. ASSUME NEW i \in 1..Len(w), w[i] \in ExecFlags PROVE FALSE
      <3>1. CASE i \in 1..Len(p)
        <4>1. w[i] = p[i]
          BY <1>1, <3>1
        <4>2. i = 1
          BY <1>1, <2>1, <3>1, <4>1
        <4> QED BY <2>1, <4>1, <4>2 DEF Wrappers, ExecFlags
      <3>2. CASE \E m \in 1..Len(s) : i = Len(p) + m
        <4>1. PICK m \in 1..Len(s) : i = Len(p) + m
          BY <3>2
        <4>2. s[m] \in ExecFlags
          BY <1>1, <2>1, <4>1
        <4> QED BY <4>2 DEF At
      <3> QED BY <1>1, <3>1, <3>2
    <2> QED BY <2>1 DEF At
  <1>6. NestedCommand(w) = o /\ Head(w) \notin Interpreters
    <2>1. Head(w) \in Wrappers /\ Head(w) \notin Shells /\ Head(w) \notin Interpreters
      BY <1>1 DEF Wrappers, Shells, Interpreters
    <2>2. NestedCommand(w) = SkipOptions(Tail(w))
      BY <1>5, <2>1 DEF NestedCommand
    <2> QED BY <1>3, <2>1, <2>2
  <1>7. /\ k \in 1..Len(s) /\ (k < Len(s) => s[k] \notin Assignments)
        /\ (\A i \in 1..(k - 1) : s[i] \in Assignments) /\ prog = From(s, k)
    BY <1>0, AssignmentsEndIs DEF k, prog
  <1>8. /\ prog \in Seq(AnyWord) /\ prog \in Lines /\ Len(prog) = Len(s) - (k - 1) /\ prog # <<>> /\ Head(prog) = s[k]
        /\ \A i \in 1..Len(prog) : prog[i] = s[i + (k - 1)] /\ i + (k - 1) \in 1..Len(s)
    <2>1. k \in 1..(Len(s) + 1)
      BY <1>1, <1>7
    <2>2. prog \in Seq(AnyWord) /\ Len(prog) = Len(s) - (k - 1) /\ \A i \in 1..(Len(s) - (k - 1)) : prog[i] = s[i + (k - 1)]
      BY <1>0, <1>7, <2>1, FromIs
    <2>3. Len(prog) >= 1 /\ 1 \in 1..(Len(s) - (k - 1)) /\ 1 + (k - 1) = k
      BY <1>1, <1>7, <2>2
    <2>4. prog # <<>> /\ Head(prog) = prog[1]
      BY <2>2, <2>3
    <2>5. ASSUME NEW i \in 1..Len(prog) PROVE i + (k - 1) \in 1..Len(s)
      BY <1>1, <1>7, <2>2
    <2> QED BY <2>2, <2>3, <2>4, <2>5 DEF Lines
  <1>9. ASSUME NEW x, At(prog, x) # {} PROVE \E m \in 1..Len(s) : s[m] \in x
    <2>1. PICK i \in 1..Len(prog) : prog[i] \in x
      BY <1>9 DEF At
    <2> QED BY <1>8, <2>1
  <1>10. SegmentLevel[n][w] \in Verdicts /\ SegmentLevel[n][s] \in Verdicts
    BY <1>1, SegmentJudged
  <1>11. CASE At(w, Elevators) # {}
    <2>1. SegmentLevel[n][w] = "Deny"
      BY <1>1, <1>4, <1>11, SegmentJudged
    <2> QED BY <1>10, <2>1, AtLeastFacts DEF w
  <1>12. CASE At(w, Elevators) = {}
    <2>1. At(prog, Elevators) = {}
      <3>1. ASSUME NEW m \in 1..Len(s), s[m] \in Elevators PROVE FALSE
        <4>1. Len(p) + m \in 1..Len(w) /\ w[Len(p) + m] \in Elevators
          BY <1>1, <3>1
        <4> QED BY <1>12, <4>1 DEF At
      <3> QED BY <1>9, <3>1
    <2>2. At(prog, ExecFlags) = {}
      <3>1. ASSUME NEW m \in 1..Len(s), s[m] \in ExecFlags PROVE FALSE
        BY <3>1 DEF At
      <3> QED BY <1>9, <3>1
    <2>3. CASE IsWrapperOption(s[k])
      <3>1. Head(prog) \in Options \cup Assignments \cup Numbers
        BY <1>8, <2>3 DEF IsWrapperOption
      <3>2. Head(prog) \notin Interpreters /\ Head(prog) \notin Shells /\ Head(prog) \notin Wrappers
        BY <3>1 DEF Options, Assignments, Numbers, Interpreters, Shells, Wrappers
      <3>3. NestedCommand(prog) = <<>>
        BY <2>2, <3>2 DEF NestedCommand
      <3>4. SegmentLevel[n][s] = Listed(s, prog)
        BY <2>1, <3>2, <3>3, SegmentJudged DEF prog
      <3>5. Listed(s, prog) = "Allow"
        <4> DEFINE base == Head(prog)
        <4>1. base # "dd" /\ base # "rm" /\ base # "git" /\ base # "reboot" /\ base \notin Installers
          BY <3>1 DEF Options, Assignments, Numbers, Installers
        <4> QED BY <4>1, Zenon DEF Listed
      <3> QED BY <1>10, <3>4, <3>5, AtLeastFacts DEF w
    <2>4. CASE ~IsWrapperOption(s[k])
      <3>1. o = prog
        <4>1. \A i \in 1..(k - 1) : IsWrapperOption(s[i])
          BY <1>7 DEF IsWrapperOption
        <4>2. k \in 1..(Len(s) + 1)
          BY <1>1, <1>7
        <4>3. SkipOptions(s) = From(s, k)
          BY <1>0, <2>4, <4>1, <4>2, OptionsEndAt
        <4> QED BY <1>7, <4>3 DEF o
      <3>2. SegmentLevel[n][w] = SegmentLevel[n - 1][prog]
        <4>1. NestedCommand(w) = prog /\ prog # <<>> /\ Head(w) \notin Interpreters
          BY <1>6, <1>8, <3>1
        <4> QED BY <1>1, <1>4, <1>12, <4>1, SegmentJudged, Zenon
      <3>3. AtLeast(SegmentLevel[n - 1][prog], SegmentLevel[n][prog])
        BY <1>8, SegmentMilder
      <3>4. SkipAssignments(prog) = prog
        <4>1. prog[1] \notin Assignments
          <5>1. prog[1] = s[k]
            BY <1>8, HeadIs
          <5> QED BY <2>4, <5>1 DEF IsWrapperOption
        <4> QED BY <1>8, <4>1, ProgramFirst
      <3>5. AtLeast(Listed(prog, prog), Listed(s, prog))
        BY ListedFromProgram DEF prog
      <3>6. SegmentLevel[n][prog] \in Verdicts
        BY <1>8, SegmentJudged
      <3>7. /\ SegmentLevel[n][prog] = JudgedBy(SegmentLevel[n - 1], prog)
            /\ SegmentLevel[n][s] = JudgedBy(SegmentLevel[n - 1], s)
        BY <1>8, SegmentLevels
      <3>8. SegmentLevel[n][prog] = SegmentLevel[n][s]
            \/ (SegmentLevel[n][prog] = Listed(prog, prog) /\ SegmentLevel[n][s] = Listed(s, prog))
        BY <3>4, <3>7 DEF JudgedBy, prog
      <3>9. AtLeast(SegmentLevel[n][prog], SegmentLevel[n][s])
        BY <1>10, <3>5, <3>8, AtLeastFacts
      <3>10. AtLeast(SegmentLevel[n][w], SegmentLevel[n][s])
        BY <1>10, <3>2, <3>3, <3>6, <3>9, AtLeastFacts
      <3> QED BY <3>10 DEF w
    <2> QED BY <2>3, <2>4
  <1> QED BY <1>11, <1>12

LEMMA SurroundedIs ==
  ASSUME NEW S, NEW a \in Seq(S), NEW b \in Seq(S), NEW c \in Seq(S)
  PROVE  /\ (a \o b) \o c \in Seq(S) /\ Len((a \o b) \o c) = (Len(a) + Len(b)) + Len(c)
         /\ \A i \in 1..Len(a) : ((a \o b) \o c)[i] = a[i]
         /\ \A i \in 1..Len(b) : ((a \o b) \o c)[Len(a) + i] = b[i]
         /\ \A i \in 1..Len(c) : ((a \o b) \o c)[(Len(a) + Len(b)) + i] = c[i]
  <1>1. PICK q : q = a \o b
    OBVIOUS
  <1>2. q \in Seq(S) /\ Len(q) = Len(a) + Len(b) /\ (\A i \in 1..Len(a) : q[i] = a[i])
        /\ (\A i \in 1..Len(b) : q[Len(a) + i] = b[i])
    BY <1>1, ConcatTyped
  <1>3. q \o c \in Seq(S) /\ Len(q \o c) = Len(q) + Len(c) /\ (\A i \in 1..Len(q) : (q \o c)[i] = q[i])
        /\ (\A i \in 1..Len(c) : (q \o c)[Len(q) + i] = c[i])
    <2>1. q \in Seq(S)
      BY <1>2
    <2> QED BY <2>1, ConcatTyped
  <1>4. Len(a) \in Nat /\ Len(b) \in Nat /\ (\A i \in 1..Len(a) : i \in 1..Len(q)) /\ \A i \in 1..Len(b) : Len(a) + i \in 1..Len(q)
    BY <1>2
  <1> QED BY <1>1, <1>2, <1>3, <1>4

\* A command substituted into another one.
LEMMA SubstitutedJudged ==
  ASSUME NEW s \in Lines, At(s, {"$(", ")"}) = {}, NEW n \in 1..Levels
  PROVE  AtLeast(CommandLevel[n][<<"echo", "$(">> \o s \o <<")">>], CommandLevel[n][s])
  <1> DEFINE p == <<"echo", "$(">>
             e == <<")">>
             w == (p \o s) \o e
             L == Len(s)
  <1>1. s \in Seq(AnyWord) /\ L \in Nat
    BY DEF Lines
  <1>2. p \in Seq(AnyWord) /\ Len(p) = 2 /\ p[1] = "echo" /\ p[2] = "$(" /\ e \in Seq(AnyWord) /\ Len(e) = 1 /\ e[1] = ")"
    <2>1. "echo" \in AnyWord /\ "$(" \in AnyWord /\ ")" \in AnyWord
      BY DEF AnyWord
    <2> QED BY <2>1, WordsTyped, Zenon
  <1> HIDE DEF p, e, L
  <1>3. /\ w \in Seq(AnyWord) /\ Len(w) = L + 3 /\ w[1] = "echo" /\ w[2] = "$(" /\ w[L + 3] = ")"
        /\ \A k \in 1..L : w[2 + k] = s[k]
    <2>1. /\ w \in Seq(AnyWord) /\ Len(w) = (Len(p) + Len(s)) + Len(e) /\ (\A i \in 1..Len(p) : w[i] = p[i])
          /\ (\A i \in 1..Len(s) : w[Len(p) + i] = s[i]) /\ \A i \in 1..Len(e) : w[(Len(p) + Len(s)) + i] = e[i]
      <3>1. p \in Seq(AnyWord) /\ s \in Seq(AnyWord) /\ e \in Seq(AnyWord)
        BY <1>1, <1>2
      <3> QED BY <3>1, SurroundedIs
    <2> HIDE DEF w
    <2>2. 1 \in 1..Len(p) /\ 2 \in 1..Len(p) /\ 1 \in 1..Len(e) /\ (Len(p) + Len(s)) + 1 = L + 3 /\ Len(w) = L + 3
      BY <1>1, <1>2, <2>1 DEF L
    <2>3. w[1] = "echo" /\ w[2] = "$("
      BY <1>2, <2>1, <2>2
    <2>4. w[L + 3] = ")"
      BY <1>2, <2>1, <2>2
    <2>5. \A k \in 1..L : w[2 + k] = s[k]
      BY <1>2, <2>1 DEF L
    <2> QED BY <2>1, <2>2, <2>3, <2>4, <2>5
  <1> HIDE DEF w
  <1>4. ASSUME NEW k \in 2..(L + 3) PROVE (w[k] = "$(" <=> k = 2) /\ (w[k] = ")" <=> k = L + 3)
    <2>1. CASE k = 2 \/ k = L + 3
      BY <1>1, <1>3, <2>1
    <2>2. CASE k # 2 /\ k # L + 3
      <3>1. k - 2 \in 1..L /\ 2 + (k - 2) = k
        BY <1>1, <2>2
      <3>2. w[k] = s[k - 2] /\ k - 2 \in 1..Len(s)
        BY <1>3, <3>1 DEF L
      <3>3. s[k - 2] # "$(" /\ s[k - 2] # ")"
        BY <3>2 DEF At
      <3> QED BY <2>2, <3>2, <3>3
    <2> QED BY <2>1, <2>2
  <1>5. Closes(w, 2) = {L + 3}
    <2>1. Depth(w, 2, L + 3) = 0
      <3>1. {k \in 2..(L + 3) : w[k] = "$("} = {2} /\ {k \in 2..(L + 3) : w[k] = ")"} = {L + 3}
        BY <1>1, <1>4
      <3>2. Cardinality({2}) = 1 /\ Cardinality({L + 3}) = 1
        BY FS_Singleton
      <3>3. Depth(w, 2, L + 3) = 1 - 1
        BY <3>1, <3>2 DEF Depth
      <3> QED BY <3>3
    <2>2. L + 3 \in Closes(w, 2)
      BY <1>1, <1>3, <2>1 DEF Closes
    <2>3. ASSUME NEW k \in Closes(w, 2) PROVE k = L + 3
      BY <1>3, <1>4 DEF Closes
    <2> QED BY <2>2, <2>3
  <1>6. <<2, L + 3>> \in Spans(w)
    <2>1. 2 \in 1..Len(w) /\ w[2] = "$(" /\ L + 3 \in Closes(w, 2) /\ \A k \in Closes(w, 2) : L + 3 <= k
      BY <1>1, <1>3, <1>5
    <2> QED BY <1>3, <2>1, SpanIs
  <1>7. SubSeq(w, 2 + 1, (L + 3) - 1) = s
    <2> DEFINE body == SubSeq(w, 3, L + 2)
    <2>1. 3 \in 1..(Len(w) + 1) /\ L + 2 \in 0..Len(w) /\ 3 <= (L + 2) + 1 /\ (L + 2) - (3 - 1) = L
      BY <1>1, <1>3
    <2>2. body \in Seq(AnyWord) /\ Len(body) = (L + 2) - (3 - 1) /\ \A k \in 1..((L + 2) - (3 - 1)) : body[k] = w[k + (3 - 1)]
      BY <1>3, <2>1, PartIs
    <2> HIDE DEF body
    <2>3. Len(body) = Len(s)
      BY <2>1, <2>2 DEF L
    <2>4. \A k \in 1..Len(body) : body[k] = s[k]
      BY <1>1, <1>3, <2>1, <2>2
    <2>5. body = s
      BY <1>1, <2>2, <2>3, <2>4, SameSequence
    <2>6. 2 + 1 = 3 /\ (L + 3) - 1 = L + 2
      BY <1>1
    <2> QED BY <2>5, <2>6 DEF body
  <1>8. w \in Lines /\ n - 1 \in 0..Levels /\ n \in 0..Levels
    BY <1>3, LevelsNumber DEF Lines
  <1>9. AtLeast(CommandLevel[n][w], CommandLevel[n - 1][s])
    <2>1. NestedJudges(w)
      BY <1>8, NestedJudged
    <2>2. 2 \in Nat /\ L + 3 \in Nat
      BY <1>1
    <2>3. AtLeast(CommandLevel[n][w], CommandLevel[n - 1][SubSeq(w, 2 + 1, (L + 3) - 1)])
      BY <1>6, <2>1, <2>2 DEF NestedJudges
    <2> QED BY <1>7, <2>3
  <1>10. AtLeast(CommandLevel[n - 1][s], CommandLevel[n][s])
    BY CommandMilder
  <1>11. CommandLevel[n][w] \in Verdicts /\ CommandLevel[n - 1][s] \in Verdicts /\ CommandLevel[n][s] \in Verdicts
    BY <1>8, CommandLevels
  <1>12. AtLeast(CommandLevel[n][w], CommandLevel[n][s])
    BY <1>9, <1>10, <1>11, AtLeastFacts
  <1> QED BY <1>12 DEF w, p, e

\* One command behind any of the prefixes.
LEMMA PrefixesJudged ==
  ASSUME NEW s \in Lines, s # <<>>, At(s, Separators \cup ExecFlags) = {},
         NEW p \in {<<"A=1">>, <<"sh", "-c">>, <<"timeout", "5">>} \cup {<<w>> : w \in Wrappers}
  PROVE  AtLeast(LineVerdict(p \o s), LineVerdict(s))
  <1>1. Plain(s) /\ At(s, ExecFlags) = {}
    BY DEF Plain, At
  <1>2. Levels \in 1..Levels /\ \A t : LineVerdict(t) = CommandLevel[Levels][t]
    BY LevelsNumber DEF LineVerdict, Levels
  <1>3. ASSUME p \in Lines, Plain(p), AtLeast(SegmentLevel[Levels][p \o s], SegmentLevel[Levels][s])
        PROVE  AtLeast(LineVerdict(p \o s), LineVerdict(s))
    BY <1>1, <1>2, <1>3, PrefixJudged
  <1>4. CASE p = <<"A=1">>
    <2>1. "A=1" \in AnyWord /\ "A=1" \notin Separators
      BY DEF AnyWord, Assignments, Separators
    <2>2. p \in Seq(AnyWord) /\ Len(p) = 1 /\ p[1] = "A=1"
      BY <1>4, <2>1, WordsTyped, Zenon
    <2>3. p \in Lines /\ Plain(p)
      BY <2>1, <2>2 DEF Lines, Plain
    <2>4. AtLeast(SegmentLevel[Levels][p \o s], SegmentLevel[Levels][s])
      BY <1>2, <1>4, AssignedJudged
    <2> QED BY <1>3, <2>3, <2>4
  <1>5. CASE p = <<"sh", "-c">>
    <2>1. "sh" \in AnyWord /\ "-c" \in AnyWord /\ "sh" \notin Separators /\ "-c" \notin Separators
      BY DEF AnyWord, Shells, Options, Separators
    <2>2. p \in Seq(AnyWord) /\ Len(p) = 2 /\ p[1] = "sh" /\ p[2] = "-c"
      BY <1>5, <2>1, WordsTyped, Zenon
    <2>3. p \in Lines /\ Plain(p)
      BY <2>1, <2>2 DEF Lines, Plain
    <2>4. AtLeast(SegmentLevel[Levels][p \o s], SegmentLevel[Levels][s])
      BY <1>1, <1>2, <1>5, ShellJudged
    <2> QED BY <1>3, <2>3, <2>4
  <1>6. CASE p = <<"timeout", "5">>
    <2>1. "timeout" \in AnyWord /\ "5" \in AnyWord /\ "timeout" \notin Separators /\ "5" \notin Separators
          /\ "timeout" \in Wrappers /\ IsWrapperOption("5") /\ "5" \notin ExecFlags
      BY DEF AnyWord, Wrappers, Numbers, Separators, IsWrapperOption, ExecFlags
    <2>2. p \in Seq(AnyWord) /\ Len(p) = 2 /\ p[1] = "timeout" /\ p[2] = "5" /\ p # <<>>
      BY <1>6, <2>1, WordsTyped, Zenon
    <2>3. p \in Lines /\ Plain(p) /\ p[1] \in Wrappers /\ \A i \in 2..Len(p) : IsWrapperOption(p[i]) /\ p[i] \notin ExecFlags
      BY <2>1, <2>2 DEF Lines, Plain
    <2>4. AtLeast(SegmentLevel[Levels][p \o s], SegmentLevel[Levels][s])
      BY <1>1, <1>2, <2>2, <2>3, WrappedJudged
    <2> QED BY <1>3, <2>3, <2>4
  <1>7. ASSUME NEW w \in Wrappers, p = <<w>> PROVE AtLeast(LineVerdict(p \o s), LineVerdict(s))
    <2>1. w \in AnyWord /\ w \notin Separators
      BY DEF AnyWord, Wrappers, Separators
    <2>2. p \in Seq(AnyWord) /\ Len(p) = 1 /\ p[1] = w /\ p # <<>>
      BY <1>7, <2>1, WordsTyped, Zenon
    <2>3. p \in Lines /\ Plain(p) /\ p[1] \in Wrappers /\ \A i \in 2..Len(p) : IsWrapperOption(p[i]) /\ p[i] \notin ExecFlags
      BY <2>1, <2>2 DEF Lines, Plain
    <2>4. AtLeast(SegmentLevel[Levels][p \o s], SegmentLevel[Levels][s])
      BY <1>1, <1>2, <2>2, <2>3, WrappedJudged
    <2> QED BY <1>3, <2>3, <2>4
  <1> QED BY <1>4, <1>5, <1>6, <1>7

LineTyped == line \in Seq(Word)

\* Whatever stands in a line is judged in it (lib.rs, Verdict::command_nested): a
\* command is held or denied no less because of what it is joined with, given to,
\* substituted into or prefixed with, for lines of every length.
THEOREM EachPartDecides == CommandsSpec => []PartsDecide
  <1>1. CommandsInit => LineTyped
    BY DEF CommandsInit, LineTyped
  <1>2. LineTyped /\ [NextWord]_line => LineTyped'
    BY DEF LineTyped, NextWord
  <1>3. ASSUME LineTyped PROVE PartsDecide
    <2> SUFFICES ASSUME line # <<>> PROVE PartsDecide
      BY DEF PartsDecide
    <2>1. line \in Seq(AnyWord) /\ line \in Lines /\ Len(line) \in Nat
      BY <1>3 DEF LineTyped, AnyWord, Lines
    <2>2. Levels \in 1..Levels /\ \A t : LineVerdict(t) = CommandLevel[Levels][t]
      BY LevelsNumber DEF LineVerdict, Levels
    <2>3. ASSUME NEW i \in At(line, Separators)
          PROVE  /\ AtLeast(LineVerdict(line), LineVerdict(SubSeq(line, 1, i - 1)))
                 /\ AtLeast(LineVerdict(line), LineVerdict(From(line, i + 1)))
      <3>1. i \in 1..Len(line) /\ line[i] \in Separators
        BY DEF At
      <3>2. IsPart(line, 1, i - 1)
        BY <2>1, <3>1 DEF IsPart
      <3>3. IsPart(line, i + 1, Len(line))
        BY <2>1, <3>1 DEF IsPart
      <3> QED BY <2>1, <2>2, <3>2, <3>3, PartJudged DEF From
    <2>4. ASSUME At(line, {"$(", ")"}) = {}
          PROVE  AtLeast(LineVerdict(<<"echo", "$(">> \o line \o <<")">>), LineVerdict(line))
      BY <2>1, <2>2, <2>4, SubstitutedJudged
    <2>5. ASSUME At(line, Separators \cup ExecFlags) = {},
                 NEW p \in {<<"A=1">>, <<"sh", "-c">>, <<"timeout", "5">>} \cup {<<w>> : w \in Wrappers}
          PROVE  AtLeast(LineVerdict(p \o line), LineVerdict(line))
      BY <2>1, <2>5, PrefixesJudged
    <2> QED BY <2>3, <2>4, <2>5, Zenon DEF PartsDecide
  <1> QED BY <1>1, <1>2, <1>3, PTL DEF CommandsSpec
=============================================================================
