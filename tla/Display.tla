------------------------------- MODULE Display -------------------------------
(***************************************************************************)
(* What the user is shown and hears: the daemon's state                    *)
(* (crates/cosmo-daemon/src/speech.rs, StateCell), the reply speech and its *)
(* generation counter (speech.rs, Speech), the playback sink, and every    *)
(* task that writes them: the turns and confirmations of engine.rs, the    *)
(* stream task that speaks one reply, the ears, the dropping of a hold,    *)
(* and startup.  Each access of the state, the generation, the sink, the   *)
(* hold queue and the reasoner's mutex is a step of its own, except where  *)
(* two follow each other that no other task can tell apart.                *)
(*                                                                         *)
(* Abstractions.  Which hold a confirmation may take is the subject of     *)
(* Turns: here it takes any, or none; and any utterance may turn out to be *)
(* a confirm, a verb or neither.  A hold is named by the turn that parked  *)
(* it.  The generation and the barge count are only ever compared with a   *)
(* value read before: the first is represented by the reply that has the   *)
(* newest generation (None when an interruption has it), the second by the *)
(* turns that have read an older count.  The sink is the set of replies    *)
(* with a clip queued or playing; clips resolve together when it drains.   *)
(* Sentences that arrive together are worked through one by one.           *)
(* Cached phrases, which write no state, are left out.                     *)
(***************************************************************************)
EXTENDS Naturals

CONSTANTS
  Req,              \* the requests, one task each
  None,             \* no request
  Dropper,          \* the cancellations and expiries, one task each
  Kinds,            \* the kinds of request that arrive
  MaxPresses,       \* bound: recordings
  MaxSentences      \* bound: sentences written and not yet spoken

Kind == {"utterance", "token"}

ASSUME DisplayAssumption ==
  /\ None \notin Req
  /\ Kinds \subseteq Kind
  /\ MaxPresses \in Nat /\ MaxSentences \in Nat

VARIABLES
  state,            \* the state shown
  generation,       \* the reply with the newest generation
  sink,             \* the replies with audio in the sink
  barged,           \* the turns that have read an older barge count
  slot,             \* the holder of the reasoner's mutex
  holds,            \* the turns whose parked call is waiting
  started,          \* startup is over
  pc,               \* the step each request takes next
  kind,             \* what the request is
  outcome,          \* how its tool loop ended
  stream,           \* the task that speaks its reply
  ears,             \* the step the ears take next
  presses,          \* recordings so far
  drop,             \* the step each dropping takes next
  older,            \* history variable: the replies older than an interruption under way
  earsOlder,        \* history variable: the same for the ears' interruption
  silenced,         \* history variable: the replies a complete interruption silenced
  late,             \* history variable: clips a reply queued after being silenced
  silent            \* history variable: a request ended without writing a state

turnVars    == <<barged, slot, holds, started, pc, kind, outcome>>
ghostVars   == <<older, earsOlder, silenced, late, silent>>
vars == <<state, generation, sink, turnVars, stream, ears, presses, drop, ghostVars>>

State == {"Idle", "Listening", "Thinking", "Acting", "Waiting", "Speaking"}

PC == {"new", "barge", "bump", "stop", "decide", "acting", "executing", "reflexAct", "answer",
       "reason", "think", "speak", "model", "release", "announce", "done"}

Phase == {"none", "recv", "synth", "play", "drain", "ended"}

Outcome == {"none", "reply", "held", "error"}

Stream == [phase  : Phase,
           text   : 0..MaxSentences,  \* sentences written and not yet received
           first  : BOOLEAN,          \* none admitted yet
           closed : BOOLEAN]          \* the writer has finished

NoStream == [phase |-> "none", text |-> 0, first |-> TRUE, closed |-> FALSE]

\* Every variable has its type.
TypeOK ==
  /\ state \in State
  /\ generation \in Req \cup {None} /\ sink \in SUBSET Req
  /\ slot \in Req \cup {None} /\ holds \in SUBSET Req /\ barged \in SUBSET Req
  /\ started \in BOOLEAN
  /\ pc \in [Req -> PC] /\ kind \in [Req -> Kind] /\ outcome \in [Req -> Outcome]
  /\ stream \in [Req -> Stream]
  /\ ears \in {"off", "stop", "open", "recording"} /\ presses \in 0..MaxPresses
  /\ drop \in [Dropper -> {"new", "pending", "state", "idle", "done"}]
  /\ older \in [Req -> SUBSET Req] /\ earsOlder \in SUBSET Req
  /\ silenced \in SUBSET Req /\ silent \in BOOLEAN
  /\ late \in [Req -> Nat]

\* Bounds: in some behaviours no recording begins, or no hold is dropped.
Init ==
  /\ state = "Idle"
  /\ generation = None /\ sink = {} /\ barged = {}
  /\ slot = None /\ holds = {} /\ started = FALSE
  /\ pc = [r \in Req |-> "new"]
  /\ kind = [r \in Req |-> "utterance"]
  /\ outcome = [r \in Req |-> "none"]
  /\ stream = [r \in Req |-> NoStream]
  /\ ears = "off" /\ presses \in {0, MaxPresses}
  /\ drop \in [Dropper -> {"new", "done"}]
  /\ older = [r \in Req |-> {}] /\ earsOlder = {}
  /\ silenced = {} /\ silent = FALSE
  /\ late = [r \in Req |-> 0]

-----------------------------------------------------------------------------
(* The state cell and the speech service *)

Set(s) == state' = s

\* Mutant: the generation is not looked at.
SetIfCurrentAlways(r, s) == state' = s

\* Reply r's write, refused once a newer generation exists; check and write
\* are one step, under the state's lock.
SetIfCurrent(r, s) == state' = IF generation = r THEN s ELSE state

\* The replies being written or spoken.
Replies == {r \in Req : stream[r].phase \notin {"none", "ended"}}

\* Mutant: an interruption only stops the playback.
BumpNot == UNCHANGED generation

\* An interruption takes the generation from every reply there is,
Bump == generation' = None

\* and then stops the playback.
Silence(replies) ==
  /\ sink' = {}
  /\ silenced' = silenced \cup replies

-----------------------------------------------------------------------------
(* Turns and confirmations *)

Goto(r, from, to) ==
  /\ pc[r] = from
  /\ pc' = [pc EXCEPT ![r] = to]
  /\ UNCHANGED <<kind, outcome, silent>>

\* Request r returns; its locals are gone.
Return(r, from) ==
  /\ pc[r] = from
  /\ pc' = [pc EXCEPT ![r] = "done"]
  /\ kind' = [kind EXCEPT ![r] = "utterance"]
  /\ outcome' = [outcome EXCEPT ![r] = "none"]
  /\ barged' = barged \ {r}
  /\ UNCHANGED silent

\* The same for a request that has written no state.
ReturnSilently(r, from) ==
  /\ pc[r] = from
  /\ pc' = [pc EXCEPT ![r] = "done"]
  /\ kind' = [kind EXCEPT ![r] = "utterance"]
  /\ barged' = barged \ {r}
  /\ silent' = TRUE
  /\ UNCHANGED outcome

\* What most steps leave alone.
Speech == <<generation, sink, stream, older, silenced, late>>
Others == <<started, ears, presses, drop, earsOlder>>

\* A request arrives: an utterance, or `cosmo confirm <token>`.
Arrive(r) ==
  /\ pc[r] = "new"
  /\ \E k \in Kinds :
       /\ kind' = [kind EXCEPT ![r] = k]
       /\ pc' = [pc EXCEPT ![r] = IF k = "token" THEN "bump" ELSE "barge"]
  /\ UNCHANGED <<state, Speech, Others, outcome, silent, barged, slot, holds>>

\* barge_in: the count first, then the speech is interrupted.
BargeIn(r) ==
  /\ Goto(r, "barge", "bump")
  /\ barged' = {q \in Req : pc[q] \notin {"new", "done"}}
  /\ UNCHANGED <<state, Speech, Others, slot, holds>>

Interrupt(r) ==
  /\ Goto(r, "bump", "stop")
  /\ Bump
  /\ older' = [older EXCEPT ![r] = Replies]
  /\ UNCHANGED <<state, sink, stream, silenced, late, Others, barged, slot, holds>>

\* The sink is stopped once the generation has changed; then the barge count is
\* read.
StopSink(r) ==
  /\ Goto(r, "stop", "decide")
  /\ Silence(older[r])
  /\ older' = [older EXCEPT ![r] = {}]
  /\ barged' = barged \ {r}
  /\ UNCHANGED <<state, generation, stream, late, Others, slot, holds>>

\* A confirmation takes a waiting call, which is no longer pending.
TakeHold(r) ==
  /\ \E h \in holds : holds' = holds \ {h}
  /\ Goto(r, "decide", "acting")
  /\ UNCHANGED <<state, Speech, Others, barged, slot>>

\* A confirmation may resolve nothing: an unknown token, or a confirm heard on
\* an open microphone.  It returns and writes no state.
ResolveNothing(r) ==
  /\ ReturnSilently(r, "decide")
  /\ UNCHANGED <<state, Speech, Others, slot, holds>>

\* No confirm, no verb, or a confirm with nothing to confirm: on to reasoning.
GoOn(r) ==
  /\ kind[r] = "utterance"
  /\ Goto(r, "decide", "reason")
  /\ UNCHANGED <<state, Speech, Others, barged, slot, holds>>

ConfirmActs(r) ==
  /\ Goto(r, "acting", "executing")
  /\ Set("Acting")
  /\ UNCHANGED <<Speech, Others, barged, slot, holds>>

Confirmed(r) ==
  /\ Return(r, "executing")
  /\ Set("Idle")
  /\ UNCHANGED <<Speech, Others, slot, holds>>

\* A verb is done locally.
Reflex(r) ==
  /\ kind[r] = "utterance"
  /\ Goto(r, "decide", "reflexAct")
  /\ Set("Acting")
  /\ UNCHANGED <<Speech, Others, barged, slot, holds>>

\* A verb that failed escalates and leaves Acting shown.
ReflexFails(r) ==
  /\ Goto(r, "reflexAct", "reason")
  /\ UNCHANGED <<state, Speech, Others, barged, slot, holds>>

ReflexDone(r) ==
  /\ Goto(r, "reflexAct", "answer")
  /\ Set("Idle")
  /\ UNCHANGED <<Speech, Others, barged, slot, holds>>

\* A new generation for reply r, and its task.
Spawn(r, task) ==
  /\ generation' = r
  /\ stream' = [stream EXCEPT ![r] = task]
  /\ UNCHANGED <<sink, older, silenced, late>>

\* A verb with an answer has it spoken, after Idle was set.
Answer(r) ==
  /\ Return(r, "answer")
  /\ \/ UNCHANGED Speech
     \/ Spawn(r, [NoStream EXCEPT !.phase = "synth", !.closed = TRUE])
  /\ UNCHANGED <<state, Others, slot, holds>>

\* No tool host yet, or no client for the reasoner: no state is written.
CannotReason(r) ==
  /\ ReturnSilently(r, "reason")
  /\ UNCHANGED <<state, Speech, Others, slot, holds>>

TakeReasoner(r) ==
  /\ slot = None
  /\ Goto(r, "reason", "think")
  /\ slot' = r
  /\ UNCHANGED <<state, Speech, Others, barged, holds>>

Think(r) ==
  /\ Goto(r, "think", "speak")
  /\ Set("Thinking")
  /\ UNCHANGED <<Speech, Others, barged, slot, holds>>

\* The stream that will speak the reply.
SpeakStream(r) ==
  /\ Goto(r, "speak", "model")
  /\ Spawn(r, [NoStream EXCEPT !.phase = "recv"])
  /\ UNCHANGED <<state, Others, barged, slot, holds>>

\* A newer turn has barged in.
Cancelled(r) == r \in barged

\* The model writes a sentence.
WriteSentence(r) ==
  /\ pc[r] = "model" /\ ~Cancelled(r)
  /\ stream[r].phase # "ended"
  /\ stream[r].text + (IF stream[r].phase \in {"synth", "play"} THEN 1 ELSE 0) < MaxSentences
  /\ stream' = [stream EXCEPT ![r].text = @ + 1]
  /\ UNCHANGED <<state, generation, sink, turnVars, ears, presses, drop, ghostVars>>

\* Mutant: a cancelled turn leaves its stream open.
CancelForgets(r) ==
  /\ Cancelled(r)
  /\ Return(r, "model")
  /\ slot' = None
  /\ UNCHANGED <<state, Speech, Others, holds>>

Close(r) ==
  /\ stream' = [stream EXCEPT ![r].closed = TRUE]
  /\ UNCHANGED <<generation, sink, older, silenced, late>>

\* The mutex is released and the stream closed: text already written may still
\* be spoken.
Cancel(r) ==
  /\ Cancelled(r)
  /\ Return(r, "model")
  /\ slot' = None
  /\ Close(r)
  /\ UNCHANGED <<state, Others, holds>>

\* The client that sent the request is gone, and the handler is dropped at the
\* await it has reached.  In the tool loop its stream is closed with it.
Disconnect(r) ==
  /\ \/ /\ \E p \in {"executing", "reflexAct", "reason", "think"} : ReturnSilently(r, p)
        /\ UNCHANGED Speech
     \/ /\ Return(r, "model")
        /\ Close(r)
  /\ slot' = IF slot = r THEN None ELSE slot
  /\ UNCHANGED <<state, Others, holds>>

\* The tool loop ends; a hold is parked as it does.
LoopEnds(r) ==
  /\ ~Cancelled(r)
  /\ pc[r] = "model"
  /\ pc' = [pc EXCEPT ![r] = "release"]
  /\ \E o \in {"reply", "held", "error"} :
       /\ outcome' = [outcome EXCEPT ![r] = o]
       /\ holds' = IF o = "held" THEN holds \cup {r} ELSE holds
  /\ UNCHANGED <<state, Speech, Others, kind, silent, barged, slot>>

Release(r) ==
  /\ Goto(r, "release", "announce")
  /\ slot' = None
  /\ Close(r)
  /\ UNCHANGED <<state, Others, barged, holds>>

\* A reply leaves the state to its stream; a hold is Waiting, a failure Idle.
Announce(r) ==
  /\ Return(r, "announce")
  /\ CASE outcome[r] = "held"  -> Set("Waiting")
       [] outcome[r] = "error" -> Set("Idle")
       [] OTHER                -> UNCHANGED state
  /\ UNCHANGED <<Speech, Others, slot, holds>>

-----------------------------------------------------------------------------
(* The task that speaks a reply *)

streamFrame == <<generation, turnVars, ears, presses, drop, older, earsOlder, silenced, silent>>

To(r, from, to) ==
  /\ stream[r].phase = from
  /\ stream' = [stream EXCEPT ![r] = IF to = "ended" THEN [NoStream EXCEPT !.phase = "ended"]
                                                    ELSE [@ EXCEPT !.phase = to]]

\* The next sentence is received, and dropped with the rest of the reply if a
\* newer turn has taken over.
Receive(r) ==
  /\ stream[r].text > 0
  /\ IF generation = r
       THEN /\ stream[r].phase = "recv"
            /\ stream' = [stream EXCEPT ![r].phase = "synth", ![r].text = @ - 1]
       ELSE To(r, "recv", "ended")
  /\ UNCHANGED <<state, sink, late, streamFrame>>

\* The synthesis fails: the sentences received together with this one are
\* dropped too.
SynthesisFails(r) ==
  /\ stream[r].phase = "synth"
  /\ \E n \in 0..stream[r].text :
       stream' = [stream EXCEPT ![r].phase = "recv", ![r].text = n]
  /\ UNCHANGED <<state, sink, late, streamFrame>>

\* After the synthesis (an await): the first sentence moves the state to
\* Speaking, a later one only looks at the generation.
Admit(r) ==
  /\ To(r, "synth", IF generation = r THEN "play" ELSE "ended")
  /\ IF stream[r].first THEN SetIfCurrent(r, "Speaking") ELSE UNCHANGED state
  /\ UNCHANGED <<sink, late, streamFrame>>

\* The clip goes to the sink: a step of its own, after the admission.
Play(r) ==
  /\ stream[r].phase = "play"
  /\ sink' = sink \cup {r}
  /\ late' = IF r \in silenced THEN [late EXCEPT ![r] = @ + 1] ELSE late
  /\ stream' = [stream EXCEPT ![r].phase = "recv", ![r].first = FALSE]
  /\ UNCHANGED <<state, streamFrame>>

StreamClosed(r) ==
  /\ stream[r].closed /\ stream[r].text = 0
  /\ To(r, "recv", "drain")
  /\ UNCHANGED <<state, sink, late, streamFrame>>

\* Mutant: the state is left as it is when nothing was spoken.
StreamEndsQuietly(r) ==
  /\ r \notin sink
  /\ To(r, "drain", "ended")
  /\ IF stream[r].first THEN UNCHANGED state ELSE SetIfCurrent(r, "Idle")
  /\ UNCHANGED <<sink, late, streamFrame>>

\* Its clips have played out or were cancelled.
StreamEnds(r) ==
  /\ r \notin sink
  /\ To(r, "drain", "ended")
  /\ SetIfCurrent(r, "Idle")
  /\ UNCHANGED <<sink, late, streamFrame>>

\* Playback has drained: every queued clip has been played.
Drained ==
  /\ sink # {} /\ sink' = {}
  /\ UNCHANGED <<state, stream, late, streamFrame>>

-----------------------------------------------------------------------------
(* The ears: one recording at a time *)

EarsTo(from, to) == ears = from /\ ears' = to
earsFrame == <<turnVars, stream, drop, older, late, silent>>

\* A trigger interrupts the speech, and only that.
EarsInterrupt ==
  /\ presses < MaxPresses
  /\ presses' = presses + 1
  /\ EarsTo("off", "stop")
  /\ Bump
  /\ earsOlder' = Replies
  /\ UNCHANGED <<state, sink, silenced, earsFrame>>

\* The key goes down during a wake recording: that recording is dropped, and
\* another begins.
KeyDuringWake ==
  /\ EarsTo("recording", "stop")
  /\ Bump
  /\ earsOlder' = Replies
  /\ UNCHANGED <<state, sink, silenced, presses, earsFrame>>

EarsStop ==
  /\ EarsTo("stop", "open")
  /\ Silence(earsOlder)
  /\ earsOlder' = {}
  /\ UNCHANGED <<state, generation, presses, earsFrame>>

\* The microphone is shown as open, unless no session could be started.
Listen ==
  /\ EarsTo("open", "recording")
  /\ Set("Listening") \/ UNCHANGED state
  /\ UNCHANGED <<generation, sink, presses, earsOlder, silenced, earsFrame>>

\* The recording ends; what was said is another request.
RecordingEnds ==
  /\ EarsTo("recording", "off")
  /\ Set("Idle")
  /\ UNCHANGED <<generation, sink, presses, earsOlder, silenced, earsFrame>>

-----------------------------------------------------------------------------
(* Dropping a hold, and startup *)

dropFrame == <<Speech, barged, slot, started, pc, kind, outcome, ears, presses, earsOlder, silent>>

DropTo(d, from, to) == drop[d] = from /\ drop' = [drop EXCEPT ![d] = to]

Reject(d) ==
  /\ \E h \in holds : holds' = holds \ {h}
  /\ DropTo(d, "new", "pending")
  /\ UNCHANGED <<state, dropFrame>>

\* Is nothing pending, and is Waiting shown: two reads, and then the write.
LookPending(d) ==
  /\ DropTo(d, "pending", IF holds = {} THEN "state" ELSE "done")
  /\ UNCHANGED <<state, holds, dropFrame>>

LookState(d) ==
  /\ DropTo(d, "state", IF state = "Waiting" THEN "idle" ELSE "done")
  /\ UNCHANGED <<state, holds, dropFrame>>

LeaveWaiting(d) ==
  /\ DropTo(d, "idle", "done")
  /\ Set("Idle")
  /\ UNCHANGED <<holds, dropFrame>>

\* The last write of startup; the ears and their turns may be at work already.
Started ==
  /\ ~started /\ started' = TRUE
  /\ Set("Idle")
  /\ UNCHANGED <<Speech, barged, slot, holds, pc, kind, outcome, ears, presses, drop, earsOlder,
                 silent>>

-----------------------------------------------------------------------------
(* The specification *)

\* The steps a request takes by itself once it has arrived.
Step(r) ==
  \/ BargeIn(r) \/ Interrupt(r) \/ StopSink(r)
  \/ TakeHold(r) \/ ResolveNothing(r) \/ GoOn(r) \/ ConfirmActs(r) \/ Confirmed(r)
  \/ Reflex(r) \/ ReflexFails(r) \/ ReflexDone(r) \/ Answer(r)
  \/ CannotReason(r) \/ TakeReasoner(r) \/ Think(r) \/ SpeakStream(r)
  \/ Cancel(r) \/ LoopEnds(r) \/ Release(r) \/ Announce(r)

Speaks(r) ==
  \/ Receive(r) \/ SynthesisFails(r) \/ Admit(r) \/ Play(r)
  \/ StreamClosed(r) \/ StreamEnds(r)

Ears == EarsStop \/ Listen \/ RecordingEnds

Drops(d) == Reject(d) \/ LookPending(d) \/ LookState(d) \/ LeaveWaiting(d)

Next ==
  \/ \E r \in Req : Arrive(r) \/ Step(r) \/ Disconnect(r) \/ WriteSentence(r) \/ Speaks(r)
  \/ Drained \/ EarsInterrupt \/ KeyDuringWake \/ Ears \/ Started
  \/ \E d \in Dropper : Drops(d)

Spec == Init /\ [][Next]_vars

\* The runtime runs every task that can go on; a round trip and a synthesis
\* time out, a recording has a longest length, and PipeWire plays what it has.
Fairness ==
  /\ \A r \in Req : WF_vars(Step(r)) /\ WF_vars(Speaks(r))
  /\ WF_vars(Drained)
  /\ WF_vars(Ears)

FairSpec == Spec /\ Fairness

-----------------------------------------------------------------------------
(* Properties *)

\* Nothing runs that could still write the state.
Settled ==
  /\ \A r \in Req : pc[r] \in {"new", "done"} /\ stream[r].phase \in {"none", "ended"}
  /\ ears = "off" /\ started
  /\ \A d \in Dropper : drop[d] \in {"new", "done"}

\* However turns, replies, recordings and confirmations cut each other off,
\* once all have ended the state shown is a resting one, if each request that
\* interrupted the others also wrote a state of its own (whoever takes the
\* generation from a reply must replace what the reply would have written).
DisplayRests == Settled /\ ~silent => state \in {"Idle", "Waiting"}

\* The variables have their types, and with nothing under way the display rests:
\* it shows that the daemon is idle or waits for an answer (engine.rs, speech.rs).
DisplaySettles == TypeOK /\ DisplayRests

\* What a silenced reply can still play is the one sentence that was admitted
\* before the interruption and reached the sink after it, never more.
OneLateSentence == \A r \in Req : late[r] <= 1

\* A reply changes the state only while nothing has interrupted it: no older
\* reply replaces what a newer request or recording shows.
OldReplyIsMute ==
  [][\A r \in Req : stream'[r].phase # stream[r].phase /\ pc' = pc /\ state' # state =>
       /\ r \notin silenced \cup earsOlder
       /\ \A q \in Req : r \notin older[q]]_vars

\* Every reply ends, interrupted or not: no stream task waits for ever on its
\* writer, or on the sink that others stop.
EveryReplyEnds == \A r \in Req : (stream[r].phase # "none") ~> (stream[r].phase = "ended")
=============================================================================
