------------------------------ MODULE Playback ------------------------------
(* cosmo-audio's player: the playback thread and its command channel, the      *)
(* queue it shares with the real-time fill callback, PipeWire's stream, and    *)
(* the two atomics (speaking, quiet_since) the capture callback reads before   *)
(* it keeps a quantum of sound.  A clip is a number of quanta; time is the two *)
(* ages that SETTLE compares, in ticks.                                        *)
EXTENDS Naturals, Sequences, FiniteSets

CONSTANTS Clip,          \* clips the daemon plays, each once
          Rate,          \* sample rates
          MaxQuanta,     \* the longest clip, in quanta
          MaxStops,      \* bound: Player::stop calls and the player's drop
          MaxFaults      \* bound: streams that fail, connects that fail

ASSUME PlaybackAssumption ==
    MaxQuanta \in Nat \ {0} /\ MaxStops \in Nat /\ MaxFaults \in Nat

VARIABLES rateOf, quanta,    \* the clips' rates and lengths
          inbox,             \* the playback thread's command channel
          main,              \* the playback thread: "idle", "pump", "lower", "gone"
          backlog,           \* clips not yet admitted to the queue
          queue,             \* [jobs, head, pos, draining]
          pwStream,            \* NoStream or [rate, active, mode]
          pipe,              \* quanta PipeWire holds and has not played
          rt,                \* the fill callback: "idle", "buffer" or "drain"
          outcome,           \* what each Playback handle resolved to
          speaking,          \* the gate
          quietAge, soundAge,    \* ages of quiet_since and of the last sound
          asked,             \* the capture callback has read speaking = FALSE
          leaked,            \* the ring holds a quantum of cosmo's own voice
          stops, faults
playVars == <<rateOf, quanta, inbox, main, backlog, queue, pwStream, pipe, rt,
              outcome, speaking, quietAge, soundAge, asked, leaked, stops, faults>>
handleVars == <<rateOf, quanta, main, backlog, queue, pwStream, pipe, rt>>
gateVars == <<speaking, quietAge>>
micVars == <<soundAge, asked, leaked>>

NoPwStream == [rate |-> "none", active |-> FALSE, mode |-> "none"]
EmptyQueue == [jobs |-> <<>>, head |-> 0, pos |-> 0, draining |-> FALSE]
Audible == pipe > 0 /\ pwStream.active

PlaybackInit ==
    /\ rateOf \in [Clip -> Rate] /\ quanta \in [Clip -> 1 .. MaxQuanta]
    /\ inbox = <<>> /\ main = "idle" /\ backlog = <<>> /\ queue = EmptyQueue
    /\ pwStream = NoPwStream /\ pipe = 0 /\ rt = "idle"
    /\ outcome = [c \in Clip |-> "none"]
    /\ speaking = FALSE /\ quietAge = 1 /\ soundAge = 1
    /\ asked = "no" /\ leaked = FALSE /\ stops = 0 /\ faults = 0

-----------------------------------------------------------------------------
(* The handle: play, stop and the drop of the Player only send.                *)

Play(c) ==
    /\ outcome[c] = "none"
    /\ \/ /\ main # "gone" /\ outcome' = [outcome EXCEPT ![c] = "queued"]
          /\ inbox' = Append(inbox, [kind |-> "Play", clip |-> c])
       \/ /\ main = "gone" /\ outcome' = [outcome EXCEPT ![c] = "Closed"]
          /\ UNCHANGED inbox
    /\ UNCHANGED <<handleVars, gateVars, micVars, stops, faults>>

StopPlayback(kind) ==
    /\ main # "gone" /\ stops < MaxStops /\ stops' = stops + 1
    /\ inbox' = Append(inbox, [kind |-> kind])
    /\ UNCHANGED <<handleVars, outcome, gateVars, micVars, faults>>

-----------------------------------------------------------------------------
(* The playback thread.                                                        *)

Elements(s) == {s[i] : i \in DOMAIN s}
Resolve(clips, result) ==
    outcome' = [c \in Clip |-> IF c \in clips THEN result ELSE outcome[c]]

PlayerReceives(kind) ==
    main = "idle" /\ inbox # <<>> /\ Head(inbox).kind = kind /\ inbox' = Tail(inbox)

HandlePlay ==
    /\ PlayerReceives("Play") /\ speaking' = TRUE
    /\ backlog' = Append(backlog, Head(inbox).clip) /\ main' = "pump"
    /\ UNCHANGED <<rateOf, quanta, queue, pwStream, pipe, rt, outcome, quietAge,
                   micVars, stops, faults>>

(* SpeechGate::set_quiet: quiet_since first, then speaking ("lower").          *)
Quiet == quietAge' = 0 /\ main' = "lower"
Lower ==
    /\ main = "lower" /\ speaking' = FALSE /\ main' = "idle"
    /\ UNCHANGED <<rateOf, quanta, inbox, backlog, queue, pwStream, pipe, rt,
                   outcome, quietAge, micVars, stops, faults>>

(* pump: one iteration of its loop.                                            *)
Pumping == main = "pump" /\ UNCHANGED <<rateOf, quanta, inbox, rt, speaking, micVars, stops>>
Leading == Cardinality({i \in DOMAIN backlog :
                          \A j \in 1 .. i : rateOf[backlog[j]] = rateOf[backlog[1]]})
Rest == SubSeq(backlog, Leading + 1, Len(backlog))

Admit ==
    /\ Pumping /\ backlog # <<>> /\ pwStream.rate = rateOf[backlog[1]]
    /\ queue' = [queue EXCEPT !.jobs = @ \o SubSeq(backlog, 1, Leading)]
    /\ backlog' = Rest /\ main' = "idle"
    /\ pwStream' = [pwStream EXCEPT !.active = @ \/ ~queue.draining]
    /\ UNCHANGED <<pipe, outcome, quietAge, faults>>

Waits ==     \* nothing left to admit, or the old rate is still playing
    /\ Pumping
    /\ backlog = <<>> \/ (pwStream.rate # rateOf[backlog[1]] /\ queue.jobs # <<>>)
    /\ main' = "idle"
    /\ UNCHANGED <<backlog, queue, pwStream, pipe, outcome, quietAge, faults>>

Reopening == Pumping /\ backlog # <<>> /\ pwStream.rate # rateOf[backlog[1]]
             /\ queue.jobs = <<>> /\ rt = "idle" /\ pipe' = 0 /\ UNCHANGED queue

Reopen ==
    /\ Reopening
    /\ pwStream' = [rate |-> rateOf[backlog[1]], active |-> TRUE, mode |-> "running"]
    /\ UNCHANGED <<backlog, outcome, quietAge, main, faults>>

OpenFails ==
    /\ Reopening /\ faults < MaxFaults /\ faults' = faults + 1
    /\ pwStream' = NoPwStream /\ backlog' = Rest
    /\ Resolve(Elements(SubSeq(backlog, 1, Leading)), "Err")
    /\ IF Rest = <<>> THEN Quiet ELSE UNCHANGED <<main, quietAge>>

(* drained: reap what was written, then go on, stop, or change the rate.        *)
ReapedToHead == IF queue.head < Len(queue.jobs) THEN queue.head + 1 ELSE queue.head
Reaped == queue.head

AfterDrain(left) ==
    IF left = <<>> /\ backlog = <<>> THEN Quiet
    ELSE main' = (IF left = <<>> THEN "pump" ELSE "idle") /\ UNCHANGED quietAge

HandleDrained ==
    /\ PlayerReceives("Drained")
    /\ LET n == Reaped
           left == SubSeq(queue.jobs, n + 1, Len(queue.jobs))
       IN  /\ Resolve(Elements(SubSeq(queue.jobs, 1, n)), "Played")
           /\ queue' = [queue EXCEPT !.jobs = left, !.head = 0, !.draining = FALSE]
           /\ IF pwStream = NoPwStream THEN UNCHANGED <<pwStream, pipe>>
              ELSE /\ pwStream' = [pwStream EXCEPT !.active = left # <<>>, !.mode = "running"]
                   /\ pipe' = 0
           /\ AfterDrain(left)
    /\ UNCHANGED <<rateOf, quanta, backlog, rt, speaking, micVars, stops, faults>>

(* finish_all: Stop, a failed stream, Shutdown.  Dropping the stream waits for  *)
(* its callback; a process that quits closes what was still in its channel.     *)
StopStreamLater == UNCHANGED <<pipe, pwStream>>
StopStream ==
    /\ pipe' = 0
    /\ pwStream' = IF pwStream = NoPwStream THEN pwStream
                 ELSE [pwStream EXCEPT !.active = FALSE, !.mode = "running"]
DropStream == rt = "idle" /\ pipe' = 0 /\ pwStream' = NoPwStream

FinishAll(kind) ==
    /\ PlayerReceives(kind) /\ queue' = EmptyQueue /\ backlog' = <<>> /\ quietAge' = 0
    /\ UNCHANGED <<rateOf, quanta, rt, micVars, stops, faults>>

InFlight == Elements(queue.jobs) \cup Elements(backlog)
HandleStop ==
    /\ FinishAll("Stop") /\ StopStream /\ Resolve(InFlight, "Cancelled")
    /\ main' = "lower" /\ UNCHANGED speaking
HandleFailed ==
    /\ FinishAll("Failed") /\ DropStream /\ Resolve(InFlight, "Err")
    /\ main' = "lower" /\ UNCHANGED speaking
HandleShutdown ==
    /\ FinishAll("Shutdown") /\ DropStream
    /\ outcome' = [c \in Clip |-> IF c \in InFlight THEN "Cancelled"
                                  ELSE IF outcome[c] = "queued" THEN "Closed" ELSE outcome[c]]
    /\ main' = "gone" /\ speaking' = FALSE

-----------------------------------------------------------------------------
(* The fill callback on PipeWire's data loop: under the queue's lock it copies  *)
(* one quantum, or finds the queue exhausted and claims the drain; only after   *)
(* the lock is released does it hand the buffer over and ask for the drain.     *)
(* (On contention it writes a quantum of silence, which changes nothing here.)  *)

DataLoop == UNCHANGED <<rateOf, quanta, inbox, main, backlog, outcome, gateVars,
                        micVars, stops, faults>>
FillDue == rt = "idle" /\ pwStream.active /\ pwStream.mode = "running" /\ pipe = 0

Fill ==
    /\ FillDue /\ queue.head < Len(queue.jobs)
    /\ LET last == queue.pos + 1 = quanta[queue.jobs[queue.head + 1]]
       IN  queue' = [queue EXCEPT !.head = IF last THEN @ + 1 ELSE @,
                                  !.pos = IF last THEN 0 ELSE @ + 1]
    /\ rt' = "buffer" /\ UNCHANGED <<pwStream, pipe>> /\ DataLoop

FillDry ==
    /\ FillDue /\ queue.head >= Len(queue.jobs) /\ ~queue.draining
    /\ queue' = [queue EXCEPT !.draining = TRUE]
    /\ rt' = "drain" /\ UNCHANGED <<pwStream, pipe>> /\ DataLoop

HandOver ==
    /\ rt # "idle" /\ rt' = "idle"
    /\ pipe' = IF rt = "buffer" THEN pipe + 1 ELSE pipe
    /\ pwStream' = IF rt = "drain" THEN [pwStream EXCEPT !.mode = "draining"] ELSE pwStream
    /\ UNCHANGED queue /\ DataLoop

(* PipeWire: it plays what it holds, tells the main loop when a drain is done,  *)
(* and may fail the stream.                                                     *)
Sounds ==
    /\ Audible /\ pipe' = pipe - 1 /\ soundAge' = 0
    /\ UNCHANGED <<rateOf, quanta, inbox, main, backlog, queue, pwStream, rt, outcome,
                   gateVars, asked, leaked, stops, faults>>

Drained ==
    /\ pwStream.mode = "draining" /\ pwStream.active /\ pipe = 0
    /\ pwStream' = [pwStream EXCEPT !.mode = "drained"]
    /\ inbox' = Append(inbox, [kind |-> "Drained"])
    /\ UNCHANGED <<rateOf, quanta, main, backlog, queue, pipe, rt, outcome, gateVars,
                   micVars, stops, faults>>

StreamFails ==
    /\ pwStream # NoPwStream /\ pwStream.mode # "error" /\ faults < MaxFaults
    /\ faults' = faults + 1
    /\ pwStream' = [pwStream EXCEPT !.mode = "error", !.active = FALSE]
    /\ inbox' = Append(inbox, [kind |-> "Failed"])
    /\ UNCHANGED <<rateOf, quanta, main, backlog, queue, pipe, rt, outcome, gateVars,
                   micVars, stops>>

(* The capture callback: mic_open reads speaking, then quiet_since; the sound   *)
(* it keeps was recorded before.  Time passes between callbacks.                *)
Ripe == 1     \* ticks in SETTLE
MicAsks ==
    /\ asked = "no" /\ ~speaking
    /\ asked' = IF Audible \/ soundAge < Ripe THEN "voice" ELSE "clean"
    /\ UNCHANGED <<handleVars, inbox, outcome, gateVars, soundAge, leaked, stops, faults>>
MicKeeps ==
    /\ asked # "no" /\ asked' = "no"
    /\ leaked' = (leaked \/ (quietAge = Ripe /\ asked = "voice"))
    /\ UNCHANGED <<handleVars, inbox, outcome, gateVars, soundAge, stops, faults>>
Older(age) == IF age < Ripe THEN age + 1 ELSE Ripe
Tick ==
    /\ asked = "no" /\ quietAge' = Older(quietAge)
    /\ soundAge' = IF Audible THEN 0 ELSE Older(soundAge)
    /\ UNCHANGED <<handleVars, inbox, outcome, speaking, asked, leaked, stops, faults>>

-----------------------------------------------------------------------------
MainSteps ==
    \/ HandlePlay \/ Lower \/ Admit \/ Waits \/ Reopen \/ OpenFails
    \/ HandleDrained \/ HandleStop \/ HandleFailed \/ HandleShutdown
FillSteps == Fill \/ FillDry \/ HandOver

PlaybackNext ==
    \/ \E c \in Clip : Play(c)
    \/ \E kind \in {"Stop", "Shutdown"} : StopPlayback(kind)
    \/ MainSteps \/ FillSteps \/ Sounds \/ Drained \/ StreamFails
    \/ MicAsks \/ MicKeeps \/ Tick

PlaybackSpec == PlaybackInit /\ [][PlaybackNext]_playVars

-----------------------------------------------------------------------------
(* Half-duplex (invariant 8): no quantum the capture callback keeps was         *)
(* recorded while cosmo was audible or less than SETTLE after, however the two  *)
(* reads of mic_open fall between the player's stores (gate.rs, player.rs).     *)
NoOwnVoice == ~leaked

(* A clip resolves as Played only when every one of its samples was handed to   *)
(* PipeWire, though drains are reported late and stops come in between: a clip  *)
(* reaped by a drained event is one the fill callback had finished with         *)
(* (queue.rs take_finished).                                                    *)
PlayedWasWritten ==
    [][\A i \in DOMAIN queue.jobs :
         outcome'[queue.jobs[i]] = "Played" /\ outcome[queue.jobs[i]] # "Played"
           => i <= queue.head]_playVars
=============================================================================
