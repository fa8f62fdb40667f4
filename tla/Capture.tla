------------------------------ MODULE Capture ------------------------------
(* The microphone while cosmo is idle: the capture stream fills a ring from     *)
(* PipeWire's data loop, without a lock (capture.rs, ring.rs), and the          *)
(* wake-word watcher copies it out, cuts it into stretches of speech and has    *)
(* each checked once (ears.rs, wake.rs).  One sample is one VAD window; what    *)
(* the speech gate zeroes is silence.                                           *)
EXTENDS Integers, Sequences

CONSTANTS Capacity,      \* samples the ring holds
          MaxChunk,      \* samples of one callback
          WakeMargin,    \* samples kept before the speech
          WakeWindow,    \* samples of a stretch that are checked
          SilenceGap,           \* samples of silence that end a stretch
          MaxSamples,    \* bound: samples captured
          MaxResets      \* bound: reconnects, and watchers begun

ASSUME CaptureAssumption ==
    /\ {Capacity, MaxChunk, WakeWindow, SilenceGap} \subseteq Nat \ {0}
    /\ {WakeMargin, MaxSamples, MaxResets} \subseteq Nat

VARIABLES link,          \* "connecting", "streaming", "down" or "stopped"
          reconnects,
          voice,         \* voice[p + 1]: the sample at position p holds speech
          samples,       \* samples[slot]: the position it was last written for
          head,          \* samples published
          chunk,         \* the callback's samples still to store
          written,        \* samples of it that are stored
          watch,         \* the watcher's step and the copy it is making
          tracker,       \* WakeTracker: [phase, onset, silence]
          restarts,         \* ghost: trackers begun or reset
          saw,           \* ghost: what the tracker was told, by position
          checks,        \* ghost: the checks asked for
          disturbed      \* ghost: the writer was at it during this copy
captureVars == <<link, reconnects, voice, samples, head, chunk, written, watch, tracker,
                 restarts, saw, checks, disturbed>>
streamSide == <<link, reconnects, voice, samples, head, chunk, written>>
watcherSide == <<watch, tracker, restarts, saw, checks>>

NoPosition == -1
NoCheck == [from |-> NoPosition, to |-> NoPosition]
NoWatch == [at |-> "off", pos |-> 0, from |-> 0, to |-> 0, out |-> <<>>, check |-> NoCheck]
NewTracker == [phase |-> "Quiet", onset |-> NoPosition, silence |-> NoPosition]
Unheard == [p \in 0 .. MaxSamples - 1 |-> "unseen"]

CaptureInit ==
    /\ link = "connecting" /\ reconnects = 0 /\ voice = <<>>
    /\ samples = [i \in 0 .. Capacity - 1 |-> NoPosition]
    /\ head = 0 /\ chunk = 0 /\ written = 0
    /\ watch = NoWatch /\ tracker = NewTracker /\ restarts = 0
    /\ saw = Unheard /\ checks = {} /\ disturbed = FALSE

-----------------------------------------------------------------------------
(* Capture::start and pump: the first connection must succeed; one that is      *)
(* lost later is rebuilt until it sticks.  The ring's positions go on.          *)
Pump ==
    /\ link = "connecting"
    /\ \/ link' = "streaming" /\ UNCHANGED reconnects
       \/ reconnects = 0 /\ head = 0 /\ link' = "stopped" /\ UNCHANGED reconnects
       \/ reconnects \in 1 .. MaxResets - 1 /\ link' = "connecting" /\ reconnects' = reconnects + 1
    /\ UNCHANGED <<voice, samples, head, chunk, written, watcherSide, disturbed>>
StreamError ==
    /\ link = "streaming" /\ chunk = 0 /\ reconnects < MaxResets
    /\ link' = "connecting" /\ reconnects' = reconnects + 1
    /\ UNCHANGED <<voice, samples, head, chunk, written, watcherSide, disturbed>>

(* on_process: a block of samples; the gate is asked once for all of them.      *)
OnProcess ==
    /\ link = "streaming" /\ chunk = 0 /\ written = 0
    /\ \E n \in 1 .. MaxChunk :
        /\ head + n <= MaxSamples /\ chunk' = n
        /\ \E block \in [1 .. n -> BOOLEAN] : voice' = voice \o block
    /\ disturbed' = TRUE
    /\ UNCHANGED <<link, reconnects, samples, head, written, watcherSide>>

(* Ring::write: relaxed stores, sample by sample.                               *)
Store ==
    /\ chunk > 0
    /\ samples' = [samples EXCEPT ![(head + written) % Capacity] = head + written]
    /\ written' = written + 1 /\ chunk' = chunk - 1
    /\ UNCHANGED <<link, reconnects, voice, head, watcherSide, disturbed>>

(* The release store of the cursor publishes them.                              *)
PublishChunk ==
    /\ chunk = 0 /\ written > 0
    /\ head' = head + written /\ written' = 0
    /\ UNCHANGED <<link, reconnects, voice, samples, chunk, watcherSide, disturbed>>

-----------------------------------------------------------------------------
(* Ring::read: the window is clamped once, then copied while the writer goes on.*)
Minus(a, b) == IF a > b THEN a - b ELSE 0
Later(a, b) == IF a > b THEN a ELSE b
OldestHeld(now) == Minus(now, Capacity)

BeginCopy(w, at, from, to) ==
    /\ watch' = [w EXCEPT !.at = at, !.from = Later(from, OldestHeld(head)), !.to = to, !.out = <<>>]
    /\ disturbed' = (chunk > 0 \/ written > 0)

CopySample ==
    /\ watch.at \in {"watching", "checking"} /\ watch.from + Len(watch.out) < watch.to
    /\ watch' = [watch EXCEPT !.out = Append(@, samples[(watch.from + Len(watch.out)) % Capacity])]
    /\ UNCHANGED <<streamSide, tracker, restarts, saw, checks, disturbed>>

-----------------------------------------------------------------------------
(* WakeTracker::push, for the window at position p: a stretch of speech ends with a *)
(* silence long enough.                                                            *)
StretchEnded(silence, end) == silence # NoPosition /\ end - silence >= SilenceGap

Push(t, p, speech) ==
    LET silence == IF speech THEN NoPosition
                   ELSE IF t.tracker.silence = NoPosition THEN p ELSE t.tracker.silence
        ended == StretchEnded(silence, p + 1)
        onset == t.tracker.onset
        to(phase) == [t EXCEPT !.tracker = [@ EXCEPT !.silence = silence, !.phase = phase]]
    IN CASE t.tracker.phase = "Quiet" /\ speech ->
              [to("Collecting") EXCEPT !.tracker.onset = Minus(p, WakeMargin)]
         [] t.tracker.phase = "Collecting" /\ (p + 1 - onset >= WakeWindow \/ ended) ->
              [to("Done") EXCEPT !.checks = Append(@, [from |-> onset, to |-> IF ended THEN silence ELSE p + 1])]
         [] t.tracker.phase = "Done" /\ ended -> to("Quiet")
         [] OTHER -> to(t.tracker.phase)

Speech(sample) == sample # NoPosition /\ voice[sample + 1]
Pushed ==
    LET f[i \in 0 .. Len(watch.out)] ==
          IF i = 0 THEN [tracker |-> tracker, checks |-> <<>>]
          ELSE Push(f[i - 1], watch.from + i - 1, Speech(watch.out[i]))
    IN f[Len(watch.out)]

(* Watcher::new, at the ring's head.                                            *)
BeginWatcher ==
    /\ watch.at = "off" /\ restarts < MaxResets
    /\ watch' = [NoWatch EXCEPT !.at = "idle", !.pos = head]
    /\ tracker' = NewTracker /\ restarts' = restarts + 1 /\ saw' = Unheard
    /\ UNCHANGED <<streamSide, checks, disturbed>>

(* A tick: everything since the last one; a reader that was lapped starts anew. *)
WatcherStep ==
    /\ watch.at = "idle" /\ head > watch.pos
    /\ BeginCopy(watch, "watching", watch.pos, head)
    /\ IF watch'.from > watch.pos
       THEN tracker' = NewTracker /\ restarts' = restarts + 1 /\ saw' = Unheard
       ELSE UNCHANGED <<tracker, restarts, saw>>
    /\ UNCHANGED <<streamSide, checks>>

(* The decisions go to the tracker; the first check asked for is made.          *)
Track ==
    /\ watch.at = "watching" /\ watch.from + Len(watch.out) = watch.to
    /\ tracker' = Pushed.tracker
    /\ saw' = [p \in DOMAIN saw |-> IF p \in watch.from .. watch.to - 1
                                    THEN IF Speech(watch.out[p - watch.from + 1]) THEN "speech" ELSE "silence"
                                    ELSE saw[p]]
    /\ IF Pushed.checks = <<>>
       THEN watch' = [NoWatch EXCEPT !.at = "idle", !.pos = watch.to] /\ UNCHANGED <<checks, disturbed>>
       ELSE LET c == Head(Pushed.checks)
            IN /\ BeginCopy([watch EXCEPT !.pos = watch.to, !.check = c], "checking", c.from, c.to)
               /\ checks' = checks \cup {[epoch |-> restarts, from |-> c.from]}
    /\ UNCHANGED <<streamSide, restarts>>

(* The decode answers: no wake phrase, or a recording begins; a key or a toggle *)
(* that comes first begins one too.  A recording ends the watcher.              *)
Decoded ==
    /\ watch.at = "checking" /\ watch.from + Len(watch.out) >= watch.to
    /\ watch' \in {NoWatch, [NoWatch EXCEPT !.at = "idle", !.pos = watch.pos]}
    /\ UNCHANGED <<streamSide, tracker, restarts, saw, checks, disturbed>>

(* Paused, or a recording, between two steps.                                   *)
StopWatcher ==
    /\ watch.at = "idle" /\ watch' = NoWatch
    /\ UNCHANGED <<streamSide, tracker, restarts, saw, checks, disturbed>>

CaptureNext == \/ Pump \/ StreamError \/ OnProcess \/ Store \/ PublishChunk
               \/ CopySample \/ BeginWatcher \/ WatcherStep \/ Track \/ Decoded \/ StopWatcher

CaptureSpec == CaptureInit /\ [][CaptureNext]_captureVars

-----------------------------------------------------------------------------
(* Properties.                                                                  *)

\* A copy holds the samples of the positions it was made for; where the writer was
\* at it meanwhile a newer one may stand instead, never one of an earlier lap.
ReadIsWritten ==
    \A i \in DOMAIN watch.out :
        LET p == watch.from + i - 1
        IN IF disturbed THEN watch.out[i] >= p ELSE watch.out[i] = p

\* One check for a stretch of speech: between the beginnings of two stretches that
\* were checked there was a whole gap of silence.
OneCheckAStretch ==
    \A c, d \in checks : c.epoch = restarts /\ d.epoch = restarts /\ c.from < d.from =>
        \E p \in c.from .. d.from + WakeMargin - SilenceGap :
            \A q \in p .. p + SilenceGap - 1 : saw[q] = "silence"
=============================================================================
