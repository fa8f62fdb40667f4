----------------------------- MODULE Transcribe -----------------------------
(* One recording after another through cosmo-stt: VAD decisions cut the audio   *)
(* into segments at its pauses (segment.rs, session.rs), each segment is        *)
(* trimmed and decoded by the offline worker while the next is being spoken,    *)
(* and the streaming worker follows along for partials, or for the commit when  *)
(* there is no offline model (engine.rs).  Positions count VAD windows; a word  *)
(* is a window that holds speech.                                              *)
EXTENDS Naturals, Sequences, SequencesExt, FiniteSets, FiniteSetsExt

CONSTANTS MinPause,      \* windows of silence that earn a cut
          Backstop,      \* windows of silence that end a recording
          Margin,        \* windows kept either side of the speech
          MaxWindows,    \* bound: windows heard, over all recordings
          MaxRecordings  \* bound: recordings

ASSUME TranscribeAssumption ==
    MinPause \in Nat \ {0} /\ Backstop > MinPause /\ Margin \in Nat

VARIABLES has,           \* which models are loaded
          heard,         \* every window's decision so far
          begin,         \* the live recording's first window
          phase,         \* "idle", "recording" or "committing"
          seg,           \* Segmenter: [silence, since, cut, backstopped]
          bufStart,      \* first window after the last cut
          speech,        \* windows since then that held speech
          toStream, stream, epoch, live,    \* the streaming worker
          jobs, pending, decoded,           \* the offline worker
          reply,         \* the flushed text of the streaming model
          text,          \* what the last commit said, as the words of each part of it
          recordings
sttVars == <<has, heard, begin, phase, seg, bufStart, speech, toStream, stream,
             epoch, live, jobs, pending, decoded, reply, text, recordings>>
sessionVars == <<heard, begin, phase, seg, bufStart, speech>>
streamVars == <<toStream, stream, epoch, live, reply>>
offlineVars == <<jobs, pending, decoded>>

NoStream == [id |-> 0, words |-> <<>>]
NewSegmenter(at) == [silence |-> at, since |-> FALSE, cut |-> FALSE, backstopped |-> FALSE]
InSpeech == 0        \* seg.silence while speech goes on; windows count from 1
Words(lo, hi) == {i \in lo .. hi : heard[i]}

TranscribeInit ==
    /\ has \in {{"stream"}, {"offline"}, {"stream", "offline"}}
    /\ heard = <<>> /\ begin = 1 /\ phase = "idle" /\ seg = NewSegmenter(1)
    /\ bufStart = 1 /\ speech = {} /\ toStream = <<>> /\ stream = NoStream
    /\ epoch = 0 /\ live = 0 /\ jobs = <<>> /\ pending = <<>> /\ decoded = {}
    /\ reply = <<>> /\ text = [parts |-> <<>>, from |-> 1, to |-> 0] /\ recordings = 0

ToStream(msgs) == toStream' = IF "stream" \in has THEN toStream \o msgs ELSE toStream

-----------------------------------------------------------------------------
(* Stt::session; a session whose VAD cannot be made has begun its stream.       *)
BeginRecording ==
    /\ phase = "idle" /\ recordings < MaxRecordings /\ recordings' = recordings + 1
    /\ epoch' = epoch + 1 /\ ToStream(<<[kind |-> "Begin", id |-> epoch + 1]>>)
    /\ begin' = Len(heard) + 1 /\ bufStart' = Len(heard) + 1
    /\ speech' = {} /\ seg' = NewSegmenter(Len(heard) + 1)
    /\ phase' \in {"recording", "idle"}
    /\ UNCHANGED <<has, heard, stream, live, reply, offlineVars, text>>

(* trim: the speech plus Margin; a segment with none is left whole.             *)
Trim(lo, hi, s) ==
    IF s = {} THEN [lo |-> lo, hi |-> hi]
    ELSE [lo |-> Max({lo, IF Min(s) > Margin THEN Min(s) - Margin ELSE 0}),
          hi |-> Min({hi, Max(s) + Margin})]
Decode(segment) ==
    IF "offline" \in has
    THEN /\ jobs' = Append(jobs, segment) /\ pending' = Append(pending, segment)
    ELSE UNCHANGED <<jobs, pending>>

(* Session::push for one window: the segmenter counts the silence, a long one   *)
(* ends the recording, one after speech is cut in its middle.                  *)
CutAtOnset(from) == from + MinPause + 1     \* where the next word may begin
CutAt(from) == from + MinPause \div 2
Hears(is) ==
    /\ phase = "recording" /\ Len(heard) < MaxWindows /\ heard' = Append(heard, is)
    /\ ToStream(<<[kind |-> "Audio", at |-> Len(heard) + 1, word |-> is]>>)
    /\ LET n == Len(heard) + 1
           from == IF seg.silence = InSpeech THEN n ELSE seg.silence
           run == n + 1 - from
           stop == ~is /\ run >= Backstop /\ ~seg.backstopped
           cut == ~is /\ ~stop /\ run >= MinPause /\ seg.since /\ ~seg.cut
       IN  /\ seg' = IF is THEN [seg EXCEPT !.silence = InSpeech, !.since = TRUE, !.cut = FALSE]
                     ELSE [silence |-> from, since |-> seg.since /\ ~cut,
                           cut |-> seg.cut \/ cut, backstopped |-> seg.backstopped \/ stop]
           /\ IF cut THEN /\ Decode(Trim(bufStart, CutAt(from) - 1, speech))
                          /\ bufStart' = CutAt(from) /\ speech' = {}
                     ELSE /\ speech' = IF is THEN speech \cup {n} ELSE speech
                          /\ UNCHANGED <<bufStart, jobs, pending>>
    /\ UNCHANGED <<has, begin, phase, decoded, stream, epoch, live, reply, text, recordings>>

(* Session::cancel, and a finish with an offline model to commit: the streaming *)
(* model is told to drop the recording.  Without one it is asked to flush.      *)
EndStream(flush) ==
    /\ epoch' = IF flush THEN epoch ELSE epoch + 1
    /\ ToStream(<<[kind |-> "End", flush |-> flush]>>)

CancelRecording ==
    /\ phase = "recording" /\ phase' = "idle" /\ EndStream(FALSE)
    /\ pending' = <<>>                  \* nobody waits for its replies
    /\ UNCHANGED <<has, heard, begin, seg, bufStart, speech, stream, live, reply, jobs,
                   decoded, text, recordings>>

(* Session::finish: the tail is decoded if speech was heard since the last cut. *)
FinishRecording ==
    /\ phase = "recording" /\ phase' = "committing"
    /\ IF seg.since /\ bufStart <= Len(heard)
       THEN Decode(Trim(bufStart, Len(heard), speech)) ELSE UNCHANGED <<jobs, pending>>
    /\ EndStream("offline" \notin has)
    /\ UNCHANGED <<has, heard, begin, seg, bufStart, speech, stream, live, reply, decoded,
                   text, recordings>>

Commit ==
    /\ phase = "committing" /\ phase' = "idle"
    /\ IF "offline" \in has
       THEN /\ ToSet(pending) \subseteq decoded
            /\ text' = [parts |-> [i \in DOMAIN pending |-> Words(pending[i].lo, pending[i].hi)],
                        from |-> begin, to |-> Len(heard)]
            /\ UNCHANGED reply
       ELSE /\ reply # <<>> /\ reply' = <<>>
            /\ text' = [parts |-> [i \in DOMAIN Head(reply) |-> {Head(reply)[i]}],
                        from |-> begin, to |-> Len(heard)]
    /\ pending' = <<>>
    /\ UNCHANGED <<has, heard, begin, seg, bufStart, speech, toStream, stream, epoch, live,
                   jobs, decoded, recordings>>

-----------------------------------------------------------------------------
(* The workers.                                                                *)

Worker == UNCHANGED <<has, sessionVars, pending, text, epoch, recordings>>

(* job_loop: segments in the order they were queued.                            *)
DecodeNext ==
    /\ jobs # <<>> /\ jobs' = Tail(jobs) /\ decoded' = decoded \cup {Head(jobs)}
    /\ Worker /\ UNCHANGED <<toStream, stream, live, reply>>

(* stream_loop: audio of a recording that was superseded or dropped is not      *)
(* decoded; live is the recording the thread works on.                         *)
StreamNext ==
    /\ toStream # <<>> /\ toStream' = Tail(toStream)
    /\ LET m == Head(toStream)
       IN  \/ /\ m.kind = "Begin" /\ live' = m.id
              /\ stream' = [id |-> m.id, words |-> <<>>] /\ UNCHANGED reply
           \/ /\ m.kind = "Audio" /\ UNCHANGED <<live, reply>>
              /\ stream' = IF stream # NoStream /\ epoch = live /\ m.word
                           THEN [stream EXCEPT !.words = Append(@, m.at)] ELSE stream
           \/ /\ m.kind = "End" /\ stream' = NoStream /\ UNCHANGED live
              /\ reply' = IF m.flush THEN <<stream.words>> ELSE reply
    /\ Worker /\ UNCHANGED <<jobs, decoded>>

TranscribeNext ==
    \/ BeginRecording \/ \E is \in BOOLEAN : Hears(is)
    \/ CancelRecording \/ FinishRecording \/ Commit \/ DecodeNext \/ StreamNext

TranscribeSpec == TranscribeInit /\ [][TranscribeNext]_sttVars

-----------------------------------------------------------------------------
(* What is committed is what was said, all of it, once and in order: no word    *)
(* falls between two segments or is trimmed away, none of an earlier, dropped   *)
(* or superseded recording gets in, wherever the pauses fall and however late   *)
(* the two workers run (session.rs finish, segment.rs push, engine.rs).         *)
CommitIsWhole ==
    /\ UNION ToSet(text.parts) = Words(text.from, text.to)
    /\ \A i, j \in DOMAIN text.parts : i < j =>
          \A v \in text.parts[i], w \in text.parts[j] : v < w
=============================================================================
