------------------------------- MODULE MCAudio -------------------------------
(***************************************************************************)
(* Small instances of the player, the microphone's ring, the speech to     *)
(* text behind it, the voice with its files, and the accounts of the       *)
(* providers.  They share no state that is modelled here (Display has the  *)
(* player meet the ears), so a behaviour is of one part, chosen at the     *)
(* start, while the others rest.                                           *)
(***************************************************************************)
EXTENDS Playback, Capture, Transcribe, Voice, Accounts

VARIABLE part

Init ==
  /\ part \in {"playback", "capture", "transcribe", "voice", "accounts"}
  /\ CaptureInit
  /\ TranscribeInit
  /\ part # "transcribe" => has = {"stream"}
  /\ PlaybackInit
  /\ part # "playback" => rateOf \in [Clip -> {"low"}] /\ quanta \in [Clip -> {1}]
  /\ VoiceInit
  /\ part # "voice" => voiceNow.key = Asleep.key
  /\ AccountsInit
  /\ part # "accounts" => file.provider = CHOOSE p \in Provider : TRUE

Next ==
  \/ part = "playback" /\ PlaybackNext
       /\ UNCHANGED <<part, captureVars, sttVars, voiceVars, accountsVars>>
  \/ part = "capture" /\ CaptureNext
       /\ UNCHANGED <<part, playVars, sttVars, voiceVars, accountsVars>>
  \/ part = "transcribe" /\ TranscribeNext
       /\ UNCHANGED <<part, playVars, captureVars, voiceVars, accountsVars>>
  \/ part = "voice" /\ VoiceNext
       /\ UNCHANGED <<part, playVars, captureVars, sttVars, accountsVars>>
  \/ part = "accounts" /\ AccountsNext
       /\ UNCHANGED <<part, playVars, captureVars, sttVars, voiceVars>>

vars == <<part, playVars, captureVars, sttVars, voiceVars, accountsVars>>

Spec == Init /\ [][Next]_vars

\* From the ring to the text nothing is lost, repeated or of another time: the watcher
\* copies what was captured and has a stretch of speech checked once, and a commit
\* is every word that was said (ring.rs, wake.rs, segment.rs, session.rs).
HeardIsWhole == ReadIsWritten /\ OneCheckAStretch /\ CommitIsWhole
=============================================================================
