------------------------------- MODULE Voice -------------------------------
(* The voice the daemon speaks with, and the files that outlive it
   (cosmo-daemon/src/speech.rs, cosmo-tts/src/phrases.rs, and
   set_string_fields of cosmo-config/src/lib.rs).

   A switch renders the reflex phrases of its voice into the cache, one WAV
   at a time; loads them back; and, unless a newer switch has begun, swaps
   voice and phrases in together.  `cosmo voice set` then writes the
   configuration.  Switches run side by side, and share a directory when they
   are for one voice; the daemon may die between any two steps, and the files
   stay.

   A file is a name and what reading it gives: torn (opened and not yet fully
   written) or whole.  A writer's handle follows its file through renames and
   removals, as a POSIX descriptor does.                                   *)
EXTENDS Naturals, FiniteSets

CONSTANTS
    Switch,      \* the switches and previews clients ask for, each once
    VoiceProvider,    \* voice providers
    VoiceId,     \* names of voices
    MaxPhrases,  \* bound: phrases in the vocabulary
    MaxCrashes   \* bound: deaths of the daemon

ASSUME VoiceAssumption == MaxPhrases \in Nat \ {0} /\ MaxCrashes \in Nat

\* The configuration lies in a directory of its own: it has no voice's name.
ASSUME ConfigIsNoVoice == "config" \notin VoiceProvider

Default == "default"     \* an empty model name: the provider's own default
Torn == <<>>             \* reads as no audio and no configuration
Whole(x) == <<x>>
Nowhere == <<>>          \* the handle of a file that no longer has a name
Warm == "warm"           \* the switch of startup

\* What `Speech` calls a VoiceKey; a model belongs to one provider.
Key == [provider : VoiceProvider, voice : VoiceId, model : {Default} \cup VoiceProvider]
Task == Switch \cup {Warm}
Phrase == 1 .. MaxPhrases
Preview == 0             \* the sample line, kept in a tree of its own

\* The final and the temporary names: one pair per phrase of a voice, and the
\* configuration's.
Wav(k, p) == <<k, p, "wav">>
Tmp(k, p) == <<k, p, "tmp">>
Config == [provider |-> "config", voice |-> "config", model |-> Default]
Ron == <<Config, 0, "ron">>
RonTmp == <<Config, 0, "tmp">>

VARIABLES
    running,        \* is a daemon running?
    fs,        \* the files: name -> content
    handle,    \* handle[t]: the name of the file t is writing, or Nowhere
    voiceNow,    \* the voice in use and how many of its phrases are in memory
    tickets,   \* the switch generation
    task,      \* task[t]: what each switch is doing
    rendered,  \* ghost: keys whose whole vocabulary was rendered
    shared,    \* ghost: two tasks were at one temporary file at once
    deaths

voiceVars == <<running, fs, handle, voiceNow, tickets, task, rendered, shared, deaths>>

Asleep == [at |-> "asleep", op |-> "set", key |-> [provider |-> CHOOSE p \in VoiceProvider : TRUE,
           voice |-> CHOOSE v \in VoiceId : TRUE, model |-> Default], ticket |-> 0, phrase |-> 1]

VoiceInit ==
    \E k \in Key :
        /\ k.model \in {Default, k.provider}
        /\ running = FALSE
        /\ fs = [n \in {Ron} |-> Whole(k)]
        /\ handle = [t \in Task |-> Nowhere]
        /\ voiceNow = [key |-> k, phrases |-> 0]
        /\ tickets = 0
        /\ task = [t \in Task |-> Asleep]
        /\ rendered = {k}
        /\ shared = FALSE
        /\ deaths = 0

Goes(t, at) == task' = [task EXCEPT ![t].at = at]

(***************************************************************************)
(* Files.                                                                  *)
(***************************************************************************)
Readable(n) == n \in DOMAIN fs /\ fs[n] # Torn

\* The temporary name a task is between opening and renaming.
Writing(u) ==
    CASE task[u].at \in {"write", "rename"} -> {Tmp(task[u].key, task[u].phrase)}
      [] task[u].at \in {"save_write", "save_rename"} -> {RonTmp}
      [] OTHER -> {}

\* The files with one more, or with another content of one.
WithFile(files, n, content) ==
    [m \in DOMAIN files \cup {n} |-> IF m = n THEN content ELSE files[m]]

\* std::fs::write opens with truncation, then writes.
Open(t, n) ==
    /\ fs' = WithFile(fs, n, Torn)
    /\ handle' = [handle EXCEPT ![t] = n]
    /\ shared' = (shared \/ \E u \in Task \ {t} : n \in Writing(u))

Write(t, content) ==
    /\ fs' = IF handle[t] = Nowhere THEN fs ELSE WithFile(fs, handle[t], content)
    /\ handle' = [handle EXCEPT ![t] = Nowhere]

\* The names in `gone` disappear, and the handles to them keep a nameless file.
UnlinkFiles(gone) ==
    /\ fs' = [n \in DOMAIN fs \ gone |-> fs[n]]
    /\ handle' = [u \in Task |-> IF handle[u] \in gone THEN Nowhere ELSE handle[u]]

Rename(from, to) ==
    /\ fs' = WithFile([n \in DOMAIN fs \ {from} |-> fs[n]], to, fs[from])
    /\ handle' = [u \in Task |-> CASE handle[u] = to -> Nowhere
                                   [] handle[u] = from -> to
                                   [] OTHER -> handle[u]]

(***************************************************************************)
(* The daemon starts, and dies.                                            *)
(***************************************************************************)
Begun(op, key) == [Asleep EXCEPT !.at = "provider", !.op = op, !.key = key]

\* The configured voice, as the next start reads it, and its warming task.
StartDaemon ==
    /\ ~running
    /\ Readable(Ron)
    /\ running' = TRUE
    /\ voiceNow' = [key |-> fs[Ron][1], phrases |-> 0]
    /\ tickets' = 0
    /\ task' = [task EXCEPT ![Warm] = Begun("warm", fs[Ron][1])]
    /\ UNCHANGED <<fs, handle, rendered, shared, deaths>>

Die ==
    /\ running
    /\ deaths < MaxCrashes
    /\ deaths' = deaths + 1
    /\ running' = FALSE
    /\ handle' = [t \in Task |-> Nowhere]
    /\ task' = [t \in Task |-> IF task[t].at = "asleep" THEN task[t] ELSE [task[t] EXCEPT !.at = "done"]]
    /\ UNCHANGED <<fs, voiceNow, tickets, rendered, shared>>

\* target: another provider starts at its own default model.
TargetOf(p, v) ==
    IF p = voiceNow.key.provider THEN [voiceNow.key EXCEPT !.voice = v]
    ELSE [provider |-> p, voice |-> v, model |-> Default]

AskVoice(t, op, p, v) ==
    /\ running
    /\ t \in Switch /\ task[t].at = "asleep"
    /\ task' = [task EXCEPT ![t] = Begun(op, TargetOf(p, v))]
    /\ UNCHANGED <<running, fs, handle, voiceNow, tickets, rendered, shared, deaths>>

\* A provider refuses a model that is not its own.
Provides(k) == k.model \in {Default, k.provider}

\* The provider is built or found, and has the voice; switch_to takes its
\* ticket.  A preview takes none, and has one phrase.
GetProvider(t) ==
    LET k == task[t].key IN
    /\ task[t].at = "provider"
    /\ Provides(k)
    /\ IF task[t].op = "preview"
       THEN /\ task' = [task EXCEPT ![t].at = "phrase", ![t].phrase = Preview]
            /\ UNCHANGED tickets
       ELSE /\ tickets' = tickets + 1
            /\ task' = [task EXCEPT ![t].at = "phrase", ![t].ticket = tickets + 1]
    /\ UNCHANGED <<running, fs, handle, voiceNow, rendered, shared, deaths>>

\* No provider, no such voice, no synthesis: nothing switches.
GivesUp(t) ==
    /\ task[t].at \in {"provider", "phrase"}
    /\ Goes(t, "done")
    /\ UNCHANGED <<running, fs, handle, voiceNow, tickets, rendered, shared, deaths>>

(***************************************************************************)
(* PhraseCache::render and ensure.                                         *)
(***************************************************************************)
\* After a phrase: the next one, or the sweep; a preview sweeps nothing.
AfterPhrase(t) ==
    IF task[t].phrase \in {Preview, MaxPhrases}
    THEN task' = [task EXCEPT ![t].at = IF task[t].op = "preview" THEN "load" ELSE "sweep"]
    ELSE task' = [task EXCEPT ![t].at = "phrase", ![t].phrase = @ + 1]

\* A file that is there is reused, whatever it holds.
Reuse(t) ==
    /\ task[t].at = "phrase"
    /\ Wav(task[t].key, task[t].phrase) \in DOMAIN fs
    /\ AfterPhrase(t)
    /\ UNCHANGED <<running, fs, handle, voiceNow, tickets, rendered, shared, deaths>>

\* The check that the file is missing comes before the synthesis.
Synthesize(t) ==
    /\ task[t].at = "phrase"
    /\ Wav(task[t].key, task[t].phrase) \notin DOMAIN fs
    /\ Goes(t, "open")
    /\ UNCHANGED <<running, fs, handle, voiceNow, tickets, rendered, shared, deaths>>

NameToWrite(t) == Tmp(task[t].key, task[t].phrase)

OpenPhrase(t) ==
    /\ task[t].at = "open"
    /\ Open(t, NameToWrite(t))
    /\ Goes(t, "write")
    /\ UNCHANGED <<running, voiceNow, tickets, rendered, deaths>>

WritePhrase(t) ==
    /\ task[t].at = "write"
    /\ Write(t, Whole("audio"))
    /\ Goes(t, "rename")
    /\ UNCHANGED <<running, voiceNow, tickets, rendered, shared, deaths>>

\* Another task may have taken the temporary file: the render fails.
RenamePhrase(t) ==
    /\ task[t].at = "rename"
    /\ IF NameToWrite(t) \in DOMAIN fs
       THEN Rename(NameToWrite(t), Wav(task[t].key, task[t].phrase)) /\ AfterPhrase(t)
       ELSE Goes(t, "done") /\ UNCHANGED <<fs, handle>>
    /\ UNCHANGED <<running, voiceNow, tickets, rendered, shared, deaths>>

\* The directory of one provider and voice is shared by its models: whatever
\* is not a phrase of this key goes.
Swept(k) ==
    {n \in DOMAIN fs :
        /\ n[1].provider = k.provider /\ n[1].voice = k.voice
        /\ n[2] # Preview
        /\ n \notin {Wav(k, p) : p \in Phrase}}

Sweep(t) ==
    /\ task[t].at = "sweep"
    /\ UnlinkFiles(Swept(task[t].key))
    /\ rendered' = rendered \cup {task[t].key}
    /\ Goes(t, "load")
    /\ UNCHANGED <<running, voiceNow, tickets, shared, deaths>>

(***************************************************************************)
(* Load, swap, save.                                                       *)
(***************************************************************************)
Loads(t) ==
    IF task[t].op = "preview" THEN {Wav(task[t].key, Preview)}
    ELSE {Wav(task[t].key, p) : p \in Phrase}

\* Mutant: phrases that do not decode are left out.
LoadWhatIsThere(t) ==
    /\ task[t].at = "load"
    /\ task' = [task EXCEPT ![t].at = IF task[t].op = "preview" THEN "played" ELSE "check",
                            ![t].phrase = Cardinality({n \in Loads(t) : Readable(n)})]
    /\ UNCHANGED <<running, fs, handle, voiceNow, tickets, rendered, shared, deaths>>

\* A file another task removed, or is still writing: nothing switches.
Load(t) ==
    /\ task[t].at = "load"
    /\ Goes(t, IF \E n \in Loads(t) : ~Readable(n) THEN "done"
               ELSE IF task[t].op = "preview" THEN "played" ELSE "check")
    /\ UNCHANGED <<running, fs, handle, voiceNow, tickets, rendered, shared, deaths>>

AfterSwitch(t) == IF task[t].op = "set" THEN "save_read" ELSE "done"

\* A superseded switch swaps nothing, and is a success all the same.
CheckTicket(t) ==
    /\ task[t].at = "check"
    /\ Goes(t, IF tickets = task[t].ticket THEN "swap" ELSE AfterSwitch(t))
    /\ UNCHANGED <<running, fs, handle, voiceNow, tickets, rendered, shared, deaths>>

Swap(t) ==
    /\ task[t].at = "swap"
    /\ voiceNow' = [key |-> task[t].key, phrases |-> task[t].phrase]
    /\ Goes(t, AfterSwitch(t))
    /\ UNCHANGED <<running, fs, handle, tickets, rendered, shared, deaths>>

\* set_string_fields: the file is read, the provider and the voice replaced in
\* it and the result validated; a file that does not parse is an error.
ReadConfig(t) ==
    /\ task[t].at = "save_read"
    /\ IF Readable(Ron)
       THEN task' = [task EXCEPT ![t].at = "save_open", ![t].key.model = fs[Ron][1].model]
       ELSE Goes(t, "done")
    /\ UNCHANGED <<running, fs, handle, voiceNow, tickets, rendered, shared, deaths>>

OpenConfig(t) ==
    /\ task[t].at = "save_open"
    /\ Open(t, RonTmp)
    /\ Goes(t, "save_write")
    /\ UNCHANGED <<running, voiceNow, tickets, rendered, deaths>>

WriteConfig(t) ==
    /\ task[t].at = "save_write"
    /\ Write(t, Whole(task[t].key))
    /\ Goes(t, "save_rename")
    /\ UNCHANGED <<running, voiceNow, tickets, rendered, shared, deaths>>

RenameConfig(t) ==
    /\ task[t].at = "save_rename"
    /\ IF RonTmp \in DOMAIN fs THEN Rename(RonTmp, Ron) ELSE UNCHANGED <<fs, handle>>
    /\ Goes(t, "done")
    /\ UNCHANGED <<running, voiceNow, tickets, rendered, shared, deaths>>

VoiceSteps(t) ==
    \/ GetProvider(t) \/ GivesUp(t)
    \/ Reuse(t) \/ Synthesize(t) \/ OpenPhrase(t) \/ WritePhrase(t) \/ RenamePhrase(t) \/ Sweep(t)
    \/ Load(t) \/ CheckTicket(t) \/ Swap(t)
    \/ ReadConfig(t) \/ OpenConfig(t) \/ WriteConfig(t) \/ RenameConfig(t)

VoiceNext ==
    \/ StartDaemon \/ Die
    \/ \E t \in Switch, op \in {"set", "preview"}, p \in VoiceProvider, v \in VoiceId : AskVoice(t, op, p, v)
    \/ \E t \in Task : VoiceSteps(t)

VoiceSpec == VoiceInit /\ [][VoiceNext]_voiceVars

(***************************************************************************)
(* Properties.                                                             *)
(***************************************************************************)
\* What a switch puts in memory is the whole vocabulary of its voice: an ack
\* never falls silent because two renders of one voice, a sweep or a death
\* left the directory short of a file or with half of one
\* (Speech::render_and_load, PhraseCache::render, load).
AcksAreWhole == voiceNow.phrases \in {0, MaxPhrases}

\* A death at any step leaves the old file or the new one under the final
\* name, of a phrase and of the configuration, unless two tasks were writing
\* one temporary file (write_atomically, set_string_fields).
FilesAreWhole ==
    \A n \in DOMAIN fs : fs[n] = Torn => n[3] = "tmp" \/ shared

\* A voice that failed to render is never written to the configuration: the
\* provider and voice the next start reads were rendered, under one model or
\* another (Speech::set_voice).
ConfiguredWasRendered ==
    Readable(Ron) => \E k \in rendered : /\ k.provider = fs[Ron][1].provider
                                         /\ k.voice = fs[Ron][1].voice

\* Whatever renders, sweeps, deaths and switches met on the disk, the phrases in
\* memory are a whole vocabulary, a file under its final name is whole, and the
\* configured voice is one that was rendered (speech.rs, phrases.rs, config).
VoiceIsWhole == AcksAreWhole /\ FilesAreWhole /\ ConfiguredWasRendered
=============================================================================
