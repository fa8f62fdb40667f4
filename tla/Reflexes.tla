------------------------------ MODULE Reflexes ------------------------------
(***************************************************************************)
(* What a transcript is taken for without a model: the reflex verbs        *)
(* (crates/cosmo-reflex/src/matcher.rs, intent.rs, apps.rs, normalize.rs)  *)
(* and a spoken confirmation (crates/cosmo-gate/src/lib.rs).               *)
(*                                                                         *)
(* A transcript is a sequence of words, lower case and without             *)
(* punctuation; a number is written as a digit or in letters.  An          *)
(* application is the words of its name.  How well words that are not in   *)
(* a name resemble it (letters off, split differently) is left out: the    *)
(* checked words resemble no name they are not part of.                    *)
(***************************************************************************)
EXTENDS Naturals, Sequences, SequencesExt

CONSTANTS
  Heard,            \* the words that are said
  Stray,            \* a word no verb and no name accounts for
  MaxHeard          \* bound: words in a transcript

VARIABLES
  said              \* the transcript so far

Filler   == {"please", "hey", "cosmo", "for", "me", "ok", "now"}
Articles == {"the", "a", "my"}
Thing    == {"music", "it", "this"}
PlayerName == {"spotify"}
Sound    == {"volume", "sound"}
Spaces   == {"workspace", "desktop"}
Larger   == {"up", "louder"}
Smaller  == {"down", "quieter"}
Number(w) == CASE w \in {"1", "one", "won"} -> 1 [] w \in {"2", "two", "to", "too"} -> 2
               [] w \in {"4", "four", "for", "fore"} -> 4 [] OTHER -> 0
Numeral  == {"1", "one", "2", "two", "4", "four"}

\* Installed applications, by the words of their names.
Apps == {<<"spotify">>, <<"web", "terminal">>}

NoMatch     == "no match"
Threshold == 80     \* a confidence, in hundredths

----------------------------------------------------------------------------
(* Patterns: a sequence of sets of words.                                  *)

Is(w, p) == Len(w) = Len(p) /\ \A i \in DOMAIN p : w[i] \in p[i]
IsAny(w, ps) == \E p \in ps : Is(w, p)
Begins(w, p) == Len(w) >= Len(p) /\ \A i \in DOMAIN p : w[i] \in p[i]
Rest(w, n) == SubSeq(w, n + 1, Len(w))
Chosen(w, places) == FlattenSeq([i \in DOMAIN w |-> IF i \in places THEN <<w[i]>> ELSE <<>>])
Without(w, ws) == Chosen(w, {i \in DOMAIN w : w[i] \notin ws})

\* words: "work space" is one word.
TwoWords(s, i) == i \in 1..(Len(s) - 1) /\ s[i] = "work" /\ s[i + 1] = "space"
Words(s) == FlattenSeq([i \in DOMAIN s |-> IF TwoWords(s, i) THEN <<"workspace">>
                                          ELSE IF TwoWords(s, i - 1) THEN <<>> ELSE <<s[i]>>])

\* workspace_number: the word after the first "workspace", a homophone counted.
WorkspaceNumber(raw) ==
  LET at == {i \in DOMAIN raw : raw[i] \in Spaces}
      first == CHOOSE i \in at : \A j \in at : i <= j
  IN IF at = {} \/ first = Len(raw) THEN 0 ELSE Number(raw[first + 1])

\* Filler is dropped wherever it stands, except after "workspace".
Unfilled(raw) == Chosen(raw, {i \in DOMAIN raw : raw[i] \notin Filler \/ (i > 1 /\ raw[i - 1] \in Spaces)})

\* media.  "back" is dropped first, so its last rule never applies.
Media(u) ==
  LET w == Without(u, {"some", "again", "back"})
      thing(r) == r = <<>> \/ Is(r, <<Thing>>)
      named(r) == thing(r) \/ Is(r, <<PlayerName>>)
  IN CASE Begins(w, <<{"pause"}>>) /\ named(Rest(w, 1)) -> "pause"
       [] Is(w, <<{"stop"}, Thing>>) -> "stop"
       [] Begins(w, <<{"play", "resume"}>>) /\ named(Rest(w, 1)) -> "play"
       [] IsAny(w, {<<{"start", "continue"}, {"playing"} \cup Thing>>, <<{"turn"}, {"on"}, Thing>>,
                    <<{"turn"}, Thing, {"on"}>>}) -> "play"
       [] IsAny(w, {<<{"turn"}, {"off"}, Thing>>, <<{"turn"}, Thing, {"off"}>>}) -> "pause"
       [] Begins(w, <<{"next", "skip"}>>) /\ thing(Rest(w, 1)) -> "next"
       [] Begins(w, <<{"skip"}, {"this"}>>) /\ thing(Rest(w, 2)) -> "next"
       [] IsAny(w, {<<{"previous"}>>, <<{"previous", "last"}, Thing>>}) -> "previous"
       [] Begins(w, <<{"go", "skip"}, {"back"}>>) /\ thing(Rest(w, 2)) -> "previous"
       [] OTHER -> NoMatch

\* ask: the clock's questions.
Ask(w) == IF IsAny(w, {<<{"what"}, {"time"}, {"is"}, {"it"}>>, <<{"what's"}, {"time"}>>, <<{"time"}>>})
          THEN "time"
          ELSE IF IsAny(w, {<<{"what"}, {"day"}, {"is"}, {"it"}>>, <<{"what's"}, {"date"}>>}) THEN "date"
          ELSE NoMatch

\* The amount of a change: none, a bit, or a number of percent.
Amount(r) ==
  LET n == IF Begins(r, <<{"by"}>>) THEN Rest(r, 1) ELSE r
  IN n = <<>> \/ Is(n, <<{"bit"} \cup Numeral>>) \/ Is(n, <<Numeral, {"percent"}>>)

\* volume.
Volume(u) ==
  LET w == Without(u, {"back"})
      turns == Larger \cup Smaller
  IN IF \/ IsAny(w, {<<{"mute", "unmute"}>>, <<{"mute", "unmute"}, Sound \cup {"it"}>>,
                     <<{"turn"}, Sound, {"on", "off"}>>, <<{"turn"}, {"on", "off"}, Sound>>,
                     <<{"louder", "quieter"}>>,
                     <<{"set", "turn"}, Sound, {"to"}, Numeral>>,
                     <<{"set", "turn"}, Sound, {"to"}, Numeral, {"percent"}>>})
        \/ Begins(w, <<{"volume"}, turns>>) /\ Amount(Rest(w, 2))
        \/ Begins(w, <<{"turn"}, Sound \cup {"it"}, turns>>) /\ Amount(Rest(w, 3))
        \/ Begins(w, <<{"turn"}, turns, Sound>>) /\ Amount(Rest(w, 3))
        \/ Begins(w, <<{"raise", "lower"}, Sound>>) /\ Amount(Rest(w, 2))
     THEN "volume" ELSE NoMatch

\* The words that mean the focused window.
AnyWords(r) == TRUE
ThisWindow(r) == r = <<>> \/ IsAny(r, {<<{"this", "it", "window"}>>, <<{"this"}, {"window"}>>})

\* workspaces: the number was read before filler was dropped.
Workspaces(w, n) ==
  LET to == {i \in 2..Len(w) : w[i] = "to"}
      first == CHOOSE i \in to : \A j \in to : i <= j
  IN IF n = 0 THEN NoMatch
     ELSE IF \/ Len(w) = 4 /\ Begins(w, <<{"switch", "go"}, {"to"}, Spaces>>)
             \/ Len(w) = 2 /\ Begins(w, <<Spaces>>) THEN "switch_workspace"
     ELSE IF /\ Begins(w, <<{"move", "send", "put"}>>) /\ to # {}
             /\ ThisWindow(SubSeq(w, 2, first - 1))
             /\ Len(w) = first + 2 /\ w[first + 1] \in Spaces THEN "move_window_to_workspace"
     ELSE NoMatch

\* window.
Windows(w) == IF Begins(w, <<{"maximize", "minimize"}>>) /\ ThisWindow(Rest(w, 1)) THEN w[1] ELSE NoMatch

\* AppIndex::find: the best score, cut when another name is as good.
Similarity(q, k) == IF q = k THEN 100
                    ELSE IF \A i \in DOMAIN q : q[i] \in ToSet(k) THEN 70 + (20 * Len(q)) \div Len(k)
                    ELSE 0
Find(q) ==
  LET best == CHOOSE a \in Apps : \A b \in Apps : Similarity(q, a) >= Similarity(q, b)
      score == Similarity(q, best)
      rival == \E b \in Apps \ {best} : score - Similarity(q, b) < 5
  IN IF rival THEN (85 * score) \div 100 ELSE score

\* A leading word that adds nothing, when launching.
Particle(r, w) == IF r # <<>> /\ r[1] = w THEN Tail(r) ELSE r

\* app_verb: launch or focus an application, with its confidence.
AppVerb(w) ==
  LET launch == Begins(w, <<{"open", "launch", "start", "run"}>>)
      focus1 == Begins(w, <<{"focus", "show"}>>)
      focus2 == Begins(w, <<{"switch", "go"}, {"to"}>>)
      rest == Without(Rest(w, IF focus2 THEN 2 ELSE 1), Articles)
      n == Len(rest)
      placed == /\ launch /\ n >= 3
                /\ Is(SubSeq(rest, n - 2, n), <<{"in", "on"}, {"new"}, Spaces>>)
      head == IF placed THEN SubSeq(rest, 1, n - 3) ELSE rest
      name == IF launch THEN Particle(Particle(head, "up"), "new") ELSE head
  IN IF (launch \/ focus1 \/ focus2) /\ name # <<>> /\ Find(name) >= Threshold
     THEN IF placed THEN "launch on a new workspace" ELSE IF launch THEN "launch" ELSE "focus"
     ELSE NoMatch

\* match_text, at or above THRESHOLD: the first verb that reads every word.
Match(s) ==
  LET raw == Words(s)
      w == Without(Unfilled(raw), Articles)
      verbs == <<Media(w), Volume(w), Ask(w), Workspaces(w, WorkspaceNumber(raw)), Windows(w), AppVerb(w)>>
      hits == {i \in DOMAIN verbs : verbs[i] # NoMatch}
  IN IF hits = {} THEN NoMatch ELSE verbs[Min(hits)]

\* is_confirm_utterance: the whole utterance is one of the phrases.
ConfirmPhrases == {<<"confirm">>, <<"yes">>, <<"yes", "please">>, <<"ok">>, <<"do", "it">>, <<"go", "ahead">>}
IsConfirmUtterance(s) == s \in ConfirmPhrases

\* Every word of a pattern, a name, a number or a phrase.
Vocabulary ==
  UNION {Filler, Articles, Thing, PlayerName, Sound, Spaces, Larger, Smaller, Numeral,
         {"won", "too", "fore"}, {"work", "space"}, {"web", "terminal"},
         {"some", "again", "back", "pause", "stop", "play", "resume", "start", "continue", "playing",
          "turn", "on", "off", "next", "skip", "previous", "last", "go"},
         {"what", "what's", "time", "is", "day", "date"},
         {"by", "bit", "percent", "mute", "unmute", "set", "to", "raise", "lower"},
         {"window", "switch", "move", "send", "put", "maximize", "minimize"},
         {"open", "launch", "run", "focus", "show", "in", "new"},
         {"confirm", "yes", "do", "ahead"}}

ASSUME ReflexesAssumption == MaxHeard \in Nat /\ Stray \notin Vocabulary

----------------------------------------------------------------------------

ReflexesInit == said = <<>>

NextHeard ==
  /\ Len(said) < MaxHeard
  /\ \E w \in Heard : said' = Append(said, w)

ReflexesSpec == ReflexesInit /\ [][NextHeard]_said

----------------------------------------------------------------------------
(* Properties.                                                             *)

\* What is left after filler must be entirely one of the verbs (matcher.rs): a
\* word nobody accounts for, wherever it is said, escalates the transcript to
\* reasoning, and keeps a confirmation from being one.
StrayWordEscalates ==
  said # <<>> =>
    \A i \in 0..Len(said) :
      LET heard == SubSeq(said, 1, i) \o <<Stray>> \o Rest(said, i)
      IN Match(heard) = NoMatch /\ ~IsConfirmUtterance(heard)
=============================================================================
