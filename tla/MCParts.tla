------------------------------- MODULE MCParts -------------------------------
(***************************************************************************)
(* Small instances of what a turn is made of and calls: the tool loop, the *)
(* judgement of a command line, the reflex matcher, the sentences of a     *)
(* reply, and the native tools with what they keep.  They share no state   *)
(* that is modelled, so a behaviour is of one part, chosen at the start,   *)
(* while the others rest; the forecasts and the news of Lookups are two    *)
(* parts.                                                                  *)
(***************************************************************************)
EXTENDS ToolLoop, Commands, Reflexes, Sentences, Lookups, Settings, Launching, Media,
        Answers

VARIABLE part

partsVars == <<part, loopVars, line, said, sentencesVars, lookupsVars,
               settingsVars, mediaVars, pagesVars, terminalVars, launchingVars>>

\* A part that may start in several ways rests in one of them.
PartsInit ==
  /\ part \in {"loop", "commands", "reflexes", "sentences",
             "weather", "news", "settings", "media", "pages", "terminal", "launching"}
  /\ LoopInit /\ CommandsInit /\ ReflexesInit /\ SentencesInit /\ LookupsInit /\ TerminalInit
  /\ part # "loop" => format = CHOOSE f \in Format : TRUE
  /\ SettingsInit
  /\ part # "settings" => inode[0] = <<Note, OpenParen, Note, CloseParen>>
  /\ MediaInit
  /\ part # "media" => \A p \in Player : status[p] = "Stopped"
  /\ PagesInit
  /\ part # "pages" => url \in Local /\ \A a \in Address : web[a] = "error"
  /\ IF part = "launching" THEN LaunchingInit
     ELSE /\ entries = <<"none", "none">> /\ started = Nothing
          /\ intended = <<Url>> /\ exec = Code

\* The calls of Lookups that ask for these subjects.
Looks(subjects) ==
  /\ LookupsNext
  /\ \A c \in Caller : call'[c].todo \subseteq subjects
  /\ \A s \in Subject \ subjects : version'[s] = version[s]

PartsNext ==
  \/ /\ part = "loop" /\ LoopNext
     /\ UNCHANGED <<part, line, said, sentencesVars, lookupsVars,
                    settingsVars, mediaVars, pagesVars, terminalVars,
                    launchingVars>>
  \/ /\ part = "commands" /\ NextWord
     /\ UNCHANGED <<part, loopVars, said, sentencesVars, lookupsVars,
                    settingsVars, mediaVars, pagesVars, terminalVars,
                    launchingVars>>
  \/ /\ part = "reflexes" /\ NextHeard
     /\ UNCHANGED <<part, loopVars, line, sentencesVars, lookupsVars,
                    settingsVars, mediaVars, pagesVars, terminalVars,
                    launchingVars>>
  \/ /\ part = "sentences" /\ SentencesNext
     /\ UNCHANGED <<part, loopVars, line, said, lookupsVars,
                    settingsVars, mediaVars, pagesVars, terminalVars,
                    launchingVars>>
  \/ /\ part = "weather" /\ Looks(Forecast)
     /\ UNCHANGED <<part, loopVars, line, said, sentencesVars,
                    settingsVars, mediaVars, pagesVars, terminalVars,
                    launchingVars>>
  \/ /\ part = "news" /\ Looks(NewsFeed)
     /\ UNCHANGED <<part, loopVars, line, said, sentencesVars,
                    settingsVars, mediaVars, pagesVars, terminalVars,
                    launchingVars>>
  \/ /\ part = "settings" /\ SettingsNext
     /\ UNCHANGED <<part, loopVars, line, said, sentencesVars,
                    lookupsVars, mediaVars, pagesVars, terminalVars,
                    launchingVars>>
  \/ /\ part = "media" /\ MediaNext
     /\ UNCHANGED <<part, loopVars, line, said, sentencesVars,
                    lookupsVars, settingsVars, pagesVars, terminalVars,
                    launchingVars>>
  \/ /\ part = "pages" /\ PagesNext
     /\ UNCHANGED <<part, loopVars, line, said, sentencesVars,
                    lookupsVars, settingsVars, mediaVars, terminalVars,
                    launchingVars>>
  \/ /\ part = "terminal" /\ TerminalNext
     /\ UNCHANGED <<part, loopVars, line, said, sentencesVars,
                    lookupsVars, settingsVars, mediaVars, pagesVars,
                    launchingVars>>
  \/ /\ part = "launching" /\ LaunchingNext
     /\ UNCHANGED <<part, loopVars, line, said, sentencesVars,
                    lookupsVars, settingsVars, mediaVars, pagesVars,
                    terminalVars>>

PartsSpec == PartsInit /\ [][PartsNext]_partsVars
=============================================================================
