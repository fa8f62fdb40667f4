-------------------------------- MODULE Media --------------------------------
(***************************************************************************)
(* The media tool (crates/cosmo-tools/src/media.rs): a command lists the   *)
(* players on the bus, decides by their states which of them it goes to,   *)
(* and sends it to one after the other, while the user and other commands  *)
(* work the same players.                                                  *)
(***************************************************************************)
EXTENDS Naturals

CONSTANTS
  Player,       \* the players on the bus, in the order of their names
  Command,      \* tool calls
  MaxByHand     \* bound: what the user does at the players themself

VARIABLES
  status,       \* status[p]: "Playing", "Paused", "Stopped" or "Gone"
  paused,       \* LAST_PAUSED: the players cosmo last paused or stopped
  doing,        \* doing[c]: what a tool call is at
  byHand,       \* what the user did so far
  silenced      \* ghost: the players that the last pause found playing, while
                \* nothing else was done to any player

mediaVars == <<status, paused, doing, byHand, silenced>>

Verb == {"pause", "stop", "play", "play_pause", "next"}
NotListed == [p \in Player |-> "Gone"]
NoCommand == [verb |-> "none", at |-> "free", names |-> {}, list |-> NotListed, to |-> {}]
Busy(c) == doing[c].at # "free"

MediaInit ==
  /\ status \in [Player -> {"Playing", "Paused", "Stopped"}]
  /\ paused = {}
  /\ doing = [c \in Command |-> NoCommand]
  /\ byHand = 0
  /\ silenced = {}

----------------------------------------------------------------------------
(* targets: which players a verb goes to.                                  *)

In(list, s) == {p \in Player : list[p] = s}
Ours(list)  == In(list, "Paused") \cap paused
FirstByName(players) == {p \in players : \A q \in players : p <= q}

\* The first player of the first of these states that any player is in.
FirstIn(list, order) ==
  UNION {FirstByName(In(list, order[i])) :
           i \in {i \in DOMAIN order : \A j \in 1..i - 1 : In(list, order[j]) = {}}}

\* Mutant: play resumes one of them.
ResumeOne(list) == FirstIn(list, <<"Paused", "Stopped">>)

\* What cosmo paused and is still paused; else one that is paused or stopped.
Resume(list) == IF Ours(list) # {} THEN Ours(list) ELSE FirstIn(list, <<"Paused", "Stopped">>)

Targets(verb, list) ==
  CASE verb \in {"pause", "stop"} -> In(list, "Playing")
    [] verb = "play" -> Resume(list)
    [] verb = "play_pause" -> IF In(list, "Playing") # {} THEN In(list, "Playing") ELSE Resume(list)
    [] verb = "next" -> FirstIn(list, <<"Playing", "Paused", "Stopped">>)

\* What a player does with it.
After(verb, s) ==
  CASE verb = "pause" -> IF s = "Playing" THEN "Paused" ELSE s
    [] verb = "stop" -> "Stopped"
    [] verb = "play" -> "Playing"
    [] verb = "play_pause" -> IF s = "Playing" THEN "Paused" ELSE "Playing"
    [] verb = "next" -> s

----------------------------------------------------------------------------

\* A command asks the bus for the players,
List(c) ==
  /\ ~Busy(c)
  /\ \E verb \in Verb :
       /\ doing' = [doing EXCEPT ![c] = [NoCommand EXCEPT !.verb = verb, !.at = "asking",
                                                         !.names = {p \in Player : status[p] # "Gone"}]]
       /\ silenced' = IF verb = "play" /\ \A d \in Command : ~Busy(d) THEN silenced ELSE {}
  /\ UNCHANGED <<status, paused, byHand>>

\* and each of them for its state; one that does not answer is left out.
AskState(c) ==
  /\ doing[c].at = "asking"
  /\ \E p \in doing[c].names :
       doing' = [doing EXCEPT ![c].names = @ \ {p}, ![c].list[p] = status[p]]
  /\ UNCHANGED <<status, paused, byHand, silenced>>

\* No player, or none to send to: that is the answer.
Choose(c) ==
  /\ doing[c].at = "asking" /\ doing[c].names = {}
  /\ LET to == Targets(doing[c].verb, doing[c].list)
     IN doing' = [doing EXCEPT ![c] = IF to = {} THEN NoCommand ELSE [@ EXCEPT !.at = "sending", !.to = to]]
  /\ UNCHANGED <<status, paused, byHand, silenced>>

\* Sent to the next player.  One that is gone fails the call, and what was sent
\* so far is forgotten.
SendTo(c) ==
  /\ doing[c].at = "sending"
  /\ \E p \in FirstByName(doing[c].to) :
       IF status[p] = "Gone"
       THEN doing' = [doing EXCEPT ![c] = NoCommand] /\ UNCHANGED status
       ELSE /\ status' = [status EXCEPT ![p] = After(doing[c].verb, @)]
            /\ doing' = [doing EXCEPT ![c].to = @ \ {p}]
  /\ UNCHANGED <<paused, byHand, silenced>>

\* Every player has it: what was paused or stopped is remembered.
MediaDone(c) ==
  /\ doing[c].at = "sending" /\ doing[c].to = {}
  /\ LET to == In(doing[c].list, "Playing")
         alone == \A d \in Command \ {c} : ~Busy(d)
     IN /\ paused' = IF doing[c].verb \in {"pause", "stop"} THEN to ELSE paused
        /\ silenced' = IF doing[c].verb = "pause" /\ alone /\ \A p \in to : status[p] = "Paused" THEN to ELSE {}
  /\ doing' = [doing EXCEPT ![c] = NoCommand]
  /\ UNCHANGED <<status, byHand>>

\* The user works a player, or quits it.
ByHand(p) ==
  /\ byHand < MaxByHand
  /\ status[p] # "Gone"
  /\ byHand' = byHand + 1
  /\ \E s \in {"Playing", "Paused", "Stopped", "Gone"} \ {status[p]} : status' = [status EXCEPT ![p] = s]
  /\ silenced' = {}
  /\ UNCHANGED <<paused, doing>>

MediaNext == \/ \E c \in Command : List(c) \/ AskState(c) \/ Choose(c) \/ SendTo(c) \/ MediaDone(c)
             \/ \E p \in Player : ByHand(p)

MediaSpec == MediaInit /\ [][MediaNext]_mediaVars

----------------------------------------------------------------------------
(* Properties.                                                             *)

\* "Pause", and nothing else is done to a player, and then "play": every player
\* that was silenced plays again, and no other is sent anything.
PlayUndoesPause ==
  \A c \in Command : doing[c].verb = "play" /\ doing[c].at = "sending" /\ silenced # {} =>
    silenced = doing[c].to \cup {p \in silenced : status[p] = "Playing"}
=============================================================================
