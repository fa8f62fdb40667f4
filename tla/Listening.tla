----------------------------- MODULE Listening ------------------------------
(* From a finger on the trigger key to a turn: the evdev watcher over every    *)
(* keyboard (cosmo-hotkey), the channel of triggers, and the controller that   *)
(* runs one recording at a time, started by the key, by `cosmo listen` or by   *)
(* the wake word (ears.rs).  What the models hear is an outcome; Transcribe    *)
(* models the decoding.                                                        *)
EXTENDS Naturals, Sequences, FiniteSets

CONSTANTS Keyboard,
          MaxHolds,      \* bound: presses of the trigger
          MaxPlugs,      \* bound: keyboards pulled out
          MaxToggles,    \* bound: `cosmo listen`
          MaxWakes       \* bound: wake checks

ASSUME ListeningAssumption ==
    {MaxHolds, MaxPlugs, MaxToggles, MaxWakes} \subseteq Nat

VARIABLES plugged, readable, \* device nodes that exist; that the user may open
          down,              \* keyboards whose trigger is physically down
          attached,          \* keyboards with an open descriptor
          dead,              \* ... whose device has gone since
          unread,            \* values waiting on each descriptor
          news, rescan,      \* inotify has events; the watcher's rescan flag
          held,              \* TriggerState: descriptors holding the trigger
          holds,             \* presses of the combined trigger so far
          triggers,          \* channel to the controller
          paused,            \* `cosmo toggle`
          ctl,               \* the controller: [phase, start, hold, end, last]
          turn,              \* the last turn handed on
          presses, plugs, toggles, wakes
listenVars == <<plugged, readable, down, attached, dead, unread, news, rescan, held,
                holds, triggers, paused, ctl, turn, presses, plugs, toggles, wakes>>
deskVars == <<plugged, readable, down, presses, plugs>>
watchVars == <<attached, dead, unread, news, rescan, held, holds>>
earVars == <<paused, ctl, turn, toggles, wakes>>

Idle == [phase |-> "idle", start |-> "none", hold |-> 0, end |-> "none", last |-> 0]
NoTurn == [source |-> "none", start |-> "none", hold |-> 0, end |-> "none", last |-> 0]

ListeningInit ==
    /\ plugged = Keyboard /\ readable = Keyboard /\ down = {}
    /\ attached = {} /\ dead = {} /\ unread = [k \in Keyboard |-> <<>>]
    /\ news = FALSE /\ rescan = TRUE /\ held = {} /\ holds = 0 /\ triggers = <<>>
    /\ paused = FALSE /\ ctl = Idle /\ turn = NoTurn
    /\ presses = 0 /\ plugs = 0 /\ toggles = 0 /\ wakes = 0

-----------------------------------------------------------------------------
(* The desk: keys go down and up, keyboards are pulled out and put back.  A     *)
(* node appears before logind lets the user open it; each change is an inotify  *)
(* event.  A vanished device takes its unread events with it.                  *)

Live == attached \ dead
KeyEdge(k, value) ==
    unread' = IF k \in Live THEN [unread EXCEPT ![k] = Append(@, value)] ELSE unread

KeyDown(k) ==
    /\ k \in plugged \ down /\ presses < MaxHolds /\ presses' = presses + 1
    /\ down' = down \cup {k} /\ KeyEdge(k, 1)
    /\ UNCHANGED <<plugged, readable, plugs, attached, dead, news, rescan, held, holds,
                   triggers, earVars>>
KeyUp(k) ==
    /\ k \in down /\ down' = down \ {k} /\ KeyEdge(k, 0)
    /\ UNCHANGED <<plugged, readable, presses, plugs, attached, dead, news, rescan, held, holds,
                   triggers, earVars>>
Unplug(k) ==
    /\ k \in plugged /\ plugs < MaxPlugs /\ plugs' = plugs + 1
    /\ plugged' = plugged \ {k} /\ readable' = readable \ {k} /\ down' = down \ {k}
    /\ dead' = dead \cup ({k} \cap attached) /\ news' = TRUE
    /\ unread' = [unread EXCEPT ![k] = <<>>]
    /\ UNCHANGED <<presses, attached, rescan, held, holds, triggers, earVars>>
Plug(k) ==
    /\ k \notin plugged /\ plugged' = plugged \cup {k} /\ news' = TRUE
    /\ UNCHANGED <<readable, down, presses, plugs, attached, dead, unread, rescan, held, holds,
                   triggers, earVars>>
Permit(k) ==
    /\ k \in plugged \ readable /\ readable' = readable \cup {k} /\ news' = TRUE
    /\ UNCHANGED <<plugged, down, presses, plugs, attached, dead, unread, rescan, held, holds,
                   triggers, earVars>>

-----------------------------------------------------------------------------
(* The watcher thread.  A path that is still open is not opened again.          *)

Rescan ==
    /\ rescan /\ rescan' = FALSE
    /\ attached' = attached \cup readable
    /\ UNCHANGED <<deskVars, dead, unread, news, held, holds, triggers, earVars>>

Hotplug ==
    /\ ~rescan /\ news /\ news' = FALSE /\ rescan' = TRUE
    /\ UNCHANGED <<deskVars, attached, dead, unread, held, holds, triggers, earVars>>

(* TriggerState: the combined trigger is held while any keyboard holds it.      *)
Send(kind, n) == triggers' = Append(triggers, [kind |-> kind, hold |-> n])

HoldsNow(s) ==
    /\ held' = s
    /\ \/ /\ held = {} /\ s # {} /\ holds' = holds + 1 /\ Send("Press", holds + 1)
       \/ /\ held # {} /\ s = {} /\ Send("Release", holds) /\ UNCHANGED holds
       \/ /\ (held = {}) = (s = {}) /\ UNCHANGED <<holds, triggers>>

ReadEdge(k) ==
    /\ ~rescan /\ k \in Live /\ unread[k] # <<>>
    /\ unread' = [unread EXCEPT ![k] = Tail(@)]
    /\ HoldsNow(IF Head(unread[k]) = 1 THEN held \cup {k} ELSE held \ {k})
    /\ UNCHANGED <<deskVars, attached, dead, news, rescan, earVars>>

RescanNot == rescan     \* the watcher goes on with the devices it has
RescanAfter == TRUE
DeviceGone(k) ==
    /\ ~rescan /\ k \in attached \cap dead
    /\ attached' = attached \ {k} /\ dead' = dead \ {k} /\ rescan' = RescanAfter
    /\ HoldsNow(held \ {k})
    /\ UNCHANGED <<deskVars, unread, news, earVars>>

-----------------------------------------------------------------------------
(* The rest of the daemon: `cosmo listen`, `cosmo toggle`.                      *)

ListenToggle ==
    /\ toggles < MaxToggles /\ toggles' = toggles + 1 /\ Send("Toggle", 0)
    /\ UNCHANGED <<deskVars, watchVars, paused, ctl, turn, wakes>>
PauseToggle ==
    /\ toggles < MaxToggles /\ toggles' = toggles + 1 /\ paused' = ~paused
    /\ UNCHANGED <<deskVars, watchVars, triggers, ctl, turn, wakes>>

-----------------------------------------------------------------------------
(* The controller.                                                             *)

Ear == UNCHANGED <<deskVars, watchVars, paused, toggles>>
Receives(kind) == triggers # <<>> /\ Head(triggers).kind = kind /\ triggers' = Tail(triggers)
Go(phase) == ctl' = [ctl EXCEPT !.phase = phase]
Ends(how, n, phase) == ctl' = [ctl EXCEPT !.end = how, !.last = n, !.phase = phase]

(* run: a start is dropped while paused, while the models are loading or have   *)
(* failed, and when record cannot open a session.                              *)
Started(start, n) == [Idle EXCEPT !.phase = "recording", !.start = start, !.hold = n]
Begin(start, n) ==
    ctl' \in (IF paused THEN {Idle}
              ELSE {Idle, Started(start, n)})

StartByKey ==
    /\ ctl.phase \in {"idle", "checking"} /\ Receives("Press")
    /\ Begin("Key", Head(triggers).hold)
    /\ Ear /\ UNCHANGED <<turn, wakes>>
StartByToggle ==
    /\ ctl.phase \in {"idle", "checking"} /\ Receives("Toggle") /\ Begin("Toggle", 0)
    /\ Ear /\ UNCHANGED <<turn, wakes>>
StrayRelease ==
    /\ ctl.phase \in {"idle", "checking"} /\ Receives("Release") /\ ctl' = Idle
    /\ Ear /\ UNCHANGED <<turn, wakes>>

(* Watcher::step: a stretch of speech is decoded once while idle.               *)
WakeCheck ==
    /\ ctl.phase = "idle" /\ ~paused
    /\ wakes < MaxWakes /\ wakes' = wakes + 1
    /\ Go("checking") /\ Ear /\ UNCHANGED <<triggers, turn>>
WakeHeard ==
    /\ ctl.phase = "checking" /\ Begin("Wake", 0) /\ Ear /\ UNCHANGED <<triggers, turn, wakes>>
WakeNotHeard ==
    /\ ctl.phase = "checking" /\ ctl' = Idle /\ Ear /\ UNCHANGED <<triggers, turn, wakes>>

(* record: its loop over triggers and the 30 ms tick.  A hold under MIN_HOLD    *)
(* is a tap; a press during a wake recording drops it and starts the key's own. *)
ReleaseEnds ==
    /\ ctl.phase = "recording" /\ ctl.start = "Key" /\ Receives("Release")
    /\ \/ ctl' = Idle
       \/ Ends("release", Head(triggers).hold, "tail")
    /\ Ear /\ UNCHANGED <<turn, wakes>>
ToggleEnds ==
    /\ ctl.phase = "recording" /\ Receives("Toggle")
    /\ \/ ctl.start = "Key" /\ ctl' = Idle
       \/ Ends("toggle", 0, "tail")
    /\ Ear /\ UNCHANGED <<turn, wakes>>
PressTakesOver ==
    /\ ctl.phase = "recording" /\ ctl.start = "Wake" /\ Receives("Press")
    /\ ctl' \in {Idle, Started("Key", Head(triggers).hold)}
    /\ Ear /\ UNCHANGED <<turn, wakes>>
Ignored ==
    /\ ctl.phase = "recording" /\ triggers # <<>> /\ triggers' = Tail(triggers)
    /\ \/ Head(triggers).kind = "Release" /\ ctl.start # "Key"
       \/ Head(triggers).kind = "Press" /\ ctl.start # "Wake"
    /\ Ear /\ UNCHANGED <<ctl, turn, wakes>>
TimeIsUpUnheld ==      \* while the key is held, only its release ends the recording
    /\ ctl.phase = "recording" /\ ctl.start # "Key" /\ Ends("timeout", 0, "finishing")
    /\ Ear /\ UNCHANGED <<triggers, turn, wakes>>

TimeIsUp ==      \* the silence backstop, the length cap, a wake recording's pause
    /\ ctl.phase = "recording" /\ Ends("timeout", 0, "finishing")
    /\ Ear /\ UNCHANGED <<triggers, turn, wakes>>
TailEnds ==
    /\ ctl.phase = "tail" /\ Go("finishing") /\ Ear /\ UNCHANGED <<triggers, turn, wakes>>

SourceOfTrigger(start) == IF start = "Wake" THEN "OpenMic" ELSE "KeyHeld"  \* a toggle is a trigger too
SourceOf(start) == IF start = "Key" THEN "KeyHeld" ELSE "OpenMic"
Finish ==
    /\ ctl.phase = "finishing" /\ ctl' = Idle
    /\ \/ UNCHANGED turn             \* nothing said, no command after the wake phrase, failed
       \/ turn' = [source |-> SourceOf(ctl.start), start |-> ctl.start,
                   hold |-> ctl.hold, end |-> ctl.end, last |-> ctl.last]
    /\ Ear /\ UNCHANGED <<triggers, wakes>>

-----------------------------------------------------------------------------
WatcherSteps == Rescan \/ Hotplug \/ \E k \in Keyboard : ReadEdge(k) \/ DeviceGone(k)
CheckSteps == WakeHeard \/ WakeNotHeard
CommitSteps == TailEnds \/ Finish

ListeningNext ==
    \/ \E k \in Keyboard : KeyDown(k) \/ KeyUp(k) \/ Unplug(k) \/ Plug(k) \/ Permit(k)
    \/ WatcherSteps \/ ListenToggle \/ PauseToggle 
    \/ StartByKey \/ StartByToggle \/ StrayRelease \/ WakeCheck \/ CheckSteps
    \/ ReleaseEnds \/ ToggleEnds \/ PressTakesOver \/ Ignored \/ TimeIsUp \/ CommitSteps

(* The watcher's loop runs; the controller's timers fire, its decodes answer.   *)
ListeningFairness ==
    /\ WF_listenVars(WatcherSteps) /\ WF_listenVars(TimeIsUp)
    /\ WF_listenVars(CheckSteps) /\ WF_listenVars(CommitSteps)

ListeningSpec == ListeningInit /\ [][ListeningNext]_listenVars /\ ListeningFairness

-----------------------------------------------------------------------------
(* Only a physical key hold may confirm (gate invariant 5): a turn taken as     *)
(* key-held was recorded from the press of one hold, and when a release ended   *)
(* it, that hold's own, with two keyboards, unplugged ones, wake recordings cut *)
(* off by the key and `cosmo listen` in between (ears.rs run, record).          *)
KeyHeldIsOneHold ==
    turn.source = "KeyHeld" =>
        /\ turn.start = "Key" /\ turn.hold > 0
        /\ turn.end = "release" => turn.last = turn.hold

(* Every recording ends, also when the key's release was lost or the models     *)
(* are slow: cosmo does not listen for ever (ears.rs backstop and caps).        *)
RecordingEnds == ctl.phase # "idle" ~> ctl.phase = "idle"

(* The watcher catches up with the desk: a keyboard the user may open is        *)
(* watched again however unplugging, replugging and the late access right fall  *)
(* around its scans, and a trigger nobody holds any more is let go of, also     *)
(* when the release went with the device (cosmo-hotkey run, forget).            *)
WatcherCatchesUp ==
    /\ \A k \in Keyboard : k \in readable ~> k \in Live \/ k \notin readable
    /\ down = {} ~> held = {} \/ down # {}
=============================================================================
