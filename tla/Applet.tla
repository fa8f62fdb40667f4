------------------------------- MODULE Applet -------------------------------
(* The panel applet (cosmo-applet/src/main.rs): an icon and a popup that
   follow the daemon's events, and commands to it.

   Unlike the overlay it counts the held calls instead of keeping them: one
   more for each `held`, one fewer for each `resolved`, and the number the
   daemon reports when it connects.  That answer comes over a connection of
   its own.                                                                *)
EXTENDS Stream

CONSTANT MaxClicks   \* bound: clicks on the pause switch

VARIABLES
    icon,      \* what the applet shows: [connected, state, holds, paused]
    requests,  \* requests sent and not handled, in no order
    replies,   \* answers not taken yet, in no order
    clicks,
    muddled    \* ghost: an event was skipped, or overtook another or a status

appletFace == <<icon, requests, replies, clicks>>
appletVars == <<streamVars, appletFace, muddled>>

Dark == [connected |-> FALSE, state |-> "Idle", holds |-> 0, paused |-> FALSE]

AppletInit ==
    /\ StreamInit
    /\ icon = Dark
    /\ requests = {}
    /\ replies = {}
    /\ clicks = 0
    /\ muddled = FALSE

\* Mutant: a resolved hold is not taken off the count.
TakeEventHeldOnly(u) ==
    CASE u.kind = "connected"    -> [icon EXCEPT !.connected = TRUE]
      [] u.kind = "disconnected" -> Dark
      [] u.kind = "state"        -> [icon EXCEPT !.state = u.state]
      [] u.kind = "held"         -> [icon EXCEPT !.holds = @ + 1]
      [] OTHER -> icon

\* update(Message::Update): the count of holds stops at zero.
TakeEvent(u) ==
    CASE u.kind = "connected"    -> [icon EXCEPT !.connected = TRUE]
      [] u.kind = "disconnected" -> Dark
      [] u.kind = "state"        -> [icon EXCEPT !.state = u.state]
      [] u.kind = "held"         -> [icon EXCEPT !.holds = @ + 1]
      [] u.kind = "resolved"     -> [icon EXCEPT !.holds = IF @ = 0 THEN 0 ELSE @ - 1]
      [] u.kind = "render"       -> icon

Update ==
    /\ wire # <<>>
    /\ icon' = TakeEvent(Head(wire))
    /\ requests' = IF Head(wire) = Connected THEN requests \cup {"status"} ELSE requests
    /\ wire' = Tail(wire)
    /\ UNCHANGED <<daemon, unsaid, ring, linked, parked, changes, replies, clicks>>

\* The switch asks for what the applet does not show; the command flips
\* whatever the daemon has.
SetPaused ==
    /\ icon.connected
    /\ clicks < MaxClicks
    /\ clicks' = clicks + 1
    /\ requests' = requests \cup {"toggle"}
    /\ UNCHANGED <<streamVars, icon, replies>>

AppletAnswers(r) ==
    /\ r \in requests
    /\ requests' = requests \ {r}
    /\ IF ~daemon.up THEN UNCHANGED <<daemon, replies>>
       ELSE IF r = "status"
       THEN replies' = replies \cup {[to |-> r, status |-> StatusNow]} /\ UNCHANGED daemon
       ELSE /\ daemon' = [daemon EXCEPT !.paused = ~@]
            /\ replies' = replies \cup {[to |-> r, paused |-> ~daemon.paused]}
    /\ UNCHANGED <<unsaid, ring, wire, linked, parked, changes, icon, clicks>>

\* update(Message::Reply).
Reply(r) ==
    /\ r \in replies
    /\ replies' = replies \ {r}
    /\ icon' = IF r.to = "status"
               THEN [icon EXCEPT !.state = r.status.state, !.paused = r.status.paused,
                                 !.holds = Cardinality(r.status.holds)]
               ELSE [icon EXCEPT !.paused = r.paused]
    /\ UNCHANGED <<streamVars, requests, clicks>>

\* A status is on its way, from the connection to the answer taken.
Asking == requests # {} \/ replies # {} \/ \E i \in 1 .. Len(wire) : wire[i] = Connected
Saying == unsaid # {} \/ ring # <<>> \/ \E i \in 1 .. Len(wire) : wire[i] # Connected

AppletNext ==
    /\ \/ DaemonSteps /\ UNCHANGED appletFace
       \/ Update \/ SetPaused
       \/ \E r \in {"status", "toggle"} : AppletAnswers(r)
       \/ \E r \in replies : Reply(r)
    /\ muddled' = (muddled \/ (Asking /\ Saying)'
                     \/ (\E t \in Token : {Held(t), Resolved(t)} \subseteq unsaid')
                     \/ (Len(ring) = Capacity /\ Len(ring') = Capacity /\ ring # ring'))

AppletSpec == AppletInit /\ [][AppletNext]_appletVars

(***************************************************************************)
(* Properties.                                                             *)
(***************************************************************************)
Quiet == ~Asking /\ ~Saying

\* When no event was skipped, none overtook another and no status answer crossed
\* one, the icon
\* ends up with the daemon's state and the number of calls that wait, through
\* restarts of either end (Applet::update).
IconFollows ==
    icon.connected /\ Quiet /\ ~muddled
        => icon.holds = Cardinality(daemon.holds) /\ icon.state = daemon.state
=============================================================================
