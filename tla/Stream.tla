------------------------------- MODULE Stream -------------------------------
(* What a face of the daemon (the overlay, the applet) can know of it: the
   event stream of one subscription, and the answers to its requests
   (cosmo-daemon/src/lib.rs serve, cosmo-ipc/src/client.rs).

   The daemon broadcasts its events to a bounded ring per connection; a
   connection that falls behind has the oldest skipped.  A subscription
   reports when the daemon comes and goes, and starts with nothing: what
   happened before is not replayed.  A request travels on a connection of its
   own, so its answer and the events overtake each other.

   Of the daemon only what it announces is kept: its state, its held calls and
   whether a voice is being rendered.                                       *)
EXTENDS Naturals, Sequences, FiniteSets

CONSTANTS
    State,      \* the states shown; one of them is "Idle"
    Capacity,   \* events the ring of a connection keeps
    MaxHolds,   \* bound: calls held in all
    MaxChanges, \* bound: changes of state, renders and restarts of the daemon
    MaxWire     \* bound: events on their way to the face

ASSUME StreamAssumption ==
    /\ {"Idle", "Listening"} \subseteq State /\ Capacity \in Nat \ {0}
    /\ MaxHolds \in Nat /\ MaxChanges \in Nat /\ MaxWire \in Nat

VARIABLES
    daemon,    \* what is so: its state, its held calls, whether it is paused
               \* and whether it renders; tokens above `before` are its own
    unsaid,    \* events whose change was made and which are not broadcast yet
    ring,      \* events broadcast and not yet written to the connection
    wire,      \* updates written and not yet taken by the face
    linked,    \* is there a connection?
    parked,    \* tokens given out so far
    changes    \* counts against MaxChanges

streamVars == <<daemon, unsaid, ring, wire, linked, parked, changes>>

Token == 1 .. MaxHolds

Stated(s) == [kind |-> "state", state |-> s]
Held(t) == [kind |-> "held", token |-> t]
Resolved(t) == [kind |-> "resolved", token |-> t]
Rendering(on) == [kind |-> "render", on |-> on]
Connected == [kind |-> "connected"]
Disconnected == [kind |-> "disconnected"]

Fresh(before) == [up |-> TRUE, before |-> before, state |-> "Idle", holds |-> {},
               paused |-> FALSE, rendering |-> FALSE]

StreamInit ==
    /\ daemon = Fresh(0)
    /\ unsaid = {}
    /\ ring = <<>>
    /\ wire = <<>>
    /\ linked = FALSE
    /\ parked = 0
    /\ changes = 0

\* A broadcast to a connection that is behind overwrites the oldest event.
Broadcast(e) ==
    IF ~linked THEN ring
    ELSE IF Len(ring) < Capacity THEN Append(ring, e)
    ELSE Append(Tail(ring), e)

Changes == changes < MaxChanges /\ changes' = changes + 1

\* StateCell::set: the state and its event under one lock.
SetState(s) ==
    /\ daemon.up
    /\ s # daemon.state
    /\ Changes
    /\ daemon' = [daemon EXCEPT !.state = s]
    /\ ring' = Broadcast(Stated(s))
    /\ UNCHANGED <<unsaid, wire, linked, parked>>

\* A call is parked by the gate, and announced when its turn has ended; it is
\* resolved by whoever gets there first, who announces that afterwards.
ParkHold ==
    /\ daemon.up
    /\ parked < MaxHolds
    /\ parked' = parked + 1
    /\ daemon' = [daemon EXCEPT !.holds = @ \cup {parked + 1}]
    /\ unsaid' = unsaid \cup {Held(parked + 1)}
    /\ UNCHANGED <<ring, wire, linked, changes>>

TakeHold(t) ==
    /\ daemon' = [daemon EXCEPT !.holds = @ \ {t}]
    /\ unsaid' = unsaid \cup {Resolved(t)}
    /\ UNCHANGED <<ring, wire, linked, parked, changes>>

ResolveHold(t) == daemon.up /\ t \in daemon.holds /\ TakeHold(t)

Announce(e) ==
    /\ e \in unsaid
    /\ unsaid' = unsaid \ {e}
    /\ ring' = Broadcast(e)
    /\ UNCHANGED <<daemon, wire, linked, parked, changes>>

\* A voice is rendered: progress, and the end.
Render ==
    /\ daemon.up
    /\ IF daemon.rendering THEN UNCHANGED changes ELSE Changes
    /\ daemon' = [daemon EXCEPT !.rendering = ~@]
    /\ ring' = Broadcast(Rendering(~daemon.rendering))
    /\ UNCHANGED <<unsaid, wire, linked, parked>>

\* The process ends: nothing it held survives, and its connections close
\* behind what was written to them.
Stop ==
    /\ daemon.up
    /\ Changes
    /\ daemon' = [Fresh(parked) EXCEPT !.up = FALSE]
    /\ unsaid' = {}
    /\ ring' = <<>>
    /\ linked' = FALSE
    /\ wire' = IF linked THEN Append(wire, Disconnected) ELSE wire
    /\ UNCHANGED parked

Start ==
    /\ ~daemon.up
    /\ daemon' = Fresh(parked)
    /\ UNCHANGED <<unsaid, ring, wire, linked, parked, changes>>

\* subscribe_at: connect, tell the face, and follow; try again after a while.
Link ==
    /\ ~linked
    /\ daemon.up
    /\ Len(wire) < MaxWire
    /\ linked' = TRUE
    /\ wire' = Append(wire, Connected)
    /\ UNCHANGED <<daemon, unsaid, ring, parked, changes>>

\* serve writes the next event to the connection.
Forward ==
    /\ linked
    /\ ring # <<>>
    /\ Len(wire) < MaxWire
    /\ ring' = Tail(ring)
    /\ wire' = Append(wire, Head(ring))
    /\ UNCHANGED <<daemon, unsaid, linked, parked, changes>>

\* What Status answers.
StatusNow == [state |-> daemon.state, holds |-> daemon.holds, paused |-> daemon.paused]

DaemonSteps ==
    \/ \E s \in State : SetState(s)
    \/ ParkHold
    \/ \E t \in Token : ResolveHold(t)
    \/ \E e \in unsaid : Announce(e)
    \/ Render
    \/ Stop \/ Start
    \/ Link \/ Forward
=============================================================================
