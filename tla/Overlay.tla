------------------------------ MODULE Overlay ------------------------------
(* The overlay (cosmo-overlay/src/main.rs, view.rs): the card on the screen
   that shows what the daemon is doing and asks for confirmations.

   A task applies the events to a view, and, while the view is visible, asks
   the daemon for its status every two seconds and corrects the view from the
   answer.  Each visible change is sent to the user interface, which maps a
   surface while there is something to see, and whose buttons send commands.*)
EXTENDS Stream

CONSTANT MaxInbox    \* views on their way to the user interface

VARIABLES
    view,       \* View, in the task that follows the events
    check,      \* the status request of the task: "none", "sent" or the answer
    inbox,      \* views sent to the user interface
    card,       \* the view the user interface has
    dismissed,  \* the key of the card the user dismissed
    sent        \* commands on their way to the daemon

faceVars == <<view, check, inbox, card, dismissed, sent>>
overlayVars == <<streamVars, faceVars>>

None == [state |-> "none", holds |-> {}]
Blank(on) == [connected |-> on, state |-> "Idle", holds |-> {}, rendering |-> FALSE]
Visible(v) == v.connected /\ (v.state # "Idle" \/ v.holds # {} \/ v.rendering)
DismissKey(v) == [state |-> v.state, holds |-> v.holds]
NotAsked == [at |-> "none"]

OverlayInit ==
    /\ StreamInit
    /\ view = Blank(FALSE)
    /\ check = NotAsked
    /\ inbox = <<>>
    /\ card = Blank(FALSE)
    /\ dismissed = None
    /\ sent = {}

SetConnected(v, on) == IF v.connected = on THEN v ELSE Blank(on)

\* View::apply, and set_connected for the coming and going of the daemon.
Apply(v, u) ==
    CASE u.kind = "connected"    -> SetConnected(v, TRUE)
      [] u.kind = "disconnected" -> SetConnected(v, FALSE)
      [] u.kind = "state"        -> [v EXCEPT !.state = u.state]
      [] u.kind = "held"         -> [v EXCEPT !.holds = @ \cup {u.token}]
      [] u.kind = "resolved"     -> [v EXCEPT !.holds = @ \ {u.token}]
      [] u.kind = "render"       -> [v EXCEPT !.rendering = u.on]

ApplyBurst(v) ==
    LET f[i \in 0 .. Len(wire)] == IF i = 0 THEN v ELSE Apply(f[i - 1], wire[i]) IN f[Len(wire)]

\* Mutant: holds that are no longer pending are not taken away.
ReconcileAdds(v, s) ==
    [v EXCEPT !.state = IF v.state # "Listening" \/ s.state # "Idle" THEN s.state ELSE @,
              !.holds = @ \cup s.holds]

\* Mid-listen the events are authoritative.
Reconcile(v, s) ==
    [v EXCEPT !.state = IF v.state # "Listening" \/ s.state # "Idle" THEN s.state ELSE @,
              !.holds = s.holds]

\* A visible change is sent to the user interface; the send waits for room.
Shows(v) ==
    /\ view' = v
    /\ IF v = view THEN UNCHANGED inbox
       ELSE Len(inbox) < MaxInbox /\ inbox' = Append(inbox, v)

TakeBurst ==
    /\ wire # <<>>
    /\ check = NotAsked
    /\ Shows(ApplyBurst(view))
    /\ wire' = <<>>
    /\ UNCHANGED <<daemon, unsaid, ring, linked, parked, changes, check, card, dismissed, sent>>

\* The tick; events wait while the answer is awaited.
AskStatus ==
    /\ check = NotAsked
    /\ Visible(view)
    /\ check' = [at |-> "sent"]
    /\ UNCHANGED <<streamVars, view, inbox, card, dismissed, sent>>

AnswerStatus ==
    /\ check.at = "sent"
    /\ check' = IF daemon.up THEN [at |-> "answered", status |-> StatusNow] ELSE NotAsked
    /\ UNCHANGED <<streamVars, view, inbox, card, dismissed, sent>>

TakeStatus ==
    /\ check.at = "answered"
    /\ Shows(Reconcile(view, check.status))
    /\ check' = NotAsked
    /\ UNCHANGED <<streamVars, card, dismissed, sent>>

\* The user interface takes a view: a card dismissed stays so while its state
\* and its holds are those the user saw.
TakeView ==
    /\ inbox # <<>>
    /\ inbox' = Tail(inbox)
    /\ card' = Head(inbox)
    /\ dismissed' = IF dismissed = DismissKey(Head(inbox)) THEN dismissed ELSE None
    /\ UNCHANGED <<streamVars, view, check, sent>>

Shown == Visible(card) /\ dismissed = None

\* Confirm or cancel one call.
Press(t) ==
    /\ Shown
    /\ t \in card.holds
    /\ sent' = sent \cup {t}
    /\ UNCHANGED <<streamVars, view, check, inbox, card, dismissed>>

\* Dismissing the card cancels every call on it.
Dismiss ==
    /\ Shown
    /\ dismissed' = DismissKey(card)
    /\ sent' = sent \cup card.holds
    /\ UNCHANGED <<streamVars, view, check, inbox, card>>

\* The daemon handles a command, or is not there.
Handle(t) ==
    /\ t \in sent
    /\ sent' = sent \ {t}
    /\ IF t \in daemon.holds THEN TakeHold(t) ELSE UNCHANGED streamVars
    /\ UNCHANGED <<view, check, inbox, card, dismissed>>

OverlaySteps == TakeBurst \/ AskStatus \/ AnswerStatus \/ TakeStatus \/ TakeView \/ \E t \in Token : Handle(t)
OverlayNext ==
    \/ DaemonSteps /\ UNCHANGED faceVars
    \/ OverlaySteps
    \/ Dismiss \/ \E t \in Token : Press(t)

\* The tick and the connection come again and again; what is written is read,
\* what is sent is handled, and what was decided is announced.  Nothing obliges
\* the daemon to change, or the user to press.
Announces == \E e \in unsaid : Announce(e)
OverlayFairness ==
    /\ WF_overlayVars(Announces /\ UNCHANGED faceVars)
    /\ WF_overlayVars(Start /\ UNCHANGED faceVars)
    /\ WF_overlayVars(Link /\ UNCHANGED faceVars)
    /\ WF_overlayVars(Forward /\ UNCHANGED faceVars)
    /\ SF_overlayVars(TakeBurst)
    /\ SF_overlayVars(AskStatus)
    /\ WF_overlayVars(AnswerStatus)
    /\ WF_overlayVars(TakeStatus)
    /\ WF_overlayVars(TakeView)
    /\ WF_overlayVars(\E t \in Token : Handle(t))

OverlaySpec == OverlayInit /\ [][OverlayNext]_overlayVars /\ OverlayFairness

(***************************************************************************)
(* Properties.                                                             *)
(***************************************************************************)
\* A hold of a daemon that is gone is on the view only until the subscription's
\* own report of the loss is taken: never beside a new daemon's, whatever
\* status answers and events were under way at the restart (set_connected,
\* apply_burst, the events task).
OldHoldsGoAway ==
    view.connected /\ (\A i \in 1 .. Len(wire) : wire[i] # Disconnected)
        => \A t \in view.holds : t > daemon.before

\* Whatever events were skipped, arrived late or in the wrong order, the calls
\* a mapped card ends up asking about are those that wait for an answer
\* (View::reconcile, the status check).
HoldsSettle == <>[](Shown => card.holds = daemon.holds)

=============================================================================
