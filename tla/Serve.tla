------------------------------- MODULE Serve -------------------------------
(* One connection to the daemon (cosmo-daemon/src/lib.rs serve) and the client
   at its other end (cosmo-cli/src/main.rs exchange, cosmo-ipc/src/client.rs
   request_at): lines with requests one way, events and responses the other.

   The handler of a request runs inside the connection's task, beside the
   forwarding of events; when a write fails, handler and connection are
   dropped together.  The client reads until its response and then hangs up. *)
EXTENDS Naturals, Sequences

CONSTANTS
    Keeps,        \* events the ring of the connection keeps
    MaxCommands,  \* bound: requests of the client
    MaxEvents,    \* bound: events a handler emits
    MaxOthers     \* bound: events of the rest of the daemon

ASSUME ServeAssumption == Keeps \in Nat \ {0} /\ MaxCommands \in Nat

VARIABLES
    asked,     \* requests the client sent so far
    lines,     \* requests not read yet
    serving,   \* the task: "select", "handling", "draining" or "closed"
    command,   \* the request being handled
    todo,      \* events its handler has still to emit
    events,    \* the receiver's ring
    behind,    \* was an event overwritten since the receiver last looked?
    written,   \* what was written to the client
    client,    \* "there", or "away": it hung up
    others,
    skipped    \* ghost: an event was overwritten

serveVars == <<asked, lines, serving, command, todo, events, behind, written, client, others, skipped>>

OfCommand(c) == [kind |-> "event", of |-> c]
Response(c) == [kind |-> "response", of |-> c]

ServeInit ==
    /\ asked = 0 /\ lines = <<>>
    /\ serving = "select" /\ command = 0 /\ todo = 0
    /\ events = <<>> /\ behind = FALSE
    /\ written = <<>> /\ client = "there"
    /\ others = 0 /\ skipped = FALSE

\* The receiver of a broadcast channel loses its oldest event to a new one.
Emit(e) ==
    IF Len(events) < Keeps
    THEN events' = Append(events, e) /\ UNCHANGED <<behind, skipped>>
    ELSE events' = Append(Tail(events), e) /\ behind' = TRUE /\ skipped' = TRUE

OtherEvent ==
    /\ others < MaxOthers
    /\ others' = others + 1
    /\ Emit(OfCommand(0))
    /\ UNCHANGED <<asked, lines, serving, command, todo, written, client>>

Ask ==
    /\ client = "there"
    /\ asked < MaxCommands
    /\ asked' = asked + 1
    /\ lines' = Append(lines, asked + 1)
    /\ UNCHANGED <<serving, command, todo, events, behind, written, client, others, skipped>>

HangUp ==
    /\ client = "there"
    /\ client' = "away"
    /\ UNCHANGED <<asked, lines, serving, command, todo, events, behind, written, others, skipped>>

\* A write fails once the client is away: the connection ends, and with it the
\* handler, at whatever await it is.
WriteThen(m, to) ==
    IF client = "there"
    THEN written' = Append(written, m) /\ serving' = to /\ UNCHANGED <<command, todo>>
    ELSE UNCHANGED written /\ serving' = "closed" /\ command' = 0 /\ todo' = 0

\* A request is read while nothing is handled; a line that is none, or the end
\* of the stream, ends the connection.
ReadLine ==
    /\ serving = "select"
    /\ lines # <<>>
    /\ lines' = Tail(lines)
    /\ \/ /\ serving' = "handling" /\ command' = Head(lines)
          /\ todo' \in 0 .. MaxEvents
       \/ serving' = "closed" /\ UNCHANGED <<command, todo>>
    /\ UNCHANGED <<asked, events, behind, written, client, others, skipped>>

EndOfStream ==
    /\ serving = "select"
    /\ lines = <<>> /\ client = "away"
    /\ serving' = "closed"
    /\ UNCHANGED <<asked, lines, command, todo, events, behind, written, client, others, skipped>>

HandlerEmits ==
    /\ serving = "handling"
    /\ todo > 0
    /\ todo' = todo - 1
    /\ Emit(OfCommand(command))
    /\ UNCHANGED <<asked, lines, serving, command, written, client, others>>

\* recv first reports that events were skipped, then gives what is left.
NoticeLag ==
    /\ serving \in {"select", "handling"}
    /\ behind
    /\ behind' = FALSE
    /\ UNCHANGED <<asked, lines, serving, command, todo, events, written, client, others, skipped>>

ForwardEvent ==
    /\ serving \in {"select", "handling"}
    /\ ~behind /\ events # <<>>
    /\ events' = Tail(events)
    /\ WriteThen(Head(events), serving)
    /\ UNCHANGED <<asked, lines, behind, client, others, skipped>>

HandlerReturns ==
    /\ serving = "handling"
    /\ todo = 0
    /\ serving' = "draining"
    /\ UNCHANGED <<asked, lines, command, todo, events, behind, written, client, others, skipped>>

\* What is queued goes first; try_recv stops at a report of skipped events too.
DrainEvent ==
    /\ serving = "draining"
    /\ ~behind /\ events # <<>>
    /\ events' = Tail(events)
    /\ WriteThen(Head(events), "draining")
    /\ UNCHANGED <<asked, lines, behind, client, others, skipped>>

Respond ==
    /\ serving = "draining"
    /\ behind \/ events = <<>>
    /\ behind' = FALSE
    /\ WriteThen(Response(command), "select")
    /\ UNCHANGED <<asked, lines, events, client, others, skipped>>

ServeNext ==
    \/ OtherEvent \/ Ask \/ HangUp
    \/ ReadLine \/ EndOfStream \/ HandlerEmits \/ NoticeLag \/ ForwardEvent
    \/ HandlerReturns \/ DrainEvent \/ Respond
ServeSpec == ServeInit /\ [][ServeNext]_serveVars

(***************************************************************************)
(* Properties.                                                             *)
(***************************************************************************)
\* The response is where a client stops reading: no event of a command comes
\* after it, unless the connection was so far behind that events were skipped
\* (serve); and requests are answered once each, in their order.
ResponseIsLast ==
    \A i, j \in 1 .. Len(written) : i < j /\ written[i].kind = "response" =>
        /\ written[j].kind = "event" => written[j].of # written[i].of \/ skipped
        /\ written[j].kind = "response" => written[i].of < written[j].of
=============================================================================
