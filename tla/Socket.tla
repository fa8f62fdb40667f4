------------------------------- MODULE Socket -------------------------------
(* Who holds the control socket (cosmo-daemon/src/lib.rs run, bind_socket).

   A daemon that starts looks whether the socket is there, connects to it to
   learn whether anyone listens, removes it when nobody does, and binds its
   own: four system calls, with other daemons starting, dying and exiting in
   between.  A daemon that exits stops listening and then removes the path,
   whatever it names by then; one that is killed leaves it.                 *)
EXTENDS Naturals, FiniteSets

CONSTANTS Process,   \* the processes of cosmod, each started at most once
          NoSocket   \* the path names nothing

ASSUME SocketAssumption == NoSocket \notin Process

VARIABLES
    phase,   \* phase[p]: what each process is at
    path,    \* the process whose socket the path names, or NoSocket
    raced    \* ghost: one was starting while another was starting or leaving

socketVars == <<phase, path, raced>>

Off == {"off", "gone"}
Listening(p) == phase[p] = "up"

SocketInit ==
    /\ phase = [p \in Process |-> "off"]
    /\ path = NoSocket
    /\ raced = FALSE

Moves(p, to) ==
    /\ phase' = [phase EXCEPT ![p] = to]
    /\ raced' = (raced \/ (/\ to \notin Off
                           /\ \E q \in Process \ {p} : phase[q] \notin Off \cup {"up"}))

Launch(p) == phase[p] = "off" /\ Moves(p, "look") /\ UNCHANGED path

Look(p) ==
    /\ phase[p] = "look"
    /\ Moves(p, IF path = NoSocket THEN "bind" ELSE "connect")
    /\ UNCHANGED path

\* Mutant: an answer is not taken for a live daemon.
ConnectClears(p) ==
    /\ phase[p] = "connect"
    /\ Moves(p, IF path = NoSocket THEN "gone" ELSE "remove")
    /\ UNCHANGED path

\* Answered: a live daemon owns it.  Refused: a stale socket.  Anything else,
\* such as a path that has just gone: fail closed.
Connect(p) ==
    /\ phase[p] = "connect"
    /\ Moves(p, IF path # NoSocket /\ ~Listening(path) THEN "remove" ELSE "gone")
    /\ UNCHANGED path

RemoveStale(p) ==
    /\ phase[p] = "remove"
    /\ Moves(p, IF path = NoSocket THEN "gone" ELSE "bind")
    /\ path' = NoSocket

Bind(p) ==
    /\ phase[p] = "bind"
    /\ IF path = NoSocket THEN Moves(p, "up") /\ path' = p
       ELSE Moves(p, "gone") /\ UNCHANGED path

\* SIGTERM: the listener is dropped, then the path removed.
Terminate(p) == phase[p] = "up" /\ Moves(p, "leaving") /\ UNCHANGED path
Unlink(p) == phase[p] = "leaving" /\ Moves(p, "gone") /\ path' = NoSocket

\* Killed at any moment, or an error after the bind: the path stays.
Killed(p) == phase[p] \notin Off /\ Moves(p, "gone") /\ UNCHANGED path

SocketSteps(p) ==
    Launch(p) \/ Look(p) \/ Connect(p) \/ RemoveStale(p) \/ Bind(p) \/ Terminate(p) \/ Unlink(p) \/ Killed(p)
SocketNext == \E p \in Process : SocketSteps(p)
SocketSpec == SocketInit /\ [][SocketNext]_socketVars

(***************************************************************************)
(* Properties.                                                             *)
(***************************************************************************)
\* At most one daemon listens, and the path leads to it, as long as nobody
\* starts while another is starting or leaving: whatever was left behind by
\* daemons that were killed (bind_socket, the single-instance guard).
OneDaemon ==
    ~raced => /\ \A p, q \in Process : Listening(p) /\ Listening(q) => p = q
              /\ \A p \in Process : Listening(p) => path = p
=============================================================================
