------------------------------ MODULE Windows -------------------------------
(***************************************************************************)
(* Window verbs: the window service of crates/cosmo-focus/src/control.rs   *)
(* (one Wayland connection on a thread of its own, serving jobs) and its   *)
(* users in crates/cosmo-daemon/src/reflex.rs, which start it again when   *)
(* the connection is lost and then try a verb once more.                   *)
(*                                                                         *)
(* Abstractions.  Verbs are two: activate a window that is not the focused *)
(* one (focus_app), and act on the focused one (maximize, minimize, move;  *)
(* which workspace a move or a switch names is left out).  Of a window the *)
(* picture keeps whether it is activated.                                  *)
(* The compositor is external: it opens, closes and focuses windows, takes *)
(* requests in order, and may vanish.                                      *)
(***************************************************************************)
EXTENDS Naturals, Sequences, SequencesExt

CONSTANTS
  Window,           \* windows that may be open
  WindowUser,       \* calls of a verb
  MaxChanges,       \* bound: changes the compositor makes on its own
  MaxServices       \* bound: connections

ASSUME WindowsAssumption == MaxChanges \in Nat /\ MaxServices \in Nat

VARIABLES
  open, focus,      \* the compositor: open windows, the focused one or none
  changes,          \* changes it has made
  wire,             \* events on their way to the service
  service,          \* the number of the running service
  alive,            \* its thread runs
  lost,             \* its connection is lost
  thread,           \* where the thread is: taking jobs, in a job, in poll
  picture,          \* State::tops: windows in the order announced
  jobs,             \* jobs sent and not yet taken
  woken,            \* a byte is in the wake socket
  user,             \* user[u]: its verb and what it waits for
  sent,             \* history: the services each verb's request was written to
  done              \* history: verbs whose request was carried out

compositorVars == <<open, focus, changes>>
threadVars == <<service, alive, lost, thread, picture, jobs, woken>>
windowsVars == <<compositorVars, wire, threadVars, user, sent, done>>

NoWindow == "none"
Verb == {"activate", "actOnFocused"}
TakingJobs == [at |-> "jobs"]
InPoll == [at |-> "poll"]
Top(w, active) == [window |-> w, active |-> active]
Focused(tops) == SelectInSeq(tops, LAMBDA t : t.active)

\* find_app: a window not focused if there is one, else the first.
FindApp(tops) ==
  LET other == SelectInSeq(tops, LAMBDA t : ~t.active)
  IN  IF other # 0 THEN other ELSE IF tops = <<>> THEN 0 ELSE 1

Target(verb) == IF verb = "activate" THEN FindApp(picture) ELSE Focused(picture)

WindowsInit ==
  /\ open = Window /\ focus \in Window \cup {NoWindow} /\ changes = 0 /\ wire = <<>>
  /\ service = 1 /\ alive = TRUE /\ lost = FALSE /\ thread = TakingJobs
  /\ picture \in {[i \in DOMAIN s |-> Top(s[i], s[i] = focus)] : s \in SetToSeqs(open)}
  /\ jobs = <<>> /\ woken = FALSE
  /\ user \in [WindowUser -> [verb : Verb, at : {"idle"}, tries : {0}, on : {0}, answer : {"none"}]]
  /\ sent = [u \in WindowUser |-> <<>>] /\ done = {}

-----------------------------------------------------------------------------
(* The compositor *)

Refocus(w) ==
  (IF focus = NoWindow THEN <<>> ELSE << <<"inactive", focus>> >>) \o << <<"active", w>> >>

WindowChanges ==
  /\ changes < MaxChanges /\ ~lost
  /\ changes' = changes + 1
  /\ \/ \E w \in Window \ open :
          /\ open' = open \cup {w} /\ focus' = w
          /\ wire' = wire \o << <<"toplevel", w>> >> \o Refocus(w)
     \/ \E w \in open :
          /\ open' = open \ {w} /\ focus' = IF focus = w THEN NoWindow ELSE focus
          /\ wire' = wire \o << <<"closed", w>> >>
     \/ \E w \in open \ {focus} :
          /\ focus' = w /\ wire' = wire \o Refocus(w) /\ UNCHANGED open
  /\ UNCHANGED <<threadVars, user, sent, done>>

ConnectionLost ==
  /\ alive /\ ~lost /\ service < MaxServices
  /\ lost' = TRUE /\ wire' = <<>>
  /\ UNCHANGED <<compositorVars, service, alive, thread, picture, jobs, woken, user, sent, done>>

-----------------------------------------------------------------------------
(* The service thread *)

\* One event of the wire, in the picture; of an unknown window, nothing.
Apply(tops, e) ==
  CASE e[1] = "toplevel" -> Append(tops, Top(e[2], FALSE))
    [] e[1] = "closed" -> SelectSeq(tops, LAMBDA t : t.window # e[2])
    [] OTHER -> [i \in DOMAIN tops |->
                  IF tops[i].window = e[2] THEN Top(e[2], e[1] = "active") ELSE tops[i]]

AfterEvents(events) == FoldLeft(Apply, picture, events)

\* The answer reaches the caller if it still waits (its receiver may be gone).
AnswerTo(u, ok) ==
  user' = IF user[u].at \in {"wake", "wait"} /\ user[u].on = service
          THEN [user EXCEPT ![u].answer = IF ok THEN "ok" ELSE "error"] ELSE user

\* A job picks its window from the picture; without one it fails at once.
RunJob ==
  /\ alive /\ thread.at = "jobs" /\ jobs # <<>>
  /\ LET u == Head(jobs)
         i == Target(user[u].verb) IN
     /\ jobs' = Tail(jobs)
     /\ IF i = 0
        THEN AnswerTo(u, FALSE) /\ UNCHANGED <<thread, sent>>
        ELSE /\ sent' = [sent EXCEPT ![u] = Append(@, service)]
             /\ thread' = [at |-> "job", job |-> u, window |-> picture[i].window]
             /\ UNCHANGED user
  /\ UNCHANGED <<compositorVars, wire, service, alive, lost, picture, woken, done>>

\* finish: flush and round trip.  The compositor takes the request, and every
\* event before its answer is in the picture.  A window that was closed
\* meanwhile is an inert object: the request does nothing.
Finish ==
  /\ alive /\ thread.at = "job"
  /\ thread' = TakingJobs
  /\ \/ /\ lost /\ AnswerTo(thread.job, FALSE)
        /\ UNCHANGED <<focus, wire, picture, done>>
     \/ /\ ~lost /\ AnswerTo(thread.job, TRUE)
        /\ done' = done \cup {thread.job}
        /\ wire' = <<>>
        /\ IF user[thread.job].verb = "activate" /\ thread.window \in open \ {focus}
           THEN /\ focus' = thread.window
                /\ picture' = AfterEvents(wire \o Refocus(thread.window))
           ELSE picture' = AfterEvents(wire) /\ UNCHANGED focus
  /\ UNCHANGED <<open, changes, service, alive, lost, jobs, woken, sent>>

NoJob ==
  /\ alive /\ thread.at = "jobs" /\ jobs = <<>> /\ ~lost
  /\ thread' = InPoll
  /\ UNCHANGED <<compositorVars, wire, service, alive, lost, picture, jobs, woken, user, sent, done>>

\* poll returns for the compositor or for the wake socket; what has arrived is
\* read, dispatched and the wake socket drained.
Poll ==
  /\ alive /\ thread.at = "poll" /\ ~lost /\ (wire # <<>> \/ woken)
  /\ thread' = TakingJobs /\ woken' = FALSE
  /\ \E n \in (IF wire = <<>> THEN {0} ELSE 1..Len(wire)) :
       /\ picture' = AfterEvents(SubSeq(wire, 1, n))
       /\ wire' = SubSeq(wire, n + 1, Len(wire))
  /\ UNCHANGED <<compositorVars, service, alive, lost, jobs, user, sent, done>>

\* dispatch or read fails: the thread ends, and the jobs with it.
ThreadEnds ==
  /\ alive /\ lost /\ (thread.at = "poll" \/ (thread.at = "jobs" /\ jobs = <<>>))
  /\ alive' = FALSE /\ jobs' = <<>> /\ thread' = TakingJobs /\ picture' = <<>> /\ woken' = FALSE
  /\ UNCHANGED <<compositorVars, wire, service, lost, user, sent, done>>

-----------------------------------------------------------------------------
(* A verb: Desktop::window_call *)

UserAt(u, where) == user[u].at = where

\* A fresh connection knows the windows; their states are in, or not yet.
Restarted ==
  /\ service' = service + 1 /\ alive' = TRUE /\ lost' = FALSE /\ thread' = TakingJobs
  /\ jobs' = <<>> /\ woken' = FALSE
  /\ \E order \in SetToSeqs(open) :
       \/ /\ picture' = [i \in DOMAIN order |-> Top(order[i], order[i] = focus)]
          /\ wire' = <<>>
       \/ /\ picture' = [i \in DOMAIN order |-> Top(order[i], FALSE)]
          /\ wire' = IF focus = NoWindow THEN <<>> ELSE << <<"active", focus>> >>

\* Desktop::windows: the running service, or a new one if its thread has ended.
TakeService(u) ==
  /\ UserAt(u, "idle") \/ UserAt(u, "again")
  /\ user[u].tries < 2
  /\ \/ /\ alive
        /\ user' = [user EXCEPT ![u].at = "send", ![u].answer = "none", ![u].on = service, ![u].tries = @ + 1]
        /\ UNCHANGED <<wire, threadVars>>
     \/ /\ ~alive /\ Restarted
        /\ user' = [user EXCEPT ![u].at = "send", ![u].answer = "none", ![u].on = service', ![u].tries = @ + 1]
     \/ /\ ~alive
        /\ user' = [user EXCEPT ![u].at = "end"]
        /\ UNCHANGED <<wire, threadVars>>
  /\ UNCHANGED <<compositorVars, sent, done>>

Failed(u) == user[u].answer = "error"
Gone(u) == user[u].on # service \/ ~alive

\* WindowService::call: the job first, then the byte that wakes the thread.
SendJob(u) ==
  /\ UserAt(u, "send")
  /\ IF Gone(u)
     THEN user' = [user EXCEPT ![u].at = "answered", ![u].answer = "error"] /\ UNCHANGED jobs
     ELSE user' = [user EXCEPT ![u].at = "wake"] /\ jobs' = Append(jobs, u)
  /\ UNCHANGED <<compositorVars, wire, service, alive, lost, thread, picture, woken, sent, done>>

\* Mutant: the job is queued and nothing wakes the thread.
WakeNobody(u) ==
  /\ UserAt(u, "wake")
  /\ user' = [user EXCEPT ![u].at = "wait"]
  /\ UNCHANGED <<compositorVars, wire, threadVars, sent, done>>

Wake(u) ==
  /\ UserAt(u, "wake")
  /\ user' = [user EXCEPT ![u].at = "wait"]
  /\ woken' = (woken \/ ~Gone(u))
  /\ UNCHANGED <<compositorVars, wire, service, alive, lost, thread, picture, jobs, sent, done>>

\* recv_timeout: the answer, or a second has passed or the thread took the job
\* with it.  A job that is still queued then will run all the same.
Receive(u) ==
  /\ UserAt(u, "wait")
  /\ user' = [user EXCEPT ![u].at = "answered", ![u].answer = IF @ = "none" THEN "error" ELSE @]
  /\ UNCHANGED <<compositorVars, wire, threadVars, sent, done>>

\* Mutant: any failure is tried again.
ReturnRetries(u) ==
  /\ UserAt(u, "answered")
  /\ user' = [user EXCEPT ![u].on = 0, ![u].at = IF Failed(u) /\ user[u].tries < 2 THEN "again" ELSE "end"]
  /\ UNCHANGED <<compositorVars, wire, threadVars, sent, done>>

\* Once more if the service died under the verb; else the answer stands.
Return(u) ==
  /\ UserAt(u, "answered")
  /\ user' = [user EXCEPT ![u].on = 0,
                ![u].at = IF Failed(u) /\ Gone(u) /\ user[u].tries < 2 THEN "again" ELSE "end"]
  /\ UNCHANGED <<compositorVars, wire, threadVars, sent, done>>

ThreadSteps == RunJob \/ Finish \/ NoJob \/ Poll \/ ThreadEnds
UserSteps(u) == TakeService(u) \/ SendJob(u) \/ Wake(u) \/ Receive(u) \/ Return(u)

WindowsNext ==
  \/ WindowChanges \/ ConnectionLost \/ ThreadSteps
  \/ \E u \in WindowUser : UserSteps(u)

WindowsSpec == WindowsInit /\ [][WindowsNext]_windowsVars

-----------------------------------------------------------------------------
(* Properties *)

\* A verb writes its request at most once to each connection, and at most to
\* two: it is tried again only when the connection died under it, never because
\* an answer is late (reflex.rs:99).
VerbIsNotRepeated == \A u \in WindowUser :
  /\ Len(sent[u]) <= 2
  /\ \A i, j \in DOMAIN sent[u] : i < j => sent[u][i] < sent[u][j]

\* A job never waits for the compositor to say something first: it is taken,
\* or its connection is lost (control.rs:426).
JobsAreTaken == \A u \in WindowUser :
  (alive /\ u \in ToSet(jobs)) ~> (u \notin ToSet(jobs) \/ lost)
=============================================================================
