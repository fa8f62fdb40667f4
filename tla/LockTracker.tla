----------------------------- MODULE LockTracker -----------------------------
(***************************************************************************)
(* The session lock on COSMIC (crates/cosmo-daemon/src/lock.rs): a rule    *)
(* over two sources, fed by a task that listens to logind and by a thread  *)
(* that reads the compositor's windows ten times a second, and the third   *)
(* writer of the gate's lock state, Engine::refresh_lock, which a turn     *)
(* calls before it begins.                                                 *)
(*                                                                         *)
(* The two sources update the tracker and write the gate under the         *)
(* tracker's mutex, in two steps here; the window thread takes its reading *)
(* before it locks the mutex, so that a reading may be older than a lock   *)
(* signal it is applied after.                                             *)
(*                                                                         *)
(* The world is external: the session is locked by the greeter, which      *)
(* sends Lock when its screen appears; the windows go inactive a moment    *)
(* later; no signal says that the session was unlocked.                    *)
(***************************************************************************)
EXTENDS Naturals

CONSTANTS
  Turn,             \* the turns that may run while the tracker starts
  MaxSignals        \* bound: logind signals under way

ASSUME LockTrackerAssumption == MaxSignals \in Nat

VARIABLES
  session,          \* "open", "locking" (locked, windows still active) or "covered"
  windows,          \* whether some window is active
  signals,          \* Lock and sleep signals that have not been received
  service,          \* the window connection: "down", "partial" (states not in yet), "up"
  windowAt,         \* the step the window thread takes next
  reading,          \* the reading in its hands
  windowSays,       \* the state the tracker last answered it
  signalAt,         \* the step the logind task takes next
  signalSays,       \* the state the tracker last answered it
  pendingLock,      \* Tracker: a lock signal has not been cleared
  sawInactive,      \* Tracker: no window was active at some moment since
  active,           \* Tracker: the last reading
  signalsLost,      \* Tracker: logind's signals stopped arriving
  tracked,          \* the engine knows the tracker
  refreshing,       \* the turns that found no tracker and are about to write
  lock,             \* the gate's lock state
  seen,             \* history variable: the reading is of this lock's screen
  handled,          \* history variable: a signal was handled since the session was locked
  misread           \* history variable: an inactive reading that is not of this lock's
                    \* screen was applied since the last signal

worldVars   == <<session, windows, signals>>
trackerVars == <<pendingLock, sawInactive, active, signalsLost>>
turnVars    == <<tracked, refreshing>>
threadVars  == <<service, windowAt, reading, windowSays>>
taskVars    == <<signalAt, signalSays>>
ghostVars   == <<seen, handled, misread>>
vars == <<worldVars, threadVars, taskVars, trackerVars, turnVars, lock, ghostVars>>

Reading == {"active", "inactive", "failed"}

LockState == {"unlocked", "locked", "unknown"}

LockTypeOK ==
  /\ session \in {"open", "locking", "covered"}
  /\ windows \in {"active", "inactive"}
  /\ signals \in 0 .. MaxSignals
  /\ service \in {"down", "partial", "up"}
  /\ windowAt \in {"read", "apply", "set"}
  /\ {reading, active} \subseteq Reading
  /\ signalAt \in {"next", "set", "last", "ended"}
  /\ refreshing \subseteq Turn
  /\ {windowSays, signalSays, lock} \subseteq LockState
  /\ {pendingLock, sawInactive, signalsLost, tracked} \subseteq BOOLEAN
  /\ {seen, handled, misread} \subseteq BOOLEAN

-----------------------------------------------------------------------------
(* The rule.                                                               *)

\* What the tracker's fields say of the session.
TrackerState ==
  IF ~signalsLost /\ pendingLock THEN "locked"
  ELSE IF ~signalsLost /\ active = "active" THEN "unlocked"
  ELSE "unknown"

\* logind said Lock, or the machine is about to sleep.
LockSignal ==
  /\ pendingLock' = TRUE
  /\ sawInactive' = FALSE
  /\ UNCHANGED <<active, signalsLost>>

\* Mutant: any active reading clears the lock.
WindowsAnyActive(r) ==
  /\ active' = r
  /\ sawInactive' = FALSE
  /\ pendingLock' = (pendingLock /\ r # "active")
  /\ UNCHANGED signalsLost

\* Mutant: a failed reading leaves the last one standing.
WindowsKeepOld(r) ==
  /\ active' = IF r = "failed" THEN active ELSE r
  /\ sawInactive' = ( \/ pendingLock /\ r = "inactive"
                      \/ sawInactive /\ ~(pendingLock /\ r = "active") )
  /\ pendingLock' = (pendingLock /\ ~(r = "active" /\ sawInactive))
  /\ UNCHANGED signalsLost

\* A window reading: a pending lock is cleared by an active one after an
\* inactive one; a failed one counts as neither.
Windows(r) ==
  /\ active' = r
  /\ sawInactive' = ( \/ pendingLock /\ r = "inactive"
                      \/ sawInactive /\ ~(pendingLock /\ r = "active") )
  /\ pendingLock' = (pendingLock /\ ~(r = "active" /\ sawInactive))
  /\ UNCHANGED signalsLost

\* Nobody holds the tracker's mutex.
MutexFree == windowAt # "set" /\ signalAt \notin {"set", "last"}

-----------------------------------------------------------------------------
(* The logind task.                                                        *)

\* Mutant: the tracker's mutex is not waited for.
TakeUnguarded ==
  /\ signalAt = "next" /\ signals > 0
  /\ signals' = signals - 1
  /\ LockSignal
  /\ signalAt' = "set" /\ signalSays' = TrackerState'
  /\ UNCHANGED <<session, windows, threadVars, turnVars, lock, ghostVars>>

\* A Lock or a sleep signal: the tracker is locked and updated.
TakeSignal ==
  /\ signalAt = "next" /\ signals > 0 /\ MutexFree
  /\ signals' = signals - 1
  /\ LockSignal
  /\ signalAt' = "set" /\ signalSays' = TrackerState'
  /\ UNCHANGED <<session, windows, threadVars, turnVars, lock, ghostVars>>

\* The stream ends: nothing is trusted any more.
LoseSignals ==
  /\ signalAt = "next" /\ MutexFree
  /\ signalsLost' = TRUE
  /\ signals' = 0
  /\ signalAt' = "last" /\ signalSays' = TrackerState'
  /\ UNCHANGED <<session, windows, threadVars, pendingLock, sawInactive, active, turnVars,
                 lock, ghostVars>>

\* The gate is set and the mutex released.
SetFromSignal ==
  /\ signalAt \in {"set", "last"}
  /\ lock' = signalSays
  /\ signalAt' = IF signalAt = "set" THEN "next" ELSE "ended"
  /\ handled' = (handled \/ signalAt = "set")
  /\ misread' = (misread /\ signalAt = "last")
  /\ UNCHANGED <<worldVars, threadVars, signalSays, trackerVars, turnVars, seen>>

-----------------------------------------------------------------------------
(* The window thread.                                                      *)

\* The snapshot: a connection whose window states are not in shows none active.
ReadWindows ==
  /\ windowAt = "read" /\ service # "down"
  /\ reading' = IF service = "up" THEN windows ELSE "inactive"
  /\ windowAt' = "apply"
  /\ seen' = (session = "covered")
  /\ UNCHANGED <<worldVars, service, windowSays, taskVars, trackerVars, turnVars, lock,
                 handled, misread>>

\* There is no connection, it is lost, or it does not answer within a second;
\* another is tried at once.
FailToRead ==
  /\ windowAt = "read"
  /\ reading' = "failed"
  /\ service' \in {"down", "partial", "up"}
  /\ windowAt' = "apply"
  /\ UNCHANGED <<worldVars, windowSays, taskVars, trackerVars, turnVars, lock, ghostVars>>

\* The mutex is taken and the reading applied.
ApplyReading ==
  /\ windowAt = "apply" /\ MutexFree
  /\ Windows(reading)
  /\ windowAt' = "set" /\ windowSays' = TrackerState'
  /\ misread' = (misread \/ (reading = "inactive" /\ ~seen))
  /\ UNCHANGED <<worldVars, service, reading, taskVars, turnVars, lock, seen, handled>>

\* The gate is set, the mutex released, and the thread sleeps.
SetFromWindows ==
  /\ windowAt = "set"
  /\ lock' = windowSays
  /\ windowAt' = "read"
  /\ UNCHANGED <<worldVars, service, reading, windowSays, taskVars, trackerVars, turnVars,
                 ghostVars>>

-----------------------------------------------------------------------------
(* The engine.  The ears are up before the tracker is known, so turns may  *)
(* run while it starts.                                                    *)

\* lock::start has returned, and the engine keeps the tracker.
KeepTracker ==
  /\ ~tracked
  /\ tracked' = TRUE
  /\ UNCHANGED <<worldVars, threadVars, taskVars, trackerVars, refreshing, lock, ghostVars>>

\* A turn refreshes the lock state and finds no tracker ...
FindNoTracker(t) ==
  /\ ~tracked
  /\ refreshing' = refreshing \cup {t}
  /\ UNCHANGED <<worldVars, threadVars, taskVars, trackerVars, tracked, lock, ghostVars>>

\* ... and sets the gate, which the tracker may have set meanwhile.
WriteUnknown(t) ==
  /\ t \in refreshing
  /\ refreshing' = refreshing \ {t}
  /\ lock' = "unknown"
  /\ UNCHANGED <<worldVars, threadVars, taskVars, trackerVars, tracked, ghostVars>>

-----------------------------------------------------------------------------
(* The world (external).                                                   *)

worldFrame ==
  UNCHANGED <<windowAt, reading, windowSays, taskVars, trackerVars, turnVars, lock>>

\* logind sends a signal, which is lost when nobody listens any more.
Send ==
  \/ signalAt \in {"next", "set"} /\ signals < MaxSignals /\ signals' = signals + 1
  \/ signalAt \in {"last", "ended"} /\ UNCHANGED signals

LockSession ==
  /\ session = "open"
  /\ session' = IF windows = "active" THEN "locking" ELSE "covered"
  /\ Send
  /\ seen' = FALSE /\ handled' = FALSE /\ misread' = FALSE
  /\ UNCHANGED <<windows, service>> /\ worldFrame

\* A second Lock, or the machine is about to sleep.
SignalAgain ==
  /\ Send
  /\ UNCHANGED <<session, windows, service, ghostVars>> /\ worldFrame

\* The lock screen takes the activation away.
Cover ==
  /\ session = "locking"
  /\ session' = "covered" /\ windows' = "inactive"
  /\ UNCHANGED <<signals, service, ghostVars>> /\ worldFrame

\* The user logs in again; some window may get the activation back.
UnlockSession ==
  /\ session = "covered"
  /\ session' = "open" /\ windows' \in {"active", "inactive"}
  /\ UNCHANGED <<signals, service, ghostVars>> /\ worldFrame

ChangeFocus ==
  /\ session = "open"
  /\ windows' = IF windows = "active" THEN "inactive" ELSE "active"
  /\ UNCHANGED <<session, signals, service, ghostVars>> /\ worldFrame

\* The compositor sends the window states a new connection waits for.
StatesArrive ==
  /\ service = "partial"
  /\ service' = "up"
  /\ UNCHANGED <<worldVars, ghostVars>> /\ worldFrame

-----------------------------------------------------------------------------
(* The specification.                                                      *)

\* The tracker starts in any session, also in one that is locked already.
Init ==
  /\ \/ session = "open" /\ windows \in {"active", "inactive"}
     \/ session = "locking" /\ windows = "active"
     \/ session = "covered" /\ windows = "inactive"
  /\ signals = 0
  /\ service \in {"down", "partial", "up"}
  /\ windowAt = "read" /\ reading = "failed" /\ windowSays = "unknown"
  /\ signalAt = "next" /\ signalSays = "unknown"
  /\ pendingLock = FALSE /\ sawInactive = FALSE /\ active = "failed" /\ signalsLost = FALSE
  /\ tracked = FALSE /\ refreshing = {}
  /\ lock = "unknown"
  /\ seen = FALSE /\ handled = FALSE /\ misread = FALSE

LogindTask == TakeSignal \/ LoseSignals \/ SetFromSignal

WindowThread == ReadWindows \/ FailToRead \/ ApplyReading \/ SetFromWindows

Refresh == KeepTracker \/ \E t \in Turn : FindNoTracker(t) \/ WriteUnknown(t)

World == LockSession \/ SignalAgain \/ Cover \/ UnlockSession \/ ChangeFocus \/ StatesArrive

Next == LogindTask \/ WindowThread \/ Refresh \/ World

\* The thread and the tasks run, and the tracker is kept once it has started.
\* Nothing is assumed of the world.
Fairness ==
  /\ WF_vars(TakeSignal) /\ WF_vars(SetFromSignal)
  /\ WF_vars(WindowThread)
  /\ WF_vars(KeepTracker)
  /\ \A t \in Turn : WF_vars(WriteUnknown(t))

Spec == Init /\ [][Next]_vars /\ Fairness

-----------------------------------------------------------------------------
(* What is checked.                                                        *)

\* Once a lock signal has been handled, the gate does not open while the session
\* is locked, whatever the age of the reading in the window thread's hands: an
\* activation left over from before the lock does not count.  The one exception
\* is an inactive reading that was not of this lock's screen (taken before the
\* lock, or from a connection without its window states) and was applied after
\* the signal: the next active one then clears the lock, within the half second
\* the windows stay active.
NoEarlyUnlock ==
  session # "open" /\ handled /\ ~misread => lock # "unlocked"

\* When nobody is at work on the tracker, the gate shows what the tracker says, or
\* refuses: the two sources cannot overwrite each other out of order, and the turn
\* that set the state without knowing of the tracker can only have closed it.
GateNotAhead ==
  MutexFree => lock \in {TrackerState, "unknown"}

\* A session that stays locked is refused in the end, whatever was missed, misread
\* or lost.
LockIsNoticed ==
  <>[](session = "covered") => <>[](lock # "unlocked")

\* A session that stays open with an active window and a connection that works is
\* let through again, unless a signal waits for a moment without an active window
\* (a sleep that locked nothing, a lock shorter than a reading) or logind is gone.
UnlockIsNoticed ==
  <>[](session = "open" /\ windows = "active" /\ service = "up" /\ reading = "active")
    => <>[](\/ lock = "unlocked"
            \/ pendingLock /\ ~sawInactive
            \/ signalsLost)
=============================================================================
