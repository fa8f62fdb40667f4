----------------------------- MODULE DaemonProofs -----------------------------
(***************************************************************************)
(* Theorems about the daemon as the session, its clients and its accounts  *)
(* meet it, for any number of turns, signals, processes, sign-ins, panels, *)
(* keys and requests: the session lock (LockTracker), the sign-ins and the *)
(* keys (Accounts), who listens on the control socket (Socket), what a     *)
(* connection writes (Serve), and what the faces show of the daemon        *)
(* (Overlay, Applet).                                                      *)
(***************************************************************************)
EXTENDS Accounts, MCServices, Induction, FiniteSetTheorems, SequenceTheorems, TLAPS

-----------------------------------------------------------------------------
(* The session lock *)

\* Who holds the mutex has an answer that is still true; there is one holder.
Answers ==
  /\ windowAt = "set" => windowSays = TrackerState /\ signalAt \notin {"set", "last"}
  /\ signalAt \in {"set", "last"} => signalSays = TrackerState
  /\ signalAt = "set" => pendingLock /\ ~sawInactive

\* What the lock screen does to the windows, and to a reading of it.
Screen ==
  /\ session = "covered" => windows = "inactive"
  /\ seen => session # "locking"

\* A lock whose signal was handled stands, unless something was misread: only the
\* lock screen has been seen, and no active reading is on its way since.
Stands ==
  session # "open" /\ handled /\ ~misread =>
    /\ pendingLock /\ lock # "unlocked"
    /\ sawInactive => session = "covered" /\ ~(windowAt = "apply" /\ reading = "active")

LockInv == LockTypeOK /\ Answers /\ GateNotAhead /\ Screen /\ Stands

LEMMA LockInit == ASSUME Init PROVE LockInv
  <1>1. signals \in 0 .. MaxSignals
    BY LockTrackerAssumption DEF Init
  <1> QED
    BY <1>1
     DEF Init, LockInv, LockTypeOK, Answers, GateNotAhead, Screen, Stands, Reading, LockState,
         TrackerState, MutexFree

LEMMA LockStep == ASSUME LockInv, [Next]_vars PROVE LockInv'
  <1> USE LockTrackerAssumption
      DEF LockInv, LockTypeOK, Answers, GateNotAhead, Screen, Stands, Reading, LockState,
          TrackerState, MutexFree, worldVars, threadVars, taskVars, trackerVars, turnVars,
          ghostVars
  <1>1. CASE TakeSignal
    <2>1. signals' \in 0 .. MaxSignals
      BY <1>1 DEF TakeSignal
    <2>2. UNCHANGED <<session, windows, threadVars, turnVars, lock, ghostVars>>
      BY <1>1 DEF TakeSignal
    <2>3. /\ pendingLock' /\ sawInactive' = FALSE /\ UNCHANGED <<active, signalsLost>>
          /\ signalAt' = "set" /\ signalSays' = TrackerState' /\ windowAt # "set"
      BY <1>1 DEF TakeSignal, LockSignal
    <2>4. LockTypeOK'
      BY <1>1, <2>1, <2>2, <2>3 DEF TakeSignal, LockSignal
    <2>5. Answers' /\ GateNotAhead' /\ Screen' /\ Stands'
      BY <2>2, <2>3
    <2> QED
      BY <2>4, <2>5
  <1>2. CASE LoseSignals
    BY <1>2 DEF LoseSignals
  <1>3. CASE SetFromSignal
    BY <1>3 DEF SetFromSignal
  <1>4. CASE ReadWindows
    BY <1>4 DEF ReadWindows
  <1>5. CASE FailToRead
    BY <1>5 DEF FailToRead
  <1>6. CASE ApplyReading
    BY <1>6 DEF ApplyReading, Windows
  <1>7. CASE SetFromWindows
    BY <1>7 DEF SetFromWindows
  <1>8. CASE KeepTracker
    BY <1>8 DEF KeepTracker
  <1>9. ASSUME NEW t \in Turn, FindNoTracker(t) \/ WriteUnknown(t) PROVE LockInv'
    BY <1>9 DEF FindNoTracker, WriteUnknown
  <1>10. CASE World
    <2> USE DEF worldFrame
    <2>1. CASE LockSession
      <3>1. signals' \in 0 .. MaxSignals
        BY <2>1 DEF LockSession, Send
      <3> QED
        BY <2>1, <3>1 DEF LockSession
    <2>2. CASE SignalAgain
      BY <2>2 DEF SignalAgain, Send
    <2>3. CASE Cover
      BY <2>3 DEF Cover
    <2>4. CASE UnlockSession
      BY <2>4 DEF UnlockSession
    <2>5. CASE ChangeFocus
      BY <2>5 DEF ChangeFocus
    <2>6. CASE StatesArrive
      BY <2>6 DEF StatesArrive
    <2> QED
      BY <1>10, <2>1, <2>2, <2>3, <2>4, <2>5, <2>6 DEF World
  <1>11. CASE UNCHANGED vars
    BY <1>11 DEF vars
  <1> QED
    BY <1>1, <1>2, <1>3, <1>4, <1>5, <1>6, <1>7, <1>8, <1>9, <1>10, <1>11
       DEF Next, LogindTask, WindowThread, Refresh

LEMMA LockInvariant == Spec => []LockInv
  BY LockInit, LockStep, PTL DEF Spec

\* The tracker, its two sources, the gate's lock state and the world keep their types.
THEOREM LockTypeCorrect == Spec => []LockTypeOK
  BY LockInvariant, PTL DEF LockInv

\* Whatever the order of the two sources and of the turns that refresh the lock state,
\* the gate shows what the tracker says or refuses once the mutex is free.
THEOREM GateIsNotAhead == Spec => []GateNotAhead
  BY LockInvariant, PTL DEF LockInv

\* A session that was locked stays locked for the gate, whatever was read before the
\* lock, as long as no inactive reading that is older than the lock screen is applied
\* after the signal.
THEOREM NoLockIsClearedEarly == Spec => []NoEarlyUnlock
  <1>1. LockInv => NoEarlyUnlock
    BY DEF LockInv, Stands, NoEarlyUnlock
  <1> QED
    BY <1>1, LockInvariant, PTL

-----------------------------------------------------------------------------
(* The accounts *)

\* A configuration names a provider, and its api_base is empty or that provider's.
OwnAddress(c) == DOMAIN c = {"provider", "base"} /\ c.base \in {"preset", c.provider}

\* The file's address is its provider's own, and so is the daemon's copy, which
\* is the file while the daemon runs.
Configured == OwnAddress(file) /\ OwnAddress(cfg) /\ up \in BOOLEAN /\ (up => cfg = file)

\* Every sign-in is at some step.
SignIns == DOMAIN sign = SignIn /\ \A s \in SignIn : "step" \in DOMAIN sign[s]

AccountsInv == SignIns /\ OneSignIn /\ Configured /\ KeyGoesToItsProvider

LEMMA AccountsInitial == AccountsInit => AccountsInv
  <1> SUFFICES ASSUME AccountsInit PROVE AccountsInv
    OBVIOUS
  <1>1. SignIns /\ OneSignIn
    BY DEF AccountsInit, SignIns, OneSignIn, Waiting
  <1>2. Configured /\ KeyGoesToItsProvider
    BY DEF AccountsInit, Configured, OwnAddress, KeyGoesToItsProvider
  <1> QED
    BY <1>1, <1>2 DEF AccountsInv

\* Sign-in s goes to another step, the others stay where they are.
LEMMA SignMoves ==
  ASSUME SignIns, NEW s \in SignIn, NEW to, sign' = [sign EXCEPT ![s].step = to]
  PROVE  SignIns' /\ sign'[s].step = to /\ \A t \in SignIn : t # s => sign'[t] = sign[t]
  BY DEF SignIns

\* One on its way goes on, or none is sent off: the slot still holds it.
LEMMA OneStays ==
  ASSUME SignIns, OneSignIn, UNCHANGED slot, SignIns',
         \A s \in SignIn : \/ sign'[s].step = sign[s].step
                           \/ sign'[s].step \notin Waiting \ {"bound"}
                           \/ sign[s].step \in Waiting \ {"bound"}
  PROVE  OneSignIn'
  BY DEF OneSignIn

\* The reasoner stays, is dropped, or is built for the configured provider.
LEMMA ClientStays ==
  ASSUME KeyGoesToItsProvider, reasonClient' \in {reasonClient, NoClient}
  PROVE  KeyGoesToItsProvider'
  BY DEF KeyGoesToItsProvider

\* `reasoning set` on a running daemon: the address of another provider goes.
LEMMA SwitchConfigures ==
  ASSUME Configured, up, UNCHANGED up, NEW p,
         file' = Switched(file, p, cfg.provider = p), cfg' = file'
  PROVE  Configured'
  BY DEF Configured, OwnAddress, Switched

LEMMA CommandKeeps == AccountsInv /\ HandleCommand => AccountsInv'
  <1> SUFFICES ASSUME AccountsInv, HandleCommand PROVE AccountsInv'
    OBVIOUS
  <1>1. PICK a \in asks : AnswerReasoning(a) \/ AnswerSet(a) \/ AnswerStore(a) \/ AnswerSignIn(a)
    BY DEF HandleCommand
  <1>2. up /\ UNCHANGED up
    BY DEF HandleCommand
  <1>3. CASE AnswerReasoning(a) \/ AnswerStore(a)
    <2>1. UNCHANGED <<file, cfg, sign, slot>> /\ reasonClient' \in {reasonClient, NoClient}
      BY <1>3 DEF AnswerReasoning, AnswerStore, KeyChanged
    <2> QED
      BY <1>2, <2>1, ClientStays DEF AccountsInv, SignIns, OneSignIn, Configured, OwnAddress
  <1>4. CASE AnswerSet(a)
    <2>1. /\ UNCHANGED <<sign, slot>> /\ reasonClient' \in {reasonClient, NoClient}
          /\ file' = Switched(file, a.provider, cfg.provider = a.provider) /\ cfg' = file'
      BY <1>4 DEF AnswerSet, KeyChanged
    <2>2. Configured'
      BY <1>2, <2>1, SwitchConfigures DEF AccountsInv
    <2> QED
      BY <2>1, <2>2, ClientStays DEF AccountsInv, SignIns, OneSignIn
  <1>5. CASE AnswerSignIn(a)
    <2>1. UNCHANGED <<file, cfg, slot, reasonClient>>
      BY <1>5 DEF AnswerSignIn
    <2>2. SignIns' /\ \A s \in SignIn : sign'[s] = sign[s] \/ sign'[s].step = "bound"
      <3>1. SignIns
        BY DEF AccountsInv
      <3>2. CASE sign' = sign
        BY <3>1, <3>2 DEF SignIns
      <3>3. CASE sign' # sign
        <4>1. PICK s \in SignIn :
                sign' = [sign EXCEPT ![s] = [step |-> "bound", provider |-> a.provider,
                                             key |-> NoKey]]
          BY <1>5, <3>3 DEF AnswerSignIn
        <4> DEFINE new == [step |-> "bound", provider |-> a.provider, key |-> NoKey]
        <4>2. "step" \in DOMAIN new /\ new.step = "bound"
          OBVIOUS
        <4>3. sign' = [sign EXCEPT ![s] = new]
          BY <4>1
        <4> HIDE DEF new
        <4> QED
          BY <3>1, <4>2, <4>3 DEF SignIns
      <3> QED
        BY <3>2, <3>3
    <2>3. OneSignIn'
      BY <2>1, <2>2, OneStays DEF AccountsInv
    <2> QED
      BY <1>2, <2>1, <2>2, <2>3, ClientStays DEF AccountsInv, Configured, OwnAddress
  <1> QED
    BY <1>1, <1>3, <1>4, <1>5

LEMMA RegisterKeeps ==
  ASSUME AccountsInv, NEW s \in SignIn, Register(s)
  PROVE  AccountsInv'
  <1>1. /\ UNCHANGED <<up, file, cfg, reasonClient>> /\ slot' = s
        /\ sign' = [Aborted(slot) EXCEPT ![s].step = "waiting"]
    BY DEF Register
  <1>2. /\ DOMAIN Aborted(slot) = SignIn
        /\ \A t \in SignIn : "step" \in DOMAIN Aborted(slot)[t]
        /\ \A t \in SignIn : Aborted(slot)[t].step \notin Waiting \ {"bound"}
    <2>1. CASE slot = NoOne \/ sign[slot].step \notin Waiting
      BY <2>1, AccountsAssumption DEF Aborted, AccountsInv, SignIns, OneSignIn, Waiting
    <2>2. CASE ~(slot = NoOne \/ sign[slot].step \notin Waiting)
      <3>1. Aborted(slot) = [sign EXCEPT ![slot].step = "aborted"]
        BY <2>2 DEF Aborted
      <3>2. \A t \in SignIn : t # slot => sign[t].step \notin Waiting \ {"bound"}
        BY DEF AccountsInv, OneSignIn
      <3> QED
        BY <3>1, <3>2 DEF AccountsInv, SignIns, Waiting
    <2> QED
      BY <2>1, <2>2
  <1>3. SignIns' /\ \A t \in SignIn : t # s => sign'[t] = Aborted(slot)[t]
    <2> DEFINE A == Aborted(slot)
    <2>1. DOMAIN A = SignIn /\ \A t \in SignIn : "step" \in DOMAIN A[t]
      BY <1>2
    <2>2. sign' = [A EXCEPT ![s].step = "waiting"]
      BY <1>1
    <2> HIDE DEF A
    <2>3. SignIns' /\ \A t \in SignIn : t # s => sign'[t] = A[t]
      BY <2>1, <2>2 DEF SignIns
    <2> QED
      BY <2>3 DEF A
  <1>4. OneSignIn'
    BY <1>1, <1>2, <1>3 DEF OneSignIn
  <1> QED
    BY <1>1, <1>3, <1>4 DEF AccountsInv, Configured, OwnAddress, KeyGoesToItsProvider

LEMMA SignInKeeps ==
  ASSUME AccountsInv, NEW s \in SignIn, Returns(s) \/ GoesOn(s)
  PROVE  AccountsInv'
  <1>1. UNCHANGED <<up, file, cfg, reasonClient, slot>>
    BY DEF Returns, GoesOn, NotBack, Exchange, StoreIt
  <1>2. sign[s].step \in Waiting \ {"bound"}
    BY DEF Returns, GoesOn, NotBack, Exchange, StoreIt, Waiting
  <1>3. SignIns' /\ \A t \in SignIn : t # s => sign'[t] = sign[t]
    <2>1. CASE Exchange(s) /\ sign' # [sign EXCEPT ![s].step = "done"]
      <3>1. sign' = [sign EXCEPT ![s] = [[sign[s] EXCEPT !.step = "storing"] EXCEPT !.key = made']]
        BY <2>1 DEF Exchange, AccountsInv, SignIns
      <3>2. "step" \in DOMAIN [[sign[s] EXCEPT !.step = "storing"] EXCEPT !.key = made']
        BY DEF AccountsInv, SignIns
      <3> QED
        BY <3>1, <3>2 DEF AccountsInv, SignIns
    <2>2. CASE ~(Exchange(s) /\ sign' # [sign EXCEPT ![s].step = "done"])
      <3>1. PICK to : sign' = [sign EXCEPT ![s].step = to]
        BY <2>2 DEF Returns, GoesOn, NotBack, Exchange, StoreIt
      <3> QED
        BY <3>1, SignMoves DEF AccountsInv
    <2> QED
      BY <2>1, <2>2
  <1>4. OneSignIn'
    BY <1>1, <1>2, <1>3, OneStays DEF AccountsInv
  <1> QED
    BY <1>1, <1>3, <1>4 DEF AccountsInv, Configured, OwnAddress, KeyGoesToItsProvider

\* The daemon's own steps, and what the user and the command line do.
LEMMA DaemonKeeps ==
  AccountsInv /\ (ReasonTurn \/ StopDaemon \/ StartAgain) => AccountsInv'
  <1> SUFFICES ASSUME AccountsInv, ReasonTurn \/ StopDaemon \/ StartAgain PROVE AccountsInv'
    OBVIOUS
  <1>1. CASE ReasonTurn
    <2>1. UNCHANGED <<up, file, cfg, sign, slot>>
      BY <1>1 DEF ReasonTurn
    <2>2. Address(cfg) = cfg.provider
      BY DEF AccountsInv, Configured, OwnAddress, Address
    <2>3. KeyGoesToItsProvider'
      BY <1>1, <2>2 DEF ReasonTurn, KeyGoesToItsProvider
    <2> QED
      BY <2>1, <2>3 DEF AccountsInv, SignIns, OneSignIn, Configured, OwnAddress
  <1>2. CASE StopDaemon
    <2>1. /\ up' = FALSE /\ reasonClient' = NoClient /\ UNCHANGED <<file, cfg>>
          /\ sign' = [s \in SignIn |-> IF sign[s].step \in Waiting
                                       THEN [sign[s] EXCEPT !.step = "aborted"] ELSE sign[s]]
      BY <1>2 DEF StopDaemon
    <2>2. SignIns' /\ \A s \in SignIn : sign'[s].step \notin Waiting
      BY <2>1 DEF AccountsInv, SignIns, Waiting
    <2> QED
      BY <2>1, <2>2 DEF AccountsInv, OneSignIn, Configured, OwnAddress, KeyGoesToItsProvider
  <1>3. CASE StartAgain
    BY <1>3 DEF StartAgain, AccountsInv, SignIns, OneSignIn, Configured, OwnAddress,
       KeyGoesToItsProvider
  <1> QED
    BY <1>1, <1>2, <1>3

LEMMA UserKeeps ==
  ASSUME AccountsInv, AuthLogin \/ UseProvider \/ AuthLogout \/ EditConfig \/ LockKeyring
                      \/ TakeAnswer \/ \E l \in Panel : Clicks(l)
  PROVE  AccountsInv'
  <1>1. UNCHANGED <<up, sign, slot>>
    BY DEF AuthLogin, UseProvider, AuthLogout, EditConfig, LockKeyring, TakeAnswer, Clicks
  <1>2. SignIns' /\ OneSignIn'
    BY <1>1 DEF AccountsInv, SignIns, OneSignIn
  <1>3. reasonClient' \in {reasonClient, NoClient}
    BY DEF AuthLogin, UseProvider, AuthLogout, EditConfig, LockKeyring, TakeAnswer, Clicks,
       KeyChanged
  <1>4. KeyGoesToItsProvider'
    BY <1>3, ClientStays DEF AccountsInv
  <1>5. Configured'
    <2>1. CASE UNCHANGED <<file, cfg>>
      BY <1>1, <2>1 DEF AccountsInv, Configured, OwnAddress
    <2>2. CASE UseProvider /\ ~UNCHANGED <<file, cfg>>
      <3>1. CASE up
        BY <1>1, <2>2, <3>1, SwitchConfigures DEF AccountsInv, UseProvider
      <3>2. CASE ~up
        BY <1>1, <2>2, <3>2 DEF AccountsInv, UseProvider, Configured, OwnAddress, Switched
      <3> QED
        BY <3>1, <3>2
    <2>3. CASE EditConfig
      BY <1>1, <2>3 DEF AccountsInv, EditConfig, Configured, OwnAddress
    <2> QED
      BY <2>1, <2>2, <2>3 DEF AuthLogin, AuthLogout, LockKeyring, TakeAnswer, Clicks
  <1> QED
    BY <1>2, <1>4, <1>5 DEF AccountsInv

LEMMA AccountsStep == AccountsInv /\ [AccountsNext]_accountsVars => AccountsInv'
  <1> SUFFICES ASSUME AccountsInv, [AccountsNext]_accountsVars PROVE AccountsInv'
    OBVIOUS
  <1>1. CASE UNCHANGED accountsVars
    BY <1>1 DEF accountsVars, AccountsInv, SignIns, OneSignIn, Configured, OwnAddress,
       KeyGoesToItsProvider
  <1>2. ASSUME NEW s \in SignIn, Register(s) \/ Returns(s) \/ GoesOn(s) PROVE AccountsInv'
    BY <1>2, RegisterKeeps, SignInKeeps
  <1>3. CASE HandleCommand \/ ReasonTurn \/ StopDaemon \/ StartAgain
    BY <1>3, CommandKeeps, DaemonKeeps
  <1>4. CASE AuthLogin \/ UseProvider \/ AuthLogout \/ EditConfig \/ LockKeyring
             \/ TakeAnswer \/ \E l \in Panel : Clicks(l)
    BY <1>4, UserKeeps
  <1> QED
    BY <1>1, <1>2, <1>3, <1>4 DEF AccountsNext

\* Of several sign-ins the newest counts, and a key goes nowhere but to its
\* provider, whoever switches, signs in, stores a key, edits the file or stops
\* the daemon, and in whatever order.
THEOREM NewestSignInCounts == AccountsSpec => []AccountsAreSafe
  <1>1. AccountsSpec => []AccountsInv
    BY AccountsInitial, AccountsStep, PTL DEF AccountsSpec
  <1>2. AccountsInv => AccountsAreSafe
    BY DEF AccountsInv, AccountsAreSafe
  <1> QED
    BY <1>1, <1>2, PTL

-----------------------------------------------------------------------------
(* The control socket *)

SocketPhase == Off \cup {"look", "connect", "remove", "bind", "up", "leaving"}
Underway(p) == phase[p] \notin Off \cup {"up"}

SocketTypeOK == phase \in [Process -> SocketPhase] /\ raced \in BOOLEAN

\* Of those that start or leave there is one; when it is past the look, or is
\* leaving, nobody listens.
OneUnderway ==
  /\ \A p, q \in Process : Underway(p) /\ Underway(q) => p = q
  /\ \A p, q \in Process : phase[p] \in {"remove", "bind", "leaving"} => ~Listening(q)

SocketInv == SocketTypeOK /\ (~raced => OneUnderway) /\ OneDaemon

LEMMA SocketInitial == SocketInit => SocketInv
  BY DEF SocketInit, SocketInv, SocketTypeOK, SocketPhase, OneUnderway, OneDaemon, Underway,
     Listening, Off

\* Who moves without a race moves alone, and the others stay where they are.
LEMMA ProcessMoves ==
  ASSUME SocketInv, NEW p \in Process, NEW to \in SocketPhase, Moves(p, to)
  PROVE  /\ SocketTypeOK' /\ phase'[p] = to
         /\ \A q \in Process : q # p => phase'[q] = phase[q]
         /\ ~raced' => /\ ~raced
                       /\ to \in Off \/ \A q \in Process : q # p => ~Underway(q)
  BY DEF SocketInv, SocketTypeOK, Moves, Underway

LEMMA SocketKeeps ==
  ASSUME SocketInv, NEW p \in Process, SocketSteps(p)
  PROVE  SocketInv'
  <1> USE DEF Off, Underway, Listening
  <1>1. CASE raced'
    <2>1. PICK to \in SocketPhase : Moves(p, to)
      BY DEF SocketSteps, Launch, Look, Connect, RemoveStale, Bind, Terminate, Unlink, Killed, SocketPhase
    <2> QED
      BY <1>1, <2>1, ProcessMoves DEF SocketInv, OneDaemon
  <1>2. CASE ~raced'
    <2>1. ~raced
      BY <1>2 DEF SocketSteps, Launch, Look, Connect, RemoveStale, Bind, Terminate, Unlink, Killed, Moves
    <2>2. /\ \A q, r \in Process : Underway(q) /\ Underway(r) => q = r
          /\ \A q, r \in Process : phase[q] \in {"remove", "bind", "leaving"} => ~Listening(r)
          /\ \A q, r \in Process : Listening(q) /\ Listening(r) => q = r
          /\ \A q \in Process : Listening(q) => path = q
      BY <2>1 DEF SocketInv, OneUnderway, OneDaemon
    <2>3. ASSUME NEW to \in SocketPhase \ {"remove", "bind", "leaving", "up"}, Moves(p, to),
                 UNCHANGED path
          PROVE  SocketInv'
      BY <1>2, <2>2, <2>3, ProcessMoves DEF SocketInv, OneUnderway, OneDaemon
    <2>4. CASE Launch(p)
      BY <2>3, <2>4 DEF Launch, SocketPhase
    <2>5. CASE Look(p)
      <3>1. CASE path = NoSocket
        <4>1. \A q \in Process : ~Listening(q)
          BY <2>2, <3>1, SocketAssumption
        <4>2. Moves(p, "bind") /\ UNCHANGED path
          BY <2>5, <3>1 DEF Look
        <4> QED
          BY <1>2, <2>2, <4>1, <4>2, ProcessMoves DEF SocketInv, OneUnderway, OneDaemon, SocketPhase
      <3>2. CASE path # NoSocket
        BY <2>3, <2>5, <3>2 DEF Look, SocketPhase
      <3> QED
        BY <3>1, <3>2
    <2>6. CASE Connect(p)
      <3>1. CASE path # NoSocket /\ ~Listening(path)
        <4>1. \A q \in Process : ~Listening(q)
          BY <2>2, <3>1
        <4>2. Moves(p, "remove") /\ UNCHANGED path
          BY <2>6, <3>1 DEF Connect
        <4> QED
          BY <1>2, <2>2, <4>1, <4>2, ProcessMoves DEF SocketInv, OneUnderway, OneDaemon, SocketPhase
      <3>2. CASE ~(path # NoSocket /\ ~Listening(path))
        BY <2>3, <2>6, <3>2 DEF Connect, SocketPhase
      <3> QED
        BY <3>1, <3>2
    <2>7. CASE RemoveStale(p)
      <3>1. PICK to \in {"gone", "bind"} : Moves(p, to)
        BY <2>7 DEF RemoveStale
      <3>2. \A q \in Process : ~Listening(q)
        BY <2>2, <2>7 DEF RemoveStale
      <3> QED
        BY <1>2, <2>2, <3>1, <3>2, ProcessMoves DEF SocketInv, OneUnderway, OneDaemon, SocketPhase
    <2>8. CASE Bind(p)
      <3>1. \A q \in Process : ~Listening(q)
        BY <2>2, <2>8 DEF Bind
      <3>2. CASE path = NoSocket
        <4>1. Moves(p, "up") /\ path' = p /\ phase[p] = "bind"
          BY <2>8, <3>2 DEF Bind
        <4> QED
          BY <1>2, <2>2, <3>1, <4>1, ProcessMoves DEF SocketInv, OneUnderway, OneDaemon, SocketPhase
      <3>3. CASE path # NoSocket
        BY <2>3, <2>8, <3>3 DEF Bind, SocketPhase
      <3> QED
        BY <3>2, <3>3
    <2>9. CASE Terminate(p)
      BY <1>2, <2>2, <2>9, ProcessMoves
         DEF Terminate, SocketInv, OneUnderway, OneDaemon, SocketPhase
    <2>10. CASE Unlink(p)
      BY <1>2, <2>2, <2>10, ProcessMoves
         DEF Unlink, SocketInv, OneUnderway, OneDaemon, SocketPhase
    <2>11. CASE Killed(p)
      BY <2>3, <2>11 DEF Killed, SocketPhase
    <2> QED
      BY <2>4, <2>5, <2>6, <2>7, <2>8, <2>9, <2>10, <2>11 DEF SocketSteps
  <1> QED
    BY <1>1, <1>2

LEMMA OneDaemonListens == SocketSpec => []OneDaemon
  <1>1. SocketInv /\ [SocketNext]_socketVars => SocketInv'
    <2>1. SocketInv /\ UNCHANGED socketVars => SocketInv'
      BY DEF socketVars, SocketInv, SocketTypeOK, OneUnderway, OneDaemon, Underway, Listening
    <2> QED
      BY <2>1, SocketKeeps DEF SocketNext
  <1>2. SocketInv => OneDaemon
    BY DEF SocketInv
  <1> QED
    BY <1>1, <1>2, SocketInitial, PTL DEF SocketSpec

-----------------------------------------------------------------------------
(* A connection *)

Event == [kind : {"event"}, of : Nat]
Written == [kind : {"event", "response"}, of : Nat]

ServeTypeOK ==
  /\ asked \in Nat /\ command \in Nat
  /\ lines \in Seq(Nat)
  /\ events \in Seq(Event) /\ written \in Seq(Written)
  /\ behind \in BOOLEAN /\ skipped \in BOOLEAN

\* Only requests before n have their response.
AnsweredBefore(n) ==
  \A i \in DOMAIN written : written[i].kind = "response" => written[i].of < n

Current == serving \in {"handling", "draining"}

\* The requests wait in their order behind the one being handled, and none of
\* them has its response yet.
InOrder ==
  /\ AnsweredBefore(asked + 1)
  /\ \A k \in DOMAIN lines : 0 < lines[k] /\ lines[k] <= asked /\ AnsweredBefore(lines[k])
  /\ \A k, l \in DOMAIN lines : k < l => lines[k] < lines[l]
  /\ Current => /\ 0 < command /\ command <= asked /\ AnsweredBefore(command)
                /\ \A k \in DOMAIN lines : command < lines[k]

\* No event still queued belongs to a request that has its response, nor does
\* one that comes later: those are of the current request or of none.
NoneOverdue ==
  /\ behind => skipped
  /\ \A i \in DOMAIN written : written[i].kind = "response" => written[i].of > 0
  /\ ~skipped =>
       \A i \in DOMAIN events : \A j \in DOMAIN written :
         written[j].kind = "response" => written[j].of # events[i].of

ServeInv == ServeTypeOK /\ InOrder /\ NoneOverdue /\ ResponseIsLast

LEMMA ServeInitial == ServeInit => ServeInv
  <1> SUFFICES ASSUME ServeInit PROVE ServeInv
    OBVIOUS
  <1>1. ServeTypeOK
    <2>1. <<>> \in Seq(Nat) /\ <<>> \in Seq(Event) /\ <<>> \in Seq(Written)
      OBVIOUS
    <2> QED
      BY <2>1 DEF ServeInit, ServeTypeOK
  <1>2. DOMAIN written = {} /\ DOMAIN lines = {} /\ DOMAIN events = {} /\ Len(written) = 0
    BY DEF ServeInit
  <1>3. InOrder /\ NoneOverdue
    BY <1>2 DEF ServeInit, InOrder, AnsweredBefore, Current, NoneOverdue
  <1>4. ResponseIsLast
    BY <1>2 DEF ResponseIsLast
  <1> QED
    BY <1>1, <1>3, <1>4 DEF ServeInv

\* What appending, and taking the first element away, do to a sequence.
LEMMA Appended ==
  ASSUME NEW S, NEW s \in Seq(S), NEW x \in S
  PROVE  /\ Append(s, x) \in Seq(S) /\ Len(s) \in Nat /\ Len(Append(s, x)) = Len(s) + 1
         /\ DOMAIN s = 1..Len(s) /\ DOMAIN Append(s, x) = 1..(Len(s) + 1)
         /\ \A i \in DOMAIN s : Append(s, x)[i] = s[i]
         /\ Append(s, x)[Len(s) + 1] = x
         /\ \A i \in DOMAIN Append(s, x) : i \in DOMAIN s \/ i = Len(s) + 1
  OBVIOUS

LEMMA HeadTaken ==
  ASSUME NEW S, NEW s \in Seq(S), s # <<>>
  PROVE  /\ Tail(s) \in Seq(S) /\ Head(s) \in S /\ Head(s) = s[1] /\ 1 \in DOMAIN s
         /\ \A i \in DOMAIN Tail(s) : i \in Nat /\ i + 1 \in DOMAIN s /\ Tail(s)[i] = s[i + 1]
  <1>1. Len(s) \in Nat /\ Len(s) # 0 /\ Len(Tail(s)) = Len(s) - 1
    OBVIOUS
  <1> QED
    BY <1>1

\* A message written keeps the order if it comes after what it must.
LEMMA WriteKeeps ==
  ASSUME written \in Seq(Written), NEW m \in Written, ResponseIsLast,
         written' = Append(written, m), skipped \in BOOLEAN, skipped => skipped',
         m.kind = "event" => \/ skipped'
                             \/ \A i \in DOMAIN written :
                                  written[i].kind = "response" => written[i].of # m.of,
         m.kind = "response" => AnsweredBefore(m.of)
  PROVE  ResponseIsLast'
  <1>1. /\ Len(written) \in Nat /\ Len(written') = Len(written) + 1
        /\ DOMAIN written = 1..Len(written)
        /\ \A i \in 1..Len(written) : written'[i] = written[i]
        /\ written'[Len(written) + 1] = m
    BY Appended
  <1> SUFFICES ASSUME NEW i \in 1..Len(written'), NEW j \in 1..Len(written'),
                      i < j, written'[i].kind = "response"
               PROVE  /\ written'[j].kind = "event" => written'[j].of # written'[i].of \/ skipped'
                      /\ written'[j].kind = "response" => written'[i].of < written'[j].of
    BY DEF ResponseIsLast
  <1>2. i \in 1..Len(written) /\ written'[i] = written[i]
    BY <1>1
  <1>3. CASE j \in 1..Len(written)
    BY <1>1, <1>2, <1>3 DEF ResponseIsLast
  <1>4. CASE j = Len(written) + 1
    BY <1>1, <1>2, <1>4 DEF AnsweredBefore
  <1> QED
    BY <1>1, <1>3, <1>4

LEMMA WrittenOf == ServeTypeOK => \A j \in DOMAIN written : written[j].of \in Nat
  <1> SUFFICES ASSUME ServeTypeOK, NEW j \in DOMAIN written PROVE written[j].of \in Nat
    OBVIOUS
  <1>1. written \in Seq(Written)
    BY DEF ServeTypeOK
  <1>2. written[j] \in Written
    BY <1>1
  <1> QED
    BY <1>2 DEF Written

\* An event that is emitted is of no request that has its response.
LEMMA EmitKeeps ==
  ASSUME ServeInv, NEW e \in Event, Emit(e), UNCHANGED written,
         \A j \in DOMAIN written : written[j].kind = "response" => written[j].of # e.of
  PROVE  /\ events' \in Seq(Event) /\ behind' \in BOOLEAN /\ skipped' \in BOOLEAN
         /\ NoneOverdue' /\ ResponseIsLast'
  <1>1. /\ events \in Seq(Event) /\ behind \in BOOLEAN /\ skipped \in BOOLEAN
        /\ NoneOverdue /\ ResponseIsLast
    BY DEF ServeInv, ServeTypeOK
  <1>2. skipped => skipped'
    BY DEF Emit
  <1>3. ResponseIsLast'
    BY <1>1, <1>2 DEF ResponseIsLast
  <1>4. CASE Len(events) < Keeps
    <2>1. events' = Append(events, e) /\ UNCHANGED <<behind, skipped>>
      BY <1>4 DEF Emit
    <2>2. /\ events' \in Seq(Event) /\ \A i \in DOMAIN events : events'[i] = events[i]
          /\ \A i \in DOMAIN events' : i \in DOMAIN events \/ events'[i] = e
      BY <1>1, <2>1, Appended
    <2>3. NoneOverdue'
      BY <1>1, <2>1, <2>2 DEF NoneOverdue
    <2> QED
      BY <1>1, <1>3, <2>1, <2>2, <2>3
  <1>5. CASE ~(Len(events) < Keeps)
    <2>1. events' = Append(Tail(events), e) /\ behind' = TRUE /\ skipped' = TRUE
      BY <1>5 DEF Emit
    <2>2. events # <<>>
      BY <1>5, ServeAssumption
    <2>3. events' \in Seq(Event)
      BY <1>1, <2>1, <2>2, HeadTaken, Appended
    <2>4. NoneOverdue'
      BY <1>1, <2>1 DEF NoneOverdue
    <2> QED
      BY <1>3, <2>1, <2>3, <2>4
  <1> QED
    BY <1>4, <1>5

\* The requests keep their order when none is read, written about or begun.
LEMMA OrderFrame ==
  ASSUME InOrder, UNCHANGED <<asked, lines, command, written>>, Current' => Current
  PROVE  InOrder'
  BY DEF InOrder, AnsweredBefore

\* An event is written: it answers nothing.
LEMMA EventWritten ==
  ASSUME ServeInv, events # <<>>, ~behind, NEW to, to \in {serving, "draining"},
         to = "draining" => Current,
         events' = Tail(events), WriteThen(Head(events), to),
         UNCHANGED <<asked, lines, behind, skipped>>
  PROVE  ServeInv'
  <1>1. /\ events \in Seq(Event) /\ written \in Seq(Written) /\ asked \in Nat /\ command \in Nat
        /\ lines \in Seq(Nat) /\ behind \in BOOLEAN /\ skipped \in BOOLEAN
        /\ InOrder /\ NoneOverdue /\ ResponseIsLast
    BY DEF ServeInv, ServeTypeOK
  <1>2. /\ events' \in Seq(Event) /\ Head(events) \in Event
        /\ Head(events) = events[1] /\ 1 \in DOMAIN events
        /\ \A i \in DOMAIN events' : i + 1 \in DOMAIN events /\ events'[i] = events[i + 1]
    BY <1>1, HeadTaken
  <1> DEFINE e == Head(events)
  <1>3. e \in Written /\ e.kind = "event"
    BY <1>2 DEF Event, Written
  <1>4. ~skipped => \A j \in DOMAIN written : written[j].kind = "response" => written[j].of # e.of
    BY <1>1, <1>2 DEF NoneOverdue
  <1> HIDE DEF e
  <1>5. CASE client = "there"
    <2>1. written' = Append(written, e) /\ serving' = to /\ UNCHANGED <<command>>
      BY <1>5 DEF WriteThen, e
    <2>2. /\ written' \in Seq(Written)
          /\ \A i \in DOMAIN written : i \in DOMAIN written' /\ written'[i] = written[i]
          /\ \A i \in DOMAIN written' : i \in DOMAIN written \/ written'[i] = e
      BY <1>1, <1>3, <2>1, Appended
    <2>3. \A i \in DOMAIN written' : written'[i].kind = "response" =>
            i \in DOMAIN written /\ written'[i] = written[i]
      BY <1>3, <2>2
    <2>4. ServeTypeOK'
      BY <1>1, <1>2, <2>1, <2>2 DEF ServeTypeOK
    <2>5. ResponseIsLast'
      BY <1>1, <1>3, <1>4, <2>1, WriteKeeps
    <2>6. InOrder'
      <3>1. Current' => Current
        BY <2>1 DEF Current
      <3>2. \A n : AnsweredBefore(n) => AnsweredBefore(n)'
        BY <2>3 DEF AnsweredBefore
      <3> QED
        BY <1>1, <2>1, <3>1, <3>2 DEF InOrder
    <2>7. NoneOverdue'
      BY <1>1, <1>2, <2>3 DEF NoneOverdue
    <2> QED
      BY <2>4, <2>5, <2>6, <2>7 DEF ServeInv
  <1>6. CASE client # "there"
    <2>1. UNCHANGED written /\ serving' = "closed" /\ command' = 0
      BY <1>6 DEF WriteThen
    <2>2. ServeTypeOK' /\ ResponseIsLast' /\ InOrder'
      BY <1>1, <1>2, <2>1 DEF ServeTypeOK, ResponseIsLast, InOrder, AnsweredBefore, Current
    <2>3. NoneOverdue'
      BY <1>1, <1>2, <2>1 DEF NoneOverdue
    <2> QED
      BY <2>2, <2>3 DEF ServeInv
  <1> QED
    BY <1>5, <1>6

\* The response is written when nothing of its request is queued, or too much was.
LEMMA ResponseWritten == ServeInv /\ Respond => ServeInv'
  <1> SUFFICES ASSUME ServeInv, Respond PROVE ServeInv'
    OBVIOUS
  <1>1. /\ events \in Seq(Event) /\ written \in Seq(Written) /\ asked \in Nat /\ command \in Nat
        /\ lines \in Seq(Nat) /\ skipped \in BOOLEAN
        /\ InOrder /\ NoneOverdue /\ ResponseIsLast
    BY DEF ServeInv, ServeTypeOK
  <1>2. /\ UNCHANGED <<asked, lines, events, skipped>> /\ behind' = FALSE
        /\ WriteThen(Response(command), "select")
        /\ Current /\ (skipped \/ events = <<>>)
    BY <1>1 DEF Respond, Current, NoneOverdue
  <1> DEFINE m == Response(command)
  <1>3. m \in Written /\ m.kind = "response" /\ m.of = command
    BY <1>1 DEF Response, Written
  <1> HIDE DEF m
  <1>4. CASE client = "there"
    <2>1. written' = Append(written, m) /\ serving' = "select" /\ UNCHANGED command
      BY <1>2, <1>4 DEF WriteThen, m
    <2>2. /\ written' \in Seq(Written)
          /\ \A i \in DOMAIN written : i \in DOMAIN written' /\ written'[i] = written[i]
          /\ \A i \in DOMAIN written' : \/ i \in DOMAIN written /\ written'[i] = written[i]
                                       \/ written'[i] = m
      BY <1>1, <1>3, <2>1, Appended
    <2>3. ServeTypeOK'
      BY <1>1, <1>2, <2>1, <2>2 DEF ServeTypeOK
    <2>4. ResponseIsLast'
      BY <1>1, <1>2, <1>3, <2>1, WriteKeeps DEF InOrder
    <2>5. \A n \in Nat : AnsweredBefore(n) /\ command < n => AnsweredBefore(n)'
      BY <1>3, <2>2 DEF AnsweredBefore
    <2>6. \A k \in DOMAIN lines : lines[k] \in Nat
      BY <1>1
    <2>7. InOrder'
      BY <1>1, <1>2, <2>1, <2>5, <2>6 DEF InOrder, Current
    <2>8. NoneOverdue'
      <3>1. ~skipped => DOMAIN events = {}
        BY <1>2
      <3>2. command > 0
        BY <1>1, <1>2 DEF InOrder
      <3>3. \A i \in DOMAIN written' : written'[i].kind = "response" => written'[i].of > 0
        BY <1>1, <1>3, <2>2, <3>2 DEF NoneOverdue
      <3> QED
        BY <1>2, <3>1, <3>3 DEF NoneOverdue
    <2> QED
      BY <2>3, <2>4, <2>7, <2>8 DEF ServeInv
  <1>5. CASE client # "there"
    <2>1. UNCHANGED written /\ serving' = "closed" /\ command' = 0
      BY <1>2, <1>5 DEF WriteThen
    <2>2. ServeTypeOK' /\ ResponseIsLast'
      <3>1. behind' \in BOOLEAN /\ skipped' \in BOOLEAN /\ command' \in Nat
        BY <1>1, <1>2, <2>1
      <3> QED
        BY <1>1, <1>2, <2>1, <3>1 DEF ServeTypeOK, ResponseIsLast
    <2>3. InOrder' /\ NoneOverdue'
      BY <1>1, <1>2, <2>1 DEF InOrder, AnsweredBefore, Current, NoneOverdue
    <2> QED
      BY <2>2, <2>3 DEF ServeInv
  <1> QED
    BY <1>4, <1>5

LEMMA LineRead == ServeInv /\ ReadLine => ServeInv'
  <1> SUFFICES ASSUME ServeInv, ReadLine PROVE ServeInv'
    OBVIOUS
  <1>1. /\ lines \in Seq(Nat) /\ lines # <<>> /\ lines' = Tail(lines) /\ ~Current
        /\ UNCHANGED <<asked, events, behind, written, skipped>>
    BY DEF ServeInv, ServeTypeOK, ReadLine, Current
  <1>2. /\ lines' \in Seq(Nat) /\ Head(lines) \in Nat /\ Head(lines) = lines[1]
        /\ 1 \in DOMAIN lines
        /\ \A k \in DOMAIN lines' : k \in Nat /\ k + 1 \in DOMAIN lines /\ lines'[k] = lines[k + 1]
    BY <1>1, HeadTaken
  <1>3. \A k \in DOMAIN lines' : k # 0
    BY <1>1, <1>2
  <1>4. \/ serving' = "closed" /\ UNCHANGED command
        \/ serving' = "handling" /\ command' = Head(lines)
    BY DEF ReadLine
  <1>5. ServeTypeOK' /\ ResponseIsLast' /\ NoneOverdue'
    BY <1>1, <1>2, <1>4 DEF ServeInv, ServeTypeOK, ResponseIsLast, NoneOverdue
  <1>6. InOrder'
    <2>1. InOrder
      BY DEF ServeInv
    <2>2. /\ \A k \in DOMAIN lines' :
               0 < lines'[k] /\ lines'[k] <= asked /\ AnsweredBefore(lines'[k]) /\ lines[1] < lines'[k]
          /\ \A k, l \in DOMAIN lines' : k < l => lines'[k] < lines'[l]
      <3>1. \A k \in DOMAIN lines' : 1 < k + 1
        BY <1>2, <1>3
      <3>2. \A k, l \in DOMAIN lines' : k < l => k + 1 < l + 1
        BY <1>2
      <3> QED
        BY <1>2, <2>1, <3>1, <3>2 DEF InOrder
    <2>3. \A n : AnsweredBefore(n)' <=> AnsweredBefore(n)
      BY <1>1 DEF AnsweredBefore
    <2>4. 0 < lines[1] /\ lines[1] <= asked /\ AnsweredBefore(lines[1]) /\ AnsweredBefore(asked + 1)
      BY <1>2, <2>1 DEF InOrder
    <2> QED
      BY <1>1, <1>2, <1>4, <2>2, <2>3, <2>4 DEF InOrder, Current
  <1> QED
    BY <1>5, <1>6 DEF ServeInv

\* Events, of the current request or of the rest of the daemon.
LEMMA EventEmitted == ServeInv /\ (OtherEvent \/ HandlerEmits) => ServeInv'
  <1> SUFFICES ASSUME ServeInv, OtherEvent \/ HandlerEmits PROVE ServeInv'
    OBVIOUS
  <1>1. /\ UNCHANGED <<asked, lines, serving, command, written>>
        /\ Emit(OfCommand(0)) \/ (Current /\ Emit(OfCommand(command)))
    BY DEF OtherEvent, HandlerEmits, Current
  <1>2. /\ command \in Nat /\ InOrder /\ NoneOverdue
        /\ \A j \in DOMAIN written : written[j].of \in Nat
    <2>1. command \in Nat /\ InOrder /\ NoneOverdue
      BY DEF ServeInv, ServeTypeOK
    <2> QED
      BY <2>1, WrittenOf DEF ServeInv
  <1>3. PICK e \in Event :
          /\ Emit(e)
          /\ \A j \in DOMAIN written : written[j].kind = "response" => written[j].of # e.of
    <2>1. CASE Emit(OfCommand(0))
      <3>1. OfCommand(0) \in Event /\ OfCommand(0).of = 0
        BY DEF OfCommand, Event
      <3> QED
        BY <1>2, <2>1, <3>1 DEF NoneOverdue
    <2>2. CASE Current /\ Emit(OfCommand(command))
      <3>1. OfCommand(command) \in Event /\ OfCommand(command).of = command
        BY <1>2 DEF OfCommand, Event
      <3>2. AnsweredBefore(command)
        BY <1>2, <2>2 DEF InOrder
      <3> QED
        BY <1>2, <2>2, <3>1, <3>2 DEF AnsweredBefore
    <2> QED
      BY <1>1, <2>1, <2>2
  <1>4. /\ events' \in Seq(Event) /\ behind' \in BOOLEAN /\ skipped' \in BOOLEAN
        /\ NoneOverdue' /\ ResponseIsLast'
    BY <1>1, <1>3, EmitKeeps
  <1>5. ServeTypeOK' /\ InOrder'
    BY <1>1, <1>4, OrderFrame DEF ServeInv, ServeTypeOK, Current
  <1> QED
    BY <1>4, <1>5 DEF ServeInv

LEMMA RequestAsked == ServeInv /\ Ask => ServeInv'
  <1> SUFFICES ASSUME ServeInv, Ask PROVE ServeInv'
    OBVIOUS
  <1>1. /\ asked \in Nat /\ lines \in Seq(Nat) /\ InOrder
        /\ \A j \in DOMAIN written : written[j].of \in Nat
    <2>1. asked \in Nat /\ lines \in Seq(Nat) /\ InOrder
      BY DEF ServeInv, ServeTypeOK
    <2> QED
      BY <2>1, WrittenOf DEF ServeInv
  <1>2. /\ asked' = asked + 1 /\ lines' = Append(lines, asked + 1)
        /\ UNCHANGED <<serving, command, events, behind, written, skipped>>
    BY DEF Ask
  <1>3. /\ lines' \in Seq(Nat)
        /\ DOMAIN lines = 1..Len(lines) /\ DOMAIN lines' = 1..(Len(lines) + 1) /\ Len(lines) \in Nat
        /\ \A k \in DOMAIN lines : lines'[k] = lines[k]
        /\ lines'[Len(lines) + 1] = asked + 1
    BY <1>1, <1>2, Appended
  <1>4. ServeTypeOK' /\ ResponseIsLast' /\ NoneOverdue'
    BY <1>1, <1>2, <1>3 DEF ServeInv, ServeTypeOK, ResponseIsLast, NoneOverdue
  <1>5. InOrder'
    <2>1. \A n : AnsweredBefore(n)' <=> AnsweredBefore(n)
      BY <1>2 DEF AnsweredBefore
    <2>2. AnsweredBefore(asked + 2)
      BY <1>1 DEF InOrder, AnsweredBefore
    <2>3. \A k \in DOMAIN lines : lines[k] \in Nat
      BY <1>1
    <2>4. \A k \in DOMAIN lines' : 0 < lines'[k] /\ lines'[k] <= asked + 1 /\ AnsweredBefore(lines'[k])
      BY <1>1, <1>3, <2>3 DEF InOrder
    <2>5. \A k, l \in DOMAIN lines' : k < l => lines'[k] < lines'[l]
      BY <1>1, <1>3, <2>3 DEF InOrder
    <2>6. Current => /\ 0 < command /\ command <= asked + 1 /\ AnsweredBefore(command)
                     /\ \A k \in DOMAIN lines' : command < lines'[k]
      <3>1. command \in Nat
        BY DEF ServeInv, ServeTypeOK
      <3> QED
        BY <1>1, <1>3, <2>3, <3>1 DEF InOrder
    <2>7. asked' + 1 = asked + 2
      BY <1>1, <1>2
    <2> QED
      BY <1>2, <2>1, <2>2, <2>4, <2>5, <2>6, <2>7 DEF InOrder, Current
  <1> QED
    BY <1>4, <1>5 DEF ServeInv

LEMMA ServeStep == ServeInv /\ [ServeNext]_serveVars => ServeInv'
  <1> SUFFICES ASSUME ServeInv, [ServeNext]_serveVars PROVE ServeInv'
    OBVIOUS
  <1>1. CASE OtherEvent \/ HandlerEmits
    BY <1>1, EventEmitted
  <1>2. CASE Ask
    BY <1>2, RequestAsked
  <1>3. CASE HangUp \/ EndOfStream \/ NoticeLag \/ HandlerReturns \/ UNCHANGED serveVars
    <2>1. /\ UNCHANGED <<asked, lines, command, events, written, skipped>>
          /\ behind' = behind \/ behind' = FALSE
          /\ Current' => Current
      BY <1>3 DEF HangUp, EndOfStream, NoticeLag, HandlerReturns, serveVars, Current
    <2>2. /\ ServeTypeOK /\ InOrder /\ NoneOverdue /\ ResponseIsLast
          /\ behind' \in BOOLEAN /\ (behind' => behind)
      <3>1. ServeInv /\ behind \in BOOLEAN
        BY DEF ServeInv, ServeTypeOK
      <3>2. behind' \in BOOLEAN /\ (behind' => behind)
        <4>1. CASE behind' = behind
          BY <3>1, <4>1
        <4>2. CASE behind' = FALSE
          BY <4>2
        <4> QED
          BY <2>1, <4>1, <4>2
      <3> QED
        BY <3>1, <3>2 DEF ServeInv
    <2>3. ServeTypeOK'
      BY <2>1, <2>2 DEF ServeTypeOK
    <2>4. ResponseIsLast' /\ NoneOverdue'
      BY <2>1, <2>2 DEF ResponseIsLast, NoneOverdue
    <2>5. InOrder'
      BY <2>1, <2>2, OrderFrame
    <2> QED
      BY <2>3, <2>4, <2>5 DEF ServeInv
  <1>4. CASE ReadLine
    BY <1>4, LineRead
  <1>5. CASE ForwardEvent \/ DrainEvent
    <2>1. /\ events # <<>> /\ ~behind /\ events' = Tail(events)
          /\ UNCHANGED <<asked, lines, behind, skipped>>
          /\ \/ WriteThen(Head(events), serving)
             \/ Current /\ WriteThen(Head(events), "draining")
      BY <1>5 DEF ForwardEvent, DrainEvent, Current
    <2>2. CASE WriteThen(Head(events), serving)
      BY <1>5, <2>1, <2>2, EventWritten DEF ForwardEvent, DrainEvent, Current
    <2>3. CASE Current /\ WriteThen(Head(events), "draining")
      BY <2>1, <2>3, EventWritten
    <2> QED
      BY <2>1, <2>2, <2>3
  <1>6. CASE Respond
    BY <1>6, ResponseWritten
  <1> QED
    BY <1>1, <1>2, <1>3, <1>4, <1>5, <1>6 DEF ServeNext

\* One daemon has the socket, as long as nobody starts while another starts or
\* leaves, for any number of processes and of those that were killed; and on a
\* connection every request has one response, in order and after all of its
\* events, for any number of requests and events and a ring of any size.
THEOREM DaemonAnswersOnce == SocketSpec /\ ServeSpec => []OneDaemonAnswers
  <1>1. ServeSpec => []ServeInv
    BY ServeInitial, ServeStep, PTL DEF ServeSpec
  <1>2. ServeInv /\ OneDaemon => OneDaemonAnswers
    BY DEF ServeInv, OneDaemonAnswers
  <1> QED
    BY <1>1, <1>2, OneDaemonListens, PTL

-----------------------------------------------------------------------------
(* What a face can know *)

\* What a connection can carry, and what the daemon still has to say.
Report ==
  [kind : {"state"}, state : State] \cup [kind : {"held", "resolved"}, token : Nat]
  \cup [kind : {"render"}, on : BOOLEAN] \cup {Connected, Disconnected}
OfHold == [kind : {"held", "resolved"}, token : Nat]
LinkReport == {Connected, Disconnected}

StreamTypes ==
  /\ daemon \in [up : BOOLEAN, before : Nat, state : State, holds : SUBSET Nat,
                 paused : BOOLEAN, rendering : BOOLEAN]
  /\ unsaid \subseteq OfHold
  /\ ring \in Seq(Report) /\ wire \in Seq(Report)
  /\ linked \in BOOLEAN /\ parked \in 0..MaxHolds

\* The calls that a daemon holds, and those that it has still to report, are its own.
StreamHolds ==
  /\ ~linked => ring = <<>>
  /\ Len(ring) <= Capacity
  /\ linked => daemon.up
  /\ ~daemon.up => daemon.before = parked
  /\ daemon.before <= parked
  /\ daemon.holds \subseteq (daemon.before + 1)..parked
  /\ \A e \in unsaid : e.token \in (daemon.before + 1)..parked
  /\ \A i \in 1..Len(ring) :
       /\ ring[i] \notin LinkReport
       /\ ring[i] \in OfHold => ring[i].token \in (daemon.before + 1)..parked


LEMMA ReportParts ==
  /\ OfHold \subseteq Report
  /\ \A s \in State : Stated(s) \in Report /\ Stated(s) \notin LinkReport /\ Stated(s) \notin OfHold
                      /\ Stated(s).kind = "state"
  /\ \A t \in Nat : /\ Held(t) \in OfHold /\ Resolved(t) \in OfHold /\ Held(t) # Resolved(t)
                    /\ Held(t).token = t /\ Resolved(t).token = t
                    /\ Held(t).kind = "held" /\ Resolved(t).kind = "resolved"
  /\ \A b \in BOOLEAN : Rendering(b) \in Report /\ Rendering(b) \notin LinkReport
                        /\ Rendering(b) \notin OfHold /\ Rendering(b).kind = "render"
  /\ LinkReport \subseteq Report /\ LinkReport \cap OfHold = {} /\ Connected # Disconnected
  /\ Connected.kind = "connected" /\ Disconnected.kind = "disconnected"
  /\ \A e \in OfHold : e.token \in Nat /\ (e = Held(e.token) \/ e = Resolved(e.token))
  /\ \A e \in Report : e.kind \in {"state", "held", "resolved", "render", "connected", "disconnected"}
  <1>1. /\ OfHold \subseteq Report /\ LinkReport \subseteq Report
        /\ Connected.kind = "connected" /\ Disconnected.kind = "disconnected" /\ Connected # Disconnected
    BY DEF OfHold, Report, LinkReport, Connected, Disconnected
  <1>2. \A s \in State : Stated(s) \in Report /\ Stated(s).kind = "state"
    BY DEF Stated, Report
  <1>3. \A t \in Nat : /\ Held(t) \in OfHold /\ Resolved(t) \in OfHold
                       /\ Held(t).token = t /\ Resolved(t).token = t
                       /\ Held(t).kind = "held" /\ Resolved(t).kind = "resolved"
    BY DEF Held, Resolved, OfHold
  <1>4. \A b \in BOOLEAN : Rendering(b) \in Report /\ Rendering(b).kind = "render"
    BY DEF Rendering, Report
  <1>5. \A e \in OfHold : e.kind \in {"held", "resolved"} /\ e.token \in Nat
                          /\ (e = Held(e.token) \/ e = Resolved(e.token))
    BY DEF OfHold, Held, Resolved
  <1>6. \A e \in LinkReport : e.kind \in {"connected", "disconnected"}
    BY DEF LinkReport, Connected, Disconnected
  <1>7. \A e \in Report : e.kind \in {"state", "held", "resolved", "render", "connected", "disconnected"}
    BY DEF Report, Connected, Disconnected
  <1>8. LinkReport \cap OfHold = {}
    BY <1>5, <1>6
  <1>9. \A s \in State : Stated(s) \notin LinkReport /\ Stated(s) \notin OfHold
    BY <1>2, <1>5, <1>6
  <1>10. \A b \in BOOLEAN : Rendering(b) \notin LinkReport /\ Rendering(b) \notin OfHold
    BY <1>4, <1>5, <1>6
  <1>11. \A t \in Nat : Held(t) # Resolved(t)
    BY <1>3
  <1> QED BY <1>1, <1>2, <1>3, <1>4, <1>5, <1>7, <1>8, <1>9, <1>10, <1>11

LEMMA StreamBounds ==
  /\ Capacity \in Nat /\ Capacity # 0 /\ MaxHolds \in Nat /\ "Idle" \in State
  /\ \A n \in 0..MaxHolds : n \in Nat
  BY StreamAssumption

LEMMA AppendedTo ==
  ASSUME NEW S, NEW q \in Seq(S), NEW e \in S
  PROVE  /\ Append(q, e) \in Seq(S) /\ Len(Append(q, e)) = Len(q) + 1 /\ Len(q) \in Nat
         /\ \A i \in 1..Len(q) : Append(q, e)[i] = q[i]
         /\ Append(q, e)[Len(q) + 1] = e
  OBVIOUS

LEMMA TailOf ==
  ASSUME NEW S, NEW q \in Seq(S), q # <<>>
  PROVE  /\ Tail(q) \in Seq(S) /\ Len(Tail(q)) = Len(q) - 1 /\ Len(q) \in Nat /\ Len(q) >= 1
         /\ \A i \in 1..Len(Tail(q)) : Tail(q)[i] = q[i + 1] /\ i + 1 \in 1..Len(q)
         /\ Head(q) = q[1] /\ Head(q) \in S
  OBVIOUS

\* What the daemon broadcasts goes behind what is in the ring, which may lose its first.
LEMMA BroadcastTo ==
  ASSUME StreamTypes, StreamHolds, NEW e \in Report
  PROVE  /\ Broadcast(e) \in Seq(Report)
         /\ \/ ~linked /\ Broadcast(e) = <<>>
            \/ linked /\ Broadcast(e) # <<>> /\ Len(ring) < Capacity /\ Broadcast(e) = Append(ring, e)
            \/ /\ linked /\ Len(ring) >= Capacity /\ ring # <<>>
               /\ Broadcast(e) = Append(Tail(ring), e) /\ Len(Broadcast(e)) = Len(ring)
         /\ \A i \in 1..Len(Broadcast(e)) :
              Broadcast(e)[i] = e \/ \E j \in 1..Len(ring) : Broadcast(e)[i] = ring[j]
  <1>0. ring \in Seq(Report) /\ linked \in BOOLEAN /\ Len(ring) \in Nat /\ Capacity \in Nat /\ Capacity # 0
    BY StreamBounds DEF StreamTypes
  <1>1. CASE ~linked
    <2>1. Broadcast(e) = <<>> /\ ring = <<>>
      BY <1>1 DEF Broadcast, StreamHolds
    <2> QED BY <1>0, <1>1, <2>1
  <1>2. CASE linked /\ Len(ring) < Capacity
    <2>1. Broadcast(e) = Append(ring, e)
      BY <1>2 DEF Broadcast
    <2>2. /\ Append(ring, e) \in Seq(Report) /\ Len(Append(ring, e)) = Len(ring) + 1
          /\ \A i \in 1..Len(ring) : Append(ring, e)[i] = ring[i]
          /\ Append(ring, e)[Len(ring) + 1] = e /\ Append(ring, e) # <<>>
      BY <1>0, AppendedTo, AppendProperties
    <2>3. \A i \in 1..(Len(ring) + 1) : i \in 1..Len(ring) \/ i = Len(ring) + 1
      BY <1>0
    <2> QED BY <1>2, <2>1, <2>2, <2>3
  <1>3. CASE linked /\ ~(Len(ring) < Capacity)
    <2>1. Broadcast(e) = Append(Tail(ring), e) /\ ring # <<>> /\ Len(ring) >= Capacity
      BY <1>0, <1>3 DEF Broadcast
    <2>2. /\ Tail(ring) \in Seq(Report) /\ Len(Tail(ring)) = Len(ring) - 1
          /\ \A i \in 1..Len(Tail(ring)) : Tail(ring)[i] = ring[i + 1] /\ i + 1 \in 1..Len(ring)
      BY <1>0, <2>1, TailOf
    <2>3. /\ Append(Tail(ring), e) \in Seq(Report)
          /\ Len(Append(Tail(ring), e)) = Len(Tail(ring)) + 1
          /\ \A i \in 1..Len(Tail(ring)) : Append(Tail(ring), e)[i] = Tail(ring)[i]
          /\ Append(Tail(ring), e)[Len(Tail(ring)) + 1] = e
      BY <2>2, AppendedTo
    <2>4. Len(Append(Tail(ring), e)) = Len(ring)
      BY <1>0, <2>2, <2>3
    <2>5. \A i \in 1..Len(ring) : i \in 1..Len(Tail(ring)) \/ i = Len(Tail(ring)) + 1
      <3>1. Len(Tail(ring)) = Len(ring) - 1 /\ Len(ring) \in Nat
        BY <1>0, <2>2
      <3> QED BY <3>1
    <2> QED BY <1>3, <2>1, <2>2, <2>3, <2>4, <2>5
  <1> QED BY <1>1, <1>2, <1>3

\* A report that may be in the ring.
Sayable(e) ==
  e \in Report /\ e \notin LinkReport /\ (e \in OfHold => e.token \in (daemon.before + 1)..parked)

LEMMA RingHolds ==
  ASSUME StreamTypes, StreamHolds, NEW e, Sayable(e)
  PROVE  /\ Broadcast(e) \in Seq(Report) /\ (~linked => Broadcast(e) = <<>>)
         /\ Len(Broadcast(e)) <= Capacity
         /\ \A i \in 1..Len(Broadcast(e)) : Sayable(Broadcast(e)[i])
  <1>1. \A i \in 1..Len(ring) : Sayable(ring[i])
    BY DEF StreamTypes, StreamHolds, Sayable
  <1>2. e \in Report
    BY DEF Sayable
  <1>3. Len(Broadcast(e)) <= Capacity
    <2>1. ring \in Seq(Report) /\ Len(ring) \in Nat /\ Len(ring) <= Capacity /\ Capacity \in Nat
      BY StreamBounds DEF StreamTypes, StreamHolds
    <2>2. CASE Broadcast(e) = <<>>
      BY <2>1, <2>2
    <2>3. CASE Len(ring) < Capacity /\ Broadcast(e) = Append(ring, e)
      <3>1. Len(Append(ring, e)) = Len(ring) + 1
        BY <1>2, <2>1, AppendedTo
      <3> QED BY <2>1, <2>3, <3>1
    <2>4. CASE Len(Broadcast(e)) = Len(ring)
      BY <2>1, <2>4
    <2> QED BY <1>2, <2>2, <2>3, <2>4, BroadcastTo
  <1> QED BY <1>1, <1>2, <1>3, BroadcastTo DEF Sayable

\* Who takes a held call away has it to announce.
Takes == \E t \in daemon.holds : TakeHold(t)

LEMMA StreamStep ==
  ASSUME StreamTypes, StreamHolds, DaemonSteps \/ Takes
  PROVE  StreamTypes' /\ StreamHolds'
  <1> DEFINE Daemon == [up : BOOLEAN, before : Nat, state : State, holds : SUBSET Nat,
                        paused : BOOLEAN, rendering : BOOLEAN]
  <1>0. /\ daemon \in Daemon /\ unsaid \subseteq OfHold /\ ring \in Seq(Report) /\ wire \in Seq(Report)
        /\ linked \in BOOLEAN /\ parked \in 0..MaxHolds /\ parked \in Nat /\ MaxHolds \in Nat
        /\ daemon.before \in Nat /\ daemon.state \in State
    BY StreamBounds DEF StreamTypes
  <1>1. ASSUME NEW s \in State, SetState(s) PROVE StreamTypes' /\ StreamHolds'
    <2>1. /\ daemon' = [daemon EXCEPT !.state = s] /\ ring' = Broadcast(Stated(s))
          /\ UNCHANGED <<unsaid, wire, linked, parked>>
      BY <1>1 DEF SetState
    <2>2. daemon' \in Daemon /\ daemon'.up = daemon.up /\ daemon'.before = daemon.before
          /\ daemon'.holds = daemon.holds
      BY <1>0, <2>1
    <2>3. Sayable(Stated(s))
      BY ReportParts DEF Sayable
    <2>4. /\ ring' \in Seq(Report) /\ (~linked => ring' = <<>>) /\ Len(ring') <= Capacity
          /\ \A i \in 1..Len(ring') : Sayable(ring'[i])
      BY <2>1, <2>3, RingHolds
    <2> QED BY <1>0, <2>1, <2>2, <2>4 DEF StreamTypes, StreamHolds, Sayable
  <1>2. CASE ParkHold
    <2> DEFINE t == parked + 1
    <2>1. /\ daemon' = [daemon EXCEPT !.holds = @ \cup {t}] /\ unsaid' = unsaid \cup {Held(t)}
          /\ parked' = t /\ parked < MaxHolds /\ daemon.up
          /\ UNCHANGED <<ring, wire, linked>>
      BY <1>2 DEF ParkHold
    <2>2. t \in Nat /\ t \in 0..MaxHolds /\ t > parked
      BY <1>0, <2>1
    <2> HIDE DEF t
    <2>3. daemon' \in Daemon /\ daemon'.up = daemon.up /\ daemon'.before = daemon.before
          /\ daemon'.holds = daemon.holds \cup {t}
      BY <1>0, <2>1, <2>2
    <2>4. \A x \in (daemon.before + 1)..parked : x \in (daemon.before + 1)..t
      BY <1>0, <2>2
    <2>5. t \in (daemon.before + 1)..t /\ daemon.before <= t
      BY <1>0, <2>2 DEF StreamHolds
    <2>6. Held(t) \in OfHold /\ Held(t).token = t
      BY <2>2, ReportParts
    <2>7. StreamTypes'
      BY <1>0, <2>1, <2>2, <2>3, <2>6 DEF StreamTypes
    <2>8. StreamHolds'
      BY <1>0, <2>1, <2>3, <2>4, <2>5, <2>6 DEF StreamHolds
    <2> QED BY <2>7, <2>8
  <1>3. ASSUME NEW t \in daemon.holds, TakeHold(t) PROVE StreamTypes' /\ StreamHolds'
    <2>1. /\ daemon' = [daemon EXCEPT !.holds = @ \ {t}] /\ unsaid' = unsaid \cup {Resolved(t)}
          /\ UNCHANGED <<ring, wire, linked, parked>>
      BY <1>3 DEF TakeHold
    <2>2. daemon' \in Daemon /\ daemon'.up = daemon.up /\ daemon'.before = daemon.before
          /\ daemon'.holds = daemon.holds \ {t}
      BY <1>0, <2>1
    <2>3. t \in Nat /\ t \in (daemon.before + 1)..parked
      BY <1>0 DEF StreamHolds
    <2>4. Resolved(t) \in OfHold /\ Resolved(t).token = t
      BY <2>3, ReportParts
    <2> QED BY <1>0, <2>1, <2>2, <2>3, <2>4 DEF StreamTypes, StreamHolds
  <1>4. ASSUME NEW e \in unsaid, Announce(e) PROVE StreamTypes' /\ StreamHolds'
    <2>1. /\ unsaid' = unsaid \ {e} /\ ring' = Broadcast(e) /\ UNCHANGED <<daemon, wire, linked, parked>>
      BY <1>4 DEF Announce
    <2>2. Sayable(e)
      <3>1. e \in OfHold /\ e.token \in (daemon.before + 1)..parked
        BY <1>0 DEF StreamHolds
      <3> QED BY <3>1, ReportParts DEF Sayable
    <2>3. /\ ring' \in Seq(Report) /\ (~linked => ring' = <<>>) /\ Len(ring') <= Capacity
          /\ \A i \in 1..Len(ring') : Sayable(ring'[i])
      BY <2>1, <2>2, RingHolds
    <2> QED BY <1>0, <2>1, <2>3 DEF StreamTypes, StreamHolds, Sayable
  <1>5. CASE Render
    <2>1. /\ daemon' = [daemon EXCEPT !.rendering = ~@] /\ ring' = Broadcast(Rendering(~daemon.rendering))
          /\ UNCHANGED <<unsaid, wire, linked, parked>>
      BY <1>5 DEF Render
    <2>2. daemon' \in Daemon /\ daemon'.up = daemon.up /\ daemon'.before = daemon.before
          /\ daemon'.holds = daemon.holds
      BY <1>0, <2>1
    <2>3. Sayable(Rendering(~daemon.rendering))
      BY <1>0, ReportParts DEF Sayable
    <2>4. /\ ring' \in Seq(Report) /\ (~linked => ring' = <<>>) /\ Len(ring') <= Capacity
          /\ \A i \in 1..Len(ring') : Sayable(ring'[i])
      BY <2>1, <2>3, RingHolds
    <2> QED BY <1>0, <2>1, <2>2, <2>4 DEF StreamTypes, StreamHolds, Sayable
  <1>6. CASE Stop
    <2>1. /\ daemon' = [Fresh(parked) EXCEPT !.up = FALSE] /\ unsaid' = {} /\ ring' = <<>>
          /\ linked' = FALSE /\ wire' \in {wire, Append(wire, Disconnected)} /\ parked' = parked
      BY <1>6 DEF Stop
    <2>2. daemon' \in Daemon /\ daemon'.up = FALSE /\ daemon'.before = parked /\ daemon'.holds = {}
      BY <1>0, <2>1, StreamBounds DEF Fresh
    <2>3. wire' \in Seq(Report)
      <3>1. Disconnected \in Report
        BY ReportParts DEF LinkReport
      <3>2. Append(wire, Disconnected) \in Seq(Report)
        BY <1>0, <3>1, AppendedTo
      <3> QED BY <1>0, <2>1, <3>2
    <2>4. StreamTypes'
      <3>1. <<>> \in Seq(Report)
        OBVIOUS
      <3> QED BY <1>0, <2>1, <2>2, <2>3, <3>1 DEF StreamTypes
    <2>5. Len(ring') = 0 /\ 0 <= Capacity
      BY <2>1, StreamBounds
    <2>6. StreamHolds'
      BY <1>0, <2>1, <2>2, <2>5 DEF StreamHolds
    <2> QED BY <2>4, <2>6
  <1>7. CASE Start
    <2>1. /\ ~daemon.up /\ daemon' = Fresh(parked) /\ UNCHANGED <<unsaid, ring, wire, linked, parked>>
      BY <1>7 DEF Start
    <2>2. daemon' \in Daemon /\ daemon'.up = TRUE /\ daemon'.before = parked /\ daemon'.holds = {}
      BY <1>0, <2>1, StreamBounds DEF Fresh
    <2>3. daemon.before = parked
      BY <2>1 DEF StreamHolds
    <2> QED BY <1>0, <2>1, <2>2, <2>3 DEF StreamTypes, StreamHolds
  <1>8. CASE Link
    <2>1. /\ daemon.up /\ linked' = TRUE /\ wire' = Append(wire, Connected) /\ ~linked
          /\ UNCHANGED <<daemon, unsaid, ring, parked>>
      BY <1>8 DEF Link
    <2>2. wire' \in Seq(Report)
      BY <1>0, <2>1, AppendedTo, ReportParts DEF LinkReport
    <2> QED BY <1>0, <2>1, <2>2 DEF StreamTypes, StreamHolds
  <1>9. CASE Forward
    <2>1. /\ linked /\ ring # <<>> /\ ring' = Tail(ring) /\ wire' = Append(wire, Head(ring))
          /\ UNCHANGED <<daemon, unsaid, linked, parked>>
      BY <1>9 DEF Forward
    <2>2. /\ ring' \in Seq(Report)
          /\ \A i \in 1..Len(ring') : ring'[i] = ring[i + 1] /\ i + 1 \in 1..Len(ring)
          /\ Head(ring) \in Report
      BY <1>0, <2>1, TailOf
    <2>3. wire' \in Seq(Report)
      BY <1>0, <2>1, <2>2, AppendedTo
    <2>4. Len(ring') <= Capacity
      <3>1. Len(ring') = Len(ring) - 1 /\ Len(ring) \in Nat /\ Len(ring) <= Capacity
        BY <1>0, <2>1, TailOf DEF StreamHolds
      <3> QED BY <3>1, StreamBounds
    <2> QED BY <1>0, <2>1, <2>2, <2>3, <2>4 DEF StreamTypes, StreamHolds
  <1> QED BY <1>1, <1>2, <1>3, <1>4, <1>5, <1>6, <1>7, <1>8, <1>9 DEF DaemonSteps, Takes, ResolveHold

\* Nothing happens to the stream, or the face takes from its end of it.
LEMMA StreamTaken ==
  ASSUME StreamTypes, StreamHolds, UNCHANGED <<unsaid, ring, linked, parked>>,
         daemon' = daemon \/ \E b \in BOOLEAN : daemon' = [daemon EXCEPT !.paused = b],
         wire' \in Seq(Report)
  PROVE  StreamTypes' /\ StreamHolds'
  <1>1. /\ daemon' \in [up : BOOLEAN, before : Nat, state : State, holds : SUBSET Nat,
                        paused : BOOLEAN, rendering : BOOLEAN]
        /\ daemon'.up = daemon.up /\ daemon'.before = daemon.before /\ daemon'.holds = daemon.holds
    BY DEF StreamTypes
  <1> QED BY <1>1 DEF StreamTypes, StreamHolds

-----------------------------------------------------------------------------
(* The overlay *)

\* The loss of the connection is on its way behind place i.
LostAfter(w, i) == \E j \in (i + 1)..Len(w) : w[j] = Disconnected

\* A call, or a connection, that the overlay is told of is of this daemon unless the
\* loss of it follows.
WireHolds ==
  \A i \in 1..Len(wire) :
    /\ wire[i].kind = "held" => LostAfter(wire, i) \/ (linked /\ wire[i].token > daemon.before)
    /\ wire[i] = Connected => LostAfter(wire, i) \/ linked

View == [connected : BOOLEAN, state : State, holds : SUBSET Nat, rendering : BOOLEAN]

\* v shows calls of this daemon only, unless the loss of the connection follows place i.
ShowsOwn(v, i) ==
  v.connected => LostAfter(wire, i) \/ (linked /\ \A t \in v.holds : t > daemon.before)

Status == [state : State, holds : SUBSET Nat, paused : BOOLEAN]

\* A status is asked for by a view that is connected, and the events wait for the answer.
CheckHolds ==
  /\ check \in {NotAsked, [at |-> "sent"]} \cup [at : {"answered"}, status : Status]
  /\ check # NotAsked => view.connected
  /\ check.at = "answered" =>
       LostAfter(wire, 0) \/ \A t \in check.status.holds : t > daemon.before

OverlayInv ==
  StreamTypes /\ StreamHolds /\ WireHolds /\ view \in View /\ ShowsOwn(view, 0) /\ CheckHolds


LEMMA LostBehind ==
  ASSUME NEW w \in Seq(Report), NEW e \in Report, NEW i \in 0..Len(w)
  PROVE  /\ LostAfter(w, i) => LostAfter(Append(w, e), i)
         /\ e = Disconnected => LostAfter(Append(w, e), i)
         /\ i = Len(w) => ~LostAfter(w, i)
  <1>1. /\ Len(Append(w, e)) = Len(w) + 1 /\ Len(w) \in Nat
        /\ \A k \in 1..Len(w) : Append(w, e)[k] = w[k]
        /\ Append(w, e)[Len(w) + 1] = e
    BY AppendedTo
  <1>2. ASSUME NEW k \in (i + 1)..Len(w) PROVE k \in 1..Len(w) /\ k \in (i + 1)..(Len(w) + 1)
    BY <1>1
  <1>3. Len(w) + 1 \in (i + 1)..(Len(w) + 1)
    BY <1>1
  <1>4. i = Len(w) => (i + 1)..Len(w) = {}
    BY <1>1
  <1> QED BY <1>1, <1>2, <1>3, <1>4 DEF LostAfter

\* The overlay's copy of the connection, when nothing but the daemon and the wire's end
\* change.
LEMMA OverlayWaits ==
  ASSUME OverlayInv, StreamTypes', StreamHolds', UNCHANGED <<view, check>>,
         \/ wire' = wire /\ linked' = linked /\ daemon'.before = daemon.before
         \/ wire' = wire /\ ~linked /\ ~linked'
         \/ \E e \in Report :
              /\ wire' = Append(wire, e)
              /\ \/ e = Disconnected
                 \/ /\ linked' /\ daemon'.before = daemon.before
                    /\ e.kind = "held" => e.token > daemon.before
  PROVE  OverlayInv'
  <1>0. /\ wire \in Seq(Report) /\ Len(wire) \in Nat /\ view \in View /\ view' = view /\ check' = check
        /\ 0 \in 0..Len(wire) /\ \A i \in 1..Len(wire) : i \in 0..Len(wire)
    BY DEF OverlayInv, StreamTypes
  <1>1. CASE wire' = wire /\ linked' = linked /\ daemon'.before = daemon.before
    BY <1>0, <1>1 DEF OverlayInv, WireHolds, ShowsOwn, CheckHolds
  <1>2. CASE wire' = wire /\ ~linked /\ ~linked'
    <2>1. WireHolds'
      BY <1>2 DEF OverlayInv, WireHolds
    <2>2. ShowsOwn(view, 0)'
      BY <1>0, <1>2 DEF OverlayInv, ShowsOwn
    <2>3. CheckHolds'
      BY <1>0, <1>2 DEF OverlayInv, ShowsOwn, CheckHolds, NotAsked
    <2> QED BY <1>0, <2>1, <2>2, <2>3 DEF OverlayInv
  <1>3. ASSUME NEW e \in Report, wire' = Append(wire, e),
               \/ e = Disconnected
               \/ /\ linked' /\ daemon'.before = daemon.before
                  /\ e.kind = "held" => e.token > daemon.before
        PROVE  OverlayInv'
    <2>1. /\ Len(wire') = Len(wire) + 1 /\ wire'[Len(wire) + 1] = e
          /\ \A k \in 1..Len(wire) : wire'[k] = wire[k]
      BY <1>0, <1>3, AppendedTo
    <2>2. \A i \in 0..Len(wire) : (LostAfter(wire, i) => LostAfter(wire', i))
                                  /\ (e = Disconnected => LostAfter(wire', i))
      BY <1>0, <1>3, LostBehind
    <2>3. WireHolds'
      <3> SUFFICES ASSUME NEW i \in 1..Len(wire')
                   PROVE  /\ wire'[i].kind = "held" =>
                               LostAfter(wire', i) \/ (linked' /\ wire'[i].token > daemon'.before)
                          /\ wire'[i] = Connected => LostAfter(wire', i) \/ linked'
        BY DEF WireHolds
      <3>1. CASE i = Len(wire) + 1
        BY <1>3, <2>1, <3>1, ReportParts
      <3>2. CASE i # Len(wire) + 1
        <4>1. i \in 1..Len(wire)
          BY <1>0, <2>1, <3>2
        <4>2. wire'[i] = wire[i] /\ i \in 0..Len(wire)
          BY <1>0, <2>1, <4>1
        <4>3. /\ wire[i].kind = "held" => LostAfter(wire, i) \/ (linked /\ wire[i].token > daemon.before)
              /\ wire[i] = Connected => LostAfter(wire, i) \/ linked
          BY <4>1 DEF OverlayInv, WireHolds
        <4> QED BY <1>3, <2>2, <4>2, <4>3
      <3> QED BY <3>1, <3>2
    <2>4. ShowsOwn(view, 0)'
      BY <1>0, <1>3, <2>2 DEF OverlayInv, ShowsOwn
    <2>5. CheckHolds'
      BY <1>0, <1>3, <2>2 DEF OverlayInv, CheckHolds
    <2> QED BY <1>0, <2>3, <2>4, <2>5 DEF OverlayInv
  <1> QED BY <1>1, <1>2, <1>3

LEMMA OverlayStream ==
  ASSUME OverlayInv, DaemonSteps \/ Takes, UNCHANGED <<view, check>>
  PROVE  OverlayInv'
  <1>0. /\ StreamTypes /\ StreamHolds /\ StreamTypes' /\ StreamHolds' /\ wire \in Seq(Report)
        /\ ring \in Seq(Report) /\ unsaid \subseteq OfHold /\ parked \in Nat /\ daemon.before \in Nat
        /\ daemon \in [up : BOOLEAN, before : Nat, state : State, holds : SUBSET Nat,
                       paused : BOOLEAN, rendering : BOOLEAN]
    BY StreamStep, StreamBounds DEF OverlayInv, StreamTypes
  <1>1. CASE (\E s \in State : SetState(s)) \/ ParkHold \/ Takes \/ (\E e \in unsaid : Announce(e)) \/ Render
    <2>1. wire' = wire /\ linked' = linked
      BY <1>1 DEF SetState, ParkHold, Takes, TakeHold, Announce, Render
    <2>2. daemon'.before = daemon.before
      BY <1>0, <1>1 DEF SetState, ParkHold, Takes, TakeHold, Announce, Render
    <2> QED BY <1>0, <2>1, <2>2, OverlayWaits
  <1>2. CASE Stop
    <2>1. CASE linked
      <3>1. wire' = Append(wire, Disconnected) /\ Disconnected \in Report
        BY <1>2, <2>1, ReportParts DEF Stop, LinkReport
      <3> QED BY <1>0, <3>1, OverlayWaits
    <2>2. CASE ~linked
      <3>1. wire' = wire /\ ~linked'
        BY <1>2, <2>2 DEF Stop
      <3> QED BY <1>0, <2>2, <3>1, OverlayWaits
    <2> QED BY <2>1, <2>2
  <1>3. CASE Start
    <2>1. /\ ~daemon.up /\ daemon' = Fresh(parked) /\ wire' = wire /\ linked' = linked
      BY <1>3 DEF Start
    <2>2. ~linked
      BY <1>0, <2>1 DEF StreamHolds
    <2> QED BY <1>0, <2>1, <2>2, OverlayWaits
  <1>4. CASE Link
    <2>1. linked' /\ daemon' = daemon /\ wire' = Append(wire, Connected) /\ Connected \in Report
          /\ Connected.kind # "held"
      BY <1>4, ReportParts DEF Link, LinkReport
    <2> QED BY <1>0, <2>1, OverlayWaits
  <1>5. CASE Forward
    <2>1. /\ linked' /\ daemon' = daemon /\ wire' = Append(wire, ring[1]) /\ ring[1] \in Report
          /\ 1 \in 1..Len(ring)
      <3>1. linked /\ ring # <<>> /\ linked' = linked /\ daemon' = daemon /\ wire' = Append(wire, Head(ring))
        BY <1>5 DEF Forward
      <3> QED BY <1>0, <3>1, TailOf
    <2>2. ring[1].kind = "held" => ring[1].token > daemon.before
      <3>1. ring[1] \in OfHold => ring[1].token \in (daemon.before + 1)..parked
        BY <1>0, <2>1 DEF StreamHolds
      <3>2. ring[1].kind = "held" => ring[1] \in OfHold
        BY <2>1, ReportParts DEF Report, OfHold
      <3> QED BY <1>0, <3>1, <3>2
    <2> QED BY <1>0, <2>1, <2>2, OverlayWaits
  <1> QED BY <1>1, <1>2, <1>3, <1>4, <1>5 DEF DaemonSteps, Takes, ResolveHold

(* A burst *)

LEMMA ApplyTyped ==
  ASSUME NEW v \in View, NEW u \in Report
  PROVE  /\ Apply(v, u) \in View
         /\ u \notin LinkReport => Apply(v, u).connected = v.connected
         /\ u.kind = "held" => Apply(v, u).holds = v.holds \cup {u.token}
         /\ u.kind # "held" /\ Apply(v, u).connected /\ v.connected => Apply(v, u).holds \subseteq v.holds
         /\ ~v.connected /\ Apply(v, u).connected => u = Connected /\ Apply(v, u).holds = {}
         /\ u = Disconnected => ~Apply(v, u).connected
  <1>1. CASE u \in LinkReport
    <2>1. Blank(TRUE) \in View /\ Blank(FALSE) \in View /\ Blank(TRUE).holds = {}
          /\ Blank(TRUE).connected = TRUE /\ Blank(FALSE).connected = FALSE
      BY StreamBounds DEF Blank, View
    <2>2. CASE u = Connected
      <3>1. Apply(v, u) = IF v.connected = TRUE THEN v ELSE Blank(TRUE)
        BY <2>2, ReportParts DEF Apply, SetConnected
      <3>2. u.kind # "held" /\ u # Disconnected
        BY <2>2, ReportParts
      <3> QED BY <1>1, <2>1, <2>2, <3>1, <3>2 DEF View
    <2>3. CASE u = Disconnected
      <3>1. Apply(v, u) = IF v.connected = FALSE THEN v ELSE Blank(FALSE)
        BY <2>3, ReportParts DEF Apply, SetConnected
      <3>2. u.kind # "held" /\ u # Connected
        BY <2>3, ReportParts
      <3> QED BY <1>1, <2>1, <2>3, <3>1, <3>2 DEF View
    <2> QED BY <1>1, <2>2, <2>3 DEF LinkReport
  <1>2. CASE u \in [kind : {"state"}, state : State]
    <2>1. Apply(v, u) = [v EXCEPT !.state = u.state] /\ u.kind = "state" /\ u.state \in State
      BY <1>2 DEF Apply
    <2>2. u \notin LinkReport
      BY <2>1, ReportParts DEF LinkReport
    <2> QED BY <2>1, <2>2 DEF View, LinkReport
  <1>3. CASE u \in OfHold /\ u.kind = "held"
    <2>1. Apply(v, u) = [v EXCEPT !.holds = @ \cup {u.token}] /\ u.token \in Nat
      BY <1>3, ReportParts DEF Apply
    <2>2. u \notin LinkReport
      BY <1>3, ReportParts
    <2> QED BY <1>3, <2>1, <2>2 DEF View, LinkReport
  <1>4. CASE u \in OfHold /\ u.kind = "resolved"
    <2>1. Apply(v, u) = [v EXCEPT !.holds = @ \ {u.token}] /\ u.token \in Nat
      BY <1>4, ReportParts DEF Apply
    <2>2. u \notin LinkReport
      BY <1>4, ReportParts
    <2> QED BY <1>4, <2>1, <2>2 DEF View, LinkReport
  <1>5. CASE u \in [kind : {"render"}, on : BOOLEAN]
    <2>1. Apply(v, u) = [v EXCEPT !.rendering = u.on] /\ u.kind = "render" /\ u.on \in BOOLEAN
      BY <1>5 DEF Apply
    <2>2. u \notin LinkReport
      BY <2>1, ReportParts DEF LinkReport
    <2> QED BY <2>1, <2>2 DEF View, LinkReport
  <1>6. OfHold = [kind : {"held"}, token : Nat] \cup [kind : {"resolved"}, token : Nat]
    BY DEF OfHold
  <1> QED BY <1>1, <1>2, <1>3, <1>4, <1>5 DEF Report, OfHold, LinkReport

\* f is the fold of the reports over the view v.
Applies(f, v) ==
  /\ f \in [0..Len(wire) -> View] /\ f[0] = v
  /\ \A i \in 1..Len(wire) : f[i] = Apply(f[i - 1], wire[i])

LEMMA BurstSteps ==
  ASSUME wire \in Seq(Report), NEW v \in View
  PROVE  \E f : Applies(f, v) /\ ApplyBurst(v) = f[Len(wire)]
  <1> DEFINE n == Len(wire)
             body(f) == [i \in 0 .. n |-> IF i = 0 THEN v ELSE Apply(f[i - 1], wire[i])]
             g == [i \in 1..n |-> [x \in View |-> Apply(x, wire[i])]]
  <1>1. n \in Nat
    OBVIOUS
  <1>2. ASSUME NEW i \in 1..n, NEW x \in View PROVE Apply(x, wire[i]) \in View
    BY ApplyTyped
  <1>3. g \in [1..n -> [View -> View]]
    BY <1>2
  <1>4. PICK f : Follows(f, n, View, v, g)
    BY <1>1, <1>3, RecursionExists
  <1>5. \A i \in 1..n : f[i] = Apply(f[i - 1], wire[i])
    <2> SUFFICES ASSUME NEW i \in 1..n PROVE f[i] = Apply(f[i - 1], wire[i])
      OBVIOUS
    <2>1. i - 1 \in 0..n
      BY <1>1
    <2>2. f[i - 1] \in View /\ f[i] = g[i][f[i - 1]]
      BY <1>4, <2>1 DEF Follows
    <2> QED BY <2>2
  <1>6. f = body(f)
    BY <1>1, <1>4, <1>5 DEF Follows
  <1> DEFINE F == CHOOSE e : e = body(e)
  <1>7. F = body(F)
    <2> HIDE DEF body
    <2> QED BY <1>6
  <1>8. ApplyBurst(v) = F[n]
    BY DEF ApplyBurst
  <1> HIDE DEF F
  <1>9. F[0] = v /\ \A i \in 1..n : F[i] = Apply(F[i - 1], wire[i])
    <2> HIDE DEF n
    <2>1. F[0] = v
      BY <1>1, <1>7
    <2>2. \A i \in 1..n : i \in 0..n /\ i # 0
      BY <1>1
    <2> QED BY <1>7, <2>1, <2>2
  <1>10. \A i \in 0..n : F[i] \in View
    <2> DEFINE T == {i \in 0..n : F[i] \in View}
    <2>1. 0 \in T
      <3>1. 0 \in 0..n
        BY <1>1
      <3> QED BY <1>9, <3>1
    <2>2. ASSUME NEW i \in 0..(n - 1), i \in T PROVE i + 1 \in T
      <3>1. i + 1 \in 1..n /\ i + 1 \in 0..n /\ (i + 1) - 1 = i
        BY <1>1
      <3>2. F[i + 1] = Apply(F[i], wire[i + 1])
        BY <1>9, <3>1
      <3> QED BY <1>2, <2>2, <3>1, <3>2
    <2>3. 0..n \subseteq T
      BY <1>1, <2>1, <2>2, NumbersUpTo, Zenon
    <2> QED BY <2>3
  <1>11. F \in [0..n -> View]
    <2>1. F = [i \in 0..n |-> F[i]]
      BY <1>7
    <2> QED BY <1>10, <2>1
  <1> QED BY <1>8, <1>9, <1>11 DEF Applies

\* After all of the reports the view shows calls of this daemon.
LEMMA BurstShowsOwn ==
  ASSUME OverlayInv
  PROVE  /\ ApplyBurst(view) \in View
         /\ ApplyBurst(view).connected => linked /\ \A t \in ApplyBurst(view).holds : t > daemon.before
  <1> DEFINE n == Len(wire)
  <1>0. wire \in Seq(Report) /\ n \in Nat /\ view \in View /\ daemon.before \in Nat
    BY DEF OverlayInv, StreamTypes
  <1>1. PICK f : Applies(f, view) /\ ApplyBurst(view) = f[n]
    BY <1>0, BurstSteps
  <1> DEFINE T == {i \in 0..n : ShowsOwn(f[i], i)}
  <1>2. 0 \in T
    <2>1. 0 \in 0..n
      BY <1>0
    <2> QED BY <1>1, <2>1 DEF Applies, OverlayInv
  <1>3. ASSUME NEW i \in 0..(n - 1), i \in T PROVE i + 1 \in T
    <2> DEFINE u == wire[i + 1]
               v == f[i]
    <2>1. i + 1 \in 1..n /\ i + 1 \in 0..n /\ (i + 1) - 1 = i /\ i \in 0..n
      BY <1>0
    <2>2. f[i + 1] = Apply(v, u) /\ v \in View /\ u \in Report
      BY <1>0, <1>1, <2>1 DEF Applies
    <2>3. v.connected => LostAfter(wire, i) \/ (linked /\ \A t \in v.holds : t > daemon.before)
      BY <1>3 DEF ShowsOwn
    <2>4. /\ u.kind = "held" => LostAfter(wire, i + 1) \/ (linked /\ u.token > daemon.before)
          /\ u = Connected => LostAfter(wire, i + 1) \/ linked
      BY <2>1 DEF OverlayInv, WireHolds
    <2>5. LostAfter(wire, i) => LostAfter(wire, i + 1) \/ u = Disconnected
      <3>1. \A j \in (i + 1)..n : j = i + 1 \/ j \in ((i + 1) + 1)..n
        BY <1>0, <2>1
      <3> QED BY <3>1 DEF LostAfter
    <2> HIDE DEF u, v
    <2>6. ASSUME Apply(v, u).connected
          PROVE  LostAfter(wire, i + 1) \/ (linked /\ \A t \in Apply(v, u).holds : t > daemon.before)
      <3>0. u # Disconnected
        BY <2>2, <2>6, ApplyTyped
      <3>1. CASE ~v.connected
        BY <2>2, <2>4, <2>6, <3>1, ApplyTyped
      <3>2. CASE v.connected /\ u.kind = "held"
        BY <2>2, <2>3, <2>4, <2>5, <3>0, <3>2, ApplyTyped
      <3>3. CASE v.connected /\ u.kind # "held"
        BY <2>2, <2>3, <2>5, <2>6, <3>0, <3>3, ApplyTyped
      <3> QED BY <3>1, <3>2, <3>3
    <2> QED BY <2>1, <2>2, <2>6 DEF ShowsOwn
  <1>4. 0..n \subseteq T
    <2> HIDE DEF T
    <2> QED BY <1>0, <1>2, <1>3, NumbersUpTo, Zenon
  <1>5. n \in 0..n /\ (n + 1)..n = {}
    BY <1>0
  <1>6. ShowsOwn(f[n], n) /\ ~LostAfter(wire, n)
    BY <1>4, <1>5 DEF LostAfter
  <1>7. f[n] \in View
    BY <1>1, <1>5 DEF Applies
  <1> QED BY <1>1, <1>6, <1>7 DEF ShowsOwn

LEMMA StreamStays == ASSUME UNCHANGED streamVars, StreamTypes, StreamHolds PROVE StreamTypes' /\ StreamHolds'
  BY DEF streamVars, StreamTypes, StreamHolds

LEMMA OverlayTakes == ASSUME OverlayInv, OverlaySteps \/ Dismiss \/ (\E t \in Token : Press(t)) PROVE OverlayInv'
  <1>0. /\ StreamTypes /\ StreamHolds /\ wire \in Seq(Report) /\ view \in View /\ daemon.before \in Nat
        /\ daemon \in [up : BOOLEAN, before : Nat, state : State, holds : SUBSET Nat,
                       paused : BOOLEAN, rendering : BOOLEAN]
        /\ parked \in Nat
    BY StreamBounds DEF OverlayInv, StreamTypes
  <1>1. CASE TakeBurst
    <2>1. /\ view' = ApplyBurst(view) /\ wire' = <<>> /\ check = NotAsked /\ check' = check
          /\ UNCHANGED <<daemon, unsaid, ring, linked, parked>>
      BY <1>1 DEF TakeBurst, Shows
    <2>2. <<>> \in Seq(Report) /\ Len(<<>>) = 0
      OBVIOUS
    <2>3. StreamTypes' /\ StreamHolds'
      BY <1>0, <2>1, <2>2, StreamTaken
    <2>4. WireHolds'
      BY <2>1 DEF WireHolds
    <2>5. view' \in View /\ (view'.connected => linked' /\ \A t \in view'.holds : t > daemon'.before)
      BY <2>1, BurstShowsOwn
    <2>6. CheckHolds'
      BY <2>1 DEF CheckHolds, NotAsked
    <2> QED BY <2>3, <2>4, <2>5, <2>6 DEF OverlayInv, ShowsOwn
  <1>2. CASE AskStatus
    <2>1. /\ view.connected /\ check' = [at |-> "sent"] /\ UNCHANGED <<streamVars, view>>
      BY <1>2 DEF AskStatus, Visible
    <2>2. StreamTypes' /\ StreamHolds'
      BY <1>0, <2>1, StreamStays
    <2> QED BY <2>1, <2>2 DEF OverlayInv, WireHolds, ShowsOwn, CheckHolds, streamVars
  <1>3. CASE AnswerStatus
    <2>1. /\ check.at = "sent" /\ UNCHANGED <<streamVars, view>>
          /\ check' = IF daemon.up THEN [at |-> "answered", status |-> StatusNow] ELSE NotAsked
      BY <1>3 DEF AnswerStatus
    <2>2. StreamTypes' /\ StreamHolds'
      BY <1>0, <2>1, StreamStays
    <2>3. view.connected
      BY <2>1 DEF OverlayInv, CheckHolds, NotAsked
    <2>4. StatusNow \in Status /\ StatusNow.holds = daemon.holds
      BY <1>0 DEF StatusNow, Status
    <2>5. \A t \in daemon.holds : t > daemon.before
      BY <1>0 DEF StreamHolds
    <2>6. CheckHolds'
      <3>1. CASE check' = NotAsked
        BY <2>1, <3>1 DEF CheckHolds, NotAsked
      <3>2. CASE check' = [at |-> "answered", status |-> StatusNow]
        BY <2>1, <2>3, <2>4, <2>5, <3>2 DEF CheckHolds, streamVars
      <3> QED BY <2>1, <3>1, <3>2
    <2> QED BY <2>1, <2>2, <2>6 DEF OverlayInv, WireHolds, ShowsOwn, streamVars
  <1>4. CASE TakeStatus
    <2>1. /\ check.at = "answered" /\ view' = Reconcile(view, check.status) /\ check' = NotAsked
          /\ UNCHANGED streamVars
      BY <1>4 DEF TakeStatus, Shows
    <2>2. StreamTypes' /\ StreamHolds'
      BY <1>0, <2>1, StreamStays
    <2>3. check.status \in Status
      BY <2>1 DEF OverlayInv, CheckHolds, NotAsked
    <2>4. view' \in View /\ view'.holds = check.status.holds /\ view'.connected = view.connected
      BY <1>0, <2>1, <2>3 DEF Reconcile, View, Status
    <2>5. ShowsOwn(view, 0)'
      BY <2>1, <2>4 DEF OverlayInv, ShowsOwn, CheckHolds, streamVars
    <2>6. CheckHolds' /\ WireHolds'
      BY <2>1 DEF OverlayInv, CheckHolds, NotAsked, WireHolds, streamVars
    <2> QED BY <2>2, <2>4, <2>5, <2>6 DEF OverlayInv
  <1>5. CASE TakeView \/ Dismiss \/ (\E t \in Token : Press(t)) \/ UNCHANGED <<streamVars, view, check>>
    <2>1. UNCHANGED <<streamVars, view, check>>
      BY <1>5 DEF TakeView, Dismiss, Press
    <2>2. StreamTypes' /\ StreamHolds'
      BY <1>0, <2>1, StreamStays
    <2> QED BY <2>1, <2>2 DEF OverlayInv, WireHolds, ShowsOwn, CheckHolds, streamVars
  <1>6. ASSUME NEW t \in Token, Handle(t) PROVE OverlayInv'
    <2>1. UNCHANGED <<view, check>> /\ (Takes \/ UNCHANGED streamVars)
      BY <1>6 DEF Handle, Takes
    <2>2. CASE Takes
      BY <2>1, <2>2, OverlayStream
    <2>3. CASE UNCHANGED streamVars
      <3>1. UNCHANGED <<streamVars, view, check>>
        BY <2>1, <2>3
      <3> QED BY <1>5, <3>1
    <2> QED BY <2>1, <2>2, <2>3
  <1> QED BY <1>1, <1>2, <1>3, <1>4, <1>5, <1>6 DEF OverlaySteps

LEMMA StreamInitial == StreamInit => StreamTypes /\ StreamHolds
  <1> SUFFICES ASSUME StreamInit PROVE StreamTypes /\ StreamHolds
    OBVIOUS
  <1>1. /\ daemon = Fresh(0) /\ unsaid = {} /\ ring = <<>> /\ wire = <<>> /\ linked = FALSE /\ parked = 0
    BY DEF StreamInit
  <1>2. <<>> \in Seq(Report) /\ Len(<<>>) = 0 /\ 0 \in 0..MaxHolds
    BY StreamBounds
  <1>3. /\ daemon \in [up : BOOLEAN, before : Nat, state : State, holds : SUBSET Nat,
                       paused : BOOLEAN, rendering : BOOLEAN]
        /\ daemon.up = TRUE /\ daemon.before = 0 /\ daemon.holds = {}
    BY <1>1, StreamBounds DEF Fresh
  <1>4. StreamTypes
    BY <1>1, <1>2, <1>3 DEF StreamTypes
  <1>5. \A i \in 1..Len(ring) : FALSE
    BY <1>1, <1>2
  <1>6. StreamHolds
    <2>1. Len(ring) <= Capacity /\ daemon.before <= parked
      BY <1>1, <1>2, <1>3, StreamBounds
    <2> QED BY <1>1, <1>3, <1>5, <2>1 DEF StreamHolds
  <1> QED BY <1>4, <1>6

LEMMA OverlayInitial == OverlayInit => OverlayInv
  <1> SUFFICES ASSUME OverlayInit PROVE OverlayInv
    OBVIOUS
  <1>1. view = Blank(FALSE) /\ check = NotAsked /\ wire = <<>> /\ StreamTypes /\ StreamHolds
    BY StreamInitial DEF OverlayInit, StreamInit
  <1>2. view \in View /\ ~view.connected
    BY <1>1, StreamBounds DEF Blank, View
  <1>3. WireHolds
    BY <1>1 DEF WireHolds
  <1>4. CheckHolds
    BY <1>1 DEF CheckHolds, NotAsked
  <1> QED BY <1>1, <1>2, <1>3, <1>4 DEF OverlayInv, ShowsOwn

LEMMA OverlayStep == ASSUME OverlayInv, [OverlayNext]_overlayVars PROVE OverlayInv'
  <1>1. CASE DaemonSteps /\ UNCHANGED faceVars
    BY <1>1, OverlayStream DEF faceVars
  <1>2. CASE OverlaySteps \/ Dismiss \/ (\E t \in Token : Press(t))
    BY <1>2, OverlayTakes
  <1>3. CASE UNCHANGED overlayVars
    <2>1. UNCHANGED <<streamVars, view, check>>
      BY <1>3 DEF overlayVars, faceVars
    <2>2. StreamTypes' /\ StreamHolds'
      BY <2>1, StreamStays DEF OverlayInv
    <2> QED BY <2>1, <2>2 DEF OverlayInv, WireHolds, ShowsOwn, CheckHolds, streamVars
  <1> QED BY <1>1, <1>2, <1>3 DEF OverlayNext

LEMMA OverlayShowsOwn == OverlayInv => OldHoldsGoAway
  <1> SUFFICES ASSUME OverlayInv, view.connected, \A i \in 1 .. Len(wire) : wire[i] # Disconnected
               PROVE  \A t \in view.holds : t > daemon.before
    BY DEF OldHoldsGoAway
  <1>1. ~LostAfter(wire, 0)
    <2>1. \A j \in (0 + 1)..Len(wire) : j \in 1..Len(wire)
      BY DEF OverlayInv, StreamTypes
    <2> QED BY <2>1 DEF LostAfter
  <1> QED BY <1>1 DEF OverlayInv, ShowsOwn

-----------------------------------------------------------------------------
(* The applet *)

\* The calls that are reported held, and resolved, in a set of reports.
HeldIn(X) == {t \in Nat : Held(t) \in X}
ResolvedIn(X) == {t \in Nat : Resolved(t) \in X}
InFlight(F, u) == {F[i] : i \in 1..Len(F)} \cup u

\* Each report about a call is there once, and that it is held before that it is not.
OnceInOrder(F, u) ==
  /\ \A i, j \in 1..Len(F) : F[i] = F[j] /\ F[i] \in OfHold => i = j
  /\ \A i \in 1..Len(F) : F[i] \notin u
  /\ \A t \in Nat : ~({Held(t), Resolved(t)} \subseteq u)
  /\ \A i \in 1..Len(F), t \in Nat :
       F[i] = Resolved(t) => Held(t) \notin u /\ \A j \in 1..Len(F) : F[j] = Held(t) => j < i

\* With the reports F the state shown goes from st to ds.
Told(st, F, ds) ==
  \/ st = ds /\ \A i \in 1..Len(F) : F[i].kind # "state"
  \/ \E i \in 1..Len(F) : F[i] = Stated(ds) /\ \A j \in (i + 1)..Len(F) : F[j].kind # "state"

\* With the reports X the count n becomes that of the calls dh, all of them up to p.
Counts(n, dh, X, p) ==
  /\ dh \subseteq 1..p /\ ResolvedIn(X) \subseteq 1..p /\ dh \cap ResolvedIn(X) = {}
  /\ HeldIn(X) \subseteq dh \cup ResolvedIn(X)
  /\ n = Cardinality((dh \cup ResolvedIn(X)) \ HeldIn(X))

\* With the reports F, and u after them, a face that shows state st and n calls comes to
\* show state ds and as many calls as there are in dh.
ComesTo(st, n, ds, dh, F, u, p) ==
  Told(st, F, ds) /\ OnceInOrder(F, u) /\ Counts(n, dh, InFlight(F, u), p)

LEMMA ReportAppended ==
  ASSUME NEW F \in Seq(Report), NEW e \in Report, NEW u
  PROVE  /\ InFlight(Append(F, e), u) = InFlight(F, u) \cup {e}
         /\ InFlight(Append(F, e), u \ {e}) = InFlight(F, u) \cup {e}
         /\ \A i \in 1..Len(Append(F, e)) :
              (i \in 1..Len(F) /\ Append(F, e)[i] = F[i]) \/ (i = Len(F) + 1 /\ Append(F, e)[i] = e)
  <1>1. PICK G \in Seq(Report) : G = Append(F, e)
    BY AppendedTo
  <1>2. /\ Len(G) = Len(F) + 1 /\ Len(F) \in Nat /\ \A i \in 1..Len(F) : G[i] = F[i] /\ i \in 1..Len(G)
        /\ G[Len(F) + 1] = e /\ Len(F) + 1 \in 1..Len(G)
    BY <1>1, AppendedTo
  <1>3. \A i \in 1..Len(G) : i \in 1..Len(F) \/ i = Len(F) + 1
    BY <1>2
  <1>4. {G[i] : i \in 1..Len(G)} = {F[i] : i \in 1..Len(F)} \cup {e}
    <2>1. ASSUME NEW i \in 1..Len(G) PROVE G[i] \in {F[j] : j \in 1..Len(F)} \cup {e}
      BY <1>2, <1>3
    <2>2. ASSUME NEW x \in {F[j] : j \in 1..Len(F)} \cup {e} PROVE \E i \in 1..Len(G) : G[i] = x
      BY <1>2
    <2> QED BY <2>1, <2>2
  <1> QED BY <1>1, <1>2, <1>3, <1>4 DEF InFlight

\* The first report has been told of.
LEMMA TakenFrom ==
  ASSUME NEW F \in Seq(Report), NEW u, F # <<>>
  PROVE  /\ InFlight(F, u) = {F[1]} \cup InFlight(Tail(F), u)
         /\ F[1] \in Report /\ Tail(F) \in Seq(Report) /\ 1 \in 1..Len(F)
         /\ \A i \in 1..Len(F) : i = 1 \/ (i - 1 \in 1..Len(Tail(F)) /\ Tail(F)[i - 1] = F[i])
         /\ \A i \in 1..Len(Tail(F)) : i + 1 \in 1..Len(F) /\ Tail(F)[i] = F[i + 1]
         /\ Len(Tail(F)) = Len(F) - 1 /\ Len(F) \in Nat
  <1>1. PICK G \in Seq(Report) : G = Tail(F)
    BY TailOf
  <1>2. /\ Len(G) = Len(F) - 1 /\ Len(F) \in Nat /\ Len(F) >= 1
        /\ \A i \in 1..Len(G) : G[i] = F[i + 1] /\ i + 1 \in 1..Len(F)
        /\ F[1] \in Report
    BY <1>1, TailOf
  <1>3. \A i \in 1..Len(F) : i = 1 \/ (i - 1 \in 1..Len(G) /\ (i - 1) + 1 = i)
    BY <1>2
  <1>4. \A i \in 1..Len(F) : i = 1 \/ (i - 1 \in 1..Len(G) /\ G[i - 1] = F[i])
    BY <1>2, <1>3
  <1>5. {F[i] : i \in 1..Len(F)} = {F[1]} \cup {G[i] : i \in 1..Len(G)}
    <2>1. 1 \in 1..Len(F)
      BY <1>2
    <2>2. ASSUME NEW i \in 1..Len(F) PROVE F[i] \in {F[1]} \cup {G[j] : j \in 1..Len(G)}
      BY <1>4
    <2>3. ASSUME NEW x \in {F[1]} \cup {G[j] : j \in 1..Len(G)} PROVE \E i \in 1..Len(F) : F[i] = x
      BY <1>2, <2>1
    <2> QED BY <2>2, <2>3
  <1>6. 1 \in 1..Len(F)
    BY <1>2
  <1>7. InFlight(F, u) = {F[1]} \cup InFlight(G, u)
    BY <1>5 DEF InFlight
  <1>8. Len(G) = Len(F) - 1 /\ Len(F) \in Nat /\ F[1] \in Report
    BY <1>2
  <1>9. /\ \A i \in 1..Len(F) : i = 1 \/ (i - 1 \in 1..Len(Tail(F)) /\ Tail(F)[i - 1] = F[i])
        /\ \A i \in 1..Len(Tail(F)) : i + 1 \in 1..Len(F) /\ Tail(F)[i] = F[i + 1]
    BY <1>1, <1>2, <1>4
  <1>10. InFlight(F, u) = {F[1]} \cup InFlight(Tail(F), u) /\ Len(Tail(F)) = Len(F) - 1
         /\ Tail(F) \in Seq(Report)
    BY <1>1, <1>7, <1>8
  <1> QED BY <1>6, <1>8, <1>9, <1>10

LEMMA ToldMore ==
  ASSUME NEW F \in Seq(Report), NEW st, NEW ds, Told(st, F, ds), NEW e \in Report, e.kind # "state"
  PROVE  Told(st, Append(F, e), ds)
  <1>1. PICK G : G = Append(F, e)
    OBVIOUS
  <1>2. /\ \A i \in 1..Len(G) : (i \in 1..Len(F) /\ G[i] = F[i]) \/ G[i] = e
        /\ Len(G) = Len(F) + 1 /\ Len(F) \in Nat /\ \A i \in 1..Len(F) : G[i] = F[i]
    BY <1>1, ReportAppended, AppendedTo
  <1>3. \A i \in 1..Len(F) : i \in 1..Len(G)
    BY <1>2
  <1>4. \A i \in 1..Len(F), j \in 1..Len(F) : j \in (i + 1)..Len(G) => j \in (i + 1)..Len(F)
    BY <1>2
  <1>5. \A i \in 1..Len(F) : \A j \in (i + 1)..Len(G) : j \in 1..Len(G)
    BY <1>2
  <1>6. CASE st = ds /\ \A i \in 1..Len(F) : F[i].kind # "state"
    BY <1>1, <1>2, <1>6 DEF Told
  <1>7. ASSUME NEW i \in 1..Len(F), F[i] = Stated(ds), \A j \in (i + 1)..Len(F) : F[j].kind # "state"
        PROVE  Told(st, Append(F, e), ds)
    <2>1. \A j \in (i + 1)..Len(G) : G[j].kind # "state"
      BY <1>2, <1>4, <1>5, <1>7
    <2>2. i \in 1..Len(G) /\ G[i] = Stated(ds)
      BY <1>2, <1>3, <1>7
    <2> QED BY <1>1, <2>1, <2>2 DEF Told
  <1> QED BY <1>6, <1>7 DEF Told

LEMMA ToldLast ==
  ASSUME NEW F \in Seq(Report), NEW st, NEW s \in State
  PROVE  Told(st, Append(F, Stated(s)), s)
  <1>1. PICK G : G = Append(F, Stated(s))
    OBVIOUS
  <1>2. Len(G) = Len(F) + 1 /\ Len(F) \in Nat /\ G[Len(F) + 1] = Stated(s)
    BY <1>1, AppendedTo, ReportParts
  <1>3. Len(F) + 1 \in 1..Len(G) /\ \A j \in ((Len(F) + 1) + 1)..Len(G) : FALSE
    BY <1>2
  <1> QED BY <1>1, <1>2, <1>3 DEF Told

\* A state in the last place is the one told of.
LEMMA ToldOf ==
  ASSUME NEW F \in Seq(Report), NEW st, NEW ds \in State, Told(st, F, ds), F # <<>>,
         NEW s \in State, F[Len(F)] = Stated(s)
  PROVE  s = ds
  <1>1. Len(F) \in Nat /\ Len(F) \in 1..Len(F)
    OBVIOUS
  <1>2. F[Len(F)].kind = "state"
    BY ReportParts
  <1>3. PICK i \in 1..Len(F) : F[i] = Stated(ds) /\ \A j \in (i + 1)..Len(F) : F[j].kind # "state"
    BY <1>1, <1>2 DEF Told
  <1>4. i = Len(F) \/ Len(F) \in (i + 1)..Len(F)
    BY <1>1
  <1>5. Stated(s) = Stated(ds)
    BY <1>2, <1>3, <1>4
  <1>6. Stated(s).state = s /\ Stated(ds).state = ds
    BY DEF Stated
  <1> QED BY <1>5, <1>6

LEMMA ToldFirst ==
  ASSUME NEW F \in Seq(Report), NEW st, NEW ds, Told(st, F, ds), F # <<>>
  PROVE  Told(IF F[1].kind = "state" THEN F[1].state ELSE st, Tail(F), ds)
  <1>1. PICK G : G = Tail(F)
    OBVIOUS
  <1>2. /\ \A i \in 1..Len(F) : i = 1 \/ (i - 1 \in 1..Len(G) /\ G[i - 1] = F[i])
        /\ \A i \in 1..Len(G) : i + 1 \in 1..Len(F) /\ G[i] = F[i + 1]
        /\ Len(G) = Len(F) - 1 /\ Len(F) \in Nat /\ 1 \in 1..Len(F)
    BY <1>1, TakenFrom
  <1>3. CASE st = ds /\ \A i \in 1..Len(F) : F[i].kind # "state"
    BY <1>1, <1>2, <1>3 DEF Told
  <1>4. ASSUME NEW i \in 1..Len(F), F[i] = Stated(ds), \A j \in (i + 1)..Len(F) : F[j].kind # "state"
        PROVE  Told(IF F[1].kind = "state" THEN F[1].state ELSE st, G, ds)
    <2>1. Stated(ds).kind = "state" /\ Stated(ds).state = ds
      BY DEF Stated
    <2>2. CASE i = 1
      <3>1. \A j \in 1..Len(G) : j + 1 \in (i + 1)..Len(F)
        BY <1>2, <2>2
      <3>2. \A j \in 1..Len(G) : G[j].kind # "state"
        BY <1>2, <1>4, <3>1
      <3> QED BY <1>4, <2>1, <2>2, <3>2 DEF Told
    <2>3. CASE i # 1
      <3>1. i - 1 \in 1..Len(G) /\ G[i - 1] = Stated(ds)
        BY <1>2, <1>4, <2>3
      <3>2. \A j \in ((i - 1) + 1)..Len(G) : j \in 1..Len(G) /\ j + 1 \in (i + 1)..Len(F)
        BY <1>2, <2>3
      <3>3. \A j \in ((i - 1) + 1)..Len(G) : G[j].kind # "state"
        BY <1>2, <1>4, <3>2
      <3> QED BY <3>1, <3>3 DEF Told
    <2> QED BY <2>2, <2>3
  <1> QED BY <1>1, <1>3, <1>4 DEF Told

LEMMA SetsOf ==
  /\ \A X, e : e \notin OfHold => HeldIn(X \cup {e}) = HeldIn(X) /\ ResolvedIn(X \cup {e}) = ResolvedIn(X)
  /\ \A X : \A t \in Nat :
       /\ HeldIn(X \cup {Held(t)}) = HeldIn(X) \cup {t} /\ ResolvedIn(X \cup {Held(t)}) = ResolvedIn(X)
       /\ HeldIn(X \cup {Resolved(t)}) = HeldIn(X)
       /\ ResolvedIn(X \cup {Resolved(t)}) = ResolvedIn(X) \cup {t}
  <1>1. \A t, s \in Nat : (Held(t) = Held(s) => t = s) /\ (Resolved(t) = Resolved(s) => t = s)
                          /\ Held(t) # Resolved(s) /\ Held(t) \in OfHold /\ Resolved(t) \in OfHold
    BY ReportParts
  <1> QED BY <1>1 DEF HeldIn, ResolvedIn

\* Nothing more is to be told.
LEMMA ComesToNow ==
  ASSUME NEW ds, NEW p, NEW dh \in SUBSET (1..p)
  PROVE  /\ ComesTo(ds, Cardinality(dh), ds, dh, <<>>, {}, p)
         /\ \A st, n : ComesTo(st, n, ds, dh, <<>>, {}, p) => st = ds /\ n = Cardinality(dh)
  <1>1. \A i \in 1..Len(<<>>) : FALSE
    OBVIOUS
  <1>2. InFlight(<<>>, {}) = {}
    BY <1>1 DEF InFlight
  <1>3. HeldIn({}) = {} /\ ResolvedIn({}) = {}
    BY DEF HeldIn, ResolvedIn
  <1>4. OnceInOrder(<<>>, {}) /\ Told(ds, <<>>, ds)
    BY <1>1 DEF OnceInOrder, Told
  <1>5. \A n : Counts(n, dh, {}, p) <=> n = Cardinality(dh)
    <2>1. (dh \cup {}) \ {} = dh
      OBVIOUS
    <2> QED BY <1>3, <2>1 DEF Counts
  <1>6. \A st : Told(st, <<>>, ds) => st = ds
    BY <1>1 DEF Told
  <1> QED BY <1>2, <1>4, <1>5, <1>6 DEF ComesTo

\* One more report, not about a call.
LEMMA OnceMore ==
  ASSUME NEW F \in Seq(Report), NEW u \in SUBSET OfHold, OnceInOrder(F, u),
         NEW e \in Report, e \notin OfHold
  PROVE  OnceInOrder(Append(F, e), u)
  <1>1. PICK G : G = Append(F, e)
    OBVIOUS
  <1>2. \A i \in 1..Len(G) : (i \in 1..Len(F) /\ G[i] = F[i]) \/ (i = Len(F) + 1 /\ G[i] = e)
    BY <1>1, ReportAppended
  <1>3. \A t \in Nat : Held(t) \in OfHold /\ Resolved(t) \in OfHold
    BY ReportParts
  <1>4. e \notin u
    OBVIOUS
  <1>5. \A i, j \in 1..Len(G) : G[i] = G[j] /\ G[i] \in OfHold => i = j
    BY <1>2 DEF OnceInOrder
  <1>6. \A i \in 1..Len(G) : G[i] \notin u
    BY <1>2, <1>4 DEF OnceInOrder
  <1>7. \A i \in 1..Len(G), t \in Nat :
          G[i] = Resolved(t) => Held(t) \notin u /\ \A j \in 1..Len(G) : G[j] = Held(t) => j < i
    BY <1>2, <1>3 DEF OnceInOrder
  <1>8. OnceInOrder(G, u)
    BY <1>5, <1>6, <1>7 DEF OnceInOrder
  <1> QED BY <1>1, <1>8

\* The state changes.
LEMMA ComesToState ==
  ASSUME NEW F \in Seq(Report), NEW u \in SUBSET OfHold, NEW st, NEW n, NEW ds, NEW dh, NEW p,
         ComesTo(st, n, ds, dh, F, u, p), NEW s \in State
  PROVE  ComesTo(st, n, s, dh, Append(F, Stated(s)), u, p)
  <1>1. Stated(s) \in Report /\ Stated(s) \notin OfHold
    BY ReportParts
  <1>2. OnceInOrder(Append(F, Stated(s)), u) /\ Told(st, Append(F, Stated(s)), s)
    BY <1>1, OnceMore, ToldLast DEF ComesTo
  <1>3. InFlight(Append(F, Stated(s)), u) = InFlight(F, u) \cup {Stated(s)}
    BY <1>1, ReportAppended
  <1>4. Counts(n, dh, InFlight(F, u) \cup {Stated(s)}, p)
    BY <1>1, SetsOf DEF ComesTo, Counts
  <1> QED BY <1>2, <1>3, <1>4 DEF ComesTo

\* A voice is rendered.
LEMMA ComesToRender ==
  ASSUME NEW F \in Seq(Report), NEW u \in SUBSET OfHold, NEW st, NEW n, NEW ds, NEW dh, NEW p,
         ComesTo(st, n, ds, dh, F, u, p), NEW b \in BOOLEAN
  PROVE  ComesTo(st, n, ds, dh, Append(F, Rendering(b)), u, p)
  <1>1. Rendering(b) \in Report /\ Rendering(b) \notin OfHold /\ Rendering(b).kind # "state"
    BY ReportParts
  <1>2. OnceInOrder(Append(F, Rendering(b)), u) /\ Told(st, Append(F, Rendering(b)), ds)
    BY <1>1, OnceMore, ToldMore DEF ComesTo
  <1>3. InFlight(Append(F, Rendering(b)), u) = InFlight(F, u) \cup {Rendering(b)}
    BY <1>1, ReportAppended
  <1>4. Counts(n, dh, InFlight(F, u) \cup {Rendering(b)}, p)
    BY <1>1, SetsOf DEF ComesTo, Counts
  <1> QED BY <1>2, <1>3, <1>4 DEF ComesTo

\* A call is parked: it waits, and is to be reported.
LEMMA ComesToParked ==
  ASSUME NEW F \in Seq(Report), NEW u \in SUBSET OfHold, NEW st, NEW n, NEW ds, NEW dh, NEW p \in Nat,
         ComesTo(st, n, ds, dh, F, u, p), NEW t, t = p + 1
  PROVE  ComesTo(st, n, ds, dh \cup {t}, F, u \cup {Held(t)}, p + 1)
  <1>1. t \in Nat /\ t \notin 1..p /\ \A x \in 1..p : x \in 1..t
    OBVIOUS
  <1>2. t \in 1..t
    BY <1>1
  <1>3. InFlight(F, u \cup {Held(t)}) = InFlight(F, u) \cup {Held(t)}
    BY DEF InFlight
  <1> DEFINE X == InFlight(F, u)
             R == ResolvedIn(X)
             H == HeldIn(X)
  <1>4. /\ HeldIn(X \cup {Held(t)}) = H \cup {t} /\ ResolvedIn(X \cup {Held(t)}) = R
    BY <1>1, SetsOf
  <1>5. /\ dh \subseteq 1..p /\ R \subseteq 1..p /\ dh \cap R = {} /\ H \subseteq dh \cup R
        /\ n = Cardinality((dh \cup R) \ H)
    BY DEF ComesTo, Counts
  <1>6. Held(t) \notin X /\ Resolved(t) \notin X
    BY <1>1, <1>5 DEF HeldIn, ResolvedIn
  <1> HIDE DEF X, R, H
  <1>7. ((dh \cup {t}) \cup R) \ (H \cup {t}) = (dh \cup R) \ H
    BY <1>1, <1>5
  <1>8. Counts(n, dh \cup {t}, X \cup {Held(t)}, t)
    BY <1>1, <1>2, <1>4, <1>5, <1>7 DEF Counts
  <1>9. OnceInOrder(F, u \cup {Held(t)})
    <2>1. \A i \in 1..Len(F) : F[i] \in X
      BY DEF InFlight, X
    <2>2. u \subseteq X
      BY DEF InFlight, X
    <2>3. \A s \in Nat : (Held(s) = Held(t) => s = t) /\ Held(t) # Resolved(s)
      BY <1>1, ReportParts
    <2> HIDE DEF X
    <2>4. \A i \in 1..Len(F) : F[i] \notin u \cup {Held(t)}
      BY <1>6, <2>1 DEF ComesTo, OnceInOrder
    <2>5. \A s \in Nat : ~({Held(s), Resolved(s)} \subseteq u \cup {Held(t)})
      BY <1>6, <2>2, <2>3 DEF ComesTo, OnceInOrder
    <2>6. \A i \in 1..Len(F), s \in Nat :
            F[i] = Resolved(s) => Held(s) \notin u \cup {Held(t)} /\ \A j \in 1..Len(F) : F[j] = Held(s) => j < i
      BY <1>6, <2>1, <2>3 DEF ComesTo, OnceInOrder
    <2> QED BY <2>4, <2>5, <2>6 DEF ComesTo, OnceInOrder
  <1> QED BY <1>3, <1>8, <1>9 DEF ComesTo, X

\* A call no longer waits, which is to be reported after it was reported held.
LEMMA ComesToTaken ==
  ASSUME NEW F \in Seq(Report), NEW u \in SUBSET OfHold, NEW st, NEW n, NEW ds, NEW dh, NEW p \in Nat,
         ComesTo(st, n, ds, dh, F, u, p), NEW t \in dh, Held(t) \notin u
  PROVE  ComesTo(st, n, ds, dh \ {t}, F, u \cup {Resolved(t)}, p)
  <1>3. InFlight(F, u \cup {Resolved(t)}) = InFlight(F, u) \cup {Resolved(t)}
    BY DEF InFlight
  <1> DEFINE X == InFlight(F, u)
             R == ResolvedIn(X)
             H == HeldIn(X)
  <1>5. /\ dh \subseteq 1..p /\ R \subseteq 1..p /\ dh \cap R = {} /\ H \subseteq dh \cup R
        /\ n = Cardinality((dh \cup R) \ H)
    BY DEF ComesTo, Counts
  <1>1. t \in Nat /\ t \in 1..p /\ t \notin R
    BY <1>5
  <1>4. /\ HeldIn(X \cup {Resolved(t)}) = H /\ ResolvedIn(X \cup {Resolved(t)}) = R \cup {t}
    BY <1>1, SetsOf
  <1>6. Resolved(t) \notin X
    BY <1>1 DEF ResolvedIn
  <1> HIDE DEF X, R, H
  <1>7. (dh \ {t}) \cup (R \cup {t}) = dh \cup R
    OBVIOUS
  <1>8. Counts(n, dh \ {t}, X \cup {Resolved(t)}, p)
    BY <1>1, <1>4, <1>5, <1>7 DEF Counts
  <1>9. OnceInOrder(F, u \cup {Resolved(t)})
    <2>1. \A i \in 1..Len(F) : F[i] \in X
      BY DEF InFlight, X
    <2>3. \A s \in Nat : (Resolved(s) = Resolved(t) => s = t) /\ Held(s) # Resolved(t)
      BY <1>1, ReportParts
    <2> HIDE DEF X
    <2>4. \A i \in 1..Len(F) : F[i] \notin u \cup {Resolved(t)}
      BY <1>6, <2>1 DEF ComesTo, OnceInOrder
    <2>5. \A s \in Nat : ~({Held(s), Resolved(s)} \subseteq u \cup {Resolved(t)})
      BY <2>3 DEF ComesTo, OnceInOrder
    <2>6. \A i \in 1..Len(F), s \in Nat :
            F[i] = Resolved(s) => Held(s) \notin u \cup {Resolved(t)} /\ \A j \in 1..Len(F) : F[j] = Held(s) => j < i
      BY <2>3 DEF ComesTo, OnceInOrder
    <2> QED BY <2>4, <2>5, <2>6 DEF ComesTo, OnceInOrder
  <1> QED BY <1>3, <1>8, <1>9 DEF ComesTo, X

\* A report that was to be made is made.
LEMMA ComesToSaid ==
  ASSUME NEW F \in Seq(Report), NEW u \in SUBSET OfHold, NEW st, NEW n, NEW ds, NEW dh, NEW p,
         ComesTo(st, n, ds, dh, F, u, p), NEW e \in u
  PROVE  ComesTo(st, n, ds, dh, Append(F, e), u \ {e}, p)
  <1>0. e \in Report /\ e \in OfHold /\ e.kind # "state"
        /\ (\A t \in Nat : e # Held(t) \/ \A s \in Nat : e # Resolved(s))
    BY ReportParts
  <1>1. InFlight(Append(F, e), u \ {e}) = InFlight(F, u)
    <2>1. InFlight(Append(F, e), u \ {e}) = InFlight(F, u) \cup {e}
      BY <1>0, ReportAppended
    <2> QED BY <2>1 DEF InFlight
  <1>2. Told(st, Append(F, e), ds)
    BY <1>0, ToldMore DEF ComesTo
  <1>3. PICK G : G = Append(F, e)
    OBVIOUS
  <1>4. /\ \A i \in 1..Len(G) : (i \in 1..Len(F) /\ G[i] = F[i]) \/ (i = Len(F) + 1 /\ G[i] = e)
        /\ Len(F) \in Nat
    BY <1>0, <1>3, ReportAppended
  <1>5. \A i \in 1..Len(F) : F[i] # e /\ i < Len(F) + 1
    BY <1>4 DEF ComesTo, OnceInOrder
  <1>6. \A i, j \in 1..Len(G) : G[i] = G[j] /\ G[i] \in OfHold => i = j
    BY <1>4, <1>5 DEF ComesTo, OnceInOrder
  <1>7. \A i \in 1..Len(G) : G[i] \notin u \ {e}
    BY <1>4 DEF ComesTo, OnceInOrder
  <1>8. ASSUME NEW i \in 1..Len(G), NEW t \in Nat, G[i] = Resolved(t)
        PROVE  Held(t) \notin u \ {e} /\ \A j \in 1..Len(G) : G[j] = Held(t) => j < i
    <2>1. CASE i \in 1..Len(F) /\ G[i] = F[i]
      <3>1. Held(t) \notin u /\ \A j \in 1..Len(F) : F[j] = Held(t) => j < i
        BY <1>8, <2>1 DEF ComesTo, OnceInOrder
      <3> QED BY <1>4, <3>1
    <2>2. CASE i = Len(F) + 1 /\ G[i] = e
      <3>1. Held(t) \notin u /\ e # Held(t)
        BY <1>0, <1>8, <2>2 DEF ComesTo, OnceInOrder
      <3>2. \A j \in 1..Len(G) : G[j] = Held(t) => j \in 1..Len(F)
        BY <1>4, <3>1
      <3> QED BY <1>5, <2>2, <3>1, <3>2
    <2> QED BY <1>4, <2>1, <2>2
  <1>9. OnceInOrder(G, u \ {e})
    BY <1>6, <1>7, <1>8 DEF ComesTo, OnceInOrder
  <1> QED BY <1>1, <1>2, <1>3, <1>9 DEF ComesTo

LEMMA FiniteUpTo == ASSUME NEW p \in Nat, NEW S \in SUBSET (1..p) PROVE IsFiniteSet(S)
  <1>1. 1 \in Int /\ p \in Int
    OBVIOUS
  <1>2. IsFiniteSet(1..p)
    BY <1>1, FS_Interval
  <1> QED BY <1>2, FS_Subset

\* The face is told that a call is held, or no longer so.
LEMMA CountsMore ==
  ASSUME NEW X, NEW n, NEW dh, NEW p \in Nat, NEW t \in Nat, Held(t) \notin X,
         Counts(n, dh, X \cup {Held(t)}, p)
  PROVE  Counts(n + 1, dh, X, p)
  <1> DEFINE R == ResolvedIn(X)
             H == HeldIn(X)
  <1>1. HeldIn(X \cup {Held(t)}) = H \cup {t} /\ ResolvedIn(X \cup {Held(t)}) = R /\ t \notin H
    BY SetsOf DEF HeldIn
  <1>2. /\ dh \subseteq 1..p /\ R \subseteq 1..p /\ dh \cap R = {} /\ H \cup {t} \subseteq dh \cup R
        /\ n = Cardinality((dh \cup R) \ (H \cup {t}))
    BY <1>1 DEF Counts
  <1> HIDE DEF R, H
  <1>3. IsFiniteSet((dh \cup R) \ (H \cup {t}))
    <2>1. (dh \cup R) \ (H \cup {t}) \subseteq 1..p
      BY <1>2
    <2> QED BY <2>1, FiniteUpTo
  <1>4. /\ ((dh \cup R) \ (H \cup {t})) \cup {t} = (dh \cup R) \ H
        /\ t \notin (dh \cup R) \ (H \cup {t})
    BY <1>1, <1>2
  <1>5. Cardinality((dh \cup R) \ H) = n + 1
    BY <1>2, <1>3, <1>4, FS_AddElement
  <1> QED BY <1>2, <1>5 DEF Counts, R, H

LEMMA CountsFewer ==
  ASSUME NEW X, NEW n, NEW dh, NEW p \in Nat, NEW t \in Nat, Held(t) \notin X, Resolved(t) \notin X,
         Counts(n, dh, X \cup {Resolved(t)}, p)
  PROVE  n \in Nat /\ n # 0 /\ Counts(n - 1, dh, X, p)
  <1> DEFINE R == ResolvedIn(X)
             H == HeldIn(X)
  <1>1. HeldIn(X \cup {Resolved(t)}) = H /\ ResolvedIn(X \cup {Resolved(t)}) = R \cup {t}
        /\ t \notin H /\ t \notin R
    BY SetsOf DEF HeldIn, ResolvedIn
  <1>2. /\ dh \subseteq 1..p /\ R \cup {t} \subseteq 1..p /\ dh \cap (R \cup {t}) = {}
        /\ H \subseteq dh \cup (R \cup {t}) /\ n = Cardinality((dh \cup (R \cup {t})) \ H)
    BY <1>1 DEF Counts
  <1> HIDE DEF R, H
  <1>3. IsFiniteSet((dh \cup R) \ H)
    <2>1. (dh \cup R) \ H \subseteq 1..p
      BY <1>2
    <2> QED BY <2>1, FiniteUpTo
  <1>4. /\ (dh \cup (R \cup {t})) \ H = ((dh \cup R) \ H) \cup {t}
        /\ t \notin (dh \cup R) \ H
    BY <1>1, <1>2
  <1>5. PICK m \in Nat : m = Cardinality((dh \cup R) \ H)
    BY <1>3, FS_CardinalityType
  <1>6. n = m + 1
    BY <1>2, <1>3, <1>4, <1>5, FS_AddElement
  <1>7. n \in Nat /\ n # 0 /\ n - 1 = m
    BY <1>6
  <1>8. H \subseteq dh \cup R
    BY <1>1, <1>2
  <1> QED BY <1>2, <1>5, <1>7, <1>8 DEF Counts, R, H

LEMMA CountsTypes ==
  ASSUME NEW X, NEW n, NEW dh, NEW p \in Nat, Counts(n, dh, X, p)
  PROVE  n \in Nat
  <1>1. (dh \cup ResolvedIn(X)) \ HeldIn(X) \subseteq 1..p
    BY DEF Counts
  <1>2. IsFiniteSet((dh \cup ResolvedIn(X)) \ HeldIn(X))
    BY <1>1, FiniteUpTo
  <1>3. Cardinality((dh \cup ResolvedIn(X)) \ HeldIn(X)) \in Nat
    BY <1>2, FS_CardinalityType
  <1> QED BY <1>3 DEF Counts

\* The first report is taken.
LEMMA OnceTaken ==
  ASSUME NEW F \in Seq(Report), NEW u \in SUBSET OfHold, OnceInOrder(F, u), F # <<>>
  PROVE  /\ OnceInOrder(Tail(F), u)
         /\ F[1] \in OfHold => F[1] \notin InFlight(Tail(F), u)
         /\ \A t \in Nat : F[1] = Resolved(t) => Held(t) \notin InFlight(Tail(F), u)
  <1>1. PICK G : G = Tail(F)
    OBVIOUS
  <1>2. /\ \A i \in 1..Len(G) : i + 1 \in 1..Len(F) /\ G[i] = F[i + 1] /\ i \in Nat
        /\ 1 \in 1..Len(F)
    BY <1>1, TakenFrom
  <1>3. \A i \in 1..Len(G) : i + 1 # 1 /\ ~(i + 1 < 1)
    BY <1>2
  <1>4. \A i, j \in 1..Len(G) : (i + 1 = j + 1 => i = j) /\ (j + 1 < i + 1 => j < i)
    BY <1>2
  <1>5. \A i, j \in 1..Len(G) : G[i] = G[j] /\ G[i] \in OfHold => i = j
    BY <1>2, <1>4 DEF OnceInOrder
  <1>6. \A i \in 1..Len(G) : G[i] \notin u
    BY <1>2 DEF OnceInOrder
  <1>7. \A i \in 1..Len(G), t \in Nat :
          G[i] = Resolved(t) => Held(t) \notin u /\ \A j \in 1..Len(G) : G[j] = Held(t) => j < i
    BY <1>2, <1>4 DEF OnceInOrder
  <1>8. OnceInOrder(G, u)
    BY <1>5, <1>6, <1>7 DEF OnceInOrder
  <1>9. F[1] \in OfHold => F[1] \notin InFlight(G, u)
    BY <1>2, <1>3 DEF OnceInOrder, InFlight
  <1>10. ASSUME NEW t \in Nat, F[1] = Resolved(t) PROVE Held(t) \notin InFlight(G, u)
    BY <1>2, <1>3, <1>10 DEF OnceInOrder, InFlight
  <1> QED BY <1>1, <1>8, <1>9, <1>10

LEMMA ComesToTold ==
  ASSUME NEW F \in Seq(Report), NEW u \in SUBSET OfHold, NEW st, NEW n, NEW ds, NEW dh, NEW p \in Nat,
         ComesTo(st, n, ds, dh, F, u, p), F # <<>>, F[1] \notin LinkReport
  PROVE  ComesTo(IF F[1].kind = "state" THEN F[1].state ELSE st,
                 IF F[1].kind = "held" THEN n + 1
                 ELSE IF F[1].kind = "resolved" THEN (IF n = 0 THEN 0 ELSE n - 1) ELSE n,
                 ds, dh, Tail(F), u, p)
  <1>1. PICK e \in Report : e = F[1]
    BY TakenFrom
  <1>2. PICK X : X = InFlight(Tail(F), u)
    OBVIOUS
  <1>3. InFlight(F, u) = X \cup {e}
    <2>1. InFlight(F, u) = {e} \cup X
      BY <1>1, <1>2, TakenFrom
    <2> QED BY <2>1
  <1>4. OnceInOrder(Tail(F), u) /\ (e \in OfHold => e \notin X)
        /\ \A t \in Nat : e = Resolved(t) => Held(t) \notin X
    BY <1>1, <1>2, OnceTaken DEF ComesTo
  <1>5. Told(IF e.kind = "state" THEN e.state ELSE st, Tail(F), ds)
    BY <1>1, ToldFirst DEF ComesTo
  <1>6. Counts(n, dh, X \cup {e}, p)
    BY <1>3 DEF ComesTo
  <1>7. Counts(IF e.kind = "held" THEN n + 1
               ELSE IF e.kind = "resolved" THEN (IF n = 0 THEN 0 ELSE n - 1) ELSE n, dh, X, p)
    <2>1. CASE e \notin OfHold
      <3>1. e.kind # "held" /\ e.kind # "resolved"
        BY <2>1 DEF Report, OfHold, Connected, Disconnected
      <3>2. Counts(n, dh, X, p)
        BY <1>6, <2>1, SetsOf DEF Counts
      <3> QED BY <3>1, <3>2
    <2>2. ASSUME NEW t \in Nat, e = Held(t)
          PROVE  Counts(IF e.kind = "held" THEN n + 1
                   ELSE IF e.kind = "resolved" THEN (IF n = 0 THEN 0 ELSE n - 1) ELSE n, dh, X, p)
      <3>1. e.kind = "held" /\ e \in OfHold
        BY <2>2, ReportParts
      <3>2. Counts(n + 1, dh, X, p)
        BY <1>4, <1>6, <2>2, <3>1, CountsMore
      <3> QED BY <3>1, <3>2
    <2>3. ASSUME NEW t \in Nat, e = Resolved(t)
          PROVE  Counts(IF e.kind = "held" THEN n + 1
                   ELSE IF e.kind = "resolved" THEN (IF n = 0 THEN 0 ELSE n - 1) ELSE n, dh, X, p)
      <3>1. e.kind = "resolved" /\ e \in OfHold
        BY <2>3, ReportParts
      <3>2. n # 0 /\ Counts(n - 1, dh, X, p)
        BY <1>4, <1>6, <2>3, <3>1, CountsFewer
      <3> QED BY <3>1, <3>2
    <2> QED BY <2>1, <2>2, <2>3, ReportParts
  <1> QED BY <1>1, <1>2, <1>4, <1>5, <1>7 DEF ComesTo

\* What is written to the connection is followed by what is in the ring.
LEMMA Pipes ==
  ASSUME NEW w \in Seq(Report), NEW r \in Seq(Report), NEW e \in Report
  PROVE  /\ w \o r \in Seq(Report)
         /\ w \o Append(r, e) = Append(w \o r, e)
         /\ r # <<>> => /\ Append(w, Head(r)) \o Tail(r) = w \o r
                        /\ w \o r # <<>> /\ (w \o r)[Len(w \o r)] = r[Len(r)]
         /\ w # <<>> => /\ Tail(w) \o r = Tail(w \o r)
                        /\ w \o r # <<>> /\ (w \o r)[1] = w[1]
  <1>1. w \o r \in Seq(Report)
    OBVIOUS
  <1>2. w \o Append(r, e) = Append(w \o r, e)
    OBVIOUS
  <1>3. ASSUME r # <<>> PROVE Append(w, Head(r)) \o Tail(r) = w \o r
    BY <1>3
  <1>4. ASSUME r # <<>> PROVE w \o r # <<>> /\ (w \o r)[Len(w \o r)] = r[Len(r)]
    BY <1>4
  <1>5. ASSUME w # <<>> PROVE Tail(w) \o r = Tail(w \o r)
    BY <1>5
  <1>6. ASSUME w # <<>> PROVE w \o r # <<>> /\ (w \o r)[1] = w[1]
    BY <1>6
  <1> QED BY <1>1, <1>2, <1>3, <1>4, <1>5, <1>6

Icon == [connected : BOOLEAN, state : State, holds : Nat, paused : BOOLEAN]
AppletReply ==
  [to : {"status"}, status : {s \in Status : IsFiniteSet(s.holds)}] \cup [to : {"toggle"}, paused : BOOLEAN]

\* There is no connection: the icon is dark or will be.
Apart ==
  /\ requests = {} /\ replies = {}
  /\ \/ wire = <<>> /\ icon = Dark
     \/ /\ wire # <<>> /\ wire[Len(wire)] = Disconnected
        /\ \A i \in 1..(Len(wire) - 1) : wire[i] \notin LinkReport

\* The applet is to learn of the connection.
Linking ==
  /\ wire = <<Connected>> /\ ring = <<>> /\ unsaid = {}
  /\ requests = {} /\ replies = {} /\ icon = Dark

\* The applet follows: it waits for the status, or has it, or the reports bring the rest.
StatusReplies == {r \in replies : r.to = "status"}
Comes == ComesTo(icon.state, icon.holds, daemon.state, daemon.holds, wire \o ring, unsaid, parked)
Following ==
  /\ icon.connected
  /\ \A i \in 1..Len(wire) : wire[i] \notin LinkReport
  /\ \/ "status" \in requests /\ StatusReplies = {}
     \/ /\ "status" \notin requests /\ StatusReplies # {}
        /\ \A r \in StatusReplies : r.status.state = daemon.state /\ r.status.holds = daemon.holds
     \/ "status" \notin requests /\ StatusReplies = {} /\ Comes

Calm ==
  /\ ~(Asking /\ Saying)
  /\ IF linked THEN Linking \/ Following ELSE Apart

AppletTypes ==
  icon \in Icon /\ requests \subseteq {"status", "toggle"} /\ replies \subseteq AppletReply

AppletInv == StreamTypes /\ StreamHolds /\ AppletTypes /\ (~muddled => Calm)

\* What a step that does not muddle leaves.
Clear ==
  /\ ~muddled /\ ~(Asking /\ Saying)'
  /\ \A t \in Token : ~({Held(t), Resolved(t)} \subseteq unsaid')
  /\ Len(ring) = Capacity /\ Len(ring') = Capacity => ring' = ring

\* While the applet asks, and nothing is under way, all that the daemon does muddles.
LEMMA AskedMuddles ==
  ASSUME StreamTypes, StreamHolds, linked, Asking, ~Saying, DaemonSteps, UNCHANGED appletFace
  PROVE  (Asking /\ Saying)'
  <1>1. /\ unsaid = {} /\ ring = <<>> /\ daemon.up /\ wire \in Seq(Report)
        /\ \A i \in 1..Len(wire) : wire[i] = Connected
    BY DEF Saying, StreamHolds, StreamTypes
  <1>2. requests' = requests /\ replies' = replies
    BY DEF appletFace
  <1>3. ASSUME wire' = wire PROVE Asking'
    BY <1>2, <1>3 DEF Asking
  <1>4. ASSUME NEW e \in Report, ring' = Broadcast(e) PROVE Saying'
    <2>1. ring' # <<>>
      <3>1. Broadcast(e) \in Seq(Report) /\ (Broadcast(e) # <<>> \/ Broadcast(e) = Append(Tail(ring), e))
        BY BroadcastTo
      <3>2. Len(ring) = 0 /\ Capacity # 0 /\ Capacity \in Nat
        BY <1>1, StreamBounds
      <3>3. Broadcast(e) = Append(ring, e)
        BY <3>2 DEF Broadcast
      <3>4. Append(ring, e) # <<>>
        BY <1>1, AppendedTo, AppendProperties DEF StreamTypes
      <3> QED BY <1>4, <3>3, <3>4
    <2> QED BY <2>1 DEF Saying
  <1>5. ASSUME NEW s \in State, SetState(s) PROVE (Asking /\ Saying)'
    <2>1. Stated(s) \in Report
      BY ReportParts
    <2> QED BY <1>3, <1>4, <1>5, <2>1 DEF SetState
  <1>6. CASE ParkHold
    BY <1>3, <1>6 DEF ParkHold, Saying
  <1>7. ASSUME NEW t \in Token, ResolveHold(t) PROVE (Asking /\ Saying)'
    BY <1>3, <1>7 DEF ResolveHold, TakeHold, Saying
  <1>8. CASE \E e \in unsaid : Announce(e)
    BY <1>1, <1>8
  <1>9. CASE Render
    <2>1. Rendering(~daemon.rendering) \in Report
      BY ReportParts DEF StreamTypes
    <2> QED BY <1>3, <1>4, <1>9, <2>1 DEF Render
  <1>10. CASE Stop
    <2>1. wire' = Append(wire, Disconnected)
      BY <1>10 DEF Stop
    <2>2. PICK w \in Seq(Report) : w = Append(wire, Disconnected)
      BY <1>1, AppendedTo, ReportParts DEF LinkReport
    <2>3. /\ Len(w) = Len(wire) + 1 /\ Len(wire) \in Nat /\ w[Len(wire) + 1] = Disconnected
          /\ \A i \in 1..Len(wire) : w[i] = wire[i]
      BY <1>1, <2>2, AppendedTo, ReportParts DEF LinkReport
    <2>4. Len(wire) + 1 \in 1..Len(w) /\ \A i \in 1..Len(wire) : i \in 1..Len(w)
      BY <2>3
    <2>5. Saying'
      BY <2>1, <2>2, <2>3, <2>4, ReportParts DEF Saying
    <2>6. Asking'
      BY <1>2, <2>1, <2>2, <2>3, <2>4 DEF Asking
    <2> QED BY <2>5, <2>6
  <1>11. CASE Start
    BY <1>1, <1>11 DEF Start
  <1>12. CASE Link
    BY <1>12 DEF Link
  <1>13. CASE Forward
    BY <1>1, <1>13 DEF Forward
  <1> QED BY <1>5, <1>6, <1>7, <1>8, <1>9, <1>10, <1>11, <1>12, <1>13 DEF DaemonSteps

\* What is broadcast without a report being skipped comes behind the others, or is the
\* same as the last of them.
LEMMA NothingSkipped ==
  ASSUME StreamTypes, StreamHolds, linked, NEW e \in Report, ring' = Broadcast(e),
         Len(ring) = Capacity /\ Len(ring') = Capacity => ring' = ring
  PROVE  ring' = Append(ring, e) \/ (ring' = ring /\ ring # <<>> /\ ring[Len(ring)] = e)
  <1>1. ring \in Seq(Report) /\ Len(ring) \in Nat /\ Capacity \in Nat /\ Len(ring) <= Capacity
    BY StreamBounds DEF StreamTypes, StreamHolds
  <1>2. CASE Len(ring) < Capacity
    BY <1>2 DEF Broadcast
  <1>3. CASE ~(Len(ring) < Capacity)
    <2>1. /\ ring # <<>> /\ ring' = Append(Tail(ring), e) /\ Len(ring') = Len(ring) /\ Len(ring) = Capacity
      BY <1>1, <1>3, BroadcastTo
    <2>2. ring' = ring
      BY <2>1
    <2>3. Append(Tail(ring), e)[Len(Tail(ring)) + 1] = e /\ Len(Tail(ring)) + 1 = Len(ring)
      <3>1. PICK q \in Seq(Report) : q = Tail(ring)
        BY <1>1, <2>1, TailOf
      <3>2. Len(q) = Len(ring) - 1
        BY <1>1, <2>1, <3>1, TailOf
      <3>3. Append(q, e)[Len(q) + 1] = e
        BY AppendedTo
      <3>4. Len(q) + 1 = Len(ring)
        BY <1>1, <3>2
      <3> QED BY <3>1, <3>3, <3>4
    <2> QED BY <2>1, <2>2, <2>3
  <1> QED BY <1>2, <1>3

\* While the applet follows and nothing is asked, what the daemon does is followed.
LEMMA ComesStep ==
  ASSUME StreamTypes, StreamHolds, linked, Comes, icon.connected, Clear, UNCHANGED icon,
         DaemonSteps, ~Stop
  PROVE  Comes' /\ linked'
  <1>0. /\ daemon \in [up : BOOLEAN, before : Nat, state : State, holds : SUBSET Nat,
                       paused : BOOLEAN, rendering : BOOLEAN]
        /\ unsaid \in SUBSET OfHold /\ ring \in Seq(Report) /\ wire \in Seq(Report)
        /\ parked \in Nat /\ daemon.state \in State /\ daemon.up
        /\ wire \o ring \in Seq(Report)
    BY StreamBounds, Pipes, ReportParts DEF StreamTypes, StreamHolds
  <1>1. ComesTo(icon.state, icon.holds, daemon.state, daemon.holds, wire \o ring, unsaid, parked)
    BY DEF Comes
  <1>2. Len(ring) = Capacity /\ Len(ring') = Capacity => ring' = ring
    BY DEF Clear
  <1>3. ASSUME NEW s \in State, SetState(s) PROVE Comes' /\ linked'
    <2>1. /\ s # daemon.state /\ daemon' = [daemon EXCEPT !.state = s] /\ ring' = Broadcast(Stated(s))
          /\ UNCHANGED <<unsaid, wire, linked, parked>>
      BY <1>3 DEF SetState
    <2>2. daemon'.state = s /\ daemon'.holds = daemon.holds /\ Stated(s) \in Report
      BY <1>0, <2>1, ReportParts
    <2>3. CASE ring' = Append(ring, Stated(s))
      <3>1. wire' \o ring' = Append(wire \o ring, Stated(s))
        BY <1>0, <2>1, <2>2, <2>3, Pipes
      <3>2. ComesTo(icon.state, icon.holds, s, daemon.holds, Append(wire \o ring, Stated(s)), unsaid, parked)
        BY <1>0, <1>1, ComesToState
      <3> QED BY <2>1, <2>2, <3>1, <3>2 DEF Comes
    <2>4. CASE ring # <<>> /\ ring[Len(ring)] = Stated(s)
      <3>1. wire \o ring # <<>> /\ (wire \o ring)[Len(wire \o ring)] = Stated(s)
        BY <1>0, <2>2, <2>4, Pipes
      <3>2. s = daemon.state
        BY <1>0, <1>1, <3>1, ToldOf DEF ComesTo
      <3> QED BY <2>1, <3>2
    <2> QED BY <1>2, <2>1, <2>2, <2>3, <2>4, NothingSkipped
  <1>4. CASE ParkHold
    <2> DEFINE t == parked + 1
    <2>1. /\ daemon' = [daemon EXCEPT !.holds = @ \cup {t}] /\ unsaid' = unsaid \cup {Held(t)}
          /\ parked' = t /\ UNCHANGED <<ring, wire, linked>>
      BY <1>4 DEF ParkHold
    <2>2. daemon'.state = daemon.state /\ daemon'.holds = daemon.holds \cup {t}
      BY <1>0, <2>1
    <2>3. ComesTo(icon.state, icon.holds, daemon.state, daemon.holds \cup {t}, wire \o ring,
                  unsaid \cup {Held(t)}, parked + 1)
      BY <1>0, <1>1, ComesToParked
    <2> QED BY <2>1, <2>2, <2>3 DEF Comes
  <1>5. ASSUME NEW t \in Token, ResolveHold(t) PROVE Comes' /\ linked'
    <2>1. /\ t \in daemon.holds /\ daemon' = [daemon EXCEPT !.holds = @ \ {t}]
          /\ unsaid' = unsaid \cup {Resolved(t)} /\ UNCHANGED <<ring, wire, linked, parked>>
      BY <1>5 DEF ResolveHold, TakeHold
    <2>2. daemon'.state = daemon.state /\ daemon'.holds = daemon.holds \ {t}
      BY <1>0, <2>1
    <2>3. Held(t) \notin unsaid
      BY <2>1 DEF Clear
    <2>4. ComesTo(icon.state, icon.holds, daemon.state, daemon.holds \ {t}, wire \o ring,
                  unsaid \cup {Resolved(t)}, parked)
      BY <1>0, <1>1, <2>1, <2>3, ComesToTaken
    <2> QED BY <2>1, <2>2, <2>4 DEF Comes
  <1>6. ASSUME NEW e \in unsaid, Announce(e) PROVE Comes' /\ linked'
    <2>1. unsaid' = unsaid \ {e} /\ ring' = Broadcast(e) /\ UNCHANGED <<daemon, wire, linked, parked>>
      BY <1>6 DEF Announce
    <2>2. e \in Report
      BY <1>0, ReportParts
    <2>3. CASE ring' = Append(ring, e)
      <3>1. wire' \o ring' = Append(wire \o ring, e)
        BY <1>0, <2>1, <2>2, <2>3, Pipes
      <3>2. ComesTo(icon.state, icon.holds, daemon.state, daemon.holds, Append(wire \o ring, e),
                    unsaid \ {e}, parked)
        BY <1>0, <1>1, ComesToSaid
      <3> QED BY <2>1, <3>1, <3>2 DEF Comes
    <2>4. CASE ring # <<>> /\ ring[Len(ring)] = e
      <3>1. wire \o ring # <<>> /\ (wire \o ring)[Len(wire \o ring)] = e
        BY <1>0, <2>2, <2>4, Pipes
      <3>2. Len(wire \o ring) \in 1..Len(wire \o ring)
        BY <1>0, <3>1
      <3> QED BY <1>1, <3>1, <3>2 DEF ComesTo, OnceInOrder
    <2> QED BY <1>2, <2>1, <2>2, <2>3, <2>4, NothingSkipped
  <1>7. CASE Render
    <2>1. /\ daemon' = [daemon EXCEPT !.rendering = ~@] /\ ring' = Broadcast(Rendering(~daemon.rendering))
          /\ UNCHANGED <<unsaid, wire, linked, parked>>
      BY <1>7 DEF Render
    <2>2. PICK b \in BOOLEAN : b = ~daemon.rendering
      BY <1>0
    <2>3. daemon'.state = daemon.state /\ daemon'.holds = daemon.holds /\ Rendering(b) \in Report
      BY <1>0, <2>1, ReportParts
    <2>4. CASE ring' = Append(ring, Rendering(b))
      <3>1. wire' \o ring' = Append(wire \o ring, Rendering(b))
        <4>1. PICK e \in Report : e = Rendering(b)
          BY <2>3
        <4>2. wire \o Append(ring, e) = Append(wire \o ring, e)
          BY <1>0, Pipes
        <4> QED BY <2>1, <2>4, <4>1, <4>2
      <3>2. ComesTo(icon.state, icon.holds, daemon.state, daemon.holds,
                    Append(wire \o ring, Rendering(b)), unsaid, parked)
        BY <1>0, <1>1, ComesToRender
      <3> QED BY <2>1, <2>3, <3>1, <3>2 DEF Comes
    <2>5. CASE ring' = ring
      BY <1>1, <2>1, <2>3, <2>5 DEF Comes
    <2> QED BY <1>2, <2>1, <2>2, <2>3, <2>4, <2>5, NothingSkipped
  <1>8. CASE Start
    BY <1>0, <1>8 DEF Start
  <1>9. CASE Link
    BY <1>9 DEF Link
  <1>10. CASE Forward
    <2>1. /\ ring # <<>> /\ ring' = Tail(ring) /\ wire' = Append(wire, Head(ring))
          /\ UNCHANGED <<daemon, unsaid, linked, parked>>
      BY <1>10 DEF Forward
    <2>2. Append(wire, Head(ring)) \o Tail(ring) = wire \o ring
      BY <1>0, <2>1, Pipes, ReportParts DEF LinkReport
    <2>3. wire' \o ring' = wire \o ring
      BY <2>1, <2>2
    <2> QED BY <1>1, <2>1, <2>3 DEF Comes
  <1> QED BY <1>3, <1>4, <1>5, <1>6, <1>7, <1>8, <1>9, <1>10 DEF DaemonSteps

\* What is written behind others that are not of the connection, is not of it either.
LEMMA StreamWrites ==
  ASSUME StreamTypes, StreamHolds, linked, \A i \in 1..Len(wire) : wire[i] \notin LinkReport,
         DaemonSteps, ~Stop
  PROVE  \A i \in 1..Len(wire') : wire'[i] \notin LinkReport
  <1>1. CASE wire' = wire
    BY <1>1
  <1>2. CASE Forward
    <2>1. ring # <<>> /\ ring \in Seq(Report) /\ wire \in Seq(Report) /\ wire' = Append(wire, Head(ring))
      BY <1>2 DEF Forward, StreamTypes
    <2>2. Head(ring) \in Report /\ Head(ring) = ring[1] /\ 1 \in 1..Len(ring)
      BY <2>1, TailOf
    <2>3. Head(ring) \notin LinkReport
      BY <2>2 DEF StreamHolds
    <2> QED BY <2>1, <2>2, <2>3, ReportAppended
  <1>3. ~Link /\ ~Start
    BY DEF Link, Start, StreamHolds
  <1> QED BY <1>1, <1>2, <1>3 DEF DaemonSteps, SetState, ParkHold, ResolveHold, TakeHold, Announce, Render

LEMMA CalmDaemon ==
  ASSUME AppletInv, Clear, DaemonSteps, UNCHANGED appletFace
  PROVE  Calm'
  <1>0. /\ StreamTypes /\ StreamHolds /\ Calm /\ wire \in Seq(Report) /\ ring \in Seq(Report)
        /\ Len(wire) \in Nat /\ ~(Asking /\ Saying)'
        /\ icon' = icon /\ requests' = requests /\ replies' = replies
    BY DEF AppletInv, Clear, StreamTypes, appletFace
  <1>1. CASE linked
    <2>1. ~Asking
      <3>1. ~(Asking /\ Saying)
        BY <1>0 DEF Calm
      <3> QED BY <1>0, <1>1, <3>1, AskedMuddles
    <2>2. requests = {} /\ replies = {} /\ \A i \in 1..Len(wire) : wire[i] # Connected
      BY <2>1 DEF Asking
    <2>3. ~Linking
      <3>1. Len(<<Connected>>) = 1 /\ <<Connected>>[1] = Connected /\ 1 \in 1..1
        OBVIOUS
      <3> QED BY <2>2, <3>1 DEF Linking
    <2>4. Following /\ StatusReplies = {} /\ "status" \notin requests
      BY <1>0, <1>1, <2>2, <2>3 DEF Calm, StatusReplies
    <2>5. /\ icon.connected /\ Comes /\ \A i \in 1..Len(wire) : wire[i] \notin LinkReport
      BY <2>4 DEF Following
    <2>6. CASE Stop
      <3>1. /\ linked' = FALSE /\ wire' = Append(wire, Disconnected)
        BY <1>1, <2>6 DEF Stop
      <3>2. PICK w \in Seq(Report) : w = Append(wire, Disconnected)
        BY <1>0, AppendedTo, ReportParts DEF LinkReport
      <3>3. /\ Len(w) = Len(wire) + 1 /\ w[Len(wire) + 1] = Disconnected
            /\ \A i \in 1..Len(wire) : w[i] = wire[i]
        BY <1>0, <3>2, AppendedTo, ReportParts DEF LinkReport
      <3>4. Len(w) - 1 = Len(wire) /\ w # <<>>
        BY <1>0, <3>3
      <3>5. w[Len(w)] = Disconnected /\ \A i \in 1..(Len(w) - 1) : w[i] \notin LinkReport
        BY <2>5, <3>3, <3>4
      <3>6. Apart'
        BY <1>0, <2>2, <3>1, <3>2, <3>4, <3>5 DEF Apart
      <3> QED BY <1>0, <3>1, <3>6 DEF Calm
    <2>7. CASE ~Stop
      <3>1. Comes' /\ linked'
        BY <1>0, <1>1, <2>5, <2>7, ComesStep DEF appletFace
      <3>2. \A i \in 1..Len(wire') : wire'[i] \notin LinkReport
        BY <1>0, <1>1, <2>5, <2>7, StreamWrites
      <3>3. StatusReplies' = {} /\ icon'.connected /\ "status" \notin requests'
        BY <1>0, <2>2, <2>5 DEF StatusReplies
      <3>4. Following'
        BY <3>1, <3>2, <3>3 DEF Following
      <3> QED BY <1>0, <3>1, <3>4 DEF Calm
    <2> QED BY <2>6, <2>7
  <1>2. CASE ~linked
    <2>1. Apart
      BY <1>0, <1>2 DEF Calm
    <2>2. CASE wire' = wire /\ linked' = linked
      <3>1. Apart'
        BY <1>0, <2>1, <2>2 DEF Apart
      <3> QED BY <1>0, <1>2, <2>2, <3>1 DEF Calm
    <2>3. CASE Link
      <3>1. linked' = TRUE /\ wire' = Append(wire, Connected) /\ UNCHANGED <<unsaid, ring>>
        BY <2>3 DEF Link
      <3>2. PICK w \in Seq(Report) : w = Append(wire, Connected)
        BY <1>0, AppendedTo, ReportParts DEF LinkReport
      <3>3. /\ Len(w) = Len(wire) + 1 /\ w[Len(wire) + 1] = Connected
            /\ \A i \in 1..Len(wire) : w[i] = wire[i]
        BY <1>0, <3>2, AppendedTo, ReportParts DEF LinkReport
      <3>4. Len(wire) + 1 \in 1..Len(w) /\ \A i \in 1..Len(wire) : i \in 1..Len(w)
        BY <1>0, <3>3
      <3>5. Asking'
        BY <3>1, <3>2, <3>3, <3>4 DEF Asking
      <3>6. ~Saying'
        BY <1>0, <3>5
      <3>7. wire = <<>>
        <4>1. SUFFICES ASSUME wire # <<>> PROVE FALSE
          OBVIOUS
        <4>2. 1 \in 1..Len(wire) /\ (Len(wire) = 1 \/ 1 \in 1..(Len(wire) - 1))
          <5>1. PICK n \in Nat : n = Len(wire)
            BY <1>0
          <5>2. n >= 1
            BY <1>0, <4>1, <5>1, TailOf
          <5>3. 1 \in 1..n /\ (n = 1 \/ 1 \in 1..(n - 1))
            BY <5>2
          <5> QED BY <5>1, <5>3
        <4>3. wire[1] = Disconnected \/ wire[1] \notin LinkReport
          BY <2>1, <4>1, <4>2 DEF Apart
        <4>4. wire[1] # Connected
          BY <4>3, ReportParts DEF LinkReport
        <4>5. w[1] # Connected /\ 1 \in 1..Len(w)
          BY <3>3, <3>4, <4>2, <4>4
        <4> QED BY <3>1, <3>2, <3>6, <4>5 DEF Saying
      <3>8. wire' = <<Connected>>
        BY <3>1, <3>7
      <3>9. unsaid' = {} /\ ring' = <<>>
        BY <3>6 DEF Saying
      <3>10. icon = Dark
        BY <2>1, <3>7 DEF Apart
      <3>11. Linking'
        BY <1>0, <2>1, <3>8, <3>9, <3>10 DEF Linking, Apart
      <3> QED BY <1>0, <3>1, <3>11 DEF Calm
    <2>4. CASE Stop
      <3>1. linked' = FALSE /\ wire' = wire /\ linked = FALSE
        BY <1>0, <1>2, <2>4 DEF Stop, StreamTypes
      <3> QED BY <2>2, <3>1
    <2>5. ~Forward
      BY <1>2 DEF Forward
    <2> QED BY <2>2, <2>3, <2>4, <2>5
      DEF DaemonSteps, SetState, ParkHold, ResolveHold, TakeHold, Announce, Render, Start
  <1> QED BY <1>1, <1>2

LEMMA AppletTyped ==
  ASSUME StreamTypes, StreamHolds, AppletTypes,
         Update \/ SetPaused \/ (\E r \in {"status", "toggle"} : AppletAnswers(r)) \/ (\E r \in replies : Reply(r))
  PROVE  StreamTypes' /\ StreamHolds' /\ AppletTypes'
  <1>0. /\ daemon \in [up : BOOLEAN, before : Nat, state : State, holds : SUBSET Nat,
                       paused : BOOLEAN, rendering : BOOLEAN]
        /\ wire \in Seq(Report) /\ icon \in Icon /\ requests \subseteq {"status", "toggle"}
        /\ replies \subseteq AppletReply /\ parked \in Nat /\ daemon.holds \subseteq 1..parked
    <2>1. parked \in Nat /\ daemon.before \in Nat /\ daemon.holds \subseteq (daemon.before + 1)..parked
      BY StreamBounds DEF StreamTypes, StreamHolds
    <2>2. \A x \in (daemon.before + 1)..parked : x \in 1..parked
      BY <2>1
    <2> QED BY <2>1, <2>2 DEF StreamTypes, AppletTypes
  <1>1. CASE Update
    <2>1. /\ wire # <<>> /\ icon' = TakeEvent(Head(wire)) /\ wire' = Tail(wire)
          /\ requests' \in {requests, requests \cup {"status"}}
          /\ UNCHANGED <<daemon, unsaid, ring, linked, parked, replies>>
      BY <1>1 DEF Update
    <2>2. PICK e \in Report : e = Head(wire)
      BY <1>0, <2>1, TailOf
    <2>3. Dark \in Icon
      BY StreamBounds DEF Dark, Icon
    <2>4. TakeEvent(e) \in Icon
      <3>1. e.kind \in {"state", "held", "resolved", "render", "connected", "disconnected"}
        BY ReportParts
      <3>2. e.kind = "state" => e.state \in State
        BY DEF Report, Connected, Disconnected
      <3>3. (IF icon.holds = 0 THEN 0 ELSE icon.holds - 1) \in Nat /\ icon.holds + 1 \in Nat
        BY <1>0 DEF Icon
      <3>4. PICK n \in Nat : n = (IF icon.holds = 0 THEN 0 ELSE icon.holds - 1)
        BY <3>3
      <3>5. PICK m \in Nat : m = icon.holds + 1
        BY <3>3
      <3>6. e.kind = "connected" => TakeEvent(e) = [icon EXCEPT !.connected = TRUE]
        BY DEF TakeEvent
      <3>7. e.kind = "disconnected" => TakeEvent(e) = Dark
        BY DEF TakeEvent
      <3>8. e.kind = "state" => TakeEvent(e) = [icon EXCEPT !.state = e.state]
        BY DEF TakeEvent
      <3>9. e.kind = "held" => TakeEvent(e) = [icon EXCEPT !.holds = m]
        BY <3>5 DEF TakeEvent
      <3>10. e.kind = "resolved" => TakeEvent(e) = [icon EXCEPT !.holds = n]
        BY <3>4 DEF TakeEvent
      <3>11. e.kind = "render" => TakeEvent(e) = icon
        BY DEF TakeEvent
      <3> QED BY <1>0, <2>3, <3>1, <3>2, <3>6, <3>7, <3>8, <3>9, <3>10, <3>11 DEF Icon
    <2>5. wire' \in Seq(Report)
      BY <1>0, <2>1, TailOf
    <2>6. StreamTypes' /\ StreamHolds'
      BY <2>1, <2>5, StreamTaken
    <2> QED BY <1>0, <2>1, <2>2, <2>4, <2>6 DEF AppletTypes
  <1>2. CASE SetPaused
    <2>1. UNCHANGED streamVars /\ icon' = icon /\ replies' = replies /\ requests' = requests \cup {"toggle"}
      BY <1>2 DEF SetPaused
    <2> QED BY <1>0, <2>1, StreamStays DEF AppletTypes
  <1>3. ASSUME NEW r \in {"status", "toggle"}, AppletAnswers(r)
        PROVE  StreamTypes' /\ StreamHolds' /\ AppletTypes'
    <2>1. /\ requests' = requests \ {r} /\ UNCHANGED <<unsaid, ring, wire, linked, parked, icon>>
          /\ \/ daemon' = daemon /\ replies' = replies
             \/ daemon' = daemon /\ replies' = replies \cup {[to |-> "status", status |-> StatusNow]}
             \/ /\ daemon' = [daemon EXCEPT !.paused = ~@]
                /\ replies' = replies \cup {[to |-> "toggle", paused |-> ~daemon.paused]}
      BY <1>3 DEF AppletAnswers
    <2>2. daemon' = daemon \/ \E b \in BOOLEAN : daemon' = [daemon EXCEPT !.paused = b]
      BY <1>0, <2>1
    <2>3. StreamTypes' /\ StreamHolds'
      BY <1>0, <2>1, <2>2, StreamTaken
    <2>4. StatusNow \in Status /\ IsFiniteSet(StatusNow.holds)
      <3>1. IsFiniteSet(daemon.holds)
        BY <1>0, FiniteUpTo
      <3> QED BY <1>0, <3>1 DEF StatusNow, Status
    <2>5. /\ [to |-> "status", status |-> StatusNow] \in AppletReply
          /\ [to |-> "toggle", paused |-> ~daemon.paused] \in AppletReply
      BY <1>0, <2>4 DEF AppletReply
    <2>6. replies' \subseteq AppletReply
      BY <1>0, <2>1, <2>5
    <2> QED BY <1>0, <2>1, <2>3, <2>6 DEF AppletTypes
  <1>4. ASSUME NEW r \in replies, Reply(r) PROVE StreamTypes' /\ StreamHolds' /\ AppletTypes'
    <2>1. UNCHANGED streamVars /\ requests' = requests /\ replies' = replies \ {r}
      BY <1>4 DEF Reply
    <2>2. icon' \in Icon
      <3>1. CASE r.to = "status"
        <4>1. r.status \in Status /\ IsFiniteSet(r.status.holds)
          BY <1>0, <3>1 DEF AppletReply
        <4>2. PICK n \in Nat : n = Cardinality(r.status.holds)
          BY <4>1, FS_CardinalityType
        <4>3. icon' = [icon EXCEPT !.state = r.status.state, !.paused = r.status.paused, !.holds = n]
          BY <1>4, <3>1, <4>2 DEF Reply
        <4> QED BY <1>0, <4>1, <4>3 DEF Icon, Status
      <3>2. CASE r.to # "status"
        <4>1. r.paused \in BOOLEAN
          BY <1>0, <3>2 DEF AppletReply
        <4>2. icon' = [icon EXCEPT !.paused = r.paused]
          BY <1>4, <3>2 DEF Reply
        <4> QED BY <1>0, <4>1, <4>2 DEF Icon
      <3> QED BY <3>1, <3>2
    <2> QED BY <1>0, <2>1, <2>2, StreamStays DEF AppletTypes
  <1> QED BY <1>1, <1>2, <1>3, <1>4

\* The reports that the applet takes bring it what they say.
LEMMA ComesTaken ==
  ASSUME StreamTypes, StreamHolds, AppletTypes, Comes, wire # <<>>, Head(wire) \notin LinkReport,
         Update
  PROVE  Comes' /\ icon'.connected = icon.connected
  <1>0. /\ unsaid \in SUBSET OfHold /\ ring \in Seq(Report) /\ wire \in Seq(Report)
        /\ parked \in Nat /\ icon \in Icon
    BY StreamBounds DEF StreamTypes, AppletTypes
  <1>1. /\ icon' = TakeEvent(Head(wire)) /\ wire' = Tail(wire)
        /\ UNCHANGED <<daemon, unsaid, ring, linked, parked>>
    BY DEF Update
  <1>2. PICK e \in Report : e = Head(wire) /\ e = wire[1]
    BY <1>0, TailOf
  <1>3. PICK F \in Seq(Report) : F = wire \o ring
    BY <1>0, <1>2, Pipes
  <1>4. F # <<>> /\ F[1] = e /\ wire' \o ring' = Tail(F)
    <2>1. Tail(wire) \o ring = Tail(wire \o ring) /\ wire \o ring # <<>> /\ (wire \o ring)[1] = wire[1]
      BY <1>0, <1>2, Pipes
    <2> QED BY <1>1, <1>2, <1>3, <2>1
  <1>5. ComesTo(icon.state, icon.holds, daemon.state, daemon.holds, F, unsaid, parked)
    BY <1>3 DEF Comes
  <1>6. ComesTo(IF e.kind = "state" THEN e.state ELSE icon.state,
                IF e.kind = "held" THEN icon.holds + 1
                ELSE IF e.kind = "resolved" THEN (IF icon.holds = 0 THEN 0 ELSE icon.holds - 1)
                ELSE icon.holds,
                daemon.state, daemon.holds, Tail(F), unsaid, parked)
    BY <1>0, <1>2, <1>4, <1>5, ComesToTold
  <1>7. e.kind \in {"state", "held", "resolved", "render"}
    <2>1. e \notin LinkReport
      BY <1>2
    <2> QED BY <2>1 DEF Report, LinkReport
  <1>8. /\ TakeEvent(e).state = (IF e.kind = "state" THEN e.state ELSE icon.state)
        /\ TakeEvent(e).holds = (IF e.kind = "held" THEN icon.holds + 1
                ELSE IF e.kind = "resolved" THEN (IF icon.holds = 0 THEN 0 ELSE icon.holds - 1)
                ELSE icon.holds)
        /\ TakeEvent(e).connected = icon.connected
    <2> DEFINE n == IF icon.holds = 0 THEN 0 ELSE icon.holds - 1
               m == icon.holds + 1
    <2>1. e.kind = "state" => TakeEvent(e) = [icon EXCEPT !.state = e.state]
      BY DEF TakeEvent
    <2>2. e.kind = "held" => TakeEvent(e) = [icon EXCEPT !.holds = m]
      BY DEF TakeEvent
    <2>3. e.kind = "resolved" => TakeEvent(e) = [icon EXCEPT !.holds = n]
      BY DEF TakeEvent
    <2>4. e.kind = "render" => TakeEvent(e) = icon
      BY DEF TakeEvent
    <2> HIDE DEF n, m
    <2>5. /\ TakeEvent(e).state = (IF e.kind = "state" THEN e.state ELSE icon.state)
          /\ TakeEvent(e).holds = (IF e.kind = "held" THEN m
                  ELSE IF e.kind = "resolved" THEN n ELSE icon.holds)
          /\ TakeEvent(e).connected = icon.connected
      BY <1>0, <1>7, <2>1, <2>2, <2>3, <2>4 DEF Icon
    <2> QED BY <2>5 DEF n, m
  <1>9. icon' = TakeEvent(e)
    BY <1>1, <1>2
  <1>10. ComesTo(icon'.state, icon'.holds, daemon.state, daemon.holds, Tail(F), unsaid, parked)
    BY <1>6, <1>8, <1>9
  <1> QED BY <1>1, <1>4, <1>8, <1>9, <1>10 DEF Comes

LEMMA CalmUpdate == ASSUME AppletInv, Clear, Update PROVE Calm'
  <1>0. /\ StreamTypes /\ StreamHolds /\ AppletTypes /\ Calm /\ wire \in Seq(Report)
        /\ Len(wire) \in Nat /\ ~(Asking /\ Saying)' /\ linked' = linked
        /\ wire # <<>> /\ icon' = TakeEvent(Head(wire)) /\ wire' = Tail(wire) /\ replies' = replies
        /\ (Head(wire) = Connected => requests' = requests \cup {"status"})
        /\ (Head(wire) # Connected => requests' = requests)
        /\ unsaid' = unsaid /\ ring' = ring /\ daemon' = daemon /\ parked' = parked
    BY DEF AppletInv, Clear, StreamTypes, Update
  <1>1. PICK w \in Seq(Report) : w = Tail(wire)
    BY <1>0, TailOf
  <1>2. /\ Len(w) = Len(wire) - 1 /\ Len(wire) >= 1 /\ Head(wire) = wire[1]
        /\ \A i \in 1..Len(w) : w[i] = wire[i + 1] /\ i + 1 \in 1..Len(wire)
        /\ 1 \in 1..Len(wire)
    BY <1>0, <1>1, TailOf, TakenFrom
  <1>3. CASE ~linked
    <2>1. /\ requests = {} /\ replies = {} /\ wire[Len(wire)] = Disconnected
          /\ \A i \in 1..(Len(wire) - 1) : wire[i] \notin LinkReport
      BY <1>0, <1>3 DEF Calm, Apart
    <2>2. CASE Len(wire) = 1
      <3>1. Head(wire) = Disconnected /\ Disconnected # Connected
        BY <1>2, <2>1, <2>2, ReportParts
      <3>2. icon' = Dark
        BY <1>0, <3>1 DEF TakeEvent, Disconnected
      <3>3. wire' = <<>>
        BY <1>0, <1>1, <1>2, <2>2
      <3> QED BY <1>0, <1>3, <2>1, <3>1, <3>2, <3>3 DEF Calm, Apart
    <2>3. CASE Len(wire) # 1
      <3>0. PICK n \in Nat : n = Len(wire)
        BY <1>0
      <3>1. 1 \in 1..(n - 1) /\ n - 1 \in Nat /\ n - 1 # 0 /\ n - 1 \in 1..(n - 1) /\ (n - 1) + 1 = n
            /\ \A i \in 1..((n - 1) - 1) : i + 1 \in 1..(n - 1) /\ i \in 1..(n - 1)
        BY <1>2, <2>3, <3>0
      <3>2. Head(wire) \notin LinkReport
        BY <1>2, <2>1, <3>0, <3>1
      <3>3. requests' = requests
        BY <1>0, <3>2 DEF LinkReport
      <3>4. Len(w) = n - 1 /\ w # <<>>
        BY <1>2, <3>0, <3>1
      <3>5. w[Len(w)] = Disconnected
        BY <1>2, <2>1, <3>0, <3>1, <3>4
      <3>6. \A i \in 1..(Len(w) - 1) : w[i] \notin LinkReport
        BY <1>2, <2>1, <3>0, <3>1, <3>4
      <3>7. wire' = w
        BY <1>0, <1>1
      <3>8. Apart'
        BY <1>0, <2>1, <3>3, <3>4, <3>5, <3>6, <3>7 DEF Apart
      <3> QED BY <1>0, <1>3, <3>8 DEF Calm
    <2> QED BY <2>2, <2>3
  <1>4. CASE linked /\ Linking
    <2>1. Head(wire) = Connected /\ wire' = <<>> /\ replies = {} /\ icon = Dark
      BY <1>0, <1>4 DEF Linking
    <2>2. icon' = [icon EXCEPT !.connected = TRUE]
      BY <1>0, <2>1 DEF TakeEvent, Connected
    <2>3. icon'.connected
      BY <2>1, <2>2 DEF Dark
    <2>4. "status" \in requests' /\ StatusReplies' = {}
      BY <1>0, <2>1 DEF StatusReplies
    <2>5. \A i \in 1..Len(wire') : wire'[i] \notin LinkReport
      <3>1. \A i \in 1..Len(<<>>) : FALSE
        OBVIOUS
      <3> QED BY <2>1, <3>1
    <2> QED BY <1>0, <1>4, <2>3, <2>4, <2>5 DEF Calm, Following
  <1>5. CASE linked /\ ~Linking
    <2>1. Following /\ wire[1] \notin LinkReport
      BY <1>0, <1>2, <1>5 DEF Calm, Following
    <2>2. wire[1] # Connected
      BY <2>1 DEF LinkReport
    <2>3. ~Asking
      BY <1>0, <1>2, <2>2 DEF Calm, Saying
    <2>4. requests = {} /\ replies = {}
      BY <2>3 DEF Asking
    <2>5. Comes /\ icon.connected
      BY <2>1, <2>4 DEF Following, StatusReplies
    <2>6. Comes' /\ icon'.connected = icon.connected
      BY <1>0, <1>2, <2>1, <2>5, ComesTaken
    <2>7. \A i \in 1..Len(wire') : wire'[i] \notin LinkReport
      BY <1>0, <1>1, <1>2, <2>1 DEF Following
    <2>8. "status" \notin requests' /\ StatusReplies' = {}
      BY <1>0, <1>2, <2>2, <2>4 DEF StatusReplies
    <2> QED BY <1>0, <1>5, <2>5, <2>6, <2>7, <2>8 DEF Calm, Following
  <1> QED BY <1>3, <1>4, <1>5

\* A click, and what comes of it.
LEMMA CalmClick == ASSUME AppletInv, Clear, SetPaused PROVE Calm'
  <1>0. /\ Calm /\ ~(Asking /\ Saying)' /\ wire \in Seq(Report) /\ Len(wire) \in Nat
        /\ icon.connected /\ icon' = icon /\ replies' = replies /\ requests' = requests \cup {"toggle"}
        /\ UNCHANGED <<daemon, unsaid, ring, wire, linked, parked>>
    BY DEF AppletInv, Clear, StreamTypes, SetPaused, streamVars
  <1>1. ~(icon = Dark)
    BY <1>0 DEF Dark
  <1>2. CASE ~linked
    <2>1. wire # <<>> /\ wire[Len(wire)] = Disconnected
      BY <1>0, <1>1, <1>2 DEF Calm, Apart
    <2>2. Len(wire) \in 1..Len(wire) /\ Disconnected # Connected
      BY <1>0, <2>1, ReportParts
    <2>3. Saying'
      BY <1>0, <2>1, <2>2 DEF Saying
    <2>4. Asking'
      BY <1>0 DEF Asking
    <2> QED BY <1>0, <2>3, <2>4
  <1>3. CASE linked
    <2>1. Following
      BY <1>0, <1>1, <1>3 DEF Calm, Linking
    <2>2. Comes' <=> Comes
      BY <1>0 DEF Comes
    <2>3. Following'
      BY <1>0, <2>1, <2>2 DEF Following, StatusReplies
    <2> QED BY <1>0, <1>3, <2>3 DEF Calm
  <1> QED BY <1>2, <1>3

LEMMA CalmAnswer ==
  ASSUME AppletInv, Clear, NEW r \in {"status", "toggle"}, AppletAnswers(r)
  PROVE  Calm'
  <1>0. /\ Calm /\ ~(Asking /\ Saying)' /\ StreamHolds /\ StreamTypes
        /\ r \in requests /\ requests' = requests \ {r} /\ icon' = icon
        /\ UNCHANGED <<unsaid, ring, wire, linked, parked>>
    BY DEF AppletInv, Clear, AppletAnswers
  <1>1. linked /\ Following
    BY <1>0 DEF Calm, Apart, Linking
  <1>2. daemon.up
    BY <1>0, <1>1 DEF StreamHolds
  <1>3. CASE r = "status"
    <2>1. /\ daemon' = daemon /\ replies' = replies \cup {[to |-> "status", status |-> StatusNow]}
          /\ StatusReplies = {}
      BY <1>0, <1>1, <1>2, <1>3 DEF AppletAnswers, Following
    <2>2. StatusReplies' = {[to |-> "status", status |-> StatusNow]}
      BY <2>1 DEF StatusReplies
    <2>3. \A x \in StatusReplies' : x.status.state = daemon'.state /\ x.status.holds = daemon'.holds
      BY <2>1, <2>2 DEF StatusNow
    <2>4. "status" \notin requests' /\ StatusReplies' # {}
      BY <1>0, <1>3, <2>2
    <2>5. Following'
      BY <1>0, <1>1, <2>3, <2>4 DEF Following
    <2> QED BY <1>0, <1>1, <2>5 DEF Calm
  <1>4. CASE r = "toggle"
    <2>1. /\ daemon' = [daemon EXCEPT !.paused = ~@]
          /\ replies' = replies \cup {[to |-> "toggle", paused |-> ~daemon.paused]}
      BY <1>2, <1>4 DEF AppletAnswers
    <2>2. daemon'.state = daemon.state /\ daemon'.holds = daemon.holds
      BY <1>0, <2>1 DEF StreamTypes
    <2>3. StatusReplies' = StatusReplies
      <3>1. PICK x : x = [to |-> "toggle", paused |-> ~daemon.paused]
        OBVIOUS
      <3>2. x.to # "status"
        BY <3>1
      <3>3. replies' = replies \cup {x}
        BY <2>1, <3>1
      <3> QED BY <3>2, <3>3 DEF StatusReplies
    <2>4. Comes' <=> Comes
      BY <1>0, <2>2 DEF Comes
    <2>5. "status" \in requests' <=> "status" \in requests
      BY <1>0, <1>4
    <2>6. Following'
      BY <1>0, <1>1, <2>2, <2>3, <2>4, <2>5 DEF Following
    <2> QED BY <1>0, <1>1, <2>6 DEF Calm
  <1> QED BY <1>3, <1>4

\* The applet takes an answer: with the last status nothing more is to be told.
LEMMA CalmReply ==
  ASSUME AppletInv, Clear, NEW r \in replies, Reply(r)
  PROVE  Calm'
  <1>0. /\ Calm /\ ~(Asking /\ Saying)' /\ StreamHolds /\ StreamTypes /\ icon \in Icon
        /\ wire \in Seq(Report) /\ ring \in Seq(Report)
        /\ replies' = replies \ {r} /\ requests' = requests
        /\ UNCHANGED <<daemon, unsaid, ring, wire, linked, parked>>
    BY DEF AppletInv, AppletTypes, Clear, Reply, streamVars, StreamTypes
  <1>1. linked /\ Following
    BY <1>0 DEF Calm, Apart, Linking
  <1>2. icon'.connected = icon.connected
    BY <1>0 DEF Reply, Icon
  <1>3. CASE r.to = "status"
    <2>1. /\ "status" \notin requests
          /\ \A x \in StatusReplies : x.status.state = daemon.state /\ x.status.holds = daemon.holds
          /\ r \in StatusReplies
      BY <1>1, <1>3 DEF Following, StatusReplies
    <2>2. StatusReplies' = StatusReplies \ {r}
      BY <1>0 DEF StatusReplies
    <2>3. CASE StatusReplies' # {}
      BY <1>0, <1>1, <1>2, <2>1, <2>2, <2>3 DEF Following, Calm
    <2>4. CASE StatusReplies' = {}
      <3>1. ~Saying
        BY <1>0 DEF Calm, Asking
      <3>2. \A i \in 1..Len(wire) : FALSE
        BY <1>1, <3>1 DEF Saying, Following, LinkReport
      <3>3. wire = <<>> /\ ring = <<>> /\ unsaid = {}
        <4>1. wire = <<>>
          <5>1. wire # <<>> => 1 \in 1..Len(wire)
            BY <1>0, TakenFrom
          <5> QED BY <3>2, <5>1
        <4> QED BY <3>1, <4>1 DEF Saying
      <3>4. /\ icon'.state = daemon.state /\ icon'.holds = Cardinality(daemon.holds)
        <4>1. r.status.state = daemon.state /\ r.status.holds = daemon.holds
          BY <2>1
        <4> QED BY <1>0, <1>3, <4>1 DEF Reply, Icon
      <3>5. daemon.holds \in SUBSET (1..parked)
        <4>1. parked \in Nat /\ daemon.before \in Nat /\ daemon.holds \subseteq (daemon.before + 1)..parked
          BY <1>0, StreamBounds DEF StreamTypes, StreamHolds
        <4>2. \A x \in (daemon.before + 1)..parked : x \in 1..parked
          BY <4>1
        <4> QED BY <4>1, <4>2
      <3>6. ComesTo(daemon.state, Cardinality(daemon.holds), daemon.state, daemon.holds, <<>>, {}, parked)
        BY <3>5, ComesToNow
      <3>7. wire' \o ring' = <<>>
        BY <1>0, <3>3
      <3>8. Comes'
        BY <1>0, <3>3, <3>4, <3>6, <3>7 DEF Comes
      <3>9. Following'
        BY <1>0, <1>1, <1>2, <2>1, <2>4, <3>8 DEF Following
      <3> QED BY <1>0, <1>1, <3>9 DEF Calm
    <2> QED BY <2>3, <2>4
  <1>4. CASE r.to # "status"
    <2>1. icon'.state = icon.state /\ icon'.holds = icon.holds
      BY <1>0, <1>4 DEF Reply, Icon
    <2>2. StatusReplies' = StatusReplies
      BY <1>0, <1>4 DEF StatusReplies
    <2>3. Comes' <=> Comes
      BY <1>0, <2>1 DEF Comes
    <2>4. Following'
      BY <1>0, <1>1, <1>2, <2>2, <2>3 DEF Following
    <2> QED BY <1>0, <1>1, <2>4 DEF Calm
  <1> QED BY <1>3, <1>4

LEMMA AppletInitial == AppletInit => AppletInv
  <1> SUFFICES ASSUME AppletInit PROVE AppletInv
    OBVIOUS
  <1>1. /\ StreamTypes /\ StreamHolds /\ wire = <<>> /\ ring = <<>> /\ unsaid = {} /\ linked = FALSE
        /\ icon = Dark /\ requests = {} /\ replies = {}
    BY StreamInitial DEF AppletInit, StreamInit
  <1>2. AppletTypes
    BY <1>1, StreamBounds DEF AppletTypes, Dark, Icon
  <1>3. Apart /\ ~Saying
    BY <1>1 DEF Apart, Saying
  <1> QED BY <1>1, <1>2, <1>3 DEF AppletInv, Calm

LEMMA AppletStep == ASSUME AppletInv, [AppletNext]_appletVars PROVE AppletInv'
  <1>0. StreamTypes /\ StreamHolds /\ AppletTypes
    BY DEF AppletInv
  <1>1. CASE UNCHANGED appletVars
    <2>1. UNCHANGED <<streamVars, icon, requests, replies, muddled>>
      BY <1>1 DEF appletVars, appletFace
    <2>2. StreamTypes' /\ StreamHolds'
      BY <1>0, <2>1, StreamStays
    <2>3. AppletTypes' /\ (Comes' <=> Comes) /\ StatusReplies' = StatusReplies
      BY <1>0, <2>1 DEF AppletTypes, Comes, StatusReplies, streamVars
    <2>4. Calm => Calm'
      BY <2>1, <2>3 DEF Calm, Apart, Linking, Following, Asking, Saying, streamVars
    <2> QED BY <2>1, <2>2, <2>3, <2>4 DEF AppletInv
  <1>2. CASE AppletNext
    <2>1. StreamTypes' /\ StreamHolds' /\ AppletTypes'
      <3>1. CASE DaemonSteps /\ UNCHANGED appletFace
        BY <1>0, <3>1, StreamStep DEF AppletTypes, appletFace
      <3> QED BY <1>0, <1>2, <3>1, AppletTyped DEF AppletNext
    <2>2. ASSUME ~muddled' PROVE Calm'
      <3>1. Clear
        BY <1>2, <2>2 DEF AppletNext, Clear
      <3> QED BY <1>2, <3>1, CalmDaemon, CalmUpdate, CalmClick, CalmAnswer, CalmReply DEF AppletNext
    <2> QED BY <2>1, <2>2 DEF AppletInv
  <1> QED BY <1>1, <1>2

LEMMA AppletFollows == AppletInv => IconFollows
  <1> SUFFICES ASSUME AppletInv, icon.connected, Quiet, ~muddled
               PROVE  icon.holds = Cardinality(daemon.holds) /\ icon.state = daemon.state
    BY DEF IconFollows
  <1>0. /\ Calm /\ StreamHolds /\ StreamTypes /\ wire \in Seq(Report) /\ ~Asking /\ ~Saying
    BY DEF AppletInv, StreamTypes, Quiet
  <1>1. requests = {} /\ replies = {} /\ unsaid = {} /\ ring = <<>> /\ wire = <<>>
    <2>1. wire # <<>> => 1 \in 1..Len(wire)
      BY <1>0, TakenFrom
    <2> QED BY <1>0, <2>1 DEF Asking, Saying
  <1>2. Following
    <2>1. ~(icon = Dark)
      BY DEF Dark
    <2> QED BY <1>0, <1>1, <2>1 DEF Calm, Apart, Linking
  <1>3. ComesTo(icon.state, icon.holds, daemon.state, daemon.holds, <<>>, {}, parked)
    <2>1. <<>> \o <<>> = <<>>
      OBVIOUS
    <2> QED BY <1>1, <1>2, <2>1 DEF Following, StatusReplies, Comes
  <1>4. daemon.holds \in SUBSET (1..parked)
    <2>1. parked \in Nat /\ daemon.before \in Nat /\ daemon.holds \subseteq (daemon.before + 1)..parked
      BY <1>0, StreamBounds DEF StreamTypes, StreamHolds
    <2>2. \A x \in (daemon.before + 1)..parked : x \in 1..parked
      BY <2>1
    <2> QED BY <2>1, <2>2
  <1> QED BY <1>3, <1>4, ComesToNow

\* While its part runs, a face has its invariant; while another does, it is at rest.
FacesInv ==
  /\ part = "overlay" => OverlayInv
  /\ part = "applet" => AppletInv
  /\ part # "overlay" => ~view.connected
  /\ part # "applet" => ~icon.connected

\* FacesFollow: the icon ends up with the daemon's state and the number of calls that
\* wait, unless a report was skipped or overtook another or a status; and the overlay,
\* whatever was, shows no call of a daemon that is gone once the loss is taken
\* (cosmo-applet main.rs, cosmo-overlay view.rs).
THEOREM FacesShowWhatWaits == ServicesSpec => []FacesFollow
  <1>1. ServicesInit => FacesInv
    <2> SUFFICES ASSUME ServicesInit PROVE FacesInv
      OBVIOUS
    <2>1. OverlayInv /\ AppletInv
      BY OverlayInitial, AppletInitial DEF ServicesInit
    <2>2. ~view.connected /\ ~icon.connected
      BY DEF ServicesInit, OverlayInit, AppletInit, Blank, Dark
    <2> QED BY <2>1, <2>2 DEF FacesInv
  <1>2. FacesInv /\ [ServicesNext]_servicesVars => FacesInv'
    <2> SUFFICES ASSUME FacesInv, [ServicesNext]_servicesVars PROVE FacesInv'
      OBVIOUS
    <2>1. part' = part
      BY DEF ServicesNext, servicesVars
    <2>2. CASE part = "overlay"
      <3>1. [OverlayNext]_overlayVars /\ UNCHANGED icon
        BY <2>2 DEF ServicesNext, servicesVars, appletFace
      <3> QED BY <2>1, <2>2, <3>1, OverlayStep DEF FacesInv
    <2>3. CASE part = "applet"
      <3>1. [AppletNext]_appletVars /\ UNCHANGED view
        BY <2>3 DEF ServicesNext, servicesVars, faceVars, appletVars, overlayVars
      <3> QED BY <2>1, <2>3, <3>1, AppletStep DEF FacesInv
    <2>4. CASE part \notin {"overlay", "applet"}
      <3>1. UNCHANGED <<view, icon>>
        BY <2>4 DEF ServicesNext, servicesVars, faceVars, overlayVars, appletFace
      <3> QED BY <2>1, <2>4, <3>1 DEF FacesInv
    <2> QED BY <2>2, <2>3, <2>4
  <1>3. FacesInv => FacesFollow
    <2>1. ~view.connected => OldHoldsGoAway
      BY DEF OldHoldsGoAway
    <2>2. ~icon.connected => IconFollows
      BY DEF IconFollows
    <2> QED BY <2>1, <2>2, OverlayShowsOwn, AppletFollows DEF FacesInv, FacesFollow
  <1> QED BY <1>1, <1>2, <1>3, PTL DEF ServicesSpec
=============================================================================
