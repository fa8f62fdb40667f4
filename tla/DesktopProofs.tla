---------------------------- MODULE DesktopProofs ----------------------------
(***************************************************************************)
(* Theorems about what acts on the desktop, for any number of callers,     *)
(* tools, agent processes, windows, connections and texts: the tool host   *)
(* obeys the agent's hints and respawns a dead agent once (ToolHost), a    *)
(* window verb is not written twice to a connection (Windows), a client    *)
(* reads what was typed (Typing), and an application gets the arguments    *)
(* its entry means (Launching).                                            *)
(***************************************************************************)
EXTENDS ToolHost, Windows, Typing, Launching, Induction, FiniteSetTheorems, SequenceTheorems, TLAPS

-----------------------------------------------------------------------------
(* The tool host *)

Called == [at : {"held", "run", "spawn", "clone", "call"}, tool : HostAsked,
           confirmed : BOOLEAN, process : Nat]

HostTypeOK ==
  /\ hostDesktop \in BOOLEAN /\ hints \in [AgentTool -> Hint] /\ allowlist \in SUBSET AgentTool
  /\ slot \in Nat
  /\ host \in [HostCaller -> {Idle} \cup Called]

\* What is registered was listed, allowed and not run_shell, and carries the
\* agent's hint; nobody calls before the host is attached.
Registered ==
  /\ DOMAIN agentTools \subseteq allowlist \ {"run_shell"}
  /\ \A t \in DOMAIN agentTools : agentTools[t] = Declared(hints[t])
  /\ connected => slot > 0
  /\ ~connected => \A c \in HostCaller : host[c] = Idle

\* The tools the gate lets through by their text or by their name.
ByName == StringBearing \cup {"clipboard_set"}

\* A call waits for confirmation or is one the gate allows, and it is routed
\* to the agent before it asks for the agent's connection.
Judged ==
  \A c \in HostCaller : host[c].at # "idle" =>
    /\ host[c].confirmed \/ ~Destructive(host[c].tool) \/ host[c].tool \in ByName
    /\ host[c].at \in {"spawn", "clone"} =>
         RouteOf(host[c].tool) = "agent" /\ host[c].tool \in DOMAIN agentTools

\* Who is between the lock and the call has the slot's mutex.
Guarded == \A c \in HostCaller : host[c].at \in {"spawn", "clone"} => slotOwner = {c}

\* Calls and their failures are of processes there have been; when the last one
\* failed the flag is up.
Flagged ==
  /\ \A c \in HostCaller : host[c].at = "call" => host[c].process <= slot
  /\ \A p \in failed : p \in Nat /\ p <= slot
  /\ slot \in failed => broken

HostInv == HostTypeOK /\ Registered /\ Judged /\ Guarded /\ Flagged /\ HintsAreObeyed

LEMMA HostInvSafe == HostInv => HostSafe
  BY DEF HostInv, HostSafe, DeadAgentIsReplaced, Guarded, Flagged

\* The other calls do not notice a step of one.
LEMMA CallMoves ==
  ASSUME HostTypeOK, NEW c \in HostCaller, NEW h \in {Idle} \cup Called,
         host' = [host EXCEPT ![c] = h]
  PROVE  /\ host' \in [HostCaller -> {Idle} \cup Called]
         /\ host'[c] = h
         /\ \A d \in HostCaller : d # c => host'[d] = host[d]
  BY DEF HostTypeOK

LEMMA CallGoes ==
  ASSUME HostTypeOK, NEW c \in HostCaller, host[c].at # "idle",
         NEW where \in {"held", "run", "spawn", "clone", "call"}, GoTo(c, where)
  PROVE  /\ host' \in [HostCaller -> {Idle} \cup Called]
         /\ host'[c].at = where /\ host'[c].tool = host[c].tool
         /\ host'[c].confirmed = host[c].confirmed /\ host'[c].process = host[c].process
         /\ \A d \in HostCaller : d # c => host'[d] = host[d]
  <1>1. host[c] \in Called
    BY DEF HostTypeOK, Idle
  <1>2. [host[c] EXCEPT !.at = where] \in Called
    BY <1>1 DEF Called
  <1>3. host' = [host EXCEPT ![c] = [host[c] EXCEPT !.at = where]]
    BY DEF GoTo
  <1> QED
    BY <1>1, <1>2, <1>3, CallMoves DEF Called

\* The gate's verdict: what it allows is harmless or was read.
LEMMA AllowedIsHarmless ==
  ASSUME NEW t, NEW unlocked \in BOOLEAN, NEW v \in VerdictsByName(t, unlocked), v = "allow"
  PROVE  ~Destructive(t) \/ t \in ByName
  BY DEF VerdictsByName, ByName, StringBearing

LEMMA HostInitial == HostInit => HostInv
  BY DEF HostInit, HostInv, HostTypeOK, Registered, Judged, Guarded, Flagged, HintsAreObeyed, Idle

\* A call that ends leaves the others and the agent as they are.
LEMMA CallEnds ==
  ASSUME HostInv, NEW c \in HostCaller, EndCall(c), Frame, slot' = slot, ran' = ran,
         connected,
         \A d \in HostCaller : d # c /\ host[d].at \in {"spawn", "clone"} => slotOwner' = {d},
         failed' = failed \/ (failed' = failed \cup {host[c].process} /\ At(c, "call")),
         slot \in failed' => broken'
  PROVE  HostInv'
  <1>1. Idle \in {Idle} \cup Called /\ Idle.at = "idle"
    BY DEF Idle
  <1>2. /\ host' \in [HostCaller -> {Idle} \cup Called]
        /\ host'[c] = Idle
        /\ \A d \in HostCaller : d # c => host'[d] = host[d]
    BY <1>1, CallMoves DEF HostInv, EndCall
  <1>3. HostTypeOK'
    BY <1>2 DEF HostInv, HostTypeOK, Frame, hostConfig
  <1>4. Registered'
    BY <1>2 DEF HostInv, Registered, Frame, hostConfig
  <1>5. Judged'
    BY <1>1, <1>2 DEF HostInv, Judged, Frame, hostConfig, Destructive, RouteOf
  <1>6. Guarded'
    BY <1>1, <1>2 DEF HostInv, Guarded
  <1>7. Flagged'
    <2>1. host[c].at = "call" => host[c].process \in Nat /\ host[c].process <= slot
      BY DEF HostInv, HostTypeOK, Flagged, Called, Idle
    <2> QED
      BY <1>1, <1>2, <2>1 DEF HostInv, Flagged, At
  <1>8. HintsAreObeyed'
    BY DEF HostInv, HintsAreObeyed, Frame, hostConfig
  <1> QED
    BY <1>3, <1>4, <1>5, <1>6, <1>7, <1>8 DEF HostInv

LEMMA Connects == HostInv /\ Connect => HostInv'
  <1> SUFFICES ASSUME HostInv, Connect PROVE HostInv'
    OBVIOUS
  <1>1. ~connected /\ \A c \in HostCaller : host[c] = Idle
    BY DEF HostInv, Registered, Connect
  <1>2. HostTypeOK' /\ Guarded' /\ HintsAreObeyed'
    BY <1>1 DEF HostInv, HostTypeOK, Guarded, HintsAreObeyed, Connect, hostConfig, Idle
  <1>3. Registered'
    BY <1>1 DEF HostInv, HostTypeOK, Registered, Connect, hostConfig
  <1>4. Judged'
    BY <1>1 DEF Judged, Connect, Idle
  <1>5. Flagged'
    BY <1>1 DEF HostInv, HostTypeOK, Flagged, Connect, Idle
  <1> QED
    BY <1>2, <1>3, <1>4, <1>5 DEF HostInv

LEMMA AgentGoes == HostInv /\ AgentDies => HostInv'
  BY DEF HostInv, HostTypeOK, Registered, Judged, Guarded, Flagged, HintsAreObeyed, AgentDies,
     hostConfig, Destructive, RouteOf

LEMMA Asks ==
  ASSUME HostInv, NEW c \in HostCaller, AskTool(c)
  PROVE  HostInv'
  <1>1. PICK t \in HostAsked, unlocked \in BOOLEAN :
          \E v \in VerdictsByName(t, unlocked) :
            host' = [host EXCEPT ![c] =
              IF v = "deny" THEN Idle
              ELSE [at |-> IF v = "hold" THEN "held" ELSE "run", tool |-> t,
                    confirmed |-> v = "hold", process |-> 0]]
    BY DEF AskTool
  <1>2. PICK v \in VerdictsByName(t, unlocked) :
          host' = [host EXCEPT ![c] =
            IF v = "deny" THEN Idle
            ELSE [at |-> IF v = "hold" THEN "held" ELSE "run", tool |-> t,
                  confirmed |-> v = "hold", process |-> 0]]
    BY <1>1
  <1>3. v \in {"allow", "hold", "deny"}
    BY DEF VerdictsByName
  <1> DEFINE h == IF v = "deny" THEN Idle
                  ELSE [at |-> IF v = "hold" THEN "held" ELSE "run", tool |-> t,
                        confirmed |-> v = "hold", process |-> 0]
  <1>4. h \in {Idle} \cup Called
    BY <1>3 DEF Called
  <1>5. /\ h.at \in {"idle", "held", "run"}
        /\ h.at # "idle" => h.confirmed \/ (h.tool = t /\ v = "allow")
    BY <1>3 DEF Idle
  <1>6. h.at # "idle" => h.confirmed \/ ~Destructive(h.tool) \/ h.tool \in ByName
    BY <1>5, AllowedIsHarmless
  <1> HIDE DEF h
  <1>7. host' = [host EXCEPT ![c] = h]
    BY <1>2 DEF h
  <1>8. /\ host' \in [HostCaller -> {Idle} \cup Called]
        /\ host'[c] = h
        /\ \A d \in HostCaller : d # c => host'[d] = host[d]
    BY <1>4, <1>7, CallMoves DEF HostInv
  <1>9. UNCHANGED <<agentVars, ran, failed>> /\ Frame /\ connected
    BY DEF AskTool
  <1>10. HostTypeOK' /\ Registered' /\ HintsAreObeyed'
    BY <1>8, <1>9
       DEF HostInv, HostTypeOK, Registered, HintsAreObeyed, Frame, hostConfig, agentVars
  <1>11. Judged'
    BY <1>5, <1>6, <1>8, <1>9 DEF HostInv, Judged, Frame, hostConfig, Destructive, RouteOf
  <1>12. Guarded' /\ Flagged'
    BY <1>5, <1>8, <1>9 DEF HostInv, Guarded, Flagged, agentVars
  <1> QED
    BY <1>10, <1>11, <1>12 DEF HostInv

\* Of a call that goes on to `where` the invariant needs to be checked there only.
LEMMA CallGoesOn ==
  ASSUME HostInv, NEW c \in HostCaller, host[c].at # "idle",
         NEW where \in {"run", "spawn", "clone"}, GoTo(c, where), Frame,
         slot' \in Nat, slot' >= slot, slot' \in failed => broken', ran' = ran, failed' = failed,
         where \in {"spawn", "clone"} =>
           /\ slotOwner' = {c} /\ RouteOf(host[c].tool) = "agent"
           /\ host[c].tool \in DOMAIN agentTools,
         \A d \in HostCaller : d # c /\ host[d].at \in {"spawn", "clone"} => slotOwner' = {d}
  PROVE  HostInv'
  <1>1. /\ host' \in [HostCaller -> {Idle} \cup Called]
        /\ host'[c].at = where /\ host'[c].tool = host[c].tool
        /\ host'[c].confirmed = host[c].confirmed
        /\ \A d \in HostCaller : d # c => host'[d] = host[d]
    BY CallGoes DEF HostInv
  <1>2. connected /\ slot \in Nat
    BY DEF HostInv, HostTypeOK, Registered, Idle
  <1>3. HostTypeOK' /\ Registered' /\ HintsAreObeyed'
    BY <1>1, <1>2 DEF HostInv, HostTypeOK, Registered, HintsAreObeyed, Frame, hostConfig
  <1>4. Judged'
    BY <1>1 DEF HostInv, Judged, Frame, hostConfig, Destructive, RouteOf
  <1>5. Guarded'
    BY <1>1 DEF HostInv, Guarded
  <1>6. Flagged'
    <2>1. \A d \in HostCaller : host[d].at = "call" => host[d].process \in Nat
      BY DEF HostInv, HostTypeOK, Called, Idle
    <2> QED
      BY <1>1, <1>2, <2>1 DEF HostInv, Flagged
  <1> QED
    BY <1>3, <1>4, <1>5, <1>6 DEF HostInv

LEMMA Calls ==
  ASSUME HostInv, NEW c \in HostCaller, StartCall(c)
  PROVE  HostInv'
  <1>1. host[c] \in Called /\ slot \in Nat
    BY DEF HostInv, HostTypeOK, StartCall, At, Idle
  <1> DEFINE h == [[host[c] EXCEPT !.at = "call"] EXCEPT !.process = slot]
  <1>2. /\ h \in Called /\ h.at = "call" /\ h.process = slot
        /\ h.tool = host[c].tool /\ h.confirmed = host[c].confirmed
    BY <1>1 DEF Called
  <1>3. host' = [host EXCEPT ![c] = h]
    BY <1>1 DEF StartCall, Called
  <1> HIDE DEF h
  <1>4. /\ host' \in [HostCaller -> {Idle} \cup Called]
        /\ host'[c] = h
        /\ \A d \in HostCaller : d # c => host'[d] = host[d]
    BY <1>2, <1>3, CallMoves DEF HostInv
  <1>5. UNCHANGED <<slot, broken, failed>> /\ Frame /\ connected /\ host[c].at = "clone"
    BY DEF StartCall, HostInv, Registered, At, Idle
  <1>6. HostTypeOK' /\ Registered'
    BY <1>4, <1>5 DEF HostInv, HostTypeOK, Registered, Frame, hostConfig
  <1>7. Judged'
    BY <1>2, <1>4, <1>5 DEF HostInv, Judged, Frame, hostConfig, Destructive, RouteOf
  <1>8. Guarded'
    BY <1>2, <1>4, <1>5 DEF HostInv, Guarded, StartCall
  <1>9. Flagged'
    BY <1>1, <1>2, <1>4, <1>5 DEF HostInv, Flagged
  <1>10. HintsAreObeyed'
    <2>1. /\ RouteOf(host[c].tool) = "agent" /\ host[c].tool \in DOMAIN agentTools
          /\ host[c].confirmed \/ ~Destructive(host[c].tool) \/ host[c].tool \in ByName
      BY <1>5 DEF HostInv, Judged
    <2>2. host[c].tool # "clipboard_set"
      BY <2>1 DEF RouteOf, Natives, ActingNatives
    <2>3. host[c].confirmed \/ hints[host[c].tool] = "no" \/ host[c].tool \in StringBearing
      BY <2>1, <2>2 DEF HostInv, Registered, Destructive, Declared, ByName
    <2>4. ran' = ran \cup {[tool |-> host[c].tool, confirmed |-> host[c].confirmed,
                            process |-> slot]}
      BY DEF StartCall
    <2> QED
      BY <1>5, <2>1, <2>3, <2>4 DEF HostInv, HintsAreObeyed, Registered, Frame, hostConfig
  <1> QED
    BY <1>6, <1>7, <1>8, <1>9, <1>10 DEF HostInv

LEMMA CallerSteps ==
  ASSUME HostInv, NEW c \in HostCaller,
         \/ Resolve(c) \/ HostSteps(c) \/ AgentAnswers(c) \/ TransportFails(c)
         \/ CallTimeout(c) \/ DropCall(c)
  PROVE  HostInv'
  <1> USE DEF At
  <1>1. slot \in Nat /\ (slot \in failed => broken)
    BY DEF HostInv, HostTypeOK, Flagged
  <1>2. host[c].at # "idle" /\ connected
    BY DEF HostInv, Registered, Idle, Resolve, HostSteps, RunHere, NotAllowed, LockSlot, Spawn,
       StartCall, AgentAnswers, TransportFails, CallTimeout, DropCall
  <1>3. \A d \in HostCaller : host[d].at \in {"spawn", "clone"} => slotOwner = {d}
    BY DEF HostInv, Guarded
  <1>4. CASE Resolve(c)
    <2>1. UNCHANGED <<agentVars, ran, failed>> /\ Frame
      BY <1>4 DEF Resolve
    <2>2. CASE GoTo(c, "run")
      BY <1>1, <1>2, <1>3, <1>4, <2>1, <2>2, CallGoesOn DEF agentVars
    <2>3. CASE EndCall(c)
      BY <1>1, <1>2, <1>3, <1>4, <2>1, <2>3, CallEnds DEF agentVars
    <2> QED
      BY <1>4, <2>2, <2>3 DEF Resolve
  <1>5. CASE RunHere(c) \/ NotAllowed(c) \/ AgentAnswers(c) \/ CallTimeout(c)
    <2>1. UNCHANGED <<agentVars, ran, failed>> /\ Frame /\ EndCall(c)
      BY <1>5 DEF RunHere, NotAllowed, AgentAnswers, CallTimeout
    <2> QED
      BY <1>1, <1>2, <1>3, <2>1, CallEnds DEF agentVars
  <1>6. CASE LockSlot(c)
    <2>1. /\ slotOwner = {} /\ slotOwner' = {c} /\ Frame
          /\ UNCHANGED <<slot, broken, ran, failed>>
          /\ RouteOf(host[c].tool) = "agent" /\ host[c].tool \in DOMAIN agentTools
      BY <1>6 DEF LockSlot
    <2>2. \A d \in HostCaller : host[d].at \notin {"spawn", "clone"}
      BY <1>3, <2>1
    <2>3. PICK where \in {"spawn", "clone"} : GoTo(c, where)
      BY <1>6 DEF LockSlot
    <2> QED
      BY <1>1, <1>2, <2>1, <2>2, <2>3, CallGoesOn
  <1>7. CASE Spawn(c)
    <2>1. /\ slotOwner = {c} /\ Frame /\ UNCHANGED <<ran, failed>>
          /\ \A d \in HostCaller : d # c => host[d].at \notin {"spawn", "clone"}
      BY <1>3, <1>7 DEF Spawn
    <2>2. CASE slot' = slot + 1 /\ broken' = FALSE /\ GoTo(c, "clone") /\ UNCHANGED slotOwner
      <3>1. slot' \notin failed
        BY <1>1, <2>2 DEF HostInv, Flagged
      <3>2. RouteOf(host[c].tool) = "agent" /\ host[c].tool \in DOMAIN agentTools
        BY <1>7 DEF Spawn, HostInv, Judged
      <3> QED
        BY <1>1, <1>2, <2>1, <2>2, <3>1, <3>2, CallGoesOn
    <2>3. CASE slotOwner' = {} /\ EndCall(c) /\ UNCHANGED <<slot, broken>>
      BY <1>1, <1>2, <2>1, <2>3, CallEnds
    <2> QED
      BY <1>7, <2>2, <2>3 DEF Spawn
  <1>8. CASE StartCall(c)
    BY <1>8, Calls
  <1>9. CASE TransportFails(c)
    <2>1. /\ UNCHANGED <<slot, slotOwner, ran>> /\ Frame /\ EndCall(c) /\ At(c, "call")
          /\ broken' /\ failed' = failed \cup {host[c].process}
      BY <1>9 DEF TransportFails
    <2> QED
      BY <1>2, <1>3, <2>1, CallEnds
  <1>10. CASE DropCall(c)
    <2>1. /\ UNCHANGED <<slot, broken, ran, failed>> /\ Frame /\ EndCall(c)
          /\ slotOwner' = slotOwner \ {c}
      BY <1>10 DEF DropCall
    <2> QED
      BY <1>1, <1>2, <1>3, <2>1, CallEnds
  <1> QED
    BY <1>4, <1>5, <1>6, <1>7, <1>8, <1>9, <1>10 DEF HostSteps

LEMMA HostStep == HostInv /\ [HostNext]_hostVars => HostInv'
  <1> SUFFICES ASSUME HostInv, [HostNext]_hostVars PROVE HostInv'
    OBVIOUS
  <1>1. CASE UNCHANGED hostVars
    BY <1>1 DEF hostVars, hostConfig, agentVars, HostInv, HostTypeOK, Registered, Judged, Guarded,
       Flagged, HintsAreObeyed, Destructive, RouteOf
  <1>2. CASE Connect \/ AgentDies
    BY <1>2, Connects, AgentGoes
  <1>3. ASSUME NEW c \in HostCaller, AskTool(c) PROVE HostInv'
    BY <1>3, Asks
  <1>4. ASSUME NEW c \in HostCaller,
               \/ Resolve(c) \/ HostSteps(c) \/ AgentAnswers(c) \/ TransportFails(c)
               \/ CallTimeout(c) \/ DropCall(c)
        PROVE  HostInv'
    BY <1>4, CallerSteps
  <1> QED
    BY <1>1, <1>2, <1>3, <1>4 DEF HostNext

\* Nothing the agent did not declare harmless, and no text the command matcher
\* did not read, reaches the agent unconfirmed; a connection found dead is not
\* handed out again, and one caller replaces it.
THEOREM HostObeysHints == HostSpec => []HostSafe
  <1>1. HostSpec => []HostInv
    BY HostInitial, HostStep, PTL DEF HostSpec
  <1> QED
    BY <1>1, HostInvSafe, PTL

-----------------------------------------------------------------------------
(* Window verbs *)

User == [verb : Verb, at : {"idle", "send", "wake", "wait", "answered", "again", "end"},
         tries : 0..2, on : Nat, answer : {"none", "ok", "error"}]

WindowsTypeOK ==
  /\ service \in Nat /\ alive \in BOOLEAN
  /\ jobs \in Seq(WindowUser)
  /\ user \in [WindowUser -> User]
  /\ sent \in [WindowUser -> Seq(Nat)]

Queued(u) == \E i \in DOMAIN jobs : jobs[i] = u
Before(u, n) == \A i \in DOMAIN sent[u] : sent[u][i] < n

\* A verb has no more requests than tries, one less while one is on its way.
Counted(u) ==
  /\ Len(sent[u]) <= user[u].tries
  /\ UserAt(u, "send") \/ Queued(u) => Len(sent[u]) < user[u].tries

\* Its requests went to older connections than the one it is about to use: a
\* job that is queued is of the running service, and a verb that tries again
\* has seen the one before end.
Ordered(u) ==
  /\ \A i, j \in DOMAIN sent[u] : i < j => sent[u][i] < sent[u][j]
  /\ Before(u, service + 1)
  /\ UserAt(u, "idle") => Before(u, service)
  /\ UserAt(u, "again") => ~alive \/ Before(u, service)
  /\ UserAt(u, "send") => user[u].on <= service /\ Before(u, user[u].on)
  /\ user[u].at \in {"wake", "wait", "answered"} =>
       user[u].on <= service /\ Before(u, user[u].on + 1)
  /\ Queued(u) =>
       /\ alive /\ Before(u, service)
       /\ user[u].at \in {"wake", "wait", "answered", "end"}
       /\ ~UserAt(u, "end") => user[u].on = service

QueuedOnce == \A i, j \in DOMAIN jobs : jobs[i] = jobs[j] => i = j

VerbInv == WindowsTypeOK /\ QueuedOnce /\ \A u \in WindowUser : Counted(u) /\ Ordered(u)

LEMMA VerbInvSafe == VerbInv => VerbIsNotRepeated
  <1> SUFFICES ASSUME VerbInv, NEW u \in WindowUser
               PROVE  /\ Len(sent[u]) <= 2
                      /\ \A i, j \in DOMAIN sent[u] : i < j => sent[u][i] < sent[u][j]
    BY DEF VerbIsNotRepeated
  <1>1. Len(sent[u]) \in Nat /\ user[u].tries \in 0..2
    BY DEF VerbInv, WindowsTypeOK, User
  <1> QED
    BY <1>1 DEF VerbInv, Counted, Ordered

LEMMA WindowsInitial == WindowsInit => VerbInv
  <1> SUFFICES ASSUME WindowsInit PROVE VerbInv
    OBVIOUS
  <1>1. user \in [WindowUser -> User]
    BY DEF WindowsInit, User
  <1>2. \A u \in WindowUser : user[u].at = "idle" /\ sent[u] = <<>> /\ user[u].tries = 0
    BY DEF WindowsInit
  <1>3. service = 1 /\ alive = TRUE /\ jobs = <<>> /\ \A u \in WindowUser : ~Queued(u)
    BY DEF WindowsInit, Queued
  <1>4. WindowsTypeOK /\ QueuedOnce
    BY <1>1, <1>3 DEF WindowsInit, WindowsTypeOK, QueuedOnce
  <1>5. ASSUME NEW u \in WindowUser PROVE Counted(u) /\ Ordered(u)
    BY <1>2, <1>3 DEF Counted, Ordered, Before, UserAt
  <1> QED
    BY <1>4, <1>5 DEF VerbInv

\* A step that leaves the verbs, their jobs and the service alone.
LEMMA VerbFrame ==
  ASSUME VerbInv, UNCHANGED <<service, alive, jobs, sent>>,
         user' \in [WindowUser -> User],
         \A u \in WindowUser : /\ user'[u].at = user[u].at /\ user'[u].on = user[u].on
                               /\ user'[u].tries = user[u].tries
  PROVE  VerbInv'
  <1>1. WindowsTypeOK' /\ QueuedOnce'
    BY DEF VerbInv, WindowsTypeOK, QueuedOnce
  <1>2. ASSUME NEW u \in WindowUser PROVE Counted(u)' /\ Ordered(u)'
    BY DEF VerbInv, Counted, Ordered, Before, Queued, UserAt
  <1> QED
    BY <1>1, <1>2 DEF VerbInv

\* An answer changes no more than that, whoever it is for.
LEMMA Answers ==
  ASSUME WindowsTypeOK, NEW u, NEW ok \in BOOLEAN, AnswerTo(u, ok)
  PROVE  /\ user' \in [WindowUser -> User]
         /\ \A v \in WindowUser : /\ user'[v].at = user[v].at /\ user'[v].on = user[v].on
                                  /\ user'[v].tries = user[v].tries
  <1>1. CASE user' = user
    BY <1>1 DEF WindowsTypeOK
  <1>2. CASE u \notin WindowUser
    BY <1>2 DEF AnswerTo, WindowsTypeOK
  <1>3. CASE u \in WindowUser /\ user' # user
    <2> DEFINE answer == IF ok THEN "ok" ELSE "error"
               new == [user[u] EXCEPT !.answer = answer]
    <2>1. user[u] \in User
      BY <1>3 DEF WindowsTypeOK
    <2>2. new \in User /\ new.at = user[u].at /\ new.on = user[u].on /\ new.tries = user[u].tries
      BY <2>1 DEF User
    <2>3. user' = [user EXCEPT ![u] = new]
      BY <1>3 DEF AnswerTo
    <2> HIDE DEF new
    <2> QED
      BY <1>3, <2>2, <2>3 DEF WindowsTypeOK
  <1> QED
    BY <1>1, <1>2, <1>3

LEMMA UserMoves ==
  ASSUME WindowsTypeOK, NEW u \in WindowUser, NEW new \in User,
         user' = [user EXCEPT ![u] = new]
  PROVE  /\ user' \in [WindowUser -> User]
         /\ user'[u] = new
         /\ \A v \in WindowUser : v # u => user'[v] = user[v]
  BY DEF WindowsTypeOK

\* A sequence that has one more element.
LEMMA Appended ==
  ASSUME NEW q \in Seq(Nat), NEW e \in Nat
  PROVE  /\ Len(Append(q, e)) = Len(q) + 1 /\ Len(q) \in Nat
         /\ DOMAIN Append(q, e) = 1..(Len(q) + 1) /\ DOMAIN q = 1..Len(q)
         /\ \A i \in DOMAIN q : Append(q, e)[i] = q[i] /\ q[i] \in Nat
         /\ Append(q, e)[Len(q) + 1] = e
  <1>1. Len(q) \in Nat /\ Len(Append(q, e)) = Len(q) + 1
    OBVIOUS
  <1>2. Append(q, e) \in Seq(Nat)
    OBVIOUS
  <1>3. DOMAIN q = 1..Len(q)
    OBVIOUS
  <1>4. DOMAIN Append(q, e) = 1..(Len(q) + 1)
    BY <1>1, <1>2
  <1>5. ASSUME NEW i \in DOMAIN q PROVE Append(q, e)[i] = q[i] /\ q[i] \in Nat
    BY <1>3
  <1>6. Append(q, e)[Len(q) + 1] = e
    BY <1>1
  <1> QED
    BY <1>1, <1>3, <1>4, <1>5, <1>6

\* What another verb does, or the service's end or restart, leaves a verb in order.
LEMMA OtherVerbs ==
  ASSUME VerbInv, NEW v \in WindowUser, user'[v] = user[v], sent' = sent,
         Queued(v)' => Queued(v),
         \/ service' = service /\ alive' = alive
         \/ service' = service /\ ~alive' /\ ~Queued(v)'
         \/ service' = service + 1 /\ alive' /\ ~Queued(v)'
  PROVE  Counted(v)' /\ Ordered(v)'
  <1>1. /\ service \in Nat /\ service' \in Nat /\ user[v].on \in Nat
        /\ DOMAIN sent[v] \subseteq Nat /\ \A i \in DOMAIN sent[v] : sent[v][i] \in Nat
    BY DEF VerbInv, WindowsTypeOK, User
  <1>2. Counted(v)'
    BY DEF VerbInv, Counted, UserAt
  <1>3. (\A i, j \in DOMAIN sent[v] : i < j => sent[v][i] < sent[v][j])'
    BY DEF VerbInv, Ordered
  <1>4. Before(v, service + 1)' /\ (service' = service + 1 => Before(v, service)')
    BY <1>1 DEF VerbInv, Ordered, Before
  <1> QED
    BY <1>1, <1>2, <1>3, <1>4 DEF VerbInv, Ordered, Before, UserAt

LEMMA JobRuns ==
  ASSUME VerbInv, RunJob, NEW u, u = Head(jobs)
  PROVE  VerbInv'
  <1>1. /\ jobs \in Seq(WindowUser) /\ jobs # <<>> /\ jobs' = Tail(jobs)
        /\ alive /\ UNCHANGED <<service, alive>>
    BY DEF VerbInv, WindowsTypeOK, RunJob
  <1>2. u \in WindowUser /\ jobs' \in Seq(WindowUser) /\ Queued(u) /\ jobs[1] = u
    BY <1>1 DEF Queued
  <1>3. Len(jobs') = Len(jobs) - 1 /\ \A i \in DOMAIN jobs' : jobs'[i] = jobs[i + 1]
    BY <1>1
  <1>4. DOMAIN jobs = 1..Len(jobs) /\ DOMAIN jobs' = 1..Len(jobs') /\ Len(jobs) \in Nat
    BY <1>1, <1>2
  <1>5. QueuedOnce' /\ ~Queued(u)' /\ \A v \in WindowUser : Queued(v)' => Queued(v)
    <2>1. \A i, j \in DOMAIN jobs : jobs[i] = jobs[j] => i = j
      BY DEF VerbInv, QueuedOnce
    <2>2. ASSUME NEW i \in DOMAIN jobs'
          PROVE  i + 1 \in DOMAIN jobs /\ jobs'[i] = jobs[i + 1] /\ i + 1 # 1 /\ 1 \in DOMAIN jobs
      BY <1>3, <1>4, <2>2
    <2>3. QueuedOnce'
      <3> SUFFICES ASSUME NEW i \in DOMAIN jobs', NEW j \in DOMAIN jobs', jobs'[i] = jobs'[j]
                   PROVE  i = j
        BY DEF QueuedOnce
      <3>1. i + 1 = j + 1
        BY <2>1, <2>2
      <3> QED
        BY <1>4, <3>1
    <2>4. ~Queued(u)'
      BY <1>2, <2>1, <2>2 DEF Queued
    <2>5. ASSUME NEW v \in WindowUser, Queued(v)' PROVE Queued(v)
      BY <2>2, <2>5 DEF Queued
    <2> QED
      BY <2>3, <2>4, <2>5
  <1>6. CASE AnswerTo(u, FALSE) /\ UNCHANGED <<thread, sent>>
    <2>1. /\ user' \in [WindowUser -> User]
          /\ \A v \in WindowUser : /\ user'[v].at = user[v].at /\ user'[v].on = user[v].on
                                   /\ user'[v].tries = user[v].tries
      BY <1>6, Answers DEF VerbInv
    <2>2. WindowsTypeOK'
      BY <1>1, <1>2, <1>6, <2>1 DEF VerbInv, WindowsTypeOK
    <2>3. ASSUME NEW v \in WindowUser PROVE Counted(v)' /\ Ordered(v)'
      BY <1>1, <1>5, <1>6, <2>1 DEF VerbInv, Counted, Ordered, Before, UserAt
    <2> QED
      BY <1>5, <2>2, <2>3 DEF VerbInv
  <1>7. CASE sent' = [sent EXCEPT ![u] = Append(@, service)] /\ user' = user
    <2>1. service \in Nat /\ sent \in [WindowUser -> Seq(Nat)] /\ sent[u] \in Seq(Nat)
      BY <1>2 DEF VerbInv, WindowsTypeOK
    <2>2. /\ sent'[u] = Append(sent[u], service) /\ sent' \in [WindowUser -> Seq(Nat)]
          /\ \A v \in WindowUser : v # u => sent'[v] = sent[v]
      BY <1>2, <1>7, <2>1
    <2>3. WindowsTypeOK'
      BY <1>1, <1>2, <1>7, <2>2 DEF VerbInv, WindowsTypeOK
    <2>4. ASSUME NEW v \in WindowUser, v # u PROVE Counted(v)' /\ Ordered(v)'
      BY <1>1, <1>5, <1>7, <2>2, <2>4 DEF VerbInv, Counted, Ordered, Before, UserAt
    <2>5. /\ Len(sent'[u]) = Len(sent[u]) + 1 /\ Len(sent[u]) \in Nat
          /\ DOMAIN sent'[u] = 1..(Len(sent[u]) + 1) /\ DOMAIN sent[u] = 1..Len(sent[u])
          /\ \A i \in DOMAIN sent[u] : sent'[u][i] = sent[u][i] /\ sent[u][i] \in Nat
          /\ sent'[u][Len(sent[u]) + 1] = service
      BY <2>1, <2>2, Appended
    <2>6. Before(u, service) /\ user[u].at \in {"wake", "wait", "answered", "end"}
      BY <1>2 DEF VerbInv, Ordered
    <2>7. user[u].at # "end" => user[u].on = service
      BY <1>2 DEF VerbInv, Ordered, UserAt
    <2>8. Counted(u)'
      <3>1. Len(sent[u]) < user[u].tries
        BY <1>2 DEF VerbInv, Counted
      <3>2. user[u].tries \in Nat
        <4>1. user[u] \in User
          BY <1>2 DEF VerbInv, WindowsTypeOK
        <4> QED
          BY <4>1 DEF User
      <3> QED
        BY <1>5, <1>7, <2>5, <2>6, <3>1, <3>2 DEF Counted, UserAt
    <2>9. (\A i, j \in DOMAIN sent[u] : i < j => sent[u][i] < sent[u][j])'
      BY <1>2, <2>5, <2>6 DEF VerbInv, Ordered, Before
    <2>10. Before(u, service + 1)'
      <3>1. ASSUME NEW i \in DOMAIN sent'[u] PROVE sent'[u][i] < service + 1
        <4>1. CASE i \in DOMAIN sent[u]
          <5>1. sent'[u][i] = sent[u][i] /\ sent[u][i] \in Nat
            BY <2>5, <4>1
          <5>2. sent[u][i] < service
            BY <2>6, <4>1 DEF Before
          <5> QED
            BY <2>1, <5>1, <5>2
        <4>2. CASE i = Len(sent[u]) + 1
          BY <2>1, <2>5, <4>2
        <4> QED
          BY <2>5, <4>1, <4>2
      <3> QED
        BY <1>1, <3>1 DEF Before
    <2>11. Ordered(u)'
      BY <1>1, <1>2, <1>5, <1>7, <2>6, <2>7, <2>9, <2>10 DEF VerbInv, Ordered, Before, UserAt
    <2> QED
      BY <1>5, <2>3, <2>4, <2>8, <2>11 DEF VerbInv
  <1> QED
    BY <1>6, <1>7 DEF RunJob

LEMMA NoJobs == jobs' = <<>> => jobs' \in Seq(WindowUser) /\ QueuedOnce'
  BY DEF QueuedOnce

\* The thread ends with its jobs; its other steps leave the verbs alone.
LEMMA ThreadKeeps == VerbInv /\ ThreadSteps => VerbInv'
  <1> SUFFICES ASSUME VerbInv, ThreadSteps PROVE VerbInv'
    OBVIOUS
  <1>1. CASE RunJob
    BY <1>1, JobRuns
  <1>2. CASE Finish
    <2>1. UNCHANGED <<service, alive, jobs, sent>>
      BY <1>2 DEF Finish
    <2>2. AnswerTo(thread.job, FALSE) \/ AnswerTo(thread.job, TRUE)
      BY <1>2 DEF Finish
    <2>3. /\ user' \in [WindowUser -> User]
          /\ \A v \in WindowUser : /\ user'[v].at = user[v].at /\ user'[v].on = user[v].on
                                   /\ user'[v].tries = user[v].tries
      BY <2>2, Answers DEF VerbInv
    <2> QED
      BY <2>1, <2>3, VerbFrame
  <1>3. CASE NoJob \/ Poll
    <2>1. UNCHANGED <<service, alive, jobs, user, sent>>
      BY <1>3 DEF NoJob, Poll
    <2> QED
      BY <2>1, VerbFrame DEF VerbInv, WindowsTypeOK
  <1>4. CASE ThreadEnds
    <2>1. /\ UNCHANGED <<service, user, sent>> /\ alive' = FALSE /\ jobs' = <<>>
          /\ \A v \in WindowUser : ~Queued(v)'
      BY <1>4 DEF ThreadEnds, Queued
    <2>2. WindowsTypeOK' /\ QueuedOnce'
      BY <2>1, NoJobs DEF VerbInv, WindowsTypeOK
    <2>3. ASSUME NEW v \in WindowUser PROVE Counted(v)' /\ Ordered(v)'
      BY <2>1, OtherVerbs
    <2> QED
      BY <2>2, <2>3 DEF VerbInv
  <1> QED
    BY <1>1, <1>2, <1>3, <1>4 DEF ThreadSteps

\* What is known of a verb: its type, and numbers that are numbers.
LEMMA VerbTyped ==
  ASSUME VerbInv, NEW u \in WindowUser
  PROVE  /\ user[u] \in User /\ user[u].tries \in 0..2 /\ user[u].on \in Nat
         /\ service \in Nat /\ sent[u] \in Seq(Nat) /\ Len(sent[u]) \in Nat
         /\ \A i \in DOMAIN sent[u] : sent[u][i] \in Nat
         /\ Counted(u) /\ Ordered(u)
  <1>1. /\ user[u] \in User /\ service \in Nat /\ sent[u] \in Seq(Nat)
        /\ Counted(u) /\ Ordered(u)
    BY DEF VerbInv, WindowsTypeOK
  <1> QED
    BY <1>1 DEF User

\* A verb takes connection n, the running one or a new one: no request of its
\* own is on it yet.
LEMMA VerbTakes ==
  ASSUME VerbInv, NEW u \in WindowUser, UserAt(u, "idle") \/ UserAt(u, "again"),
         user[u].tries < 2, UNCHANGED sent,
         user' = [user EXCEPT ![u].at = "send", ![u].answer = "none", ![u].on = service',
                              ![u].tries = @ + 1],
         \/ alive /\ UNCHANGED <<service, alive, jobs>>
         \/ ~alive /\ service' = service + 1 /\ alive' = TRUE /\ jobs' = <<>>
  PROVE  VerbInv'
  <1>1. /\ user[u] \in User /\ user[u].tries \in 0..2 /\ service \in Nat /\ service' \in Nat
        /\ \A i \in DOMAIN sent[u] : sent[u][i] \in Nat
        /\ Len(sent[u]) \in Nat /\ Counted(u) /\ Ordered(u)
    BY VerbTyped
  <1> DEFINE n == user[u].tries + 1
             new == [user[u] EXCEPT !.at = "send", !.answer = "none", !.on = service', !.tries = n]
  <1>2. n \in 0..2
    BY <1>1
  <1>3. /\ new \in User /\ new.at = "send" /\ new.on = service'
        /\ new.tries = n
    <2> HIDE DEF n
    <2> QED
      BY <1>1, <1>2 DEF User
  <1>4. user' = [user EXCEPT ![u] = new]
    BY <1>1 DEF User
  <1> HIDE DEF new
  <1>5. /\ user' \in [WindowUser -> User] /\ user'[u] = new
        /\ \A v \in WindowUser : v # u => user'[v] = user[v]
    BY <1>3, <1>4, UserMoves DEF VerbInv
  <1>6. WindowsTypeOK' /\ QueuedOnce'
    <2>1. jobs' \in Seq(WindowUser) /\ QueuedOnce'
      BY NoJobs DEF VerbInv, WindowsTypeOK, QueuedOnce
    <2> QED
      BY <1>1, <1>5, <2>1 DEF VerbInv, WindowsTypeOK
  <1>7. \A v \in WindowUser : Queued(v)' => Queued(v)
    BY DEF Queued
  <1>8. ASSUME NEW v \in WindowUser, v # u PROVE Counted(v)' /\ Ordered(v)'
    <2>1. jobs' = <<>> => ~Queued(v)'
      BY DEF Queued
    <2> QED
      BY <1>5, <1>7, <1>8, <2>1, OtherVerbs
  <1>9. ~Queued(u)'
    BY <1>1, <1>7 DEF Ordered, UserAt
  <1>10. Counted(u)'
    BY <1>1, <1>3, <1>5, <1>9 DEF Counted, UserAt
  <1>11. \A i \in DOMAIN sent[u] : sent[u][i] < service'
    BY <1>1 DEF Ordered, Before, UserAt
  <1>12. Ordered(u)'
    <2>1. (\A i, j \in DOMAIN sent[u] : i < j => sent[u][i] < sent[u][j])'
      BY <1>1 DEF Ordered
    <2>2. Before(u, service + 1)'
      BY <1>1, <1>11 DEF Before
    <2> QED
      BY <1>1, <1>3, <1>5, <1>9, <1>11, <2>1, <2>2 DEF Ordered, UserAt, Before
  <1> QED
    BY <1>6, <1>8, <1>10, <1>12 DEF VerbInv

\* A step of one verb that leaves the service, the jobs and the requests alone.
LEMMA VerbGoesOn ==
  ASSUME VerbInv, NEW u \in WindowUser, NEW new \in User,
         user' = [user EXCEPT ![u] = new], UNCHANGED <<service, alive, sent, jobs>>,
         new.tries = user[u].tries, new.at \in {"wait", "answered", "again", "end"},
         new.at \in {"wait", "answered"} => /\ new.on = user[u].on
                                          /\ user[u].at \in {"send", "wake", "wait"},
         new.at = "end" => user[u].at \in {"idle", "again", "answered"},
         new.at = "again" => UserAt(u, "answered") /\ Gone(u)
  PROVE  VerbInv'
  <1>1. /\ user' \in [WindowUser -> User] /\ user'[u] = new
        /\ \A v \in WindowUser : v # u => user'[v] = user[v]
    BY UserMoves DEF VerbInv
  <1>2. WindowsTypeOK' /\ QueuedOnce' /\ \A v \in WindowUser : Queued(v)' = Queued(v)
    BY <1>1 DEF VerbInv, WindowsTypeOK, QueuedOnce, Queued
  <1>3. ASSUME NEW v \in WindowUser, v # u PROVE Counted(v)' /\ Ordered(v)'
    BY <1>1, <1>2, <1>3, OtherVerbs
  <1>4. /\ user[u].on \in Nat /\ service \in Nat
        /\ \A i \in DOMAIN sent[u] : sent[u][i] \in Nat
        /\ Counted(u) /\ Ordered(u)
    BY VerbTyped
  <1>5. Counted(u)'
    BY <1>1, <1>2, <1>4 DEF Counted, UserAt
  <1>6. Ordered(u)'
    <2>1. /\ (\A i, j \in DOMAIN sent[u] : i < j => sent[u][i] < sent[u][j])'
          /\ Before(u, service + 1)'
      BY <1>4 DEF Ordered, Before
    <2>2. new.at = "again" => ~alive \/ Before(u, service)
      BY <1>4 DEF Ordered, Before, UserAt, Gone
    <2>3. new.at \in {"wait", "answered"} => new.on <= service /\ Before(u, new.on + 1)
      BY <1>4 DEF Ordered, Before, UserAt
    <2>4. Queued(u) => /\ alive /\ Before(u, service)
                       /\ new.at \in {"wait", "answered", "end"}
                       /\ new.at # "end" => new.on = service
      BY <1>4 DEF Ordered, UserAt, Gone
    <2> QED
      BY <1>1, <1>2, <2>1, <2>2, <2>3, <2>4 DEF Ordered, Before, UserAt
  <1> QED
    BY <1>2, <1>3, <1>5, <1>6 DEF VerbInv

LEMMA JobIsSent ==
  ASSUME VerbInv, NEW u \in WindowUser, SendJob(u)
  PROVE  VerbInv'
  <1>1. /\ user[u] \in User /\ user[u].on \in Nat /\ service \in Nat
        /\ \A i \in DOMAIN sent[u] : sent[u][i] \in Nat
        /\ Counted(u) /\ Ordered(u)
    BY VerbTyped
  <1>2. UserAt(u, "send") /\ UNCHANGED <<service, alive, sent>>
    BY DEF SendJob
  <1>3. CASE Gone(u)
    <2> DEFINE new == [user[u] EXCEPT !.at = "answered", !.answer = "error"]
    <2>1. /\ new \in User /\ new.at = "answered" /\ new.on = user[u].on
          /\ new.tries = user[u].tries
      BY <1>1 DEF User
    <2>2. user' = [user EXCEPT ![u] = new] /\ UNCHANGED jobs
      BY <1>1, <1>3 DEF SendJob, User
    <2> HIDE DEF new
    <2> QED
      BY <1>2, <2>1, <2>2, VerbGoesOn DEF UserAt
  <1>4. CASE ~Gone(u)
    <2> DEFINE new == [user[u] EXCEPT !.at = "wake"]
    <2>1. new \in User /\ new.at = "wake" /\ new.on = user[u].on /\ new.tries = user[u].tries
      BY <1>1 DEF User
    <2>2. user' = [user EXCEPT ![u] = new] /\ jobs' = Append(jobs, u)
      BY <1>1, <1>4 DEF SendJob, User
    <2> HIDE DEF new
    <2>3. /\ user' \in [WindowUser -> User] /\ user'[u] = new
          /\ \A v \in WindowUser : v # u => user'[v] = user[v]
      BY <2>1, <2>2, UserMoves DEF VerbInv
    <2>4. jobs \in Seq(WindowUser) /\ jobs' \in Seq(WindowUser) /\ Len(jobs) \in Nat
      BY <2>2 DEF VerbInv, WindowsTypeOK
    <2>5. /\ DOMAIN jobs' = 1..(Len(jobs) + 1) /\ DOMAIN jobs = 1..Len(jobs)
          /\ \A i \in DOMAIN jobs : jobs'[i] = jobs[i]
          /\ jobs'[Len(jobs) + 1] = u
      BY <2>2, <2>4
    <2>6. ~Queued(u)
      BY <1>1, <1>2 DEF Ordered, UserAt
    <2>7. QueuedOnce' /\ \A v \in WindowUser : v # u => (Queued(v)' => Queued(v))
      <3>1. \A i \in DOMAIN jobs : jobs[i] # u
        BY <2>6 DEF Queued
      <3>2. \A i \in DOMAIN jobs' : i \in DOMAIN jobs \/ i = Len(jobs) + 1
        BY <2>4, <2>5
      <3> QED
        BY <2>5, <3>1, <3>2 DEF VerbInv, QueuedOnce, Queued
    <2>8. WindowsTypeOK'
      BY <1>2, <2>3, <2>4 DEF VerbInv, WindowsTypeOK
    <2>9. ASSUME NEW v \in WindowUser, v # u PROVE Counted(v)' /\ Ordered(v)'
      BY <1>2, <2>3, <2>7, <2>9, OtherVerbs
    <2>10. Counted(u)'
      BY <1>1, <1>2, <2>1, <2>3 DEF Counted, UserAt
    <2>11. alive /\ user[u].on = service /\ Before(u, service)
      BY <1>1, <1>2, <1>4 DEF Gone, Ordered
    <2>12. Ordered(u)'
      <3>1. /\ (\A i, j \in DOMAIN sent[u] : i < j => sent[u][i] < sent[u][j])'
            /\ Before(u, service + 1)' /\ Before(u, service)'
        BY <1>1, <1>2, <2>11 DEF Ordered, Before
      <3> QED
        BY <1>1, <1>2, <2>1, <2>3, <2>11, <3>1 DEF Ordered, Before, UserAt
    <2> QED
      BY <2>7, <2>8, <2>9, <2>10, <2>12 DEF VerbInv
  <1> QED
    BY <1>3, <1>4

LEMMA VerbSteps ==
  ASSUME VerbInv, NEW u \in WindowUser, UserSteps(u)
  PROVE  VerbInv'
  <1>1. user[u] \in User
    BY VerbTyped
  <1>2. CASE TakeService(u)
    <2>1. UNCHANGED sent /\ user[u].tries < 2 /\ (UserAt(u, "idle") \/ UserAt(u, "again"))
      BY <1>2 DEF TakeService
    <2>2. CASE /\ alive /\ UNCHANGED <<wire, threadVars>>
               /\ user' = [user EXCEPT ![u].at = "send", ![u].answer = "none", ![u].on = service,
                                       ![u].tries = @ + 1]
      BY <2>1, <2>2, VerbTakes DEF threadVars
    <2>3. CASE /\ ~alive /\ Restarted
               /\ user' = [user EXCEPT ![u].at = "send", ![u].answer = "none", ![u].on = service',
                                       ![u].tries = @ + 1]
      BY <2>1, <2>3, VerbTakes DEF Restarted
    <2>4. CASE ~alive /\ user' = [user EXCEPT ![u].at = "end"] /\ UNCHANGED <<wire, threadVars>>
      <3> DEFINE new == [user[u] EXCEPT !.at = "end"]
      <3>1. new \in User /\ new.at = "end" /\ new.tries = user[u].tries
        BY <1>1 DEF User
      <3>2. user' = [user EXCEPT ![u] = new]
        BY <1>1, <2>4 DEF User
      <3> HIDE DEF new
      <3>3. UNCHANGED <<service, alive, jobs>>
        BY <2>4 DEF threadVars
      <3> QED
        BY <2>1, <2>4, <3>1, <3>2, <3>3, VerbGoesOn DEF UserAt
    <2> QED
      BY <1>2, <2>2, <2>3, <2>4 DEF TakeService
  <1>3. CASE SendJob(u)
    BY <1>3, JobIsSent
  <1>4. CASE Wake(u)
    <2> DEFINE new == [user[u] EXCEPT !.at = "wait"]
    <2>1. new \in User /\ new.at = "wait" /\ new.on = user[u].on /\ new.tries = user[u].tries
      BY <1>1 DEF User
    <2>2. /\ user' = [user EXCEPT ![u] = new] /\ UserAt(u, "wake")
          /\ UNCHANGED <<service, alive, sent, jobs>>
      BY <1>1, <1>4 DEF Wake, User
    <2> HIDE DEF new
    <2> QED
      BY <2>1, <2>2, VerbGoesOn DEF UserAt
  <1>5. CASE Receive(u)
    <2> DEFINE answer == IF user[u].answer = "none" THEN "error" ELSE user[u].answer
               new == [user[u] EXCEPT !.at = "answered", !.answer = answer]
    <2>1. answer \in {"none", "ok", "error"}
      BY <1>1 DEF User
    <2>2. /\ new \in User /\ new.at = "answered" /\ new.on = user[u].on
          /\ new.tries = user[u].tries
      <3> HIDE DEF answer
      <3> QED
        BY <1>1, <2>1 DEF User
    <2>3. /\ user' = [user EXCEPT ![u] = new] /\ UserAt(u, "wait")
          /\ UNCHANGED <<service, alive, sent, jobs>>
      BY <1>1, <1>5 DEF Receive, User, threadVars
    <2> HIDE DEF new
    <2> QED
      BY <2>2, <2>3, VerbGoesOn DEF UserAt
  <1>6. CASE Return(u)
    <2> DEFINE again == Failed(u) /\ Gone(u) /\ user[u].tries < 2
               new == [user[u] EXCEPT !.on = 0, !.at = IF again THEN "again" ELSE "end"]
    <2>1. /\ new \in User /\ new.at \in {"again", "end"} /\ new.tries = user[u].tries
          /\ new.at = "again" => Gone(u)
      <3> HIDE DEF again
      <3>1. new \in User /\ new.at = (IF again THEN "again" ELSE "end") /\ new.tries = user[u].tries
        BY <1>1 DEF User
      <3> QED
        BY <3>1 DEF again
    <2>2. /\ user' = [user EXCEPT ![u] = new] /\ UserAt(u, "answered")
          /\ UNCHANGED <<service, alive, sent, jobs>>
      BY <1>1, <1>6 DEF Return, User, threadVars
    <2> HIDE DEF new
    <2> QED
      BY <2>1, <2>2, VerbGoesOn DEF UserAt
  <1> QED
    BY <1>2, <1>3, <1>4, <1>5, <1>6 DEF UserSteps

LEMMA VerbStep == VerbInv /\ [WindowsNext]_windowsVars => VerbInv'
  <1> SUFFICES ASSUME VerbInv, [WindowsNext]_windowsVars PROVE VerbInv'
    OBVIOUS
  <1>1. CASE WindowChanges \/ ConnectionLost \/ UNCHANGED windowsVars
    <2>1. UNCHANGED <<service, alive, jobs, user, sent>>
      BY <1>1 DEF WindowChanges, ConnectionLost, windowsVars, threadVars
    <2> QED
      BY <2>1, VerbFrame DEF VerbInv, WindowsTypeOK
  <1>2. CASE ThreadSteps
    BY <1>2, ThreadKeeps
  <1>3. ASSUME NEW u \in WindowUser, UserSteps(u) PROVE VerbInv'
    BY <1>3, VerbSteps
  <1> QED
    BY <1>1, <1>2, <1>3 DEF WindowsNext

\* A verb writes its request at most once to each connection and at most to two,
\* however late the answers are and whenever a connection ends, for any number of
\* windows, callers and connections.
THEOREM NoVerbTwice == WindowsSpec => []VerbIsNotRepeated
  <1>1. WindowsSpec => []VerbInv
    BY WindowsInitial, VerbStep, PTL DEF WindowsSpec
  <1> QED
    BY <1>1, VerbInvSafe, PTL

-----------------------------------------------------------------------------
(* Text injection *)

\* The segments follow each other in s, from place a to place b.
Placed(f, segs, s, a, b) ==
  /\ f \in [0..Len(segs) -> 0..Len(s)]
  /\ f[0] = a /\ f[Len(segs)] = b
  /\ \A k \in 1..Len(segs) :
       f[k] = f[k - 1] + Len(segs[k]) /\ \A j \in 1..Len(segs[k]) : segs[k][j] = s[f[k - 1] + j]
Follow(segs, s, a, b) == \E f : Placed(f, segs, s, a, b)

\* No segment has more characters than there are keycodes.
Fits(segment) == segment \in Seq(Char) /\ IsFiniteSet(ToSet(segment)) /\ Distinct(segment) <= Budget

LEMMA Added ==
  ASSUME NEW S, NEW q \in Seq(S), NEW e \in S
  PROVE  /\ Append(q, e) \in Seq(S) /\ Len(Append(q, e)) = Len(q) + 1 /\ Len(q) \in Nat
         /\ (\A i \in 1..Len(q) : Append(q, e)[i] = q[i]) /\ Append(q, e)[Len(q) + 1] = e
         /\ Append(q, e) # <<>>
         /\ ToSet(Append(q, e)) = ToSet(q) \cup {e}
  <1>1. /\ Append(q, e) \in Seq(S) /\ Len(Append(q, e)) = Len(q) + 1 /\ Len(q) \in Nat
        /\ (\A i \in 1..Len(q) : Append(q, e)[i] = q[i]) /\ Append(q, e)[Len(q) + 1] = e
        /\ Append(q, e) # <<>>
    OBVIOUS
  <1>2. PICK p : p = Append(q, e)
    OBVIOUS
  <1>3. DOMAIN p = 1..(Len(q) + 1) /\ DOMAIN q = 1..Len(q)
    BY <1>1, <1>2
  <1>4. \A i \in 1..(Len(q) + 1) : i \in 1..Len(q) \/ i = Len(q) + 1
    BY <1>1
  <1>5. Len(q) + 1 \in 1..(Len(q) + 1) /\ \A i \in 1..Len(q) : i \in 1..(Len(q) + 1)
    BY <1>1
  <1>6. ToSet(p) = ToSet(q) \cup {e}
    BY <1>1, <1>2, <1>3, <1>4, <1>5 DEF ToSet
  <1> QED BY <1>1, <1>2, <1>6

\* The last segment takes one more character.
LEMMA Grown ==
  ASSUME NEW S, NEW q \in Seq(S), q # <<>>, NEW e \in S
  PROVE  /\ [q EXCEPT ![Len(q)] = e] \in Seq(S) /\ Len([q EXCEPT ![Len(q)] = e]) = Len(q)
         /\ Len(q) \in Nat /\ Len(q) >= 1
         /\ \A i \in 1..Len(q) : [q EXCEPT ![Len(q)] = e][i] = IF i = Len(q) THEN e ELSE q[i]
  OBVIOUS

LEMMA CutFits ==
  ASSUME NEW out \in Seq(Seq(Char)), NEW c \in Char, \A k \in 1..Len(out) : Fits(out[k])
  PROVE  Cut(out, c) \in Seq(Seq(Char)) /\ \A k \in 1..Len(Cut(out, c)) : Fits(Cut(out, c)[k])
  <1>0. Budget \in Nat /\ Budget >= 1
    BY TypingAssumption
  <1>1. Fits(<<c>>) /\ <<c>> \in Seq(Char)
    <2>1. <<c>> \in Seq(Char) /\ ToSet(<<c>>) = {c}
      BY DEF ToSet
    <2>2. IsFiniteSet({c}) /\ Cardinality({c}) = 1
      BY FS_Singleton
    <2> QED BY <1>0, <2>1, <2>2 DEF Fits, Distinct
  <1>2. CASE out = <<>> \/ (c \notin ToSet(Last(out)) /\ Distinct(Last(out)) >= Budget)
    <2>1. Cut(out, c) = Append(out, <<c>>)
      BY <1>2 DEF Cut
    <2>2. PICK q : q = Append(out, <<c>>)
      OBVIOUS
    <2>3. /\ q \in Seq(Seq(Char)) /\ Len(q) = Len(out) + 1 /\ Len(out) \in Nat
          /\ (\A i \in 1..Len(out) : q[i] = out[i]) /\ q[Len(out) + 1] = <<c>>
      BY <1>1, <2>2, Added
    <2>4. \A i \in 1..Len(q) : i \in 1..Len(out) \/ i = Len(out) + 1
      BY <2>3
    <2> QED BY <1>1, <2>1, <2>2, <2>3, <2>4
  <1>3. CASE ~(out = <<>> \/ (c \notin ToSet(Last(out)) /\ Distinct(Last(out)) >= Budget))
    <2>1. out # <<>> /\ Len(out) \in 1..Len(out) /\ Len(out) \in Nat
      BY <1>3
    <2>2. Last(out) = out[Len(out)] /\ Fits(out[Len(out)]) /\ out[Len(out)] \in Seq(Char)
      BY <2>1 DEF Last
    <2>3. PICK g : g = Append(out[Len(out)], c)
      OBVIOUS
    <2>4. g \in Seq(Char) /\ ToSet(g) = ToSet(out[Len(out)]) \cup {c}
      BY <2>2, <2>3, Added
    <2>5. Fits(g)
      <3>1. /\ IsFiniteSet(ToSet(out[Len(out)])) /\ Cardinality(ToSet(out[Len(out)])) <= Budget
            /\ Cardinality(ToSet(out[Len(out)])) \in Nat
        BY <2>2, FS_CardinalityType DEF Fits, Distinct
      <3>0. PICK T : T = ToSet(out[Len(out)])
        OBVIOUS
      <3>2. /\ IsFiniteSet(ToSet(g))
            /\ Cardinality(ToSet(g)) = IF c \in ToSet(out[Len(out)]) THEN Cardinality(ToSet(out[Len(out)]))
                                       ELSE Cardinality(ToSet(out[Len(out)])) + 1
        <4>1. /\ IsFiniteSet(T \cup {c})
              /\ Cardinality(T \cup {c}) = IF c \in T THEN Cardinality(T) ELSE Cardinality(T) + 1
          BY <3>0, <3>1, FS_AddElement
        <4> QED BY <2>4, <3>0, <4>1
      <3>3. c \in ToSet(out[Len(out)]) \/ Cardinality(ToSet(out[Len(out)])) < Budget
        BY <1>0, <1>3, <2>2, <3>1 DEF Distinct
      <3>4. Cardinality(ToSet(g)) <= Budget
        BY <1>0, <3>1, <3>2, <3>3
      <3> QED BY <2>4, <3>2, <3>4 DEF Fits, Distinct
    <2>6. PICK q : q = [out EXCEPT ![Len(out)] = g]
      OBVIOUS
    <2>7. Cut(out, c) = q
      BY <1>3, <2>3, <2>6 DEF Cut
    <2>8. /\ q \in Seq(Seq(Char)) /\ Len(q) = Len(out)
          /\ \A i \in 1..Len(out) : q[i] = IF i = Len(out) THEN g ELSE out[i]
      BY <2>1, <2>4, <2>6, Grown
    <2> QED BY <2>5, <2>7, <2>8
  <1> QED BY <1>2, <1>3

LEMMA CutFollows ==
  ASSUME NEW s \in Seq(Char), NEW out \in Seq(Seq(Char)), NEW n \in 0..(Len(s) - 1), Follow(out, s, 0, n)
  PROVE  Follow(Cut(out, s[n + 1]), s, 0, n + 1)
  <1> DEFINE c == s[n + 1]
             m == Len(out)
  <1>0. Len(s) \in Nat /\ n \in Nat /\ n + 1 \in 1..Len(s) /\ n + 1 \in 0..Len(s) /\ m \in Nat
    OBVIOUS
  <1>1. c \in Char /\ <<c>> \in Seq(Char)
    BY <1>0
  <1>2. PICK f \in [0..m -> 0..Len(s)] :
          /\ f[0] = 0 /\ f[m] = n
          /\ \A k \in 1..m :
               f[k] = f[k - 1] + Len(out[k]) /\ \A j \in 1..Len(out[k]) : out[k][j] = s[f[k - 1] + j]
    BY DEF Follow, Placed
  <1>3. CASE out = <<>> \/ (c \notin ToSet(Last(out)) /\ Distinct(Last(out)) >= Budget)
    <2>1. PICK q \in Seq(Seq(Char)) : q = Cut(out, c) /\ q = Append(out, <<c>>)
      <3>1. Append(out, <<c>>) \in Seq(Seq(Char))
        BY <1>1, Added
      <3> QED BY <1>3, <3>1 DEF Cut
    <2>2. Len(q) = m + 1 /\ (\A i \in 1..m : q[i] = out[i]) /\ q[m + 1] = <<c>>
      BY <1>1, <2>1, Added
    <2> DEFINE g == [k \in 0..(m + 1) |-> IF k = m + 1 THEN n + 1 ELSE f[k]]
    <2>3. g \in [0..(m + 1) -> 0..Len(s)]
      BY <1>0, <1>2
    <2>4. g[0] = 0 /\ g[m + 1] = n + 1 /\ \A k \in 0..m : g[k] = f[k]
      BY <1>0, <1>2
    <2> HIDE DEF g
    <2>5. ASSUME NEW k \in 1..(m + 1)
          PROVE  g[k] = g[k - 1] + Len(q[k]) /\ \A j \in 1..Len(q[k]) : q[k][j] = s[g[k - 1] + j]
      <3>1. CASE k \in 1..m
        <4>1. k \in 0..m /\ k - 1 \in 0..m
          BY <1>0, <3>1
        <4> QED BY <1>2, <2>2, <2>4, <3>1, <4>1
      <3>2. CASE k = m + 1
        <4>1. k - 1 = m /\ m \in 0..m
          BY <1>0, <3>2
        <4>2. g[k - 1] = n /\ g[k] = n + 1 /\ q[k] = <<c>>
          BY <1>2, <2>2, <2>4, <3>2, <4>1
        <4>3. Len(<<c>>) = 1 /\ \A j \in 1..1 : j = 1 /\ <<c>>[j] = c
          OBVIOUS
        <4> HIDE DEF c
        <4>4. \A j \in 1..1 : n + j = n + 1
          OBVIOUS
        <4> QED BY <4>2, <4>3, <4>4 DEF c
      <3>3. k \in 1..m \/ k = m + 1
        BY <1>0
      <3> QED BY <3>1, <3>2, <3>3
    <2>6. Follow(q, s, 0, n + 1)
      <3>1. Len(q) = m + 1
        BY <2>2
      <3> HIDE DEF m, c
      <3>2. Placed(g, q, s, 0, n + 1)
        BY <2>3, <2>4, <2>5, <3>1 DEF Placed
      <3> QED BY <3>2 DEF Follow
    <2> QED BY <2>1, <2>6
  <1>4. CASE ~(out = <<>> \/ (c \notin ToSet(Last(out)) /\ Distinct(Last(out)) >= Budget))
    <2>1. out # <<>> /\ m \in 1..m /\ m - 1 \in 0..m /\ m >= 1
      BY <1>4
    <2>2. out[m] \in Seq(Char)
      BY <2>1
    <2>3. PICK e \in Seq(Char) : e = Append(out[m], c)
      BY <1>1, <2>2, Added
    <2>4. /\ Len(e) = Len(out[m]) + 1 /\ Len(out[m]) \in Nat
          /\ (\A i \in 1..Len(out[m]) : e[i] = out[m][i]) /\ e[Len(out[m]) + 1] = c
      BY <1>1, <2>2, <2>3, Added
    <2>5. PICK q \in Seq(Seq(Char)) : q = Cut(out, c) /\ q = [out EXCEPT ![m] = e]
      <3>1. [out EXCEPT ![m] = e] \in Seq(Seq(Char))
        BY <2>1, <2>3, Grown
      <3> QED BY <1>4, <2>3, <3>1 DEF Cut
    <2>6. Len(q) = m /\ \A i \in 1..m : q[i] = IF i = m THEN e ELSE out[i]
      BY <2>1, <2>3, <2>5, Grown
    <2> DEFINE g == [k \in 0..m |-> IF k = m THEN n + 1 ELSE f[k]]
    <2>7. g \in [0..m -> 0..Len(s)]
      BY <1>0, <1>2
    <2>8. g[0] = 0 /\ g[m] = n + 1 /\ \A k \in 0..(m - 1) : g[k] = f[k]
      <3>1. 0 \in 0..m /\ m \in 0..m /\ 0 # m /\ \A k \in 0..(m - 1) : k \in 0..m /\ k # m
        BY <1>0, <2>1
      <3> HIDE DEF m
      <3>2. g[0] = f[0]
        BY <3>1
      <3>3. g[m] = n + 1
        BY <3>1
      <3>4. \A k \in 0..(m - 1) : g[k] = f[k]
        BY <3>1
      <3> QED BY <1>2, <3>2, <3>3, <3>4
    <2>9. f[m] = f[m - 1] + Len(out[m]) /\ f[m - 1] \in Nat
      <3> HIDE DEF m
      <3>1. f[m - 1] \in 0..Len(s)
        BY <1>2, <2>1
      <3>2. f[m] = f[m - 1] + Len(out[m])
        BY <1>2, <2>1
      <3> QED BY <1>0, <3>1, <3>2
    <2> HIDE DEF g
    <2>10. ASSUME NEW k \in 1..m
          PROVE  g[k] = g[k - 1] + Len(q[k]) /\ \A j \in 1..Len(q[k]) : q[k][j] = s[g[k - 1] + j]
      <3>1. CASE k # m
        <4>1. k \in 0..(m - 1) /\ k - 1 \in 0..(m - 1)
          BY <1>0, <3>1
        <4> QED BY <1>2, <2>6, <2>8, <3>1, <4>1
      <3>2. CASE k = m
        <4>1. k - 1 \in 0..(m - 1)
          BY <1>0, <3>2
        <4>2. g[k - 1] = f[m - 1] /\ g[k] = n + 1 /\ q[k] = e
          BY <2>1, <2>6, <2>8, <3>2, <4>1
        <4>3. n = f[m - 1] + Len(out[m])
          BY <1>2, <2>9
        <4>4. n + 1 = f[m - 1] + Len(e) /\ f[m - 1] + (Len(out[m]) + 1) = n + 1
          <5>1. PICK x \in Nat : x = f[m - 1]
            BY <2>9
          <5>2. PICK y \in Nat : y = Len(out[m])
            BY <2>4
          <5>3. n = x + y /\ Len(e) = y + 1
            BY <2>4, <4>3, <5>1, <5>2
          <5>4. n + 1 = x + (y + 1)
            BY <5>3
          <5> QED BY <5>1, <5>2, <5>3, <5>4
        <4>5. \A j \in 1..Len(e) : j \in 1..Len(out[m]) \/ j = Len(out[m]) + 1
          BY <2>4
        <4>6. \A j \in 1..Len(out[m]) : out[m][j] = s[f[m - 1] + j]
          BY <1>2, <2>1
        <4> HIDE DEF c
        <4>7. \A j \in 1..Len(e) : e[j] = s[f[m - 1] + j]
          BY <2>4, <4>4, <4>5, <4>6 DEF c
        <4> QED BY <4>2, <4>4, <4>7
      <3> QED BY <3>1, <3>2
    <2>11. Follow(q, s, 0, n + 1)
      <3>1. Len(q) = m
        BY <2>6
      <3> HIDE DEF m, c
      <3>2. Placed(g, q, s, 0, n + 1)
        BY <2>7, <2>8, <2>10, <3>1 DEF Placed
      <3> QED BY <3>2 DEF Follow
    <2> QED BY <2>5, <2>11
  <1> QED BY <1>3, <1>4

\* The segments of a text are the text, and each has a key for each of its characters.
LEMMA SegmentsFollow ==
  ASSUME NEW s \in Seq(Char)
  PROVE  /\ Segments(s) \in Seq(Seq(Char)) /\ Follow(Segments(s), s, 0, Len(s))
         /\ \A k \in 1..Len(Segments(s)) : Fits(Segments(s)[k])
  <1> DEFINE n == Len(s)
             S == Seq(Seq(Char))
             Ok(x) == x \in S /\ \A k \in 1..Len(x) : Fits(x[k])
             V == {x \in S : Ok(x)}
             body(f) == [i \in 0..Len(s) |-> IF i = 0 THEN <<>> ELSE Cut(f[i - 1], s[i])]
             g == [i \in 1..n |-> [x \in V |-> Cut(x, s[i])]]
  <1>1. n \in Nat
    OBVIOUS
  <1>2. ASSUME NEW i \in 1..n, NEW x \in V PROVE Cut(x, s[i]) \in V
    BY CutFits
  <1>3. <<>> \in V
    <2>1. <<>> \in S /\ Len(<<>>) = 0
      OBVIOUS
    <2> QED BY <2>1
  <1>4. g \in [1..n -> [V -> V]]
    BY <1>2
  <1> HIDE DEF V
  <1>5. PICK f : Follows(f, n, V, <<>>, g)
    BY <1>1, <1>3, <1>4, RecursionExists
  <1>6. \A i \in 1..n : f[i] = Cut(f[i - 1], s[i])
    <2> SUFFICES ASSUME NEW i \in 1..n PROVE f[i] = Cut(f[i - 1], s[i])
      OBVIOUS
    <2>1. i - 1 \in 0..n
      BY <1>1
    <2>2. f[i - 1] \in V /\ f[i] = g[i][f[i - 1]]
      BY <1>5, <2>1 DEF Follows
    <2> QED BY <2>2
  <1>7. f = body(f)
    BY <1>1, <1>5, <1>6 DEF Follows
  <1> DEFINE F == CHOOSE e : e = body(e)
  <1>8. F = body(F)
    <2> HIDE DEF body
    <2> QED BY <1>7
  <1>9. Segments(s) = F[n]
    BY DEF Segments
  <1> HIDE DEF F
  <1>10. F[0] = <<>> /\ \A i \in 1..n : F[i] = Cut(F[i - 1], s[i])
    <2> HIDE DEF n
    <2>0. n = Len(s)
      BY DEF n
    <2>1. F[0] = <<>>
      BY <1>1, <1>8, <2>0
    <2>2. \A i \in 1..n : i \in 0..n /\ i # 0
      BY <1>1
    <2> QED BY <1>8, <2>0, <2>1, <2>2
  <1>11. 0..n \subseteq {i \in 0..n : F[i] \in V /\ Follow(F[i], s, 0, i)}
    <2> DEFINE T == {i \in 0..n : F[i] \in V /\ Follow(F[i], s, 0, i)}
    <2>1. 0 \in T
      <3>1. 0 \in 0..n
        BY <1>1
      <3> DEFINE z == [k \in 0..0 |-> 0]
      <3>2. z \in [0..0 -> 0..n] /\ z[0] = 0
        BY <1>1
      <3>3. Len(<<>>) = 0 /\ \A k \in 1..0 : FALSE
        OBVIOUS
      <3> HIDE DEF z
      <3>4. Placed(z, <<>>, s, 0, 0)
        BY <3>2, <3>3 DEF Placed
      <3>5. Follow(<<>>, s, 0, 0)
        BY <3>4 DEF Follow
      <3> QED BY <1>3, <1>10, <3>1, <3>5
    <2>2. ASSUME NEW i \in 0..(n - 1), i \in T PROVE i + 1 \in T
      <3>1. i + 1 \in 1..n /\ i + 1 \in 0..n /\ (i + 1) - 1 = i
        BY <1>1
      <3>2. F[i + 1] = Cut(F[i], s[i + 1])
        BY <1>10, <3>1
      <3>3. F[i] \in V /\ Follow(F[i], s, 0, i) /\ F[i] \in S
        BY <2>2 DEF V
      <3>4. Cut(F[i], s[i + 1]) \in V
        BY <1>2, <3>1, <3>3
      <3>5. Follow(Cut(F[i], s[i + 1]), s, 0, i + 1)
        BY <3>3, CutFollows
      <3> QED BY <3>1, <3>2, <3>4, <3>5
    <2> HIDE DEF T
    <2>3. 0..n \subseteq T
      BY <1>1, <2>1, <2>2, NumbersUpTo
    <2> QED BY <2>3 DEF T
  <1>12. n \in 0..n
    BY <1>1
  <1>13. F[n] \in V /\ Follow(F[n], s, 0, n)
    BY <1>11, <1>12
  <1> QED BY <1>9, <1>13 DEF V

\* Every character of a segment has a key, and there are no more keys than keycodes.
LEMMA KeymapHas ==
  ASSUME NEW s, Fits(s)
  PROVE  /\ KeymapOf(s) \in Seq(Char) /\ Len(KeymapOf(s)) <= Budget
         /\ \A j \in 1..Len(s) : \E code \in 1..Len(KeymapOf(s)) : KeymapOf(s)[code] = s[j]
  <1> DEFINE n == Len(s)
             V == Seq(Char)
             body(f) == [i \in 0..Len(s) |-> IF i = 0 THEN <<>> ELSE WithKey(f[i - 1], s[i])]
             g == [i \in 1..n |-> [x \in V |-> WithKey(x, s[i])]]
  <1>1. s \in Seq(Char) /\ n \in Nat
    BY DEF Fits
  <1>2. ASSUME NEW i \in 1..n, NEW x \in V PROVE WithKey(x, s[i]) \in V
    <2>1. s[i] \in Char
      BY <1>1
    <2> QED BY <2>1, Added DEF WithKey
  <1>3. <<>> \in V
    OBVIOUS
  <1>4. g \in [1..n -> [V -> V]]
    BY <1>2
  <1> HIDE DEF V
  <1>5. PICK f : Follows(f, n, V, <<>>, g)
    BY <1>1, <1>3, <1>4, RecursionExists
  <1>6. \A i \in 1..n : f[i] = WithKey(f[i - 1], s[i])
    <2> SUFFICES ASSUME NEW i \in 1..n PROVE f[i] = WithKey(f[i - 1], s[i])
      OBVIOUS
    <2>1. i - 1 \in 0..n
      BY <1>1
    <2>2. f[i - 1] \in V /\ f[i] = g[i][f[i - 1]]
      BY <1>5, <2>1 DEF Follows
    <2> QED BY <2>2
  <1>7. f = body(f)
    BY <1>1, <1>5, <1>6 DEF Follows
  <1> DEFINE F == CHOOSE e : e = body(e)
  <1>8. F = body(F)
    <2> HIDE DEF body
    <2> QED BY <1>7
  <1>9. KeymapOf(s) = F[n]
    BY DEF KeymapOf
  <1> HIDE DEF F
  <1>10. F[0] = <<>> /\ \A i \in 1..n : F[i] = WithKey(F[i - 1], s[i])
    <2> HIDE DEF n
    <2>0. n = Len(s)
      BY DEF n
    <2>1. F[0] = <<>>
      BY <1>1, <1>8, <2>0
    <2>2. \A i \in 1..n : i \in 0..n /\ i # 0
      BY <1>1
    <2> QED BY <1>8, <2>0, <2>1, <2>2
  <1> DEFINE Has(x, i) == /\ x \in V /\ IsFiniteSet(ToSet(x)) /\ Cardinality(ToSet(x)) = Len(x)
                          /\ ToSet(x) = {s[j] : j \in 1..i}
  <1>11. 0..n \subseteq {i \in 0..n : Has(F[i], i)}
    <2> DEFINE T == {i \in 0..n : Has(F[i], i)}
    <2>1. 0 \in T
      <3>1. 0 \in 0..n
        BY <1>1
      <3>2. ToSet(<<>>) = {} /\ {s[j] : j \in 1..0} = {} /\ Len(<<>>) = 0
        BY DEF ToSet
      <3> QED BY <1>3, <1>10, <3>1, <3>2, FS_EmptySet
    <2>2. ASSUME NEW i \in 0..(n - 1), i \in T PROVE i + 1 \in T
      <3>1. i + 1 \in 1..n /\ i + 1 \in 0..n /\ (i + 1) - 1 = i /\ i \in Nat
        BY <1>1
      <3>2. F[i + 1] = WithKey(F[i], s[i + 1])
        BY <1>10, <3>1
      <3>3. PICK x \in V : x = F[i] /\ Has(x, i)
        BY <2>2
      <3>4. PICK c \in Char : c = s[i + 1]
        BY <1>1, <3>1
      <3>5. x \in Seq(Char) /\ Len(x) \in Nat
        BY DEF V
      <3>6. {s[j] : j \in 1..(i + 1)} = {s[j] : j \in 1..i} \cup {c}
        <4>1. \A j \in 1..(i + 1) : j \in 1..i \/ j = i + 1
          BY <3>1
        <4>2. i + 1 \in 1..(i + 1) /\ \A j \in 1..i : j \in 1..(i + 1)
          BY <3>1
        <4> QED BY <3>4, <4>1, <4>2
      <3>7. CASE c \in ToSet(x)
        <4>1. F[i + 1] = x
          BY <3>2, <3>3, <3>4, <3>7 DEF WithKey
        <4>2. ToSet(x) = {s[j] : j \in 1..(i + 1)}
          BY <3>3, <3>6, <3>7
        <4> QED BY <3>1, <3>3, <4>1, <4>2
      <3>8. CASE c \notin ToSet(x)
        <4>1. PICK y : y = Append(x, c)
          OBVIOUS
        <4>2. F[i + 1] = y
          BY <3>2, <3>3, <3>4, <3>8, <4>1 DEF WithKey
        <4>3. y \in Seq(Char) /\ Len(y) = Len(x) + 1 /\ ToSet(y) = ToSet(x) \cup {c}
          BY <3>5, <4>1, Added
        <4>4. IsFiniteSet(ToSet(y)) /\ Cardinality(ToSet(y)) = Len(y)
          <5>1. PICK X : X = ToSet(x)
            OBVIOUS
          <5>2. IsFiniteSet(X) /\ c \notin X /\ Cardinality(X) = Len(x)
            BY <3>3, <3>8, <5>1
          <5>3. IsFiniteSet(X \cup {c}) /\ Cardinality(X \cup {c}) = Cardinality(X) + 1
            BY <5>2, FS_AddElement
          <5> QED BY <4>3, <5>1, <5>2, <5>3
        <4>5. ToSet(y) = {s[j] : j \in 1..(i + 1)}
          BY <3>3, <3>6, <4>3
        <4>6. Has(y, i + 1)
          BY <4>3, <4>4, <4>5 DEF V
        <4> HIDE DEF Has
        <4> QED BY <3>1, <4>2, <4>6
      <3> QED BY <3>7, <3>8
    <2> HIDE DEF T
    <2>3. 0..n \subseteq T
      BY <1>1, <2>1, <2>2, NumbersUpTo
    <2> QED BY <2>3 DEF T
  <1>12. n \in 0..n
    BY <1>1
  <1>13. PICK k : k = F[n] /\ Has(k, n)
    BY <1>11, <1>12
  <1>14. k \in Seq(Char) /\ DOMAIN k = 1..Len(k) /\ Len(k) \in Nat
    BY <1>13 DEF V
  <1>15. ToSet(s) = {s[j] : j \in 1..n}
    <2>1. DOMAIN s = 1..n
      BY <1>1
    <2> QED BY <2>1 DEF ToSet
  <1>16. Len(k) <= Budget
    BY <1>13, <1>15 DEF Fits, Distinct
  <1>17. ASSUME NEW j \in 1..n PROVE \E code \in 1..Len(k) : k[code] = s[j]
    <2>1. s[j] \in ToSet(k)
      BY <1>13
    <2> QED BY <1>14, <2>1 DEF ToSet
  <1> QED BY <1>9, <1>13, <1>14, <1>16, <1>17

\* The first of some segments is the text that follows, and the others come after it.
LEMMA FirstFollows ==
  ASSUME NEW s \in Seq(Char), NEW segs \in Seq(Seq(Char)), segs # <<>>, NEW a, NEW b, Follow(segs, s, a, b)
  PROVE  /\ a \in 0..Len(s) /\ b \in 0..Len(s) /\ Len(segs[1]) \in Nat /\ a + Len(segs[1]) \in 0..Len(s)
         /\ \A j \in 1..Len(segs[1]) : segs[1][j] = s[a + j]
         /\ Follow(Tail(segs), s, a + Len(segs[1]), b)
  <1>1. PICK f : Placed(f, segs, s, a, b)
    BY DEF Follow
  <1>2. PICK n \in Nat : n = Len(segs) - 1 /\ Len(segs) = n + 1
    <2>1. Len(segs) \in Nat /\ Len(segs) >= 1
      OBVIOUS
    <2>2. Len(segs) - 1 \in Nat /\ Len(segs) = (Len(segs) - 1) + 1
      BY <2>1
    <2> QED BY <2>2
  <1>3. f \in [0..(n + 1) -> 0..Len(s)] /\ f[0] = a /\ f[n + 1] = b
        /\ \A k \in 1..(n + 1) :
             f[k] = f[k - 1] + Len(segs[k]) /\ \A j \in 1..Len(segs[k]) : segs[k][j] = s[f[k - 1] + j]
    BY <1>1, <1>2 DEF Placed
  <1>4. 1 \in 1..(n + 1) /\ 1 - 1 = 0 /\ 0 \in 0..(n + 1) /\ 1 \in 0..(n + 1) /\ n + 1 \in 0..(n + 1)
    OBVIOUS
  <1>5. f[1] = a + Len(segs[1]) /\ \A j \in 1..Len(segs[1]) : segs[1][j] = s[a + j]
    BY <1>3, <1>4
  <1>6. f[0] \in 0..Len(s) /\ f[1] \in 0..Len(s) /\ f[n + 1] \in 0..Len(s)
    BY <1>3, <1>4
  <1>7. PICK q \in Seq(Seq(Char)) : q = Tail(segs)
    <2>1. Tail(segs) \in Seq(Seq(Char))
      OBVIOUS
    <2> QED BY <2>1
  <1>8. Len(q) = n /\ \A k \in 1..n : q[k] = segs[k + 1]
    BY <1>2, <1>7
  <1> DEFINE g == [k \in 0..n |-> f[k + 1]]
  <1>9. g \in [0..n -> 0..Len(s)]
    <2>1. \A k \in 0..n : k + 1 \in 0..(n + 1)
      OBVIOUS
    <2> QED BY <1>3, <2>1
  <1>10. g[0] = f[1] /\ g[n] = f[n + 1]
    <2>1. 0 \in 0..n /\ n \in 0..n /\ 0 + 1 = 1
      OBVIOUS
    <2> QED BY <2>1
  <1>11. ASSUME NEW k \in 1..n
         PROVE  g[k] = g[k - 1] + Len(q[k]) /\ \A j \in 1..Len(q[k]) : q[k][j] = s[g[k - 1] + j]
    <2>1. k + 1 \in 1..(n + 1) /\ (k + 1) - 1 = k /\ k \in 0..n /\ k - 1 \in 0..n /\ (k - 1) + 1 = k
      OBVIOUS
    <2>2. g[k] = f[k + 1] /\ g[k - 1] = f[k] /\ q[k] = segs[k + 1]
      BY <1>8, <2>1
    <2> HIDE DEF g
    <2>3. PICK m \in 1..(n + 1) : m = k + 1 /\ m - 1 = k
      BY <2>1
    <2>4. f[m] = f[m - 1] + Len(segs[m]) /\ \A j \in 1..Len(segs[m]) : segs[m][j] = s[f[m - 1] + j]
      BY <1>3
    <2> QED BY <2>2, <2>3, <2>4
  <1> HIDE DEF g
  <1>12. Placed(g, q, s, f[1], b)
    BY <1>3, <1>8, <1>9, <1>10, <1>11 DEF Placed
  <1>13. Follow(q, s, f[1], b)
    BY <1>12 DEF Follow
  <1>14. Len(segs[1]) \in Nat
    <2>1. segs[1] \in Seq(Char)
      BY <1>2
    <2> QED BY <2>1
  <1> QED BY <1>3, <1>5, <1>6, <1>7, <1>13, <1>14

LEMMA NoneFollow ==
  ASSUME NEW s, NEW a, NEW b, Follow(<<>>, s, a, b)
  PROVE  a = b
  <1>1. Len(<<>>) = 0
    OBVIOUS
  <1> QED BY <1>1 DEF Follow, Placed

TypingTypes ==
  /\ text \in Seq(Char) /\ segments \in Seq(Seq(Char)) /\ toTap \in Seq(Char) /\ keymap \in Seq(Char)
  /\ unread \in Seq(Nat) /\ readText \in Seq(Char)
  /\ typist \in {"keymap", "tap", "pause", "end"}

\* What was read is the text so far, and what was tapped and not read comes next.
Reads ==
  /\ Len(readText) + Len(unread) <= Len(text)
  /\ \A i \in 1..Len(readText) : readText[i] = text[i]
  /\ \A i \in 1..Len(unread) :
       unread[i] \in 1..Len(keymap) /\ keymap[unread[i]] = text[Len(readText) + i]

\* What was not tapped comes after it: a segment half tapped, which has its keys, and
\* the segments that follow, for which the keymap is changed when all was read.
Remains ==
  LET at == Len(readText) + Len(unread)
  IN  /\ \A k \in 1..Len(segments) : Fits(segments[k])
      /\ typist \in {"keymap", "pause"} => Follow(segments, text, at, Len(text))
      /\ typist = "keymap" => unread = <<>>
      /\ typist = "tap" =>
           /\ segments # <<>> /\ Len(keymap) <= Budget /\ at + Len(toTap) <= Len(text)
           /\ \A j \in 1..Len(toTap) :
                toTap[j] = text[at + j] /\ \E code \in 1..Len(keymap) : keymap[code] = toTap[j]
           /\ Follow(Tail(segments), text, at + Len(toTap), Len(text))
      /\ typist = "end" => at = Len(text)

TypingInv == TypingTypes /\ Reads /\ Remains

LEMMA TypingInitial == TypingInit => TypingInv
  <1> SUFFICES ASSUME TypingInit PROVE TypingInv
    OBVIOUS
  <1>1. /\ segments = Segments(text) /\ typist = "keymap" /\ keymap = <<>> /\ toTap = <<>>
        /\ unread = <<>> /\ readText = <<>>
    BY DEF TypingInit
  <1>2. text \in Seq(Char)
    BY DEF TypingInit
  <1>3. /\ segments \in Seq(Seq(Char)) /\ Follow(segments, text, 0, Len(text))
        /\ \A k \in 1..Len(segments) : Fits(segments[k])
    BY <1>1, <1>2, SegmentsFollow
  <1>4. /\ <<>> \in Seq(Char) /\ <<>> \in Seq(Nat) /\ Len(<<>>) = 0 /\ Len(text) \in Nat
        /\ \A i \in 1..0 : FALSE
    BY <1>2
  <1>5. 0 + 0 = 0 /\ 0 <= Len(text)
    BY <1>4
  <1>6. TypingTypes
    BY <1>1, <1>2, <1>3, <1>4 DEF TypingTypes
  <1>7. Reads
    BY <1>1, <1>4, <1>5 DEF Reads
  <1>8. Remains
    BY <1>1, <1>3, <1>4, <1>5 DEF Remains
  <1> QED BY <1>6, <1>7, <1>8 DEF TypingInv

LEMMA TypingLengths ==
  ASSUME TypingInv
  PROVE  /\ Len(readText) \in Nat /\ Len(unread) \in Nat /\ Len(text) \in Nat /\ Len(toTap) \in Nat
         /\ Len(readText) + Len(unread) \in Nat
  BY DEF TypingInv, TypingTypes

LEMMA InstallKeeps == ASSUME TypingInv, InstallKeymap PROVE TypingInv'
  <1> DEFINE first == segments[1]
  <1>1. /\ typist = "keymap" /\ segments # <<>> /\ keymap' = KeymapOf(Head(segments))
        /\ toTap' = Head(segments) /\ typist' = "tap"
        /\ text' = text /\ segments' = segments /\ unread' = unread /\ readText' = readText
    BY DEF InstallKeymap
  <1>2. /\ text \in Seq(Char) /\ segments \in Seq(Seq(Char)) /\ unread \in Seq(Nat) /\ readText \in Seq(Char)
    BY DEF TypingInv, TypingTypes
  <1>3. /\ unread = <<>> /\ Follow(segments, text, Len(readText) + Len(unread), Len(text))
        /\ \A k \in 1..Len(segments) : Fits(segments[k])
    BY <1>1 DEF TypingInv, Remains
  <1>4. Head(segments) = first /\ 1 \in 1..Len(segments)
    BY <1>1, <1>2
  <1>5. Fits(first)
    BY <1>3, <1>4
  <1>6. /\ KeymapOf(first) \in Seq(Char) /\ Len(KeymapOf(first)) <= Budget
        /\ \A j \in 1..Len(first) : \E code \in 1..Len(KeymapOf(first)) : KeymapOf(first)[code] = first[j]
    BY <1>5, KeymapHas
  <1>7. PICK at : at = Len(readText) + Len(unread)
    OBVIOUS
  <1>8. /\ at + Len(first) \in 0..Len(text) /\ (\A j \in 1..Len(first) : first[j] = text[at + j])
        /\ Follow(Tail(segments), text, at + Len(first), Len(text))
    BY <1>1, <1>2, <1>3, <1>7, FirstFollows
  <1>9. at + Len(first) <= Len(text)
    BY <1>8
  <1>10. TypingTypes'
    BY <1>1, <1>2, <1>4, <1>5, <1>6 DEF TypingTypes, Fits
  <1>11. Reads'
    <2>1. \A i \in 1..Len(<<>>) : FALSE
      OBVIOUS
    <2> QED BY <1>1, <1>3, <2>1 DEF TypingInv, Reads
  <1>12. Remains'
    <2>1. at = Len(readText') + Len(unread')
      BY <1>1, <1>7
    <2> HIDE DEF first
    <2> QED BY <1>1, <1>3, <1>4, <1>6, <1>8, <1>9, <2>1 DEF Remains
  <1> QED BY <1>10, <1>11, <1>12 DEF TypingInv

LEMMA TapKeeps == ASSUME TypingInv, Tap PROVE TypingInv'
  <1> DEFINE c == Head(toTap)
  <1>1. /\ typist = "tap" /\ toTap # <<>> /\ toTap' = Tail(toTap)
        /\ unread' = IF KeysFor(c) = {} THEN unread ELSE Append(unread, CHOOSE code \in KeysFor(c) : TRUE)
        /\ text' = text /\ segments' = segments /\ typist' = typist /\ keymap' = keymap /\ readText' = readText
    BY DEF Tap
  <1>2. /\ text \in Seq(Char) /\ segments \in Seq(Seq(Char)) /\ unread \in Seq(Nat) /\ readText \in Seq(Char)
        /\ toTap \in Seq(Char) /\ keymap \in Seq(Char) /\ DOMAIN keymap = 1..Len(keymap)
        /\ Budget \in Nat /\ Len(keymap) \in Nat
    BY TypingAssumption DEF TypingInv, TypingTypes
  <1>3. PICK r \in Nat : r = Len(readText)
    BY TypingLengths
  <1>4. PICK u \in Nat : u = Len(unread)
    BY TypingLengths
  <1>5. PICK n \in Nat : n = Len(text)
    BY TypingLengths
  <1>6. PICK m \in Nat : m + 1 = Len(toTap)
    <2>1. Len(toTap) \in Nat /\ Len(toTap) >= 1
      BY <1>1, <1>2
    <2>2. Len(toTap) - 1 \in Nat /\ (Len(toTap) - 1) + 1 = Len(toTap)
      BY <2>1
    <2> QED BY <2>2
  <1>7. /\ Len(keymap) <= Budget /\ (r + u) + (m + 1) <= n /\ segments # <<>>
        /\ \A j \in 1..(m + 1) :
             toTap[j] = text[(r + u) + j] /\ \E code \in 1..Len(keymap) : keymap[code] = toTap[j]
        /\ Follow(Tail(segments), text, (r + u) + (m + 1), n)
        /\ \A k \in 1..Len(segments) : Fits(segments[k])
    BY <1>1, <1>3, <1>4, <1>5, <1>6 DEF TypingInv, Remains
  <1>8. c = toTap[1] /\ 1 \in 1..(m + 1)
    BY <1>1, <1>2
  <1>9. PICK t \in Seq(Char) : t = Tail(toTap) /\ Len(t) = m /\ \A j \in 1..m : t[j] = toTap[j + 1]
    <2>1. Tail(toTap) \in Seq(Char) /\ Len(Tail(toTap)) = Len(toTap) - 1
          /\ \A j \in 1..(Len(toTap) - 1) : Tail(toTap)[j] = toTap[j + 1]
      BY <1>1, <1>2
    <2>2. Len(toTap) - 1 = m
      BY <1>6
    <2> QED BY <2>1, <2>2
  <1>10. PICK code \in 1..Len(keymap) :
           keymap[code] = c /\ keymap[code] = text[(r + u) + 1] /\ unread' = Append(unread, code)
    <2>1. c = text[(r + u) + 1] /\ \E code \in 1..Len(keymap) : keymap[code] = c
      BY <1>7, <1>8
    <2>2. PICK a \in 1..Len(keymap) : keymap[a] = c
      BY <2>1
    <2>3. a <= Budget
      BY <1>2, <1>7
    <2>4. a \in KeysFor(c)
      BY <1>2, <2>2, <2>3 DEF KeysFor
    <2>5. PICK code : code = CHOOSE x \in KeysFor(c) : TRUE
      OBVIOUS
    <2>6. code \in KeysFor(c)
      BY <2>4, <2>5
    <2>7. code \in 1..Len(keymap) /\ keymap[code] = c
      BY <1>2, <2>6 DEF KeysFor
    <2>8. unread' = Append(unread, code)
      BY <1>1, <2>4, <2>5
    <2> QED BY <2>1, <2>7, <2>8
  <1>11. PICK v \in Seq(Nat) :
           v = unread' /\ Len(v) = u + 1 /\ (\A i \in 1..u : v[i] = unread[i]) /\ v[u + 1] = code
    <2>1. code \in Nat
      OBVIOUS
    <2>2. PICK q \in Seq(Nat) : q = unread
      BY <1>2
    <2>3. /\ Append(q, code) \in Seq(Nat) /\ Len(Append(q, code)) = Len(q) + 1
          /\ Append(q, code)[Len(q) + 1] = code
          /\ \A i \in 1..Len(q) : Append(q, code)[i] = q[i]
      BY <2>1
    <2>4. unread' = Append(q, code) /\ Len(q) = u
      BY <1>4, <1>10, <2>2
    <2> QED BY <2>2, <2>3, <2>4
  <1>12. TypingTypes'
    BY <1>1, <1>2, <1>9, <1>11 DEF TypingInv, TypingTypes
  <1>13. Reads'
    <2>1. r + (u + 1) <= n
      BY <1>7
    <2>2. \A i \in 1..u : v[i] \in 1..Len(keymap) /\ keymap[v[i]] = text[r + i]
      BY <1>3, <1>4, <1>11 DEF TypingInv, Reads
    <2>3. v[u + 1] \in 1..Len(keymap) /\ keymap[v[u + 1]] = text[r + (u + 1)]
      <3>1. (r + u) + 1 = r + (u + 1)
        OBVIOUS
      <3> QED BY <1>10, <1>11, <3>1
    <2>4. \A i \in 1..(u + 1) : i \in 1..u \/ i = u + 1
      OBVIOUS
    <2>5. \A i \in 1..Len(v) : v[i] \in 1..Len(keymap) /\ keymap[v[i]] = text[r + i]
      BY <1>11, <2>2, <2>3, <2>4
    <2>6. \A i \in 1..Len(readText) : readText[i] = text[i]
      BY DEF TypingInv, Reads
    <2> QED BY <1>1, <1>3, <1>5, <1>11, <2>1, <2>5, <2>6 DEF Reads
  <1>14. Remains'
    <2>1. (r + (u + 1)) + m = (r + u) + (m + 1)
      OBVIOUS
    <2>2. ASSUME NEW j \in 1..m
          PROVE  t[j] = text[(r + (u + 1)) + j] /\ \E x \in 1..Len(keymap) : keymap[x] = t[j]
      <3>1. j + 1 \in 1..(m + 1) /\ (r + (u + 1)) + j = (r + u) + (j + 1)
        OBVIOUS
      <3>2. PICK i \in 1..(m + 1) : i = j + 1
        BY <3>1
      <3>3. toTap[i] = text[(r + u) + i] /\ \E x \in 1..Len(keymap) : keymap[x] = toTap[i]
        BY <1>7
      <3> QED BY <1>9, <3>1, <3>2, <3>3
    <2>3. PICK at : at = r + (u + 1)
      OBVIOUS
    <2>4. at = Len(readText') + Len(unread')
      BY <1>1, <1>3, <1>11, <2>3
    <2>5. /\ at + m <= n /\ Follow(Tail(segments), text, at + m, n)
          /\ \A j \in 1..m : t[j] = text[at + j] /\ \E x \in 1..Len(keymap) : keymap[x] = t[j]
      BY <1>7, <2>1, <2>2, <2>3
    <2> QED BY <1>1, <1>5, <1>7, <1>9, <2>4, <2>5 DEF Remains
  <1> QED BY <1>12, <1>13, <1>14 DEF TypingInv

LEMMA SegmentKeeps == ASSUME TypingInv, SegmentTyped PROVE TypingInv'
  <1>1. /\ typist = "tap" /\ toTap = <<>> /\ segments' = Tail(segments)
        /\ typist' = IF Tail(segments) = <<>> THEN "end" ELSE "pause"
        /\ text' = text /\ keymap' = keymap /\ toTap' = toTap /\ unread' = unread /\ readText' = readText
    BY DEF SegmentTyped
  <1>2. segments \in Seq(Seq(Char)) /\ segments # <<>> /\ \A k \in 1..Len(segments) : Fits(segments[k])
    BY <1>1 DEF TypingInv, TypingTypes, Remains
  <1>3. PICK q \in Seq(Seq(Char)) : q = Tail(segments)
    <2>1. Tail(segments) \in Seq(Seq(Char))
      BY <1>2
    <2> QED BY <2>1
  <1>4. \A k \in 1..Len(q) : Fits(q[k])
    <2>1. \A k \in 1..Len(q) : k + 1 \in 1..Len(segments) /\ q[k] = segments[k + 1]
      BY <1>2, <1>3
    <2> QED BY <1>2, <2>1
  <1>5. PICK at \in Nat : at = Len(readText) + Len(unread)
    BY TypingLengths
  <1>6. Follow(q, text, at, Len(text))
    <2>1. Follow(q, text, at + Len(toTap), Len(text))
      BY <1>1, <1>3, <1>5 DEF TypingInv, Remains
    <2>2. Len(toTap) = 0 /\ at + 0 = at
      BY <1>1
    <2> QED BY <2>1, <2>2
  <1>7. q = <<>> => at = Len(text)
    BY <1>6, NoneFollow
  <1>8. TypingTypes' /\ Reads'
    BY <1>1, <1>3 DEF TypingInv, TypingTypes, Reads
  <1>9. Remains'
    BY <1>1, <1>3, <1>4, <1>5, <1>6, <1>7 DEF Remains
  <1> QED BY <1>8, <1>9 DEF TypingInv

LEMMA ReadKeeps == ASSUME TypingInv, ReadKey PROVE TypingInv'
  <1>1. /\ unread # <<>> /\ unread' = Tail(unread)
        /\ readText' = Append(readText, IF Head(unread) \in DOMAIN keymap THEN keymap[Head(unread)]
                                        ELSE "layout")
        /\ text' = text /\ segments' = segments /\ typist' = typist /\ keymap' = keymap /\ toTap' = toTap
    BY DEF ReadKey
  <1>2. /\ unread \in Seq(Nat) /\ readText \in Seq(Char) /\ keymap \in Seq(Char) /\ DOMAIN keymap = 1..Len(keymap)
    BY DEF TypingInv, TypingTypes
  <1>3. PICK r \in Nat : r = Len(readText)
    BY TypingLengths
  <1>4. PICK u \in Nat : u + 1 = Len(unread)
    <2>1. Len(unread) \in Nat /\ Len(unread) >= 1
      BY <1>1, <1>2
    <2>2. Len(unread) - 1 \in Nat /\ (Len(unread) - 1) + 1 = Len(unread)
      BY <2>1
    <2> QED BY <2>2
  <1>5. /\ r + (u + 1) <= Len(text) /\ (\A i \in 1..r : readText[i] = text[i])
        /\ \A i \in 1..(u + 1) : unread[i] \in 1..Len(keymap) /\ keymap[unread[i]] = text[r + i]
    BY <1>3, <1>4 DEF TypingInv, Reads
  <1>6. PICK c \in Char : c = text[r + 1] /\ readText' = Append(readText, c)
    <2>1. Head(unread) = unread[1] /\ 1 \in 1..(u + 1)
      BY <1>1, <1>2
    <2>2. unread[1] \in DOMAIN keymap /\ keymap[unread[1]] = text[r + 1]
      BY <1>2, <1>5, <2>1
    <2>3. keymap[unread[1]] \in Char
      BY <1>2, <2>2
    <2> QED BY <1>1, <2>1, <2>2, <2>3
  <1>7. PICK w \in Seq(Char) :
          w = readText' /\ Len(w) = r + 1 /\ (\A i \in 1..r : w[i] = readText[i]) /\ w[r + 1] = c
    <2>1. /\ Append(readText, c) \in Seq(Char) /\ Len(Append(readText, c)) = Len(readText) + 1
          /\ \A i \in 1..Len(readText) : Append(readText, c)[i] = readText[i]
          /\ Append(readText, c)[Len(readText) + 1] = c
      BY <1>2
    <2> QED BY <1>3, <1>6, <2>1
  <1>8. PICK v \in Seq(Nat) : v = unread' /\ Len(v) = u /\ \A i \in 1..u : v[i] = unread[i + 1]
    <2>1. Tail(unread) \in Seq(Nat) /\ Len(Tail(unread)) = Len(unread) - 1
          /\ \A j \in 1..(Len(unread) - 1) : Tail(unread)[j] = unread[j + 1]
      BY <1>1, <1>2
    <2>2. Len(unread) - 1 = u
      BY <1>4
    <2> QED BY <1>1, <2>1, <2>2
  <1>9. (r + 1) + u = r + (u + 1)
    OBVIOUS
  <1>10. TypingTypes'
    BY <1>1, <1>7, <1>8 DEF TypingInv, TypingTypes
  <1>11. Reads'
    <2>1. \A i \in 1..(r + 1) : i \in 1..r \/ i = r + 1
      OBVIOUS
    <2>2. \A i \in 1..(r + 1) : w[i] = text[i]
      BY <1>5, <1>6, <1>7, <2>1
    <2>3. ASSUME NEW i \in 1..u PROVE v[i] \in 1..Len(keymap) /\ keymap[v[i]] = text[(r + 1) + i]
      <3>1. i + 1 \in 1..(u + 1) /\ (r + 1) + i = r + (i + 1)
        OBVIOUS
      <3>2. PICK k \in 1..(u + 1) : k = i + 1
        BY <3>1
      <3>3. unread[k] \in 1..Len(keymap) /\ keymap[unread[k]] = text[r + k]
        BY <1>5
      <3> QED BY <1>8, <3>1, <3>2, <3>3
    <2>4. (r + 1) + u <= Len(text)
      BY <1>5, <1>9
    <2> QED BY <1>1, <1>7, <1>8, <2>2, <2>3, <2>4 DEF Reads
  <1>12. Remains'
    <2>1. Len(readText') + Len(unread') = Len(readText) + Len(unread)
      BY <1>3, <1>4, <1>7, <1>8, <1>9
    <2>2. typist # "keymap"
      BY <1>1 DEF TypingInv, Remains
    <2>3. PICK at : at = Len(readText) + Len(unread)
      OBVIOUS
    <2> QED BY <1>1, <2>1, <2>2, <2>3 DEF TypingInv, Remains
  <1> QED BY <1>10, <1>11, <1>12 DEF TypingInv

LEMMA TypingStep == ASSUME TypingInv, [TypingNext]_typingVars PROVE TypingInv'
  <1>1. CASE Pause
    BY <1>1 DEF Pause, TypingInv, TypingTypes, Reads, Remains
  <1>2. CASE UNCHANGED typingVars
    BY <1>2 DEF typingVars, TypingInv, TypingTypes, Reads, Remains
  <1> QED BY <1>1, <1>2, InstallKeeps, TapKeeps, SegmentKeeps, ReadKeeps DEF TypingNext

LEMMA TypedIsGiven == TypingInv => TypedAsGiven
  <1> SUFFICES ASSUME TypingInv PROVE TypedAsGiven
    OBVIOUS
  <1>1. /\ readText \in Seq(Char) /\ text \in Seq(Char) /\ Len(readText) \in Nat /\ Len(text) \in Nat
        /\ Len(readText) <= Len(text) /\ \A i \in 1..Len(readText) : readText[i] = text[i]
    <2>1. Len(readText) + Len(unread) <= Len(text)
      BY DEF TypingInv, Reads
    <2>2. Len(readText) <= Len(text)
      BY <2>1, TypingLengths
    <2> QED BY <2>2, TypingLengths DEF TypingInv, TypingTypes, Reads
  <1>2. SubSeq(readText, 1, Len(readText)) = SubSeq(text, 1, Len(readText))
    BY <1>1
  <1>3. ASSUME typist = "end", unread = <<>> PROVE readText = text
    <2>1. Len(readText) + Len(unread) = Len(text) /\ Len(unread) = 0
      BY <1>3 DEF TypingInv, Remains
    <2>2. Len(readText) = Len(text)
      BY <1>1, <2>1
    <2> QED BY <1>1, <2>2
  <1> QED BY <1>1, <1>2, <1>3 DEF TypedAsGiven, IsPrefix

\* TypedAsGiven: what the client reads is the text, for any text and any number of
\* keycodes, however late it reads (cosmo-type lib.rs type_text, segment_by_distinct).
THEOREM TypedIsRead == TypingSpec => []TypedAsGiven
  <1>1. TypingInv /\ [TypingNext]_typingVars => TypingInv'
    BY TypingStep
  <1> QED BY <1>1, TypingInitial, TypedIsGiven, PTL DEF TypingSpec

-----------------------------------------------------------------------------
(* Exec lines *)

\* What an Exec line is made of.
Sign == ExecChar \cup {"_", "q", "e", "%", "u", "url"}
Signs == Seq(Sign)

\* The reader of an Exec line where nothing is wrong so far.
Reading(args, arg, in, placed) ==
  [args |-> args, arg |-> arg, in |-> in, placed |-> placed, bad |-> FALSE]

\* Reading c, or the piece p, leads from a to b.
TakesTo(url, a, c, b) == Take(a, c, url) = b
Runs(url, a, p, b) ==
  \E k : /\ k = [i \in 0..Len(p) |-> k[i]] /\ k[0] = a /\ k[Len(p)] = b
         /\ \A i \in 1..Len(p) : k[i] = Take(k[i - 1], p[i], url)

LEMMA RunNone ==
  ASSUME NEW url, NEW a PROVE Runs(url, a, <<>>, a)
  <1> DEFINE k == [i \in 0..0 |-> a]
  <1>1. k = [i \in 0..0 |-> k[i]] /\ k[0] = a /\ Len(<<>>) = 0
    OBVIOUS
  <1> DEFINE p == <<>>
  <1>2. Len(p) = 0
    OBVIOUS
  <1> HIDE DEF k, p
  <1>3. \A i \in 1..Len(p) : k[i] = Take(k[i - 1], p[i], url)
    BY <1>2
  <1>4. Runs(url, a, p, a)
    BY <1>1, <1>2, <1>3 DEF Runs
  <1> QED BY <1>4 DEF p

LEMMA RunOne ==
  ASSUME NEW url, NEW a, NEW b, NEW c \in Sign, TakesTo(url, a, c, b) PROVE Runs(url, a, <<c>>, b)
  <1> DEFINE k == [i \in 0..1 |-> IF i = 0 THEN a ELSE Take(a, c, url)]
             p == <<c>>
  <1>1. Len(p) = 1 /\ p[1] = c
    OBVIOUS
  <1>2. k[0] = a /\ k[1] = Take(a, c, url) /\ k = [i \in 0..1 |-> k[i]]
    OBVIOUS
  <1> HIDE DEF k, p
  <1>3. \A i \in 1..Len(p) : k[i] = Take(k[i - 1], p[i], url)
    <2> SUFFICES ASSUME NEW i \in 1..Len(p) PROVE k[i] = Take(k[i - 1], p[i], url)
      OBVIOUS
    <2>1. i = 1 /\ i - 1 = 0
      BY <1>1
    <2> QED BY <1>1, <1>2, <2>1
  <1>4. Runs(url, a, p, b)
    BY <1>1, <1>2, <1>3 DEF Runs, TakesTo
  <1> QED BY <1>4 DEF p

LEMMA RunConcat ==
  ASSUME NEW url, NEW a, NEW b, NEW c, NEW p \in Signs, NEW q \in Signs,
         Runs(url, a, p, b), Runs(url, b, q, c)
  PROVE  Runs(url, a, p \o q, c)
  <1> DEFINE m == Len(p)
             n == Len(q)
             r == p \o q
  <1>1. PICK k : /\ k = [i \in 0..m |-> k[i]] /\ k[0] = a /\ k[m] = b
                 /\ \A i \in 1..m : k[i] = Take(k[i - 1], p[i], url)
    BY DEF Runs
  <1>2. PICK h : /\ h = [i \in 0..n |-> h[i]] /\ h[0] = b /\ h[n] = c
                 /\ \A i \in 1..n : h[i] = Take(h[i - 1], q[i], url)
    BY DEF Runs
  <1>3. /\ m \in Nat /\ n \in Nat /\ Len(r) = m + n /\ (\A i \in 1..m : r[i] = p[i])
        /\ \A i \in 1..n : r[m + i] = q[i]
    BY DEF Signs
  <1> HIDE DEF m, n, r
  <1> DEFINE f == [i \in 0..(m + n) |-> IF i <= m THEN k[i] ELSE h[i - m]]
  <1>4. f = [i \in 0..(m + n) |-> f[i]] /\ \A i \in 0..(m + n) : f[i] = IF i <= m THEN k[i] ELSE h[i - m]
    OBVIOUS
  <1> HIDE DEF f
  <1>5. f[0] = a /\ f[m + n] = c
    <2>1. f[0] = k[0]
      BY <1>3, <1>4
    <2>2. CASE n = 0
      <3>1. f[m + n] = k[m] /\ h[n] = h[0]
        BY <1>3, <1>4, <2>2
      <3> QED BY <1>1, <1>2, <2>1, <3>1
    <2>3. CASE n # 0
      <3>1. f[m + n] = h[n]
        <4>1. m + n \in 0..(m + n) /\ ~(m + n <= m) /\ (m + n) - m = n
          BY <1>3, <2>3
        <4> QED BY <1>4, <4>1
      <3> QED BY <1>1, <1>2, <2>1, <3>1
    <2> QED BY <2>2, <2>3
  <1>6. ASSUME NEW i \in 1..(m + n) PROVE f[i] = Take(f[i - 1], r[i], url)
    <2>1. i \in 0..(m + n) /\ i - 1 \in 0..(m + n)
      BY <1>3
    <2>2. CASE i <= m
      <3>1. i \in 1..m /\ i - 1 <= m
        BY <1>3, <2>2
      <3>2. f[i] = k[i] /\ f[i - 1] = k[i - 1] /\ r[i] = p[i]
        BY <1>3, <1>4, <2>1, <2>2, <3>1
      <3>3. k[i] = Take(k[i - 1], p[i], url)
        BY <1>1, <3>1
      <3> QED BY <3>2, <3>3
    <2>3. CASE ~(i <= m)
      <3>1. PICK j \in 1..n : i = m + j
        <4>1. i - m \in 1..n /\ i = m + (i - m)
          BY <1>3, <2>3
        <4> QED BY <4>1
      <3>2. f[i] = h[j] /\ r[i] = q[j]
        <4>1. i - m = j
          BY <1>3, <3>1
        <4> QED BY <1>3, <1>4, <2>1, <2>3, <3>1, <4>1
      <3>3. f[i - 1] = h[j - 1]
        <4>1. CASE j = 1
          <5>1. i - 1 = m /\ m <= m /\ j - 1 = 0
            BY <1>3, <3>1, <4>1
          <5>2. f[i - 1] = k[m]
            BY <1>4, <2>1, <5>1
          <5> QED BY <1>1, <1>2, <5>1, <5>2
        <4>2. CASE j # 1
          <5>1. ~(i - 1 <= m) /\ (i - 1) - m = j - 1
            BY <1>3, <3>1, <4>2
          <5> QED BY <1>4, <2>1, <5>1
        <4> QED BY <4>1, <4>2
      <3>4. h[j] = Take(h[j - 1], q[j], url)
        BY <1>2
      <3> QED BY <3>2, <3>3, <3>4
    <2> QED BY <2>2, <2>3
  <1>7. Runs(url, a, r, c)
    BY <1>3, <1>4, <1>5, <1>6 DEF Runs
  <1> QED BY <1>7 DEF r

LEMMA TwoSigns ==
  ASSUME NEW c \in Sign, NEW d \in Sign
  PROVE  <<c>> \in Signs /\ <<d>> \in Signs /\ <<c>> \o <<d>> = <<c, d>>
  <1> DEFINE x == <<c>>
             y == <<d>>
             z == <<c, d>>
  <1>1. x \in Seq(Sign) /\ y \in Seq(Sign) /\ z \in Seq(Sign)
    OBVIOUS
  <1>2. Len(x) = 1 /\ x[1] = c /\ Len(y) = 1 /\ y[1] = d /\ Len(z) = 2 /\ z[1] = c /\ z[2] = d
    OBVIOUS
  <1> HIDE DEF x, y, z
  <1>3. x \o y \in Seq(Sign)
    BY <1>1, ConcatTyped, Zenon
  <1>4. /\ Len(x \o y) = Len(x) + Len(y)
        /\ \A i \in 1..Len(x) : (x \o y)[i] = x[i]
        /\ \A i \in 1..Len(y) : (x \o y)[Len(x) + i] = y[i]
    BY <1>1
  <1>5. PICK xy : xy = x \o y
    OBVIOUS
  <1>6. xy \in Seq(Sign) /\ Len(xy) = Len(z) /\ \A i \in 1..Len(xy) : xy[i] = z[i]
    <2>1. xy \in Seq(Sign) /\ Len(xy) = 2
      BY <1>2, <1>3, <1>4, <1>5
    <2>2. xy[1] = x[1] /\ xy[1 + 1] = y[1]
      BY <1>2, <1>4, <1>5
    <2>3. \A i \in 1..Len(xy) : i = 1 \/ i = 2
      BY <2>1
    <2> QED BY <1>2, <2>1, <2>2, <2>3
  <1>7. xy = z
    BY <1>1, <1>6, SameSequence, Zenon
  <1> QED BY <1>1, <1>5, <1>7 DEF x, y, z, Signs

LEMMA RunTwo ==
  ASSUME NEW url, NEW a, NEW b, NEW e, NEW c \in Sign, NEW d \in Sign,
         TakesTo(url, a, c, b), TakesTo(url, b, d, e)
  PROVE  Runs(url, a, <<c, d>>, e)
  <1>1. <<c>> \in Signs /\ <<d>> \in Signs /\ <<c>> \o <<d>> = <<c, d>>
    BY TwoSigns, Zenon
  <1>2. Runs(url, a, <<c>>, b) /\ Runs(url, b, <<d>>, e)
    BY RunOne, Zenon
  <1>3. Runs(url, a, <<c>> \o <<d>>, e)
    BY <1>1, <1>2, RunConcat, Zenon
  <1> QED BY <1>1, <1>3

\* Piece after piece.
LEMMA RunPieces ==
  ASSUME NEW url, NEW ss \in Seq(Signs), NEW g,
         \A i \in 1..Len(ss) : Runs(url, g[i - 1], ss[i], g[i])
  PROVE  Runs(url, g[0], FlattenSeq(ss), g[Len(ss)])
  <1> DEFINE n == Len(ss)
  <1>1. n \in Nat /\ \A i \in 1..n : ss[i] \in Signs
    OBVIOUS
  <1>2. PICK f : Joins(f, ss, Sign) /\ FlattenSeq(ss) = f[n]
    BY FlattenSteps DEF Signs
  <1>3. f[0] = <<>> /\ (\A i \in 0..n : f[i] \in Signs) /\ \A i \in 1..n : f[i] = f[i - 1] \o ss[i]
    BY <1>2 DEF Joins, Signs
  <1> HIDE DEF n
  <1> DEFINE T == {i \in 0..n : Runs(url, g[0], f[i], g[i])}
  <1>4. 0 \in T
    BY <1>1, <1>3, RunNone
  <1>5. ASSUME NEW i \in 0..(n - 1), i \in T PROVE i + 1 \in T
    <2>1. i + 1 \in 1..n /\ i + 1 \in 0..n /\ (i + 1) - 1 = i /\ i \in 0..n
      BY <1>1
    <2>2. Runs(url, g[i], ss[i + 1], g[i + 1]) /\ f[i + 1] = f[i] \o ss[i + 1]
      <3>1. Runs(url, g[(i + 1) - 1], ss[i + 1], g[i + 1]) /\ f[i + 1] = f[(i + 1) - 1] \o ss[i + 1]
        BY <1>3, <2>1, Zenon DEF n
      <3> QED BY <2>1, <3>1
    <2>3. f[i] \in Signs /\ ss[i + 1] \in Signs /\ Runs(url, g[0], f[i], g[i])
      BY <1>1, <1>3, <1>5, <2>1
    <2>4. Runs(url, g[0], f[i] \o ss[i + 1], g[i + 1])
      BY <2>2, <2>3, RunConcat, Zenon
    <2> QED BY <2>1, <2>2, <2>4
  <1>6. 0..n \subseteq T
    BY <1>1, <1>4, <1>5, NumbersUpTo, Zenon
  <1>7. n \in 0..n
    BY <1>1
  <1>8. Runs(url, g[0], f[n], g[n])
    BY <1>6, <1>7
  <1> QED BY <1>2, <1>8 DEF n

\* split_exec_url reads as Runs says.
LEMMA SplitRuns ==
  ASSUME NEW url, NEW line \in Signs, NEW last, Runs(url, Start, line, last)
  PROVE  SplitExec(line, url) =
           IF last.bad \/ last.in # "plain" \/ Ended(last).args = <<>> THEN NotStarted
           ELSE Given(IF url # <<>> /\ ~last.placed THEN Ended(last).args \o url ELSE Ended(last).args)
  <1> DEFINE n == Len(line)
             body(e) == [i \in 0..n |-> IF i = 0 THEN Start ELSE Take(e[i - 1], line[i], url)]
             F == CHOOSE e : e = body(e)
  <1>1. n \in Nat
    BY DEF Signs
  <1>2. PICK k : /\ k = [i \in 0..n |-> k[i]] /\ k[0] = Start /\ k[n] = last
                 /\ \A i \in 1..n : k[i] = Take(k[i - 1], line[i], url)
    BY DEF Runs
  <1>3. k = body(k)
    <2>1. \A i \in 0..n : k[i] = IF i = 0 THEN Start ELSE Take(k[i - 1], line[i], url)
      <3> SUFFICES ASSUME NEW i \in 0..n
                   PROVE  k[i] = IF i = 0 THEN Start ELSE Take(k[i - 1], line[i], url)
        OBVIOUS
      <3>1. i = 0 \/ i \in 1..n
        BY <1>1
      <3> QED BY <1>2, <3>1
    <2>2. DOMAIN k = 0..n
      BY <1>2
    <2> QED BY <1>2, <2>1, <2>2
  <1>4. F = body(F)
    <2> HIDE DEF body
    <2> QED BY <1>3
  <1>5. SplitExec(line, url) =
          IF F[n].bad \/ F[n].in # "plain" \/ Ended(F[n]).args = <<>> THEN NotStarted
          ELSE Given(IF url # <<>> /\ ~F[n].placed THEN Ended(F[n]).args \o url ELSE Ended(F[n]).args)
    BY DEF SplitExec
  <1> HIDE DEF F, n
  <1>6. F[0] = Start /\ \A i \in 1..n : F[i] = Take(F[i - 1], line[i], url)
    <2>1. \A i \in 1..n : i \in 0..n /\ i # 0
      BY <1>1
    <2>2. 0 \in 0..n
      BY <1>1
    <2> QED BY <1>4, <2>1, <2>2
  <1> DEFINE T == {i \in 0..n : F[i] = k[i]}
  <1>7. 0..n \subseteq T
    <2>1. 0 \in T
      BY <1>1, <1>2, <1>6
    <2>2. ASSUME NEW i \in 0..(n - 1), i \in T PROVE i + 1 \in T
      <3>1. i + 1 \in 1..n /\ i + 1 \in 0..n /\ (i + 1) - 1 = i
        BY <1>1
      <3>2. /\ F[i + 1] = Take(F[(i + 1) - 1], line[i + 1], url)
            /\ k[i + 1] = Take(k[(i + 1) - 1], line[i + 1], url)
        BY <1>2, <1>6, <3>1, Zenon
      <3> QED BY <2>2, <3>1, <3>2
    <2> QED BY <1>1, <2>1, <2>2, NumbersUpTo, Zenon
  <1>8. F[n] = last
    BY <1>1, <1>2, <1>7
  <1> QED BY <1>5, <1>8

-----------------------------------------------------------------------------
(* An argument as its author wrote it *)

Argued == Seq(ExecChar)

LEMMA OneMore ==
  ASSUME NEW S, NEW q \in Seq(S), NEW i \in 1..Len(q)
  PROVE  /\ SubSeq(q, 1, i) = Append(SubSeq(q, 1, i - 1), q[i])
         /\ SubSeq(q, 1, i - 1) \in Seq(S) /\ q[i] \in S
  OBVIOUS

LEMMA AllOfIt ==
  ASSUME NEW S, NEW q \in Seq(S)
  PROVE  SubSeq(q, 1, Len(q)) = q /\ SubSeq(q, 1, 0) = <<>> /\ Len(q) \in Nat
  OBVIOUS

\* What the reader does with a sign inside quotes, outside, and behind a percent.
LEMMA TakesInside ==
  ASSUME NEW url, NEW args, NEW arg, NEW placed
  PROVE  /\ TakesTo(url, Reading(args, arg, "quoted", placed), "q", Reading(args, arg, "plain", placed))
         /\ TakesTo(url, Reading(args, arg, "quoted", placed), "e", Reading(args, arg, "escaped", placed))
  BY DEF TakesTo, Take, Reading

LEMMA TakesQuoted ==
  ASSUME NEW url, NEW args, NEW arg, NEW placed, NEW c, c \notin {"q", "e"}
  PROVE  TakesTo(url, Reading(args, arg, "quoted", placed), c,
                 Reading(args, Append(arg, c), "quoted", placed))
  BY DEF TakesTo, Take, Reading

LEMMA TakesEscaped ==
  ASSUME NEW url, NEW args, NEW arg, NEW placed, NEW c, c \in {"q", "e"}
  PROVE  TakesTo(url, Reading(args, arg, "escaped", placed), c,
                 Reading(args, Append(arg, c), "quoted", placed))
  BY DEF TakesTo, Take, Reading, Unescape

LEMMA TakesOutside ==
  ASSUME NEW url, NEW args, NEW arg, NEW placed
  PROVE  /\ TakesTo(url, Reading(args, arg, "plain", placed), "q", Reading(args, arg, "quoted", placed))
         /\ TakesTo(url, Reading(args, arg, "plain", placed), "%", Reading(args, arg, "percent", placed))
  BY DEF TakesTo, Take, Reading

LEMMA TakesPlain ==
  ASSUME NEW url, NEW args, NEW arg, NEW placed, NEW c, c \notin {"q", "%", "_"}
  PROVE  TakesTo(url, Reading(args, arg, "plain", placed), c, Reading(args, Append(arg, c), "plain", placed))
  BY DEF TakesTo, Take, Reading

LEMMA TakesBlank ==
  ASSUME NEW url, NEW args, NEW arg, NEW placed, arg # <<>>
  PROVE  TakesTo(url, Reading(args, arg, "plain", placed), "_",
                 Reading(Append(args, arg), <<>>, "plain", placed))
  BY DEF TakesTo, Take, Reading, Ended

LEMMA TakesPercent ==
  ASSUME NEW url, NEW args, NEW arg, NEW placed
  PROVE  TakesTo(url, Reading(args, arg, "percent", placed), "%", Reading(args, Append(arg, "%"), "plain", placed))
  BY DEF TakesTo, Take, Reading, FieldCode

LEMMA TakesCode ==
  ASSUME NEW args, NEW placed
  PROVE  /\ TakesTo(<<>>, Reading(args, <<>>, "percent", placed), "u", Reading(args, <<>>, "plain", placed))
         /\ TakesTo(<<Url>>, Reading(args, <<>>, "percent", placed), "u",
                    Reading(args \o <<Url>>, <<>>, "plain", TRUE))
  <1>1. <<Url>> # <<>>
    OBVIOUS
  <1> QED BY <1>1 DEF TakesTo, Take, Reading, FieldCode, Ended

\* Read piece by piece, each adding the next character of arg.
LEMMA RunArgument ==
  ASSUME NEW url, NEW args, NEW in, NEW placed, NEW arg \in Argued, NEW ss \in Seq(Signs),
         Len(ss) = Len(arg),
         \A i \in 1..Len(arg) : \A read \in Argued :
           Runs(url, Reading(args, read, in, placed), ss[i], Reading(args, Append(read, arg[i]), in, placed))
  PROVE  Runs(url, Reading(args, <<>>, in, placed), FlattenSeq(ss), Reading(args, arg, in, placed))
  <1> DEFINE g == [i \in 0..Len(arg) |-> Reading(args, SubSeq(arg, 1, i), in, placed)]
  <1>1. Len(arg) \in Nat /\ SubSeq(arg, 1, Len(arg)) = arg /\ SubSeq(arg, 1, 0) = <<>>
    BY AllOfIt DEF Argued
  <1>2. /\ g[0] = Reading(args, <<>>, in, placed) /\ g[Len(ss)] = Reading(args, arg, in, placed)
        /\ \A i \in 0..Len(arg) : g[i] = Reading(args, SubSeq(arg, 1, i), in, placed)
    <2>1. \A i \in 0..Len(arg) : g[i] = Reading(args, SubSeq(arg, 1, i), in, placed)
      BY Zenon
    <2>2. 0 \in 0..Len(arg) /\ Len(ss) \in 0..Len(arg)
      BY <1>1
    <2> HIDE DEF g
    <2>3. /\ g[0] = Reading(args, SubSeq(arg, 1, 0), in, placed)
          /\ g[Len(ss)] = Reading(args, SubSeq(arg, 1, Len(ss)), in, placed)
      BY <2>1, <2>2, Zenon
    <2> QED BY <1>1, <2>1, <2>3, Zenon
  <1> HIDE DEF g
  <1>3. ASSUME NEW i \in 1..Len(ss) PROVE Runs(url, g[i - 1], ss[i], g[i])
    <2>1. i \in 1..Len(arg) /\ i - 1 \in 0..Len(arg) /\ i \in 0..Len(arg)
      BY <1>1
    <2>2. /\ SubSeq(arg, 1, i) = Append(SubSeq(arg, 1, i - 1), arg[i])
          /\ SubSeq(arg, 1, i - 1) \in Argued
      BY <2>1, OneMore DEF Argued
    <2>3. /\ g[i - 1] = Reading(args, SubSeq(arg, 1, i - 1), in, placed)
          /\ g[i] = Reading(args, Append(SubSeq(arg, 1, i - 1), arg[i]), in, placed)
      BY <1>2, <2>1, <2>2, Zenon
    <2> QED BY <2>1, <2>2, <2>3, Zenon
  <1>4. Runs(url, g[0], FlattenSeq(ss), g[Len(ss)])
    BY <1>3, RunPieces, Zenon
  <1> QED BY <1>2, <1>4, Zenon

LEMMA SignOf ==
  /\ \A arg \in Argued : \A i \in 1..Len(arg) : arg[i] \in Sign
  /\ "_" \in Sign /\ "q" \in Sign /\ "e" \in Sign /\ "%" \in Sign /\ "u" \in Sign
  /\ \A c \in Sign : <<c>> \in Signs
  /\ \A c, d \in Sign : <<c, d>> \in Signs
  <1>1. \A arg \in Argued : \A i \in 1..Len(arg) : arg[i] \in Sign
    <2> SUFFICES ASSUME NEW arg \in Argued, NEW i \in 1..Len(arg) PROVE arg[i] \in Sign
      OBVIOUS
    <2>1. arg[i] \in ExecChar
      BY DEF Argued
    <2> QED BY <2>1 DEF Sign
  <1>2. "_" \in Sign /\ "q" \in Sign /\ "e" \in Sign /\ "%" \in Sign /\ "u" \in Sign
    BY DEF Sign
  <1>3. \A c \in Sign : <<c>> \in Signs
    BY DEF Signs
  <1>4. \A c, d \in Sign : <<c, d>> \in Signs
    BY DEF Signs
  <1> QED BY <1>1, <1>2, <1>3, <1>4

LEMMA ReadPieces ==
  ASSUME NEW arg \in Argued
  PROVE  /\ DOMAIN arg = 1..Len(arg) /\ Len(arg) \in Nat
         /\ \A ss : (ss = [i \in DOMAIN arg |-> ss[i]] /\ \A i \in 1..Len(arg) : ss[i] \in Signs)
                     => ss \in Seq(Signs) /\ Len(ss) = Len(arg)
  <1>1. DOMAIN arg = 1..Len(arg) /\ Len(arg) \in Nat
    BY DEF Argued
  <1>2. ASSUME NEW ss, ss = [i \in DOMAIN arg |-> ss[i]], \A i \in 1..Len(arg) : ss[i] \in Signs
        PROVE  ss \in Seq(Signs) /\ Len(ss) = Len(arg)
    <2>1. DOMAIN ss = 1..Len(arg)
      BY <1>1, <1>2
    <2>2. PICK n : n = Len(arg) /\ n \in Nat
      BY <1>1
    <2>3. ss \in [1..n -> Signs]
      BY <1>2, <2>1, <2>2
    <2> QED BY <2>2, <2>3
  <1> QED BY <1>1, <1>2

LEMMA RunQuoted ==
  ASSUME NEW url, NEW args, NEW placed, NEW arg \in Argued
  PROVE  /\ Quoted(arg) \in Signs
         /\ Runs(url, Reading(args, <<>>, "plain", placed), Quoted(arg), Reading(args, arg, "plain", placed))
  <1> DEFINE ss == [i \in DOMAIN arg |-> IF arg[i] \in {"q", "e"} THEN <<"e", arg[i]>> ELSE <<arg[i]>>]
  <1>1. DOMAIN arg = 1..Len(arg) /\ Len(arg) \in Nat /\ \A i \in 1..Len(arg) : arg[i] \in Sign
    <2>1. \A i \in 1..Len(arg) : arg[i] \in Sign
      BY SignOf, Zenon
    <2> QED BY <2>1 DEF Argued
  <1>2. /\ ss \in Seq(Signs) /\ Len(ss) = Len(arg)
        /\ \A i \in 1..Len(arg) : ss[i] = IF arg[i] \in {"q", "e"} THEN <<"e", arg[i]>> ELSE <<arg[i]>>
    <2>1. \A i \in 1..Len(arg) :
            (IF arg[i] \in {"q", "e"} THEN <<"e", arg[i]>> ELSE <<arg[i]>>) \in Signs
      BY <1>1, SignOf
    <2> QED BY <1>1, <2>1
  <1>3. Quoted(arg) = <<"q">> \o FlattenSeq(ss) \o <<"q">>
    BY DEF Quoted
  <1> HIDE DEF ss
  <1>4. ASSUME NEW i \in 1..Len(arg), NEW read \in Argued
        PROVE  Runs(url, Reading(args, read, "quoted", placed), ss[i],
                    Reading(args, Append(read, arg[i]), "quoted", placed))
    <2>1. CASE arg[i] \in {"q", "e"}
      <3>1. /\ TakesTo(url, Reading(args, read, "quoted", placed), "e", Reading(args, read, "escaped", placed))
            /\ TakesTo(url, Reading(args, read, "escaped", placed), arg[i],
                     Reading(args, Append(read, arg[i]), "quoted", placed))
        BY <2>1, TakesInside, TakesEscaped, Zenon
      <3>2. ss[i] = <<"e", arg[i]>> /\ "e" \in Sign /\ arg[i] \in Sign
        BY <1>1, <1>2, <2>1, SignOf
      <3>3. Runs(url, Reading(args, read, "quoted", placed), <<"e", arg[i]>>,
                 Reading(args, Append(read, arg[i]), "quoted", placed))
        BY <3>1, <3>2, RunTwo, Zenon
      <3> QED BY <3>2, <3>3, Zenon
    <2>2. CASE arg[i] \notin {"q", "e"}
      <3>1. TakesTo(url, Reading(args, read, "quoted", placed), arg[i],
                  Reading(args, Append(read, arg[i]), "quoted", placed))
        BY <2>2, TakesQuoted, Zenon
      <3>2. ss[i] = <<arg[i]>> /\ arg[i] \in Sign
        BY <1>1, <1>2, <2>2
      <3>3. Runs(url, Reading(args, read, "quoted", placed), <<arg[i]>>,
                 Reading(args, Append(read, arg[i]), "quoted", placed))
        BY <3>1, <3>2, RunOne, Zenon
      <3> QED BY <3>2, <3>3, Zenon
    <2> QED BY <2>1, <2>2
  <1>5. Runs(url, Reading(args, <<>>, "quoted", placed), FlattenSeq(ss), Reading(args, arg, "quoted", placed))
    BY <1>2, <1>4, RunArgument, Zenon
  <1>6. FlattenSeq(ss) \in Signs /\ <<"q">> \in Signs
    BY <1>2, FlattenTyped, SignOf DEF Signs
  <1>7. /\ Runs(url, Reading(args, <<>>, "plain", placed), <<"q">>, Reading(args, <<>>, "quoted", placed))
        /\ Runs(url, Reading(args, arg, "quoted", placed), <<"q">>, Reading(args, arg, "plain", placed))
    <2>1. "q" \in Sign
      BY SignOf
    <2> QED BY <2>1, TakesInside, TakesOutside, RunOne, Zenon
  <1>8. /\ <<"q">> \o FlattenSeq(ss) \in Signs
        /\ Runs(url, Reading(args, <<>>, "plain", placed), <<"q">> \o FlattenSeq(ss),
                Reading(args, arg, "quoted", placed))
    BY <1>5, <1>6, <1>7, RunConcat, ConcatTyped DEF Signs
  <1>9. /\ (<<"q">> \o FlattenSeq(ss)) \o <<"q">> \in Signs
        /\ Runs(url, Reading(args, <<>>, "plain", placed), (<<"q">> \o FlattenSeq(ss)) \o <<"q">>,
                Reading(args, arg, "plain", placed))
    BY <1>6, <1>7, <1>8, RunConcat, ConcatTyped DEF Signs
  <1> QED BY <1>3, <1>9

LEMMA RunPlain ==
  ASSUME NEW url, NEW args, NEW placed, NEW arg \in Argued,
         \A i \in 1..Len(arg) : arg[i] \notin {"_", "q", "e"}
  PROVE  /\ Plain(arg) \in Signs
         /\ Runs(url, Reading(args, <<>>, "plain", placed), Plain(arg), Reading(args, arg, "plain", placed))
  <1> DEFINE ss == [i \in DOMAIN arg |-> IF arg[i] = "%" THEN <<"%", "%">> ELSE <<arg[i]>>]
  <1>1. /\ DOMAIN arg = 1..Len(arg) /\ Len(arg) \in Nat
        /\ \A i \in 1..Len(arg) : arg[i] \in Sign /\ arg[i] \notin {"_", "q", "e"}
    <2>1. \A i \in 1..Len(arg) : arg[i] \in Sign
      BY SignOf, Zenon
    <2>2. DOMAIN arg = 1..Len(arg) /\ Len(arg) \in Nat
      BY ReadPieces, Zenon
    <2> QED BY <2>1, <2>2, Zenon
  <1>2. /\ ss \in Seq(Signs) /\ Len(ss) = Len(arg)
        /\ \A i \in 1..Len(arg) : ss[i] = IF arg[i] = "%" THEN <<"%", "%">> ELSE <<arg[i]>>
    <2>1. \A i \in 1..Len(arg) : ss[i] = IF arg[i] = "%" THEN <<"%", "%">> ELSE <<arg[i]>>
      BY <1>1, Zenon
    <2>2. ss = [i \in DOMAIN arg |-> ss[i]]
      BY Zenon
    <2> HIDE DEF ss
    <2>3. \A i \in 1..Len(arg) : ss[i] \in Signs
      BY <1>1, <2>1, SignOf, Zenon
    <2> QED BY <2>1, <2>2, <2>3, ReadPieces, Zenon
  <1>3. Plain(arg) = FlattenSeq(ss)
    BY DEF Plain
  <1> HIDE DEF ss
  <1>4. ASSUME NEW i \in 1..Len(arg), NEW read \in Argued
        PROVE  Runs(url, Reading(args, read, "plain", placed), ss[i],
                    Reading(args, Append(read, arg[i]), "plain", placed))
    <2>1. CASE arg[i] = "%"
      <3>1. /\ TakesTo(url, Reading(args, read, "plain", placed), "%", Reading(args, read, "percent", placed))
            /\ TakesTo(url, Reading(args, read, "percent", placed), "%",
                     Reading(args, Append(read, "%"), "plain", placed))
        BY TakesOutside, TakesPercent, Zenon
      <3>2. ss[i] = <<"%", "%">> /\ "%" \in Sign
        BY <1>2, <2>1, SignOf
      <3>3. Runs(url, Reading(args, read, "plain", placed), <<"%", "%">>,
                 Reading(args, Append(read, "%"), "plain", placed))
        BY <3>1, <3>2, RunTwo, Zenon
      <3> QED BY <2>1, <3>2, <3>3, Zenon
    <2>2. CASE arg[i] # "%"
      <3>1. arg[i] \notin {"q", "%", "_"}
        BY <1>1, <2>2
      <3>2. TakesTo(url, Reading(args, read, "plain", placed), arg[i],
                  Reading(args, Append(read, arg[i]), "plain", placed))
        BY <3>1, TakesPlain, Zenon
      <3>3. ss[i] = <<arg[i]>> /\ arg[i] \in Sign
        BY <1>1, <1>2, <2>2
      <3>4. Runs(url, Reading(args, read, "plain", placed), <<arg[i]>>,
                 Reading(args, Append(read, arg[i]), "plain", placed))
        BY <3>2, <3>3, RunOne, Zenon
      <3> QED BY <3>3, <3>4, Zenon
    <2> QED BY <2>1, <2>2
  <1>5. Runs(url, Reading(args, <<>>, "plain", placed), FlattenSeq(ss), Reading(args, arg, "plain", placed))
    BY <1>2, <1>4, RunArgument, Zenon
  <1>6. FlattenSeq(ss) \in Signs
    BY <1>2, FlattenTyped DEF Signs
  <1> QED BY <1>3, <1>5, <1>6

\* Either way.
LEMMA RunWritten ==
  ASSUME NEW url, NEW args, NEW placed, NEW arg \in Argued, arg # Url,
         NEW w \in Written(arg)
  PROVE  /\ w \in Signs
         /\ Runs(url, Reading(args, <<>>, "plain", placed), w, Reading(args, arg, "plain", placed))
  <1>1. CASE w = Quoted(arg)
    BY <1>1, RunQuoted, Zenon
  <1>2. CASE w = Plain(arg) /\ ToSet(arg) \cap {"_", "q", "e"} = {}
    <2>1. DOMAIN arg = 1..Len(arg)
      BY DEF Argued
    <2>2. \A i \in DOMAIN arg : arg[i] \in ToSet(arg)
      BY DEF ToSet
    <2>3. \A i \in 1..Len(arg) : arg[i] \notin {"_", "q", "e"}
      BY <1>2, <2>1, <2>2
    <2> QED BY <1>2, <2>3, RunPlain, Zenon
  <1> QED BY <1>1, <1>2 DEF Written

\* The place of an address: left out, or filled.
LEMMA RunCode ==
  ASSUME NEW args
  PROVE  /\ Code \in Signs
         /\ Runs(<<>>, Reading(args, <<>>, "plain", FALSE), Code, Reading(args, <<>>, "plain", FALSE))
         /\ Runs(<<Url>>, Reading(args, <<>>, "plain", FALSE), Code,
                 Reading(args \o <<Url>>, <<>>, "plain", TRUE))
  <1>1. Code = <<"%", "u">> /\ "%" \in Sign /\ "u" \in Sign /\ Code \in Signs
    BY SignOf DEF Code
  <1>2. /\ Runs(<<>>, Reading(args, <<>>, "plain", FALSE), <<"%", "u">>, Reading(args, <<>>, "plain", FALSE))
        /\ Runs(<<Url>>, Reading(args, <<>>, "plain", FALSE), <<"%", "u">>,
                Reading(args \o <<Url>>, <<>>, "plain", TRUE))
    BY <1>1, TakesOutside, TakesCode, RunTwo, Zenon
  <1> QED BY <1>1, <1>2

-----------------------------------------------------------------------------
(* A line as its author wrote it *)

\* What an author means by an argument: something, and no address.
Proper == {arg \in Argued : arg # <<>> /\ arg # Url}

LEMMA OpenedBy ==
  ASSUME NEW arg \in Argued, NEW w \in Written(arg), arg # Url
  PROVE  w \in Signs /\ <<"_">> \o w \in Signs /\ <<"_">> \in Signs
  <1>1. w \in Signs
    BY RunWritten, Zenon
  <1>2. <<"_">> \in Signs
    BY SignOf, Zenon
  <1> QED BY <1>1, <1>2, ConcatTyped, Zenon DEF Signs

\* One argument after the arguments before it.
LEMMA RunNext ==
  ASSUME NEW url, NEW argv \in Seq(Proper), NEW i \in 1..Len(argv), NEW w \in Written(argv[i])
  PROVE  /\ i = 1 => /\ w \in Signs
                     /\ Runs(url, Start, w, Reading(SubSeq(argv, 1, i - 1), argv[i], "plain", FALSE))
         /\ i # 1 => /\ <<"_">> \o w \in Signs
                     /\ Runs(url, Reading(SubSeq(argv, 1, i - 2), argv[i - 1], "plain", FALSE), <<"_">> \o w,
                             Reading(SubSeq(argv, 1, i - 1), argv[i], "plain", FALSE))
  <1>1. argv[i] \in Proper /\ argv[i] \in Argued /\ argv[i] # Url
    BY DEF Proper
  <1> DEFINE before == SubSeq(argv, 1, i - 1)
  <1>2. /\ w \in Signs /\ <<"_">> \o w \in Signs /\ <<"_">> \in Signs
        /\ Runs(url, Reading(before, <<>>, "plain", FALSE), w, Reading(before, argv[i], "plain", FALSE))
    BY <1>1, RunWritten, OpenedBy, Zenon
  <1>3. CASE i = 1
    <2>1. before = <<>>
      BY <1>3, AllOfIt
    <2>2. Start = Reading(before, <<>>, "plain", FALSE)
      BY <2>1 DEF Start, Reading
    <2> QED BY <1>2, <1>3, <2>2, Zenon
  <1>4. CASE i # 1
    <2>1. i - 1 \in 1..Len(argv) /\ (i - 1) - 1 = i - 2
      BY <1>4
    <2>2. before = Append(SubSeq(argv, 1, i - 2), argv[i - 1]) /\ argv[i - 1] \in Proper
      <3>1. /\ SubSeq(argv, 1, i - 1) = Append(SubSeq(argv, 1, (i - 1) - 1), argv[i - 1])
            /\ argv[i - 1] \in Proper
        BY <2>1, OneMore, Zenon
      <3> QED BY <2>1, <3>1
    <2>3. argv[i - 1] # <<>>
      BY <2>2 DEF Proper
    <2> HIDE DEF before
    <2>4. TakesTo(url, Reading(SubSeq(argv, 1, i - 2), argv[i - 1], "plain", FALSE), "_",
                Reading(before, <<>>, "plain", FALSE))
      BY <2>2, <2>3, TakesBlank, Zenon
    <2>5. Runs(url, Reading(SubSeq(argv, 1, i - 2), argv[i - 1], "plain", FALSE), <<"_">>,
               Reading(before, <<>>, "plain", FALSE))
      BY <2>4, RunOne, SignOf, Zenon
    <2>6. Runs(url, Reading(SubSeq(argv, 1, i - 2), argv[i - 1], "plain", FALSE), <<"_">> \o w,
               Reading(before, argv[i], "plain", FALSE))
      BY <1>2, <2>5, RunConcat, Zenon
    <2> QED BY <1>2, <1>4, <2>6 DEF before
  <1> QED BY <1>3, <1>4

\* The place of an address after all of them.
LEMMA RunLast ==
  ASSUME NEW argv \in Seq(Proper), Len(argv) # 0
  PROVE  /\ <<"_">> \o Code \in Signs
         /\ Runs(<<>>, Reading(SubSeq(argv, 1, Len(argv) - 1), argv[Len(argv)], "plain", FALSE), <<"_">> \o Code,
                 Reading(argv, <<>>, "plain", FALSE))
         /\ Runs(<<Url>>, Reading(SubSeq(argv, 1, Len(argv) - 1), argv[Len(argv)], "plain", FALSE),
                 <<"_">> \o Code, Reading(argv \o <<Url>>, <<>>, "plain", TRUE))
  <1> DEFINE n == Len(argv)
  <1>1. n \in 1..Len(argv) /\ SubSeq(argv, 1, n) = argv
    <2>1. Len(argv) \in Nat /\ SubSeq(argv, 1, Len(argv)) = argv
      BY AllOfIt
    <2> QED BY <2>1
  <1>2. argv = Append(SubSeq(argv, 1, n - 1), argv[n]) /\ argv[n] \in Proper
    BY <1>1, OneMore, Zenon
  <1>3. argv[n] # <<>>
    BY <1>2 DEF Proper
  <1> HIDE DEF n
  <1>4. ASSUME NEW url
        PROVE  Runs(url, Reading(SubSeq(argv, 1, n - 1), argv[n], "plain", FALSE), <<"_">>,
                    Reading(argv, <<>>, "plain", FALSE))
    <2>1. TakesTo(url, Reading(SubSeq(argv, 1, n - 1), argv[n], "plain", FALSE), "_",
                Reading(argv, <<>>, "plain", FALSE))
      BY <1>2, <1>3, TakesBlank, Zenon
    <2> QED BY <2>1, RunOne, SignOf, Zenon
  <1>5. <<"_">> \in Signs /\ Code \in Signs /\ <<"_">> \o Code \in Signs
    <2>1. <<"_">> \in Signs /\ Code \in Signs
      BY SignOf, RunCode, Zenon
    <2> QED BY <2>1, ConcatTyped, Zenon DEF Signs
  <1> QED BY <1>4, <1>5, RunCode, RunConcat, Zenon DEF n

\* What is given when the reader ends well.
LEMMA EndsWell ==
  ASSUME NEW argv \in Seq(Proper), Len(argv) # 0, NEW url \in {<<>>, <<Url>>}, NEW line \in Signs, NEW last,
         Runs(url, Start, line, last),
         \/ last = Reading(SubSeq(argv, 1, Len(argv) - 1), argv[Len(argv)], "plain", FALSE)
         \/ url = <<>> /\ last = Reading(argv, <<>>, "plain", FALSE)
         \/ url = <<Url>> /\ last = Reading(argv \o <<Url>>, <<>>, "plain", TRUE)
  PROVE  SplitExec(line, url) = Given(argv \o url)
  <1>1. Len(argv) \in 1..Len(argv) /\ SubSeq(argv, 1, Len(argv)) = argv /\ argv # <<>>
    <2>1. Len(argv) \in Nat /\ SubSeq(argv, 1, Len(argv)) = argv
      BY AllOfIt
    <2>2. argv # <<>>
      OBVIOUS
    <2> QED BY <2>1, <2>2
  <1>2. argv = Append(SubSeq(argv, 1, Len(argv) - 1), argv[Len(argv)]) /\ argv[Len(argv)] # <<>>
    <2>1. argv = Append(SubSeq(argv, 1, Len(argv) - 1), argv[Len(argv)]) /\ argv[Len(argv)] \in Proper
      BY <1>1, OneMore, Zenon
    <2> QED BY <2>1 DEF Proper
  <1>3. argv \o <<>> = argv /\ argv \o <<Url>> # <<>> /\ <<Url>> # <<>>
    <2>1. argv \o <<>> = argv
      BY ConcatEmpty, Zenon
    <2>2. PICK x : x = Url
      OBVIOUS
    <2>3. Len(argv \o <<x>>) = Len(argv) + 1
      OBVIOUS
    <2>4. argv \o <<x>> # <<>>
      BY <1>1, <2>3
    <2> QED BY <2>1, <2>2, <2>4
  <1>4. SplitExec(line, url) =
          IF last.bad \/ last.in # "plain" \/ Ended(last).args = <<>> THEN NotStarted
          ELSE Given(IF url # <<>> /\ ~last.placed THEN Ended(last).args \o url ELSE Ended(last).args)
    BY SplitRuns, Zenon
  <1>5. CASE last = Reading(SubSeq(argv, 1, Len(argv) - 1), argv[Len(argv)], "plain", FALSE)
    <2>1. last.bad = FALSE /\ last.in = "plain" /\ last.placed = FALSE /\ Ended(last).args = argv
      <3>1. PICK before : before = SubSeq(argv, 1, Len(argv) - 1)
        OBVIOUS
      <3>2. PICK arg : arg = argv[Len(argv)]
        OBVIOUS
      <3>3. last = Reading(before, arg, "plain", FALSE) /\ argv = Append(before, arg) /\ arg # <<>>
        BY <1>2, <1>5, <3>1, <3>2
      <3> QED BY <3>3 DEF Reading, Ended
    <2> QED BY <1>1, <1>3, <1>4, <2>1
  <1>6. CASE url = <<>> /\ last = Reading(argv, <<>>, "plain", FALSE)
    <2>1. last.bad = FALSE /\ last.in = "plain" /\ last.placed = FALSE /\ Ended(last).args = argv
      BY <1>6 DEF Reading, Ended
    <2> QED BY <1>1, <1>3, <1>4, <1>6, <2>1
  <1>7. CASE url = <<Url>> /\ last = Reading(argv \o <<Url>>, <<>>, "plain", TRUE)
    <2>1. last.bad = FALSE /\ last.in = "plain" /\ last.placed = TRUE /\ Ended(last).args = argv \o <<Url>>
      BY <1>7 DEF Reading, Ended
    <2> QED BY <1>3, <1>4, <1>7, <2>1
  <1> QED BY <1>5, <1>6, <1>7

LEMMA SplitWritten ==
  ASSUME NEW argv \in Seq(Proper), Len(argv) # 0, NEW url \in {<<>>, <<Url>>}, NEW f,
         NEW place \in {FALSE, TRUE},
         f = [i \in 1..(Len(argv) + IF place THEN 1 ELSE 0) |-> f[i]],
         \A i \in 1..Len(argv) : f[i] \in Written(argv[i]),
         place => f[Len(argv) + 1] = Code
  PROVE  SplitExec(Line(f), url) = Given(argv \o url)
  <1> DEFINE n == Len(argv)
             m == n + IF place THEN 1 ELSE 0
             ps == [i \in DOMAIN f |-> IF i = 1 THEN f[i] ELSE <<"_">> \o f[i]]
             filled == IF url = <<>> THEN Reading(argv, <<>>, "plain", FALSE)
                     ELSE Reading(argv \o <<Url>>, <<>>, "plain", TRUE)
             g == [i \in 0..m |-> IF i = 0 THEN Start
                                  ELSE IF i <= n THEN Reading(SubSeq(argv, 1, i - 1), argv[i], "plain", FALSE)
                                  ELSE filled]
  <1>1. n \in Nat /\ n # 0 /\ m \in Nat /\ (place => m = n + 1) /\ (~place => m = n) /\ DOMAIN f = 1..m
    OBVIOUS
  <1>2. FlattenSeq(ps) = Line(f)
    BY DEF Line
  <1>3. /\ ps = [i \in 1..m |-> ps[i]]
        /\ \A i \in 1..m : ps[i] = IF i = 1 THEN f[i] ELSE <<"_">> \o f[i]
    BY <1>1, Zenon
  <1>4. \A i \in 0..m : g[i] = IF i = 0 THEN Start
                               ELSE IF i <= n THEN Reading(SubSeq(argv, 1, i - 1), argv[i], "plain", FALSE)
                               ELSE filled
    BY Zenon
  <1> HIDE DEF ps, g, m
  <1>5. ASSUME NEW i \in 1..m PROVE ps[i] \in Signs /\ Runs(url, g[i - 1], ps[i], g[i])
    <2>1. i - 1 \in 0..m /\ i \in 0..m /\ i # 0
      BY <1>1
    <2>2. CASE i = 1
      <3>1. i \in 1..n /\ i <= n /\ i - 1 = 0
        BY <1>1, <2>2
      <3>2. /\ g[i - 1] = Start /\ ps[i] = f[i]
            /\ g[i] = Reading(SubSeq(argv, 1, i - 1), argv[i], "plain", FALSE)
        BY <1>3, <1>4, <2>1, <2>2, <3>1, Zenon
      <3>3. f[i] \in Written(argv[i])
        BY <3>1
      <3>4. f[i] \in Signs /\ Runs(url, Start, f[i], Reading(SubSeq(argv, 1, i - 1), argv[i], "plain", FALSE))
        BY <2>2, <3>1, <3>3, RunNext, Zenon
      <3> QED BY <3>2, <3>4
    <2>3. CASE i # 1 /\ i <= n
      <3>1. i \in 1..n /\ i - 1 <= n /\ i - 1 # 0 /\ (i - 1) - 1 = i - 2
        BY <1>1, <2>3
      <3>2. /\ g[i - 1] = Reading(SubSeq(argv, 1, (i - 1) - 1), argv[i - 1], "plain", FALSE)
            /\ g[i] = Reading(SubSeq(argv, 1, i - 1), argv[i], "plain", FALSE) /\ ps[i] = <<"_">> \o f[i]
        BY <1>3, <1>4, <2>1, <2>3, <3>1, Zenon
      <3>3. f[i] \in Written(argv[i])
        BY <3>1
      <3>4. /\ <<"_">> \o f[i] \in Signs
            /\ Runs(url, Reading(SubSeq(argv, 1, i - 2), argv[i - 1], "plain", FALSE), <<"_">> \o f[i],
                    Reading(SubSeq(argv, 1, i - 1), argv[i], "plain", FALSE))
        BY <2>3, <3>1, <3>3, RunNext, Zenon
      <3>5. g[i - 1] = Reading(SubSeq(argv, 1, i - 2), argv[i - 1], "plain", FALSE)
        BY <3>1, <3>2
      <3> QED BY <3>2, <3>4, <3>5, Zenon
    <2>4. CASE ~(i <= n)
      <3>1. i = n + 1 /\ place /\ i - 1 = n /\ i # 1 /\ n <= n
        BY <1>1, <2>4 DEF m
      <3>2. g[n] = Reading(SubSeq(argv, 1, n - 1), argv[n], "plain", FALSE) /\ g[i] = filled
        BY <1>1, <1>4, <2>1, <2>4, <3>1, Zenon
      <3>3. ps[i] = <<"_">> \o Code
        BY <1>3, <3>1
      <3>4. <<"_">> \o Code \in Signs /\ Runs(url, g[n], <<"_">> \o Code, filled)
        <4>1. CASE url = <<>>
          BY <4>1, <3>2, RunLast
        <4>2. CASE url = <<Url>>
          <5>1. url # <<>>
            BY <4>2
          <5> QED BY <4>2, <5>1, <3>2, RunLast
        <4> QED BY <4>1, <4>2
      <3> QED BY <3>1, <3>2, <3>3, <3>4
    <2> QED BY <2>2, <2>3, <2>4
  <1>6. ps \in Seq(Signs) /\ Len(ps) = m
    <2>1. ps \in [1..m -> Signs]
      BY <1>3, <1>5
    <2> QED BY <1>1, <2>1
  <1>7. Runs(url, g[0], Line(f), g[m]) /\ Line(f) \in Signs
    <2>1. Runs(url, g[0], FlattenSeq(ps), g[Len(ps)])
      BY <1>5, <1>6, RunPieces, Zenon
    <2>2. FlattenSeq(ps) \in Signs
      BY <1>6, FlattenTyped, Zenon DEF Signs
    <2> QED BY <1>2, <1>6, <2>1, <2>2
  <1>8. /\ g[0] = Start
        /\ \/ g[m] = Reading(SubSeq(argv, 1, Len(argv) - 1), argv[Len(argv)], "plain", FALSE)
           \/ g[m] = filled
    <2>1. 0 \in 0..m /\ m \in 0..m /\ m # 0 /\ (m = n \/ ~(m <= n)) /\ n <= n
      BY <1>1
    <2> QED BY <1>4, <2>1
  <1>9. \/ g[m] = Reading(SubSeq(argv, 1, Len(argv) - 1), argv[Len(argv)], "plain", FALSE)
        \/ url = <<>> /\ g[m] = Reading(argv, <<>>, "plain", FALSE)
        \/ url = <<Url>> /\ g[m] = Reading(argv \o <<Url>>, <<>>, "plain", TRUE)
    BY <1>8
  <1> HIDE DEF filled, n
  <1>10. Runs(url, Start, Line(f), g[m])
    BY <1>7, <1>8
  <1> QED BY <1>7, <1>9, <1>10, EndsWell, Zenon

\* The arguments an entry's author meant, read as they meant them.
Meant(argv) ==
  /\ argv \in Seq(Proper) /\ Len(argv) # 0
  /\ intended = argv \/ intended = Append(argv, Url)
  /\ \A url \in {<<>>, <<Url>>} : SplitExec(exec, url) = Given(argv \o url)

LaunchingInv == (\E argv \in Seq(Proper) : Meant(argv)) /\ ArgumentsSurvive

LEMMA MeantProper ==
  ASSUME NEW argv \in Intended PROVE argv \in Seq(Proper) /\ Len(argv) # 0
  <1>1. PICK n \in 1..MaxArguments : argv \in [1..n -> Argument]
    BY DEF Intended
  <1>2. n \in Nat /\ n # 0
    BY LaunchingAssumption
  <1>3. ASSUME NEW arg \in Argument PROVE arg \in Proper
    <2>1. PICK k \in 1..MaxLength : arg \in [1..k -> ExecChar]
      BY DEF Argument
    <2>2. k \in Nat /\ k # 0 /\ 1 \in 1..k
      BY LaunchingAssumption
    <2>3. arg \in Seq(ExecChar) /\ Len(arg) = k /\ arg[1] \in ExecChar
      BY <2>1, <2>2
    <2>4. arg # <<>>
      BY <2>2, <2>3
    <2>5. Url[1] = "url"
      BY DEF Url
    <2>6. arg # Url
      BY <2>3, <2>5, LaunchingAssumption
    <2> QED BY <2>3, <2>4, <2>6 DEF Proper, Argued
  <1>4. argv \in [1..n -> Proper]
    BY <1>1, <1>3
  <1> QED BY <1>2, <1>4

LEMMA LaunchingInitSafe == LaunchingInit => LaunchingInv
  <1> SUFFICES ASSUME LaunchingInit PROVE LaunchingInv
    OBVIOUS
  <1>1. PICK argv \in Intended, place \in {<<>>, <<Url>>} : intended = argv \o place
    BY DEF LaunchingInit
  <1>2. argv \in Seq(Proper) /\ Len(argv) # 0
    BY <1>1, MeantProper
  <1>3. PICK f \in [DOMAIN intended -> UNION {Written(intended[i]) : i \in DOMAIN intended}] :
          (\A i \in DOMAIN f : f[i] \in Written(intended[i])) /\ exec = Line(f)
    BY DEF LaunchingInit
  <1>4. PICK n : n = Len(argv) /\ n \in Nat
    BY <1>2
  <1>5. \A i \in 1..n : argv[i] \in Proper /\ i \in DOMAIN argv
    BY <1>2, <1>4
  <1>6. DOMAIN f = DOMAIN intended /\ f = [i \in DOMAIN f |-> f[i]]
    BY <1>3
  <1>7. CASE place = <<>>
    <2>1. intended = argv
      BY <1>1, <1>2, <1>7, ConcatEmpty
    <2>2. DOMAIN f = 1..(n + IF FALSE THEN 1 ELSE 0)
      BY <1>2, <1>4, <1>6, <2>1
    <2>3. \A i \in 1..n : f[i] \in Written(argv[i])
      BY <1>3, <1>5, <1>6, <2>1
    <2>4. \A url \in {<<>>, <<Url>>} : SplitExec(exec, url) = Given(argv \o url)
      BY <1>2, <1>3, <1>4, <1>6, <2>2, <2>3, SplitWritten, Zenon
    <2> QED BY <1>2, <2>1, <2>4 DEF LaunchingInv, Meant, ArgumentsSurvive, LaunchingInit, Nothing
  <1>8. CASE place = <<Url>>
    <2>1. PICK x : x = Url
      OBVIOUS
    <2>2. /\ intended = Append(argv, x) /\ DOMAIN intended = 1..(n + 1)
          /\ (\A i \in 1..n : intended[i] = argv[i]) /\ intended[n + 1] = x
      <3>1. argv \o <<x>> = Append(argv, x)
        BY <1>2
      <3>2. /\ DOMAIN Append(argv, x) = 1..(n + 1) /\ Append(argv, x)[n + 1] = x
            /\ \A i \in 1..n : Append(argv, x)[i] = argv[i]
        BY <1>2, <1>4
      <3> QED BY <1>1, <1>8, <2>1, <3>1, <3>2
    <2>3. DOMAIN f = 1..(n + IF TRUE THEN 1 ELSE 0)
      BY <1>4, <1>6, <2>2
    <2>4. \A i \in 1..n : f[i] \in Written(argv[i])
      <3>1. \A i \in 1..n : i \in DOMAIN f
        BY <1>4, <1>6, <2>2
      <3> QED BY <1>3, <2>2, <3>1
    <2>5. f[n + 1] = Code
      <3>1. n + 1 \in DOMAIN f
        BY <1>4, <1>6, <2>2
      <3> QED BY <1>3, <2>1, <2>2, <3>1 DEF Written
    <2>6. \A url \in {<<>>, <<Url>>} : SplitExec(exec, url) = Given(argv \o url)
      BY <1>2, <1>3, <1>4, <1>6, <2>3, <2>4, <2>5, SplitWritten, Zenon
    <2>7. intended = Append(argv, Url)
      BY <2>1, <2>2
    <2> QED BY <1>2, <2>6, <2>7 DEF LaunchingInv, Meant, ArgumentsSurvive, LaunchingInit, Nothing
  <1> QED BY <1>1, <1>7, <1>8

LEMMA MeantIs ==
  ASSUME NEW argv \in Seq(Proper), Len(argv) # 0, NEW line, line = argv \/ line = Append(argv, Url)
  PROVE  (IF Last(line) = Url THEN Front(line) ELSE line) = argv
  <1>1. PICK n : n = Len(argv) /\ n \in Nat /\ n # 0
    OBVIOUS
  <1>2. PICK x : x = Url
    OBVIOUS
  <1>3. CASE line = argv
    <2>1. Last(line) \in Proper
      BY <1>1, <1>3 DEF Last
    <2> QED BY <1>3, <2>1 DEF Proper
  <1>4. CASE line = Append(argv, Url)
    <2>1. Len(Append(argv, x)) = n + 1 /\ Append(argv, x)[n + 1] = x
      BY <1>1
    <2>2. SubSeq(Append(argv, x), 1, n) = argv
      BY <1>1
    <2>3. Last(line) = x
      BY <1>2, <1>4, <2>1 DEF Last
    <2>4. Front(line) = argv
      <3>1. Len(line) - 1 = n
        BY <1>1, <1>2, <1>4, <2>1
      <3> QED BY <1>2, <1>4, <2>2, <3>1 DEF Front
    <2> QED BY <1>2, <2>3, <2>4
  <1> QED BY <1>3, <1>4

\* The flag goes right before the address.
LEMMA FlagBeforeAddress ==
  ASSUME NEW argv \in Seq(Proper), Len(argv) # 0
  PROVE  NewWindow(argv \o <<Url>>) = Append(argv, <<"--new-window">>) \o <<Url>>
  <1>1. PICK n : n = Len(argv) /\ n \in Nat /\ n # 0
    OBVIOUS
  <1>2. PICK x, flag : x = Url /\ flag = <<"--new-window">>
    OBVIOUS
  <1>3. PICK args : args = argv \o <<x>>
    OBVIOUS
  <1> DEFINE Address(i) == args[i] = x /\ \A j \in 1..(i - 1) : args[j] # x
  <1>4. DOMAIN args = 1..(n + 1) /\ args[n + 1] = x /\ \A i \in 1..n : args[i] # x
    <2>1. DOMAIN args = 1..(n + 1) /\ args[n + 1] = x /\ \A i \in 1..n : args[i] = argv[i]
      BY <1>1, <1>3
    <2>2. \A i \in 1..n : argv[i] # x
      BY <1>1, <1>2 DEF Proper
    <2> QED BY <2>1, <2>2
  <1>5. n + 1 \in DOMAIN args /\ Address(n + 1)
    BY <1>1, <1>4
  <1>6. \A i \in DOMAIN args : Address(i) => i = n + 1
    BY <1>1, <1>4
  <1>7. (CHOOSE i \in DOMAIN args : Address(i)) = n + 1
    <2> HIDE DEF Address
    <2> QED BY <1>5, <1>6
  <1>8. NewWindow(args) = SubSeq(args, 1, (n + 1) - 1) \o <<flag>> \o SubSeq(args, n + 1, Len(args))
    <2>1. NewWindow(args) = InsertAt(args, CHOOSE i \in DOMAIN args : Address(i), flag)
      BY <1>2 DEF NewWindow
    <2> HIDE DEF Address
    <2> QED BY <1>7, <2>1 DEF InsertAt
  <1>9. SubSeq(args, 1, (n + 1) - 1) = argv
    BY <1>1, <1>3
  <1>10. SubSeq(args, n + 1, Len(args)) = <<x>>
    <2> DEFINE S == Proper \cup {x}
               one == <<x>>
    <2>1. argv \in Seq(S) /\ one \in Seq(S) /\ Len(one) = 1 /\ one[1] = x
      OBVIOUS
    <2> HIDE DEF S, one
    <2>2. args \in Seq(S)
      BY <1>3, <2>1, ConcatTyped, Zenon DEF one
    <2>3. Len(args) = n + 1 /\ args[n + 1] = x
      BY <1>1, <1>3
    <2>4. PICK tail : tail = SubSeq(args, n + 1, n + 1)
      OBVIOUS
    <2>5. tail \in Seq(S) /\ Len(tail) = 1 /\ tail[1] = args[n + 1]
      BY <1>1, <2>2, <2>3, <2>4
    <2>6. Len(tail) = Len(one) /\ \A i \in 1..Len(tail) : tail[i] = one[i]
      BY <2>1, <2>3, <2>5
    <2>7. tail = one
      BY <2>1, <2>5, <2>6, SameSequence, Zenon
    <2> QED BY <2>3, <2>4, <2>7 DEF one
  <1>11. argv \o <<flag>> = Append(argv, flag)
    OBVIOUS
  <1> QED BY <1>2, <1>3, <1>8, <1>9, <1>10, <1>11

LEMMA LaunchingStep ==
  ASSUME LaunchingInv, LaunchingNext PROVE LaunchingInv'
  <1>1. PICK argv \in Seq(Proper) : Meant(argv)
    BY DEF LaunchingInv
  <1>2. intended' = intended /\ exec' = exec
    BY DEF LaunchingNext, Launch, OpenUrl
  <1>3. Meant(argv)'
    BY <1>1, <1>2 DEF Meant
  <1>4. (IF Last(intended') = Url THEN Front(intended') ELSE intended') = argv
    BY <1>1, <1>2, MeantIs, Zenon DEF Meant
  <1>5. SplitExec(exec, <<>>) = Given(argv) /\ SplitExec(exec, <<Url>>) = Given(argv \o <<Url>>)
    <2>1. argv \o <<>> = argv
      BY <1>1, ConcatEmpty DEF Meant
    <2> QED BY <1>1, <2>1 DEF Meant
  <1>6. started' \in {NotStarted, Given(argv), Given(Append(argv, <<"--new-window">>) \o <<Url>>),
                     Given(<< <<"xdg-open">>, Url>>)}
    <2>1. CASE Launch
      BY <1>5, <2>1 DEF Launch
    <2>2. CASE OpenUrl
      <3> DEFINE line == SplitExec(exec, <<Url>>)
      <3>1. started' = Given(IF Found /\ line # NotStarted THEN NewWindow(line.argv)
                             ELSE << <<"xdg-open">>, Url>>)
        BY <2>2 DEF OpenUrl
      <3>2. line.argv = argv \o <<Url>>
        BY <1>5 DEF Given
      <3>3. NewWindow(line.argv) = Append(argv, <<"--new-window">>) \o <<Url>>
        BY <1>1, <3>2, FlagBeforeAddress DEF Meant
      <3> QED BY <3>1, <3>3
    <2> QED BY <2>1, <2>2 DEF LaunchingNext
  <1>7. ArgumentsSurvive'
    <2>1. started'.how = "started" =>
            started'.argv \in {argv, Append(argv, <<"--new-window">>) \o <<Url>>, << <<"xdg-open">>, Url>>}
      BY <1>6 DEF NotStarted, Given
    <2> QED BY <1>4, <2>1 DEF ArgumentsSurvive
  <1> QED BY <1>1, <1>3, <1>7 DEF LaunchingInv

\* However its author wrote them in its entry, an application is given the
\* arguments they meant, and an address whole and once, for arguments of
\* every length and number (launch.rs's split_exec_url, launch and open_url).
THEOREM AuthorsAreUnderstood == LaunchingSpec => []ArgumentsSurvive
  <1>1. LaunchingInit => LaunchingInv
    BY LaunchingInitSafe
  <1>2. LaunchingInv /\ [LaunchingNext]_launchingVars => LaunchingInv'
    <2> SUFFICES ASSUME LaunchingInv, [LaunchingNext]_launchingVars PROVE LaunchingInv'
      OBVIOUS
    <2>1. CASE LaunchingNext
      BY <2>1, LaunchingStep
    <2>2. CASE UNCHANGED launchingVars
      BY <2>2 DEF launchingVars, LaunchingInv, Meant, ArgumentsSurvive
    <2> QED BY <2>1, <2>2
  <1>3. LaunchingInv => ArgumentsSurvive
    BY DEF LaunchingInv
  <1> QED BY <1>1, <1>2, <1>3, PTL DEF LaunchingSpec
=============================================================================
