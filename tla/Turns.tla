-------------------------------- MODULE Turns --------------------------------
(***************************************************************************)
(* The engine's request handlers (crates/cosmo-daemon/src/engine.rs) over  *)
(* the policy gate and the reasoner's tool loop                            *)
(* (crates/cosmo-reason/src/lib.rs).                                       *)
(*                                                                         *)
(* Every request is a task of a multi-threaded runtime: an utterance runs  *)
(* Engine::turn_inner, a `cosmo confirm <token>` runs Engine::confirm, and *)
(* the steps of different requests interleave at every shared access.      *)
(* pc[r] names the step request r takes next, local[r] holds the handler's *)
(* local variables, which go when it returns.  A turn may be cancelled at  *)
(* the awaits "model" and "tool" only, where the select! of turn_inner     *)
(* looks at the barge counter before anything else.                        *)
(*                                                                         *)
(* Abstractions.  An utterance is what decides its path: a whole-utterance *)
(* confirm, a reflex verb, or anything else ("ask").  A model response is  *)
(* a reply, a failure or a list of calls, with or without confirmation     *)
(* language.  The stored conversation is the list of requests whose        *)
(* exchange it holds, each with the provider that answered it.  The pause  *)
(* flag is whatever a turn reads (any client may flip it at any time).     *)
(* Speech and the state the daemon shows are the module Display.           *)
(***************************************************************************)
EXTENDS Gate, Sequences, FiniteSets

CONSTANTS
  Req,              \* the requests, one task each
  Provider,         \* reasoning providers
  None,             \* no request, no client
  Switcher,         \* the `reasoning set` commands, one task each
  Kinds,            \* the kinds of request that arrive
  Sources,          \* the sources utterances come from
  LockReports,      \* what the lock sources report
  MaxRounds,        \* MAX_ROUNDS: model round trips in one turn
  MaxCalls,         \* bound: calls in one model response
  MaxHolds          \* bound: calls ever parked

Kind == {"confirm", "verb", "ask", "token"}

ASSUME TurnsAssumption ==
  /\ None \notin Req \cup Provider
  /\ Kinds \subseteq Kind
  /\ Sources \subseteq Source
  /\ LockReports \subseteq LockState
  /\ MaxRounds \in Nat /\ MaxCalls \in Nat /\ MaxHolds \in Nat

VARIABLES
  pc,               \* the step each request takes next
  kind,             \* what the request is
  source,           \* where an utterance came from
  token,            \* the token a token confirmation names
  outcome,          \* how the request ended
  local,            \* the handler's local variables
  attached,         \* the tool host is connected
  barge,            \* the barge counter (a watch channel)
  slot,             \* the holder of the reasoner's mutex
  client,           \* the provider the reasoner's client was built for
  provider,         \* the configured provider
  switch,           \* the step of each provider switch
  target,           \* the provider it switches to
  another,          \* that was not the provider when the switch began
  history,          \* the stored conversation
  parked,           \* history variable: the tokens each turn parked
  ticket,           \* history variable: the barge count of the turn's own barge-in
  executed          \* history variable: confirmed calls handed to the tool host

requestVars  == <<kind, source, token>>
switchVars   == <<switch, target, another>>
reasonerVars == <<slot, client, provider, switchVars>>
ghostVars    == <<parked, ticket, executed>>
vars == <<gateVars, requestVars, pc, outcome, local, attached, barge, reasonerVars,
          history, ghostVars>>

PC == {"new", "bargeIn", "readBarge", "begin", "confirm", "resolve", "exec", "reflex",
       "reflexAct", "lock", "context", "model", "calls", "tool", "park", "release",
       "persist", "done"}

Outcome == {"none", "paused", "needsKey", "unknown", "confirmed", "reflexed", "noAgent",
            "noKey", "interrupted", "abandoned", "reply", "held", "error"}

Exchange == [by : Req, provider : Provider]

Locals == [bargeAt    : Nat,                \* the barge count after the turn's own barge-in
           loaded     : Nat,                \* the turn number a confirmation or a park read
           taken      : SUBSET ParkedCall,  \* the parked call it took
           round      : Nat,                \* model round trips so far
           todo       : Seq(Tool),          \* calls of the response not yet handled
           confirming : BOOLEAN,            \* the response holds confirmation language
           copy       : Seq(Exchange)]      \* the turn's own copy of the conversation

Fresh == [bargeAt |-> 0, loaded |-> 0, taken |-> {}, round |-> 0, todo |-> <<>>,
          confirming |-> FALSE, copy |-> <<>>]

ControlTypeOK ==
  /\ pc \in [Req -> PC]
  /\ outcome \in [Req -> Outcome]
  /\ local \in [Req -> Locals]

RequestTypeOK ==
  /\ kind \in [Req -> Kind]
  /\ source \in [Req -> Source]
  /\ token \in [Req -> Nat]

ReasonerTypeOK ==
  /\ slot \in Req \cup {None}
  /\ client \in Provider \cup {None}
  /\ provider \in Provider
  /\ switch \in [Switcher -> {"new", "write", "changed", "reset", "clear", "done", "abandoned"}]
  /\ target \in [Switcher -> Provider]
  /\ another \in [Switcher -> BOOLEAN]
  /\ history \in Seq(Exchange)

GhostTypeOK ==
  /\ parked \in [Req -> SUBSET Nat]
  /\ ticket \in [Req -> Nat]
  /\ executed \in SUBSET [call : ParkedCall, by : Req, at : Nat]

\* Every variable has its type (checked, and proved in TurnsProofs).
TypeOK ==
  /\ GateTypeOK
  /\ ControlTypeOK
  /\ RequestTypeOK
  /\ ReasonerTypeOK
  /\ GhostTypeOK
  /\ attached \in BOOLEAN
  /\ barge \in Nat

Init ==
  /\ GateInit
  /\ pc = [r \in Req |-> "new"]
  /\ kind = [r \in Req |-> "ask"]
  /\ source = [r \in Req |-> "Typed"]
  /\ token = [r \in Req |-> 0]
  /\ outcome = [r \in Req |-> "none"]
  /\ local = [r \in Req |-> Fresh]
  /\ attached = FALSE
  /\ barge = 0
  /\ slot = None
  /\ client = None
  /\ provider \in Provider
  /\ switch = [c \in Switcher |-> "new"]
  /\ target = [c \in Switcher |-> provider]
  /\ another = [c \in Switcher |-> FALSE]
  /\ history = <<>>
  /\ parked = [r \in Req |-> {}]
  /\ ticket = [r \in Req |-> 0]
  /\ executed = {}

-----------------------------------------------------------------------------
(* Control *)

\* Request r goes from one step to another.
Goto(r, from, to) ==
  /\ pc[r] = from
  /\ pc' = [pc EXCEPT ![r] = to]
  /\ UNCHANGED outcome

\* Request r returns from step `from` with outcome o; its locals are gone.
Return(r, from, o) ==
  /\ pc[r] = from
  /\ pc' = [pc EXCEPT ![r] = "done"]
  /\ outcome' = [outcome EXCEPT ![r] = o]
  /\ local' = [local EXCEPT ![r] = Fresh]

-----------------------------------------------------------------------------
(* Arrival, barge-in, the start of a turn *)

\* An utterance arrives, typed or transcribed.  (Its source matters here only
\* to a confirm, so the others come from one.)
Say(r) ==
  /\ \E k \in Kinds \ {"token"} :
       /\ kind' = [kind EXCEPT ![r] = k]
       /\ IF k = "confirm"
            THEN \E s \in Sources : source' = [source EXCEPT ![r] = s]
            ELSE UNCHANGED source
  /\ Goto(r, "new", "bargeIn")
  /\ UNCHANGED <<gateVars, token, local, attached, barge, reasonerVars, history, ghostVars>>

\* The daemon is paused: the utterance fails, and nothing else happens.
SayPaused(r) ==
  /\ Kinds \ {"token"} # {}
  /\ Return(r, "new", "paused")
  /\ UNCHANGED <<gateVars, requestVars, attached, barge, reasonerVars, history, ghostVars>>

\* `cosmo confirm <token>` arrives, with a token some hold was parked under.
ConfirmToken(r) ==
  /\ "token" \in Kinds
  /\ \E k \in 0..(MaxHolds - 1) :
       k < nextSeq /\ token' = [token EXCEPT ![r] = k]
  /\ kind' = [kind EXCEPT ![r] = "token"]
  /\ Goto(r, "new", "begin")
  /\ UNCHANGED <<gateVars, source, local, attached, barge, reasonerVars, history, ghostVars>>

BargeIn(r) ==
  /\ Goto(r, "bargeIn", "readBarge")
  /\ barge' = barge + 1
  /\ ticket' = [ticket EXCEPT ![r] = barge + 1]
  /\ UNCHANGED <<gateVars, requestVars, local, attached, reasonerVars, history, parked,
                 executed>>

\* Mutant: the count from before the turn's own barge-in is kept.
ReadBargeBefore(r) ==
  /\ Goto(r, "readBarge", "begin")
  /\ local' = [local EXCEPT ![r].bargeAt = ticket[r] - 1]
  /\ UNCHANGED <<gateVars, requestVars, attached, barge, reasonerVars, history, ghostVars>>

ReadBarge(r) ==
  /\ Goto(r, "readBarge", "begin")
  /\ local' = [local EXCEPT ![r].bargeAt = barge]
  /\ UNCHANGED <<gateVars, requestVars, attached, barge, reasonerVars, history, ghostVars>>

Begin(r) ==
  /\ Goto(r, "begin", IF kind[r] \in {"confirm", "token"} THEN "confirm" ELSE "reflex")
  /\ BeginTurn
  /\ UNCHANGED <<holds, nextSeq, lock, requestVars, local, attached, barge, reasonerVars,
                 history, ghostVars>>

-----------------------------------------------------------------------------
(* Local confirmation *)

\* A confirm heard on an open microphone resolves nothing and ends the turn.
NeedsKey(r) ==
  /\ kind[r] = "confirm" /\ ~MayConfirm(source[r])
  /\ Return(r, "confirm", "needsKey")
  /\ UNCHANGED <<gateVars, requestVars, attached, barge, reasonerVars, history, ghostVars>>

\* The turn number is read before the hold queue is locked.
LoadTurn(r) ==
  /\ kind[r] = "token" \/ MayConfirm(source[r])
  /\ Goto(r, "confirm", "resolve")
  /\ local' = [local EXCEPT ![r].loaded = turn]
  /\ UNCHANGED <<gateVars, requestVars, attached, barge, reasonerVars, history, ghostVars>>

\* The holds request r may take: the named one, or the oldest.
Candidates(r) ==
  IF kind[r] = "token"
    THEN {p \in Eligible(local[r].loaded) : p.seq = token[r]}
    ELSE Oldest(Eligible(local[r].loaded))

Resolve(r) ==
  /\ \E p \in Candidates(r) :
       /\ Remove(p)
       /\ local' = [local EXCEPT ![r].taken = {p}]
  /\ Goto(r, "resolve", "exec")
  /\ UNCHANGED <<turn, nextSeq, lock, requestVars, attached, barge, reasonerVars, history,
                 ghostVars>>

UnknownToken(r) ==
  /\ kind[r] = "token" /\ Candidates(r) = {}
  /\ Return(r, "resolve", "unknown")
  /\ UNCHANGED <<gateVars, requestVars, attached, barge, reasonerVars, history, ghostVars>>

\* A confirm with nothing to confirm goes on to the model like any utterance.
NonePending(r) ==
  /\ kind[r] = "confirm" /\ Candidates(r) = {}
  /\ Goto(r, "resolve", "reflex")
  /\ UNCHANGED <<gateVars, requestVars, local, attached, barge, reasonerVars, history,
                 ghostVars>>

\* The taken call goes to the tool host.  The lock policy was applied when it
\* was parked, and is not looked at again.
ExecuteParked(r) ==
  /\ executed' = executed \cup
       {[call |-> p, by |-> r, at |-> local[r].loaded] : p \in local[r].taken}
  /\ Return(r, "exec", "confirmed")
  /\ UNCHANGED <<gateVars, requestVars, attached, barge, reasonerVars, history, parked, ticket>>

-----------------------------------------------------------------------------
(* The reflex path *)

\* On to reasoning, which needs the tool host.
Escalate(r, from) ==
  IF attached
    THEN Goto(r, from, "lock") /\ UNCHANGED local
    ELSE Return(r, from, "noAgent")

\* No matcher, or no match above the threshold.
NoReflex(r) ==
  /\ Escalate(r, "reflex")
  /\ UNCHANGED <<gateVars, requestVars, attached, barge, reasonerVars, history, ghostVars>>

\* A verb matched: it is done locally.
Reflex(r) ==
  /\ kind[r] = "verb"
  /\ Goto(r, "reflex", "reflexAct")
  /\ UNCHANGED <<gateVars, requestVars, local, attached, barge, reasonerVars, history,
                 ghostVars>>

\* A verb that failed escalates.
ReflexDone(r) ==
  /\ Return(r, "reflexAct", "reflexed") \/ Escalate(r, "reflexAct")
  /\ UNCHANGED <<gateVars, requestVars, attached, barge, reasonerVars, history, ghostVars>>

-----------------------------------------------------------------------------
(* The reasoning path *)

\* Mutant: the turn goes on although no client could be built.
TakeReasonerAnyway(r) ==
  /\ slot = None
  /\ Goto(r, "lock", "context")
  /\ slot' = r
  /\ UNCHANGED <<gateVars, requestVars, local, attached, barge, client, provider, switchVars,
                 history, ghostVars>>

\* The reasoner's mutex is taken, and its client built if there is none.
TakeReasoner(r) ==
  /\ slot = None
  /\ Goto(r, "lock", "context")
  /\ slot' = r
  /\ client' = IF client = None THEN provider ELSE client
  /\ UNCHANGED <<gateVars, requestVars, local, attached, barge, provider, switchVars,
                 history, ghostVars>>

\* The client cannot be built (no key, a locked keyring): nothing is kept.
NoClient(r) ==
  /\ slot = None /\ client = None
  /\ Return(r, "lock", "noKey")
  /\ UNCHANGED <<gateVars, requestVars, attached, barge, reasonerVars, history, ghostVars>>

\* The notes are read (an await), then the conversation is copied and the
\* first round begins.
Think(r) ==
  /\ Goto(r, "context", "model")
  /\ local' = [local EXCEPT ![r].copy = history, ![r].round = 1]
  /\ UNCHANGED <<gateVars, requestVars, attached, barge, reasonerVars, history, ghostVars>>

\* A newer turn has barged in.
Cancelled(r) == barge # local[r].bargeAt

\* Mutant: the cancelled turn's copy is saved.
CancelSaves(r) ==
  /\ Cancelled(r)
  /\ Return(r, "model", "interrupted") \/ Return(r, "tool", "interrupted")
  /\ slot' = None
  /\ history' = Append(local[r].copy, [by |-> r, provider |-> client])
  /\ UNCHANGED <<gateVars, requestVars, attached, barge, client, provider, switchVars,
                 ghostVars>>

\* Mutant: the mutex is still held when the cancelled turn returns.
CancelKeepsSlot(r) ==
  /\ Cancelled(r)
  /\ Return(r, "model", "interrupted") \/ Return(r, "tool", "interrupted")
  /\ UNCHANGED <<gateVars, requestVars, attached, barge, reasonerVars, history, ghostVars>>

\* The turn is dropped where it stands; its copy of the conversation with it.
Cancel(r) ==
  /\ Cancelled(r)
  /\ Return(r, "model", "interrupted") \/ Return(r, "tool", "interrupted")
  /\ slot' = None
  /\ UNCHANGED <<gateVars, requestVars, attached, barge, client, provider, switchVars,
                 history, ghostVars>>

\* The loop ends with outcome o, its exchange part of the turn's copy.
LoopEnds(r, from, o) ==
  /\ pc[r] = from
  /\ pc' = [pc EXCEPT ![r] = "release"]
  /\ outcome' = [outcome EXCEPT ![r] = o]
  /\ local' = [local EXCEPT ![r] =
                 [Fresh EXCEPT !.copy = Append(local[r].copy, [by |-> r, provider |-> client])]]

\* The model's final reply, or a failed or unusable round trip.
ModelEnds(r) ==
  /\ ~Cancelled(r)
  /\ \E o \in {"reply", "error"} : LoopEnds(r, "model", o)
  /\ UNCHANGED <<gateVars, requestVars, attached, barge, reasonerVars, history, ghostVars>>

Responses == UNION {[1..n -> Tool] : n \in 0..MaxCalls}

\* The model calls tools.
ModelCalls(r) ==
  /\ ~Cancelled(r)
  /\ \E calls \in Responses, c \in BOOLEAN :
       /\ nextSeq < MaxHolds \/ \A i \in DOMAIN calls : calls[i] \notin HoldTools
       /\ local' = [local EXCEPT ![r].todo = calls, ![r].confirming = c]
  /\ Goto(r, "model", "calls")
  /\ UNCHANGED <<gateVars, requestVars, attached, barge, reasonerVars, history, ghostVars>>

\* Every call has its result: the next round trip, or after MAX_ROUNDS of them
\* a reply that gives up.
NextRound(r) ==
  /\ local[r].todo = <<>>
  /\ \/ /\ local[r].round < MaxRounds
        /\ Goto(r, "calls", "model")
        /\ local' = [local EXCEPT ![r].round = @ + 1, ![r].confirming = FALSE]
     \/ /\ local[r].round >= MaxRounds
        /\ LoopEnds(r, "calls", "reply")
  /\ UNCHANGED <<gateVars, requestVars, attached, barge, reasonerVars, history, ghostVars>>

\* The gate's verdict on the next call.
NextVerdict(r) == SameResponseVerdict(local[r].confirming, VerdictForCall(Head(local[r].todo)))

\* The call is denied, or its arguments do not parse, or it repeats an earlier
\* call once too often: its result says so, and the next call is looked at.
Refuse(r) ==
  /\ local[r].todo # <<>>
  /\ Goto(r, "calls", "calls")
  /\ local' = [local EXCEPT ![r].todo = Tail(@)]
  /\ UNCHANGED <<gateVars, requestVars, attached, barge, reasonerVars, history, ghostVars>>

\* The call runs: an await, at which the turn may be cancelled.
RunTool(r) ==
  /\ local[r].todo # <<>> /\ NextVerdict(r) = "allow"
  /\ Goto(r, "calls", "tool")
  /\ local' = [local EXCEPT ![r].todo = Tail(@)]
  /\ UNCHANGED <<gateVars, requestVars, attached, barge, reasonerVars, history, ghostVars>>

ToolDone(r) ==
  /\ ~Cancelled(r)
  /\ Goto(r, "tool", "calls")
  /\ UNCHANGED <<gateVars, requestVars, local, attached, barge, reasonerVars, history,
                 ghostVars>>

\* The call is to be parked: the turn number is read before the queue is locked.
HoldReads(r) ==
  /\ local[r].todo # <<>> /\ NextVerdict(r) = "hold"
  /\ Goto(r, "calls", "park")
  /\ local' = [local EXCEPT ![r].loaded = turn]
  /\ UNCHANGED <<gateVars, requestVars, attached, barge, reasonerVars, history, ghostVars>>

\* Mutant: after a hold the later calls of the response still run.
HoldGoesOn(r) ==
  /\ Goto(r, "park", "calls")
  /\ Park(Head(local[r].todo), local[r].loaded)
  /\ parked' = [parked EXCEPT ![r] = @ \cup {nextSeq}]
  /\ local' = [local EXCEPT ![r].todo = Tail(@)]
  /\ UNCHANGED <<turn, lock, requestVars, attached, barge, reasonerVars, history, ticket,
                 executed>>

\* The call is parked.  Nothing later in the response runs, and with no await
\* before the return the turn ends held.
Hold(r) ==
  /\ LoopEnds(r, "park", "held")
  /\ Park(Head(local[r].todo), local[r].loaded)
  /\ parked' = [parked EXCEPT ![r] = @ \cup {nextSeq}]
  /\ UNCHANGED <<turn, lock, requestVars, attached, barge, reasonerVars, history, ticket,
                 executed>>

\* The mutex is released before the conversation is stored.
Release(r) ==
  /\ Goto(r, "release", "persist")
  /\ slot' = None
  /\ UNCHANGED <<gateVars, requestVars, local, attached, barge, client, provider, switchVars, history, ghostVars>>

\* The copy replaces the stored conversation, and the outcome is announced.
Persist(r) ==
  /\ Return(r, "persist", outcome[r])
  /\ history' = local[r].copy
  /\ UNCHANGED <<gateVars, requestVars, attached, barge, reasonerVars, ghostVars>>

-----------------------------------------------------------------------------
(* The rest of the daemon *)

\* Mutant: there is an await between taking a call and running it.
AwaitsBeforeRun == {"exec", "reflexAct", "lock", "context", "model", "tool"}

\* The awaits a request can be dropped at.
Awaits == {"reflexAct", "lock", "context", "model", "tool"}

\* The client that sent a turn is gone: the handler runs inside its connection's
\* task, and is dropped with it at the await it has reached.
Disconnect(r) ==
  /\ source[r] = "Typed"
  /\ \E p \in Awaits : Return(r, p, "abandoned")
  /\ slot' = IF slot = r THEN None ELSE slot
  /\ UNCHANGED <<gateVars, requestVars, attached, barge, client, provider, switchVars,
                 history, ghostVars>>

\* `cosmo cancel <token>`, the overlay's cancel, or expiry: never runs it.
DropHold ==
  /\ \E p \in holds : Remove(p)
  /\ UNCHANGED <<turn, nextSeq, lock, requestVars, pc, outcome, local, attached, barge,
                 reasonerVars, history, ghostVars>>

\* The lock tracker, or refresh_lock at the start of a turn.
LockChanges ==
  /\ \E s \in LockReports : SetLockState(s)
  /\ UNCHANGED <<holds, turn, nextSeq, requestVars, pc, outcome, local, attached, barge,
                 reasonerVars, history, ghostVars>>

\* Startup connects the tool host; the ears may bring a turn before that.
AttachTools ==
  /\ ~attached
  /\ attached' = TRUE
  /\ UNCHANGED <<gateVars, requestVars, pc, outcome, local, barge, reasonerVars, history,
                 ghostVars>>

(***************************************************************************)
(* `reasoning set`: is it another provider, then the configuration is      *)
(* written, then the client goes (under its mutex, and only if the         *)
(* configuration still says so), then the conversation is cleared.         *)
(***************************************************************************)
switcherFrame == <<gateVars, requestVars, pc, outcome, local, attached, barge, slot, ghostVars>>

CompareProvider(c) ==
  /\ switch[c] = "new"
  /\ \E q \in Provider :
       /\ target' = [target EXCEPT ![c] = q]
       /\ another' = [another EXCEPT ![c] = q # provider]
  /\ switch' = [switch EXCEPT ![c] = "write"]
  /\ UNCHANGED <<switcherFrame, client, provider, history>>

WriteProvider(c) ==
  /\ switch[c] = "write"
  /\ provider' = target[c]
  /\ switch' = [switch EXCEPT ![c] = "changed"]
  /\ UNCHANGED <<switcherFrame, client, target, another, history>>

KeyChanged(c) ==
  /\ switch[c] = "changed"
  /\ switch' = [switch EXCEPT ![c] = IF provider = target[c] THEN "reset" ELSE "clear"]
  /\ UNCHANGED <<switcherFrame, client, provider, target, another, history>>

\* Mutant: the client is kept.
ResetClientNot(c) ==
  /\ switch[c] = "reset" /\ slot = None
  /\ switch' = [switch EXCEPT ![c] = "clear"]
  /\ UNCHANGED <<switcherFrame, client, provider, target, another, history>>

ResetClient(c) ==
  /\ switch[c] = "reset" /\ slot = None
  /\ client' = None
  /\ switch' = [switch EXCEPT ![c] = "clear"]
  /\ UNCHANGED <<switcherFrame, provider, target, another, history>>

ClearHistory(c) ==
  /\ switch[c] = "clear"
  /\ history' = IF another[c] THEN <<>> ELSE history
  /\ switch' = [switch EXCEPT ![c] = "done"]
  /\ UNCHANGED <<switcherFrame, client, provider, target, another>>

\* The client of a switch is gone while the switch waits for the mutex.
DisconnectSwitch(c) ==
  /\ switch[c] = "reset" /\ slot # None
  /\ switch' = [switch EXCEPT ![c] = "abandoned"]
  /\ UNCHANGED <<switcherFrame, client, provider, target, another, history>>

-----------------------------------------------------------------------------
(* The specification *)

Arrive(r) == Say(r) \/ SayPaused(r) \/ ConfirmToken(r)

\* The steps a request takes by itself once it has arrived.
Step(r) ==
  \/ BargeIn(r) \/ ReadBarge(r) \/ Begin(r)
  \/ NeedsKey(r) \/ LoadTurn(r) \/ Resolve(r) \/ UnknownToken(r) \/ NonePending(r)
  \/ ExecuteParked(r)
  \/ NoReflex(r) \/ Reflex(r) \/ ReflexDone(r)
  \/ TakeReasoner(r) \/ NoClient(r) \/ Think(r)
  \/ Cancel(r) \/ ModelEnds(r) \/ ModelCalls(r) \/ NextRound(r)
  \/ Refuse(r) \/ RunTool(r) \/ ToolDone(r) \/ HoldReads(r) \/ Hold(r)
  \/ Release(r) \/ Persist(r)

Switch(c) ==
  \/ CompareProvider(c) \/ WriteProvider(c) \/ KeyChanged(c) \/ ResetClient(c)
  \/ ClearHistory(c)

Next ==
  \/ \E r \in Req : Arrive(r) \/ Step(r) \/ Disconnect(r)
  \/ DropHold \/ LockChanges \/ AttachTools
  \/ \E c \in Switcher : Switch(c) \/ DisconnectSwitch(c)

Spec == Init /\ [][Next]_vars

\* The runtime runs every task that can go on, and everything awaited ends:
\* model round trips and tool calls time out.
Fairness ==
  /\ \A r \in Req : WF_vars(Step(r))
  /\ \A c \in Switcher : WF_vars(Switch(c))

FairSpec == Spec /\ Fairness

-----------------------------------------------------------------------------
(* Properties *)

\* A held call is run only on a local approval that may approve it: an
\* utterance from a source that may confirm or a token naming this very call,
\* from a turn number other than the one it was parked in; and it is a call the
\* gate holds, never one it denies (gate invariants 2, 4 and 5).
ApprovedExecution ==
  \A e \in executed :
    /\ e.call.tool \in HoldTools
    /\ e.call.turn # e.at
    /\ \/ kind[e.by] = "confirm" /\ source[e.by] \in {"Typed", "KeyHeld"}
       \/ kind[e.by] = "token" /\ token[e.by] = e.call.seq

\* A parked call is in one place only: waiting in the queue, or with the one
\* request that took it, or run; and no call is handed to the tool host twice
\* (Gate::confirm_token and resolve_oldest remove what they return).
SingleUse ==
  /\ \A r, q \in Req : \A p \in local[r].taken, o \in local[q].taken :
       p.seq = o.seq => r = q
  /\ \A r \in Req : \A p \in local[r].taken, o \in holds : p.seq # o.seq
  /\ \A e \in executed : \A o \in holds : e.call.seq # o.seq
  /\ \A e \in executed, r \in Req : \A p \in local[r].taken : e.call.seq # p.seq
  /\ \A d, e \in executed : d.call.seq = e.call.seq => d = e

\* A turn cancelled by a barge-in, or dropped with its client, leaves nothing
\* parked: a hold it parked would wait unannounced for the next "confirm" (a hold
\* ends the response, and there is no await between the park and the return).
CancelledLeavesNoHold ==
  \A r \in Req : outcome[r] \in {"interrupted", "abandoned"} => parked[r] = {}

\* Only a newer turn cancels a turn: the latest utterance is never cancelled,
\* by its own barge-in or by an older one (the barge counter is read after it
\* was bumped).
CancelledByNewer ==
  \A r \in Req : outcome[r] = "interrupted" =>
    \E q \in Req : ticket[q] > ticket[r]

\* The stored conversation holds no exchange of a cancelled turn, and none
\* twice, whatever the order in which turns end and store it.
ConversationIsClean ==
  /\ \A i, j \in DOMAIN history : history[i].by = history[j].by => i = j
  /\ \A i \in DOMAIN history : outcome[history[i].by] \in {"reply", "held", "error"}

\* The turn that holds the reasoner's mutex is the one in the tool loop, and it
\* has a client (the mutex guard lives from the lock to the drop).
InLoop == {"context", "model", "calls", "tool", "park", "release"}

LoopHoldsReasoner ==
  \A r \in Req : pc[r] \in InLoop => slot = r /\ client \in Provider

\* No switch in progress.
Settled == \A c \in Switcher : switch[c] \in {"new", "done"}

\* A switch that is carried through is never lost, whatever other switches and
\* turns run beside it: once none is in progress, a client that is kept is the
\* configured provider's (a turn of the old one cannot put it back).
ClientFollowsConfiguration == Settled => client \in {None, provider}

\* After a switch to another provider, nothing an earlier provider said is in
\* the conversation sent to the new one.
HistoryBelongsToProvider ==
  Settled => \A i \in DOMAIN history : history[i].provider = provider

\* Every request is answered: no turn waits for ever on the reasoner's mutex,
\* on a cancelled turn, or on a confirmation.
EveryRequestEnds == \A r \in Req : (pc[r] # "new") ~> (pc[r] = "done")

\* The holds of this model as the calls of the contract.
StatusOf(k) ==
  CASE k >= nextSeq                          -> "unborn"
    [] \E p \in holds : p.seq = k            -> "held"
    [] \E e \in executed : e.call.seq = k    -> "run"
    [] \E r \in Req : \E p \in local[r].taken : p.seq = k -> "taken"
    [] OTHER                                 -> "dropped"

Contract == INSTANCE HoldContract WITH
  Call   <- 0..(MaxHolds - 1),
  status <- [k \in 0..(MaxHolds - 1) |-> StatusOf(k)]

\* Every held call is parked once, then either taken and run once or dropped:
\* the handlers implement the contract, with the promise that an approved call
\* is run.
ImplementsHoldContract == Contract!HoldSpec
=============================================================================
