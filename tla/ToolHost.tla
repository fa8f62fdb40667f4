------------------------------ MODULE ToolHost ------------------------------
(***************************************************************************)
(* The daemon's tool host (crates/cosmo-daemon/src/toolhost.rs): one flat  *)
(* list of tools, judged by the gate and routed to a native tool, to a     *)
(* desktop verb of the reflex path, or to the MCP agent (crates/cosmo-mcp),*)
(* whose process is spawned, listed once, called, and spawned again after  *)
(* it died.                                                                *)
(*                                                                         *)
(* Several callers share the host: the turn in the tool loop and any       *)
(* number of confirmed calls.  Each is dropped at any await when its turn  *)
(* is cancelled or its client hangs up.                                    *)
(*                                                                         *)
(* Abstractions.  A tool is its name; arguments matter only to the command *)
(* matcher, whose verdict is any of the three (Commands says which).  *)
(* A connection to the agent is the number of its process.  Of a tool's    *)
(* annotations only `destructive` is kept: the gate asks for no other.     *)
(***************************************************************************)
EXTENDS Naturals, FiniteSets

CONSTANTS
  HostCaller,       \* concurrent callers of the host
  AgentTool,        \* tools an agent may list
  HostAsked,        \* bound: tools the model asks for, invented ones included
  MaxHostCalls,     \* bound: calls begun
  MaxProcesses      \* bound: agent processes spawned

ASSUME HostAssumption == MaxHostCalls \in Nat /\ MaxProcesses \in Nat

VARIABLES
  hostDesktop,      \* the reflex actuator was there when the host was built
  hints,            \* the destructiveHint the agent declares for its tools
  allowlist,        \* Config::allowed_tools
  agentTools,       \* McpHost::agent_tools: name -> is it destructive
  connected,        \* the host is attached to the engine
  slot,             \* the process the agent slot points to
  slotOwner,        \* who holds the slot's mutex
  broken,           \* McpHost::broken
  died, closed,     \* processes that are gone; those known to be (transport closed)
  host,             \* host[c]: what caller c does
  begun,            \* calls begun
  ran,              \* history: calls that ran on the agent [tool, confirmed, process]
  failed            \* history: processes a call found gone

agentVars == <<slot, slotOwner, broken, died, closed>>
hostConfig == <<hostDesktop, hints, allowlist>>
hostVars == <<hostConfig, agentTools, connected, agentVars, host, begun, ran, failed>>

Hint == {"unsaid", "yes", "no"}
Idle == [at |-> "idle"]

-----------------------------------------------------------------------------
(* The list of tools, and what the gate makes of each *)

ReadOnlyNatives == {"read_terminal", "recall", "system_query", "weather", "news", "web_search",
                    "read_page"}
ActingNatives == {"run_in_terminal", "watch_terminal", "announce", "remember", "media_control",
                  "clipboard_get", "clipboard_set", "dictate", "open_url", "update_profile"}
DesktopTools == {"volume", "launch_app", "focus_app", "switch_workspace",
                 "move_window_to_workspace", "maximize_window", "minimize_window"}
Natives == ReadOnlyNatives \cup ActingNatives

\* DaemonToolHost::tool_schemas
Offered == DOMAIN agentTools \cup Natives \cup (IF hostDesktop THEN DesktopTools ELSE {})

\* annotations_of: a name nobody registered is destructive.
Destructive(tool) ==
  IF tool \in DOMAIN agentTools THEN agentTools[tool]
  ELSE tool \notin Natives \cup DesktopTools

LockSensitive == {"screenshot", "get_app_state", "click", "double_click", "right_click",
                  "type_text", "dictate", "press_key", "scroll", "drag", "clipboard_get",
                  "clipboard_set", "set_value", "perform_action"}

\* is_string_bearing: what these are given is judged by the command matcher.
StringBearing == {"run_in_terminal", "cosmo_type_into_terminal", "dictate"}

\* PolicyGate::verdict_for_call, by name; the command of a string-bearing
\* tool may get any verdict.
VerdictsByName(tool, unlocked) ==
  CASE tool \in LockSensitive /\ ~unlocked -> {"deny"}
    [] tool \in StringBearing -> {"allow", "hold", "deny"}
    [] tool = "clipboard_get" -> {"hold"}
    [] tool = "clipboard_set" -> {"allow"}
    [] OTHER -> {IF Destructive(tool) THEN "hold" ELSE "allow"}

\* DaemonToolHost::execute: native names first, then desktop verbs, then the agent
RouteOf(tool) ==
  CASE tool \in Natives \/ (tool = "volume" /\ ~hostDesktop) -> "native"
    [] tool \in DesktopTools /\ hostDesktop -> "desktop"
    [] OTHER -> "agent"

-----------------------------------------------------------------------------
(* The agent's process *)

HostInit ==
  /\ hostDesktop \in BOOLEAN
  /\ hints \in [AgentTool -> Hint]
  /\ allowlist \in SUBSET AgentTool
  /\ agentTools = <<>> /\ connected = FALSE
  /\ slot = 0 /\ slotOwner = {} /\ broken = FALSE /\ died = {} /\ closed = {}
  /\ host = [c \in HostCaller |-> Idle] /\ begun = 0 /\ ran = {} /\ failed = {}

\* Mutant: what is not declared is taken for harmless.
DeclaredOrHarmless(hint) == hint = "yes"

\* annotations_of: what is not declared rounds towards Hold.
Declared(hint) == hint # "no"

\* McpHost::connect at startup: spawn, list, filter; a failure leaves no host.
Connect ==
  /\ slot = 0
  /\ slot' = 1
  /\ \/ /\ connected' = TRUE
        /\ agentTools' = [t \in (AgentTool \cap allowlist) \ {"run_shell"} |-> Declared(hints[t])]
     \/ UNCHANGED <<connected, agentTools>>
  /\ UNCHANGED <<hostConfig, slotOwner, broken, died, closed, host, begun, ran, failed>>

\* The process exits; the client side notices at once or at the next call.
AgentDies ==
  /\ slot > 0 /\ slot \notin died
  /\ died' = died \cup {slot}
  /\ closed' \in {closed, closed \cup {slot}}
  /\ UNCHANGED <<hostConfig, agentTools, connected, slot, slotOwner, broken, host, begun, ran, failed>>

-----------------------------------------------------------------------------
(* One call *)

Frame == UNCHANGED <<hostConfig, agentTools, connected>>
At(c, where) == host[c].at = where
GoTo(c, where) == host' = [host EXCEPT ![c].at = where]
EndCall(c) == host' = [host EXCEPT ![c] = Idle]

\* The model asks for a tool, of the list or invented; the gate decides.
AskTool(c) ==
  /\ connected /\ At(c, "idle") /\ begun < MaxHostCalls
  /\ begun' = begun + 1
  /\ \E t \in HostAsked : \E unlocked \in BOOLEAN : \E v \in VerdictsByName(t, unlocked) :
       host' = [host EXCEPT ![c] =
         IF v = "deny" THEN Idle
         ELSE [at |-> IF v = "hold" THEN "held" ELSE "run", tool |-> t, confirmed |-> v = "hold",
               process |-> 0]]
  /\ UNCHANGED <<agentVars, ran, failed>> /\ Frame

\* A held call is confirmed, by a request of its own, or dropped.
Resolve(c) ==
  /\ At(c, "held")
  /\ GoTo(c, "run") \/ EndCall(c)
  /\ UNCHANGED <<agentVars, begun, ran, failed>> /\ Frame

RunHere(c) ==
  /\ At(c, "run") /\ RouteOf(host[c].tool) # "agent"
  /\ EndCall(c)
  /\ UNCHANGED <<agentVars, begun, ran, failed>> /\ Frame

NotAllowed(c) ==
  /\ At(c, "run") /\ RouteOf(host[c].tool) = "agent" /\ host[c].tool \notin DOMAIN agentTools
  /\ EndCall(c)
  /\ UNCHANGED <<agentVars, begun, ran, failed>> /\ Frame

\* live_agent: the slot's mutex, held across a respawn
LockSlot(c) ==
  /\ At(c, "run") /\ RouteOf(host[c].tool) = "agent" /\ host[c].tool \in DOMAIN agentTools
  /\ slotOwner = {}
  /\ slotOwner' = {c}
  /\ GoTo(c, IF broken \/ slot \in closed THEN "spawn" ELSE "clone")
  /\ UNCHANGED <<slot, broken, died, closed, begun, ran, failed>> /\ Frame

\* The handshake has no timeout of its own; here it ends, one way or another.
Spawn(c) ==
  /\ At(c, "spawn")
  /\ \/ /\ slot < MaxProcesses
        /\ slot' = slot + 1 /\ broken' = FALSE
        /\ GoTo(c, "clone") /\ UNCHANGED slotOwner
     \/ /\ slotOwner' = {}
        /\ EndCall(c)
        /\ UNCHANGED <<slot, broken>>
  /\ UNCHANGED <<died, closed, begun, ran, failed>> /\ Frame

\* The connection is cloned out and the mutex released before the call.
StartCall(c) ==
  /\ At(c, "clone")
  /\ slotOwner' = {}
  /\ host' = [host EXCEPT ![c].at = "call", ![c].process = slot]
  /\ ran' = ran \cup {[tool |-> host[c].tool, confirmed |-> host[c].confirmed, process |-> slot]}
  /\ UNCHANGED <<slot, broken, died, closed, begun, failed>> /\ Frame

\* A result, or an error the agent answers with.
AgentAnswers(c) ==
  /\ At(c, "call") /\ host[c].process \notin died
  /\ EndCall(c)
  /\ UNCHANGED <<agentVars, begun, ran, failed>> /\ Frame

\* The call finds the transport gone (is_transport_failure).
TransportFails(c) ==
  /\ At(c, "call") /\ host[c].process \in died
  /\ broken' = TRUE /\ failed' = failed \cup {host[c].process}
  /\ EndCall(c)
  /\ UNCHANGED <<slot, slotOwner, died, closed, begun, ran>> /\ Frame

\* CALL_TIMEOUT: the call is given up, the connection kept.
CallTimeout(c) ==
  /\ At(c, "call")
  /\ EndCall(c)
  /\ UNCHANGED <<agentVars, begun, ran, failed>> /\ Frame

\* The caller's future is dropped at an await; a guard it holds goes with it.
DropCall(c) ==
  /\ host[c].at \in {"run", "spawn", "call"}
  /\ slotOwner' = slotOwner \ {c}
  /\ EndCall(c)
  /\ UNCHANGED <<slot, broken, died, closed, begun, ran, failed>> /\ Frame

HostSteps(c) ==
  \/ RunHere(c) \/ NotAllowed(c) \/ LockSlot(c) \/ Spawn(c) \/ StartCall(c)

HostNext ==
  \/ Connect \/ AgentDies
  \/ \E c \in HostCaller :
       \/ AskTool(c) \/ Resolve(c) \/ HostSteps(c)
       \/ AgentAnswers(c) \/ TransportFails(c) \/ CallTimeout(c) \/ DropCall(c)

HostSpec == HostInit /\ [][HostNext]_hostVars

-----------------------------------------------------------------------------
(* Properties *)

\* No call reaches the agent unconfirmed unless the agent itself declared the
\* tool not destructive or the command matcher read what it was given, and none
\* at all of run_shell or of a tool off the allowlist: whatever the agent lists
\* or leaves unsaid, whatever the model invents, on the first process or a
\* later one (lib.rs:8, 239, 257).
HintsAreObeyed == \A r \in ran :
  /\ r.tool \in allowlist \ {"run_shell"}
  /\ r.confirmed \/ hints[r.tool] = "no" \/ r.tool \in StringBearing

\* What a call found gone is not handed out again until a finished respawn has
\* set the flag back (lib.rs:141), and of the callers that find it so, one
\* respawns it: a process more would be one that nobody stops.
DeadAgentIsReplaced ==
  /\ slot \in failed => broken
  /\ \A c, d \in HostCaller :
       host[c].at \in {"spawn", "clone"} /\ host[d].at \in {"spawn", "clone"} => c = d

\* The tool host obeys the hints of the agent that runs, and no other: nothing the
\* agent did not declare harmless runs unconfirmed, and a connection found dead is
\* not used again (toolhost.rs, lib.rs of cosmo-mcp).
HostSafe == HintsAreObeyed /\ DeadAgentIsReplaced
=============================================================================
