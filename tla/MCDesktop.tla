------------------------------ MODULE MCDesktop ------------------------------
(***************************************************************************)
(* Small instances of what acts on the desktop: the tool host, the window  *)
(* service and text injection.  They share no state, so a behaviour is of  *)
(* one part, chosen at the start, while the others rest.                   *)
(***************************************************************************)
EXTENDS ToolHost, Windows, Typing

VARIABLE part

Init ==
  /\ part \in {"host", "windows", "typing"}
  /\ HostInit
  /\ part # "host" => ~hostDesktop /\ allowlist = {} /\ hints = [t \in AgentTool |-> "no"]
  /\ WindowsInit
  /\ part # "windows" => focus = NoWindow /\ \A u \in WindowUser : user[u].verb = "activate"
  /\ TypingInit
  /\ part # "typing" => text = <<>>

Next ==
  \/ part = "host" /\ HostNext /\ UNCHANGED <<part, windowsVars, typingVars>>
  \/ part = "windows" /\ WindowsNext /\ UNCHANGED <<part, hostVars, typingVars>>
  \/ part = "typing" /\ TypingNext /\ UNCHANGED <<part, hostVars, windowsVars>>

vars == <<part, hostVars, windowsVars, typingVars>>

\* The window thread runs, and a caller that has begun to send goes on (control.rs).
DesktopFairness ==
  /\ WF_windowsVars(part = "windows" /\ ThreadSteps)
  /\ \A u \in WindowUser : WF_windowsVars(part = "windows" /\ (SendJob(u) \/ Wake(u)))

FairSpec == Init /\ [][Next]_vars /\ DesktopFairness
=============================================================================
