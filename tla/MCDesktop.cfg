SPECIFICATION FairSpec
CONSTANTS
  HostCaller = {c1, c2}
  AgentTool = {"click", "run_shell"}
  HostAsked = {"click", "run_shell", "launch_app", "recall"}
  MaxHostCalls = 2
  MaxProcesses = 3
  Window = {w1}
  WindowUser = {u1, u2}
  MaxChanges = 1
  MaxServices = 2
  Char = {a, b, c}
  Budget = 2
  MaxTextLength = 5
INVARIANTS  VerbIsNotRepeated TypedAsGiven
PROPERTIES JobsAreTaken
CHECK_DEADLOCK FALSE
