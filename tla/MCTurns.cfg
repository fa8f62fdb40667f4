SPECIFICATION Spec
CONSTANTS
  Req = {r1, r2, r3}
  Provider = {openai}
  None = None
  Switcher = {}
  AllowTools = {"search"}
  HoldTools = {"press_key"}
  DenyTools = {}
  SensitiveTools = {}
  Kinds = {"confirm", "ask", "token"}
  Sources = {"Typed", "OpenMic"}
  LockReports = {}
  MaxRounds = 1
  MaxCalls = 1
  MaxHolds = 1
SYMMETRY Symmetry
INVARIANTS TypeOK ApprovedExecution SingleUse CancelledByNewer ConversationIsClean
CHECK_DEADLOCK FALSE
