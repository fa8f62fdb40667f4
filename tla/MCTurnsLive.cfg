SPECIFICATION FairSpec
CONSTANTS
  Req = {r1, r2}
  Provider = {openai}
  None = None
  Switcher = {}
  AllowTools = {"search"}
  HoldTools = {"press_key"}
  DenyTools = {}
  SensitiveTools = {"press_key"}
  Kinds = {"confirm", "verb", "ask", "token"}
  Sources = {"KeyHeld"}
  LockReports = {"unlocked"}
  MaxRounds = 1
  MaxCalls = 2
  MaxHolds = 1
INVARIANT CancelledLeavesNoHold
  
CHECK_DEADLOCK FALSE
