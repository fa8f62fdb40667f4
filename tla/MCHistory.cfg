SPECIFICATION Spec
CONSTANTS
  Req = {r1, r2}
  Provider = {openai, groq}
  None = None
  Switcher = {c1}
  AllowTools = {"search"}
  HoldTools = {"press_key"}
  DenyTools = {}
  SensitiveTools = {}
  Kinds = {"confirm", "ask"}
  Sources = {"KeyHeld"}
  LockReports = {}
  MaxRounds = 1
  MaxCalls = 1
  MaxHolds = 1
INVARIANT HistoryBelongsToProvider
CHECK_DEADLOCK FALSE
