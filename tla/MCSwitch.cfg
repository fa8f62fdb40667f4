SPECIFICATION Spec
CONSTANTS
  Req = {r1, r2}
  Provider = {openai, groq}
  None = None
  Switcher = {c1, c2}
  AllowTools = {"search"}
  HoldTools = {}
  DenyTools = {}
  SensitiveTools = {"search"}
  Kinds = {"ask"}
  Sources = {"Typed"}
  LockReports = {"unlocked"}
  MaxRounds = 1
  MaxCalls = 1
  MaxHolds = 0
INVARIANTS ClientFollowsConfiguration
SYMMETRY Symmetry
CHECK_DEADLOCK FALSE
