SPECIFICATION Spec
CONSTANTS
  Clip = {c1, c2}
  Rate = {"low", "high"}
  MaxQuanta = 2
  MaxStops = 1
  MaxFaults = 1
  Capacity = 4
  MaxChunk = 2
  WakeMargin = 1
  WakeWindow = 3
  SilenceGap = 2
  MaxSamples = 6
  MaxResets = 2
  MinPause = 2
  Backstop = 3
  Margin = 1
  MaxWindows = 7
  MaxRecordings = 2
  Switch = {s1}
  VoiceProvider = {"openai", "kokoro"}
  VoiceId = {"v"}
  MaxPhrases = 2
  MaxCrashes = 1
  Provider = {"openrouter", "openai"}
  Browser = {"openrouter"}
  Keyless = {}
  SignIn = {l1, l2}
  Panel = {a1}
  MaxKeys = 1
  MaxAsks = 1
INVARIANTS NoOwnVoice HeardIsWhole VoiceIsWhole 
PROPERTIES PlayedWasWritten
CHECK_DEADLOCK FALSE
