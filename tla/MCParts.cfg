SPECIFICATION PartsSpec
CONSTANTS
  Format = {"chat", "messages"}
  AllowCalls = {"search"}
  HoldCalls = {"press_key"}
  DenyCalls = {"run_shell"}
  LoopRounds = 2
  MaxRepeats = 1
  Keep = 3
  MaxTurns = 2
  LoopCalls = 2
  MaxText = 1
  Word = {"rm", "-rf", "git", "push", "sh", "-c", "env", "5", "A=1", ";", "python", "-e", "sudo",
          "reboot", "$(", ")", "curl", "-exec"}
  MaxWords = 3
  Heard = {"open", "terminal", "new", "workspace", "2", "to", "switch", "play", "it", "volume",
           "up", "maximize", "for", "my"}
  Stray = "xyzzy"
  MaxHeard = 3
  Char = {"a", "A", ".", " "}
  MaxReply = 6
  MaxDelta = 3
  Caller = {c1, c2}
  Forecast = {f}
  NewsFeed = {d}
  Lease = 3
  Timeout = 1
  Gap = 2
  MaxVersion = 2
  MaxTime = 6
  Writer = {w1, w2}
  Key = {"provider", "model"}
  Value = {"x", "y"}
  Invalid = "bad"
  MaxSaves = 2
  MaxFields = 3
  ExecChar = {"a", "_", "q", "e", "%"}
  MaxLength = 2
  MaxArguments = 2
  Player = {1, 2}
  Command = {m1, m2}
  MaxByHand = 1
  Address = {a1, a2, a3}
  Local = {a3}
  MaxHops = 2
  PageToken = {"<head>", "<nav>", "</nav>", "</head>", "<header>", "x"}
  MaxTokens = 4
  FeedToken = {"<item>", "</item>", "<title>", "</>", "<b>", "p"}
  MaxFeed = 6
  TerminalCall = {t1, t2}
  MaxCommands = 2
  MaxPolls = 2
INVARIANTS
   PartsDecide  
  NewsIsNew SavedIsKept  PlayUndoesPause 
CHECK_DEADLOCK FALSE
