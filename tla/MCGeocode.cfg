SPECIFICATION LookupsSpec
CONSTANTS
  Caller = {c1, c2, c3}
  Forecast = {f}
  NewsFeed = {}
  Lease = 3
  Timeout = 1
  Gap = 2
  MaxVersion = 1
  MaxTime = 6
INVARIANT OneRequestASecond
CHECK_DEADLOCK FALSE
