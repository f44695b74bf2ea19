CONSTANTS
  w1 = w1
  w2 = w2
  k1 = k1
  k2 = k2
  s1 = s1
  NoRequest = NoRequest
  Worker = {w1, w2}
  Key = {k1, k2}
  Scope = {s1}
  ScopeOf <- OneScope
  CacheMode = "disabled"
  HardCap = 1
  Projected = 1
  AnswerCosts = {1}
  MaxCalls = 3
  Events <- MCEvents
  MaxFaults = 0
SPECIFICATION DirectSpec
INVARIANT HardCapHolds
