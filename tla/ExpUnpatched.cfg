CONSTANTS
  Torn = Torn
  e1 = e1
  e2 = e2
  hit = hit
  miss = miss
  NoPatch = "none"
  Bases = {base, other}
  base = base
  other = other
  Patches <- OnePatch
  MaxAttempts = 1
  MaxCommands = 3
  Experiments = {e1, e2}
  Configs <- Shared
  Plans <- OnePlan
  Events <- OneEvent
  Branching = {}
SPECIFICATION Spec
CHECK_DEADLOCK FALSE
INVARIANTS
  VariantIsPatched
