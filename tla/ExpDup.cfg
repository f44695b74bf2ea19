CONSTANTS
  Torn = Torn
  e1 = e1
  e2 = e2
  hit = hit
  miss = miss
  NoPatch = "none"
  Bases = {base}
  other = other
  base = base
  Patches <- NoPatches
  MaxAttempts = 1
  MaxCommands = 2
  Experiments = {e1}
  Configs <- Resumed
  Plans <- MCPlans
  Events <- MCEvents
  Branching = {}
SPECIFICATION Spec
CHECK_DEADLOCK FALSE
INVARIANTS
  UnoptimizedComplete
