CONSTANTS
  Torn = Torn
  e1 = e1
  e2 = e2
  hit = hit
  miss = miss
  NoPatch = "none"
  Bases = {base, other}
  base = base
  other = other
  Patches <- NoPatches
  MaxAttempts = 1
  MaxCommands = 3
  Experiments = {e1}
  Configs <- Resumed
  Plans <- MCPlans
  Events <- MCEvents
  Branching = {}
SPECIFICATION Spec
CHECK_DEADLOCK FALSE
INVARIANTS
  PredictionsComplete
  ManifestExtended
  MarkersCoverManifest
  SemanticPatchFits
  ProgressInOrder
