CONSTANTS
  Torn = Torn
  hit = hit
  miss = miss
  NoPatch = "none"
  Bases = {base}
  base = base
  Patches <- MCPatches
  MaxAttempts = 2
  MaxCommands = 4
  MaxEvents = 2
  Offered <- MCOffered
SPECIFICATION StreamSpec
CHECK_DEADLOCK FALSE
INVARIANTS
  RecordsTellVersions
  ProfileIsTraced
  MetricsTellRuns
