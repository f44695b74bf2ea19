CONSTANTS
  ok = ok
  null = null
  Value <- MCValue
  ArrayValue = {}
  Null <- null
  Field <- NoField
  FragmentOf <- NoFragments
  MaxBody = 10
  Programs <- MCPrograms
  ModelOps <- MCModelOps
  Truthy = {ok}
  MaxOps = 3
  Profile <- MCProfile
  Negatives <- MCNegatives
  Plans <- MCPlans
  Events <- MCEvents
  Matches <- MCMatches
  Absent = Absent
  BadRegex = BadRegex
SPECIFICATION FastSpec
CHECK_DEADLOCK FALSE
INVARIANTS
  TypeOK
  TargetsKept
  HardNegativesFallBack
  FastKindIsProfiled
  MissesRunBase
