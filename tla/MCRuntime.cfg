CONSTANTS
  ok = ok
  bad = bad
  null = null
  fragV = fragV
  nestingFragV = nestingFragV
  brokenFragV = brokenFragV
  Value <- MCValue
  ArrayValue <- MCArray
  Null <- null
  Field <- MCField
  FragmentOf <- MCFragmentOf
  MaxBody = 10
  Programs <- MCPrograms
  Replies <- MCReplies
  EncoderMayFail = TRUE
  MaxInstructions = 10
  MaxEffects = 5
  MaxEffectDepth = 2
  MaxHandlerReentries = 1
  MaxProgramFragments = 2
  MaxPatchAttempts = 1
SPECIFICATION FairSpec
INVARIANTS
  TypeOK
  CaptureIsolation
  HeldIsUnresumed
  ReplayAccepts
  FrameChain
  NoReentrantFunction
  NeverGoesWrong
  OnlyAllowedEffects
  HandlerCallsBounded
PROPERTIES
  RepairedGuardHolds
  KeepsPromise
  CallersSuspended
  Termination
