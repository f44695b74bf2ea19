CONSTANTS
  ok = ok
  bad = bad
  null = null
  fragV = fragV
  nestingFragV = nestingFragV
  brokenFragV = brokenFragV
  Value <- MCValue
  ArrayValue <- MCArray
  Null <- null
  Field <- MCField
  FragmentOf <- MCFragmentOf
  MaxBody = 10
  Programs <- FamilyPrograms
  Replies <- FamilyReplies
  EncoderMayFail = FALSE
  MaxInstructions = 12
  MaxEffects = 5
  MaxEffectDepth = 2
  MaxHandlerReentries = 1
  MaxProgramFragments = 2
  MaxPatchAttempts = 1
SPECIFICATION Spec
INVARIANTS
  NeverGoesWrong
