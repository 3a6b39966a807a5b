\* Two processing threads and one training thread, in a debug build.
SPECIFICATION FairSpec
CONSTANTS
  Processors = {p1, p2}
  Trainers = {t1}
  Free = Free
  Keys = {k1, k2}
  DedupWindow = 2
  Modulus = 16
  OverflowChecks = TRUE
  MaxCalls = 2
  MaxTime = 3
INVARIANTS EngineTypeOK ColdStartOnce ScoredWhenTrained DuplicatesSuppressed
PROPERTIES EveryCallReturns
CHECK_DEADLOCK FALSE
