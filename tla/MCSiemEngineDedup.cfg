\* The deduplication siem.rs:1031 tests, in a release build.
SPECIFICATION Spec
CONSTANTS
  Processors = {p1, p2}
  Trainers = {}
  Free = Free
  Keys = {k1, k2}
  DedupWindow = 2
  Modulus = 16
  OverflowChecks = FALSE
  MaxCalls = 2
  MaxTime = 3
SYMMETRY ThreadSymmetry
INVARIANTS DuplicatesSuppressed
CHECK_DEADLOCK FALSE
