SPECIFICATION PageSpec
CHECK_DEADLOCK FALSE
CONSTANTS
  Sessions = {s1, s2}
  Templates <- MCTemplates
  Excluded <- MCExcluded
  MaxChanges = 2
INVARIANTS BundleRunsEach
PROPERTIES BundleIsCurrent
