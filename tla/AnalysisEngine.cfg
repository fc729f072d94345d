CONSTANTS
  Size = 4
  Largest = 12
SPECIFICATION Spec
INVARIANTS BitsExact RangesSound FixpointReached FewVisits
CHECK_DEADLOCK FALSE
