SPECIFICATION Spec
CONSTANTS
  Plans <- MCPlans
INVARIANTS
  SharedServices
  FailsForCause
CHECK_DEADLOCK FALSE
