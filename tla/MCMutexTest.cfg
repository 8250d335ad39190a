CONSTANT N = 2
SPECIFICATION Spec
INVARIANT AssertionHolds
CHECK_DEADLOCK FALSE
