SPECIFICATION Spec
CONSTANT Demos = {"cache"}
INVARIANT Outcome
CHECK_DEADLOCK FALSE
