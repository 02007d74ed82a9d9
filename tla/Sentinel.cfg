SPECIFICATION Spec
CONSTANTS
    Workers = {w1, w2}
    NumTasks = 2
    Demos = {"pool"}
INVARIANT SentinelLast
CHECK_DEADLOCK FALSE
