SPECIFICATION Spec
CONSTANTS
    NReq = 2
    Compute = {c1, c2}
    Io = {i1}
INVARIANT FramePreserved
CHECK_DEADLOCK FALSE
