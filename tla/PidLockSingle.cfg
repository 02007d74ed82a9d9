SPECIFICATION Spec
CONSTANT Inst = {a, b}
INVARIANT SingleInstance
CHECK_DEADLOCK FALSE
