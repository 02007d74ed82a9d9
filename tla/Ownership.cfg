SPECIFICATION Spec
CONSTANTS
    Objects = {a, b, c}
    Param = param
    Resources = {r1, r2, r3, r4}
    Null = null
    Values = {0, 1}
    Classes = {"buffer", "file", "unique", "string", "copyswap"}
INVARIANTS
    NoDoubleFree
    OneOwner
    ValueRight
CHECK_DEADLOCK FALSE
