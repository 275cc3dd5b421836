CONSTANTS
    a = a
    b = b
    c = c
    x = x
    y = y
    z = z
    Tasks <- MCTasks
    Deps <- MCDeps
SPECIFICATION Spec
CHECK_DEADLOCK FALSE
INVARIANTS
    AtMostOneClaim
    InputsObtainable
    NoEdgeLost
PROPERTY DagSpec
