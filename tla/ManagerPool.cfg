SPECIFICATION Spec
CONSTANTS
    Managers = {a, b, c}
    Requests = {r1, r2}
    ManagersMax = 2
    MaxProblems = 1
INVARIANTS
    OverloadIsBounded
PROPERTIES
    ImplementsQueue
    NobodyStarves
