SPECIFICATION Spec
CONSTANTS
    Commit = {1, 2, 3}
    Ancestors <- TwoLines
    Ref = {1, 2}
    Op = {1, 2, 3, 4, 5}
    Scenarios <- MCScenarios
INVARIANTS
    TypeOK
    GitIsInLine
PROPERTIES
    UserMovesSurvive
    HeadStaysPut
CHECK_DEADLOCK FALSE
