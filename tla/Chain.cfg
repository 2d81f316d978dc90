SPECIFICATION Spec
CONSTANTS
    Calls = {c1, c2}
SYMMETRY CallSymmetry
INVARIANTS
    TypeOK
    PanicsAreAnswered
    AnswersAreLogged
    SubjectIsLogged
    BehindAuth
CHECK_DEADLOCK FALSE
