SPECIFICATION Spec
CONSTANTS
    Processes = {p1, p2, p3}
    Columns = {title, body}
SYMMETRY Symmetry
INVARIANTS
    TypeOK
    NilIsTrue
    RefusalsHaveACause
