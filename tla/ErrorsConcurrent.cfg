CONSTANTS
    p1 = p1
    p2 = p2
    Request = {p1, p2}
SPECIFICATION Spec
CHECK_DEADLOCK FALSE
INVARIANT OwnErrorReported
