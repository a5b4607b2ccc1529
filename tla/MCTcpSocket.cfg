SPECIFICATION Spec
CONSTANTS
    Sessions = {s1, s2}
    Listeners = {l1, l2}
    Fds = {f1, f2, f3, f4, f5}
    NULL = NULL
    NoFd = NoFd
SYMMETRY Symmetry
CHECK_DEADLOCK FALSE
INVARIANTS OneOwner CallbackFindsChannel HeldOrLost FreedOnce
