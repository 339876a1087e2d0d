SPECIFICATION Spec
CONSTANTS
    a = a
    b = b
    c = c
    d = d
    Objects = {a, b, c, d}
    Fds = {1, 2}
    Fd <- MCFd
    InPlace = {d}
    None = None
INVARIANTS KernelAgrees MapAgrees HandledAreAlive
