CONSTANTS
    a = a
    w1 = w1
    p1 = p1
    Root = {a, b}
    Name = {n1, n2}
    Proc = {p1, p2}
    Ws = {w1}
    Repo = {r1}
    RootOf <- MCRootOf
    Commands <- MCCommands
SYMMETRY MCSymmetry
SPECIFICATION Spec
INVARIANT NamesUnique
PROPERTY GcKeepsInUse
