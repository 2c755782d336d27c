SPECIFICATION Spec
CONSTANTS
    i1 = i1  i2 = i2  i3 = i3  h1 = h1  h2 = h2  r1 = r1  r2 = r2
    None = None
    Init_ = {i1, i2, i3}
    Home = {h1}
    Root = {r1, r2}
    MaxRepairs = 2
SYMMETRY InitSymmetry
INVARIANTS
    IdentityComesLast
    IdentityIsAgreed
PROPERTIES
    NothingIsReplaced
CHECK_DEADLOCK FALSE
