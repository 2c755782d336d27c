SPECIFICATION Spec
CONSTANTS
    p1 = p1  p2 = p2  r1 = r1  r2 = r2  c1 = c1  c2 = c2  c3 = c3  bad = bad
    None = None  Empty = Empty
    Caller = {p1, p2}
    Release = {r1, r2}
    Content = {c1, c2, c3, bad}
    Good = {c1, c2, c3}
    Legacy = {c3}
    BundleOf <- MCBundleOf
SYMMETRY Symmetry
INVARIANTS
    ActiveReleaseLoads
    ServiceIsNeverRefused
PROPERTIES
    ImplementsRegister
