SPECIFICATION Spec
CONSTANTS
    None = None
    User = {u1, u2, u3}
    Bot = {bot}
    MaxRows = 2
    Call = {c1}
SYMMETRY Symmetry
CHECK_DEADLOCK FALSE
INVARIANT LiveMatchIsOffered
