SPECIFICATION Spec
CONSTANTS
    None = None
    User = {u1, u2, u3}
    Bot = {bot}
    MaxRows = 3
    Call = {c1, c2}
SYMMETRY Symmetry
CHECK_DEADLOCK FALSE
INVARIANTS
    OneOpenProposal
    SamePlayersSameRoles
    ResolvedOnce
    BotGetsReady
