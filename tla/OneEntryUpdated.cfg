SPECIFICATION Spec
CONSTANTS
    Users = {u1, u2}
    Names = {n1}
    Kinds = {k1}
    None = None
    Anyone = Anyone
    GameIds = {g1, g2}
    SessionIds = {s1}
    MinPlayers = 2
    MaxPlayers = 2
    GameLimit = 1
    MaxMoves = 1
    Failures = {}
    Posted <- MCPosted
    UniqueNames = FALSE
    Organizers = {}
SYMMETRY Symmetric
INVARIANTS OneEntryUpdated

