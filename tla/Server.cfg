SPECIFICATION Spec
CONSTANTS
    Users = {u1, u2}
    Names = {n1, n2}
    Kinds = {k1}
    None = None
    Anyone = Anyone
    GameIds = {g1, g2}
    SessionIds = {s1}
    MinPlayers = 2
    MaxPlayers = 2
    GameLimit = 1
    MaxMoves = 2
    Failures = {}
    Posted <- MCPosted
    UniqueNames = TRUE
    Organizers = {}
SYMMETRY Symmetric
INVARIANTS TypeOK Coherent HistoryComplete PlayersListTheirGames EveryMoveLoads
PROPERTIES ImplementsGameStore
