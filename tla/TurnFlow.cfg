SPECIFICATION Spec
CONSTANTS
    NumPlayers = 3
    Expansion = TRUE
INVARIANTS
    TypeOK
    PhaseInv
PROPERTIES
    RoundsAskEverybody
    ImplementsTurnProtocol
