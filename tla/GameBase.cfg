SPECIFICATION Spec
CONSTANTS
    NumPlayers = 2
    Expansion = FALSE
    Cards = {6, 8, 10, 14, 47, 71, 74, 75}
    Boxes = {{6, 8, 10, 14, 47, 71, 74, 75}}
    Data <- MCData
    Critters <- MCCritters
    UniversalRecipes <- MCUniversalRecipes
    UniversalIngredients <- MCUniversalIngredients
    LastBaseCard = 76
    MinCardsInHand = 2
    MaxHandToDraw = 3
    InitialClosetSize = 3
    InitialHandSize = 0
    InitialExpansionClosetSize = 0
    InitialExpansionHandSize = 0
    Requests = {}
    AnyRequest = TRUE
    Restarts = TRUE
    ScoreBound = 20
INVARIANTS
    TypeOK
    CardsConserved
    TablesAgree
    StuckOnlyWhenKnown
PROPERTIES
    OnlyTopsLeave
    ReadyToPlay
CHECK_DEADLOCK FALSE
