SPECIFICATION Spec
CONSTANTS
    NumPlayers = 2
    Expansion = TRUE
    Cards = {6, 8, 10, 14, 77, 119, 120}
    Boxes = {{6, 8, 10, 14, 77, 119, 120}}
    Data <- MCData
    Critters <- MCCritters
    UniversalRecipes <- MCUniversalRecipes
    UniversalIngredients <- MCUniversalIngredients
    LastBaseCard = 76
    MinCardsInHand = 1
    MaxHandToDraw = 2
    InitialClosetSize = 3
    InitialHandSize = 0
    InitialExpansionClosetSize = 0
    InitialExpansionHandSize = 1
    Requests = {}
    AnyRequest = FALSE
    Restarts = FALSE
    ScoreBound = 12
PROPERTIES
    WhirpoolTakesAllApart
CHECK_DEADLOCK FALSE
