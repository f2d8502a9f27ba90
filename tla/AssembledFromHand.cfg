SPECIFICATION Spec
CONSTANTS
    NumPlayers = 2
    Expansion = TRUE
    Cards = {6, 7, 8, 14, 119, 98}
    Boxes = {{6, 7, 8, 14, 119, 98}}
    Data <- MCData
    Critters <- MCCritters
    UniversalRecipes <- MCUniversalRecipes
    UniversalIngredients <- MCUniversalIngredients
    LastBaseCard = 76
    MinCardsInHand = 1
    MaxHandToDraw = 2
    InitialClosetSize = 2
    InitialHandSize = 0
    InitialExpansionClosetSize = 1
    InitialExpansionHandSize = 0
    Requests = {}
    AnyRequest = TRUE
    Restarts = FALSE
    ScoreBound = 12
INVARIANTS
    AssembledFromHand
CHECK_DEADLOCK FALSE
