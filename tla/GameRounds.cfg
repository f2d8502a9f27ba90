SPECIFICATION Spec
CONSTANTS
    NumPlayers = 3
    Expansion = TRUE
    Cards = {6, 7, 8, 14, 77, 80, 98, 119}
    Boxes = {{6, 8, 14, 77, 80, 98}, {6, 7, 8, 14, 119, 98}}
    Data <- MCData
    Critters <- MCCritters
    UniversalRecipes <- MCUniversalRecipes
    UniversalIngredients <- MCUniversalIngredients
    LastBaseCard = 76
    MinCardsInHand = 1
    MaxHandToDraw = 2
    InitialClosetSize = 0
    InitialHandSize = 1
    InitialExpansionClosetSize = 0
    InitialExpansionHandSize = 0
    Requests = {3, 4}
    AnyRequest = FALSE
    Restarts = TRUE
    ScoreBound = 12
INVARIANTS
    CardsConserved
    StuckOnlyWhenKnown
    PagesEndItInTwoWays
    AcceptsWhatFits
PROPERTIES
    ReloadKeeps
    ImplementsTurnFlow
CHECK_DEADLOCK FALSE
