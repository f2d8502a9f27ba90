SPECIFICATION Spec
CONSTANTS
    NumPlayers = 2
    Expansion = TRUE
    Cards = {6, 8, 83, 86, 89, 92, 95, 101, 104, 107, 113, 122, 123, 131, 132, 134}
    Boxes = {{6,8,101,92,86,89},{8,131,132,86,83,104},{6,8,122,131,92,95},{8,122,123,131,92,95},{6,86,107,113,134}}
    Data <- MCData
    Critters <- MCCritters
    UniversalRecipes <- MCUniversalRecipes
    UniversalIngredients <- MCUniversalIngredients
    LastBaseCard = 76
    MinCardsInHand = 1
    MaxHandToDraw = 2
    InitialClosetSize = 1
    InitialHandSize = 0
    InitialExpansionClosetSize = 1
    InitialExpansionHandSize = 0
    Requests = {}
    AnyRequest = TRUE
    Restarts = TRUE
    ScoreBound = 14
INVARIANTS
    CardsConserved
    TablesAgree
    StuckOnlyWhenKnown
PROPERTIES
    NothingForNothing
    OwnersPaid
    ImplementsTurnFlow
CHECK_DEADLOCK FALSE
