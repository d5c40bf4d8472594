SPECIFICATION GamesSpec
CONSTANTS
    a = a  b = b  c = c  None = None
    Kinds = {"C4a", "C4b", "C4c", "NBa", "NBb", "NBc", "HAa", "HAb", "CHa", "CHb", "DOa", "DOb", "DOc", "DOd", "UNa", "UNb", "UNc", "UNd", "UNe"}
    Players = {a, b, c}
    Seats = 2
    Stake = 10
    Fee = 15
    Watchers = {}
    Spenders = {a, b}
    MaxDrops = 0
    Expiring = {}
SYMMETRY Symmetry
INVARIANTS
    StakesBalance
    DiscsDecide FleetsDecide PiecesDecide KingsSafe TilesConserved
PROPERTIES
    RefreshedRowSurvives StakesPromise CardsConserved
CHECK_DEADLOCK FALSE
