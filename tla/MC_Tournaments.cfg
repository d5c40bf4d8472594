SPECIFICATION TournamentsSpec
CONSTANTS
  s1 = s1  s2 = s2
  Kinds = {"Duel", "Overlap", "Pairs", "Byes", "Late", "Eight", "Sparse"}
  Users = 2  MaxPlayers = 2  MinPlayers = 2  Stake = 7  Fee = 15  First = 55
  Schedulers = {}  Troubles = {}  Ahead = 0  Commands = 1  Quits = 0  None = None
INVARIANTS BooksBalance ChampionUnbeaten FinalsDrawnOnce
PROPERTIES ResultStands CancelledIsRefunded
CHECK_DEADLOCK FALSE
