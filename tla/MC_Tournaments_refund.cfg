SPECIFICATION TournamentsSpec
CONSTANTS
  s1 = s1  s2 = s2
  Kinds = {"Duel"}
  Users = 2  MaxPlayers = 2  MinPlayers = 2  Stake = 7  Fee = 15  First = 55
  Schedulers = {}  Troubles = {}  Ahead = 0  Commands = 1  Quits = 0  None = None
INVARIANT PaidOrRefunded
CHECK_DEADLOCK FALSE
