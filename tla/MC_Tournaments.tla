--------------------------- MODULE MC_Tournaments ---------------------------
(* Small tournaments. kind is the tournament that a behaviour is about: two    *)
(* players and every trouble of one scheduler, two players and overlapping    *)
(* schedulers, two groups with games that end together, two groups with byes  *)
(* and repairs, the same with overlapping schedulers (cut short), and four    *)
(* groups of the default size, full and nearly empty.                         *)
EXTENDS Tournaments

CONSTANTS s1, s2, Kinds

VARIABLE kind

One == {s1}
Duel == INSTANCE Tournaments WITH Users <- 3, Schedulers <- One, Quits <- 1,
          Troubles <- {"crash", "leave", "no winner", "cancel", "swift"}
Overlap == INSTANCE Tournaments WITH Schedulers <- {s1, s2}, Troubles <- {"overrun", "leave"}
Pairs == INSTANCE Tournaments WITH Users <- 4, MaxPlayers <- 4, MinPlayers <- 4, Schedulers <- One,
           Commands <- 2, Troubles <- {"crash"}
Byes == INSTANCE Tournaments WITH Users <- 3, MaxPlayers <- 4, Schedulers <- One, Troubles <- {"leave", "crash"}
Eight == INSTANCE Tournaments WITH Users <- 8, MaxPlayers <- 8, MinPlayers <- 8, Schedulers <- One, Troubles <- {}
Late == INSTANCE Tournaments WITH Users <- 3, MaxPlayers <- 4, Schedulers <- {s1, s2}, Troubles <- {"overrun"}
Sparse == INSTANCE Tournaments WITH MaxPlayers <- 8, Schedulers <- One

\* Bounds. Late starts with its three players, and ends soon after a round that was
\* closed twice; Overlap draws twice and opens two rooms, of one match or of two; Byes
\* opens its final a second room.
LateBound == /\ due' => db.t.count = 3
             /\ Len(db'.matches) <= 4 /\ Len(db'.rooms) <= 2
OverlapBound == Len(db'.matches) <= 2 /\ Len(db'.rooms) <= 2
ByesBound == Len(db'.rooms) <= 3

ASSUME TournamentsAssumption ==
  /\ Duel!TournamentAssumption /\ Overlap!TournamentAssumption /\ Pairs!TournamentAssumption
  /\ Byes!TournamentAssumption /\ Late!TournamentAssumption
  /\ Eight!TournamentAssumption /\ Sparse!TournamentAssumption

TournamentsInit ==
  /\ kind \in Kinds
  /\ CASE kind = "Duel"    -> Duel!Init
       [] kind = "Overlap" -> Overlap!Init
       [] kind = "Pairs"   -> Pairs!Init
       [] kind = "Byes"    -> Byes!Init
       [] kind = "Late"    -> Late!Init
       [] kind = "Eight"   -> Eight!Init
       [] kind = "Sparse"  -> Sparse!Init
TournamentsNext ==
  /\ UNCHANGED kind
  /\ \/ kind = "Duel" /\ Duel!Next
     \/ kind = "Overlap" /\ Overlap!Next /\ OverlapBound
     \/ kind = "Pairs" /\ Pairs!Next
     \/ kind = "Byes" /\ Byes!Next /\ ByesBound
     \/ kind = "Late" /\ Late!Next /\ LateBound
     \/ kind = "Eight" /\ Eight!Next
     \/ kind = "Sparse" /\ Sparse!Next

\* Who is no player of the tournament has no refund to come.
Refund(u) ==
  \/ kind = "Duel" /\ u \in Duel!Players /\ Duel!refundCancelled(u)
  \/ kind = "Overlap" /\ u \in Overlap!Players /\ Overlap!refundCancelled(u)
  \/ kind = "Pairs" /\ u \in Pairs!Players /\ Pairs!refundCancelled(u)
  \/ kind = "Byes" /\ u \in Byes!Players /\ Byes!refundCancelled(u)
  \/ kind = "Late" /\ u \in Late!Players /\ Late!refundCancelled(u)
  \/ kind = "Eight" /\ u \in Eight!Players /\ Eight!refundCancelled(u)
  \/ kind = "Sparse" /\ u \in Sparse!Players /\ Sparse!refundCancelled(u)
TournamentsSpec ==
  /\ TournamentsInit /\ [][TournamentsNext]_<<kind, vars>>
  /\ \A u \in 1..8 : WF_<<kind, vars>>(UNCHANGED kind /\ Refund(u))

----------------------------------------------------------------------------
\* processStartTimes and checkRoundComplete: where the scheduler decides no match while
\* the games play, groups and finals are drawn once, though games end together and
\* jobs die (what ChampionUnbeaten presumes).
FinalsDrawnOnce == kind \in {"Duel", "Pairs", "Eight"} => DrawnOnce
=============================================================================
