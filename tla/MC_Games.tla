------------------------------ MODULE MC_Games ------------------------------
(* Small rooms of every game. kind is the room that a behaviour is about: each *)
(* game has a room with little to play, in which sockets are lost and time    *)
(* runs out, and a room with more to play, in which they are not.             *)
EXTENDS GameRules, ChessRules, TLC

CONSTANTS a, b, c, Kinds

VARIABLE kind

Two == {a, b}
Symmetry == Permutations(Two)
Both == {"clock", "grace"}

\* Openings of chess, from the mate in two moves to the stalemate in ten.
FoolsMate == <<<<<<6, 5>>, <<5, 5>>>>, <<<<1, 4>>, <<3, 4>>>>, <<<<6, 6>>, <<4, 6>>>>>>
Castles == <<<<<<6, 4>>, <<4, 4>>>>, <<<<1, 4>>, <<3, 4>>>>, <<<<7, 6>>, <<5, 5>>>>, <<<<0, 1>>, <<2, 2>>>>,
             <<<<7, 5>>, <<4, 2>>>>, <<<<0, 5>>, <<3, 2>>>>>>
Checks == <<<<<<6, 4>>, <<4, 4>>>>, <<<<1, 5>>, <<3, 5>>>>, <<<<7, 3>>, <<3, 7>>>>>>
Passing == <<<<<<6, 4>>, <<4, 4>>>>, <<<<1, 0>>, <<2, 0>>>>, <<<<4, 4>>, <<3, 4>>>>, <<<<1, 3>>, <<3, 3>>>>>>
Promotes == <<<<<<6, 7>>, <<4, 7>>>>, <<<<1, 6>>, <<3, 6>>>>, <<<<4, 7>>, <<3, 6>>>>, <<<<1, 7>>, <<2, 7>>>>,
              <<<<3, 6>>, <<2, 7>>>>, <<<<1, 0>>, <<2, 0>>>>, <<<<2, 7>>, <<1, 7>>>>, <<<<2, 0>>, <<3, 0>>>>,
              <<<<1, 7>>, <<0, 6>>>>>>
Stalemate == <<<<<<6, 4>>, <<5, 4>>>>, <<<<1, 0>>, <<3, 0>>>>, <<<<7, 3>>, <<3, 7>>>>, <<<<0, 0>>, <<2, 0>>>>,
               <<<<3, 7>>, <<3, 0>>>>, <<<<1, 7>>, <<3, 7>>>>, <<<<6, 7>>, <<4, 7>>>>, <<<<2, 0>>, <<2, 7>>>>,
               <<<<3, 0>>, <<1, 2>>>>, <<<<1, 5>>, <<2, 5>>>>, <<<<1, 2>>, <<1, 3>>>>, <<<<0, 4>>, <<1, 5>>>>,
               <<<<1, 3>>, <<1, 1>>>>, <<<<0, 3>>, <<5, 3>>>>, <<<<1, 1>>, <<0, 1>>>>, <<<<5, 3>>, <<1, 7>>>>,
               <<<<0, 1>>, <<0, 2>>>>, <<<<1, 5>>, <<2, 6>>>>>>

C4a == INSTANCE ConnectFour WITH Players <- Two, MaxDrops <- 2, Expiring <- Both, Rows <- 2, Cols <- 1
C4b == INSTANCE ConnectFour WITH Players <- Two, Watchers <- Two, Spenders <- Two, MaxDrops <- 1,
         Rows <- 1, Cols <- 1
C4c == INSTANCE ConnectFour WITH Players <- Two, Rows <- 4, Cols <- 4
NBa == INSTANCE NavalBattle WITH Players <- Two, MaxDrops <- 1, Expiring <- {"grace"}, Side <- 1, Sizes <- <<1>>
NBb == INSTANCE NavalBattle WITH Players <- Two, Expiring <- {"clock"}, Side <- 1, Sizes <- <<1>>
NBc == INSTANCE NavalBattle WITH Players <- Two, Side <- 2, Sizes <- <<2>>
HAa == INSTANCE Halma WITH Players <- Two, MaxDrops <- 1, Expiring <- Both, N <- 2, Depth <- 1, Entered <- {}
HAb == INSTANCE Halma WITH Players <- Two, N <- 4, Depth <- 1,
         Entered <- {<<0, 1>>, <<1, 2>>, <<2, 1>>, <<2, 3>>, <<3, 0>>, <<3, 2>>}
CHa == INSTANCE Chess WITH Players <- Two, MaxDrops <- 1, Expiring <- Both, Lines <- {<<>>}, Free <- 0, Promotions <- {"q"}
CHb == INSTANCE Chess WITH Players <- Two, Lines <- {FoolsMate, Checks, Castles, Passing, Promotes, Stalemate},
         Free <- 1, Promotions <- {"q", "k", "p"}
DOa == INSTANCE Domino WITH Players <- Two, MaxDrops <- 1, Expiring <- {"grace"}, Pips <- 1, MaxHandSize <- 1
DOb == INSTANCE Domino WITH Players <- Two, Pips <- 2, MaxHandSize <- 2
DOc == INSTANCE Domino WITH Players <- Two, Expiring <- {"clock"}, Pips <- 1, MaxHandSize <- 1
DOd == INSTANCE Domino WITH Seats <- 3, Pips <- 1, MaxHandSize <- 1

R(n) == <<"R", n, 1>>
G(n) == <<"G", n, 1>>
UNa == INSTANCE Uno WITH Players <- Two, MaxDrops <- 1, Expiring <- {"grace"}, Deck <- {R(1), G(1), R(2)},
         Colors <- {"R", "G"}, HandSize <- 1, Target <- 1, MaxRounds <- 0
UNb == INSTANCE Uno WITH Players <- Two, Expiring <- {"clock"}, Deck <- {R(1), G(1), R(2)},
         Colors <- {"R", "G"}, HandSize <- 1, Target <- 1, MaxRounds <- 0
UNc == INSTANCE Uno WITH Players <- Two, Deck <- {R(1), G(1), R(12), R(10)},
         Colors <- {"R", "G"}, HandSize <- 1, Target <- 60, MaxRounds <- 1
UNd == INSTANCE Uno WITH Players <- Two, Deck <- {R(1), G(1), <<"W", 14, 1>>},
         Colors <- {"R", "G"}, HandSize <- 1, Target <- 60, MaxRounds <- 1
UNe == INSTANCE Uno WITH Seats <- 3, Deck <- {R(1), G(1), R(11), R(2)},
         Colors <- {"R", "G"}, HandSize <- 1, Target <- 1, MaxRounds <- 1

ASSUME GamesAssumption ==
  /\ C4a!BoardAssumption /\ C4b!BoardAssumption /\ C4c!BoardAssumption
  /\ NBa!FleetAssumption /\ NBb!FleetAssumption /\ NBc!FleetAssumption
  /\ HAa!HalmaAssumption /\ HAb!HalmaAssumption
  /\ CHa!ChessAssumption /\ CHb!ChessAssumption
  /\ DOa!DominoAssumption /\ DOb!DominoAssumption /\ DOc!DominoAssumption /\ DOd!DominoAssumption
  /\ UNa!UnoAssumption /\ UNb!UnoAssumption /\ UNc!UnoAssumption /\ UNd!UnoAssumption /\ UNe!UnoAssumption

GamesInit == kind \in Kinds /\ IF kind \in {"DOd", "UNe"} THEN Init ELSE C4a!Init
GamesNext ==
  /\ UNCHANGED kind
  /\ \/ kind = "C4a" /\ C4a!ConnectFourNext
     \/ kind = "C4b" /\ C4b!ConnectFourNext
     \/ kind = "C4c" /\ C4c!ConnectFourNext
     \/ kind = "NBa" /\ NBa!NavalNext
     \/ kind = "NBb" /\ NBb!NavalNext
     \/ kind = "NBc" /\ NBc!NavalNext
     \/ kind = "HAa" /\ HAa!HalmaNext
     \/ kind = "HAb" /\ HAb!HalmaNext
     \/ kind = "CHa" /\ CHa!Next
     \/ kind = "CHb" /\ CHb!Next
     \/ kind = "DOa" /\ DOa!Next
     \/ kind = "DOb" /\ DOb!Next
     \/ kind = "DOc" /\ DOc!Next
     \/ kind = "DOd" /\ DOd!Next
     \/ kind = "UNa" /\ UNa!Next
     \/ kind = "UNb" /\ UNb!Next
     \/ kind = "UNc" /\ UNc!Next
     \/ kind = "UNd" /\ UNd!Next
     \/ kind = "UNe" /\ UNe!Next
GamesSpec == GamesInit /\ [][GamesNext]_<<kind, vars>>

----------------------------------------------------------------------------
\* The promise about the stakes, kept by every game: the steps of a room are
\* steps of RoomContract. Only a naval battle that starts over HTTP takes late stakes.
Contract == INSTANCE RoomContract WITH
  stage <- Stage(db), staked <- db.paid, escrow <- db.money[Escrow], house <- db.money[House],
  late <- kind \in {"NBa", "NBb", "NBc"},
  winner <- Taker(db)
StakesPromise == Contract!Spec
=============================================================================
