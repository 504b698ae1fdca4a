------------------------ MODULE RoomLifecycleProofs ------------------------
(***************************************************************************)
(* Proofs about RoomLifecycle, for any number of seats, deck lists, loads, *)
(* sideboardings and drawn games: the types, the loading gate, the turn of *)
(* manual games, the accounts of a match, and that an engine, a watcher or *)
(* a timer only touches the game it belongs to.                            *)
(*                                                                         *)
(* What is true of a room alone is stated for any room record (RoomOK) and *)
(* proved for the operations on room records; what relates the room to its *)
(* clients, its engine and its timers is proved of the steps.              *)
(***************************************************************************)
EXTENDS RoomLifecycle, FiniteSetTheorems, WellFoundedInduction, TLAPS

(***************************************************************************)
(* The inductive invariant                                                 *)
(***************************************************************************)
\* The options of a room never change: Commander tables and practice rooms
\* play single games, and practice rooms play against the engine's AI.
ModeOK ==
  /\ mode \in [rules : {"manual", "forge"}, format : {"1v1", "edh", "group"},
               match : {"bo1", "bo3"}, load : {"required", "background"}, ai : BOOLEAN]
  /\ mode.format # "1v1" => mode.match = "bo1"

\* Only a started room has a game, and a manual one always has; it sideboards only when its game is over
\* and the match is not; a Forge room keeps the shell of a game that is over.
GameShape(rm) ==
  /\ ~Started(rm) => rm.game = NoGame
  /\ Started(rm) /\ ~Forge => rm.game # NoGame
  /\ rm.game # NoGame => rm.game.number # 0
  /\ rm.game.side # NoSide =>
       rm.game.side.id # 0 /\ rm.game.result.over /\ ~rm.game.result.done /\ ~EDH
  /\ rm.game.result.done => rm.game.result.over
  /\ EDH /\ rm.game.result.over => rm.game.result.done
  /\ Forge /\ rm.game # NoGame => rm.game.result.over

\* The seats of set S have a place in turn order o.
Placed(o, S) == \A s \in S : \E i \in DOMAIN o : o[i] = s

\* Everybody still in a manual game sits at the table, the active player is
\* one of them, and whoever sits at the table has a place in the turn order:
\* a restarted game takes back those who were out.
TurnKept(rm) ==
  Live(rm) =>
    /\ \A i \in DOMAIN rm.game.order : rm.game.order[i] \in Seats
    /\ Placed(rm.game.order, Taken(rm))
    /\ Seats \ rm.game.out \subseteq Taken(rm)
    /\ rm.game.active \in Seats \ rm.game.out

\* A two-player match that is not decided has both its players and their decks.
FullTable(rm) ==
  Started(rm) /\ ~EDH /\ ~Decided(rm) =>
    \A s \in Seats : rm.occ[s] # "free" /\ rm.deck[s] # NoDeck

\* MatchAccounts of any room record; a match starts from nothing.
Accounts(rm) ==
  /\ rm.phase = "loading" \/ (~Forge /\ ~Started(rm)) =>
       rm.drawn = 0 /\ \A s \in Seat : rm.score[s] = 0
  /\ Started(rm) /\ ~Decided(rm) => \A s \in Seat : rm.score[s] < Needed
  /\ Live(rm) => rm.game.number = RulesGameNumber(rm)
  /\ Playing(rm) /\ ~Live(rm) /\ ~Decided(rm) =>
       /\ Sideboarding(rm)
       /\ \/ rm.game.number + 1 = RulesGameNumber(rm)
          \/ Forge /\ rm.game.result.winner = NoSeat /\ rm.game.number = RulesGameNumber(rm)
  /\ Decided(rm) => ~Sideboarding(rm) /\ \A s \in Seat :
       IF s = rm.game.result.winner THEN rm.score[s] = Needed ELSE rm.score[s] < Needed

RoomOK(rm) == rm \in RoomState /\ GameShape(rm) /\ TurnKept(rm) /\ FullTable(rm) /\ Accounts(rm)

\* A load generation is acknowledged by clients that fetched it, and neither
\* clients nor watchers know generations that are still to come.
LoadsInOrder ==
  /\ room.phase = "loading" =>
       /\ room.loadID # 0 /\ room.loadID \notin watch
       /\ \A s \in Humans(room) : room.loaded[s] => fetched[s] = room.loadID
  /\ room.phase # "closed" =>
       /\ \A s \in Seat : fetched[s] <= room.loadID
       /\ \A g \in watch : g <= room.loadID

\* A watcher waits for a game only when the runtime of that game has exited.
WatchersSawAnExit == 0 \notin watch /\ (engine \in watch => ~alive)

\* The room's timer, if any, belongs to the sideboarding that is going on.
TimerInOrder ==
  /\ Sideboarding(room) /\ sideTimer # 0 => sideTimer = room.game.side.id
  /\ 0 \notin armed \cup fired

OtherTypes ==
  /\ announced \in [Seat -> Decks] /\ fetched \in [Seat -> Nat]
  /\ engine \in Nat /\ alive \in BOOLEAN /\ watch \in SUBSET Nat
  /\ sides \in Nat /\ lapsed \in Nat /\ sideTimer \in Nat
  /\ armed \in SUBSET Nat /\ fired \in SUBSET Nat

IInv ==
  /\ ModeOK /\ RoomOK(room) /\ OtherTypes
  /\ LoadingIsGated /\ LoadsInOrder
  /\ EngineMatchesMatch /\ WatchersSawAnExit /\ TimerInOrder

(***************************************************************************)
(* Seats and counting                                                      *)
(***************************************************************************)
\* Seats are numbers; a two-player table has the seats 0 and 1.
LEMMA SeatFacts ==
  /\ Seats \subseteq Seat /\ Seat \subseteq Nat
  /\ {0, 1} \subseteq Seats
  /\ ~EDH => Seats = {0, 1}
  /\ NoSeat \notin Seat
  /\ IsFiniteSet(Seat) /\ Cardinality(Seat) = MaxSeats
  /\ IsFiniteSet(Seats)
<1>1. Seats \subseteq Seat /\ Seat \subseteq Nat /\ {0, 1} \subseteq Seats /\ NoSeat \notin Seat
  BY BoundsAssumption DEF Seats, Seat, NoSeat
<1>2. IsFiniteSet(Seat) /\ Cardinality(Seat) = MaxSeats
  <2>1. 0 \in Int /\ MaxSeats - 1 \in Int /\ ~(0 > MaxSeats - 1) /\ MaxSeats - 1 - 0 + 1 = MaxSeats
    BY BoundsAssumption
  <2>2. QED
    BY <2>1, FS_Interval DEF Seat
<1>3. IsFiniteSet(Seats)
  BY <1>1, <1>2, FS_Subset
<1>4. QED
  BY <1>1, <1>2, <1>3 DEF Seats

\* Lowest picks a member of any set of seats that has one.
LEMMA LowestIsMember ==
  ASSUME NEW S \in SUBSET Nat, S # {}
  PROVE  Lowest(S) \in S
<1>1. PICK s \in S : \A t \in S : ~ (<<t, s>> \in OpToRel(<, Nat))
  BY NatLessThanWellFounded, WFMin, Zenon
<1>2. OpToRel(<, Nat) = {p \in Nat \X Nat : p[1] < p[2]}
  BY Zenon DEF OpToRel
<1>3. \A t \in S : ~ (t < s)
  <2>1. SUFFICES ASSUME NEW t \in S, t < s PROVE FALSE
    OBVIOUS
  <2>2. <<t, s>> \in {p \in Nat \X Nat : p[1] < p[2]}
    BY <2>1
  <2>3. QED
    BY <1>1, <1>2, <2>2
<1>4. \A t \in S : s <= t
  BY <1>3
<1>5. QED
  BY <1>4 DEF Lowest

\* The gate needs at least two players; two are everybody at a two-player table.
LEMMA GateFillsTable ==
  ASSUME NEW rm, ModeOK, Cardinality(Taken(rm)) >= MinPlayers
  PROVE  Taken(rm) # {} /\ (~EDH => Taken(rm) = Seats)
<1>1. Taken(rm) \in SUBSET Seats /\ IsFiniteSet(Taken(rm))
  BY SeatFacts, FS_Subset DEF Taken
<1>2. Cardinality(Seats) \in Nat /\ Cardinality(Taken(rm)) \in Nat
  BY <1>1, SeatFacts, FS_CardinalityType
<1>3. Cardinality(Taken(rm)) = 0 <=> Taken(rm) = {}
  BY <1>1, FS_EmptySet
<1>4. Cardinality(Seats) # 0
  BY SeatFacts, FS_EmptySet
<1>5. Taken(rm) # {}
  BY <1>2, <1>3, <1>4 DEF MinPlayers
<1>6. ASSUME ~EDH PROVE Taken(rm) = Seats
  <2>1. Cardinality(Taken(rm)) >= Cardinality(Seats)
    BY <1>6 DEF MinPlayers, EDH
  <2>2. Cardinality(Taken(rm)) <= Cardinality(Seats)
    BY <1>1, SeatFacts, FS_Subset
  <2>3. QED
    BY <1>1, <1>2, <2>1, <2>2, SeatFacts, FS_Subset
<1>7. QED
  BY <1>5, <1>6

\* The wins are counted: one more is one more, and none are none.
LEMMA WinsAreFinite ==
  ASSUME NEW rm, rm.score \in [Seat -> Nat]
  PROVE  IsFiniteSet(Wins(rm)) /\ Cardinality(Wins(rm)) \in Nat
<1> DEFINE f == [s \in Seat |-> {s} \X (1 .. rm.score[s])]
           F == {{s} \X (1 .. rm.score[s]) : s \in Seat}
<1>1. f \in Surjection(Seat, F)
  BY DEF Surjection
<1>2. ASSUME NEW s \in Seat PROVE IsFiniteSet({s} \X (1 .. rm.score[s]))
  <2>1. IsFiniteSet({s}) /\ IsFiniteSet(1 .. rm.score[s])
    <3>1. 1 \in Int /\ rm.score[s] \in Int
      OBVIOUS
    <3>2. QED
      BY <3>1, FS_Singleton, FS_Interval
  <2>2. QED
    BY <2>1, FS_Product
<1>3. \A T \in F : IsFiniteSet(T)
  BY <1>2
<1>4. Wins(rm) = UNION F
  BY DEF Wins
<1> HIDE DEF f, F
<1>5. IsFiniteSet(F)
  BY <1>1, SeatFacts, FS_Surjection
<1>6. QED
  BY <1>3, <1>4, <1>5, FS_UNION, FS_CardinalityType

LEMMA OneMoreWin ==
  ASSUME NEW rm, NEW won, NEW s \in Seat,
         rm.score \in [Seat -> Nat], won.score = [rm.score EXCEPT ![s] = rm.score[s] + 1]
  PROVE  Cardinality(Wins(won)) = Cardinality(Wins(rm)) + 1
<1> DEFINE win == <<s, rm.score[s] + 1>>
<1>0. \A p : p \in Wins(rm) <=> \E q \in Seat : \E i \in 1 .. rm.score[q] : p = <<q, i>>
  BY DEF Wins
<1>1. \A p : p \in Wins(won) <=> \E q \in Seat : \E i \in 1 .. won.score[q] : p = <<q, i>>
  BY DEF Wins
<1>2. win \notin Wins(rm)
  <2>1. SUFFICES ASSUME NEW q \in Seat, NEW i \in 1 .. rm.score[q], win = <<q, i>> PROVE FALSE
    BY <1>0
  <2>2. QED
    BY <2>1
<1>3. Wins(won) = Wins(rm) \cup {win}
  <2>1. ASSUME NEW q \in Seat, NEW i \in 1 .. won.score[q]
        PROVE  <<q, i>> \in Wins(rm) \cup {win}
    <3>1. CASE i \in 1 .. rm.score[q]
      BY <1>0, <3>1
    <3>2. CASE i \notin 1 .. rm.score[q]
      <4>1. q = s /\ i = rm.score[s] + 1
        BY <3>2
      <4>2. QED
        BY <4>1
    <3>3. QED
      BY <3>1, <3>2
  <2>2. ASSUME NEW q \in Seat, NEW i \in 1 .. rm.score[q] PROVE <<q, i>> \in Wins(won)
    <3>1. i \in 1 .. won.score[q]
      BY <2>2
    <3>2. QED
      BY <1>1, <3>1
  <2>3. win \in Wins(won)
    <3>1. rm.score[s] + 1 \in 1 .. won.score[s]
      OBVIOUS
    <3>2. QED
      BY <1>1, <3>1
  <2>4. QED
    BY <1>0, <1>1, <2>1, <2>2, <2>3
<1>4. QED
  BY <1>2, <1>3, WinsAreFinite, FS_AddElement

LEMMA NoWins ==
  ASSUME NEW rm, \A s \in Seat : rm.score[s] = 0
  PROVE  Cardinality(Wins(rm)) = 0
<1>1. Wins(rm) = {}
  BY DEF Wins
<1>2. QED
  BY <1>1, FS_EmptySet

LEMMA SameWins ==
  ASSUME NEW rm, NEW next, next.score = rm.score
  PROVE  Wins(next) = Wins(rm)
BY DEF Wins

(***************************************************************************)
(* Turn orders                                                             *)
(***************************************************************************)
\* Positions of a cyclic order: going n places round leads back.
LEMMA GoingRound ==
  ASSUME NEW n \in Nat, NEW a \in Nat, a < n
  PROVE  a % n = a /\ (a + n) % n = a
<1>1. n > 0
  OBVIOUS
<1>2. a % n = a
  <2> DEFINE q == a \div n
             r == a % n
  <2>1. q \in Int /\ r \in Int /\ a = n * q + r /\ 0 <= r /\ r < n
    BY <1>1
  <2> HIDE DEF q, r
  <2>2. q >= 1 => n * q >= n
    BY <2>1, <1>1
  <2>3. q <= -1 => n * q <= -n
    BY <2>1, <1>1
  <2>4. q = 0
    BY <2>1, <2>2, <2>3
  <2>5. r = a
    BY <2>1, <2>4
  <2>6. QED
    BY <2>5 DEF r
<1>3. (a + n) % n = a
  <2> DEFINE q == (a + n) \div n
             r == (a + n) % n
  <2>1. q \in Int /\ r \in Int /\ a + n = n * q + r /\ 0 <= r /\ r < n
    BY <1>1
  <2> HIDE DEF q, r
  <2> DEFINE p == q - 1
  <2>2. p \in Int /\ a = n * p + r
    BY <2>1
  <2> HIDE DEF p
  <2>3. p >= 1 => n * p >= n
    BY <2>2, <1>1
  <2>4. p <= -1 => n * p <= -n
    BY <2>2, <1>1
  <2>5. p = 0
    BY <2>1, <2>2, <2>3, <2>4
  <2>6. r = a
    BY <2>1, <2>2, <2>5
  <2>7. QED
    BY <2>6 DEF r
<1>4. QED
  BY <1>2, <1>3

\* The turn passes to a seat of the order that is still in the game, as long
\* as there is one.
LEMMA NextActivePlays ==
  ASSUME NEW g, NEW m \in Nat, g.order \in [1 .. m -> Seat],
         NEW i \in DOMAIN g.order, g.order[i] = g.active,
         NEW j \in DOMAIN g.order, g.order[j] \notin g.out
  PROVE  NextActive(g) \notin g.out /\ \E k \in DOMAIN g.order : NextActive(g) = g.order[k]
<1> DEFINE n == Cardinality(DOMAIN g.order)
           at == CHOOSE k \in DOMAIN g.order : g.order[k] = g.active
           Ahead(k) == g.order[((at + k - 1) % n) + 1]
           ks == {k \in 1 .. n : Ahead(k) \notin g.out}
<1>1. NextActive(g) = IF ks = {} THEN NoSeat ELSE Ahead(Lowest(ks))
  BY DEF NextActive
<1>2. n = m
  <2>1. 1 \in Int /\ m \in Int /\ ~(1 > m) /\ m - 1 + 1 = m
    OBVIOUS
  <2>2. DOMAIN g.order = 1 .. m
    OBVIOUS
  <2>3. QED
    BY <2>1, <2>2, FS_Interval
<1> HIDE DEF n
<1>3. DOMAIN g.order = 1 .. n /\ n \in Nat /\ n > 0
  BY <1>2
<1>4. at \in 1 .. n
  BY <1>3
<1> HIDE DEF at
<1>5. \A k \in 1 .. n : ((at + k - 1) % n) + 1 \in 1 .. n
  BY <1>3, <1>4
<1>6. ks # {}
  <2>1. CASE j > at
    <3>1. j - at \in 1 .. n /\ at + (j - at) - 1 = j - 1
      BY <1>3, <1>4, <2>1
    <3>2. (j - 1) % n = j - 1
      <4>1. j - 1 \in Nat /\ j - 1 < n
        BY <1>3
      <4>2. QED
        BY <4>1, <1>3, GoingRound
    <3>3. Ahead(j - at) = g.order[j]
      BY <1>3, <3>1, <3>2
    <3>4. QED
      BY <3>1, <3>3
  <2>2. CASE j <= at
    <3>1. j - at + n \in 1 .. n /\ at + (j - at + n) - 1 = (j - 1) + n
      BY <1>3, <1>4, <2>2
    <3>2. ((j - 1) + n) % n = j - 1
      <4>1. j - 1 \in Nat /\ j - 1 < n
        BY <1>3
      <4>2. QED
        BY <4>1, <1>3, GoingRound
    <3>3. Ahead(j - at + n) = g.order[j]
      BY <1>3, <3>1, <3>2
    <3>4. QED
      BY <3>1, <3>3
  <2>3. QED
    BY <1>3, <1>4, <2>1, <2>2
<1>7. ks \in SUBSET Nat
  OBVIOUS
<1> HIDE DEF ks
<1>8. Lowest(ks) \in ks
  BY <1>6, <1>7, LowestIsMember
<1>9. \A k \in ks : k \in 1 .. n /\ Ahead(k) \notin g.out
  BY DEF ks
<1>10. Ahead(Lowest(ks)) \notin g.out /\ \E k \in DOMAIN g.order : Ahead(Lowest(ks)) = g.order[k]
  BY <1>3, <1>5, <1>8, <1>9
<1>11. QED
  BY <1>1, <1>6, <1>10

\* A turn order a game may be dealt with: it seats everybody of S, and its
\* first seat is one of them.
Seating(o, S) ==
  /\ o \in UNION {[1 .. n -> Seat] : n \in 0 .. MaxSeats}
  /\ 1 \in DOMAIN o /\ o[1] \in S
  /\ \A i \in DOMAIN o : o[i] \in Seats
  /\ Placed(o, S)

\* An order of a set of seats seats all of them: it has as many places.
LEMMA OrdersSeatEveryone ==
  ASSUME NEW S \in SUBSET Seats, S # {}, NEW o \in Orders(S)
  PROVE  Seating(o, S)
<1> DEFINE n == Cardinality(S)
<1>1. IsFiniteSet(S) /\ n \in Nat /\ n # 0 /\ n <= MaxSeats
  BY SeatFacts, FS_Subset, FS_CardinalityType, FS_EmptySet
<1>2. IsFiniteSet(1 .. n) /\ Cardinality(1 .. n) = n
  <2>1. 1 \in Int /\ n \in Int /\ ~(1 > n) /\ n - 1 + 1 = n
    BY <1>1
  <2>2. QED
    BY <2>1, FS_Interval
<1>3. o \in [1 .. n -> S] /\ \A i, j \in DOMAIN o : o[i] = o[j] => i = j
  BY DEF Orders
<1>4. o \in Injection(1 .. n, S)
  BY <1>3 DEF Injection, IsInjective
<1> HIDE DEF n
<1>5. Cardinality(S) = n
  BY DEF n
<1>6. o \in Surjection(1 .. n, S)
  BY <1>1, <1>2, <1>4, <1>5, FS_Injection
<1>7. \A s \in S : \E i \in 1 .. n : o[i] = s
  BY <1>6 DEF Surjection
<1>8. o \in [1 .. n -> Seat] /\ n \in 0 .. MaxSeats
  <2>1. S \subseteq Seat
    BY SeatFacts
  <2>2. o \in [1 .. n -> Seat]
    BY <1>3, <2>1
  <2>3. QED
    BY <1>1, <2>2, BoundsAssumption
<1>9. 1 \in 1 .. n /\ DOMAIN o = 1 .. n
  BY <1>1, <1>3
<1>10. o \in UNION {[1 .. k -> Seat] : k \in 0 .. MaxSeats}
  BY <1>8
<1>11. Placed(o, S)
  BY <1>7, <1>9 DEF Placed
<1>12. \A i \in DOMAIN o : o[i] \in S
  BY <1>3, <1>9
<1>13. QED
  BY <1>9, <1>10, <1>11, <1>12, SeatFacts DEF Seating

\* How many of the places kept come before place i.
RankIn(kept, i) == Cardinality({j \in kept : j < i})

\* The places kept of an order, counted from the lowest, are all of them.
LEMMA RanksReachEveryPlace ==
  ASSUME NEW n \in Nat, NEW kept \in SUBSET (1 .. n)
  PROVE  /\ \A i \in kept : RankIn(kept, i) \in 0 .. Cardinality(kept) - 1
         /\ \A i, j \in kept : RankIn(kept, i) = RankIn(kept, j) => i = j
         /\ \A k \in 0 .. Cardinality(kept) - 1 : \E i \in kept : RankIn(kept, i) = k
<1>0. \A i \in kept : i \in Int
  OBVIOUS
<1> DEFINE Below(i) == {j \in kept : j < i}
<1>1. IsFiniteSet(kept) /\ Cardinality(kept) \in Nat
  <2>1. IsFiniteSet(1 .. n)
    <3>1. 1 \in Int /\ n \in Int
      OBVIOUS
    <3>2. QED
      BY <3>1, FS_Interval
  <2>2. QED
    BY <2>1, FS_Subset, FS_CardinalityType
<1>2. ASSUME NEW i \in kept
      PROVE  /\ IsFiniteSet(Below(i)) /\ RankIn(kept, i) = Cardinality(Below(i)) /\ RankIn(kept, i) \in Nat
             /\ RankIn(kept, i) < Cardinality(kept)
  <2>1. Below(i) \subseteq kept /\ i \notin Below(i)
    OBVIOUS
  <2>2. RankIn(kept, i) = Cardinality(Below(i))
    BY DEF RankIn
  <2> HIDE DEF Below
  <2>3. /\ IsFiniteSet(Below(i)) /\ Cardinality(Below(i)) \in Nat
        /\ Cardinality(Below(i)) <= Cardinality(kept)
        /\ Cardinality(Below(i)) # Cardinality(kept)
    BY <1>1, <2>1, FS_Subset, FS_CardinalityType
  <2>4. QED
    BY <1>1, <2>2, <2>3
<1>3. ASSUME NEW i \in kept, NEW j \in kept, i < j PROVE RankIn(kept, i) < RankIn(kept, j)
  <2>1. Below(i) \subseteq Below(j) /\ i \in Below(j) /\ i \notin Below(i)
    <3>1. i \in Int /\ j \in Int /\ \A l \in kept : l \in Int /\ (l < i => l < j)
      BY <1>0, <1>3
    <3>2. i \in Below(j)
      BY <1>3
    <3>3. i \notin Below(i)
      BY <3>1
    <3>4. QED
      BY <3>1, <3>2, <3>3
  <2>2. Below(i) # Below(j)
    BY <2>1
  <2> HIDE DEF Below
  <2>3. Cardinality(Below(i)) <= Cardinality(Below(j)) /\ Cardinality(Below(i)) # Cardinality(Below(j))
    BY <1>2, <2>1, <2>2, FS_Subset
  <2>4. QED
    BY <1>2, <2>3
<1>a. \A i \in kept : RankIn(kept, i) \in Nat /\ RankIn(kept, i) < Cardinality(kept)
  BY <1>2
<1> HIDE DEF Below
<1>4. ASSUME NEW i \in kept, NEW j \in kept, RankIn(kept, i) = RankIn(kept, j) PROVE i = j
  <2>1. RankIn(kept, i) \in Nat /\ ~(RankIn(kept, i) < RankIn(kept, j)) /\ ~(RankIn(kept, j) < RankIn(kept, i))
    BY <1>a, <1>4
  <2>2. ~(i < j) /\ ~(j < i)
    BY <1>3, <2>1
  <2>3. QED
    BY <1>0, <2>2
<1> DEFINE c == Cardinality(kept)
           rank == [i \in kept |-> RankIn(kept, i)]
<1>5. rank \in Injection(kept, 0 .. c - 1)
  <2>1. rank \in [kept -> 0 .. c - 1]
    <3>1. \A i \in kept : RankIn(kept, i) \in 0 .. c - 1
      BY <1>1, <1>a
    <3>2. QED
      BY <3>1
  <2>2. \A i, j \in kept : RankIn(kept, i) = RankIn(kept, j) => i = j
    BY <1>4
  <2>3. QED
    BY <2>1, <2>2 DEF Injection, IsInjective
<1>6. IsFiniteSet(0 .. c - 1) /\ Cardinality(0 .. c - 1) = c
  <2>1. 0 \in Int /\ c - 1 \in Int /\ (0 > c - 1 => c = 0) /\ c - 1 - 0 + 1 = c
    BY <1>1
  <2> HIDE DEF c
  <2>2. QED
    BY <2>1, FS_Interval
<1>7. rank \in Surjection(kept, 0 .. c - 1)
  BY <1>1, <1>5, <1>6, FS_Injection
<1>8. \A k \in 0 .. c - 1 : \E i \in kept : RankIn(kept, i) = k
  BY <1>7 DEF Surjection
<1>9. QED
  BY <1>1, <1>4, <1>a, <1>8

\* A restarted Commander game keeps the cycle without the seats that were
\* given up; a two-player game keeps its order.
LEMMA RestartSeatsEveryone ==
  ASSUME NEW rm, rm \in RoomState, GameShape(rm), TurnKept(rm), Live(rm), FullTable(rm), NEW o \in RestartOrders(rm)
  PROVE  Seating(o, Taken(rm))
<1> DEFINE old == rm.game.order
<1>1. /\ Placed(old, Taken(rm)) /\ Seats \ rm.game.out \subseteq Taken(rm)
      /\ rm.game.active \in Seats \ rm.game.out /\ \A i \in DOMAIN old : old[i] \in Seats
  BY DEF TurnKept
<1>2. PICK m \in 0 .. MaxSeats : old \in [1 .. m -> Seat]
  <2>1. rm.game \in Games
    BY DEF RoomState
  <2>2. old \in UNION {[1 .. n -> Seat] : n \in 0 .. MaxSeats}
    BY <2>1 DEF Games
  <2>3. QED
    BY <2>2
<1>3. PICK p \in DOMAIN old : old[p] = rm.game.active
  BY <1>1 DEF Placed
<1>4. DOMAIN old = 1 .. m /\ 1 \in 1 .. m /\ m \in Nat /\ m <= MaxSeats
  BY <1>2, <1>3, BoundsAssumption
<1>5. CASE ~EDH
  <2>1. o = old
    BY <1>5 DEF RestartOrders
  <2>2. Taken(rm) = Seats
    <3>1. ~Decided(rm) /\ Started(rm)
      BY <1>5 DEF Live, Playing, Decided, GameShape
    <3>2. QED
      BY <1>5, <3>1 DEF FullTable, Taken
  <2>3. QED
    BY <1>1, <1>2, <1>4, <2>1, <2>2 DEF Seating
<1>6. CASE EDH
  <2> DEFINE n == Cardinality(DOMAIN rm.game.order)
             kept == {i \in 1 .. n : rm.game.order[i] \in Taken(rm)}
             Nth(k) == CHOOSE i \in kept : RankIn(kept, i) = k - 1
             c == Cardinality(kept)
  <2>1. o = [k \in 1 .. c |-> old[Nth(k)]]
    BY <1>6 DEF RestartOrders, RankIn
  <2>2. n = m
    <3>1. 1 \in Int /\ m \in Int /\ ~(1 > m) /\ m - 1 + 1 = m
      BY <1>4
    <3>2. QED
      BY <1>4, <3>1, FS_Interval
  <2> HIDE DEF n
  <2>3. kept \in SUBSET (1 .. n) /\ n \in Nat
    BY <1>4, <2>2
  <2>4. p \in kept
    BY <1>1, <1>3, <1>4, <2>2
  <2>5. \A i \in kept : old[i] \in Taken(rm) /\ i \in 1 .. m
    BY <2>2
  <2>6. \A i \in 1 .. m : old[i] \in Taken(rm) => i \in kept
    BY <2>2
  <2> HIDE DEF kept
  <2>8. /\ \A i \in kept : RankIn(kept, i) \in 0 .. c - 1
        /\ \A i, j \in kept : RankIn(kept, i) = RankIn(kept, j) => i = j
        /\ \A k \in 0 .. c - 1 : \E i \in kept : RankIn(kept, i) = k
    BY <2>3, RanksReachEveryPlace
  <2>9. IsFiniteSet(kept) /\ c \in Nat /\ c # 0 /\ c <= m
    <3>1. IsFiniteSet(1 .. m) /\ Cardinality(1 .. m) = m
      <4>1. 1 \in Int /\ m \in Int /\ ~(1 > m) /\ m - 1 + 1 = m
        BY <1>4
      <4>2. QED
        BY <4>1, FS_Interval
    <3>2. kept \subseteq 1 .. m
      BY <2>2, <2>3
    <3>3. QED
      BY <2>4, <3>1, <3>2, FS_Subset, FS_EmptySet, FS_CardinalityType
  <2> HIDE DEF c
  <2>10. ASSUME NEW k \in 1 .. c PROVE Nth(k) \in kept /\ RankIn(kept, Nth(k)) = k - 1
    <3>1. k - 1 \in 0 .. c - 1
      BY <2>9
    <3>2. QED
      BY <2>8, <3>1
  <2>11. ASSUME NEW i \in kept PROVE RankIn(kept, i) + 1 \in 1 .. c /\ Nth(RankIn(kept, i) + 1) = i
    <3>1. RankIn(kept, i) + 1 \in 1 .. c /\ RankIn(kept, i) = (RankIn(kept, i) + 1) - 1
      BY <2>8, <2>9
    <3>2. QED
      BY <2>8, <2>10, <3>1
  <2> HIDE DEF Nth
  <2>12. DOMAIN o = 1 .. c /\ 1 \in 1 .. c /\ c \in 0 .. MaxSeats
    BY <1>4, <2>1, <2>9, BoundsAssumption
  <2>13. \A k \in 1 .. c : o[k] = old[Nth(k)]
    BY <2>1
  <2>14. \A k \in 1 .. c : o[k] \in Taken(rm)
    BY <2>5, <2>10, <2>13
  <2>15. Placed(o, Taken(rm))
    <3>1. SUFFICES ASSUME NEW s \in Taken(rm) PROVE \E k \in DOMAIN o : o[k] = s
      BY DEF Placed
    <3>2. PICK i \in 1 .. m : old[i] = s
      BY <1>1, <1>4 DEF Placed
    <3>3. i \in kept
      BY <2>6, <3>2
    <3>4. o[RankIn(kept, i) + 1] = s
      BY <2>11, <2>13, <3>2, <3>3
    <3>5. QED
      BY <2>11, <2>12, <3>3, <3>4
  <2>16. o \in [1 .. c -> Seat]
    <3>1. Taken(rm) \subseteq Seat
      BY SeatFacts DEF Taken
    <3>2. \A k \in 1 .. c : old[Nth(k)] \in Seat
      BY <2>13, <2>14, <3>1
    <3>3. QED
      BY <2>1, <3>2
  <2>17. o \in UNION {[1 .. k -> Seat] : k \in 0 .. MaxSeats}
    BY <2>12, <2>16
  <2>18. Taken(rm) \subseteq Seats
    BY DEF Taken
  <2>19. QED
    BY <2>12, <2>14, <2>15, <2>17, <2>18 DEF Seating
<1>7. QED
  BY <1>5, <1>6

(***************************************************************************)
(* Room records                                                            *)
(***************************************************************************)
Results == [over : BOOLEAN, winner : SeatOrNone, done : BOOLEAN]
SideBoardings == [id : Nat, loser : SeatOrNone, chosen : SeatOrNone,
                  split : [Seat -> {0, 1}], ready : [Seat -> BOOLEAN]]
TurnOrders == UNION {[1 .. n -> Seat] : n \in 0 .. MaxSeats}

\* Single games are for Commander; a match takes one win or two.
LEMMA ModeFacts ==
  ASSUME ModeOK
  PROVE  /\ Needed \in {1, 2} /\ (mode.match # "bo3" => Needed = 1) /\ (mode.match = "bo3" => Needed = 2)
         /\ (EDH => mode.match # "bo3")
         /\ mode.match \in {"bo1", "bo3"}
BY DEF ModeOK, Needed, EDH

LEMMA EmptyTypes ==
  /\ NoSeat \in SeatOrNone /\ NoDeck \in Decks
  /\ NoResult \in Results /\ NoSide \in SideBoardings /\ NoGame \in Games
  /\ \A S, x : x \in S => Fill(x) \in [Seat -> S]
<1>1. NoSeat \in SeatOrNone /\ NoDeck \in Decks
  BY DEF SeatOrNone, Decks
<1>2. NoResult \in Results
  BY <1>1 DEF NoResult, Results
<1>3. NoSide \in SideBoardings
  BY <1>1 DEF NoSide, SideBoardings
<1>4. <<>> \in TurnOrders
  <2>1. <<>> \in [1 .. 0 -> Seat] /\ 0 \in 0 .. MaxSeats
    BY BoundsAssumption
  <2>2. QED
    BY <2>1 DEF TurnOrders
<1>5. NoGame \in Games
  BY <1>1, <1>2, <1>3, <1>4 DEF NoGame, Games, Results, SideBoardings, TurnOrders
<1>6. \A S, x : x \in S => Fill(x) \in [Seat -> S]
  BY DEF Fill
<1>7. QED
  BY <1>1, <1>2, <1>3, <1>5, <1>6

\* A game is made of typed parts.
LEMMA GameParts ==
  ASSUME NEW g \in Games
  PROVE  /\ g.number \in Nat /\ g.order \in TurnOrders /\ g.active \in SeatOrNone /\ g.out \in SUBSET Seat
         /\ g.result \in Results /\ g.result.over \in BOOLEAN /\ g.result.done \in BOOLEAN
         /\ g.result.winner \in SeatOrNone
         /\ g.side \in SideBoardings /\ g.side.id \in Nat /\ g.side.loser \in SeatOrNone
         /\ g.side.chosen \in SeatOrNone
         /\ g.side.split \in [Seat -> {0, 1}] /\ g.side.ready \in [Seat -> BOOLEAN]
BY DEF Games, TurnOrders, Results, SideBoardings

LEMMA GameMade ==
  ASSUME NEW number \in Nat, NEW order \in TurnOrders, NEW active \in SeatOrNone, NEW out \in SUBSET Seat,
         NEW result \in Results, NEW side \in SideBoardings
  PROVE  [number |-> number, order |-> order, active |-> active, out |-> out,
          result |-> result, side |-> side] \in Games
BY DEF Games, TurnOrders, Results, SideBoardings

\* Before and after its games a room has no game and, unless a Forge match left
\* one behind, no score.
LEMMA IdleOK ==
  ASSUME ModeOK, NEW rm, rm \in RoomState, ~Started(rm), rm.game = NoGame,
         rm.phase = "loading" \/ ~Forge => rm.drawn = 0 /\ \A s \in Seat : rm.score[s] = 0
  PROVE  RoomOK(rm)
<1>1. NoGame.side = NoSide /\ ~NoGame.result.done /\ ~NoGame.result.over
  BY DEF NoGame, NoResult
<1>2. ~Playing(rm) /\ ~Live(rm) /\ ~Decided(rm) /\ ~Sideboarding(rm)
  BY DEF Playing, Live, Decided, Sideboarding
<1>3. GameShape(rm)
  BY <1>1 DEF GameShape
<1>4. TurnKept(rm) /\ FullTable(rm)
  BY <1>2 DEF TurnKept, FullTable
<1>5. Accounts(rm)
  BY <1>2 DEF Accounts
<1>6. QED
  BY <1>3, <1>4, <1>5 DEF RoomOK

\* A started room whose game the engine plays.
LEMMA RunningOK ==
  ASSUME ModeOK, NEW rm, rm \in RoomState, Started(rm), rm.game = NoGame, Forge,
         ~EDH => \A s \in Seats : rm.occ[s] # "free" /\ rm.deck[s] # NoDeck,
         \A s \in Seat : rm.score[s] < Needed
  PROVE  RoomOK(rm)
<1>1. NoGame.side = NoSide /\ ~NoGame.result.done /\ ~NoGame.result.over
  BY DEF NoGame, NoResult
<1>2. ~Playing(rm) /\ ~Live(rm) /\ ~Decided(rm) /\ ~Sideboarding(rm)
  BY DEF Playing, Live, Decided, Sideboarding
<1>3. GameShape(rm)
  BY <1>1 DEF GameShape
<1>4. TurnKept(rm) /\ FullTable(rm)
  BY <1>2 DEF TurnKept, FullTable
<1>5. Accounts(rm)
  BY <1>2 DEF Accounts, Started
<1>6. QED
  BY <1>3, <1>4, <1>5 DEF RoomOK

\* What RoomOK says of a room in terms of its fields.
LEMMA RoomFields ==
  ASSUME NEW rm, RoomOK(rm)
  PROVE  /\ rm.phase \in {"waiting", "loading", "started", "closed"}
         /\ rm.occ \in [Seat -> {"free", "human", "ai"}] /\ rm.host \in SeatOrNone
         /\ rm.reg \in [Seat -> Decks] /\ rm.deck \in [Seat -> Decks]
         /\ rm.ready \in [Seat -> BOOLEAN] /\ rm.loaded \in [Seat -> BOOLEAN] /\ rm.loadID \in Nat
         /\ rm.score \in [Seat -> Nat] /\ rm.drawn \in Nat /\ rm.start \in SeatOrNone /\ rm.game \in Games
BY DEF RoomOK, RoomState

\* The number of the next game: the games that were won or drawn come before.
LEMMA GameNumbers ==
  ASSUME NEW rm, rm \in RoomState
  PROVE  /\ RulesGameNumber(rm) \in Nat /\ RulesGameNumber(rm) # 0
         /\ \A next : next.score = rm.score /\ next.drawn = rm.drawn =>
              RulesGameNumber(next) = RulesGameNumber(rm)
         /\ \A next : next.score = rm.score /\ next.drawn = rm.drawn + 1 =>
              RulesGameNumber(next) = RulesGameNumber(rm) + 1
         /\ \A next : \A s \in Seat :
              next.score = [rm.score EXCEPT ![s] = rm.score[s] + 1] /\ next.drawn = rm.drawn =>
                RulesGameNumber(next) = RulesGameNumber(rm) + 1
<1>1. rm.score \in [Seat -> Nat] /\ rm.drawn \in Nat
  BY DEF RoomState
<1>2. Cardinality(Wins(rm)) \in Nat
  BY <1>1, WinsAreFinite
<1>3. RulesGameNumber(rm) = rm.drawn + 1 + Cardinality(Wins(rm))
  BY DEF RulesGameNumber
<1>4. ASSUME NEW next, next.score = rm.score
      PROVE  RulesGameNumber(next) = next.drawn + 1 + Cardinality(Wins(rm))
  BY <1>4, SameWins DEF RulesGameNumber
<1>5. ASSUME NEW next, NEW s \in Seat, next.score = [rm.score EXCEPT ![s] = rm.score[s] + 1]
      PROVE  RulesGameNumber(next) = next.drawn + 1 + (Cardinality(Wins(rm)) + 1)
  <2>1. Cardinality(Wins(next)) = Cardinality(Wins(rm)) + 1
    BY <1>1, <1>5, OneMoreWin
  <2>2. QED
    BY <2>1 DEF RulesGameNumber
<1>6. QED
  BY <1>1, <1>2, <1>3, <1>4, <1>5

\* A game that has just been dealt, by a manual table.
LEMMA DealtOK ==
  ASSUME ModeOK, NEW rm, NEW next, NEW number, NEW order,
         rm \in RoomState, Started(rm), ~Forge,
         next = [rm EXCEPT !.game = NewGame(rm, number, order)],
         Seating(order, Taken(rm)), number = RulesGameNumber(rm),
         ~EDH => \A s \in Seats : rm.occ[s] # "free" /\ rm.deck[s] # NoDeck,
         \A s \in Seat : rm.score[s] < Needed
  PROVE  RoomOK(next)
<1> DEFINE g == NewGame(rm, number, order)
<1>1. /\ g.number = number /\ g.order = order /\ g.active = order[1] /\ g.out = Seat \ Taken(rm)
      /\ g.result = NoResult /\ g.side = NoSide
  BY DEF NewGame
<1>2. number \in Nat /\ number # 0
  BY GameNumbers
<1>3. Taken(rm) \subseteq Seats /\ Seats \subseteq Seat
  BY SeatFacts DEF Taken
<1>4. order[1] \in Taken(rm) /\ order \in TurnOrders
  BY DEF Seating, TurnOrders
<1>5. g \in Games
  <2>1. order[1] \in SeatOrNone /\ Seat \ Taken(rm) \in SUBSET Seat
    BY <1>3, <1>4 DEF SeatOrNone
  <2>2. QED
    BY <1>2, <1>4, <2>1, EmptyTypes, GameMade DEF NewGame
<1> HIDE DEF g
<1>6. next.game = g /\ next \in RoomState
  BY <1>5 DEF RoomState, g
<1>7. /\ next.phase = rm.phase /\ next.occ = rm.occ /\ next.deck = rm.deck
      /\ next.score = rm.score /\ next.drawn = rm.drawn
  BY DEF RoomState
<1>8. g # NoGame
  BY <1>1, <1>2 DEF NoGame
<1>9. ~g.result.over /\ ~g.result.done
  BY <1>1 DEF NoResult
<1>10. Started(next) /\ Playing(next) /\ Live(next) /\ ~Decided(next) /\ ~Sideboarding(next)
  BY <1>1, <1>6, <1>7, <1>8, <1>9 DEF Started, Playing, Live, Decided, Sideboarding
<1>11. Taken(next) = Taken(rm)
  BY <1>7 DEF Taken
<1>12. GameShape(next)
  BY <1>1, <1>2, <1>6, <1>9, <1>10 DEF GameShape, Playing
<1>13. TurnKept(next)
  <2>1. Seats \ g.out \subseteq Taken(rm) /\ g.active \in Seats \ g.out
    BY <1>1, <1>3, <1>4
  <2>2. QED
    BY <1>1, <1>6, <1>11, <2>1 DEF TurnKept, Seating
<1>14. FullTable(next)
  BY <1>7, <1>10 DEF FullTable
<1>15. Accounts(next)
  <2>1. RulesGameNumber(next) = RulesGameNumber(rm)
    BY <1>7, GameNumbers
  <2>2. QED
    BY <1>1, <1>6, <1>7, <1>10, <2>1 DEF Accounts, Started
<1>16. QED
  BY <1>6, <1>12, <1>13, <1>14, <1>15 DEF RoomOK

\* What EndGame makes of a room.
LEMMA EndGameFields ==
  ASSUME NEW rm, rm \in RoomState, sides \in Nat,
         NEW winner \in SeatOrNone, NEW loser, NEW done \in BOOLEAN, ~done => loser \in SeatOrNone,
         NEW next, next = EndGame(rm, winner, loser, done)
  PROVE  /\ next \in RoomState
         /\ next.phase = rm.phase /\ next.occ = rm.occ /\ next.host = rm.host /\ next.reg = rm.reg
         /\ next.deck = rm.deck /\ next.ready = rm.ready /\ next.loaded = rm.loaded
         /\ next.loadID = rm.loadID /\ next.score = rm.score /\ next.drawn = rm.drawn /\ next.start = rm.start
         /\ next.game.number = rm.game.number /\ next.game.order = rm.game.order
         /\ next.game.out = rm.game.out
         /\ next.game.result = [over |-> TRUE, winner |-> winner, done |-> done]
         /\ done \/ ~CanSideboard(rm) => next.game.side = NoSide
         /\ ~done /\ CanSideboard(rm) =>
              next.game.side = Side(rm, loser, sides + 1) /\ next.game.side # NoSide
                /\ next.game.side.id = sides + 1
<1> DEFINE res  == [over |-> TRUE, winner |-> winner, done |-> done]
           side == IF done \/ ~CanSideboard(rm) THEN NoSide ELSE Side(rm, loser, sides + 1)
           g    == [rm.game EXCEPT !.active = NoSeat, !.result = res, !.side = side]
<1>1. rm.game \in Games
  BY DEF RoomState
<1>2. res \in Results
  BY DEF Results
<1>3. ASSUME ~done
      PROVE  Side(rm, loser, sides + 1) \in SideBoardings /\ Side(rm, loser, sides + 1).id = sides + 1
  <2>1. \A s \in Seat : rm.deck[s].split \in {0, 1}
    <3>1. \A d \in Decks : d.split \in {0, 1}
      BY DEF Decks, NoDeck
    <3>2. QED
      BY <3>1 DEF RoomState
  <2>2. [s \in Seat |-> rm.deck[s].split] \in [Seat -> {0, 1}] /\ Fill(FALSE) \in [Seat -> BOOLEAN]
    BY <2>1, EmptyTypes
  <2>3. (IF Forge THEN NoSeat ELSE loser) \in SeatOrNone /\ sides + 1 \in Nat /\ loser \in SeatOrNone
    BY <1>3, EmptyTypes
  <2>4. QED
    BY <2>2, <2>3 DEF Side, SideBoardings
<1>4. side \in SideBoardings
  BY <1>3, EmptyTypes
<1>5. NoSide.id = 0
  BY DEF NoSide
<1> HIDE DEF res, side
<1>6. g \in Games
  BY <1>1, <1>2, <1>4, EmptyTypes DEF Games, Results, SideBoardings
<1>7. /\ g.number = rm.game.number /\ g.order = rm.game.order /\ g.out = rm.game.out
      /\ g.result = res /\ g.side = side
  BY <1>1 DEF Games
<1>8. next = [rm EXCEPT !.game = g]
  BY <1>1 DEF EndGame, RoomState, Games, res, side
<1> HIDE DEF g
<1>9. /\ next \in RoomState
      /\ next.phase = rm.phase /\ next.occ = rm.occ /\ next.host = rm.host /\ next.reg = rm.reg
      /\ next.deck = rm.deck /\ next.ready = rm.ready /\ next.loaded = rm.loaded
      /\ next.loadID = rm.loadID /\ next.score = rm.score /\ next.drawn = rm.drawn /\ next.start = rm.start
      /\ next.game = g
  BY <1>6, <1>8 DEF RoomState
<1>10. done \/ ~CanSideboard(rm) => side = NoSide
  BY DEF side
<1>11. ~done /\ CanSideboard(rm) =>
         side = Side(rm, loser, sides + 1) /\ side # NoSide /\ side.id = sides + 1
  BY <1>3, <1>5 DEF side
<1>12. QED
  BY <1>7, <1>9, <1>10, <1>11 DEF res

LEMMA EndGameKeeps ==
  ASSUME NEW rm, rm \in RoomState, sides \in Nat,
         NEW winner \in SeatOrNone, NEW loser, NEW done \in BOOLEAN, ~done => loser \in SeatOrNone
  PROVE  /\ EndGame(rm, winner, loser, done).phase = rm.phase
         /\ EndGame(rm, winner, loser, done).loadID = rm.loadID
         /\ EndGame(rm, winner, loser, done).game.number = rm.game.number
         /\ done => EndGame(rm, winner, loser, done).game.side = NoSide
<1> DEFINE next == EndGame(rm, winner, loser, done)
<1>1. /\ next \in RoomState
      /\ next.phase = rm.phase /\ next.occ = rm.occ /\ next.deck = rm.deck
      /\ next.loadID = rm.loadID /\ next.score = rm.score /\ next.drawn = rm.drawn
      /\ next.game.number = rm.game.number
      /\ next.game.result = [over |-> TRUE, winner |-> winner, done |-> done]
      /\ done \/ ~CanSideboard(rm) => next.game.side = NoSide
  BY EndGameFields
<1>2. QED
  BY <1>1

\* A game that is over: the match is decided, or both players sideboard.
LEMMA EndedOK ==
  ASSUME ModeOK, NEW rm, rm \in RoomState, Started(rm), rm.game.number # 0, sides \in Nat,
         NEW winner \in SeatOrNone, NEW loser, NEW done \in BOOLEAN, ~done => loser \in SeatOrNone,
         done => \A s \in Seat : IF s = winner THEN rm.score[s] = Needed ELSE rm.score[s] < Needed,
         ~done => /\ ~EDH /\ CanSideboard(rm) /\ \A s \in Seats : rm.occ[s] # "free"
                  /\ \A s \in Seat : rm.score[s] < Needed
                  /\ \/ rm.game.number + 1 = RulesGameNumber(rm)
                     \/ Forge /\ winner = NoSeat /\ rm.game.number = RulesGameNumber(rm)
  PROVE  RoomOK(EndGame(rm, winner, loser, done))
<1> DEFINE next == EndGame(rm, winner, loser, done)
<1>1. /\ next \in RoomState
      /\ next.phase = rm.phase /\ next.occ = rm.occ /\ next.deck = rm.deck
      /\ next.score = rm.score /\ next.drawn = rm.drawn
      /\ next.game.number = rm.game.number
      /\ next.game.result = [over |-> TRUE, winner |-> winner, done |-> done]
      /\ done \/ ~CanSideboard(rm) => next.game.side = NoSide
      /\ ~done /\ CanSideboard(rm) => next.game.side # NoSide /\ next.game.side.id = sides + 1
  BY EndGameFields
<1> HIDE DEF next
<1>2. next.game.result.over /\ next.game.result.done = done /\ next.game.result.winner = winner
  BY <1>1
<1>3. next.game # NoGame
  <2>1. NoGame.number = 0
    BY DEF NoGame
  <2>2. QED
    BY <1>1, <2>1
<1>4. Started(next) /\ Playing(next) /\ ~Live(next) /\ (Decided(next) <=> done)
      /\ (Sideboarding(next) <=> next.game.side # NoSide)
  BY <1>1, <1>2, <1>3 DEF Started, Playing, Live, Decided, Sideboarding
<1>5. RulesGameNumber(next) = RulesGameNumber(rm)
  BY <1>1, GameNumbers
<1>6. EDH => done
  OBVIOUS
<1>7. GameShape(next)
  <2>1. sides + 1 # 0
    OBVIOUS
  <2>2. next.game.side # NoSide => next.game.side.id # 0 /\ ~done
    BY <1>1, <2>1
  <2>3. QED
    BY <1>1, <1>2, <1>4, <1>6, <2>2 DEF GameShape, Playing
<1>8. TurnKept(next)
  BY <1>4 DEF TurnKept
<1>9. FullTable(next)
  BY <1>1, <1>4 DEF FullTable, CanSideboard
<1>10. Accounts(next)
  <2>1. CASE done
    BY <1>1, <1>2, <1>4, <2>1 DEF Accounts, Started
  <2>2. CASE ~done
    BY <1>1, <1>2, <1>4, <1>5, <2>2 DEF Accounts, Started
  <2>3. QED
    BY <2>1, <2>2
<1>11. QED
  BY <1>1, <1>7, <1>8, <1>9, <1>10 DEF RoomOK, next

\* A game that is not over at a Commander table is a manual game.
LEMMA LiveOrDecided ==
  ASSUME NEW rm, RoomOK(rm)
  PROVE  /\ Live(rm) => Playing(rm) /\ ~Decided(rm) /\ ~Sideboarding(rm) /\ ~Forge
         /\ EDH /\ Playing(rm) /\ ~Decided(rm) => Live(rm)
         /\ Sideboarding(rm) => Playing(rm) /\ ~Live(rm) /\ ~Decided(rm) /\ ~EDH /\ rm.game.side.id # 0
         /\ Decided(rm) => Playing(rm) /\ ~Live(rm)
         /\ Playing(rm) => Started(rm)
BY DEF RoomOK, GameShape, Live, Playing, Decided, Sideboarding

\* A Commander player goes out: the turn moves on, or the last one wins.
LEMMA EliminateOK ==
  ASSUME ModeOK, NEW rm, RoomOK(rm), Live(rm), EDH, NEW s \in Seats, NEW next, next = Eliminate(rm, s)
  PROVE  /\ RoomOK(next)
         /\ next.phase = rm.phase /\ next.occ = rm.occ /\ next.host = rm.host
         /\ next.loadID = rm.loadID /\ next.loaded = rm.loaded
         /\ Playing(next) /\ s \in next.game.out /\ ~Sideboarding(next)
<1> DEFINE out  == rm.game.out \cup {s}
           left == Seats \ out
           gone == [rm EXCEPT !.game.out = out]
<1>1. /\ rm \in RoomState /\ rm.game \in Games /\ rm.game.out \subseteq Seat /\ s \in Seat
      /\ rm.score \in [Seat -> Nat]
  BY SeatFacts, RoomFields, GameParts DEF RoomOK
<1>2. /\ Started(rm) /\ rm.game # NoGame /\ ~rm.game.result.over /\ ~rm.game.result.done
      /\ ~Decided(rm) /\ ~Sideboarding(rm) /\ rm.game.side = NoSide /\ ~Forge /\ rm.game.number # 0
  <2>1. Started(rm) /\ rm.game # NoGame /\ ~rm.game.result.over
    BY DEF Live, Playing
  <2>2. ~rm.game.result.done /\ ~Forge /\ rm.game.number # 0 /\ rm.game.side = NoSide
    BY <2>1 DEF RoomOK, GameShape
  <2>3. QED
    BY <2>1, <2>2 DEF Decided, Sideboarding
<1>3. /\ \A i \in DOMAIN rm.game.order : rm.game.order[i] \in Seats
      /\ Placed(rm.game.order, Taken(rm)) /\ Seats \ rm.game.out \subseteq Taken(rm)
      /\ rm.game.active \in Seats \ rm.game.out
  BY DEF RoomOK, TurnKept
<1>4. \A t \in Seat : rm.score[t] < Needed
  BY <1>2 DEF RoomOK, Accounts, Started
<1>5. out \in SUBSET Seat /\ s \in out /\ NoGame.number = 0
  BY <1>1 DEF NoGame
<1>6. CASE Cardinality(left) > 1
  <2> DEFINE active == IF rm.game.active = s THEN NextActive(gone.game) ELSE rm.game.active
             g == [rm.game EXCEPT !.out = out, !.active = active]
  <2>1. next = [rm EXCEPT !.game = g]
    <3>1. next = [gone EXCEPT !.game.active = IF rm.game.active = s THEN NextActive(gone.game) ELSE @]
      BY <1>6 DEF Eliminate
    <3>2. gone = [rm EXCEPT !.game = [rm.game EXCEPT !.out = out]]
      BY <1>1 DEF RoomState, Games
    <3>3. gone.game.active = rm.game.active
      BY <1>1, <3>2 DEF RoomState, Games
    <3> DEFINE to == IF rm.game.active = s THEN NextActive(gone.game) ELSE rm.game.active
    <3>4. next = [gone EXCEPT !.game.active = to]
      BY <1>6, <3>1, <3>3
    <3> HIDE DEF to, gone, out
    <3>5. next = [rm EXCEPT !.game = [rm.game EXCEPT !.out = out, !.active = to]]
      BY <1>1, <3>2, <3>4 DEF RoomState, Games
    <3>6. QED
      BY <3>5 DEF to
  <2>2. active \in Seats \ out
    <3>1. CASE rm.game.active # s
      BY <1>3, <3>1
    <3>2. CASE rm.game.active = s
      <4>1. gone.game.order = rm.game.order /\ gone.game.active = s /\ gone.game.out = out
        BY <1>1, <3>2 DEF RoomState, Games
      <4>2. PICK m \in 0 .. MaxSeats : rm.game.order \in [1 .. m -> Seat]
        <5>1. rm.game.order \in UNION {[1 .. k -> Seat] : k \in 0 .. MaxSeats}
          BY <1>1 DEF Games
        <5>2. QED
          BY <5>1
      <4>3. m \in Nat
        BY BoundsAssumption
      <4>4. PICK i \in DOMAIN rm.game.order : rm.game.order[i] = s
        BY <1>3, <3>2 DEF Placed
      <4>5. left # {}
        <5>1. Cardinality({}) = 0
          BY FS_EmptySet
        <5> HIDE DEF left
        <5>2. QED
          BY <1>6, <5>1
      <4>6. PICK t \in Seats : t \notin out
        BY <4>5
      <4>7. t \in Taken(rm)
        BY <1>3, <4>6
      <4>8. PICK j \in DOMAIN rm.game.order : rm.game.order[j] = t
        BY <1>3, <4>7 DEF Placed
      <4> HIDE DEF gone, out
      <4> DEFINE h == gone.game
      <4>9. h.order = rm.game.order /\ h.active = s /\ h.out = out
        BY <4>1
      <4> HIDE DEF h
      <4>10. NextActive(h) \notin h.out /\ \E k \in DOMAIN h.order : NextActive(h) = h.order[k]
        BY <4>2, <4>3, <4>4, <4>6, <4>8, <4>9, NextActivePlays
      <4>11. NextActive(h) \in Seats \ out
        BY <1>3, <4>9, <4>10
      <4>12. QED
        BY <3>2, <4>11 DEF h
    <3>3. QED
      BY <3>1, <3>2
  <2>3. Seats \ out \subseteq Taken(rm)
    BY <1>3
  <2> HIDE DEF active, out
  <2>4. active \in SeatOrNone
    BY <2>2, SeatFacts DEF SeatOrNone
  <2>5. g \in Games
    BY <1>1, <1>5, <2>4 DEF Games
  <2>6. /\ g.number = rm.game.number /\ g.order = rm.game.order /\ g.out = out /\ g.active = active
        /\ g.result = rm.game.result /\ g.side = rm.game.side
    BY <1>1 DEF Games
  <2> HIDE DEF g
  <2>7. /\ next \in RoomState /\ next.game = g /\ next.phase = rm.phase /\ next.occ = rm.occ
        /\ next.host = rm.host /\ next.deck = rm.deck /\ next.score = rm.score /\ next.drawn = rm.drawn
        /\ next.loadID = rm.loadID /\ next.loaded = rm.loaded
    BY <1>1, <2>1, <2>5 DEF RoomState
  <2>8. g # NoGame
    BY <1>2, <1>5, <2>6
  <2>9. Started(next) /\ Playing(next) /\ Live(next) /\ ~Decided(next) /\ ~Sideboarding(next)
    BY <1>2, <2>6, <2>7, <2>8 DEF Started, Playing, Live, Decided, Sideboarding
  <2>10. GameShape(next)
    BY <1>2, <2>6, <2>7, <2>9 DEF GameShape, Playing
  <2>11. Taken(next) = Taken(rm)
    BY <2>7 DEF Taken
  <2>12. TurnKept(next)
    BY <1>3, <2>2, <2>3, <2>6, <2>7, <2>11 DEF TurnKept
  <2>13. FullTable(next)
    BY DEF FullTable
  <2>14. Accounts(next)
    <3>1. RulesGameNumber(next) = RulesGameNumber(rm)
      BY <1>1, <2>7, GameNumbers
    <3>2. rm.game.number = RulesGameNumber(rm)
      BY DEF RoomOK, Accounts
    <3>3. QED
      BY <1>4, <2>6, <2>7, <2>9, <3>1, <3>2 DEF Accounts, Started
  <2>15. QED
    BY <1>5, <2>6, <2>7, <2>9, <2>10, <2>12, <2>13, <2>14 DEF RoomOK
<1>7. CASE ~(Cardinality(left) > 1)
  <2> DEFINE winner == IF left = {} THEN NoSeat ELSE Lowest(left)
             score == [t \in Seat |-> IF t = winner THEN 1 ELSE rm.score[t]]
             res == [over |-> TRUE, winner |-> winner, done |-> TRUE]
             g == [rm.game EXCEPT !.out = out, !.active = NoSeat, !.result = res]
  <2>1. next = [gone EXCEPT !.score = score, !.game.active = NoSeat, !.game.result = res]
    BY <1>7 DEF Eliminate
  <2>2. next = [rm EXCEPT !.game = g, !.score = score]
    <3> HIDE DEF score, res, out
    <3>1. QED
      BY <1>1, <2>1 DEF RoomState, Games
  <2>3. winner \in SeatOrNone
    <3>1. left \subseteq Seat /\ left \in SUBSET Nat
      BY SeatFacts
    <3> HIDE DEF left
    <3>2. QED
      BY <3>1, LowestIsMember DEF SeatOrNone
  <2> HIDE DEF winner
  <2>4. Needed = 1
    BY ModeFacts
  <2>5. score \in [Seat -> Nat] /\ \A t \in Seat : IF t = winner THEN score[t] = Needed ELSE score[t] < Needed
    <3>1. \A t \in Seat : score[t] = IF t = winner THEN 1 ELSE rm.score[t]
      OBVIOUS
    <3>2. score \in [Seat -> Nat]
      BY <1>1
    <3>3. QED
      BY <1>4, <2>4, <3>1, <3>2
  <2>6. res \in Results /\ res.over /\ res.done /\ res.winner = winner
    BY <2>3 DEF Results
  <2> HIDE DEF score, res, out
  <2>7. g \in Games
    BY <1>1, <1>5, <2>6, EmptyTypes DEF Games, Results
  <2>8. /\ g.number = rm.game.number /\ g.out = out /\ g.result = res /\ g.side = rm.game.side
    BY <1>1 DEF Games
  <2> HIDE DEF g
  <2>9. /\ next \in RoomState /\ next.game = g /\ next.phase = rm.phase /\ next.occ = rm.occ
        /\ next.host = rm.host /\ next.score = score /\ next.loadID = rm.loadID /\ next.loaded = rm.loaded
    BY <1>1, <2>2, <2>5, <2>7 DEF RoomState
  <2>10. g # NoGame
    BY <1>2, <1>5, <2>8
  <2>11. Started(next) /\ Playing(next) /\ ~Live(next) /\ Decided(next) /\ ~Sideboarding(next)
    BY <1>2, <2>6, <2>8, <2>9, <2>10 DEF Started, Playing, Live, Decided, Sideboarding
  <2>12. GameShape(next)
    BY <1>2, <2>6, <2>8, <2>9, <2>11 DEF GameShape, Playing
  <2>13. TurnKept(next) /\ FullTable(next)
    BY <2>11 DEF TurnKept, FullTable
  <2>14. Accounts(next)
    BY <2>5, <2>6, <2>8, <2>9, <2>11 DEF Accounts, Started
  <2>15. QED
    BY <1>5, <2>8, <2>9, <2>11, <2>12, <2>13, <2>14 DEF RoomOK
<1>8. QED
  BY <1>6, <1>7

\* Nothing RoomOK speaks of changes with the host, the readiness or the load.
LEMMA SameMatchOK ==
  ASSUME ModeOK, NEW rm, RoomOK(rm), NEW next, next \in RoomState,
         next.phase = rm.phase, next.game = rm.game, next.score = rm.score, next.drawn = rm.drawn,
         Taken(next) = Taken(rm), \A s \in Seats : rm.deck[s] # NoDeck => next.deck[s] # NoDeck
  PROVE  RoomOK(next)
<1>1. /\ Started(next) = Started(rm) /\ Playing(next) = Playing(rm) /\ Live(next) = Live(rm)
      /\ Decided(next) = Decided(rm) /\ Sideboarding(next) = Sideboarding(rm)
  BY DEF Started, Playing, Live, Decided, Sideboarding
<1>2. GameShape(next)
  BY <1>1 DEF RoomOK, GameShape
<1>3. TurnKept(next)
  BY <1>1 DEF RoomOK, TurnKept
<1>4. FullTable(next)
  <2>1. \A s \in Seats : rm.occ[s] # "free" => next.occ[s] # "free"
    BY DEF Taken
  <2>2. QED
    BY <1>1, <2>1 DEF RoomOK, FullTable
<1>5. Accounts(next)
  <2>1. RulesGameNumber(next) = RulesGameNumber(rm)
    BY GameNumbers DEF RoomOK
  <2>2. QED
    BY <1>1, <2>1 DEF RoomOK, Accounts
<1>6. QED
  BY <1>2, <1>3, <1>4, <1>5 DEF RoomOK

\* The room with another game, or with another state of its sideboarding.
WithGame(rm, g) == [rm EXCEPT !.game = g]
WithSide(rm, side) == [rm EXCEPT !.game.side = side]

\* Between two games the players change what will be committed, nothing else.
LEMMA SideChangedOK ==
  ASSUME ModeOK, NEW rm, RoomOK(rm), Sideboarding(rm),
         NEW side, side \in SideBoardings, side.id = rm.game.side.id,
         NEW next, next = WithSide(rm, side)
  PROVE  /\ RoomOK(next)
         /\ next.phase = rm.phase /\ next.occ = rm.occ /\ next.deck = rm.deck /\ next.ready = rm.ready
         /\ next.loaded = rm.loaded /\ next.loadID = rm.loadID /\ next.host = rm.host
         /\ next.game # NoGame /\ Sideboarding(next) /\ next.game.side = side
         /\ next.game.number = rm.game.number
<1> DEFINE g == [rm.game EXCEPT !.side = side]
<1>1. rm \in RoomState /\ rm.game \in Games
  BY RoomFields DEF RoomOK
<1>2. ~Live(rm) /\ ~Decided(rm) /\ ~EDH /\ rm.game.side.id # 0 /\ Playing(rm) /\ Started(rm)
  BY LiveOrDecided DEF Sideboarding
<1>3. next = [rm EXCEPT !.game = g]
  BY <1>1 DEF WithSide, RoomState, Games
<1>4. /\ g \in Games /\ g.number = rm.game.number /\ g.order = rm.game.order /\ g.out = rm.game.out
      /\ g.active = rm.game.active /\ g.result = rm.game.result /\ g.side = side
  BY <1>1 DEF Games, SideBoardings
<1> HIDE DEF g
<1>5. /\ next \in RoomState /\ next.game = g /\ next.phase = rm.phase /\ next.occ = rm.occ
      /\ next.deck = rm.deck /\ next.ready = rm.ready /\ next.loaded = rm.loaded
      /\ next.loadID = rm.loadID /\ next.host = rm.host /\ next.score = rm.score /\ next.drawn = rm.drawn
  BY <1>1, <1>3, <1>4 DEF RoomState
<1>6. rm.game # NoGame /\ rm.game.number # 0 /\ NoSide.id = 0 /\ NoGame.number = 0
      /\ rm.game.result.over /\ ~rm.game.result.done /\ rm.game.side # NoSide
  BY <1>2 DEF RoomOK, GameShape, Playing, Sideboarding, NoSide, NoGame
<1>7. g # NoGame /\ side # NoSide
  BY <1>2, <1>4, <1>6
<1>8. Started(next) /\ Playing(next) /\ ~Live(next) /\ ~Decided(next) /\ Sideboarding(next)
  BY <1>2, <1>4, <1>5, <1>6, <1>7 DEF Started, Playing, Live, Decided, Sideboarding
<1>9. GameShape(next)
  BY <1>2, <1>4, <1>5, <1>6, <1>8 DEF GameShape
<1>10. TurnKept(next)
  BY <1>8 DEF TurnKept
<1>11. FullTable(next)
  BY <1>2, <1>5, <1>8 DEF RoomOK, FullTable
<1>12. Accounts(next)
  <2>1. RulesGameNumber(next) = RulesGameNumber(rm)
    BY <1>1, <1>5, GameNumbers
  <2>2. QED
    BY <1>2, <1>4, <1>5, <1>8, <2>1 DEF RoomOK, Accounts, Started
<1>13. QED
  BY <1>4, <1>5, <1>7, <1>8, <1>9, <1>10, <1>11, <1>12 DEF RoomOK

\* A player forfeits: whatever was undecided is decided, or goes on without
\* the seat.
LEMMA ForfeitOK ==
  ASSUME ModeOK, NEW rm, RoomOK(rm), sides \in Nat, NEW s \in Seats, NEW next, next = Forfeit(rm, s)
  PROVE  /\ RoomOK(next)
         /\ next.phase = rm.phase /\ next.occ = rm.occ /\ next.host = rm.host
         /\ next.loadID = rm.loadID /\ next.loaded = rm.loaded
         /\ Live(next) => s \in next.game.out
         /\ Playing(rm) /\ ~EDH => Decided(next)
         /\ Playing(next) = Playing(rm)
         /\ ~Playing(rm) => next = rm
         /\ Sideboarding(next) => Sideboarding(rm) /\ next = rm
<1>1. rm \in RoomState /\ rm.game \in Games /\ rm.score \in [Seat -> Nat] /\ s \in Seat
  BY RoomFields, SeatFacts DEF RoomOK
<1>2. CASE ~Playing(rm) \/ Decided(rm)
  <2>1. next = rm
    BY <1>2 DEF Forfeit
  <2>2. ~Live(rm)
    BY <1>2, LiveOrDecided
  <2>3. QED
    BY <1>2, <2>1, <2>2, LiveOrDecided
<1>3. CASE Playing(rm) /\ ~Decided(rm) /\ EDH
  <2>1. Live(rm) /\ ~Sideboarding(rm)
    BY <1>3, LiveOrDecided
  <2>2. CASE s \in rm.game.out
    <3>1. next = rm
      BY <1>3, <2>2 DEF Forfeit
    <3>2. QED
      BY <1>3, <2>1, <2>2, <3>1
  <2>3. CASE s \notin rm.game.out
    <3>1. next = Eliminate(rm, s)
      BY <1>3, <2>3 DEF Forfeit
    <3>2. QED
      BY <1>3, <2>1, <3>1, EliminateOK
  <2>4. QED
    BY <2>2, <2>3
<1>4. CASE Playing(rm) /\ ~Decided(rm) /\ ~EDH
  <2> DEFINE score == [rm.score EXCEPT ![1 - s] = IF @ < Needed THEN Needed ELSE @]
             won == [rm EXCEPT !.score = score]
  <2>1. s \in {0, 1} /\ 1 - s \in Seat /\ 1 - s # s
    BY <1>4, SeatFacts
  <2>2. next = EndGame(won, 1 - s, s, TRUE)
    <3>1. next = EndGame([rm EXCEPT !.score[1 - s] = IF @ < Needed THEN Needed ELSE @], 1 - s, s, TRUE)
      BY <1>4 DEF Forfeit
    <3>2. [rm EXCEPT !.score[1 - s] = IF @ < Needed THEN Needed ELSE @] = won
      OBVIOUS
    <3>3. QED
      BY <3>1, <3>2
  <2>3. /\ Started(rm) /\ \A t \in Seat : rm.score[t] < Needed
        /\ rm.game # NoGame /\ rm.game.number # 0
    BY <1>4 DEF RoomOK, Accounts, GameShape, Playing
  <2>4. Needed \in Nat
    BY ModeFacts
  <2>5. score \in [Seat -> Nat] /\ \A t \in Seat : IF t = 1 - s THEN score[t] = Needed ELSE score[t] < Needed
    BY <1>1, <2>1, <2>3, <2>4
  <2> HIDE DEF score
  <2>6. /\ won \in RoomState /\ won.score = score /\ won.phase = rm.phase /\ won.occ = rm.occ
        /\ won.host = rm.host /\ won.loadID = rm.loadID /\ won.loaded = rm.loaded /\ won.game = rm.game
    BY <1>1, <2>5 DEF RoomState
  <2> HIDE DEF won
  <2>7. Started(won) /\ 1 - s \in SeatOrNone /\ s \in SeatOrNone
    BY <1>1, <2>1, <2>3, <2>6 DEF Started, SeatOrNone
  <2>8. RoomOK(next)
    BY <2>2, <2>3, <2>5, <2>6, <2>7, EndedOK
  <2>9. /\ next.phase = won.phase /\ next.occ = won.occ /\ next.host = won.host
        /\ next.loadID = won.loadID /\ next.loaded = won.loaded
        /\ next.game.number = won.game.number
        /\ next.game.result = [over |-> TRUE, winner |-> 1 - s, done |-> TRUE]
        /\ next.game.side = NoSide
    <3>1. won \in RoomState /\ sides \in Nat /\ TRUE \in BOOLEAN
      BY <2>6
    <3> DEFINE winner == 1 - s
               done == TRUE
    <3>2. winner \in SeatOrNone /\ done \in BOOLEAN /\ next = EndGame(won, winner, s, done)
      BY <2>2, <2>7
    <3> HIDE DEF winner, done
    <3>3. /\ next.phase = won.phase /\ next.occ = won.occ /\ next.host = won.host
          /\ next.loadID = won.loadID /\ next.loaded = won.loaded
          /\ next.game.number = won.game.number
          /\ next.game.result = [over |-> TRUE, winner |-> winner, done |-> done]
          /\ done => next.game.side = NoSide
      BY <2>7, <3>1, <3>2, EndGameFields
    <3>4. QED
      BY <3>3 DEF winner, done
  <2>10. next.game # NoGame /\ next.game.result.done
    <3>1. NoGame.number = 0
      BY DEF NoGame
    <3>2. QED
      BY <2>3, <2>6, <2>9, <3>1
  <2>11. Playing(next) /\ Decided(next) /\ ~Sideboarding(next)
    BY <2>3, <2>6, <2>9, <2>10 DEF Started, Playing, Decided, Sideboarding
  <2>12. ~Live(next)
    BY <2>8, <2>11, LiveOrDecided
  <2>13. QED
    BY <1>4, <2>6, <2>8, <2>9, <2>11, <2>12
<1>5. QED
  BY <1>2, <1>3, <1>4

\* The seat of a departed player is free; the match went on without it before.
LEMMA VacateOK ==
  ASSUME ModeOK, NEW rm, RoomOK(rm), NEW s \in Seats, Live(rm) => s \in rm.game.out,
         Started(rm) /\ ~EDH => Decided(rm), NEW next, next = Vacate(rm, s)
  PROVE  /\ RoomOK(next)
         /\ next.phase = rm.phase /\ next.game = rm.game /\ next.loadID = rm.loadID
         /\ next.host = rm.host /\ next.score = rm.score /\ next.drawn = rm.drawn
         /\ \A t \in Seat : next.occ[t] = IF t = s THEN "free" ELSE rm.occ[t]
         /\ \A t \in Seat : next.loaded[t] => rm.loaded[t]
<1>1. rm \in RoomState /\ s \in Seat
  BY SeatFacts DEF RoomOK
<1>2. /\ next \in RoomState
      /\ next.phase = rm.phase /\ next.game = rm.game /\ next.loadID = rm.loadID
      /\ next.host = rm.host /\ next.score = rm.score /\ next.drawn = rm.drawn
      /\ next.occ = [rm.occ EXCEPT ![s] = "free"] /\ next.loaded = [rm.loaded EXCEPT ![s] = FALSE]
  <2>1. /\ [rm.occ EXCEPT ![s] = "free"] \in [Seat -> {"free", "human", "ai"}]
        /\ [rm.reg EXCEPT ![s] = NoDeck] \in [Seat -> Decks]
        /\ [rm.deck EXCEPT ![s] = NoDeck] \in [Seat -> Decks]
    BY <1>1, EmptyTypes DEF RoomState
  <2>2. /\ [rm.ready EXCEPT ![s] = FALSE] \in [Seat -> BOOLEAN]
        /\ [rm.loaded EXCEPT ![s] = FALSE] \in [Seat -> BOOLEAN]
    BY <1>1 DEF RoomState
  <2>3. QED
    BY <1>1, <2>1, <2>2 DEF Vacate, RoomState
<1>3. \A t \in Seat : next.occ[t] = IF t = s THEN "free" ELSE rm.occ[t]
  BY <1>1, <1>2 DEF RoomState
<1>4. \A t \in Seat : next.loaded[t] => rm.loaded[t]
  BY <1>1, <1>2 DEF RoomState
<1>5. Taken(next) = Taken(rm) \ {s}
  BY <1>3, SeatFacts DEF Taken
<1>6. /\ Started(next) = Started(rm) /\ Playing(next) = Playing(rm) /\ Live(next) = Live(rm)
      /\ Decided(next) = Decided(rm) /\ Sideboarding(next) = Sideboarding(rm)
  BY <1>2 DEF Started, Playing, Live, Decided, Sideboarding
<1>7. GameShape(next)
  BY <1>2, <1>6 DEF RoomOK, GameShape
<1>8. TurnKept(next)
  BY <1>2, <1>5, <1>6 DEF RoomOK, TurnKept, Placed
<1>9. FullTable(next)
  BY <1>6 DEF FullTable
<1>10. Accounts(next)
  <2>1. RulesGameNumber(next) = RulesGameNumber(rm)
    BY <1>1, <1>2, GameNumbers
  <2>2. QED
    BY <1>2, <1>6, <2>1 DEF RoomOK, Accounts
<1>11. QED
  BY <1>2, <1>3, <1>4, <1>7, <1>8, <1>9, <1>10 DEF RoomOK

\* Loading stops, the host changes: the match is as it was.
LEMMA CancelOK ==
  ASSUME ModeOK, NEW rm, RoomOK(rm), NEW next, next = Cancel(rm)
  PROVE  /\ RoomOK(next) /\ next.phase # "loading"
         /\ next.phase = (IF rm.phase = "loading" THEN "waiting" ELSE rm.phase)
         /\ next.game = rm.game /\ next.loadID = rm.loadID /\ next.occ = rm.occ /\ next.host = rm.host
         /\ next.deck = rm.deck /\ next.ready = rm.ready
<1>1. rm \in RoomState /\ Fill(FALSE) \in [Seat -> BOOLEAN]
  BY EmptyTypes DEF RoomOK
<1>2. CASE rm.phase = "loading"
  <2>1. next = [rm EXCEPT !.phase = "waiting", !.loaded = Fill(FALSE)]
    BY <1>2 DEF Cancel
  <2>2. /\ next \in RoomState /\ next.phase = "waiting" /\ next.game = rm.game /\ next.loadID = rm.loadID
        /\ next.occ = rm.occ /\ next.host = rm.host /\ next.deck = rm.deck /\ next.ready = rm.ready
        /\ next.score = rm.score /\ next.drawn = rm.drawn
    BY <1>1, <2>1 DEF RoomState
  <2>3. rm.game = NoGame /\ rm.drawn = 0 /\ \A s \in Seat : rm.score[s] = 0
    BY <1>2 DEF RoomOK, GameShape, Accounts, Started
  <2>4. RoomOK(next)
    BY <2>2, <2>3, IdleOK DEF Started
  <2>5. QED
    BY <1>2, <2>2, <2>4
<1>3. CASE rm.phase # "loading"
  BY <1>3 DEF Cancel
<1>4. QED
  BY <1>2, <1>3

LEMMA TransferHostOK ==
  ASSUME ModeOK, NEW rm, RoomOK(rm), NEW next, next = TransferHost(rm)
  PROVE  /\ RoomOK(next) /\ next.phase = rm.phase
         /\ next.game = rm.game /\ next.loadID = rm.loadID /\ next.occ = rm.occ /\ next.loaded = rm.loaded
         /\ next.deck = rm.deck /\ next.ready = rm.ready
<1> DEFINE host == IF Humans(rm) = {} THEN NoSeat ELSE Lowest(Humans(rm))
<1>1. rm \in RoomState
  BY DEF RoomOK
<1>2. host \in SeatOrNone
  <2>1. Humans(rm) \in SUBSET Nat /\ Humans(rm) \subseteq Seat
    BY SeatFacts DEF Humans
  <2>2. QED
    BY <2>1, LowestIsMember DEF SeatOrNone
<1>3. next = [rm EXCEPT !.host = host]
  BY DEF TransferHost
<1> HIDE DEF host
<1>4. /\ next \in RoomState /\ next.phase = rm.phase
      /\ next.game = rm.game /\ next.loadID = rm.loadID /\ next.occ = rm.occ /\ next.loaded = rm.loaded
      /\ next.deck = rm.deck /\ next.ready = rm.ready /\ next.score = rm.score /\ next.drawn = rm.drawn
  BY <1>1, <1>2, <1>3 DEF RoomState
<1>5. Taken(next) = Taken(rm)
  BY <1>4 DEF Taken
<1>6. RoomOK(next)
  BY <1>4, <1>5, SameMatchOK
<1>7. QED
  BY <1>4, <1>6

\* Back to waiting: nothing of the game is left, and no score of a manual one.
LEMMA ResetOK ==
  ASSUME ModeOK, NEW rm, rm \in RoomState,
         ~Forge => rm.drawn = 0 /\ \A s \in Seat : rm.score[s] = 0, NEW next, next = Reset(rm)
  PROVE  /\ RoomOK(next) /\ next.phase = "waiting" /\ next.game = NoGame /\ next.loadID = rm.loadID
         /\ next.occ = rm.occ /\ next.deck = rm.deck
<1> DEFINE ready == [s \in Seat |-> rm.occ[s] = "ai" /\ rm.deck[s] # NoDeck]
<1>1. ready \in [Seat -> BOOLEAN]
  OBVIOUS
<1>2. next = [rm EXCEPT !.phase = "waiting", !.game = NoGame, !.loaded = Fill(FALSE), !.ready = ready]
  BY DEF Reset
<1> HIDE DEF ready
<1>3. /\ next \in RoomState /\ next.phase = "waiting" /\ next.game = NoGame /\ next.loadID = rm.loadID
      /\ next.occ = rm.occ /\ next.deck = rm.deck
      /\ next.score = rm.score /\ next.drawn = rm.drawn
  <2>1. Fill(FALSE) \in [Seat -> BOOLEAN] /\ NoGame \in Games
    BY EmptyTypes
  <2>2. QED
    BY <1>1, <1>2, <2>1 DEF RoomState
<1>4. RoomOK(next)
  BY <1>3, IdleOK DEF Started
<1>5. QED
  BY <1>3, <1>4

\* The room without a player.  A running Forge match loses its engine with it;
\* what is left then is only reset.
LEMMA DepartedOK ==
  ASSUME ModeOK, RoomOK(room), sides \in Nat, NEW s \in Seats, NEW next, next = Departed(s)
  PROVE  /\ next \in RoomState /\ next.phase # "loading" /\ next.loadID = room.loadID
         /\ ~(Forge /\ Started(room)) => RoomOK(next)
         /\ room.phase = "closed" => next.phase = "closed"
         /\ Started(next) = Started(room)
         /\ Sideboarding(next) => Sideboarding(room) /\ next.game = room.game
         /\ Started(room) \/ next.game = NoGame
<1> DEFINE left   == Forfeit(room, s)
           free   == Vacate(left, s)
           hosted == IF room.host = s THEN TransferHost(free) ELSE free
<1>1. /\ RoomOK(left)
      /\ left.phase = room.phase /\ left.loadID = room.loadID
      /\ Live(left) => s \in left.game.out
      /\ Playing(room) /\ ~EDH => Decided(left)
      /\ ~Playing(room) => left = room
      /\ Sideboarding(left) => Sideboarding(room) /\ left = room
  BY ForfeitOK
<1>2. next = Cancel(hosted)
  BY DEF Departed
<1> HIDE DEF left
<1>3. s \in Seat /\ Started(left) = Started(room)
  BY <1>1, SeatFacts DEF Started
<1>4. CASE Forge /\ Started(room) /\ ~Playing(room)
  <2>1. /\ left = room /\ room.game = NoGame /\ room \in RoomState /\ room.phase = "started"
    BY <1>1, <1>4 DEF RoomOK, Playing, Started
  <2>2. /\ free \in RoomState /\ free.phase = "started" /\ free.loadID = room.loadID /\ free.game = NoGame
    <3>1. /\ [room.occ EXCEPT ![s] = "free"] \in [Seat -> {"free", "human", "ai"}]
          /\ [room.reg EXCEPT ![s] = NoDeck] \in [Seat -> Decks]
          /\ [room.deck EXCEPT ![s] = NoDeck] \in [Seat -> Decks]
      BY <1>3, <2>1, EmptyTypes DEF RoomState
    <3>2. /\ [room.ready EXCEPT ![s] = FALSE] \in [Seat -> BOOLEAN]
          /\ [room.loaded EXCEPT ![s] = FALSE] \in [Seat -> BOOLEAN]
      BY <1>3, <2>1 DEF RoomState
    <3>3. QED
      BY <2>1, <3>1, <3>2 DEF Vacate, RoomState
  <2> HIDE DEF free
  <2>3. hosted \in RoomState /\ hosted.phase = "started" /\ hosted.loadID = room.loadID /\ hosted.game = NoGame
    <3> DEFINE host == IF Humans(free) = {} THEN NoSeat ELSE Lowest(Humans(free))
    <3>1. host \in SeatOrNone
      <4>1. Humans(free) \in SUBSET Nat /\ Humans(free) \subseteq Seat
        BY SeatFacts DEF Humans
      <4>2. QED
        BY <4>1, LowestIsMember DEF SeatOrNone
    <3>2. TransferHost(free) = [free EXCEPT !.host = host]
      BY DEF TransferHost
    <3> HIDE DEF host
    <3>3. QED
      BY <2>2, <3>1, <3>2 DEF RoomState
  <2> HIDE DEF hosted
  <2>4. next = hosted
    BY <1>2, <2>3 DEF Cancel
  <2>5. ~Sideboarding(next)
    BY <2>3, <2>4 DEF Sideboarding, Playing
  <2>6. QED
    BY <1>4, <2>1, <2>3, <2>4, <2>5 DEF Started
<1>5. CASE ~(Forge /\ Started(room) /\ ~Playing(room))
  <2>1. Started(room) /\ ~EDH => Decided(left)
    <3>1. ~Forge /\ Started(room) /\ ~EDH /\ ~Playing(room) => FALSE
      BY DEF RoomOK, GameShape, Playing
    <3>2. QED
      BY <1>1, <1>5, <3>1
  <2>2. /\ RoomOK(free)
        /\ free.phase = left.phase /\ free.game = left.game /\ free.loadID = left.loadID
    BY <1>1, <1>3, <2>1, VacateOK
  <2> HIDE DEF free
  <2>3. /\ RoomOK(hosted)
        /\ hosted.phase = left.phase /\ hosted.game = left.game /\ hosted.loadID = left.loadID
    BY <2>2, TransferHostOK
  <2> HIDE DEF hosted
  <2>4. /\ RoomOK(next) /\ next.phase # "loading"
        /\ next.phase = (IF hosted.phase = "loading" THEN "waiting" ELSE hosted.phase)
        /\ next.game = hosted.game /\ next.loadID = hosted.loadID
    BY <1>2, <2>3, CancelOK
  <2>5. Sideboarding(next) => Sideboarding(left)
    BY <2>3, <2>4 DEF Sideboarding, Playing, Started
  <2>6. Started(next) = Started(room)
    BY <1>1, <2>3, <2>4 DEF Started
  <2>7. Started(room) \/ next.game = NoGame
    BY <2>4, <2>6 DEF RoomOK, GameShape
  <2>8. next \in RoomState
    BY <2>4 DEF RoomOK
  <2>9. QED
    BY <1>1, <2>3, <2>4, <2>5, <2>6, <2>7, <2>8
<1>6. QED
  BY <1>4, <1>5

\* A new load generation, for a full gate.
LEMMA BeginLoadingOK ==
  ASSUME ModeOK, NEW rm, RoomOK(rm), rm.phase = "waiting", NEW next, next = BeginLoading(rm)
  PROVE  /\ RoomOK(next) /\ next.phase = "loading" /\ next.game = NoGame /\ next.loadID = rm.loadID + 1
         /\ next.loaded = Controlled(rm) /\ next.occ = rm.occ /\ next.deck = rm.deck /\ next.ready = rm.ready
         /\ next.drawn = 0 /\ \A s \in Seat : next.score[s] = 0
<1>1. rm \in RoomState /\ rm.game = NoGame
  BY DEF RoomOK, GameShape, Started
<1>2. Controlled(rm) \in [Seat -> BOOLEAN]
  BY DEF Controlled
<1>3. Fill(0) \in [Seat -> Nat] /\ \A s \in Seat : Fill(0)[s] = 0
  BY DEF Fill
<1>4. /\ next \in RoomState /\ next.phase = "loading" /\ next.game = NoGame /\ next.loadID = rm.loadID + 1
      /\ next.loaded = Controlled(rm) /\ next.occ = rm.occ /\ next.deck = rm.deck /\ next.ready = rm.ready
      /\ Forge => next.score = Fill(0) /\ next.drawn = 0
      /\ ~Forge => next.score = rm.score /\ next.drawn = rm.drawn
  <2>1. CASE Forge
    <3> DEFINE fresh == [rm EXCEPT !.score = Fill(0), !.drawn = 0, !.start = NoSeat]
    <3>1. /\ fresh \in RoomState /\ fresh.game = NoGame /\ fresh.loadID = rm.loadID
          /\ fresh.occ = rm.occ /\ fresh.deck = rm.deck /\ fresh.ready = rm.ready
          /\ fresh.score = Fill(0) /\ fresh.drawn = 0
      <4>1. NoSeat \in SeatOrNone
        BY EmptyTypes
      <4> HIDE DEF Fill
      <4>2. QED
        BY <1>1, <1>3, <4>1 DEF RoomState
    <3>2. next = [fresh EXCEPT !.loadID = @ + 1, !.loaded = Controlled(rm), !.phase = "loading"]
      BY <2>1 DEF BeginLoading
    <3> HIDE DEF fresh
    <3>3. /\ next \in RoomState /\ next.phase = "loading" /\ next.game = NoGame /\ next.loadID = rm.loadID + 1
          /\ next.loaded = Controlled(rm) /\ next.occ = rm.occ /\ next.deck = rm.deck /\ next.ready = rm.ready
          /\ next.score = Fill(0) /\ next.drawn = 0
      <4> DEFINE id == rm.loadID + 1
      <4>1. id \in Nat /\ next = [fresh EXCEPT !.loadID = id, !.loaded = Controlled(rm), !.phase = "loading"]
        BY <1>1, <3>1, <3>2 DEF RoomState
      <4> HIDE DEF id
      <4>2. QED
        BY <1>2, <3>1, <4>1 DEF RoomState, id
    <3>4. QED
      BY <2>1, <3>3
  <2>2. CASE ~Forge
    <3>1. next = [rm EXCEPT !.loadID = @ + 1, !.loaded = Controlled(rm), !.phase = "loading"]
      BY <2>2 DEF BeginLoading
    <3>2. /\ next \in RoomState /\ next.phase = "loading" /\ next.game = NoGame /\ next.loadID = rm.loadID + 1
          /\ next.loaded = Controlled(rm) /\ next.occ = rm.occ /\ next.deck = rm.deck /\ next.ready = rm.ready
          /\ next.score = rm.score /\ next.drawn = rm.drawn
      <4> DEFINE id == rm.loadID + 1
      <4>1. id \in Nat /\ next = [rm EXCEPT !.loadID = id, !.loaded = Controlled(rm), !.phase = "loading"]
        BY <1>1, <3>1 DEF RoomState
      <4> HIDE DEF id
      <4>2. QED
        BY <1>1, <1>2, <4>1 DEF RoomState, id
    <3>3. QED
      BY <2>2, <3>2
  <2>3. QED
    BY <2>1, <2>2
<1>5. next.drawn = 0 /\ \A s \in Seat : next.score[s] = 0
  <2>1. ~Forge => rm.drawn = 0 /\ \A s \in Seat : rm.score[s] = 0
    BY DEF RoomOK, Accounts, Started
  <2>2. QED
    BY <1>3, <1>4, <2>1
<1>6. RoomOK(next)
  BY <1>4, <1>5, IdleOK DEF Started
<1>7. QED
  BY <1>4, <1>5, <1>6

\* A loaded room starts: the engine plays, or a first game is dealt.
LEMMA BegunOK ==
  ASSUME ModeOK, NEW rm, RoomOK(rm), rm.phase = "loading", Cardinality(Taken(rm)) >= MinPlayers,
         \A s \in Taken(rm) : rm.deck[s] # NoDeck,
         NEW begun, begun = [rm EXCEPT !.phase = "started"]
  PROVE  /\ begun \in RoomState /\ begun.phase = "started" /\ begun.loadID = rm.loadID /\ begun.game = NoGame
         /\ begun.occ = rm.occ
         /\ Forge => RoomOK(begun)
         /\ ~Forge => \A from : \A g \in SetupGame(from, 1, NoSeat) : from.occ = rm.occ =>
              RoomOK([begun EXCEPT !.game = g])
<1>1. rm \in RoomState /\ rm.game = NoGame /\ rm.drawn = 0 /\ \A s \in Seat : rm.score[s] = 0
  BY DEF RoomOK, GameShape, Accounts, Started
<1>2. /\ begun \in RoomState /\ begun.phase = "started" /\ begun.loadID = rm.loadID /\ begun.game = NoGame
      /\ begun.occ = rm.occ /\ begun.deck = rm.deck /\ begun.score = rm.score /\ begun.drawn = rm.drawn
  BY <1>1 DEF RoomState
<1>3. Taken(rm) # {} /\ (~EDH => Taken(rm) = Seats) /\ Taken(begun) = Taken(rm)
  BY <1>2, GateFillsTable DEF Taken
<1>4. ~EDH => \A s \in Seats : begun.occ[s] # "free" /\ begun.deck[s] # NoDeck
  BY <1>2, <1>3 DEF Taken
<1>5. \A s \in Seat : begun.score[s] < Needed
  BY <1>1, <1>2, ModeFacts
<1>6. Forge => RoomOK(begun)
  BY <1>2, <1>4, <1>5, RunningOK DEF Started
<1>7. ASSUME ~Forge, NEW from, from.occ = rm.occ, NEW g \in SetupGame(from, 1, NoSeat)
      PROVE  RoomOK([begun EXCEPT !.game = g])
  <2>1. Taken(from) = Taken(begun)
    BY <1>2, <1>7 DEF Taken
  <2>2. PICK o \in Orders(Taken(begun)) : g = NewGame(begun, 1, o)
    <3>1. \A S : TableOrders(S) \subseteq Orders(S)
      BY DEF TableOrders
    <3>2. PICK o \in Orders(Taken(from)) : g = NewGame(from, 1, o)
      BY <1>7, <3>1 DEF SetupGame
    <3>3. g = NewGame(begun, 1, o)
      BY <2>1, <3>2 DEF NewGame
    <3>4. QED
      BY <2>1, <3>2, <3>3
  <2>3. Seating(o, Taken(begun))
    <3>1. Taken(begun) \in SUBSET Seats
      BY DEF Taken
    <3>2. QED
      BY <1>3, <3>1, OrdersSeatEveryone
  <2>4. RulesGameNumber(begun) = 1
    <3>1. begun.drawn = 0 /\ \A s \in Seat : begun.score[s] = 0
      BY <1>1, <1>2
    <3>2. Cardinality(Wins(begun)) = 0
      BY <3>1, NoWins
    <3>3. QED
      BY <3>1, <3>2 DEF RulesGameNumber
  <2>5. QED
    BY <1>2, <1>4, <1>5, <1>7, <2>2, <2>3, <2>4, DealtOK DEF Started
<1>8. QED
  BY <1>2, <1>6, <1>7

\* The next game of an undecided match, with decks as committed.
LEMMA NextGameOK ==
  ASSUME ModeOK, NEW rm, RoomOK(rm), ~Forge, Sideboarding(rm), NEW starter,
         NEW g \in SetupGame(rm, rm.game.number + 1, starter), NEW next, next = WithGame(rm, g)
  PROVE  /\ RoomOK(next) /\ next.phase = "started" /\ next.loadID = rm.loadID /\ next.occ = rm.occ
         /\ next.game.side = NoSide
<1>1. rm \in RoomState /\ Started(rm) /\ ~Live(rm) /\ ~Decided(rm) /\ ~EDH /\ Playing(rm)
  <2>1. rm \in RoomState
    BY DEF RoomOK
  <2>2. QED
    BY <2>1, LiveOrDecided
<1>2. \A s \in Seats : rm.occ[s] # "free" /\ rm.deck[s] # NoDeck
  BY <1>1 DEF RoomOK, FullTable
<1>3. Taken(rm) = Seats /\ Seats # {}
  BY <1>2, SeatFacts DEF Taken
<1>4. \A s \in Seat : rm.score[s] < Needed
  BY <1>1 DEF RoomOK, Accounts
<1>5. rm.game.number + 1 = RulesGameNumber(rm)
  BY <1>1 DEF RoomOK, Accounts
<1>6. PICK o \in Orders(Taken(rm)) : g = NewGame(rm, rm.game.number + 1, o)
  <2>1. \A S : TableOrders(S) \subseteq Orders(S)
    BY DEF TableOrders
  <2>2. QED
    BY <2>1 DEF SetupGame
<1>7. Seating(o, Taken(rm))
  BY <1>3, OrdersSeatEveryone
<1>8. RoomOK(next)
  BY <1>1, <1>2, <1>4, <1>5, <1>6, <1>7, DealtOK DEF WithGame
<1>9. /\ next.phase = rm.phase /\ next.loadID = rm.loadID /\ next.occ = rm.occ /\ next.game = g
  BY <1>1 DEF RoomState, WithGame
<1>10. g.side = NoSide
  BY <1>6 DEF NewGame
<1>11. QED
  BY <1>1, <1>8, <1>9, <1>10 DEF Started

\* The pending partitions are committed.
LEMMA CommitDecksOK ==
  ASSUME ModeOK, NEW rm, RoomOK(rm), Sideboarding(rm), NEW next, next = CommitDecks(rm)
  PROVE  /\ RoomOK(next) /\ next.phase = rm.phase /\ next.game = rm.game /\ next.loadID = rm.loadID
         /\ next.occ = rm.occ /\ next.score = rm.score /\ next.drawn = rm.drawn
         /\ \A s \in Seats : next.deck[s].split = rm.game.side.split[s]
<1> DEFINE deck == [s \in Seat |->
     IF s \in Seats THEN [rm.deck[s] EXCEPT !.split = rm.game.side.split[s]] ELSE rm.deck[s]]
<1>1. /\ rm \in RoomState /\ rm.game \in Games /\ rm.deck \in [Seat -> Decks]
      /\ rm.game.side.split \in [Seat -> {0, 1}]
  BY RoomFields, GameParts DEF RoomOK
<1>2. Started(rm) /\ ~Decided(rm) /\ ~EDH
  BY LiveOrDecided
<1>3. \A s \in Seats : rm.occ[s] # "free" /\ rm.deck[s] # NoDeck
  BY <1>2 DEF RoomOK, FullTable
<1>4. ASSUME NEW s \in Seats
      PROVE  deck[s] \in Decks /\ deck[s] # NoDeck /\ deck[s].split = rm.game.side.split[s]
  <2>1. s \in Seat
    BY SeatFacts
  <2>2. rm.deck[s] \in [list : Lists, split : {0, 1}]
    BY <1>1, <1>3, <2>1 DEF Decks
  <2>3. deck[s] \in [list : Lists, split : {0, 1}] /\ deck[s].split = rm.game.side.split[s]
    BY <1>1, <2>1, <2>2
  <2>4. deck[s] # NoDeck
    BY <2>3, ListsAssumption DEF NoDeck
  <2>5. QED
    BY <2>3, <2>4 DEF Decks
<1>5. deck \in [Seat -> Decks]
  BY <1>1, <1>4
<1>6. next = [rm EXCEPT !.deck = deck]
  BY DEF CommitDecks
<1> HIDE DEF deck
<1>7. /\ next \in RoomState /\ next.phase = rm.phase /\ next.game = rm.game /\ next.loadID = rm.loadID
      /\ next.occ = rm.occ /\ next.score = rm.score /\ next.drawn = rm.drawn /\ next.deck = deck
  BY <1>1, <1>5, <1>6 DEF RoomState
<1>8. Taken(next) = Taken(rm)
  BY <1>7 DEF Taken
<1>9. RoomOK(next)
  BY <1>4, <1>7, <1>8, SameMatchOK
<1>10. QED
  BY <1>4, <1>7, <1>9

\* The active player passes the turn.
LEMMA NextTurnOK ==
  ASSUME ModeOK, NEW rm, RoomOK(rm), Live(rm), NEW next,
         next = [rm EXCEPT !.game.active = NextActive(rm.game)]
  PROVE  /\ RoomOK(next) /\ next.phase = rm.phase /\ next.loadID = rm.loadID /\ next.occ = rm.occ
         /\ next.game # NoGame /\ ~Sideboarding(next)
<1> DEFINE active == NextActive(rm.game)
           g == [rm.game EXCEPT !.active = active]
<1>1. /\ rm \in RoomState /\ rm.game \in Games /\ Started(rm) /\ rm.game # NoGame /\ ~rm.game.result.over
      /\ ~Sideboarding(rm) /\ ~Decided(rm) /\ rm.game.number # 0 /\ rm.game.side = NoSide
      /\ ~rm.game.result.done /\ ~Forge
  <2>1. rm \in RoomState /\ rm.game \in Games
    BY RoomFields DEF RoomOK
  <2>2. Started(rm) /\ rm.game # NoGame /\ ~rm.game.result.over
    BY DEF Live, Playing
  <2>3. rm.game.number # 0 /\ rm.game.side = NoSide /\ ~rm.game.result.done /\ ~Forge
    BY <2>2 DEF RoomOK, GameShape
  <2>4. QED
    BY <2>1, <2>2, <2>3, LiveOrDecided
<1>2. /\ \A i \in DOMAIN rm.game.order : rm.game.order[i] \in Seats
      /\ Placed(rm.game.order, Taken(rm)) /\ Seats \ rm.game.out \subseteq Taken(rm)
      /\ rm.game.active \in Seats \ rm.game.out
  BY DEF RoomOK, TurnKept
<1>3. active \in Seats \ rm.game.out
  <2>1. PICK m \in 0 .. MaxSeats : rm.game.order \in [1 .. m -> Seat]
    <3>1. rm.game.order \in UNION {[1 .. k -> Seat] : k \in 0 .. MaxSeats}
      BY <1>1 DEF Games
    <3>2. QED
      BY <3>1
  <2>2. m \in Nat
    BY BoundsAssumption
  <2>3. PICK i \in DOMAIN rm.game.order : rm.game.order[i] = rm.game.active
    BY <1>2 DEF Placed
  <2>4. active \notin rm.game.out /\ \E k \in DOMAIN rm.game.order : active = rm.game.order[k]
    BY <1>2, <2>1, <2>2, <2>3, NextActivePlays
  <2>5. QED
    BY <1>2, <2>4
<1> HIDE DEF active
<1>4. next = [rm EXCEPT !.game = g]
  BY <1>1 DEF RoomState, Games, active
<1>5. active \in SeatOrNone
  BY <1>3, SeatFacts DEF SeatOrNone
<1>6. /\ g \in Games /\ g.number = rm.game.number /\ g.order = rm.game.order /\ g.out = rm.game.out
      /\ g.active = active /\ g.result = rm.game.result /\ g.side = rm.game.side
  BY <1>1, <1>5 DEF Games
<1> HIDE DEF g
<1>7. /\ next \in RoomState /\ next.game = g /\ next.phase = rm.phase /\ next.occ = rm.occ
      /\ next.deck = rm.deck /\ next.loadID = rm.loadID /\ next.score = rm.score /\ next.drawn = rm.drawn
  BY <1>1, <1>4, <1>6 DEF RoomState
<1>8. g # NoGame
  BY <1>1, <1>6 DEF NoGame
<1>9. Started(next) /\ Playing(next) /\ Live(next) /\ ~Decided(next) /\ ~Sideboarding(next)
  BY <1>1, <1>6, <1>7, <1>8 DEF Started, Playing, Live, Decided, Sideboarding
<1>10. GameShape(next)
  BY <1>1, <1>6, <1>7, <1>8, <1>9 DEF GameShape
<1>11. TurnKept(next)
  <2>1. Taken(next) = Taken(rm)
    BY <1>7 DEF Taken
  <2>2. QED
    BY <1>2, <1>3, <1>6, <1>7, <2>1 DEF TurnKept
<1>12. FullTable(next)
  BY <1>1, <1>7 DEF RoomOK, FullTable
<1>13. Accounts(next)
  <2>1. RulesGameNumber(next) = RulesGameNumber(rm)
    BY <1>1, <1>7, GameNumbers
  <2>2. (\A s \in Seat : rm.score[s] < Needed) /\ rm.game.number = RulesGameNumber(rm)
    BY <1>1 DEF RoomOK, Accounts
  <2>3. QED
    BY <1>6, <1>7, <1>9, <2>1, <2>2 DEF Accounts, Started
<1>14. QED
  BY <1>7, <1>8, <1>9, <1>10, <1>11, <1>12, <1>13 DEF RoomOK

\* Facts about a running manual game that EndGame needs.
LEMMA LiveFacts ==
  ASSUME ModeOK, NEW rm, RoomOK(rm), Live(rm)
  PROVE  /\ Started(rm) /\ rm.phase = "started" /\ rm.game # NoGame /\ rm.game.number # 0
         /\ \A s \in Seat : rm.score[s] < Needed
         /\ rm.game.number = RulesGameNumber(rm)
         /\ ~EDH => CanSideboard(rm) /\ \A s \in Seats : rm.occ[s] # "free" /\ rm.deck[s] # NoDeck
<1>1. Started(rm) /\ rm.game # NoGame /\ ~Decided(rm)
  BY LiveOrDecided DEF Live, Playing
<1>2. ~EDH => \A s \in Seats : rm.occ[s] # "free" /\ rm.deck[s] # NoDeck
  BY <1>1 DEF RoomOK, FullTable
<1>3. QED
  BY <1>1, <1>2 DEF RoomOK, GameShape, Accounts, CanSideboard, Started

\* A player concedes: the other one has a win more, maybe the last one.
LEMMA ConcedeOK ==
  ASSUME ModeOK, NEW rm, RoomOK(rm), Live(rm), ~EDH, sides \in Nat, NEW s \in Seats,
         NEW next, next = ConcedeTwoPlayer(rm, s)
  PROVE  /\ RoomOK(next) /\ next.phase = "started" /\ next.loadID = rm.loadID /\ next.game # NoGame
<1> DEFINE won == [rm EXCEPT !.score[1 - s] = rm.score[1 - s] + 1]
           done == won.score[1 - s] >= Needed
<1>1. rm \in RoomState /\ rm.game \in Games /\ rm.score \in [Seat -> Nat] /\ s \in Seat
  BY RoomFields, SeatFacts DEF RoomOK
<1>2. s \in {0, 1} /\ 1 - s \in Seat /\ 1 - s \in SeatOrNone /\ s \in SeatOrNone
  BY <1>1, SeatFacts DEF SeatOrNone
<1>3. /\ rm.phase = "started" /\ rm.game.number # 0 /\ rm.game # NoGame
      /\ \A t \in Seat : rm.score[t] < Needed
      /\ rm.game.number = RulesGameNumber(rm)
      /\ CanSideboard(rm) /\ \A t \in Seats : rm.occ[t] # "free"
  BY LiveFacts
<1>4. next = EndGame(won, 1 - s, s, done)
  BY <1>1 DEF ConcedeTwoPlayer
<1>5. /\ won.score = [rm.score EXCEPT ![1 - s] = rm.score[1 - s] + 1]
      /\ won.game = rm.game /\ won.deck = rm.deck /\ won.occ = rm.occ /\ won.phase = rm.phase
      /\ won.drawn = rm.drawn /\ won.loadID = rm.loadID
  BY <1>1 DEF RoomState
<1>6. won.score \in [Seat -> Nat]
  BY <1>1, <1>2, <1>5
<1>7. won \in RoomState
  <2> DEFINE score == [rm.score EXCEPT ![1 - s] = rm.score[1 - s] + 1]
  <2>1. score \in [Seat -> Nat] /\ won = [rm EXCEPT !.score = score]
    BY <1>1, <1>2
  <2> HIDE DEF score, won
  <2>2. QED
    BY <1>1, <2>1 DEF RoomState
<1>8. RulesGameNumber(won) = RulesGameNumber(rm) + 1
  BY <1>1, <1>2, <1>5, GameNumbers
<1>9. Needed \in Nat
  BY ModeFacts
<1>10. won.score[1 - s] = rm.score[1 - s] + 1 /\ \A t \in Seat : t # 1 - s => won.score[t] = rm.score[t]
  BY <1>1, <1>2, <1>5
<1>11. CanSideboard(won) /\ Started(won)
  BY <1>3, <1>5 DEF CanSideboard, Started
<1> HIDE DEF won
<1>12. done => \A t \in Seat : IF t = 1 - s THEN won.score[t] = Needed ELSE won.score[t] < Needed
  BY <1>1, <1>2, <1>3, <1>9, <1>10
<1>13. ~done => \A t \in Seat : won.score[t] < Needed
  <2>1. won.score[1 - s] \in Nat
    BY <1>2, <1>6
  <2>2. ~done => won.score[1 - s] < Needed
    BY <1>9, <2>1
  <2> HIDE DEF done
  <2>3. QED
    BY <1>3, <1>10, <2>2
<1>14. ~done => \A t \in Seats : won.occ[t] # "free"
  BY <1>3, <1>5
<1>15. won.game.number # 0 /\ won.game.number + 1 = RulesGameNumber(won)
  BY <1>3, <1>5, <1>8
<1>16. done \in BOOLEAN
  OBVIOUS
<1> DEFINE winner == 1 - s
<1>17. winner \in SeatOrNone /\ winner = 1 - s
  BY <1>2
<1> HIDE DEF done, winner
<1>18. RoomOK(EndGame(won, winner, s, done))
  BY <1>2, <1>7, <1>11, <1>12, <1>13, <1>14, <1>15, <1>16, <1>17, EndedOK
<1>19. /\ EndGame(won, winner, s, done).phase = won.phase /\ EndGame(won, winner, s, done).loadID = won.loadID
       /\ EndGame(won, winner, s, done).game.number = won.game.number
  BY <1>2, <1>7, <1>16, <1>17, EndGameKeeps
<1>20. NoGame.number = 0
  BY DEF NoGame
<1>21. QED
  BY <1>3, <1>4, <1>5, <1>17, <1>18, <1>19, <1>20

\* A manual game is drawn.
LEMMA DrawOK ==
  ASSUME ModeOK, NEW rm, RoomOK(rm), Live(rm), sides \in Nat, NEW next,
         next = EndGame([rm EXCEPT !.drawn = @ + 1], NoSeat, NoSeat, mode.match # "bo3")
  PROVE  /\ RoomOK(next) /\ next.phase = "started" /\ next.loadID = rm.loadID /\ next.game # NoGame
<1> DEFINE more == [rm EXCEPT !.drawn = rm.drawn + 1]
           done == mode.match # "bo3"
<1>1. rm \in RoomState /\ rm.drawn \in Nat
  BY RoomFields DEF RoomOK
<1>2. /\ rm.phase = "started" /\ rm.game.number # 0 /\ rm.game # NoGame
      /\ \A t \in Seat : rm.score[t] < Needed
      /\ rm.game.number = RulesGameNumber(rm)
      /\ ~EDH => CanSideboard(rm) /\ \A t \in Seats : rm.occ[t] # "free"
  BY LiveFacts
<1>3. next = EndGame(more, NoSeat, NoSeat, done)
  OBVIOUS
<1>4. /\ more \in RoomState /\ more.score = rm.score /\ more.drawn = rm.drawn + 1
      /\ more.game = rm.game /\ more.deck = rm.deck /\ more.occ = rm.occ /\ more.phase = rm.phase
      /\ more.loadID = rm.loadID
  <2> DEFINE drawn == rm.drawn + 1
  <2>1. drawn \in Nat /\ more = [rm EXCEPT !.drawn = drawn]
    BY <1>1
  <2> HIDE DEF drawn, more
  <2>2. QED
    BY <1>1, <2>1 DEF RoomState, drawn
<1> HIDE DEF more
<1>5. RulesGameNumber(more) = RulesGameNumber(rm) + 1
  BY <1>1, <1>4, GameNumbers
<1>6. Started(more) /\ (CanSideboard(rm) => CanSideboard(more))
  BY <1>2, <1>4 DEF CanSideboard, Started
<1>7. NoSeat \in SeatOrNone /\ NoSeat \notin Seat /\ (~done => ~EDH)
  BY EmptyTypes, SeatFacts, ModeFacts
<1>8. done => \A t \in Seat : IF t = NoSeat THEN more.score[t] = Needed ELSE more.score[t] < Needed
  BY <1>2, <1>4, <1>7
<1>9. done \in BOOLEAN
  OBVIOUS
<1> HIDE DEF done
<1>10. RoomOK(EndGame(more, NoSeat, NoSeat, done))
  BY <1>2, <1>4, <1>5, <1>6, <1>7, <1>8, <1>9, EndedOK
<1>11. /\ EndGame(more, NoSeat, NoSeat, done).phase = more.phase /\ EndGame(more, NoSeat, NoSeat, done).loadID = more.loadID
       /\ EndGame(more, NoSeat, NoSeat, done).game.number = more.game.number
  BY <1>4, <1>7, <1>9, EndGameKeeps
<1>12. NoGame.number = 0
  BY DEF NoGame
<1>13. QED
  BY <1>2, <1>3, <1>4, <1>10, <1>11, <1>12

\* The shell of a Forge result: a game that counts, without any state.
LEMMA ShellOfResult ==
  ASSUME NEW rm, rm \in RoomState
  PROVE  /\ RulesShell(rm) \in Games
         /\ RulesShell(rm).number = RulesGameNumber(rm) /\ RulesShell(rm).number # 0
<1>1. RulesGameNumber(rm) \in Nat /\ RulesGameNumber(rm) # 0
  BY GameNumbers
<1>2. <<>> \in TurnOrders
  BY EmptyTypes, GameParts DEF NoGame
<1>3. Seat \ Taken(rm) \in SUBSET Seat
  OBVIOUS
<1>4. QED
  BY <1>1, <1>2, <1>3, EmptyTypes, GameMade DEF RulesShell

\* The engine's game is over: a result for the match.
LEMMA RulesResultOK ==
  ASSUME ModeOK, NEW rm, RoomOK(rm), Forge, Started(rm), rm.game = NoGame, sides \in Nat,
         mode.match = "bo3" => CanSideboard(rm),
         NEW winner \in Taken(rm) \cup {NoSeat}, NEW conceded \in BOOLEAN,
         NEW next, next = CompleteRulesGame(rm, winner, conceded)
  PROVE  /\ RoomOK(next) /\ next.phase = "started" /\ next.loadID = rm.loadID /\ next.game # NoGame
<1> DEFINE scored == IF winner # NoSeat THEN [rm EXCEPT !.score[winner] = @ + 1]
                     ELSE [rm EXCEPT !.drawn = IF conceded THEN @ ELSE @ + 1]
           done == mode.match # "bo3" \/ (winner # NoSeat /\ scored.score[winner] >= 2)
           shell == [scored EXCEPT !.game = RulesShell(rm)]
           loser == IF winner = NoSeat THEN NoSeat ELSE 1 - winner
<1>1. /\ rm \in RoomState /\ rm.score \in [Seat -> Nat] /\ rm.drawn \in Nat
      /\ rm.phase = "started" /\ Needed \in {1, 2} /\ Needed \in Nat
  BY RoomFields, ModeFacts DEF RoomOK, Started
<1>2. ~Decided(rm)
  BY DEF Decided, Playing
<1>3. \A s \in Seat : rm.score[s] < Needed
  BY <1>2 DEF RoomOK, Accounts
<1>4. ~EDH => \A s \in Seats : rm.occ[s] # "free" /\ rm.deck[s] # NoDeck
  BY <1>2 DEF RoomOK, FullTable
<1>5. winner \in SeatOrNone /\ (winner # NoSeat => winner \in Seat) /\ NoSeat \notin Seat
  BY SeatFacts DEF Taken, SeatOrNone
<1>6. next = EndGame(shell, winner, loser, done)
  BY DEF CompleteRulesGame
<1>7. /\ scored \in RoomState /\ scored.game = rm.game /\ scored.deck = rm.deck /\ scored.occ = rm.occ
      /\ scored.phase = rm.phase /\ scored.loadID = rm.loadID
      /\ winner # NoSeat => /\ scored.score = [rm.score EXCEPT ![winner] = rm.score[winner] + 1]
                            /\ scored.drawn = rm.drawn
      /\ winner = NoSeat => /\ scored.score = rm.score
                            /\ scored.drawn = IF conceded THEN rm.drawn ELSE rm.drawn + 1
  <2>1. CASE winner # NoSeat
    <3> DEFINE score == [rm.score EXCEPT ![winner] = rm.score[winner] + 1]
    <3>1. score \in [Seat -> Nat] /\ scored = [rm EXCEPT !.score = score]
      BY <1>1, <1>5, <2>1
    <3> HIDE DEF score, scored
    <3>2. /\ scored \in RoomState /\ scored.game = rm.game /\ scored.deck = rm.deck /\ scored.occ = rm.occ
          /\ scored.phase = rm.phase /\ scored.loadID = rm.loadID
          /\ scored.score = score /\ scored.drawn = rm.drawn
      BY <1>1, <3>1 DEF RoomState
    <3>3. QED
      BY <2>1, <3>2 DEF score
  <2>2. CASE winner = NoSeat
    <3> DEFINE drawn == IF conceded THEN rm.drawn ELSE rm.drawn + 1
    <3>1. drawn \in Nat /\ scored = [rm EXCEPT !.drawn = drawn]
      BY <1>1, <2>2
    <3> HIDE DEF drawn, scored
    <3>2. /\ scored \in RoomState /\ scored.game = rm.game /\ scored.deck = rm.deck /\ scored.occ = rm.occ
          /\ scored.phase = rm.phase /\ scored.loadID = rm.loadID
          /\ scored.score = rm.score /\ scored.drawn = drawn
      BY <1>1, <3>1 DEF RoomState
    <3>3. QED
      BY <2>2, <3>2 DEF drawn
  <2>3. QED
    BY <2>1, <2>2
<1> HIDE DEF scored
<1>8. scored.score \in [Seat -> Nat]
  BY <1>7 DEF RoomState
<1>9. RulesShell(rm) \in Games /\ RulesShell(rm).number = RulesGameNumber(rm) /\ RulesShell(rm).number # 0
  BY <1>1, ShellOfResult
<1>10. /\ shell \in RoomState /\ shell.game = RulesShell(rm) /\ shell.deck = rm.deck /\ shell.occ = rm.occ
       /\ shell.phase = rm.phase /\ shell.loadID = rm.loadID /\ shell.score = scored.score
       /\ shell.drawn = scored.drawn
  BY <1>7, <1>9 DEF RoomState
<1> HIDE DEF shell
<1>11. Started(shell) /\ shell.game.number # 0 /\ shell.game.number = RulesGameNumber(rm)
  BY <1>1, <1>9, <1>10 DEF Started
<1>12. CanSideboard(rm) => CanSideboard(shell)
  BY <1>10 DEF CanSideboard
<1>13. done \in BOOLEAN /\ (~done => mode.match = "bo3") /\ (~done => ~EDH) /\ (mode.match = "bo3" => Needed = 2)
       /\ (mode.match # "bo3" => Needed = 1)
  BY ModeFacts
<1>14. ~done => loser \in SeatOrNone
  <2>1. ASSUME ~EDH PROVE loser \in SeatOrNone
    <3>1. winner \in {0, 1, NoSeat}
      BY <2>1, SeatFacts DEF Taken
    <3>2. QED
      BY <3>1, SeatFacts DEF SeatOrNone, NoSeat
  <2> HIDE DEF loser
  <2>2. QED
    BY <1>13, <2>1
<1>15. winner # NoSeat => scored.score[winner] = rm.score[winner] + 1
  BY <1>1, <1>5, <1>7
<1>16. \A s \in Seat : s # winner => scored.score[s] = rm.score[s]
  BY <1>1, <1>5, <1>7
<1>17. done => \A s \in Seat : IF s = winner THEN shell.score[s] = Needed ELSE shell.score[s] < Needed
  BY <1>1, <1>3, <1>5, <1>8, <1>10, <1>13, <1>15, <1>16
<1>18. ~done => \A s \in Seat : shell.score[s] < Needed
  BY <1>1, <1>3, <1>5, <1>8, <1>10, <1>13, <1>15, <1>16
<1>19. RulesGameNumber(shell) = RulesGameNumber(scored)
  BY <1>7, <1>10, GameNumbers
<1>20. \/ shell.game.number + 1 = RulesGameNumber(shell)
       \/ Forge /\ winner = NoSeat /\ shell.game.number = RulesGameNumber(shell)
  <2>1. CASE winner # NoSeat
    <3>1. RulesGameNumber(scored) = RulesGameNumber(rm) + 1
      BY <1>1, <1>5, <1>7, <2>1, GameNumbers
    <3>2. QED
      BY <1>11, <1>19, <3>1
  <2>2. CASE winner = NoSeat /\ conceded
    <3>1. RulesGameNumber(scored) = RulesGameNumber(rm)
      BY <1>1, <1>7, <2>2, GameNumbers
    <3>2. QED
      BY <1>11, <1>19, <2>2, <3>1
  <2>3. CASE winner = NoSeat /\ ~conceded
    <3>1. RulesGameNumber(scored) = RulesGameNumber(rm) + 1
      BY <1>1, <1>7, <2>3, GameNumbers
    <3>2. QED
      BY <1>11, <1>19, <3>1
  <2>4. QED
    BY <2>1, <2>2, <2>3
<1> HIDE DEF done, loser
<1>21. ~done => \A s \in Seats : shell.occ[s] # "free"
  BY <1>4, <1>10, <1>13
<1>22. RoomOK(EndGame(shell, winner, loser, done))
  BY <1>5, <1>10, <1>11, <1>12, <1>13, <1>14, <1>17, <1>18, <1>20, <1>21, EndedOK
<1>23. /\ EndGame(shell, winner, loser, done).phase = shell.phase /\ EndGame(shell, winner, loser, done).loadID = shell.loadID
       /\ EndGame(shell, winner, loser, done).game.number = shell.game.number
  BY <1>5, <1>10, <1>13, <1>14, EndGameKeeps
<1>24. NoGame.number = 0
  BY DEF NoGame
<1>25. QED
  BY <1>1, <1>6, <1>10, <1>11, <1>22, <1>23, <1>24

\* A player's clock ran out while the engine plays: the match is decided.
LEMMA ActionClockOK ==
  ASSUME ModeOK, NEW rm, RoomOK(rm), Forge, Started(rm), rm.game = NoGame, ~EDH, sides \in Nat,
         NEW s \in Seats, NEW next, next = ForfeitActionClock(rm, s)
  PROVE  /\ RoomOK(next) /\ next.phase = "started" /\ next.loadID = rm.loadID /\ next.game # NoGame
         /\ ~Sideboarding(next)
<1> DEFINE score == [t \in Seat |->
                IF t = 1 - s /\ rm.score[t] < Needed THEN Needed
                ELSE IF t = s /\ rm.score[t] >= Needed THEN Needed - 1 ELSE rm.score[t]]
           shell == [[rm EXCEPT !.score = score] EXCEPT !.game = RulesShell(rm)]
           winner == 1 - s
           done == TRUE
<1>1. /\ rm \in RoomState /\ rm.score \in [Seat -> Nat] /\ s \in Seat
      /\ rm.phase = "started" /\ Needed \in Nat
  BY RoomFields, ModeFacts, SeatFacts DEF RoomOK, Started
<1>2. \A t \in Seat : rm.score[t] < Needed
  <2>1. ~Decided(rm)
    BY DEF Decided, Playing
  <2>2. QED
    BY <2>1 DEF RoomOK, Accounts
<1>3. s \in {0, 1} /\ 1 - s \in Seat /\ 1 - s # s
  BY SeatFacts
<1>4. next = EndGame(shell, winner, s, done)
  BY DEF ForfeitActionClock
<1>5. score \in [Seat -> Nat] /\ \A t \in Seat : IF t = 1 - s THEN score[t] = Needed ELSE score[t] < Needed
  <2>1. \A t \in Seat : score[t] = IF t = 1 - s THEN Needed ELSE rm.score[t]
    BY <1>1, <1>2, <1>3
  <2>2. score \in [Seat -> Nat]
    BY <1>1, <2>1
  <2> HIDE DEF score
  <2>3. QED
    BY <1>2, <2>1, <2>2
<1> HIDE DEF score
<1>6. RulesShell(rm) \in Games /\ RulesShell(rm).number # 0
  BY <1>1, ShellOfResult
<1>7. /\ shell \in RoomState /\ shell.game = RulesShell(rm) /\ shell.phase = rm.phase
      /\ shell.loadID = rm.loadID /\ shell.score = score
  BY <1>1, <1>5, <1>6 DEF RoomState
<1> HIDE DEF shell
<1>8. winner \in SeatOrNone /\ s \in SeatOrNone /\ done \in BOOLEAN /\ done /\ winner = 1 - s
  BY <1>1, <1>3 DEF SeatOrNone
<1> HIDE DEF winner, done
<1>9. Started(shell) /\ shell.game.number # 0
  BY <1>1, <1>6, <1>7 DEF Started
<1>10. RoomOK(EndGame(shell, winner, s, done))
  BY <1>5, <1>7, <1>8, <1>9, EndedOK
<1>11. /\ EndGame(shell, winner, s, done).phase = shell.phase
       /\ EndGame(shell, winner, s, done).loadID = shell.loadID
       /\ EndGame(shell, winner, s, done).game.number = shell.game.number
       /\ done => EndGame(shell, winner, s, done).game.side = NoSide
  <2>1. /\ shell \in RoomState /\ winner \in SeatOrNone /\ done \in BOOLEAN
        /\ ~done => s \in SeatOrNone
    BY <1>7, <1>8
  <2>2. QED
    BY <2>1, EndGameKeeps
<1>12. next.game.side = NoSide
  BY <1>4, <1>8, <1>11
<1>13. NoGame.number = 0
  BY DEF NoGame
<1>14. QED
  BY <1>1, <1>4, <1>6, <1>7, <1>10, <1>11, <1>12, <1>13 DEF Sideboarding

\* The next load of a Forge match that goes on.
LEMMA PrepareNextOK ==
  ASSUME ModeOK, NEW rm, RoomOK(rm), Forge, Started(rm), ~Decided(rm), NEW starter \in SeatOrNone,
         NEW next, next = PrepareNextRulesGame(rm, starter)
  PROVE  /\ RoomOK(next) /\ next.phase = "started" /\ next.loadID = rm.loadID + 1 /\ next.game = NoGame
         /\ next.occ = rm.occ /\ next.deck = rm.deck
<1>1. rm \in RoomState /\ rm.loadID \in Nat /\ NoGame \in Games
  BY RoomFields, EmptyTypes DEF RoomOK
<1> DEFINE id == rm.loadID + 1
<1>2. id \in Nat /\ next = [rm EXCEPT !.game = NoGame, !.loadID = id, !.start = starter]
  BY <1>1 DEF PrepareNextRulesGame
<1> HIDE DEF id
<1>3. /\ next \in RoomState /\ next.phase = rm.phase /\ next.loadID = id /\ next.game = NoGame
      /\ next.occ = rm.occ /\ next.deck = rm.deck /\ next.score = rm.score
  BY <1>1, <1>2 DEF RoomState
<1>4. \A s \in Seat : rm.score[s] < Needed
  BY DEF RoomOK, Accounts
<1>5. ~EDH => \A s \in Seats : rm.occ[s] # "free" /\ rm.deck[s] # NoDeck
  BY DEF RoomOK, FullTable
<1>6. RoomOK(next)
  BY <1>3, <1>4, <1>5, RunningOK DEF Started
<1>7. QED
  BY <1>3, <1>6 DEF Started, id

\* A decided match is closed: decks as registered, nobody ready, no score.
Returned(rm) ==
  [rm EXCEPT !.phase = "waiting", !.game = NoGame, !.score = Fill(0), !.drawn = 0,
             !.start = IF Forge THEN NoSeat ELSE @, !.deck = rm.reg,
             !.ready = [t \in Seat |-> rm.occ[t] = "ai" /\ rm.deck[t] # NoDeck],
             !.loaded = Fill(FALSE)]

LEMMA ReturnedOK ==
  ASSUME ModeOK, NEW rm, RoomOK(rm), NEW next, next = Returned(rm)
  PROVE  RoomOK(next) /\ next.phase = "waiting" /\ next.loadID = rm.loadID /\ next.game = NoGame
<1> DEFINE start == IF Forge THEN NoSeat ELSE rm.start
           ready == [t \in Seat |-> rm.occ[t] = "ai" /\ rm.deck[t] # NoDeck]
           zero  == Fill(0)
           none  == Fill(FALSE)
<1>1. /\ rm \in RoomState /\ rm.start \in SeatOrNone /\ rm.reg \in [Seat -> Decks]
      /\ rm.occ \in [Seat -> {"free", "human", "ai"}] /\ rm.host \in SeatOrNone /\ rm.loadID \in Nat
  BY RoomFields DEF RoomOK
<1>2. start \in SeatOrNone /\ ready \in [Seat -> BOOLEAN]
  BY <1>1, EmptyTypes
<1>3. zero \in [Seat -> Nat] /\ none \in [Seat -> BOOLEAN] /\ NoGame \in Games
  BY EmptyTypes
<1>4. \A s \in Seat : zero[s] = 0
  BY DEF Fill
<1>5. next = [rm EXCEPT !.phase = "waiting", !.game = NoGame, !.score = zero, !.drawn = 0,
                        !.start = start, !.deck = rm.reg, !.ready = ready, !.loaded = none]
  BY <1>1 DEF Returned
<1> HIDE DEF start, ready, zero, none
<1>6. next = [phase |-> "waiting", occ |-> rm.occ, host |-> rm.host, reg |-> rm.reg, deck |-> rm.reg,
              ready |-> ready, loaded |-> none, loadID |-> rm.loadID, score |-> zero,
              drawn |-> 0, start |-> start, game |-> NoGame]
  BY <1>1, <1>5 DEF RoomState
<1>7. next \in RoomState
  <2>1. PICK occ, host, reg, loadID :
          occ = rm.occ /\ host = rm.host /\ reg = rm.reg /\ loadID = rm.loadID
    OBVIOUS
  <2>2. /\ occ \in [Seat -> {"free", "human", "ai"}] /\ host \in SeatOrNone /\ loadID \in Nat
        /\ reg \in [Seat -> Decks]
    BY <1>1, <2>1
  <2>3. "waiting" \in {"waiting", "loading", "started", "closed"} /\ 0 \in Nat
    OBVIOUS
  <2>4. [phase |-> "waiting", occ |-> occ, host |-> host, reg |-> reg, deck |-> reg,
         ready |-> ready, loaded |-> none, loadID |-> loadID, score |-> zero,
         drawn |-> 0, start |-> start, game |-> NoGame] \in RoomState
    BY <1>2, <1>3, <2>2, <2>3 DEF RoomState
  <2>5. QED
    BY <1>6, <2>1, <2>4
<1>8. /\ next.phase = "waiting" /\ next.game = NoGame /\ next.loadID = rm.loadID
      /\ next.score = zero /\ next.drawn = 0
  BY <1>6
<1>9. RoomOK(next)
  BY <1>4, <1>7, <1>8, IdleOK DEF Started
<1>10. QED
  BY <1>8, <1>9

LEMMA ClosedRoomOK ==
  ASSUME ModeOK
  PROVE  RoomOK(ClosedRoom) /\ ClosedRoom.phase = "closed" /\ ClosedRoom.game = NoGame
<1>1. /\ NoSeat \in SeatOrNone /\ NoGame \in Games
      /\ Fill("free") \in [Seat -> {"free", "human", "ai"}] /\ Fill(NoDeck) \in [Seat -> Decks]
      /\ Fill(FALSE) \in [Seat -> BOOLEAN] /\ Fill(0) \in [Seat -> Nat]
  BY EmptyTypes
<1>2. \A s \in Seat : Fill(0)[s] = 0
  BY DEF Fill
<1>3. ClosedRoom \in RoomState
  BY <1>1 DEF ClosedRoom, RoomState
<1>4. /\ ClosedRoom.phase = "closed" /\ ClosedRoom.game = NoGame /\ ClosedRoom.drawn = 0
      /\ ClosedRoom.score = Fill(0)
  BY DEF ClosedRoom
<1>5. QED
  BY <1>2, <1>3, <1>4, IdleOK DEF Started

(***************************************************************************)
(* What relates the room to its clients, its engine and its timers         *)
(***************************************************************************)
\* The options stay, so what is true of the next room record is true next.
LEMMA NextRoomOK ==
  ASSUME UNCHANGED mode, NEW next, room' = next, RoomOK(next)
  PROVE  RoomOK(room)'
<1>1. Forge' = Forge /\ EDH' = EDH /\ Needed' = Needed /\ Seats' = Seats
  BY DEF Forge, EDH, Needed, Seats
<1>2. /\ Started(room)' = Started(next) /\ Playing(room)' = Playing(next) /\ Live(room)' = Live(next)
      /\ Decided(room)' = Decided(next) /\ Sideboarding(room)' = Sideboarding(next)
  BY DEF Started, Playing, Live, Decided, Sideboarding
<1>3. Taken(room)' = Taken(next)
  BY <1>1 DEF Taken
<1>4. RulesGameNumber(room)' = RulesGameNumber(next)
  BY DEF RulesGameNumber, Wins
<1>5. GameShape(room)'
  BY <1>1, <1>2 DEF RoomOK, GameShape
<1>6. TurnKept(room)'
  BY <1>1, <1>2, <1>3 DEF RoomOK, TurnKept
<1>7. FullTable(room)'
  BY <1>1, <1>2 DEF RoomOK, FullTable
<1>8. Accounts(room)'
  BY <1>1, <1>2, <1>4 DEF RoomOK, Accounts
<1>9. (room \in RoomState)'
  BY DEF RoomOK
<1>10. QED
  BY <1>5, <1>6, <1>7, <1>8, <1>9 DEF RoomOK

LEMMA NextModeOK ==
  ASSUME ModeOK, UNCHANGED mode
  PROVE  ModeOK'
BY DEF ModeOK

\* A room that does not load, with a load generation no lower than before.
LEMMA SettledLoads ==
  ASSUME IInv, UNCHANGED fetched, watch' \subseteq watch, room'.phase # "loading",
         room'.phase = "closed" \/ (room.phase # "closed" /\ room'.loadID \in Nat /\ room'.loadID >= room.loadID)
  PROVE  LoadingIsGated' /\ LoadsInOrder'
<1>1. LoadingIsGated'
  BY DEF LoadingIsGated
<1>2. CASE room'.phase = "closed"
  BY <1>1, <1>2 DEF LoadsInOrder
<1>3. CASE room'.phase # "closed"
  <2>1. /\ \A s \in Seat : fetched[s] <= room.loadID
        /\ \A g \in watch : g <= room.loadID
    BY <1>3 DEF IInv, LoadsInOrder
  <2>2. fetched \in [Seat -> Nat] /\ watch \subseteq Nat /\ room.loadID \in Nat
    BY RoomFields DEF IInv, OtherTypes
  <2>3. \A s \in Seat : fetched'[s] <= room'.loadID
    BY <1>3, <2>1, <2>2
  <2>4. \A g \in watch' : g <= room'.loadID
    BY <1>3, <2>1, <2>2
  <2>5. QED
    BY <1>1, <2>3, <2>4 DEF LoadsInOrder
<1>4. QED
  BY <1>2, <1>3

\* A room that waits for the engine: the match has started without a game.
Running(rm) == Forge /\ Started(rm) /\ rm.game = NoGame

LEMMA EngineKept ==
  ASSUME IInv, UNCHANGED <<mode, engine, alive, watch>>, NEW next, room' = next,
         Running(next) <=> Running(room), Running(room) => next.loadID = room.loadID
  PROVE  EngineMatchesMatch' /\ WatchersSawAnExit'
<1>1. WatchersSawAnExit'
  BY DEF IInv, WatchersSawAnExit
<1>2. /\ engine # 0 => Running(room) /\ engine = room.loadID
      /\ Running(room) => engine # 0 /\ (alive \/ engine \in watch)
  BY DEF IInv, EngineMatchesMatch, Running
<1>3. Running(room)' = Running(next)
  BY DEF Running, Forge, Started
<1>4. /\ engine' # 0 => Running(room)' /\ engine' = room'.loadID
      /\ Running(room)' => engine' # 0 /\ (alive' \/ engine' \in watch')
  BY <1>2, <1>3
<1>5. QED
  BY <1>1, <1>4 DEF EngineMatchesMatch, Running

LEMMA EngineGone ==
  ASSUME IInv, UNCHANGED mode, engine' = 0, watch' \subseteq watch, NEW next, room' = next, ~Running(next)
  PROVE  EngineMatchesMatch' /\ WatchersSawAnExit'
<1>1. 0 \notin watch'
  BY DEF IInv, WatchersSawAnExit
<1>2. Running(room)' = Running(next)
  BY DEF Running, Forge, Started
<1>3. QED
  BY <1>1, <1>2 DEF EngineMatchesMatch, WatchersSawAnExit, Running

LEMMA EngineLaunched ==
  ASSUME IInv, UNCHANGED <<mode, watch>>, NEW next, room' = next, Running(next),
         engine' = next.loadID, alive' = TRUE, next.loadID # 0, next.loadID \notin watch
  PROVE  EngineMatchesMatch' /\ WatchersSawAnExit'
<1>1. 0 \notin watch'
  BY DEF IInv, WatchersSawAnExit
<1>2. Running(room)' = Running(next)
  BY DEF Running, Forge, Started
<1>3. QED
  BY <1>1, <1>2 DEF EngineMatchesMatch, WatchersSawAnExit, Running

\* A load generation that is still to come is unknown to the watchers.
LEMMA FreshLoad ==
  ASSUME IInv, room.phase # "closed"
  PROVE  room.loadID + 1 # 0 /\ room.loadID + 1 \notin watch
<1>1. room.loadID \in Nat /\ watch \subseteq Nat /\ \A g \in watch : g <= room.loadID
  BY RoomFields DEF IInv, OtherTypes, LoadsInOrder
<1>2. QED
  BY <1>1

LEMMA TimerKept ==
  ASSUME IInv, UNCHANGED timerVars, NEW next, room' = next,
         Sideboarding(next) => Sideboarding(room) /\ next.game.side.id = room.game.side.id
  PROVE  TimerInOrder'
<1>1. Sideboarding(room)' = Sideboarding(next)
  BY DEF Sideboarding, Playing, Started
<1>2. QED
  BY <1>1 DEF IInv, TimerInOrder, timerVars

LEMMA TimerCancelled ==
  ASSUME IInv, CancelTimer
  PROVE  /\ TimerInOrder'
         /\ sides' \in Nat /\ lapsed' \in Nat /\ sideTimer' \in Nat
         /\ armed' \in SUBSET Nat /\ fired' \in SUBSET Nat
BY DEF IInv, TimerInOrder, CancelTimer, OtherTypes

LEMMA TimerScheduled ==
  ASSUME IInv, NEW next, RoomOK(next), room' = next, Schedule(next)
  PROVE  /\ Sideboarding(next) \/ UNCHANGED timerVars
         /\ TimerInOrder'
         /\ sides' \in Nat /\ lapsed' \in Nat /\ sideTimer' \in Nat
         /\ armed' \in SUBSET Nat /\ fired' \in SUBSET Nat
<1>1. Sideboarding(room)' = Sideboarding(next)
  BY DEF Sideboarding, Playing, Started
<1>2. CASE Sideboarding(next)
  <2>1. /\ sides' = next.game.side.id /\ sideTimer' = next.game.side.id
        /\ armed' = (armed \ {sideTimer}) \cup {next.game.side.id} /\ UNCHANGED <<lapsed, fired>>
    BY <1>2 DEF Schedule
  <2>2. next.game.side.id \in Nat /\ next.game.side.id # 0
    BY <1>2, LiveOrDecided, RoomFields, GameParts
  <2>3. QED
    BY <1>2, <2>1, <2>2 DEF IInv, TimerInOrder, OtherTypes
<1>3. CASE ~Sideboarding(next)
  BY <1>1, <1>3 DEF Schedule, IInv, TimerInOrder, OtherTypes, timerVars
<1>4. QED
  BY <1>2, <1>3

\* The announcement of a loading room.
LEMMA AnnouncedType ==
  ASSUME NEW next, next \in RoomState, Announce(next)
  PROVE  announced' \in [Seat -> Decks]
BY EmptyTypes DEF Announce, RoomState

(***************************************************************************)
(* The waiting room                                                        *)
(***************************************************************************)
\* What a step leaves to show.
LEMMA StepTogether ==
  ASSUME IInv, UNCHANGED mode, NEW next, room' = next, RoomOK(next), OtherTypes',
         LoadingIsGated', LoadsInOrder', EngineMatchesMatch', WatchersSawAnExit', TimerInOrder'
  PROVE  IInv'
BY NextModeOK, NextRoomOK DEF IInv

LEMMA JoinStep ==
  ASSUME IInv, NEW s \in Seats, Join(s)
  PROVE  IInv'
<1> DEFINE host == IF room.host = NoSeat THEN s ELSE room.host
           next == [room EXCEPT !.occ[s] = "human", !.host = host]
<1>1. ModeOK /\ RoomOK(room) /\ room \in RoomState /\ OtherTypes /\ s \in Seat
  BY SeatFacts DEF IInv, RoomOK
<1>2. /\ room.phase = "waiting" /\ room' = next /\ fetched' = [fetched EXCEPT ![s] = 0]
      /\ UNCHANGED <<mode, announced, engine, alive, watch, sides, lapsed, sideTimer, armed, fired>>
  BY DEF Join, engineVars, timerVars
<1>3. host \in SeatOrNone /\ [room.occ EXCEPT ![s] = "human"] \in [Seat -> {"free", "human", "ai"}]
  BY <1>1, RoomFields DEF SeatOrNone
<1>4. /\ next \in RoomState /\ next.phase = "waiting" /\ next.game = room.game /\ next.loadID = room.loadID
      /\ next.score = room.score /\ next.drawn = room.drawn
  <2> DEFINE occ == [room.occ EXCEPT ![s] = "human"]
  <2>1. next = [room EXCEPT !.occ = occ, !.host = host]
    OBVIOUS
  <2> HIDE DEF next, occ, host
  <2>2. occ \in [Seat -> {"free", "human", "ai"}]
    BY <1>3 DEF occ
  <2>3. QED
    BY <1>1, <1>2, <1>3, <2>1, <2>2 DEF RoomState
<1> HIDE DEF next
<1>5. room.game = NoGame /\ ~Started(room) /\ (~Forge => room.drawn = 0 /\ \A t \in Seat : room.score[t] = 0)
  BY <1>1, <1>2 DEF RoomOK, GameShape, Accounts, Started
<1>6. RoomOK(next)
  BY <1>1, <1>4, <1>5, IdleOK DEF Started
<1>7. ~Running(next) /\ ~Running(room) /\ ~Sideboarding(next)
  BY <1>4, <1>5 DEF Running, Sideboarding, Playing, Started
<1>8. EngineMatchesMatch' /\ WatchersSawAnExit'
  <2>1. UNCHANGED <<mode, engine, alive, watch>> /\ (Running(next) <=> Running(room))
    BY <1>2, <1>7
  <2>2. QED
    BY <1>2, <1>7, <2>1, EngineKept
<1>9. TimerInOrder'
  BY <1>2, <1>7, TimerKept DEF timerVars
<1>10. OtherTypes'
  BY <1>1, <1>2 DEF OtherTypes
<1>11. LoadingIsGated' /\ LoadsInOrder'
  <2>1. /\ \A t \in Seat : fetched[t] <= room.loadID
        /\ \A g \in watch : g <= room.loadID
        /\ room.loadID \in Nat /\ fetched \in [Seat -> Nat]
    BY <1>1, <1>2, RoomFields DEF IInv, LoadsInOrder, OtherTypes
  <2>2. room'.phase = "waiting" /\ room'.loadID = room.loadID
    BY <1>2, <1>4
  <2>3. \A t \in Seat : fetched'[t] <= room.loadID
    BY <1>1, <1>2, <2>1
  <2>4. QED
    BY <1>2, <2>1, <2>2, <2>3 DEF LoadingIsGated, LoadsInOrder
<1>12. QED
  BY <1>2, <1>6, <1>8, <1>9, <1>10, <1>11, StepTogether

\* A step of a room that stays in its phase, with the engine and the timers as
\* they are, and does not load.
LEMMA QuietStep ==
  ASSUME IInv, NEW next, RoomOK(next), room' = next,
         UNCHANGED <<mode, fetched, engineVars, timerVars>>, announced' \in [Seat -> Decks],
         next.phase # "loading",
         next.phase = "closed" \/ (room.phase # "closed" /\ next.loadID >= room.loadID),
         Running(next) <=> Running(room), Running(room) => next.loadID = room.loadID,
         Sideboarding(next) => Sideboarding(room) /\ next.game.side.id = room.game.side.id
  PROVE  IInv'
<1>1. LoadingIsGated' /\ LoadsInOrder'
  <2>1. next.loadID \in Nat
    BY RoomFields
  <2>2. QED
    BY <2>1, SettledLoads DEF engineVars
<1>2. EngineMatchesMatch' /\ WatchersSawAnExit'
  BY EngineKept DEF engineVars
<1>3. TimerInOrder'
  BY TimerKept
<1>4. OtherTypes'
  BY DEF IInv, OtherTypes, engineVars, timerVars
<1>5. QED
  BY <1>1, <1>2, <1>3, <1>4, StepTogether

LEMMA SelectDeckStep ==
  ASSUME IInv, NEW s \in Seats, NEW list \in Lists, SelectDeck(s, list)
  PROVE  IInv'
<1> DEFINE picked == [list |-> list, split |-> 0]
           chosen == [room EXCEPT !.reg[s] = picked, !.deck[s] = picked, !.ready[s] = FALSE]
           next == Cancel(chosen)
<1>1. ModeOK /\ RoomOK(room) /\ room \in RoomState /\ s \in Seat
  BY SeatFacts DEF IInv, RoomOK
<1>2. /\ room.phase \in {"waiting", "loading"} /\ room' = next /\ Announce(next)
      /\ UNCHANGED <<mode, fetched, engineVars, timerVars>>
  BY DEF SelectDeck
<1>3. picked \in Decks /\ picked # NoDeck
  BY ListsAssumption DEF Decks, NoDeck
<1>4. /\ chosen \in RoomState /\ chosen.phase = room.phase /\ chosen.game = room.game
      /\ chosen.loadID = room.loadID /\ chosen.score = room.score /\ chosen.drawn = room.drawn
      /\ chosen.occ = room.occ
  <2> DEFINE reg == [room.reg EXCEPT ![s] = picked]
             deck == [room.deck EXCEPT ![s] = picked]
             ready == [room.ready EXCEPT ![s] = FALSE]
  <2> HIDE DEF picked
  <2>1. reg \in [Seat -> Decks] /\ deck \in [Seat -> Decks] /\ ready \in [Seat -> BOOLEAN]
    BY <1>1, <1>3, RoomFields
  <2>2. chosen = [room EXCEPT !.reg = reg, !.deck = deck, !.ready = ready]
    OBVIOUS
  <2> HIDE DEF chosen, reg, deck, ready
  <2>3. QED
    BY <1>1, <2>1, <2>2 DEF RoomState
<1> HIDE DEF chosen
<1>5. /\ room.game = NoGame /\ ~Started(room)
      /\ room.phase = "loading" \/ ~Forge => room.drawn = 0 /\ \A t \in Seat : room.score[t] = 0
  BY <1>1, <1>2 DEF RoomOK, GameShape, Accounts, Started
<1>6. RoomOK(chosen)
  BY <1>1, <1>4, <1>5, IdleOK DEF Started
<1>7. /\ RoomOK(next) /\ next.phase # "loading"
      /\ next.phase = (IF chosen.phase = "loading" THEN "waiting" ELSE chosen.phase)
      /\ next.game = chosen.game /\ next.loadID = chosen.loadID
  BY <1>1, <1>6, CancelOK
<1> HIDE DEF next
<1>8. ~Running(next) /\ ~Running(room) /\ ~Sideboarding(next) /\ next.phase = "waiting"
  BY <1>2, <1>4, <1>5, <1>7 DEF Running, Sideboarding, Playing, Started
<1>9. announced' \in [Seat -> Decks]
  BY <1>2, <1>7, AnnouncedType DEF RoomOK
<1>10. next.loadID >= room.loadID
  BY <1>1, <1>4, <1>7, RoomFields
<1>11. (Running(next) <=> Running(room)) /\ room.phase # "closed"
  BY <1>2, <1>8
<1>12. QED
  BY <1>2, <1>7, <1>8, <1>9, <1>10, <1>11, QuietStep

LEMMA ConfigureAIStep ==
  ASSUME IInv, NEW s \in Seats, NEW list \in Lists \cup {NoList}, ConfigureAI(s, list)
  PROVE  IInv'
<1> DEFINE picked == IF list = NoList THEN room.deck[1] ELSE [list |-> list, split |-> 0]
           reg == [room.reg EXCEPT ![1] = picked]
           deck == [room.deck EXCEPT ![1] = picked]
           ready == [t \in Seat |-> t = 1 /\ picked # NoDeck]
           next == [room EXCEPT !.reg[1] = picked, !.deck[1] = picked, !.loaded = Fill(FALSE), !.ready = ready]
<1>1. ModeOK /\ RoomOK(room) /\ room \in RoomState /\ 1 \in Seat
  BY SeatFacts DEF IInv, RoomOK
<1>2. /\ room.phase = "waiting" /\ room' = next
      /\ UNCHANGED <<mode, announced, fetched, engineVars, timerVars>>
  BY DEF ConfigureAI, clientVars
<1>3. picked \in Decks
  <2>1. CASE list = NoList
    BY <1>1, <2>1, RoomFields
  <2>2. CASE list # NoList
    BY <2>2 DEF Decks
  <2>3. QED
    BY <2>1, <2>2
<1> HIDE DEF picked
<1>4. reg \in [Seat -> Decks] /\ deck \in [Seat -> Decks] /\ ready \in [Seat -> BOOLEAN]
      /\ Fill(FALSE) \in [Seat -> BOOLEAN]
  BY <1>1, <1>3, RoomFields, EmptyTypes
<1>5. next = [room EXCEPT !.reg = reg, !.deck = deck, !.loaded = Fill(FALSE), !.ready = ready]
  OBVIOUS
<1> HIDE DEF next, reg, deck, ready
<1>6. /\ next \in RoomState /\ next.phase = room.phase /\ next.game = room.game
      /\ next.loadID = room.loadID /\ next.score = room.score /\ next.drawn = room.drawn
  BY <1>1, <1>4, <1>5 DEF RoomState
<1>7. /\ room.game = NoGame /\ ~Started(room)
      /\ ~Forge => room.drawn = 0 /\ \A t \in Seat : room.score[t] = 0
  BY <1>1, <1>2 DEF RoomOK, GameShape, Accounts, Started
<1>8. RoomOK(next)
  BY <1>1, <1>2, <1>6, <1>7, IdleOK DEF Started
<1>9. ~Running(next) /\ ~Running(room) /\ ~Sideboarding(next)
  BY <1>2, <1>6, <1>7 DEF Running, Sideboarding, Playing, Started
<1>10. next.loadID >= room.loadID /\ next.phase # "loading" /\ room.phase # "closed"
       /\ announced' \in [Seat -> Decks] /\ (Running(next) <=> Running(room))
  BY <1>1, <1>2, <1>6, <1>9, RoomFields DEF IInv, OtherTypes
<1>11. QED
  BY <1>2, <1>8, <1>9, <1>10, QuietStep

\* A Forge match starts with its engine, or the room goes back to waiting.
LEMMA LaunchStep ==
  ASSUME IInv, UNCHANGED <<mode, fetched>>, NEW begun, RoomOK(begun), Running(begun),
         begun.loadID # 0, begun.loadID \notin watch, begun.loadID >= room.loadID, room.phase # "closed",
         \/ room' = begun /\ engine' = begun.loadID /\ alive' = TRUE /\ UNCHANGED watch
         \/ room' = Reset(begun) /\ engine' = 0 /\ UNCHANGED <<alive, watch>>,
         announced' \in [Seat -> Decks],
         TimerInOrder' \/ UNCHANGED timerVars,
         sides' \in Nat /\ lapsed' \in Nat /\ sideTimer' \in Nat,
         armed' \in SUBSET Nat /\ fired' \in SUBSET Nat
  PROVE  IInv' /\ (room'.phase = "started" => room' = begun) /\ room'.phase \in {"started", "waiting"}
<1>1. ModeOK /\ begun \in RoomState /\ Forge /\ begun.phase = "started" /\ begun.game = NoGame
      /\ begun.loadID \in Nat
  BY RoomFields DEF IInv, RoomOK, Running, Started
<1>2. CASE room' = begun /\ engine' = begun.loadID /\ alive' = TRUE /\ UNCHANGED watch
  <2>1. LoadingIsGated' /\ LoadsInOrder'
    BY <1>1, <1>2, SettledLoads
  <2>2. EngineMatchesMatch' /\ WatchersSawAnExit'
    BY <1>2, EngineLaunched
  <2>3. ~Sideboarding(begun)
    BY <1>1 DEF Sideboarding, Playing
  <2>4. TimerInOrder'
    BY <1>2, <2>3, TimerKept
  <2>5. OtherTypes'
    BY <1>1, <1>2 DEF OtherTypes, IInv
  <2>6. QED
    BY <1>1, <1>2, <2>1, <2>2, <2>4, <2>5, StepTogether
<1>3. CASE room' = Reset(begun) /\ engine' = 0 /\ UNCHANGED <<alive, watch>>
  <2> DEFINE next == Reset(begun)
  <2>1. /\ RoomOK(next) /\ next.phase = "waiting" /\ next.game = NoGame /\ next.loadID = begun.loadID
    BY <1>1, ResetOK
  <2>2. room' = next
    BY <1>3
  <2> HIDE DEF next
  <2>3. LoadingIsGated' /\ LoadsInOrder'
    BY <1>1, <1>3, <2>1, <2>2, SettledLoads
  <2>4. ~Running(next) /\ ~Sideboarding(next)
    BY <2>1 DEF Running, Started, Sideboarding, Playing
  <2>5. EngineMatchesMatch' /\ WatchersSawAnExit'
    BY <1>3, <2>2, <2>4, EngineGone
  <2>6. TimerInOrder'
    BY <2>2, <2>4, TimerKept
  <2>7. OtherTypes'
    BY <1>3 DEF OtherTypes, IInv
  <2>8. QED
    BY <2>1, <2>2, <2>3, <2>5, <2>6, <2>7, StepTogether
<1>4. QED
  BY <1>2, <1>3

\* The load begins, or the match at once when cards load in the background.
LEMMA BeginStep ==
  ASSUME IInv, UNCHANGED <<mode, fetched, timerVars>>, room.phase = "waiting",
         NEW rm, RoomOK(rm), rm.loadID = room.loadID, rm.occ = room.occ, GateOpen(rm), Begin(rm), Announce(room')
  PROVE  IInv' /\ (room'.phase = "started" => mode.load # "required")
<1> DEFINE loading == BeginLoading(rm)
           begun   == [loading EXCEPT !.phase = "started"]
<1>1. ModeOK /\ RoomOK(room) /\ room.loadID \in Nat /\ OtherTypes /\ room.game = NoGame /\ ~Started(room)
  BY RoomFields DEF IInv, RoomOK, GameShape, Started
<1>2. /\ rm.phase = "waiting" /\ Cardinality(Taken(rm)) >= MinPlayers
      /\ \A s \in Taken(rm) : rm.deck[s] # NoDeck /\ rm.ready[s]
  BY DEF GateOpen
<1>3. /\ RoomOK(loading) /\ loading.phase = "loading" /\ loading.game = NoGame
      /\ loading.loadID = room.loadID + 1
      /\ loading.loaded = Controlled(rm) /\ loading.occ = rm.occ /\ loading.deck = rm.deck
      /\ loading.ready = rm.ready
  BY <1>1, <1>2, BeginLoadingOK
<1>4. /\ IF mode.load = "required"
         THEN room' = loading /\ UNCHANGED engineVars
         ELSE IF Forge THEN Launch(begun, engine)
         ELSE \/ /\ \E g \in SetupGame(rm, 1, NoSeat) : room' = [begun EXCEPT !.game = g]
                 /\ UNCHANGED engineVars
              \/ "setup" \in Faults /\ UNCHANGED <<room, engineVars>>
  BY DEF Begin
<1> HIDE DEF loading
<1>5. Taken(loading) = Taken(rm)
  BY <1>3 DEF Taken
<1>6. /\ begun \in RoomState /\ begun.phase = "started" /\ begun.loadID = room.loadID + 1 /\ begun.game = NoGame
      /\ Forge => RoomOK(begun)
      /\ ~Forge => \A from : \A g \in SetupGame(from, 1, NoSeat) : from.occ = rm.occ =>
              RoomOK([begun EXCEPT !.game = g])
  <2>1. /\ Cardinality(Taken(loading)) >= MinPlayers /\ \A s \in Taken(loading) : loading.deck[s] # NoDeck
        /\ begun = [loading EXCEPT !.phase = "started"]
    BY <1>2, <1>3, <1>5
  <2> HIDE DEF begun
  <2>2. /\ begun \in RoomState /\ begun.phase = "started" /\ begun.loadID = loading.loadID /\ begun.game = NoGame
        /\ begun.occ = loading.occ
        /\ Forge => RoomOK(begun)
        /\ ~Forge => \A from : \A g \in SetupGame(from, 1, NoSeat) : from.occ = loading.occ =>
              RoomOK([begun EXCEPT !.game = g])
    BY <1>1, <1>3, <2>1, BegunOK
  <2>3. QED
    BY <1>3, <2>2
<1> HIDE DEF begun
<1>7. room.loadID + 1 # 0 /\ room.loadID + 1 \notin watch
  BY FreshLoad
<1>8. ~Running(room) /\ ~Sideboarding(room) /\ engine = 0
  BY <1>1 DEF Running, Started, Sideboarding, Playing, IInv, EngineMatchesMatch
<1>9. /\ sides' \in Nat /\ lapsed' \in Nat /\ sideTimer' \in Nat
      /\ armed' \in SUBSET Nat /\ fired' \in SUBSET Nat
  BY <1>1 DEF timerVars, OtherTypes
<1>10. CASE mode.load = "required"
  <2>1. room' = loading /\ UNCHANGED <<engine, alive, watch>>
    BY <1>4, <1>10 DEF engineVars
  <2>2. announced' = loading.deck
    BY <1>3, <2>1 DEF Announce
  <2>3. ~Running(loading) /\ ~Sideboarding(loading)
    BY <1>3 DEF Running, Started, Sideboarding, Playing
  <2>4. EngineMatchesMatch' /\ WatchersSawAnExit'
    BY <1>8, <2>1, <2>3, EngineKept
  <2>5. TimerInOrder'
    BY <2>1, <2>3, TimerKept
  <2>6. OtherTypes'
    <3>1. announced' \in [Seat -> Decks]
      BY <1>3, <2>2, RoomFields
    <3>2. QED
      BY <1>1, <1>9, <2>1, <3>1 DEF OtherTypes
  <2>7. LoadingIsGated'
    <3>1. Taken(room)' = Taken(loading) /\ MinPlayers' = MinPlayers
      BY <2>1 DEF Taken, Seats, EDH, MinPlayers
    <3>2. QED
      BY <1>2, <1>3, <1>5, <2>1, <2>2, <3>1 DEF LoadingIsGated
  <2>8. LoadsInOrder'
    <3>1. \A s \in Humans(room)' : ~loading.loaded[s]
      <4>1. \A s \in Humans(room)' : s \in Seat /\ loading.occ[s] = "human"
        BY <2>1, SeatFacts DEF Humans, Seats, EDH
      <4>2. QED
        BY <1>3, <4>1 DEF Controlled
    <3>2. (\A s \in Seat : fetched[s] <= room.loadID) /\ (\A g \in watch : g <= room.loadID)
      BY DEF IInv, LoadsInOrder
    <3>3. fetched \in [Seat -> Nat] /\ watch \subseteq Nat
      BY <1>1 DEF OtherTypes
    <3>4. (\A s \in Seat : fetched[s] <= room.loadID + 1) /\ (\A g \in watch : g <= room.loadID + 1)
      BY <1>1, <3>2, <3>3
    <3>5. QED
      BY <1>3, <1>7, <2>1, <3>1, <3>4 DEF LoadsInOrder
  <2>9. QED
    BY <1>3, <1>10, <2>1, <2>4, <2>5, <2>6, <2>7, <2>8, StepTogether
<1>11. CASE mode.load # "required" /\ Forge
  <2>1. \/ room' = begun /\ engine' = begun.loadID /\ alive' = TRUE /\ UNCHANGED watch
        \/ room' = Reset(begun) /\ engine' = 0 /\ UNCHANGED <<alive, watch>>
    BY <1>4, <1>8, <1>11 DEF Launch
  <2>2. Running(begun) /\ RoomOK(begun)
    BY <1>6, <1>11 DEF Running, Started
  <2>3. announced' \in [Seat -> Decks]
    <3>1. room' \in RoomState
      <4>1. Reset(begun) \in RoomState
        BY <1>1, <1>6, <1>11, ResetOK DEF RoomOK
      <4>2. QED
        BY <1>6, <2>1, <4>1
    <3>2. QED
      BY <3>1, AnnouncedType
  <2>4. begun.loadID >= room.loadID /\ begun.loadID # 0 /\ begun.loadID \notin watch
    BY <1>1, <1>6, <1>7
  <2>5. IInv'
    BY <1>9, <2>1, <2>2, <2>3, <2>4, LaunchStep
  <2>6. QED
    BY <1>11, <2>5
<1>12. CASE mode.load # "required" /\ ~Forge
  <2>1. CASE \E g \in SetupGame(rm, 1, NoSeat) : room' = [begun EXCEPT !.game = g] /\ UNCHANGED engineVars
    <3>1. PICK g \in SetupGame(rm, 1, NoSeat) : room' = [begun EXCEPT !.game = g] /\ UNCHANGED engineVars
      BY <2>1
    <3> DEFINE next == [begun EXCEPT !.game = g]
    <3>2. RoomOK(next)
      BY <1>6, <1>12
    <3>3. next.phase = "started" /\ next.loadID = room.loadID + 1 /\ next.game = g
      BY <1>6 DEF RoomState
    <3>4. room' = next /\ next \in RoomState
      BY <3>1, <3>2 DEF RoomOK
    <3> HIDE DEF next
    <3>5. announced' \in [Seat -> Decks]
      BY <3>4, AnnouncedType
    <3>6. ~Running(next) /\ ~Sideboarding(next)
      <4>1. PICK o : g = NewGame(rm, 1, o)
        BY DEF SetupGame
      <4>2. g.side = NoSide
        BY <4>1 DEF NewGame
      <4>3. QED
        BY <1>12, <3>3, <4>2 DEF Running, Sideboarding
    <3>7. next.loadID >= room.loadID /\ next.phase # "loading" /\ room.phase # "closed"
          /\ (Running(next) <=> Running(room))
      BY <1>1, <1>8, <3>3, <3>6
    <3>8. IInv'
      BY <1>8, <3>1, <3>2, <3>4, <3>5, <3>6, <3>7, QuietStep
    <3>9. QED
      BY <1>12, <3>8
  <2>2. CASE UNCHANGED <<room, engineVars>>
    <3>1. announced' \in [Seat -> Decks]
      BY <1>1, <2>2, AnnouncedType DEF RoomOK
    <3>2. PICK next : next = room
      OBVIOUS
    <3>3. next.loadID >= room.loadID /\ next.phase # "loading" /\ room.phase # "closed"
          /\ (Running(next) <=> Running(room)) /\ RoomOK(next) /\ ~Sideboarding(next) /\ room' = next
      BY <1>1, <1>8, <2>2, <3>2
    <3>4. IInv'
      BY <1>8, <2>2, <3>1, <3>3, QuietStep
    <3>5. QED
      BY <1>12, <3>4
  <2>3. QED
    BY <1>4, <1>12, <2>1, <2>2
<1>13. QED
  BY <1>10, <1>11, <1>12

LEMMA SetReadyStep ==
  ASSUME IInv, NEW s \in Seats, NEW ready \in BOOLEAN, SetReady(s, ready)
  PROVE  IInv' /\ (room.phase = "loading" => room'.phase # "started")
<1> DEFINE said == [room EXCEPT !.ready[s] = ready]
           rm == IF ready THEN said ELSE Cancel(said)
<1>1. ModeOK /\ RoomOK(room) /\ room \in RoomState /\ s \in Seat /\ OtherTypes /\ room.loadID \in Nat
  BY SeatFacts, RoomFields DEF IInv, RoomOK
<1>2. /\ room.phase \in {"waiting", "loading"} /\ Plays(room, s)
      /\ IF GateOpen(rm) THEN Begin(rm) ELSE room' = rm /\ UNCHANGED engineVars
      /\ Announce(room')
      /\ UNCHANGED <<mode, fetched, timerVars>>
  BY DEF SetReady
<1>3. /\ said \in RoomState /\ said.phase = room.phase /\ said.game = room.game /\ said.loadID = room.loadID
      /\ said.score = room.score /\ said.drawn = room.drawn /\ said.occ = room.occ /\ said.deck = room.deck
      /\ said.loaded = room.loaded /\ said.ready = [room.ready EXCEPT ![s] = ready]
  <2> DEFINE said2 == [room.ready EXCEPT ![s] = ready]
  <2>1. said2 \in [Seat -> BOOLEAN] /\ said = [room EXCEPT !.ready = said2]
    BY <1>1, RoomFields
  <2> HIDE DEF said2, said
  <2>2. /\ said \in RoomState /\ said.phase = room.phase /\ said.game = room.game /\ said.loadID = room.loadID
        /\ said.score = room.score /\ said.drawn = room.drawn /\ said.occ = room.occ /\ said.deck = room.deck
        /\ said.loaded = room.loaded /\ said.ready = said2
    BY <1>1, <2>1 DEF RoomState
  <2>3. QED
    BY <2>2 DEF said2
<1> HIDE DEF said
<1>4. RoomOK(said)
  <2>1. Taken(said) = Taken(room)
    BY <1>3 DEF Taken
  <2>2. QED
    BY <1>1, <1>3, <2>1, SameMatchOK
<1>5. /\ RoomOK(rm) /\ rm.loadID = room.loadID /\ rm.occ = room.occ /\ rm.ready = said.ready
      /\ rm.deck = room.deck /\ rm.game = room.game
      /\ rm.phase = IF ready THEN room.phase ELSE "waiting"
  <2>1. /\ RoomOK(Cancel(said)) /\ Cancel(said).loadID = said.loadID /\ Cancel(said).occ = said.occ
        /\ Cancel(said).ready = said.ready /\ Cancel(said).deck = said.deck /\ Cancel(said).game = said.game
        /\ Cancel(said).phase = (IF said.phase = "loading" THEN "waiting" ELSE said.phase)
    BY <1>1, <1>4, CancelOK
  <2>2. CASE ready
    BY <1>3, <1>4, <2>2
  <2>3. CASE ~ready
    <3>1. rm = Cancel(said)
      BY <2>3
    <3> HIDE DEF rm
    <3>2. QED
      BY <1>2, <1>3, <2>1, <2>3, <3>1
  <2>4. QED
    BY <2>2, <2>3
<1>6. ready => rm = said
  OBVIOUS
<1> HIDE DEF rm
<1>7. /\ room.game = NoGame /\ ~Started(room) /\ ~Running(room) /\ ~Sideboarding(room)
  BY <1>1, <1>2 DEF RoomOK, GameShape, Started, Running, Sideboarding, Playing
<1>8. CASE GateOpen(rm)
  <2>1. ready /\ room.phase = "waiting"
    <3>1. rm.phase = "waiting" /\ \A t \in Taken(rm) : rm.ready[t]
      BY <1>8 DEF GateOpen
    <3>2. s \in Taken(rm)
      BY <1>2, <1>5 DEF Taken, Plays
    <3>3. said.ready[s] = ready
      BY <1>1, <1>3, RoomFields
    <3>4. ready
      BY <1>5, <3>1, <3>2, <3>3
    <3>5. QED
      BY <1>5, <3>1, <3>4
  <2>2. IInv'
    BY <1>2, <1>5, <1>8, <2>1, BeginStep
  <2>3. QED
    BY <2>1, <2>2
<1>9. CASE ~GateOpen(rm) /\ ~(ready /\ room.phase = "loading")
  <2>1. room' = rm /\ UNCHANGED engineVars
    BY <1>2, <1>9
  <2>2. rm.phase = "waiting"
    BY <1>2, <1>5, <1>9
  <2>3. ~Running(rm) /\ ~Sideboarding(rm)
    BY <2>2 DEF Running, Started, Sideboarding, Playing
  <2>4. announced' \in [Seat -> Decks]
    BY <1>2, <1>5, <2>1, AnnouncedType DEF RoomOK
  <2>5. rm.loadID >= room.loadID /\ rm.phase # "loading" /\ room.phase # "closed"
        /\ (Running(rm) <=> Running(room))
    BY <1>1, <1>2, <1>5, <1>7, <2>2, <2>3
  <2>6. IInv'
    BY <1>2, <1>5, <2>1, <2>3, <2>4, <2>5, QuietStep
  <2>7. QED
    BY <2>1, <2>2, <2>6
<1>10. CASE ~GateOpen(rm) /\ ready /\ room.phase = "loading"
  <2>1. room' = said /\ UNCHANGED <<engine, alive, watch>>
    BY <1>2, <1>6, <1>10 DEF engineVars
  <2>2. announced' = room.deck
    BY <1>2, <1>3, <1>10, <2>1 DEF Announce
  <2>3. ~Running(said) /\ ~Sideboarding(said)
    BY <1>3, <1>10 DEF Running, Started, Sideboarding, Playing
  <2>4. EngineMatchesMatch' /\ WatchersSawAnExit'
    BY <1>2, <1>7, <2>1, <2>3, EngineKept
  <2>5. TimerInOrder'
    BY <1>2, <2>1, <2>3, TimerKept
  <2>6. OtherTypes'
    <3>1. announced' \in [Seat -> Decks]
      BY <1>1, <2>2, RoomFields
    <3>2. QED
      BY <1>1, <1>2, <2>1, <3>1 DEF OtherTypes, timerVars
  <2>7. LoadingIsGated'
    <3>1. Taken(room)' = Taken(room) /\ MinPlayers' = MinPlayers
      BY <1>2, <1>3, <2>1 DEF Taken, Seats, EDH, MinPlayers
    <3>2. /\ Cardinality(Taken(room)) >= MinPlayers
          /\ \A t \in Taken(room) : room.ready[t] /\ room.deck[t] # NoDeck
      BY <1>10 DEF IInv, LoadingIsGated
    <3>3. \A t \in Taken(room) : said.ready[t]
      <4>1. \A t \in Taken(room) : t \in Seat
        BY SeatFacts DEF Taken
      <4>2. QED
        BY <1>1, <1>3, <1>10, <3>2, <4>1, RoomFields
    <3>4. room'.ready = said.ready /\ room'.deck = room.deck
      BY <1>3, <2>1
    <3>5. QED
      BY <2>2, <3>1, <3>2, <3>3, <3>4 DEF LoadingIsGated
  <2>8. LoadsInOrder'
    <3>1. Humans(room)' = Humans(room)
      BY <1>2, <1>3, <2>1 DEF Humans, Seats, EDH
    <3>2. /\ room'.phase = room.phase /\ room'.loadID = room.loadID /\ room'.loaded = room.loaded
      BY <1>3, <2>1
    <3>3. QED
      BY <1>2, <2>1, <3>1, <3>2 DEF IInv, LoadsInOrder
  <2>9. IInv'
    BY <1>2, <1>4, <2>1, <2>4, <2>5, <2>6, <2>7, <2>8, StepTogether
  <2>10. QED
    BY <1>3, <2>1, <2>9
<1>11. QED
  BY <1>8, <1>9, <1>10

LEMMA FetchCardsStep ==
  ASSUME IInv, NEW s \in Seats, FetchCards(s)
  PROVE  IInv'
<1> DEFINE next == room
<1>1. RoomOK(room) /\ s \in Seat /\ OtherTypes /\ room.loadID \in Nat
  BY SeatFacts, RoomFields DEF IInv
<1>2. /\ room.phase = "loading" /\ fetched' = [fetched EXCEPT ![s] = room.loadID] /\ room' = room
      /\ UNCHANGED <<mode, announced, engine, alive, watch, sides, lapsed, sideTimer, armed, fired>>
  BY DEF FetchCards, engineVars, timerVars
<1>3. OtherTypes'
  BY <1>1, <1>2 DEF OtherTypes
<1>4. LoadingIsGated'
  BY <1>2 DEF IInv, LoadingIsGated, Taken, Seats, EDH, MinPlayers
<1>5. LoadsInOrder'
  <2>1. /\ room.loadID # 0 /\ room.loadID \notin watch
        /\ \A t \in Humans(room) : room.loaded[t] => fetched[t] = room.loadID
        /\ \A t \in Seat : fetched[t] <= room.loadID
        /\ \A g \in watch : g <= room.loadID
    BY <1>2 DEF IInv, LoadsInOrder
  <2>2. \A t \in Seat : fetched'[t] = IF t = s THEN room.loadID ELSE fetched[t]
    BY <1>1, <1>2 DEF OtherTypes
  <2>3. Humans(room)' = Humans(room) /\ Humans(room) \subseteq Seat
    BY <1>2, SeatFacts DEF Humans, Seats, EDH
  <2>4. \A t \in Seat : fetched'[t] <= room.loadID
    BY <1>1, <2>1, <2>2
  <2>5. \A t \in Humans(room) : room.loaded[t] => fetched'[t] = room.loadID
    BY <2>1, <2>2, <2>3
  <2>6. QED
    BY <1>2, <2>1, <2>3, <2>4, <2>5 DEF LoadsInOrder
<1>6. EngineMatchesMatch' /\ WatchersSawAnExit'
  BY <1>2 DEF IInv, EngineMatchesMatch, WatchersSawAnExit, Forge, Started
<1>7. TimerInOrder'
  BY <1>2 DEF IInv, TimerInOrder, Sideboarding, Playing, Started
<1>8. QED
  BY <1>1, <1>2, <1>3, <1>4, <1>5, <1>6, <1>7, StepTogether

\* A room that does not load, whatever its engine and its timers do.
LEMMA SettledStep ==
  ASSUME IInv, NEW next, RoomOK(next), room' = next, UNCHANGED <<mode, fetched>>,
         announced' \in [Seat -> Decks], engine' \in Nat, alive' \in BOOLEAN, watch' \subseteq watch,
         next.phase # "loading",
         next.phase = "closed" \/ (room.phase # "closed" /\ next.loadID >= room.loadID),
         EngineMatchesMatch', WatchersSawAnExit', TimerInOrder',
         sides' \in Nat /\ lapsed' \in Nat /\ sideTimer' \in Nat,
         armed' \in SUBSET Nat /\ fired' \in SUBSET Nat
  PROVE  IInv'
<1>1. LoadingIsGated' /\ LoadsInOrder'
  BY RoomFields, SettledLoads
<1>2. OtherTypes'
  BY DEF OtherTypes, IInv
<1>3. QED
  BY <1>1, <1>2, StepTogether

\* A game starts from a loading room when every client has fetched the cards of
\* this load, and no acknowledgement does more than that.
LEMMA CompleteLoadStep ==
  ASSUME IInv, NEW s \in Seats, NEW id \in 1 .. room.loadID, CompleteLoad(s, id)
  PROVE  IInv' /\ (room'.phase = "started" => \A t \in Humans(room) : fetched[t] = room.loadID)
<1> DEFINE rm == [room EXCEPT !.loaded[s] = TRUE]
<1>1. ModeOK /\ RoomOK(room) /\ room \in RoomState /\ s \in Seat /\ OtherTypes /\ room.loadID \in Nat
      /\ room.loadID # 0 /\ room.loadID \notin watch
  BY SeatFacts, RoomFields DEF IInv, RoomOK, CompleteLoad, LoadsInOrder
<1>2. /\ room.phase = "loading" /\ room.occ[s] = "human" /\ id \in 1 .. fetched[s] /\ id = room.loadID
      /\ IF \A t \in Taken(rm) : rm.loaded[t] THEN BeginLoaded(rm)
         ELSE room' = rm /\ UNCHANGED engineVars
      /\ Announce(room')
      /\ UNCHANGED <<mode, fetched, timerVars>>
  BY DEF CompleteLoad
<1>3. /\ rm \in RoomState /\ rm.phase = room.phase /\ rm.game = room.game /\ rm.loadID = room.loadID
      /\ rm.score = room.score /\ rm.drawn = room.drawn /\ rm.occ = room.occ /\ rm.deck = room.deck
      /\ rm.ready = room.ready /\ rm.loaded = [room.loaded EXCEPT ![s] = TRUE]
  <2> DEFINE loaded == [room.loaded EXCEPT ![s] = TRUE]
  <2>1. loaded \in [Seat -> BOOLEAN] /\ rm = [room EXCEPT !.loaded = loaded]
    BY <1>1, RoomFields
  <2> HIDE DEF loaded, rm
  <2>2. /\ rm \in RoomState /\ rm.phase = room.phase /\ rm.game = room.game /\ rm.loadID = room.loadID
        /\ rm.score = room.score /\ rm.drawn = room.drawn /\ rm.occ = room.occ /\ rm.deck = room.deck
        /\ rm.ready = room.ready /\ rm.loaded = loaded
    BY <1>1, <2>1 DEF RoomState
  <2>3. QED
    BY <2>2 DEF loaded
<1> HIDE DEF rm
<1>4. Taken(rm) = Taken(room) /\ Humans(room) \subseteq Taken(room) /\ Humans(room) \subseteq Seat
  BY <1>3, SeatFacts DEF Taken, Humans
<1>5. RoomOK(rm)
  BY <1>1, <1>3, <1>4, SameMatchOK
<1>6. /\ room.game = NoGame /\ ~Started(room) /\ ~Running(room) /\ ~Sideboarding(room) /\ engine = 0
  BY <1>1, <1>2 DEF RoomOK, GameShape, Started, Running, Sideboarding, Playing, IInv, EngineMatchesMatch
<1>7. fetched[s] = room.loadID /\ \A t \in Humans(room) : rm.loaded[t] => fetched[t] = room.loadID
  <2>1. /\ \A t \in Humans(room) : room.loaded[t] => fetched[t] = room.loadID
        /\ \A t \in Seat : fetched[t] <= room.loadID /\ fetched[t] \in Nat
    BY <1>1, <1>2 DEF IInv, LoadsInOrder, OtherTypes
  <2>2. fetched[s] = room.loadID
    BY <1>1, <1>2, <2>1
  <2>3. \A t \in Seat : rm.loaded[t] = IF t = s THEN TRUE ELSE room.loaded[t]
    BY <1>1, <1>3, RoomFields
  <2>4. QED
    BY <1>4, <2>1, <2>2, <2>3
<1>8. /\ Cardinality(Taken(rm)) >= MinPlayers
      /\ \A t \in Taken(rm) : rm.ready[t] /\ rm.deck[t] # NoDeck /\ rm.deck[t] = announced[t]
  BY <1>2, <1>3, <1>4 DEF IInv, LoadingIsGated
<1>9. /\ sides' \in Nat /\ lapsed' \in Nat /\ sideTimer' \in Nat
      /\ armed' \in SUBSET Nat /\ fired' \in SUBSET Nat
  BY <1>1, <1>2 DEF timerVars, OtherTypes
<1>10. CASE ~(\A t \in Taken(rm) : rm.loaded[t])
  <2>1. room' = rm /\ UNCHANGED <<engine, alive, watch>> /\ room'.phase = "loading"
    BY <1>2, <1>3, <1>10 DEF engineVars
  <2>2. announced' = room.deck
    BY <1>2, <1>3, <2>1 DEF Announce
  <2>3. ~Running(rm) /\ ~Sideboarding(rm)
    BY <1>2, <1>3 DEF Running, Started, Sideboarding, Playing
  <2>4. EngineMatchesMatch' /\ WatchersSawAnExit'
    BY <1>2, <1>6, <2>1, <2>3, EngineKept
  <2>5. TimerInOrder'
    BY <1>2, <2>1, <2>3, TimerKept
  <2>6. OtherTypes'
    <3>1. announced' \in [Seat -> Decks]
      BY <1>1, <2>2, RoomFields
    <3>2. QED
      BY <1>1, <1>2, <1>9, <2>1, <3>1 DEF OtherTypes
  <2>7. Taken(room)' = Taken(rm) /\ Humans(room)' = Humans(room) /\ MinPlayers' = MinPlayers
    BY <1>2, <1>3, <2>1 DEF Taken, Humans, Seats, EDH, MinPlayers
  <2>8. LoadingIsGated'
    BY <1>3, <1>8, <2>1, <2>2, <2>7 DEF LoadingIsGated
  <2>9. LoadsInOrder'
    <3>1. room'.loadID = room.loadID /\ room'.loaded = rm.loaded /\ fetched' = fetched /\ watch' = watch
      BY <1>2, <1>3, <2>1
    <3>2. QED
      BY <1>1, <1>2, <1>7, <2>7, <3>1 DEF IInv, LoadsInOrder
  <2>10. IInv'
    BY <1>2, <1>5, <2>1, <2>4, <2>5, <2>6, <2>8, <2>9, StepTogether
  <2>11. QED
    BY <2>1, <2>10
<1>11. CASE \A t \in Taken(rm) : rm.loaded[t]
  <2> DEFINE begun == [rm EXCEPT !.phase = "started"]
  <2>1. \A t \in Humans(room) : fetched[t] = room.loadID
    BY <1>4, <1>7, <1>11
  <2>2. /\ begun \in RoomState /\ begun.phase = "started" /\ begun.loadID = rm.loadID /\ begun.game = NoGame
        /\ begun.occ = rm.occ
        /\ Forge => RoomOK(begun)
        /\ ~Forge => \A from : \A g \in SetupGame(from, 1, NoSeat) : from.occ = rm.occ =>
              RoomOK([begun EXCEPT !.game = g])
    <3> HIDE DEF begun
    <3>1. begun = [rm EXCEPT !.phase = "started"] /\ rm.phase = "loading"
      BY <1>2, <1>3 DEF begun
    <3>2. QED
      BY <1>1, <1>5, <1>8, <3>1, BegunOK
  <2>3. BeginLoaded(rm)
    BY <1>2, <1>11
  <2>4. CASE Forge
    <3>1. \/ room' = begun /\ engine' = begun.loadID /\ alive' = TRUE /\ UNCHANGED watch
          \/ room' = Reset(begun) /\ engine' = 0 /\ UNCHANGED <<alive, watch>>
      BY <1>3, <1>6, <2>3, <2>4 DEF BeginLoaded, Launch
    <3> HIDE DEF begun
    <3>2. Running(begun) /\ RoomOK(begun)
      BY <2>2, <2>4 DEF Running, Started
    <3>3. Reset(begun) \in RoomState
      BY <1>1, <2>2, <2>4, ResetOK DEF RoomOK
    <3>4. announced' \in [Seat -> Decks]
      BY <1>2, <2>2, <3>1, <3>3, AnnouncedType
    <3>5. begun.loadID >= room.loadID /\ begun.loadID # 0 /\ begun.loadID \notin watch /\ room.phase # "closed"
      BY <1>1, <1>2, <1>3, <2>2
    <3>6. UNCHANGED <<mode, fetched>> /\ UNCHANGED timerVars
      BY <1>2
    <3>7. IInv'
      BY <1>9, <3>1, <3>2, <3>4, <3>5, <3>6, LaunchStep
    <3>8. QED
      BY <2>1, <3>7
  <2>5. CASE ~Forge /\ \E g \in SetupGame(rm, 1, NoSeat) : room' = [begun EXCEPT !.game = g] /\ UNCHANGED engineVars
    <3>1. PICK g \in SetupGame(rm, 1, NoSeat) : room' = [begun EXCEPT !.game = g] /\ UNCHANGED engineVars
      BY <2>5
    <3> DEFINE next == [begun EXCEPT !.game = g]
    <3>2. RoomOK(next)
      BY <2>2, <2>5
    <3>3. next.phase = "started" /\ next.loadID = room.loadID /\ next.game = g
      BY <1>3, <2>2 DEF RoomState
    <3>4. room' = next /\ next \in RoomState
      BY <3>1, <3>2 DEF RoomOK
    <3> HIDE DEF next
    <3>5. announced' \in [Seat -> Decks]
      BY <1>2, <3>4, AnnouncedType
    <3>6. ~Running(next) /\ ~Sideboarding(next)
      <4>1. PICK o : g = NewGame(rm, 1, o)
        BY DEF SetupGame
      <4>2. g.side = NoSide
        BY <4>1 DEF NewGame
      <4>3. QED
        BY <2>5, <3>3, <4>2 DEF Running, Sideboarding
    <3>7. next.loadID >= room.loadID /\ next.phase # "loading" /\ room.phase # "closed"
          /\ (Running(next) <=> Running(room))
      BY <1>1, <1>2, <1>6, <3>3, <3>6
    <3>8. IInv'
      BY <1>2, <1>6, <3>1, <3>2, <3>4, <3>5, <3>6, <3>7, QuietStep
    <3>9. QED
      BY <2>1, <3>8
  <2>6. CASE ~Forge /\ room' = Reset(rm) /\ UNCHANGED engineVars
    <3> DEFINE next == Reset(rm)
    <3>1. ~Forge => rm.drawn = 0 /\ \A t \in Seat : rm.score[t] = 0
      BY <1>2, <1>3, <1>5 DEF RoomOK, Accounts
    <3>2. RoomOK(next) /\ next.phase = "waiting" /\ next.game = NoGame /\ next.loadID = rm.loadID
      BY <1>1, <1>3, <3>1, ResetOK
    <3>3. room' = next
      BY <2>6
    <3> HIDE DEF next
    <3>4. announced' \in [Seat -> Decks]
      BY <1>2, <3>2, <3>3, AnnouncedType DEF RoomOK
    <3>5. ~Running(next) /\ ~Sideboarding(next)
      BY <2>6, <3>2 DEF Running, Sideboarding, Playing
    <3>6. next.loadID >= room.loadID /\ next.phase # "loading" /\ room.phase # "closed"
          /\ (Running(next) <=> Running(room))
      BY <1>1, <1>2, <1>3, <1>6, <3>2, <3>5
    <3>7. IInv'
      BY <1>2, <1>6, <2>6, <3>2, <3>3, <3>4, <3>5, <3>6, QuietStep
    <3>8. QED
      BY <2>1, <3>7
  <2>7. QED
    BY <1>3, <1>6, <2>3, <2>4, <2>5, <2>6 DEF BeginLoaded
<1>12. QED
  BY <1>10, <1>11

\* What a step of a manual game finds.
LEMMA LiveRoom ==
  ASSUME IInv, Live(room)
  PROVE  /\ ModeOK /\ RoomOK(room) /\ room \in RoomState /\ room.loadID \in Nat /\ OtherTypes
         /\ ~Forge /\ Started(room) /\ room.phase = "started" /\ room.game # NoGame
         /\ ~Running(room) /\ ~Sideboarding(room)
<1>1. ModeOK /\ RoomOK(room) /\ OtherTypes
  BY DEF IInv
<1>2. room \in RoomState /\ room.loadID \in Nat
  BY <1>1, RoomFields DEF RoomOK
<1>3. Playing(room) /\ ~Sideboarding(room) /\ ~Forge
  BY <1>1, LiveOrDecided
<1>4. QED
  BY <1>1, <1>2, <1>3 DEF Playing, Started, Running

LEMMA NextTurnStep ==
  ASSUME IInv, NEW s \in Seats, NextTurn(s)
  PROVE  IInv'
<1>1. Live(room) /\ room' = [room EXCEPT !.game.active = NextActive(room.game)]
      /\ UNCHANGED <<mode, clientVars, engineVars, timerVars>>
  BY DEF NextTurn
<1> DEFINE next == [room EXCEPT !.game.active = NextActive(room.game)]
<1>2. /\ ModeOK /\ RoomOK(room) /\ room.loadID \in Nat /\ OtherTypes /\ room.phase = "started" /\ ~Running(room)
  BY <1>1, LiveRoom
<1>3. room' = next /\ next = [room EXCEPT !.game.active = NextActive(room.game)]
  BY <1>1
<1> HIDE DEF next
<1>4. /\ RoomOK(next) /\ next.phase = room.phase /\ next.loadID = room.loadID
      /\ next.game # NoGame /\ ~Sideboarding(next)
  BY <1>1, <1>2, <1>3, NextTurnOK
<1>5. ~Running(next)
  BY <1>4 DEF Running
<1>6. announced' \in [Seat -> Decks] /\ UNCHANGED fetched
  BY <1>1, <1>2 DEF OtherTypes, clientVars
<1>7. next.loadID >= room.loadID /\ next.phase # "loading" /\ room.phase # "closed"
      /\ (Running(next) <=> Running(room))
  BY <1>2, <1>4, <1>5
<1>8. QED
  BY <1>1, <1>2, <1>3, <1>4, <1>6, <1>7, QuietStep

\* A manual game ends: the engine has no part in it, a sideboarding may open.
LEMMA ManualResultStep ==
  ASSUME IInv, Live(room), NEW next, RoomOK(next), room' = next, Schedule(next),
         next.phase = "started", next.loadID = room.loadID, next.game # NoGame,
         UNCHANGED <<mode, clientVars, engineVars>>
  PROVE  IInv'
<1>1. /\ ModeOK /\ room.loadID \in Nat /\ OtherTypes /\ room.phase = "started" /\ ~Running(room) /\ ~Running(next)
  BY LiveRoom DEF Running
<1>2. EngineMatchesMatch' /\ WatchersSawAnExit'
  BY <1>1, EngineKept DEF engineVars
<1>3. /\ TimerInOrder'
      /\ sides' \in Nat /\ lapsed' \in Nat /\ sideTimer' \in Nat
      /\ armed' \in SUBSET Nat /\ fired' \in SUBSET Nat
  BY TimerScheduled
<1>4. announced' \in [Seat -> Decks] /\ engine' \in Nat /\ alive' \in BOOLEAN /\ watch' \subseteq watch
      /\ UNCHANGED <<mode, fetched>>
  BY <1>1 DEF OtherTypes, clientVars, engineVars
<1>5. next.phase # "loading" /\ room.phase # "closed" /\ next.loadID >= room.loadID
  BY <1>1
<1>6. QED
  BY <1>2, <1>3, <1>4, <1>5, SettledStep

LEMMA ConcedeStep ==
  ASSUME IInv, NEW s \in Seats, Concede(s)
  PROVE  IInv'
<1>1. /\ Live(room) /\ room' = (IF EDH THEN Eliminate(room, s) ELSE ConcedeTwoPlayer(room, s))
      /\ Schedule(room') /\ UNCHANGED <<mode, clientVars, engineVars>>
  BY DEF Concede
<1>2. /\ ModeOK /\ RoomOK(room) /\ room.loadID \in Nat /\ room.phase = "started" /\ sides \in Nat
  BY <1>1, LiveRoom DEF OtherTypes
<1>3. PICK next : next = IF EDH THEN Eliminate(room, s) ELSE ConcedeTwoPlayer(room, s)
  OBVIOUS
<1>4. /\ RoomOK(next) /\ next.phase = "started" /\ next.loadID = room.loadID /\ next.game # NoGame
  <2>1. CASE EDH
    <3>1. next = Eliminate(room, s)
      BY <1>3, <2>1
    <3>2. RoomOK(next) /\ next.phase = room.phase /\ next.loadID = room.loadID /\ Playing(next)
      BY <1>1, <1>2, <2>1, <3>1, EliminateOK
    <3>3. QED
      BY <1>2, <3>2 DEF Playing
  <2>2. CASE ~EDH
    <3>1. next = ConcedeTwoPlayer(room, s)
      BY <1>3, <2>2
    <3>2. QED
      BY <1>1, <1>2, <2>2, <3>1, ConcedeOK
  <2>3. QED
    BY <2>1, <2>2
<1>5. room' = next /\ Schedule(next)
  BY <1>1, <1>3
<1>6. QED
  BY <1>1, <1>4, <1>5, ManualResultStep

LEMMA DeclareDrawStep ==
  ASSUME IInv, NEW s \in Seats, DeclareDraw(s)
  PROVE  IInv'
<1>1. /\ Live(room) /\ room' = EndGame([room EXCEPT !.drawn = @ + 1], NoSeat, NoSeat, mode.match # "bo3")
      /\ Schedule(room') /\ UNCHANGED <<mode, clientVars, engineVars>>
  BY DEF DeclareDraw
<1>2. /\ ModeOK /\ RoomOK(room) /\ sides \in Nat
  BY <1>1, LiveRoom DEF OtherTypes
<1>3. PICK next : next = EndGame([room EXCEPT !.drawn = @ + 1], NoSeat, NoSeat, mode.match # "bo3")
  OBVIOUS
<1>4. /\ RoomOK(next) /\ next.phase = "started" /\ next.loadID = room.loadID /\ next.game # NoGame
  BY <1>1, <1>2, <1>3, DrawOK
<1>5. room' = next /\ Schedule(next)
  BY <1>1, <1>3
<1>6. QED
  BY <1>1, <1>4, <1>5, ManualResultStep

\* A restarted game keeps its number and seats everybody at the table.
LEMMA RestartGameStep ==
  ASSUME IInv, NEW s \in Seats, RestartGame(s)
  PROVE  IInv'
<1>1. /\ Live(room) /\ ~Forge
      /\ \E o \in RestartOrders(room) : room' = [room EXCEPT !.game = NewGame(room, room.game.number, o)]
      /\ UNCHANGED <<mode, clientVars, engineVars, timerVars>>
  BY DEF RestartGame
<1>2. /\ ModeOK /\ RoomOK(room) /\ room \in RoomState /\ room.loadID \in Nat /\ OtherTypes
      /\ room.phase = "started" /\ Started(room) /\ ~Running(room)
  BY <1>1, LiveRoom
<1>3. PICK o \in RestartOrders(room) : room' = [room EXCEPT !.game = NewGame(room, room.game.number, o)]
  BY <1>1
<1>4. Seating(o, Taken(room))
  BY <1>1, <1>2, RestartSeatsEveryone DEF RoomOK
<1>5. /\ \A t \in Seat : room.score[t] < Needed
      /\ room.game.number = RulesGameNumber(room)
      /\ ~EDH => \A t \in Seats : room.occ[t] # "free" /\ room.deck[t] # NoDeck
  BY <1>1, <1>2, LiveFacts
<1> DEFINE next == [room EXCEPT !.game = NewGame(room, room.game.number, o)]
<1>6. room' = next /\ next = [room EXCEPT !.game = NewGame(room, room.game.number, o)]
  BY <1>3
<1>7. next.phase = room.phase /\ next.loadID = room.loadID /\ next.game = NewGame(room, room.game.number, o)
  BY <1>2 DEF RoomState
<1> HIDE DEF next
<1>8. RoomOK(next)
  BY <1>1, <1>2, <1>4, <1>5, <1>6, DealtOK
<1>9. ~Running(next) /\ ~Sideboarding(next)
  <2>1. next.game.side = NoSide
    BY <1>7 DEF NewGame
  <2>2. QED
    BY <1>1, <2>1 DEF Running, Sideboarding
<1>10. announced' \in [Seat -> Decks] /\ UNCHANGED fetched
  BY <1>1, <1>2 DEF OtherTypes, clientVars
<1>11. next.loadID >= room.loadID /\ next.phase # "loading" /\ room.phase # "closed"
      /\ (Running(next) <=> Running(room))
  BY <1>2, <1>7, <1>9
<1>12. QED
  BY <1>1, <1>2, <1>6, <1>8, <1>9, <1>10, <1>11, QuietStep

\* The engine's game runs in a started match without a result.
LEMMA EngineRoom ==
  ASSUME IInv, engine # 0
  PROVE  /\ ModeOK /\ RoomOK(room) /\ room \in RoomState /\ room.loadID \in Nat /\ OtherTypes
         /\ Forge /\ Started(room) /\ room.phase = "started" /\ room.game = NoGame /\ engine = room.loadID
         /\ Running(room) /\ ~Sideboarding(room) /\ ~Decided(room)
<1>1. ModeOK /\ RoomOK(room) /\ OtherTypes
  BY DEF IInv
<1>2. room \in RoomState /\ room.loadID \in Nat
  BY <1>1, RoomFields DEF RoomOK
<1>3. Forge /\ Started(room) /\ room.game = NoGame /\ engine = room.loadID
  BY DEF IInv, EngineMatchesMatch
<1>4. QED
  BY <1>1, <1>2, <1>3 DEF Started, Running, Sideboarding, Playing, Decided

LEMMA RecordStartStep ==
  ASSUME IInv, NEW s \in Seats, RecordStart(s)
  PROVE  IInv'
<1>1. /\ engine # 0 /\ room' = [room EXCEPT !.start = s]
      /\ UNCHANGED <<mode, clientVars, engineVars, timerVars>>
  BY DEF RecordStart
<1>2. /\ ModeOK /\ RoomOK(room) /\ room \in RoomState /\ room.loadID \in Nat /\ OtherTypes
      /\ Forge /\ Started(room) /\ room.phase = "started" /\ room.game = NoGame /\ Running(room)
      /\ s \in SeatOrNone
  BY <1>1, EngineRoom, SeatFacts DEF SeatOrNone
<1> DEFINE next == [room EXCEPT !.start = s]
<1>3. /\ next \in RoomState /\ next.phase = room.phase /\ next.game = room.game /\ next.score = room.score
      /\ next.drawn = room.drawn /\ next.occ = room.occ /\ next.deck = room.deck /\ next.loadID = room.loadID
      /\ room' = next
  BY <1>1, <1>2 DEF RoomState
<1> HIDE DEF next
<1>4. RoomOK(next)
  <2>1. Taken(next) = Taken(room)
    BY <1>3 DEF Taken
  <2>2. QED
    BY <1>2, <1>3, <2>1, SameMatchOK
<1>5. Running(next) /\ ~Sideboarding(next)
  BY <1>2, <1>3 DEF Running, Started, Sideboarding, Playing
<1>6. announced' \in [Seat -> Decks] /\ UNCHANGED fetched
  BY <1>1, <1>2 DEF OtherTypes, clientVars
<1>7. next.loadID >= room.loadID /\ next.phase # "loading" /\ room.phase # "closed"
      /\ (Running(next) <=> Running(room))
  BY <1>2, <1>3, <1>5
<1>8. QED
  BY <1>1, <1>2, <1>3, <1>4, <1>5, <1>6, <1>7, QuietStep

\* The engine's game is over: a result, and maybe a sideboarding.
LEMMA RulesResultStep ==
  ASSUME IInv, NEW winner \in Taken(room) \cup {NoSeat}, NEW conceded \in BOOLEAN, RulesResult(winner, conceded)
  PROVE  IInv'
<1>1. /\ engine # 0 /\ (mode.match = "bo3" => CanSideboard(room))
      /\ room' = CompleteRulesGame(room, winner, conceded)
      /\ engine' = 0 /\ UNCHANGED <<alive, watch>> /\ Schedule(room') /\ UNCHANGED <<mode, clientVars>>
  BY DEF RulesResult, NoEngine
<1>2. /\ ModeOK /\ RoomOK(room) /\ room.loadID \in Nat /\ OtherTypes /\ sides \in Nat
      /\ Forge /\ Started(room) /\ room.phase = "started" /\ room.game = NoGame
  BY <1>1, EngineRoom DEF OtherTypes
<1>3. PICK next : next = CompleteRulesGame(room, winner, conceded)
  OBVIOUS
<1>4. /\ RoomOK(next) /\ next.phase = "started" /\ next.loadID = room.loadID /\ next.game # NoGame
  BY <1>1, <1>2, <1>3, RulesResultOK
<1>5. room' = next /\ Schedule(next) /\ ~Running(next)
  BY <1>1, <1>3, <1>4 DEF Running
<1>6. EngineMatchesMatch' /\ WatchersSawAnExit'
  BY <1>1, <1>5, EngineGone
<1>7. /\ TimerInOrder'
      /\ sides' \in Nat /\ lapsed' \in Nat /\ sideTimer' \in Nat
      /\ armed' \in SUBSET Nat /\ fired' \in SUBSET Nat
  BY <1>4, <1>5, TimerScheduled
<1>8. announced' \in [Seat -> Decks] /\ engine' \in Nat /\ alive' \in BOOLEAN /\ watch' \subseteq watch
      /\ UNCHANGED <<mode, fetched>>
  BY <1>1, <1>2 DEF OtherTypes, clientVars
<1>9. next.phase # "loading" /\ room.phase # "closed" /\ next.loadID >= room.loadID
  BY <1>2, <1>4
<1>10. QED
  BY <1>4, <1>5, <1>6, <1>7, <1>8, <1>9, SettledStep

LEMMA ForgeRestartStep ==
  ASSUME IInv, NEW s \in Seats, ForgeRestart(s)
  PROVE  IInv'
<1>1. /\ Forge /\ Started(room) /\ room.game = NoGame
      /\ Launch(PrepareNextRulesGame(room, room.start), 0)
      /\ UNCHANGED <<mode, clientVars, timerVars>>
  BY DEF ForgeRestart
<1>2. /\ ModeOK /\ RoomOK(room) /\ room.loadID \in Nat /\ OtherTypes /\ room.start \in SeatOrNone
      /\ room.phase = "started" /\ ~Decided(room)
  BY <1>1, RoomFields DEF IInv, Started, Decided, Playing
<1>3. PICK begun : begun = PrepareNextRulesGame(room, room.start)
  OBVIOUS
<1>4. /\ RoomOK(begun) /\ begun.phase = "started" /\ begun.loadID = room.loadID + 1 /\ begun.game = NoGame
  BY <1>1, <1>2, <1>3, PrepareNextOK
<1>5. \/ room' = begun /\ engine' = begun.loadID /\ alive' = TRUE /\ UNCHANGED watch
      \/ room' = Reset(begun) /\ engine' = 0 /\ UNCHANGED <<alive, watch>>
  BY <1>1, <1>3 DEF Launch
<1>6. Running(begun) /\ begun.loadID >= room.loadID /\ begun.loadID # 0 /\ begun.loadID \notin watch
      /\ room.phase # "closed"
  BY <1>1, <1>2, <1>4, FreshLoad DEF Running, Started
<1>7. /\ announced' \in [Seat -> Decks] /\ UNCHANGED <<mode, fetched>> /\ UNCHANGED timerVars
      /\ sides' \in Nat /\ lapsed' \in Nat /\ sideTimer' \in Nat
      /\ armed' \in SUBSET Nat /\ fired' \in SUBSET Nat
  BY <1>1, <1>2 DEF OtherTypes, clientVars, timerVars
<1>8. QED
  BY <1>4, <1>5, <1>6, <1>7, LaunchStep

\* A room whose game is given up: it is settled, without an engine.
LEMMA GivenUpStep ==
  ASSUME IInv, NEW next, RoomOK(next), room' = next, ~Running(next), ~Sideboarding(next),
         next.phase # "loading", room.phase # "closed", next.loadID = room.loadID,
         engine' = 0, alive' = alive, watch' \subseteq watch,
         UNCHANGED <<mode, clientVars, timerVars>>
  PROVE  IInv'
<1>1. OtherTypes /\ room.loadID \in Nat
  BY RoomFields DEF IInv
<1>2. EngineMatchesMatch' /\ WatchersSawAnExit'
  BY EngineGone
<1>3. TimerInOrder'
  BY TimerKept
<1>4. /\ announced' \in [Seat -> Decks] /\ engine' \in Nat /\ alive' \in BOOLEAN /\ UNCHANGED <<mode, fetched>>
      /\ sides' \in Nat /\ lapsed' \in Nat /\ sideTimer' \in Nat
      /\ armed' \in SUBSET Nat /\ fired' \in SUBSET Nat
  BY <1>1 DEF OtherTypes, clientVars, timerVars
<1>5. next.loadID >= room.loadID
  BY <1>1
<1>6. QED
  BY <1>2, <1>3, <1>4, <1>5, SettledStep

LEMMA ExpireActionClockStep ==
  ASSUME IInv, NEW s \in Seats, ExpireActionClock(s)
  PROVE  IInv'
<1>1. /\ engine # 0 /\ ~EDH /\ room' = ForfeitActionClock(room, s)
      /\ engine' = 0 /\ UNCHANGED <<alive, watch>> /\ UNCHANGED <<mode, clientVars, timerVars>>
  BY DEF ExpireActionClock, NoEngine
<1>2. /\ ModeOK /\ RoomOK(room) /\ room.loadID \in Nat /\ sides \in Nat
      /\ Forge /\ Started(room) /\ room.phase = "started" /\ room.game = NoGame
  BY <1>1, EngineRoom DEF OtherTypes
<1>3. PICK next : next = ForfeitActionClock(room, s)
  OBVIOUS
<1>4. /\ RoomOK(next) /\ next.phase = "started" /\ next.loadID = room.loadID /\ next.game # NoGame
      /\ ~Sideboarding(next)
  BY <1>1, <1>2, <1>3, ActionClockOK
<1>5. room' = next /\ ~Running(next) /\ next.phase # "loading" /\ room.phase # "closed" /\ alive' = alive
      /\ watch' \subseteq watch
  BY <1>1, <1>2, <1>3, <1>4 DEF Running
<1>6. QED
  BY <1>1, <1>4, <1>5, GivenUpStep

\* Giving up the engine's game sends the room back to waiting.
LEMMA TerminateStep ==
  ASSUME IInv, engine # 0, Terminate, watch' \subseteq watch, UNCHANGED <<mode, clientVars, timerVars>>
  PROVE  IInv' /\ room'.phase = "waiting"
<1>1. /\ ModeOK /\ RoomOK(room) /\ room \in RoomState
      /\ Forge /\ Started(room) /\ room.phase = "started" /\ room.game = NoGame
  BY EngineRoom
<1>2. room' = Reset(room) /\ engine' = 0 /\ alive' = alive
  BY <1>1 DEF Terminate
<1>3. PICK next : next = Reset(room)
  OBVIOUS
<1>4. RoomOK(next) /\ next.phase = "waiting" /\ next.game = NoGame /\ next.loadID = room.loadID
  BY <1>1, <1>3, ResetOK
<1>5. room' = next /\ ~Running(next) /\ ~Sideboarding(next) /\ next.phase # "loading" /\ room.phase # "closed"
  BY <1>1, <1>2, <1>3, <1>4 DEF Running, Started, Sideboarding, Playing
<1>6. IInv'
  BY <1>2, <1>4, <1>5, GivenUpStep
<1>7. QED
  BY <1>4, <1>5, <1>6

LEMMA FailGameStep ==
  ASSUME IInv, FailGame
  PROVE  IInv'
<1>1. engine # 0 /\ Terminate /\ watch' \subseteq watch /\ UNCHANGED <<mode, clientVars, timerVars>>
  BY DEF FailGame
<1>2. QED
  BY <1>1, TerminateStep

LEMMA RuntimeExitsStep ==
  ASSUME IInv, RuntimeExits
  PROVE  IInv'
<1>1. /\ engine # 0 /\ alive' = FALSE /\ watch' = watch \cup {engine}
      /\ UNCHANGED <<mode, room, clientVars, engine, timerVars>>
  BY DEF RuntimeExits
<1>2. /\ RoomOK(room) /\ room.loadID \in Nat /\ OtherTypes /\ room.phase = "started"
      /\ engine = room.loadID
  BY <1>1, EngineRoom
<1>3. OtherTypes'
  BY <1>1, <1>2 DEF OtherTypes, clientVars, timerVars
<1>4. LoadingIsGated'
  BY <1>1, <1>2 DEF LoadingIsGated
<1>5. LoadsInOrder'
  BY <1>1, <1>2 DEF IInv, LoadsInOrder, clientVars
<1>6. EngineMatchesMatch' /\ WatchersSawAnExit'
  BY <1>1, <1>2 DEF IInv, EngineMatchesMatch, WatchersSawAnExit, Forge, Started
<1>7. TimerInOrder'
  BY <1>1 DEF IInv, TimerInOrder, Sideboarding, Playing, Started, timerVars
<1>8. QED
  BY <1>1, <1>2, <1>3, <1>4, <1>5, <1>6, <1>7, StepTogether

\* A watcher that gets the lock ends its own game, which has lost its runtime.
LEMMA WatchRuntimeStep ==
  ASSUME IInv, NEW g \in watch, WatchRuntime(g)
  PROVE  /\ IInv' /\ (alive => UNCHANGED <<room, engine>>) /\ watch \ {g} \subseteq watch'
         /\ UNCHANGED room \/ room'.phase = "waiting"
<1>1. /\ watch' = watch \ {g} /\ UNCHANGED <<mode, clientVars, timerVars>>
      /\ IF room.phase # "closed" /\ engine = g THEN Terminate ELSE UNCHANGED <<room, engine, alive>>
  BY DEF WatchRuntime
<1>2. /\ 0 \notin watch /\ (engine \in watch => ~alive)
  BY DEF IInv, WatchersSawAnExit
<1>3. CASE room.phase # "closed" /\ engine = g
  <2>1. engine # 0 /\ ~alive /\ Terminate /\ watch' \subseteq watch
    BY <1>1, <1>2, <1>3
  <2>2. IInv' /\ room'.phase = "waiting"
    BY <1>1, <2>1, TerminateStep
  <2>3. QED
    BY <1>1, <2>1, <2>2
<1>4. CASE ~(room.phase # "closed" /\ engine = g)
  <2>1. UNCHANGED <<room, engine, alive>>
    BY <1>1, <1>4
  <2>2. OtherTypes'
    BY <1>1, <2>1 DEF IInv, OtherTypes, clientVars, timerVars
  <2>3. LoadingIsGated'
    BY <1>1, <2>1 DEF IInv, LoadingIsGated, Taken, Seats, EDH, MinPlayers, clientVars
  <2>4. LoadsInOrder'
    <3>1. Humans(room)' = Humans(room)
      BY <1>1, <2>1 DEF Humans, Seats, EDH
    <3>2. UNCHANGED fetched
      BY <1>1 DEF clientVars
    <3>3. QED
      BY <1>1, <2>1, <3>1, <3>2 DEF IInv, LoadsInOrder
  <2>5. EngineMatchesMatch' /\ WatchersSawAnExit'
    <3>1. engine # 0 => Started(room)
      BY DEF IInv, EngineMatchesMatch
    <3>2. engine # 0 => engine # g
      BY <1>4, <3>1 DEF Started
    <3>3. engine # 0 /\ engine \in watch => engine \in watch'
      BY <1>1, <3>2
    <3>4. EngineMatchesMatch'
      BY <1>1, <2>1, <3>3 DEF IInv, EngineMatchesMatch, Forge, Started
    <3>5. WatchersSawAnExit'
      BY <1>1, <1>2, <2>1 DEF WatchersSawAnExit
    <3>6. QED
      BY <3>4, <3>5
  <2>6. TimerInOrder'
    BY <1>1, <2>1 DEF IInv, TimerInOrder, Sideboarding, Playing, Started, timerVars
  <2>7. RoomOK(room)
    BY DEF IInv
  <2>8. IInv'
    BY <1>1, <2>1, <2>2, <2>3, <2>4, <2>5, <2>6, <2>7, StepTogether
  <2>9. QED
    BY <1>1, <2>1, <2>8
<1>5. QED
  BY <1>3, <1>4

\* What a step of a sideboarding finds.
LEMMA SideRoom ==
  ASSUME IInv, Sideboarding(room)
  PROVE  /\ ModeOK /\ RoomOK(room) /\ room \in RoomState /\ room.loadID \in Nat /\ OtherTypes
         /\ Started(room) /\ room.phase = "started" /\ room.game # NoGame
         /\ room.game.side \in SideBoardings /\ ~Running(room) /\ ~Decided(room) /\ engine = 0
<1>1. ModeOK /\ RoomOK(room) /\ OtherTypes
  BY DEF IInv
<1>2. room \in RoomState /\ room.loadID \in Nat /\ room.game \in Games
  BY <1>1, RoomFields DEF RoomOK
<1>3. Playing(room) /\ ~Decided(room)
  BY <1>1, LiveOrDecided
<1>4. Started(room) /\ room.phase = "started" /\ room.game # NoGame /\ ~Running(room)
  BY <1>3 DEF Playing, Started, Running
<1>5. room.game.side \in SideBoardings
  BY <1>2, GameParts
<1>6. engine = 0
  BY <1>4 DEF IInv, EngineMatchesMatch
<1>7. QED
  BY <1>1, <1>2, <1>3, <1>4, <1>5, <1>6

\* A player changes what is pending: the room sideboards as before.
LEMMA SideChangedStep ==
  ASSUME IInv, Sideboarding(room), NEW side, side \in SideBoardings, side.id = room.game.side.id,
         room' = [room EXCEPT !.game.side = side], UNCHANGED <<mode, clientVars, engineVars, timerVars>>
  PROVE  IInv' /\ room'.deck = room.deck
<1>1. /\ ModeOK /\ RoomOK(room) /\ room.loadID \in Nat /\ OtherTypes /\ room.phase = "started" /\ ~Running(room)
  BY SideRoom
<1>2. PICK next : next = WithSide(room, side)
  OBVIOUS
<1>3. /\ RoomOK(next)
      /\ next.phase = room.phase /\ next.deck = room.deck /\ next.loadID = room.loadID
      /\ next.game # NoGame /\ next.game.side = side
  <2>1. /\ ModeOK /\ RoomOK(room) /\ Sideboarding(room) /\ side \in SideBoardings
        /\ side.id = room.game.side.id /\ next = WithSide(room, side)
    BY <1>1, <1>2
  <2>2. QED
    BY ONLY <2>1, SideChangedOK
<1>4. room' = next /\ ~Running(next)
  BY <1>2, <1>3 DEF Running, WithSide
<1>5. announced' \in [Seat -> Decks] /\ UNCHANGED fetched
  BY <1>1 DEF OtherTypes, clientVars
<1>6. next.loadID >= room.loadID /\ next.phase # "loading" /\ room.phase # "closed"
      /\ (Running(next) <=> Running(room))
      /\ (Sideboarding(next) => Sideboarding(room) /\ next.game.side.id = room.game.side.id)
  BY <1>1, <1>3, <1>4
<1>7. IInv'
  BY <1>1, <1>3, <1>4, <1>5, <1>6, QuietStep
<1>8. QED
  BY <1>3, <1>4, <1>7

LEMMA RepartitionStep ==
  ASSUME IInv, NEW s \in Seats, NEW split \in {0, 1}, Repartition(s, split)
  PROVE  IInv' /\ room'.deck = room.deck
<1>1. /\ Sideboarding(room)
      /\ room' = [room EXCEPT !.game.side.split[s] = split, !.game.side.ready[s] = FALSE]
      /\ UNCHANGED <<mode, clientVars, engineVars, timerVars>>
  BY DEF Repartition
<1>2. room \in RoomState /\ room.game.side \in SideBoardings /\ s \in Seat
  BY <1>1, SideRoom, SeatFacts
<1> DEFINE side == [room.game.side EXCEPT !.split[s] = split, !.ready[s] = FALSE]
<1>3. room' = [room EXCEPT !.game.side = side]
  BY <1>1, <1>2 DEF RoomState, Games
<1>4. side \in SideBoardings /\ side.id = room.game.side.id
  BY <1>2 DEF SideBoardings
<1> HIDE DEF side
<1>5. QED
  BY <1>1, <1>3, <1>4, SideChangedStep

LEMMA ChooseStartingPlayerStep ==
  ASSUME IInv, NEW s \in Seats, NEW t \in Seats, ChooseStartingPlayer(s, t)
  PROVE  IInv' /\ room'.deck = room.deck
<1>1. /\ Sideboarding(room)
      /\ room' = [room EXCEPT !.game.side.chosen = t, !.game.side.ready[s] = FALSE]
      /\ UNCHANGED <<mode, clientVars, engineVars, timerVars>>
  BY DEF ChooseStartingPlayer
<1>2. room \in RoomState /\ room.game.side \in SideBoardings /\ s \in Seat /\ t \in SeatOrNone
  BY <1>1, SideRoom, SeatFacts DEF SeatOrNone
<1> DEFINE side == [room.game.side EXCEPT !.chosen = t, !.ready[s] = FALSE]
<1>3. room' = [room EXCEPT !.game.side = side]
  BY <1>1, <1>2 DEF RoomState, Games
<1>4. side \in SideBoardings /\ side.id = room.game.side.id
  BY <1>2 DEF SideBoardings
<1> HIDE DEF side
<1>5. QED
  BY <1>1, <1>3, <1>4, SideChangedStep

\* The next game of the match is dealt, or handed to a new engine.  The decks
\* are those of the players' partitions if these are committed.
LEMMA CompleteSideboardStep ==
  ASSUME IInv, Sideboarding(room), NEW rm, RoomOK(rm), Sideboarding(rm), rm.loadID = room.loadID,
         rm.deck = room.deck, NEW commit \in BOOLEAN, CompleteSideboard(rm, commit),
         UNCHANGED <<mode, clientVars>>, TimerInOrder',
         sides' \in Nat /\ lapsed' \in Nat /\ sideTimer' \in Nat,
         armed' \in SUBSET Nat /\ fired' \in SUBSET Nat
  PROVE  /\ IInv'
         /\ \/ room'.deck = room.deck \/ room'.phase # "started"
            \/ commit /\ \A s \in Seats : room'.deck[s].split = rm.game.side.split[s]
<1> DEFINE next == IF commit THEN CommitDecks(rm) ELSE rm
           side == rm.game.side
           starter == IF side.chosen # NoSeat THEN side.chosen ELSE side.loser
<1>1. /\ ModeOK /\ RoomOK(room) /\ room.loadID \in Nat /\ OtherTypes /\ room.phase = "started"
      /\ ~Running(room) /\ engine = 0
  BY SideRoom
<1>2. IF Forge THEN Transition(PrepareNextRulesGame(next, side.loser))
      ELSE /\ \/ \E g \in SetupGame(next, rm.game.number + 1, starter) :
                    room' = [next EXCEPT !.game = g]
              \/ "setup" \in Faults /\ UNCHANGED room
           /\ UNCHANGED engineVars
  BY DEF CompleteSideboard
<1>3. /\ RoomOK(next) /\ next.phase = rm.phase /\ next.game = rm.game /\ next.loadID = rm.loadID
      /\ \/ next.deck = rm.deck
         \/ commit /\ \A s \in Seats : next.deck[s].split = rm.game.side.split[s]
  <2>1. CASE commit
    <3>1. next = CommitDecks(rm)
      BY <2>1
    <3> HIDE DEF next
    <3>2. QED
      BY <1>1, <2>1, <3>1, CommitDecksOK
  <2>2. CASE ~commit
    BY <2>2
  <2>3. QED
    BY <2>1, <2>2
<1> HIDE DEF next, starter
<1>4. /\ Sideboarding(next) /\ Started(next) /\ ~Decided(next) /\ next.phase = "started"
      /\ next.game \in Games /\ next \in RoomState /\ side.loser \in SeatOrNone
  <2>1. Sideboarding(next)
    BY <1>3 DEF Sideboarding, Playing, Started
  <2>2. Started(next) /\ ~Decided(next)
    BY <1>3, <2>1, LiveOrDecided
  <2>3. next.game \in Games /\ next \in RoomState
    BY <1>3, RoomFields DEF RoomOK
  <2>4. side.loser \in SeatOrNone
    BY <1>3, <2>3, GameParts
  <2>5. QED
    BY <2>1, <2>2, <2>3, <2>4 DEF Started
<1>5. announced' \in [Seat -> Decks] /\ UNCHANGED <<mode, fetched>>
  BY <1>1 DEF OtherTypes, clientVars
<1> HIDE DEF side
<1>6. CASE Forge
  <2>1. PICK begun : begun = PrepareNextRulesGame(next, side.loser)
    OBVIOUS
  <2>2. /\ RoomOK(begun) /\ begun.phase = "started" /\ begun.loadID = next.loadID + 1 /\ begun.game = NoGame
        /\ begun.deck = next.deck
    BY <1>1, <1>3, <1>4, <1>6, <2>1, PrepareNextOK
  <2>3. \/ room' = begun /\ engine' = begun.loadID /\ alive' = TRUE /\ UNCHANGED watch
        \/ room' = Reset(begun) /\ engine' = 0 /\ UNCHANGED <<alive, watch>>
    BY <1>2, <1>6, <2>1 DEF Transition
  <2>4. Running(begun) /\ begun.loadID >= room.loadID /\ begun.loadID # 0 /\ begun.loadID \notin watch
        /\ room.phase # "closed"
    BY <1>1, <1>3, <1>6, <2>2, FreshLoad DEF Running, Started
  <2>5. IInv' /\ (room'.phase = "started" => room' = begun)
    BY <1>5, <2>2, <2>3, <2>4, LaunchStep
  <2>6. QED
    BY <1>3, <2>2, <2>5 DEF side
<1>7. CASE ~Forge /\ \E g \in SetupGame(next, rm.game.number + 1, starter) : room' = [next EXCEPT !.game = g] /\ UNCHANGED engineVars
  <2>1. PICK g \in SetupGame(next, rm.game.number + 1, starter) : room' = [next EXCEPT !.game = g] /\ UNCHANGED engineVars
    BY <1>7
  <2>2. PICK dealt : dealt = WithGame(next, g)
    OBVIOUS
  <2>3. g \in SetupGame(next, next.game.number + 1, starter)
    BY <1>3
  <2>4. /\ RoomOK(dealt) /\ dealt.phase = "started" /\ dealt.loadID = next.loadID /\ dealt.game.side = NoSide
    <3>1. /\ ModeOK /\ RoomOK(next) /\ ~Forge /\ Sideboarding(next)
          /\ g \in SetupGame(next, next.game.number + 1, starter) /\ dealt = WithGame(next, g)
      BY <1>1, <1>3, <1>4, <1>7, <2>2, <2>3
    <3>2. QED
      BY ONLY <3>1, NextGameOK
  <2>5. room' = dealt /\ dealt.deck = next.deck
    BY <1>4, <2>1, <2>2 DEF RoomState, WithGame
  <2>6. ~Running(dealt)
    BY <1>7 DEF Running
  <2>7. EngineMatchesMatch' /\ WatchersSawAnExit'
    BY <1>1, <1>5, <2>1, <2>5, <2>6, EngineKept DEF engineVars
  <2>8. engine' \in Nat /\ alive' \in BOOLEAN /\ watch' \subseteq watch /\ dealt.phase # "loading"
        /\ room.phase # "closed" /\ dealt.loadID >= room.loadID
    BY <1>1, <1>3, <2>1, <2>4 DEF engineVars, OtherTypes
  <2>9. IInv'
    BY <1>5, <2>4, <2>5, <2>7, <2>8, SettledStep
  <2>10. QED
    BY <1>3, <2>5, <2>9 DEF side
<1>8. CASE ~Forge /\ UNCHANGED <<room, engineVars>>
  <2>1. PICK same : same = room
    OBVIOUS
  <2>2. room' = same /\ RoomOK(same) /\ same.phase # "loading" /\ room.phase # "closed" /\ same.loadID >= room.loadID
        /\ ~Running(same)
    BY <1>1, <1>8, <2>1
  <2>3. EngineMatchesMatch' /\ WatchersSawAnExit'
    BY <1>1, <1>5, <1>8, <2>2, EngineKept DEF engineVars
  <2>4. engine' \in Nat /\ alive' \in BOOLEAN /\ watch' \subseteq watch
    BY <1>1, <1>8 DEF engineVars, OtherTypes
  <2>5. IInv'
    BY <1>5, <2>2, <2>3, <2>4, SettledStep
  <2>6. QED
    BY <1>8, <2>5
<1>9. QED
  BY <1>2, <1>6, <1>7, <1>8

\* A player locks in or takes it back; the last one to lock in commits all decks.
LEMMA SetSideboardReadyStep ==
  ASSUME IInv, NEW s \in Seats, NEW ready \in BOOLEAN, SetSideboardReady(s, ready)
  PROVE  /\ IInv' /\ Sideboarding(room) /\ fired' = fired /\ watch' = watch
         /\ \/ room'.deck = room.deck \/ room'.phase # "started"
            \/ /\ \A t \in Seats \ {s} : room.game.side.ready[t]
               /\ \A t \in Seats : room'.deck[t].split = room.game.side.split[t]
<1> DEFINE side == [room.game.side EXCEPT !.ready[s] = ready]
           rm == WithSide(room, side)
<1>1. /\ Sideboarding(room)
      /\ LET edited == [room EXCEPT !.game.side.ready[s] = ready]
         IN  IF \A t \in Seats : edited.game.side.ready[t]
             THEN /\ CompleteSideboard(edited, TRUE)
                  /\ IF room' = room THEN UNCHANGED timerVars ELSE CancelTimer
             ELSE room' = edited /\ UNCHANGED <<engineVars, timerVars>>
      /\ UNCHANGED <<mode, clientVars>>
  BY DEF SetSideboardReady
<1>2. /\ ModeOK /\ RoomOK(room) /\ room \in RoomState /\ room.game.side \in SideBoardings /\ s \in Seat
      /\ OtherTypes
  BY <1>1, SideRoom, SeatFacts
<1>3. rm = [room EXCEPT !.game.side.ready[s] = ready]
  BY <1>2 DEF WithSide, RoomState, Games
<1>4. /\ IF \A t \in Seats : rm.game.side.ready[t]
         THEN /\ CompleteSideboard(rm, TRUE)
              /\ IF room' = room THEN UNCHANGED timerVars ELSE CancelTimer
         ELSE room' = rm /\ UNCHANGED <<engineVars, timerVars>>
      /\ UNCHANGED <<mode, clientVars>>
  BY <1>1, <1>3
<1>5. /\ side \in SideBoardings /\ side.id = room.game.side.id /\ side.split = room.game.side.split
      /\ \A t \in Seats \ {s} : side.ready[t] = room.game.side.ready[t]
  BY <1>2, SeatFacts DEF SideBoardings
<1> HIDE DEF side
<1>6. /\ RoomOK(rm) /\ rm.phase = room.phase /\ rm.deck = room.deck /\ rm.loadID = room.loadID
      /\ Sideboarding(rm) /\ rm.game.side = side
  <2>1. PICK edited : edited = WithSide(room, side)
    OBVIOUS
  <2>2. /\ RoomOK(edited) /\ edited.phase = room.phase /\ edited.deck = room.deck
        /\ edited.loadID = room.loadID /\ Sideboarding(edited) /\ edited.game.side = side
    <3>1. /\ ModeOK /\ RoomOK(room) /\ Sideboarding(room) /\ side \in SideBoardings
          /\ side.id = room.game.side.id /\ edited = WithSide(room, side)
      BY <1>1, <1>2, <1>5, <2>1
    <3>2. QED
      BY ONLY <3>1, SideChangedOK
  <2>3. QED
    BY <2>1, <2>2
<1>7. CASE ~(\A t \in Seats : rm.game.side.ready[t])
  <2>1. room' = [room EXCEPT !.game.side = side] /\ UNCHANGED <<mode, clientVars, engineVars, timerVars>>
    BY <1>4, <1>7 DEF WithSide
  <2>2. IInv' /\ room'.deck = room.deck
    BY <1>1, <1>5, <2>1, SideChangedStep
  <2>3. QED
    BY <1>1, <2>1, <2>2 DEF timerVars, engineVars
<1>8. CASE \A t \in Seats : rm.game.side.ready[t]
  <2>1. /\ CompleteSideboard(rm, TRUE) /\ UNCHANGED <<mode, clientVars>>
        /\ (room' = room /\ UNCHANGED timerVars) \/ CancelTimer
    BY <1>4, <1>8
  <2>2. /\ TimerInOrder' /\ fired' = fired
        /\ sides' \in Nat /\ lapsed' \in Nat /\ sideTimer' \in Nat
        /\ armed' \in SUBSET Nat /\ fired' \in SUBSET Nat
    <3>1. CASE room' = room /\ UNCHANGED timerVars
      BY <1>2, <3>1 DEF IInv, TimerInOrder, Sideboarding, Playing, Started, timerVars, OtherTypes
    <3>2. CASE CancelTimer
      BY <3>2, TimerCancelled DEF CancelTimer
    <3>3. QED
      BY <2>1, <3>1, <3>2
  <2>3. PICK commit : commit = TRUE
    OBVIOUS
  <2>4. commit \in BOOLEAN /\ CompleteSideboard(rm, commit)
    BY <2>1, <2>3
  <2> HIDE DEF rm
  <2>5. /\ IInv'
        /\ \/ room'.deck = room.deck \/ room'.phase # "started"
           \/ commit /\ \A t \in Seats : room'.deck[t].split = rm.game.side.split[t]
    BY <1>1, <1>6, <2>1, <2>2, <2>4, CompleteSideboardStep
  <2>6. \A t \in Seats \ {s} : room.game.side.ready[t]
    BY <1>5, <1>6, <1>8
  <2>7. watch' = watch
    <3>1. UNCHANGED engineVars \/ \E b : Transition(b)
      BY <2>1 DEF CompleteSideboard
    <3>2. QED
      BY <3>1 DEF engineVars, Transition
  <2>8. QED
    BY <1>1, <1>5, <1>6, <2>2, <2>5, <2>6, <2>7
<1>9. QED
  BY <1>7, <1>8

\* A clock or a timer does something, and the room is as it was.
LEMMA RoomKeptStep ==
  ASSUME IInv, UNCHANGED <<mode, room, clientVars, engineVars>>, TimerInOrder',
         sides' \in Nat /\ lapsed' \in Nat /\ sideTimer' \in Nat,
         armed' \in SUBSET Nat /\ fired' \in SUBSET Nat
  PROVE  IInv'
<1>1. RoomOK(room) /\ OtherTypes
  BY DEF IInv
<1>2. OtherTypes'
  BY <1>1 DEF OtherTypes, clientVars, engineVars
<1>3. LoadingIsGated'
  BY DEF IInv, LoadingIsGated, Taken, Seats, EDH, MinPlayers, clientVars
<1>4. LoadsInOrder'
  <2>1. Humans(room)' = Humans(room)
    BY DEF Humans, Seats, EDH
  <2>2. QED
    BY <2>1 DEF IInv, LoadsInOrder, clientVars, engineVars
<1>5. EngineMatchesMatch' /\ WatchersSawAnExit'
  BY DEF IInv, EngineMatchesMatch, WatchersSawAnExit, Forge, Started, engineVars
<1>6. QED
  BY <1>1, <1>2, <1>3, <1>4, <1>5, StepTogether

LEMMA PassDeadlineStep ==
  ASSUME IInv, PassDeadline
  PROVE  IInv'
<1>1. lapsed' = lapsed + 1 /\ UNCHANGED <<mode, room, clientVars, engineVars, sides, sideTimer, armed, fired>>
  BY DEF PassDeadline
<1>2. TimerInOrder'
  BY <1>1 DEF IInv, TimerInOrder, Sideboarding, Playing, Started
<1>3. /\ sides' \in Nat /\ lapsed' \in Nat /\ sideTimer' \in Nat
      /\ armed' \in SUBSET Nat /\ fired' \in SUBSET Nat
  BY <1>1 DEF IInv, OtherTypes
<1>4. QED
  BY <1>1, <1>2, <1>3, RoomKeptStep

LEMMA TimerFiresStep ==
  ASSUME IInv, NEW k \in armed \cup fired, TimerFires(k)
  PROVE  IInv'
<1>1. k \in armed /\ armed' = armed \ {k} /\ fired' = fired \cup {k}
      /\ UNCHANGED <<mode, room, clientVars, engineVars, sides, lapsed, sideTimer>>
  BY DEF TimerFires
<1>2. TimerInOrder'
  BY <1>1 DEF IInv, TimerInOrder, Sideboarding, Playing, Started
<1>3. /\ sides' \in Nat /\ lapsed' \in Nat /\ sideTimer' \in Nat
      /\ armed' \in SUBSET Nat /\ fired' \in SUBSET Nat
  BY <1>1 DEF IInv, OtherTypes
<1>4. QED
  BY <1>1, <1>2, <1>3, RoomKeptStep

\* The callback of a timer acts on the sideboarding it was started for, and
\* commits nothing.
LEMMA ExpireSideboardStep ==
  ASSUME IInv, NEW k \in armed \cup fired, ExpireSideboard(k)
  PROVE  /\ IInv' /\ fired \ {k} \subseteq fired' /\ watch' = watch
         /\ room'.deck = room.deck \/ room'.phase # "started"
         /\ room.game.side.id # k => room' = room /\ sideTimer \in {k, sideTimer'}
<1>1. /\ k \in fired /\ fired' = fired \ {k}
      /\ IF room.phase = "closed" \/ sideTimer # k THEN UNCHANGED <<room, engineVars, sideTimer>>
         ELSE sideTimer' = 0 /\ ExpireRoom
      /\ UNCHANGED <<mode, clientVars, sides, lapsed, armed>>
  BY DEF ExpireSideboard
<1>2. OtherTypes /\ RoomOK(room) /\ TimerInOrder
  BY DEF IInv
<1>3. CASE UNCHANGED <<room, engineVars, sideTimer>>
  <2>1. TimerInOrder'
    BY <1>1, <1>2, <1>3 DEF TimerInOrder, Sideboarding, Playing, Started
  <2>2. /\ sides' \in Nat /\ lapsed' \in Nat /\ sideTimer' \in Nat
        /\ armed' \in SUBSET Nat /\ fired' \in SUBSET Nat
    BY <1>1, <1>2, <1>3 DEF OtherTypes
  <2>3. IInv'
    BY <1>1, <1>3, <2>1, <2>2, RoomKeptStep
  <2>4. QED
    BY <1>1, <1>3, <2>3 DEF engineVars
<1>4. CASE sideTimer' = 0 /\ ExpireRoom /\ sideTimer = k
  <2>1. TimerInOrder'
    BY <1>1, <1>2, <1>4 DEF TimerInOrder
  <2>2. /\ sides' \in Nat /\ lapsed' \in Nat /\ sideTimer' \in Nat
        /\ armed' \in SUBSET Nat /\ fired' \in SUBSET Nat
    BY <1>1, <1>2, <1>4 DEF OtherTypes
  <2>3. CASE Sideboarding(room) /\ CompleteSideboard(room, FALSE)
    <3>1. room.game.side.id = k
      BY <1>1, <1>2, <1>4, <2>3 DEF TimerInOrder
    <3>2. PICK rm, commit : rm = room /\ commit = FALSE
      OBVIOUS
    <3>3. /\ RoomOK(rm) /\ Sideboarding(rm) /\ rm.loadID = room.loadID /\ rm.deck = room.deck
          /\ commit \in BOOLEAN /\ CompleteSideboard(rm, commit) /\ Sideboarding(room)
          /\ UNCHANGED <<mode, clientVars>>
      BY <1>1, <1>2, <2>3, <3>2
    <3>4. /\ IInv'
          /\ \/ room'.deck = room.deck \/ room'.phase # "started"
             \/ commit /\ \A t \in Seats : room'.deck[t].split = rm.game.side.split[t]
      BY <2>1, <2>2, <3>3, CompleteSideboardStep
    <3>5. watch' = watch
      <4>1. UNCHANGED engineVars \/ \E b : Transition(b)
        BY <2>3 DEF CompleteSideboard
      <4>2. QED
        BY <4>1 DEF engineVars, Transition
    <3>6. QED
      BY <1>1, <3>1, <3>2, <3>4, <3>5
  <2>4. CASE UNCHANGED <<room, engineVars>>
    <3>1. IInv'
      BY <1>1, <2>1, <2>2, <2>4, RoomKeptStep
    <3>2. QED
      BY <1>1, <1>4, <2>4, <3>1 DEF engineVars
  <2>5. QED
    BY <1>4, <2>3, <2>4 DEF ExpireRoom
<1>5. QED
  BY <1>1, <1>3, <1>4

LEMMA ReturnToRoomStep ==
  ASSUME IInv, NEW s \in Seats, ReturnToRoom(s)
  PROVE  IInv' /\ room'.phase = "waiting"
<1>1. Decided(room) /\ room' = Returned(room) /\ UNCHANGED <<mode, clientVars, engineVars, timerVars>>
  BY DEF ReturnToRoom, Returned
<1>2. ModeOK /\ RoomOK(room) /\ OtherTypes /\ room.loadID \in Nat
  BY RoomFields DEF IInv
<1>3. PICK next : next = Returned(room)
  OBVIOUS
<1>4. RoomOK(next) /\ next.phase = "waiting" /\ next.loadID = room.loadID /\ next.game = NoGame
  BY <1>2, <1>3, ReturnedOK
<1>5. room' = next /\ ~Running(next) /\ ~Sideboarding(next)
  BY <1>1, <1>3, <1>4 DEF Running, Started, Sideboarding, Playing
<1>6. ~Running(room) /\ room.phase = "started"
  BY <1>1 DEF Running, Decided, Playing, Started
<1>7. announced' \in [Seat -> Decks] /\ UNCHANGED fetched
  BY <1>1, <1>2 DEF OtherTypes, clientVars
<1>8. next.loadID >= room.loadID /\ next.phase # "loading" /\ room.phase # "closed"
      /\ (Running(next) <=> Running(room))
  BY <1>2, <1>4, <1>5, <1>6
<1>9. IInv'
  BY <1>1, <1>4, <1>5, <1>6, <1>7, <1>8, QuietStep
<1>10. QED
  BY <1>4, <1>5, <1>9

\* The seat of whoever departs is free.
LEMMA DepartedSeatIsFree ==
  ASSUME ModeOK, RoomOK(room), sides \in Nat, NEW s \in Seats
  PROVE  Departed(s).occ[s] = "free"
<1>1. PICK left : left = Forfeit(room, s)
  OBVIOUS
<1>2. left \in RoomState /\ s \in Seat
  BY <1>1, ForfeitOK, SeatFacts DEF RoomOK
<1> DEFINE free   == Vacate(left, s)
           hosted == IF room.host = s THEN TransferHost(free) ELSE free
<1>3. free \in RoomState /\ free.occ[s] = "free"
  <2>1. /\ [left.occ EXCEPT ![s] = "free"] \in [Seat -> {"free", "human", "ai"}]
        /\ [left.reg EXCEPT ![s] = NoDeck] \in [Seat -> Decks]
        /\ [left.deck EXCEPT ![s] = NoDeck] \in [Seat -> Decks]
    BY <1>2, EmptyTypes DEF RoomState
  <2>2. /\ [left.ready EXCEPT ![s] = FALSE] \in [Seat -> BOOLEAN]
        /\ [left.loaded EXCEPT ![s] = FALSE] \in [Seat -> BOOLEAN]
    BY <1>2 DEF RoomState
  <2>3. QED
    BY <1>2, <2>1, <2>2 DEF Vacate, RoomState
<1>4. Departed(s) = Cancel(hosted)
  BY <1>1 DEF Departed
<1> HIDE DEF free
<1>5. hosted.occ = free.occ
  BY <1>3 DEF TransferHost, RoomState
<1>6. Cancel(hosted).occ = hosted.occ
  <2>1. hosted \in RoomState \/ \E h : hosted = [free EXCEPT !.host = h]
    BY <1>3 DEF TransferHost
  <2>2. "occ" \in DOMAIN hosted
    BY <1>3, <2>1 DEF RoomState
  <2> HIDE DEF hosted
  <2>3. QED
    BY <2>2 DEF Cancel
<1>7. QED
  BY <1>3, <1>4, <1>5, <1>6

\* A player departs: a started Forge match is given up, anything else goes on.
LEMMA DepartStep ==
  ASSUME IInv, NEW s \in Seats, room.occ[s] = "human", UNCHANGED mode, Depart(s)
  PROVE  /\ IInv' /\ fired' = fired /\ watch' = watch
         /\ room'.phase # "started" \/ (Started(room) /\ room'.occ # room.occ)
<1>1. /\ ModeOK /\ RoomOK(room) /\ OtherTypes /\ room.loadID \in Nat /\ sides \in Nat
  BY RoomFields DEF IInv, OtherTypes
<1>2. /\ IF Forge /\ Started(room)
         THEN room' = Reset(Departed(s)) /\ engine' = 0 /\ UNCHANGED <<alive, watch>>
         ELSE room' = Departed(s) /\ UNCHANGED engineVars
      /\ Announce(room') /\ UNCHANGED <<fetched, timerVars>>
  BY DEF Depart, NoEngine
<1>3. PICK left : left = Departed(s)
  OBVIOUS
<1>4. /\ left \in RoomState /\ left.phase # "loading" /\ left.loadID = room.loadID
      /\ ~(Forge /\ Started(room)) => RoomOK(left)
      /\ room.phase = "closed" => left.phase = "closed"
      /\ Started(left) = Started(room)
      /\ Sideboarding(left) => Sideboarding(room) /\ left.game = room.game
  BY <1>1, <1>3, DepartedOK
<1>5. CASE Forge /\ Started(room)
  <2>1. PICK next : next = Reset(left)
    OBVIOUS
  <2>2. /\ RoomOK(next) /\ next.phase = "waiting" /\ next.game = NoGame /\ next.loadID = left.loadID
    BY <1>1, <1>4, <1>5, <2>1, ResetOK
  <2>3. room' = next /\ engine' = 0 /\ UNCHANGED <<alive, watch>>
    BY <1>2, <1>3, <1>5, <2>1
  <2>4. ~Running(next) /\ ~Sideboarding(next)
    BY <2>2 DEF Running, Started, Sideboarding, Playing
  <2>5. EngineMatchesMatch' /\ WatchersSawAnExit'
    BY <2>3, <2>4, EngineGone
  <2>6. TimerInOrder'
    BY <1>2, <2>3, <2>4, TimerKept
  <2>7. announced' \in [Seat -> Decks]
    BY <1>2, <2>2, <2>3, AnnouncedType DEF RoomOK
  <2>8. /\ engine' \in Nat /\ alive' \in BOOLEAN /\ watch' \subseteq watch
        /\ sides' \in Nat /\ lapsed' \in Nat /\ sideTimer' \in Nat
        /\ armed' \in SUBSET Nat /\ fired' \in SUBSET Nat
    BY <1>1, <1>2, <2>3 DEF OtherTypes, timerVars
  <2>9. next.phase # "loading" /\ room.phase # "closed" /\ next.loadID >= room.loadID
    BY <1>1, <1>4, <1>5, <2>2 DEF Started
  <2>10. IInv'
    BY <1>2, <2>2, <2>3, <2>5, <2>6, <2>7, <2>8, <2>9, SettledStep
  <2>11. QED
    BY <1>2, <2>2, <2>3, <2>10 DEF timerVars
<1>6. CASE ~(Forge /\ Started(room))
  <2>1. room' = left /\ UNCHANGED engineVars /\ RoomOK(left)
    BY <1>2, <1>3, <1>4, <1>6
  <2>2. ~Running(left) /\ ~Running(room)
    BY <1>4, <1>6 DEF Running
  <2>3. announced' \in [Seat -> Decks]
    BY <1>2, <2>1, AnnouncedType DEF RoomOK
  <2>4. left.phase = "closed" \/ (room.phase # "closed" /\ left.loadID >= room.loadID)
    BY <1>1, <1>4
  <2>5. Sideboarding(left) => Sideboarding(room) /\ left.game.side.id = room.game.side.id
    BY <1>4
  <2>6. IInv'
    BY <1>2, <1>4, <2>1, <2>2, <2>3, <2>4, <2>5, QuietStep
  <2>7. room'.occ # room.occ
    BY <1>1, <1>3, <2>1, DepartedSeatIsFree
  <2>8. room'.phase # "started" \/ Started(room)
    BY <1>4, <2>1 DEF Started
  <2>9. QED
    BY <1>2, <2>1, <2>6, <2>7, <2>8 DEF timerVars, engineVars
<1>7. QED
  BY <1>5, <1>6

\* The room is removed with its engine and its timer.
LEMMA CloseStep ==
  ASSUME IInv, UNCHANGED mode, Close
  PROVE  IInv' /\ fired' = fired /\ watch' = watch /\ room'.phase = "closed"
<1>1. /\ room' = ClosedRoom /\ announced' = Fill(NoDeck) /\ UNCHANGED fetched
      /\ engine' = 0 /\ UNCHANGED <<alive, watch>> /\ CancelTimer
  BY DEF Close, NoEngine
<1>2. ModeOK /\ OtherTypes
  BY DEF IInv
<1>3. PICK next : next = ClosedRoom
  OBVIOUS
<1>4. RoomOK(next) /\ next.phase = "closed" /\ next.game = NoGame
  BY <1>2, <1>3, ClosedRoomOK
<1>5. room' = next /\ ~Running(next)
  BY <1>1, <1>3, <1>4 DEF Running, Started
<1>6. EngineMatchesMatch' /\ WatchersSawAnExit'
  BY <1>1, <1>5, EngineGone
<1>7. /\ TimerInOrder'
      /\ sides' \in Nat /\ lapsed' \in Nat /\ sideTimer' \in Nat
      /\ armed' \in SUBSET Nat /\ fired' \in SUBSET Nat
  BY <1>1, TimerCancelled
<1>8. announced' \in [Seat -> Decks] /\ engine' \in Nat /\ alive' \in BOOLEAN /\ watch' \subseteq watch
  BY <1>1, <1>2, EmptyTypes DEF OtherTypes
<1>9. next.phase # "loading" /\ UNCHANGED <<mode, fetched>>
  BY <1>1, <1>4
<1>10. IInv'
  BY <1>4, <1>5, <1>6, <1>7, <1>8, <1>9, SettledStep
<1>11. QED
  BY <1>1, <1>4, <1>5, <1>10 DEF CancelTimer

LEMMA DepartureStep ==
  ASSUME IInv, NEW s \in Seats, Departure(s)
  PROVE  /\ IInv' /\ fired' = fired /\ watch' = watch
         /\ room'.phase # "started" \/ (Started(room) /\ room'.occ # room.occ)
<1>1. CASE room.occ[s] = "human" /\ UNCHANGED mode /\ Depart(s)
  BY <1>1, DepartStep
<1>2. CASE UNCHANGED mode /\ Close
  BY <1>2, CloseStep
<1>3. QED
  BY <1>1, <1>2 DEF Departure, LeaveRoom, KickPlayer, ExpireHold, DisbandRoom

(***************************************************************************)
(* The invariant, and what follows from it                                 *)
(***************************************************************************)
LEMMA InitOK == Init => IInv
<1> SUFFICES ASSUME Init PROVE IInv
  OBVIOUS
<1>1. ModeOK
  <2>1. /\ mode \in [rules : RulesModes, format : Formats, match : MatchModes, load : LoadModes, ai : AIRooms]
        /\ mode.format # "1v1" => mode.match = "bo1"
    BY DEF Init
  <2>2. QED
    BY <2>1, ModesAssumption DEF ModeOK
<1>2. /\ room \in RoomState /\ room.phase = "waiting" /\ room.game = NoGame /\ room.loadID = 0
      /\ room.drawn = 0 /\ \A s \in Seat : room.score[s] = 0
  <2>1. /\ Fill(NoDeck) \in [Seat -> Decks] /\ Fill(FALSE) \in [Seat -> BOOLEAN] /\ Fill(0) \in [Seat -> Nat]
        /\ NoSeat \in SeatOrNone /\ NoGame \in Games
    BY EmptyTypes
  <2>2. 0 \in SeatOrNone
    BY BoundsAssumption DEF SeatOrNone, Seat
  <2>3. [s \in Seat |-> IF s = 0 THEN "human" ELSE IF s = 1 /\ mode.ai THEN "ai" ELSE "free"]
          \in [Seat -> {"free", "human", "ai"}]
    OBVIOUS
  <2>4. room \in RoomState
    BY <2>1, <2>2, <2>3 DEF Init, RoomState
  <2>5. QED
    BY <2>4 DEF Init, Fill
<1>3. RoomOK(room)
  BY <1>1, <1>2, IdleOK DEF Started
<1>4. /\ announced \in [Seat -> Decks] /\ fetched \in [Seat -> Nat] /\ \A s \in Seat : fetched[s] = 0
      /\ engine = 0 /\ alive = FALSE /\ watch = {}
      /\ sides = 0 /\ lapsed = 0 /\ sideTimer = 0 /\ armed = {} /\ fired = {}
  <2>1. Fill(NoDeck) \in [Seat -> Decks] /\ Fill(0) \in [Seat -> Nat] /\ \A s \in Seat : Fill(0)[s] = 0
    BY EmptyTypes DEF Fill
  <2>2. QED
    BY <2>1 DEF Init
<1>5. OtherTypes
  BY <1>4 DEF OtherTypes
<1>6. LoadingIsGated /\ LoadsInOrder
  BY <1>2, <1>4 DEF LoadingIsGated, LoadsInOrder
<1>7. EngineMatchesMatch /\ WatchersSawAnExit /\ TimerInOrder
  BY <1>2, <1>4 DEF EngineMatchesMatch, WatchersSawAnExit, TimerInOrder, Started
<1>8. QED
  BY <1>1, <1>3, <1>5, <1>6, <1>7 DEF IInv

LEMMA PreparationStep ==
  ASSUME IInv, NEW s \in Seats, Preparation(s)
  PROVE  IInv'
<1>1. CASE Join(s)
  BY <1>1, JoinStep
<1>2. CASE FetchCards(s)
  BY <1>2, FetchCardsStep
<1>3. ASSUME NEW list \in Lists, SelectDeck(s, list) PROVE IInv'
  BY <1>3, SelectDeckStep
<1>4. ASSUME NEW list \in Lists \cup {NoList}, ConfigureAI(s, list) PROVE IInv'
  BY <1>4, ConfigureAIStep
<1>5. ASSUME NEW ready \in BOOLEAN, SetReady(s, ready) PROVE IInv'
  BY <1>5, SetReadyStep
<1>6. ASSUME NEW id \in 1 .. room.loadID, CompleteLoad(s, id) PROVE IInv'
  BY <1>6, CompleteLoadStep
<1>7. QED
  BY <1>1, <1>2, <1>3, <1>4, <1>5, <1>6 DEF Preparation

LEMMA PlayStep ==
  ASSUME IInv, NEW s \in Seats, Play(s)
  PROVE  IInv'
<1>1. CASE NextTurn(s) \/ Concede(s) \/ DeclareDraw(s) \/ RestartGame(s)
  BY <1>1, NextTurnStep, ConcedeStep, DeclareDrawStep, RestartGameStep
<1>2. CASE ForgeConcede(s)
  <2>1. PICK winner \in (Taken(room) \cup {NoSeat}) \ {s} : RulesResult(winner, TRUE)
    BY <1>2 DEF ForgeConcede
  <2>2. PICK conceded : conceded = TRUE
    OBVIOUS
  <2>3. winner \in Taken(room) \cup {NoSeat} /\ conceded \in BOOLEAN /\ RulesResult(winner, conceded)
    BY <2>1, <2>2
  <2>4. QED
    BY <2>3, RulesResultStep
<1>3. CASE ForgeRestart(s) \/ ReturnToRoom(s)
  BY <1>3, ForgeRestartStep, ReturnToRoomStep
<1>4. ASSUME NEW split \in {0, 1}, Repartition(s, split) PROVE IInv'
  BY <1>4, RepartitionStep
<1>5. ASSUME NEW t \in Seats, ChooseStartingPlayer(s, t) PROVE IInv'
  BY <1>5, ChooseStartingPlayerStep
<1>6. ASSUME NEW ready \in BOOLEAN, SetSideboardReady(s, ready) PROVE IInv'
  BY <1>6, SetSideboardReadyStep
<1>7. QED
  BY <1>1, <1>2, <1>3, <1>4, <1>5, <1>6 DEF Play

LEMMA EngineStepKeeps ==
  ASSUME IInv, EngineStep
  PROVE  IInv'
<1>1. CASE PublishResult
  <2>1. PICK winner \in Taken(room) \cup {NoSeat} : RulesResult(winner, FALSE)
    BY <1>1 DEF PublishResult
  <2>2. PICK conceded : conceded = FALSE
    OBVIOUS
  <2>3. conceded \in BOOLEAN /\ RulesResult(winner, conceded)
    BY <2>1, <2>2
  <2>4. QED
    BY <2>3, RulesResultStep
<1>2. CASE FailGame \/ RuntimeExits
  BY <1>2, FailGameStep, RuntimeExitsStep
<1>3. ASSUME NEW s \in Seats, RecordStart(s) \/ ExpireActionClock(s) PROVE IInv'
  BY <1>3, RecordStartStep, ExpireActionClockStep
<1>4. QED
  BY <1>1, <1>2, <1>3 DEF EngineStep

LEMMA StutterStep ==
  ASSUME IInv, UNCHANGED vars
  PROVE  IInv'
<1>1. UNCHANGED <<mode, room, clientVars, engineVars>> /\ UNCHANGED timerVars
  BY DEF vars
<1>2. TimerInOrder'
  BY <1>1 DEF IInv, TimerInOrder, Sideboarding, Playing, Started, timerVars
<1>3. /\ sides' \in Nat /\ lapsed' \in Nat /\ sideTimer' \in Nat
      /\ armed' \in SUBSET Nat /\ fired' \in SUBSET Nat
  BY <1>1 DEF IInv, OtherTypes, timerVars
<1>4. QED
  BY <1>1, <1>2, <1>3, RoomKeptStep

LEMMA NextOK == IInv /\ [Next]_vars => IInv'
<1> SUFFICES ASSUME IInv, [Next]_vars PROVE IInv'
  OBVIOUS
<1>1. ASSUME NEW s \in Seats, Preparation(s) \/ Play(s) \/ Departure(s) PROVE IInv'
  BY <1>1, PreparationStep, PlayStep, DepartureStep
<1>2. CASE EngineStep
  BY <1>2, EngineStepKeeps
<1>3. CASE PassDeadline
  BY <1>3, PassDeadlineStep
<1>4. ASSUME NEW g \in watch, WatchRuntime(g) PROVE IInv'
  BY <1>4, WatchRuntimeStep
<1>5. ASSUME NEW k \in armed \cup fired, TimerStep(k) PROVE IInv'
  BY <1>5, TimerFiresStep, ExpireSideboardStep DEF TimerStep
<1>6. CASE UNCHANGED vars
  BY <1>6, StutterStep
<1>7. QED
  BY <1>1, <1>2, <1>3, <1>4, <1>5, <1>6 DEF Next

LEMMA Invariant == Spec => []IInv
<1>1. Init => IInv
  BY InitOK
<1>2. IInv /\ [Next]_vars => IInv'
  BY NextOK
<1>3. QED
  BY <1>1, <1>2, PTL DEF Spec

\* Every variable keeps the shape of the Go state it stands for, for any number
\* of seats, decks, loads, sideboardings and draws.
THEOREM TypeCorrect == Spec => []TypeOK
<1>1. IInv => TypeOK
  BY DEF IInv, ModeOK, RoomOK, OtherTypes, TypeOK
<1>2. QED
  BY <1>1, Invariant, PTL

\* The room only loads the decks it announced, for a full table that is ready:
\* whoever joins late, leaves or changes a deck finds or makes it waiting.
THEOREM LoadsWhatItAnnounced == Spec => []LoadingIsGated
<1>1. IInv => LoadingIsGated
  BY DEF IInv
<1>2. QED
  BY <1>1, Invariant, PTL

\* An engine game and a started match without a result belong together: no
\* engine leaks and no match waits for an engine nobody will report lost.
THEOREM EngineAndMatchAgree == Spec => []EngineMatchesMatch
<1>1. IInv => EngineMatchesMatch
  BY DEF IInv
<1>2. QED
  BY <1>1, Invariant, PTL

\* The turn of a manual game is with a seated player who is still in it, for
\* tables of any size and whoever concedes, departs or restarts.
THEOREM ActivePlayerPlays == Spec => []ActiveSeatPlays
<1>1. IInv => ActiveSeatPlays
  BY DEF IInv, RoomOK, TurnKept, ActiveSeatPlays
<1>2. QED
  BY <1>1, Invariant, PTL

\* The score, the number of the game and the state of the match agree.
THEOREM AccountsBalance == Spec => []MatchAccounts
<1>1. IInv => MatchAccounts
  <2> SUFFICES ASSUME IInv PROVE MatchAccounts
    OBVIOUS
  <2>1. /\ RoomOK(room) /\ room \in RoomState /\ room.game.number \in Nat /\ RulesGameNumber(room) \in Nat
        /\ Accounts(room)
    <3>1. RoomOK(room) /\ room \in RoomState /\ room.game \in Games /\ Accounts(room)
      BY RoomFields DEF IInv, RoomOK
    <3>2. QED
      BY <3>1, GameParts, GameNumbers
  <2>2. RulesGameNumber(room) - 1 + 1 = RulesGameNumber(room)
    BY <2>1
  <2>3. Started(room) /\ ~Decided(room) => \A s \in Seat : room.score[s] < Needed
    BY <2>1 DEF Accounts
  <2>4. Live(room) => room.game.number = RulesGameNumber(room) - 1 + 1
    BY <2>1, <2>2 DEF Accounts
  <2>5. ASSUME Playing(room), ~Live(room), ~Decided(room)
        PROVE  /\ Sideboarding(room) /\ Taken(room) = Seats
               /\ \/ room.game.number = RulesGameNumber(room) - 1
                  \/ Forge /\ room.game.result.winner = NoSeat
                       /\ room.game.number = RulesGameNumber(room) - 1 + 1
    <3>1. /\ Sideboarding(room)
          /\ \/ room.game.number + 1 = RulesGameNumber(room)
             \/ Forge /\ room.game.result.winner = NoSeat /\ room.game.number = RulesGameNumber(room)
      BY <2>1, <2>5 DEF Accounts
    <3>2. Started(room) /\ ~EDH
      BY <2>1, <3>1, LiveOrDecided
    <3>3. Taken(room) = Seats
      BY <2>1, <2>5, <3>2 DEF RoomOK, FullTable, Taken
    <3>4. CASE room.game.number + 1 = RulesGameNumber(room)
      <4>1. room.game.number = RulesGameNumber(room) - 1
        BY <2>1, <3>4
      <4>2. QED
        BY <3>1, <3>3, <4>1
    <3>5. CASE Forge /\ room.game.result.winner = NoSeat /\ room.game.number = RulesGameNumber(room)
      BY <2>2, <3>1, <3>3, <3>5
    <3>6. QED
      BY <3>1, <3>4, <3>5
  <2>6. Decided(room) => ~Sideboarding(room) /\ \A s \in Seat :
           IF s = room.game.result.winner THEN room.score[s] = Needed ELSE room.score[s] < Needed
    BY <2>1 DEF Accounts
  <2>7. QED
    BY <2>3, <2>4, <2>5, <2>6 DEF MatchAccounts
<1>2. QED
  BY <1>1, Invariant, PTL

(***************************************************************************)
(* What a step may never do                                                *)
(***************************************************************************)
\* Only a watcher that got the lock forgets a game, only a callback that got it
\* is over.
LEMMA OthersForgetNothing ==
  /\ \A s \in Seats : Preparation(s) \/ Play(s) \/ Departure(s) => watch' = watch /\ fired' = fired
  /\ EngineStep => watch \subseteq watch' /\ fired' = fired
  /\ PassDeadline => watch' = watch /\ fired' = fired
  /\ \A g \in watch : WatchRuntime(g) => fired' = fired
  /\ \A k \in armed \cup fired : TimerFires(k) => watch' = watch /\ fired \subseteq fired'
<1>1. \A rm, running : Launch(rm, running) \/ Transition(rm) => watch' = watch
  BY DEF Launch, Transition
<1>2. \A rm : Schedule(rm) \/ CancelTimer => fired' = fired
  BY DEF Schedule, CancelTimer, timerVars
<1>3. ASSUME NEW s \in Seats, Preparation(s)
      PROVE  watch' = watch /\ fired' = fired
  <2>1. \A rm : Begin(rm) \/ BeginLoaded(rm) => watch' = watch
    BY <1>1 DEF Begin, BeginLoaded, engineVars
  <2>2. CASE Join(s) \/ FetchCards(s)
    BY <2>2 DEF Join, FetchCards, engineVars, timerVars
  <2>3. ASSUME NEW list, SelectDeck(s, list) \/ ConfigureAI(s, list) PROVE watch' = watch /\ fired' = fired
    BY <2>3 DEF SelectDeck, ConfigureAI, engineVars, timerVars
  <2>4. ASSUME NEW ready, SetReady(s, ready) PROVE watch' = watch /\ fired' = fired
    BY <2>1, <2>4 DEF SetReady, engineVars, timerVars
  <2>5. ASSUME NEW id, CompleteLoad(s, id) PROVE watch' = watch /\ fired' = fired
    BY <2>1, <2>5 DEF CompleteLoad, engineVars, timerVars
  <2>6. QED
    BY <1>3, <2>2, <2>3, <2>4, <2>5 DEF Preparation
<1>4. \A winner, conceded : RulesResult(winner, conceded) => watch' = watch /\ fired' = fired
  BY <1>2 DEF RulesResult, NoEngine
<1>5. ASSUME NEW s \in Seats, Play(s)
      PROVE  watch' = watch /\ fired' = fired
  <2>1. CASE NextTurn(s) \/ RestartGame(s) \/ ReturnToRoom(s)
    BY <2>1 DEF NextTurn, RestartGame, ReturnToRoom, engineVars, timerVars
  <2>2. CASE Concede(s) \/ DeclareDraw(s)
    BY <1>2, <2>2 DEF Concede, DeclareDraw, engineVars
  <2>3. CASE ForgeConcede(s)
    BY <1>4, <2>3 DEF ForgeConcede
  <2>4. CASE ForgeRestart(s)
    BY <1>1, <2>4 DEF ForgeRestart, timerVars
  <2>5. ASSUME NEW split, Repartition(s, split) PROVE watch' = watch /\ fired' = fired
    BY <2>5 DEF Repartition, engineVars, timerVars
  <2>6. ASSUME NEW t, ChooseStartingPlayer(s, t) PROVE watch' = watch /\ fired' = fired
    BY <2>6 DEF ChooseStartingPlayer, engineVars, timerVars
  <2>7. ASSUME NEW ready, SetSideboardReady(s, ready) PROVE watch' = watch /\ fired' = fired
    <3>1. \A rm, commit : CompleteSideboard(rm, commit) => watch' = watch
      BY <1>1 DEF CompleteSideboard, engineVars
    <3>2. QED
      BY <1>2, <2>7, <3>1 DEF SetSideboardReady, engineVars, timerVars
  <2>8. QED
    BY <1>5, <2>1, <2>2, <2>3, <2>4, <2>5, <2>6, <2>7 DEF Play
<1>6. ASSUME NEW s \in Seats, Departure(s)
      PROVE  watch' = watch /\ fired' = fired
  <2>1. Close => watch' = watch /\ fired' = fired
    BY <1>2 DEF Close, NoEngine
  <2>2. Depart(s) => watch' = watch /\ fired' = fired
    BY DEF Depart, NoEngine, engineVars, timerVars
  <2>3. QED
    BY <1>6, <2>1, <2>2 DEF Departure, LeaveRoom, KickPlayer, ExpireHold, DisbandRoom
<1>7. EngineStep => watch \subseteq watch' /\ fired' = fired
  <2>1. PublishResult => watch' = watch /\ fired' = fired
    BY <1>4 DEF PublishResult
  <2>2. FailGame \/ RuntimeExits => watch \subseteq watch' /\ fired' = fired
    BY DEF FailGame, RuntimeExits, timerVars
  <2>3. \A s \in Seats : RecordStart(s) \/ ExpireActionClock(s) => watch' = watch /\ fired' = fired
    BY DEF RecordStart, ExpireActionClock, NoEngine, engineVars, timerVars
  <2>4. QED
    BY <2>1, <2>2, <2>3 DEF EngineStep
<1>8. PassDeadline => watch' = watch /\ fired' = fired
  BY DEF PassDeadline, engineVars
<1>9. \A g \in watch : WatchRuntime(g) => fired' = fired
  BY DEF WatchRuntime, timerVars
<1>10. \A k \in armed \cup fired : TimerFires(k) => watch' = watch /\ fired \subseteq fired'
  BY DEF TimerFires, engineVars
<1>11. QED
  BY <1>3, <1>5, <1>6, <1>7, <1>8, <1>9, <1>10

\* The watcher of a lost game that gets the lock late leaves a game that has
\* started since, and its engine, alone.
THEOREM LateWatchersDoNoHarm == Spec => StaleWatcherHarmless
<1>1. IInv /\ [Next]_vars =>
        [\A g \in watch : g \notin watch' /\ alive => UNCHANGED <<room, engine>>]_vars
  <2> SUFFICES ASSUME IInv, Next, NEW g \in watch, g \notin watch', alive
               PROVE  UNCHANGED <<room, engine>>
    BY DEF vars
  <2>1. PICK w \in watch : WatchRuntime(w)
    <3>1. \A k \in armed \cup fired : TimerStep(k) => watch' = watch
      BY OthersForgetNothing, ExpireSideboardStep DEF TimerStep
    <3>2. QED
      BY <3>1, OthersForgetNothing DEF Next
  <2>2. QED
    BY <2>1, WatchRuntimeStep
<1>2. QED
  BY <1>1, Invariant, PTL DEF Spec, StaleWatcherHarmless

\* The callback of a timer that was replaced or cancelled while it waited for
\* the lock leaves the sideboarding that goes on now and its timer alone.
THEOREM LateTimersDoNoHarm == Spec => StaleTimerHarmless
<1>1. IInv /\ [Next]_vars =>
        [\A k \in fired : k \notin fired' /\ room.game.side.id # k =>
            room' = room /\ sideTimer \in {k, sideTimer'}]_vars
  <2> SUFFICES ASSUME IInv, Next, NEW k \in fired, k \notin fired', room.game.side.id # k
               PROVE  room' = room /\ sideTimer \in {k, sideTimer'}
    BY DEF vars
  <2>1. PICK j \in armed \cup fired : ExpireSideboard(j)
    <3>1. \A j \in armed \cup fired : TimerStep(j) => fired \subseteq fired' \/ ExpireSideboard(j)
      BY OthersForgetNothing DEF TimerStep
    <3>2. QED
      BY <3>1, OthersForgetNothing DEF Next
  <2>2. fired \ {j} \subseteq fired'
        /\ (room.game.side.id # j => room' = room /\ sideTimer \in {j, sideTimer'})
    BY <2>1, ExpireSideboardStep
  <2>3. QED
    BY <2>2
<1>2. QED
  BY <1>1, Invariant, PTL DEF Spec, StaleTimerHarmless

\* No other step than the last acknowledgement starts a game of a room that
\* loads.
LEMMA OnlyLoadingStarts ==
  ASSUME IInv, Next, room.phase = "loading", room'.phase = "started"
  PROVE  \E s \in Seats : \E id \in 1 .. room.loadID : CompleteLoad(s, id)
<1>1. ~Started(room) /\ ~Playing(room) /\ ~Live(room) /\ ~Decided(room) /\ ~Sideboarding(room)
      /\ engine = 0 /\ ModeOK /\ RoomOK(room)
  BY DEF Started, Playing, Live, Decided, Sideboarding, IInv, EngineMatchesMatch
<1>2. \A s \in Seats : ~Play(s)
  BY <1>1 DEF Play, NextTurn, Concede, DeclareDraw, RestartGame, ForgeConcede, RulesResult, ForgeRestart,
     ReturnToRoom, Repartition, ChooseStartingPlayer, SetSideboardReady
<1>3. ~EngineStep
  BY <1>1 DEF EngineStep, PublishResult, RulesResult, FailGame, RuntimeExits, RecordStart, ExpireActionClock
<1>4. \A s \in Seats : ~Departure(s)
  BY <1>1, DepartureStep
<1>5. \A g \in watch : ~WatchRuntime(g)
  BY <1>1, WatchRuntimeStep
<1>6. ~PassDeadline
  BY DEF PassDeadline
<1>7. \A k \in armed \cup fired : ~TimerStep(k)
  BY <1>1 DEF TimerStep, TimerFires, ExpireSideboard, ExpireRoom
<1>8. \A s \in Seats : ~Join(s) /\ ~FetchCards(s) /\ \A list : ~ConfigureAI(s, list)
  BY DEF Join, FetchCards, ConfigureAI
<1>9. \A s \in Seats : \A list \in Lists : ~SelectDeck(s, list)
  <2> SUFFICES ASSUME NEW s \in Seats, NEW list \in Lists, SelectDeck(s, list) PROVE FALSE
    OBVIOUS
  <2>1. PICK rm : rm.phase = room.phase /\ room' = Cancel(rm) /\ rm \in RoomState
    <3> DEFINE deck == [list |-> list, split |-> 0]
               rm == [room EXCEPT !.reg[s] = deck, !.deck[s] = deck, !.ready[s] = FALSE]
    <3>1. room \in RoomState /\ s \in Seat /\ deck \in Decks
      BY <1>1, SeatFacts DEF RoomOK, Decks
    <3>2. [room.reg EXCEPT ![s] = deck] \in [Seat -> Decks] /\ [room.deck EXCEPT ![s] = deck] \in [Seat -> Decks]
          /\ [room.ready EXCEPT ![s] = FALSE] \in [Seat -> BOOLEAN]
      BY <3>1 DEF RoomState
    <3> HIDE DEF deck
    <3>3. rm \in RoomState /\ rm.phase = room.phase
      BY <3>1, <3>2 DEF RoomState
    <3>4. room' = Cancel(rm)
      BY DEF SelectDeck, deck
    <3>5. QED
      BY <3>3, <3>4
  <2>2. Cancel(rm).phase = "waiting"
    BY <2>1 DEF Cancel, RoomState
  <2>3. QED
    BY <2>1, <2>2
<1>10. \A s \in Seats : \A ready \in BOOLEAN : ~SetReady(s, ready)
  BY SetReadyStep
<1>11. QED
  BY <1>2, <1>3, <1>4, <1>5, <1>6, <1>7, <1>8, <1>9, <1>10 DEF Next, Preparation

\* A game starts from a loading room only when the clients of all its players
\* have fetched the cards of this very load generation.
THEOREM LateLoadsStartNothing == Spec => StartsFullyLoaded
<1>1. IInv /\ [Next]_vars =>
        [room.phase = "loading" /\ room'.phase = "started" =>
           \A s \in Humans(room) : fetched[s] = room.loadID]_vars
  <2> SUFFICES ASSUME IInv, Next, room.phase = "loading", room'.phase = "started"
               PROVE  \A s \in Humans(room) : fetched[s] = room.loadID
    BY DEF vars
  <2>1. PICK s \in Seats : \E id \in 1 .. room.loadID : CompleteLoad(s, id)
    BY OnlyLoadingStarts
  <2>2. PICK id \in 1 .. room.loadID : CompleteLoad(s, id)
    BY <2>1
  <2>3. QED
    BY <2>2, CompleteLoadStep
<1>2. QED
  BY <1>1, Invariant, PTL DEF Spec, StartsFullyLoaded

\* A result leaves the decks as they are.
LEMMA ResultsKeepDecks ==
  ASSUME NEW rm, rm \in RoomState
  PROVE  /\ \A winner, loser, done : EndGame(rm, winner, loser, done).deck = rm.deck
         /\ \A s : Eliminate(rm, s).deck = rm.deck
         /\ \A s : ConcedeTwoPlayer(rm, s).deck = rm.deck
         /\ \A winner, conceded : CompleteRulesGame(rm, winner, conceded).deck = rm.deck
         /\ \A s : ForfeitActionClock(rm, s).deck = rm.deck
<1>1. "deck" \in DOMAIN rm
  BY DEF RoomState
<1>2. \A x : "deck" \in DOMAIN x =>
        \A winner, loser, done : EndGame(x, winner, loser, done).deck = x.deck
  BY DEF EndGame
<1>3. \A s : Eliminate(rm, s).deck = rm.deck
  BY <1>1 DEF Eliminate
<1>4. \A s : ConcedeTwoPlayer(rm, s).deck = rm.deck
  <2> SUFFICES ASSUME NEW s PROVE ConcedeTwoPlayer(rm, s).deck = rm.deck
    OBVIOUS
  <2>1. PICK won : won = [rm EXCEPT !.score[1 - s] = @ + 1]
    OBVIOUS
  <2>2. won.deck = rm.deck /\ "deck" \in DOMAIN won
    BY <1>1, <2>1
  <2>3. ConcedeTwoPlayer(rm, s) = EndGame(won, 1 - s, s, won.score[1 - s] >= Needed)
    BY <2>1 DEF ConcedeTwoPlayer
  <2>4. QED
    BY <1>2, <2>2, <2>3
<1>5. \A winner, conceded : CompleteRulesGame(rm, winner, conceded).deck = rm.deck
  <2> SUFFICES ASSUME NEW winner, NEW conceded PROVE CompleteRulesGame(rm, winner, conceded).deck = rm.deck
    OBVIOUS
  <2>1. PICK scored : scored = IF winner # NoSeat THEN [rm EXCEPT !.score[winner] = @ + 1]
                               ELSE [rm EXCEPT !.drawn = IF conceded THEN @ ELSE @ + 1]
    OBVIOUS
  <2>2. PICK shell : shell = [scored EXCEPT !.game = RulesShell(rm)]
    OBVIOUS
  <2>3. shell.deck = rm.deck /\ "deck" \in DOMAIN shell
    BY <1>1, <2>1, <2>2
  <2>4. CompleteRulesGame(rm, winner, conceded) =
          EndGame(shell, winner, IF winner = NoSeat THEN NoSeat ELSE 1 - winner,
                  mode.match # "bo3" \/ (winner # NoSeat /\ scored.score[winner] >= 2))
    BY <2>1, <2>2 DEF CompleteRulesGame
  <2>5. QED
    BY <1>2, <2>3, <2>4
<1>6. \A s : ForfeitActionClock(rm, s).deck = rm.deck
  <2> SUFFICES ASSUME NEW s PROVE ForfeitActionClock(rm, s).deck = rm.deck
    OBVIOUS
  <2>1. PICK won : won = [rm EXCEPT !.score = [t \in Seat |->
                IF t = 1 - s /\ rm.score[t] < Needed THEN Needed
                ELSE IF t = s /\ rm.score[t] >= Needed THEN Needed - 1 ELSE rm.score[t]]]
    OBVIOUS
  <2>2. PICK shell : shell = [won EXCEPT !.game = RulesShell(rm)]
    OBVIOUS
  <2>3. shell.deck = rm.deck /\ "deck" \in DOMAIN shell
    BY <1>1, <2>1, <2>2
  <2>4. EndGame(shell, 1 - s, s, TRUE).deck = shell.deck
    BY <2>3 DEF EndGame
  <2>5. ForfeitActionClock(rm, s) = EndGame(shell, 1 - s, s, TRUE)
    BY <2>1, <2>2 DEF ForfeitActionClock
  <2>6. QED
    BY <2>3, <2>4, <2>5
<1>7. QED
  BY <1>1, <1>2, <1>3, <1>4, <1>5, <1>6

\* In a started match only the players' last lock-in, or a departure, changes
\* a deck.
LEMMA OnlyLockInsChangeDecks ==
  ASSUME IInv, Next, Started(room), room'.phase = "started", room'.occ = room.occ, room'.deck # room.deck
  PROVE  \E s \in Seats : \E ready \in BOOLEAN : SetSideboardReady(s, ready)
<1>1. room \in RoomState /\ "deck" \in DOMAIN room
  <2>1. room \in RoomState
    BY DEF IInv, RoomOK
  <2>2. QED
    BY <2>1 DEF RoomState
<1>2. \A s \in Seats : ~Preparation(s)
  BY DEF Preparation, Join, FetchCards, SelectDeck, ConfigureAI, SetReady, CompleteLoad, Started
<1>3. \A rm, running : Launch(rm, running) \/ Transition(rm) => room' = rm \/ room' = Reset(rm)
  BY DEF Launch, Transition
<1>4. \A winner, conceded : ~RulesResult(winner, conceded)
  BY <1>1, ResultsKeepDecks DEF RulesResult
<1>5. \A s \in Seats : ~(NextTurn(s) \/ RestartGame(s) \/ Concede(s) \/ DeclareDraw(s))
  <2>1. ASSUME NEW s \in Seats, NextTurn(s) \/ RestartGame(s) PROVE FALSE
    BY <1>1, <2>1 DEF NextTurn, RestartGame
  <2>2. ASSUME NEW s \in Seats, Concede(s) PROVE FALSE
    BY <1>1, <2>2, ResultsKeepDecks DEF Concede
  <2>3. ASSUME NEW s \in Seats, DeclareDraw(s) PROVE FALSE
    BY <1>1, <2>3 DEF DeclareDraw, EndGame
  <2>4. QED
    BY <2>1, <2>2, <2>3
<1>6. \A s \in Seats : ~ForgeRestart(s) /\ ~ReturnToRoom(s)
  <2>1. ASSUME NEW s \in Seats, ForgeRestart(s) PROVE FALSE
    <3>1. PICK begun : begun = PrepareNextRulesGame(room, room.start)
      OBVIOUS
    <3>2. begun.deck = room.deck /\ "phase" \in DOMAIN begun
      BY <1>1, <3>1 DEF PrepareNextRulesGame, RoomState
    <3>3. room' = begun \/ room' = Reset(begun)
      BY <1>3, <2>1, <3>1 DEF ForgeRestart
    <3>4. Reset(begun).phase = "waiting"
      BY <3>2 DEF Reset
    <3>5. QED
      BY <3>2, <3>3, <3>4
  <2>2. ASSUME NEW s \in Seats, ReturnToRoom(s) PROVE FALSE
    BY <2>2, ReturnToRoomStep
  <2>3. QED
    BY <2>1, <2>2
<1>7. \A s \in Seats : /\ \A split \in {0, 1} : ~Repartition(s, split)
                       /\ \A t \in Seats : ~ChooseStartingPlayer(s, t)
  BY RepartitionStep, ChooseStartingPlayerStep
<1>8. ~EngineStep
  <2>1. ~FailGame
    <3>1. ASSUME FailGame PROVE FALSE
      <4>1. engine # 0 /\ Terminate /\ watch' \subseteq watch /\ UNCHANGED <<mode, clientVars, timerVars>>
        BY <3>1 DEF FailGame
      <4>2. QED
        BY <4>1, TerminateStep
    <3>2. QED
      BY <3>1
  <2>2. ~RuntimeExits
    BY DEF RuntimeExits
  <2>3. \A s \in Seats : ~RecordStart(s) /\ ~ExpireActionClock(s)
    BY <1>1, ResultsKeepDecks DEF RecordStart, ExpireActionClock
  <2>4. QED
    BY <1>4, <2>1, <2>2, <2>3 DEF EngineStep, PublishResult
<1>9. \A g \in watch : ~WatchRuntime(g)
  BY WatchRuntimeStep
<1>10. ~PassDeadline
  BY DEF PassDeadline
<1>11. \A k \in armed \cup fired : ~TimerStep(k)
  BY ExpireSideboardStep DEF TimerStep, TimerFires
<1>12. \A s \in Seats : ~Departure(s)
  BY DepartureStep
<1>13. QED
  BY <1>2, <1>4, <1>5, <1>6, <1>7, <1>8, <1>9, <1>10, <1>11, <1>12 DEF Next, Play, ForgeConcede

\* The decks of a match change together and as their owners arranged them, when
\* the last of the players locks in: never because time ran out.
THEOREM DecksAreLockedIn == Spec => DecksCommitTogether
<1>1. IInv /\ [Next]_vars =>
        [Started(room) /\ Started(room)' /\ room'.occ = room.occ /\ room'.deck # room.deck =>
           /\ Sideboarding(room) /\ fired' = fired
           /\ Cardinality({s \in Seats : ~room.game.side.ready[s]}) <= 1
           /\ \A s \in Seats : room'.deck[s].split = room.game.side.split[s]]_vars
  <2> SUFFICES ASSUME IInv, Next, Started(room), Started(room)', room'.occ = room.occ, room'.deck # room.deck
               PROVE  /\ Sideboarding(room) /\ fired' = fired
                      /\ Cardinality({s \in Seats : ~room.game.side.ready[s]}) <= 1
                      /\ \A s \in Seats : room'.deck[s].split = room.game.side.split[s]
    BY DEF vars
  <2>1. room'.phase = "started"
    BY DEF Started
  <2>2. PICK s \in Seats : \E ready \in BOOLEAN : SetSideboardReady(s, ready)
    BY <2>1, OnlyLockInsChangeDecks
  <2>3. PICK ready \in BOOLEAN : SetSideboardReady(s, ready)
    BY <2>2
  <2>4. /\ Sideboarding(room) /\ fired' = fired
        /\ \A t \in Seats \ {s} : room.game.side.ready[t]
        /\ \A t \in Seats : room'.deck[t].split = room.game.side.split[t]
    BY <2>1, <2>3, SetSideboardReadyStep
  <2>5. Cardinality({t \in Seats : ~room.game.side.ready[t]}) <= 1
    <3> DEFINE open == {t \in Seats : ~room.game.side.ready[t]}
    <3>1. open \subseteq {s}
      BY <2>4
    <3>2. IsFiniteSet({s}) /\ Cardinality({s}) = 1
      BY FS_Singleton
    <3> HIDE DEF open
    <3>3. Cardinality(open) <= Cardinality({s})
      BY <3>1, <3>2, FS_Subset
    <3>4. QED
      BY <3>2, <3>3 DEF open
  <2>6. QED
    BY <2>4, <2>5
<1>2. QED
  BY <1>1, Invariant, PTL DEF Spec, DecksCommitTogether

=============================================================================
