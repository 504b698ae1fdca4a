------------------------------- MODULE Swiss -------------------------------
(***************************************************************************)
(* A constructed Swiss tournament: registration, rounds, reported and      *)
(* confirmed results, corrections, drops, the tables (rooms) of pairings   *)
(* and match losses by the action clock, which reach the tournament from a *)
(* goroutine of their own.  Every command holds the tournament's opMu and  *)
(* is one step; the end of a room and the delivery of a timeout are not.   *)
(*                                                                         *)
(* A round maps its pairings to their state; a pairing is the set of its   *)
(* players, a bye the set of one.  A score is the winner or "draw".        *)
(***************************************************************************)
EXTENDS Integers, Sequences, FiniteSets, FiniteSetsExt, Functions

CONSTANTS Player, NoReport,
          MaxPlayers, MinPlayers, PlannedRounds,
          Shuffles,        \* the orders random.Shuffle may produce
          Draws,           \* whether matches may be drawn
          MaxTables,       \* rooms opened in a behaviour,
          TableRounds,     \* in the first rounds
          MaxDisturbances  \* drops, corrections, timeouts, closed tables, cancellation

ASSUME PlayerAssumption == IsFiniteSet(Player) /\ Cardinality(Player) <= 18
ASSUME NullAssumption == {"draw", "none", NoReport} \cap Player = {}
ASSUME LimitAssumption ==
  /\ MinPlayers \in Nat \ {0, 1} /\ MaxPlayers \in Nat /\ PlannedRounds \in 1 .. 20
  /\ Draws \in BOOLEAN /\ MaxTables \in Nat /\ TableRounds \in Nat /\ MaxDisturbances \in Nat
ASSUME ShuffleAssumption ==
  /\ Shuffles # {} /\ Shuffles \subseteq [Player -> 1 .. Cardinality(Player)]
  /\ \A shuffle \in Shuffles : \A p, q \in Player : p # q => shuffle[p] # shuffle[q]

VARIABLES
  status,     \* registration, running, completed or cancelled
  entrants,   \* registered players
  checked,    \* those who checked in
  competing,  \* those who play
  dropped,
  order,      \* InitialOrder
  rounds,     \* sequence of rounds
  tables,     \* sequence of the rooms opened: their pairing and what became of them
  timeouts,   \* match losses on their way to the tournament
  disturbed

players == <<entrants, checked, competing, order>>
vars == <<status, players, dropped, rounds, tables, timeouts, disturbed>>

Disturb == disturbed < MaxDisturbances /\ disturbed' = disturbed + 1

(***************************************************************************)
(* Standings and pairing                                                   *)
(***************************************************************************)
Least(i, j) == IF i < j THEN i ELSE j

Round == rounds[Len(rounds)]
Active == competing \ dropped

\* Rounds of p with a given score; a bye is won.
Having(p, score) == {k \in DOMAIN rounds :
  \E pair \in DOMAIN rounds[k] : p \in pair /\ rounds[k][pair].score = score}

MatchPoints(p) == 3 * Cardinality(Having(p, p)) + Cardinality(Having(p, "draw"))
ByeCount(p) == Cardinality({k \in DOMAIN rounds : {p} \in DOMAIN rounds[k]})
Met(pair) == \E k \in DOMAIN rounds : pair \in DOMAIN rounds[k]

\* The standings order players by match points; the percentages that break
\* ties are abstracted to any order of the players they separate.
Standings(S) ==
  LET ranked(points) == {rank \in [S -> 1 .. Cardinality(S)] :
        \A p, q \in S : p # q =>
          rank[p] # rank[q] /\ (points[p] > points[q] => rank[p] < rank[q])}
  IN  UNION {ranked(points) : points \in {[p \in S |-> MatchPoints(p)]}}

\* Mutant of Bye: always the last player of the standings.
LastHasBye(S, rank) ==
  IF Cardinality(S) % 2 = 0 THEN {}
  ELSE {p \in S : \A q \in S : rank[q] <= rank[p]}

\* An odd player out: the last of those with the fewest byes.
Bye(S, rank) ==
  LET fewest == {p \in S : \A q \in S : ByeCount(p) <= ByeCount(q)} IN
  IF Cardinality(S) % 2 = 0 THEN {}
  ELSE {p \in fewest : \A q \in fewest : rank[q] <= rank[p]}

Place(S, rank, p) == Cardinality({q \in S : rank[q] < rank[p]})

\* The absolute difference of the two players' values.
Gap(values) == Max(values) - Min(values)

\* Mutant of PairCost: a rematch weighs as much as one match point.
CheapRematch(S, rank, pair) ==
  LET place(p) == Place(S, rank, p)
      first(p) == order[p]
  IN  Gap({MatchPoints(p) : p \in pair}) * 1000 + Gap({place(p) : p \in pair}) * 10
      + (IF Met(pair) THEN 1000 ELSE 0) + Least(Gap({first(p) : p \in pair}), 9)

\* pairCost: a rematch outweighs points, points outweigh places.
PairCost(S, rank, pair) ==
  LET place(p) == Place(S, rank, p)
      first(p) == order[p]
  IN  Gap({MatchPoints(p) : p \in pair}) * 1000 + Gap({place(p) : p \in pair}) * 10
      + (IF Met(pair) THEN 1000000 ELSE 0) + Least(Gap({first(p) : p \in pair}), 9)

\* The ways to pair off S.
PairsOff(S) ==
  {m \in kSubset(Cardinality(S) \div 2, kSubset(2, S)) : UNION m = S}

TotalCost(S, rank, m) == SumFunctionOnSet([pair \in m |-> PairCost(S, rank, pair)], m)

\* minimumCostPairing (events of up to eighteen players).
CheapestPairs(S, rank) ==
  LET cheapest(cost) == {m \in DOMAIN cost : \A other \in DOMAIN cost : cost[m] <= cost[other]}
  IN  UNION {cheapest(cost) : cost \in {[m \in PairsOff(S) |-> TotalCost(S, rank, m)]}}

\* Neighbours of the shuffled order meet in the first round.
OpeningPairs(S, shuffle) ==
  {pair \in kSubset(2, S) : \E p, q \in pair :
     Place(S, shuffle, p) % 2 = 0 /\ Place(S, shuffle, q) = Place(S, shuffle, p) + 1}

Open == [score |-> "none", pending |-> NoReport, table |-> 0]

\* A round with the given pairs, and a bye that is won already.
NewRound(pairs, bye) ==
  [pair \in pairs \cup {{p} : p \in bye} |->
     IF Cardinality(pair) = 1 THEN [Open EXCEPT !.score = CHOOSE p \in pair : TRUE] ELSE Open]

FirstRound(S, shuffle) ==
  LET bye == Bye(S, shuffle) IN NewRound(OpeningPairs(S \ bye, shuffle), bye)

\* buildRound after the first: any round the standings may lead to.
NextRounds(S) ==
  UNION {LET bye == Bye(S, rank)
             rest == S \ bye
         IN  {NewRound(pairs, bye) : pairs \in CheapestPairs(rest, rank)} : rank \in Standings(S)}

(***************************************************************************)
(* Registration                                                            *)
(***************************************************************************)
Register(p) ==
  /\ status = "registration" /\ p \notin entrants
  /\ Cardinality(entrants) < MaxPlayers
  /\ entrants' = entrants \cup {p}
  /\ UNCHANGED <<status, checked, competing, order, dropped, rounds, tables, timeouts, disturbed>>

\* Mutant of Unregister: the check-in survives.
UnregisterCheckedIn(p) ==
  /\ status = "registration" /\ p \in entrants
  /\ entrants' = entrants \ {p}
  /\ UNCHANGED <<status, checked, competing, order, dropped, rounds, tables, timeouts, disturbed>>

Unregister(p) ==
  /\ status = "registration" /\ p \in entrants
  /\ entrants' = entrants \ {p} /\ checked' = checked \ {p}
  /\ UNCHANGED <<status, competing, order, dropped, rounds, tables, timeouts, disturbed>>

SetCheckedIn(p) ==
  /\ status = "registration" /\ p \in entrants
  /\ \E c \in {checked \cup {p}, checked \ {p}} : checked' = c
  /\ UNCHANGED <<status, entrants, competing, order, dropped, rounds, tables, timeouts, disturbed>>

Start ==
  /\ status = "registration" /\ Cardinality(checked) >= MinPlayers
  /\ status' = "running"
  /\ competing' = checked
  /\ \E shuffle \in Shuffles :
       /\ order' = [p \in Player |-> Place(checked, shuffle, p)]
       /\ rounds' = <<FirstRound(checked, shuffle)>>
  /\ UNCHANGED <<entrants, checked, dropped, tables, timeouts, disturbed>>

(***************************************************************************)
(* Rounds and results                                                      *)
(***************************************************************************)
\* Pairings of all rounds, which commands address by their identifier.
Pairings == UNION {{<<k, pair>> : pair \in DOMAIN rounds[k]} : k \in DOMAIN rounds}
At(id) == rounds[id[1]][id[2]]
SetPairing(id, state) == rounds' = [rounds EXCEPT ![id[1]] = [@ EXCEPT ![id[2]] = state]]
IsBye(id) == Cardinality(id[2]) = 1
Scores(id) == id[2] \cup IF Draws THEN {"draw"} ELSE {}

Drop(p) ==
  /\ status = "running" /\ p \in Active /\ Disturb
  /\ dropped' = dropped \cup {p}
  /\ UNCHANGED <<status, players, rounds, tables, timeouts>>

\* One of the two players reports a score.
Report(id, score) ==
  /\ status = "running" /\ ~IsBye(id)
  /\ At(id).score = "none" /\ At(id).pending = NoReport
  /\ SetPairing(id, [At(id) EXCEPT !.pending = score])
  /\ UNCHANGED <<status, players, dropped, tables, timeouts, disturbed>>

\* The other player or the organizer answers the report.
Confirm(id) ==
  /\ status = "running" /\ At(id).pending # NoReport /\ At(id).score = "none"
  /\ SetPairing(id, [At(id) EXCEPT !.score = At(id).pending, !.pending = NoReport])
  /\ UNCHANGED <<status, players, dropped, tables, timeouts, disturbed>>

Reject(id) ==
  /\ status = "running" /\ At(id).pending # NoReport /\ At(id).score = "none"
  /\ SetPairing(id, [At(id) EXCEPT !.pending = NoReport])
  /\ UNCHANGED <<status, players, dropped, tables, timeouts, disturbed>>

\* The organizer rules: on an open pairing or against a result, of any round.
Correct(id, score) ==
  /\ status = "running" /\ ~IsBye(id) /\ Disturb
  /\ SetPairing(id, [At(id) EXCEPT !.score = score, !.pending = NoReport])
  /\ UNCHANGED <<status, players, dropped, tables, timeouts>>

\* Mutant of RoundComplete: a reported result counts as a result.
ReportsComplete == \A pair \in DOMAIN Round : Round[pair].score # "none" \/ Round[pair].pending # NoReport

RoundComplete == \A pair \in DOMAIN Round : Round[pair].score # "none"

Advance ==
  /\ status = "running" /\ RoundComplete
  /\ IF Len(rounds) >= PlannedRounds \/ Cardinality(Active) < 2
     THEN status' = "completed" /\ UNCHANGED rounds
     ELSE UNCHANGED status /\ \E round \in NextRounds(Active) : rounds' = Append(rounds, round)
  /\ UNCHANGED <<players, dropped, tables, timeouts, disturbed>>

Cancel ==
  /\ status \in {"registration", "running"} /\ Disturb
  /\ status' = "cancelled"
  /\ UNCHANGED <<players, dropped, rounds, tables, timeouts>>

(***************************************************************************)
(* Tables                                                                  *)
(***************************************************************************)
IsOpen(x) == x \in DOMAIN tables /\ tables[x].phase = "open"

\* A paired player opens the table of the current pairing; a room that is gone
\* is forgotten first, and creating one may fail.  (Entering an open table
\* changes nothing here.)
OpenMatch(id) ==
  /\ status = "running" /\ id[1] = Len(rounds) /\ ~IsBye(id) /\ At(id).score = "none"
  /\ ~IsOpen(At(id).table)
  /\ \/ /\ Len(tables) < MaxTables /\ Len(rounds) <= TableRounds
        /\ tables' = Append(tables, [of |-> id, phase |-> "open"])
        /\ SetPairing(id, [At(id) EXCEPT !.table = Len(tables) + 1])
     \/ At(id).table # 0 /\ SetPairing(id, [At(id) EXCEPT !.table = 0]) /\ UNCHANGED tables
  /\ UNCHANGED <<status, players, dropped, timeouts, disturbed>>

\* The room ends, for any of its own reasons: it leaves the hub first.
RemoveRoom(x) ==
  /\ IsOpen(x) /\ Disturb
  /\ tables' = [tables EXCEPT ![x].phase = "gone"]
  /\ UNCHANGED <<status, players, dropped, rounds, timeouts>>

\* Mutant of ClearRoom: the pairing forgets whatever table it has.
ClearPairing(x) ==
  /\ tables[x].phase = "gone"
  /\ tables' = [tables EXCEPT ![x].phase = "forgotten"]
  /\ SetPairing(tables[x].of, [At(tables[x].of) EXCEPT !.table = 0])
  /\ UNCHANGED <<status, players, dropped, timeouts, disturbed>>

\* Later, and under the tournament's lock, its pairing forgets it.
ClearRoom(x) ==
  /\ tables[x].phase = "gone"
  /\ tables' = [tables EXCEPT ![x].phase = "forgotten"]
  /\ rounds' = [k \in DOMAIN rounds |-> [pair \in DOMAIN rounds[k] |->
       [rounds[k][pair] EXCEPT !.table = IF @ = x THEN 0 ELSE @]]]
  /\ UNCHANGED <<status, players, dropped, timeouts, disturbed>>

\* A player at an open table runs out of time; the loss is on its way.
ClockExpires(x, p) ==
  /\ IsOpen(x) /\ p \in tables[x].of[2] /\ Disturb
  /\ timeouts' = timeouts \cup {[of |-> tables[x].of, loser |-> p]}
  /\ UNCHANGED <<status, players, dropped, rounds, tables>>

\* Mutant of ApplyTimeout: the last word has the clock.
TimeoutOverrules(m) ==
  /\ timeouts' = timeouts \ {m}
  /\ IF status = "running"
     THEN SetPairing(m.of, [At(m.of) EXCEPT !.score = CHOOSE q \in m.of[2] : q # m.loser, !.pending = NoReport])
     ELSE UNCHANGED rounds
  /\ UNCHANGED <<status, players, dropped, tables, disturbed>>

\* ApplyTimeout: replaces a report, but never a result.
ApplyTimeout(m) ==
  /\ timeouts' = timeouts \ {m}
  /\ IF status = "running" /\ At(m.of).score = "none"
     THEN SetPairing(m.of, [At(m.of) EXCEPT !.score = CHOOSE q \in m.of[2] : q # m.loser, !.pending = NoReport])
     ELSE UNCHANGED rounds
  /\ UNCHANGED <<status, players, dropped, tables, disturbed>>

(***************************************************************************)
(* Specification                                                           *)
(***************************************************************************)
Init ==
  /\ status = "registration"
  /\ entrants = {} /\ checked = {} /\ competing = {} /\ dropped = {}
  /\ order = [p \in Player |-> 0]
  /\ rounds = <<>> /\ tables = <<>> /\ timeouts = {} /\ disturbed = 0

Command(id) ==
  \/ Confirm(id) \/ Reject(id) \/ OpenMatch(id)
  \/ \E score \in Scores(id) : Correct(id, score) \/ Report(id, score)

Next ==
  \/ \E p \in Player : Register(p) \/ Unregister(p) \/ SetCheckedIn(p) \/ Drop(p)
  \/ Start \/ Advance \/ Cancel
  \/ \E id \in Pairings : Command(id)
  \/ \E x \in DOMAIN tables : RemoveRoom(x) \/ ClearRoom(x) \/ \E p \in Player : ClockExpires(x, p)
  \/ \E m \in timeouts : ApplyTimeout(m)

Spec == Init /\ [][Next]_vars

(***************************************************************************)
(* Properties                                                              *)
(***************************************************************************)
PairingState ==
  [score : Player \cup {"none", "draw"}, table : 0 .. MaxTables,
   pending : Player \cup {"draw", NoReport}]

\* Every variable keeps the shape of the Go state it stands for.
TypeOK ==
  /\ status \in {"registration", "running", "completed", "cancelled"}
  /\ checked \subseteq entrants /\ entrants \subseteq Player
  /\ competing \subseteq checked /\ dropped \subseteq competing
  /\ Cardinality(entrants) <= MaxPlayers
  /\ order \in [Player -> Nat]
  /\ \A k \in DOMAIN rounds :
       DOMAIN rounds[k] \subseteq SUBSET competing /\ \A pair \in DOMAIN rounds[k] : rounds[k][pair] \in PairingState
  /\ \A x \in DOMAIN tables : tables[x].of \in Pairings /\ tables[x].phase \in {"open", "gone", "forgotten"}
  /\ \A m \in timeouts : m.of \in Pairings /\ m.loser \in m.of[2]
  /\ disturbed \in 0 .. MaxDisturbances

\* Every round seats each of its players once, leaves out at most one of them,
\* and nobody who still plays is forgotten; only the current one is unfinished.
RoundsAreWhole ==
  /\ \A k \in DOMAIN rounds :
       /\ \A a, b \in DOMAIN rounds[k] : a # b => a \cap b = {}
       /\ Cardinality({pair \in DOMAIN rounds[k] : Cardinality(pair) # 2}) <= 1
       /\ Active \subseteq UNION DOMAIN rounds[k]
       /\ k < Len(rounds) \/ status = "completed" =>
            \A pair \in DOMAIN rounds[k] : rounds[k][pair].score # "none" /\ rounds[k][pair].pending = NoReport

\* Two players meet a second time only if the players of that round cannot be
\* paired off without a rematch.
NoAvoidableRematch ==
  \A k \in DOMAIN rounds :
    LET before(pair) == \E j \in 1 .. k - 1 : pair \in DOMAIN rounds[j]
        matches == {pair \in DOMAIN rounds[k] : Cardinality(pair) = 2}
    IN  (\E pair \in matches : before(pair))
          => \A m \in PairsOff(UNION matches) : \E pair \in m : before(pair)

\* Nobody sits out twice while another who still plays never did: byes of
\* active players differ by one at most, whoever dropped in between.
ByesAreShared == \A p, q \in Active : ByeCount(p) <= ByeCount(q) + 1

\* A result stands: reports, timeouts that were under way, closing tables and
\* new rounds never change it; only a ruling of the organizer does.
ResultsStand ==
  [][\A id \in Pairings : At(id).score # "none" =>
       \/ rounds'[id[1]][id[2]].score = At(id).score
       \/ \E score \in Scores(id) : Correct(id, score)]_vars

\* A pairing has one table: a room that is open is the one its pairing leads
\* both players to, however late the end of an earlier room is noticed.
OneTable == \A x \in DOMAIN tables : IsOpen(x) => At(tables[x].of).table = x
=============================================================================
