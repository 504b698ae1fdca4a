---------------------------- MODULE SwissProofs ----------------------------
(***************************************************************************)
(* Proofs about Swiss, for up to eighteen players and twenty rounds: types *)
(* of the tournament, its tables and the losses under way; that results    *)
(* stand, tables are single, byes are shared, rounds are whole and         *)
(* rematches are unavoidable.                                              *)
(***************************************************************************)
EXTENDS Swiss, FiniteSetTheorems, SequenceTheorems, NaturalsInduction, WellFoundedInduction, TLAPS

(***************************************************************************)
(* Numbers and sums                                                        *)
(***************************************************************************)
LEMMA LeastNumber ==
  ASSUME NEW T \in SUBSET Nat, T # {}
  PROVE  \E n \in T : \A k \in T : n <= k
<1>1. PICK n \in T : \A k \in T : ~ (<<k, n>> \in OpToRel(<, Nat))
  BY NatLessThanWellFounded, WFMin, Zenon
<1>2. OpToRel(<, Nat) = {p \in Nat \X Nat : p[1] < p[2]}
  BY Zenon DEF OpToRel
<1>3. \A k \in T : ~ (k < n)
  <2>1. SUFFICES ASSUME NEW k \in T, k < n PROVE FALSE
    OBVIOUS
  <2>2. <<k, n>> \in {p \in Nat \X Nat : p[1] < p[2]}
    BY <2>1
  <2>3. QED
    BY <1>1, <1>2, <2>2
<1>4. \A k \in T : n <= k
  BY <1>3
<1>5. QED
  BY <1>4

\* How a sum over a set is computed: one element at a time.
SumStep(fun, iter, s) ==
  IF s = {} THEN 0
  ELSE fun[CHOOSE x \in s : TRUE] + iter[s \ {CHOOSE x \in s : TRUE}]

LEMMA SumIsFold ==
  ASSUME NEW fun, NEW S
  PROVE  SumFunctionOnSet(fun, S)
           = (CHOOSE iter : iter = [s \in SUBSET S |-> SumStep(fun, iter, s)])[S]
BY DEF SumFunctionOnSet, FoldFunctionOnSet, MapThenFoldSet, SumStep

Sums(fun, f, D) == f = [s \in D |-> SumStep(fun, f, s)]

\* The subsets of S with at most n elements.
UpTo(S, n) == {s \in SUBSET S : Cardinality(s) <= n}

\* There is a function of subsets that is computed this way.
LEMMA PartialSumsExist ==
  ASSUME NEW fun, NEW S, IsFiniteSet(S), NEW n \in Nat
  PROVE  \E f : Sums(fun, f, UpTo(S, n))
<1> DEFINE Fails == {k \in Nat : ~ \E f : Sums(fun, f, UpTo(S, k))}
<1>1. SUFFICES ASSUME Fails # {} PROVE FALSE
  OBVIOUS
<1>2. PICK k \in Fails : \A j \in Fails : k <= j
  <2>1. Fails \in SUBSET Nat
    OBVIOUS
  <2> HIDE DEF Fails
  <2>2. QED
    BY <1>1, <2>1, LeastNumber
<1>3. k \in Nat /\ ~ \E f : Sums(fun, f, UpTo(S, k))
  BY <1>2
<1>4. k # 0
  <2>1. SUFFICES ASSUME k = 0 PROVE FALSE
    OBVIOUS
  <2>2. \A s \in UpTo(S, k) : s = {}
    BY <2>1, FS_Subset, FS_EmptySet, FS_CardinalityType DEF UpTo
  <2> DEFINE f == [s \in UpTo(S, k) |-> 0]
  <2>3. f = [s \in UpTo(S, k) |-> SumStep(fun, f, s)]
    BY <2>2 DEF SumStep
  <2> HIDE DEF f
  <2>4. QED
    BY <2>3, <1>3 DEF Sums
<1>5. PICK f : Sums(fun, f, UpTo(S, k - 1))
  <2>1. k - 1 \in Nat /\ ~(k <= k - 1)
    BY <1>3, <1>4
  <2>2. k - 1 \notin Fails
    BY <1>2, <2>1
  <2>3. QED
    BY <2>1, <2>2
<1> DEFINE g == [s \in UpTo(S, k) |-> SumStep(fun, f, s)]
<1>6. \A s \in UpTo(S, k - 1) : s \in UpTo(S, k) /\ g[s] = f[s]
  <2>1. ASSUME NEW s \in UpTo(S, k - 1) PROVE s \in UpTo(S, k)
    <3>1. Cardinality(s) \in Nat
      BY FS_Subset, FS_CardinalityType DEF UpTo
    <3>2. QED
      BY <3>1, <1>3 DEF UpTo
  <2>2. QED
    BY <2>1, <1>5 DEF Sums
<1>7. ASSUME NEW s \in UpTo(S, k), s # {}
      PROVE  s \ {CHOOSE x \in s : TRUE} \in UpTo(S, k - 1)
  <2>1. s \in SUBSET S /\ Cardinality(s) <= k /\ IsFiniteSet(s) /\ Cardinality(s) \in Nat
    BY FS_Subset, FS_CardinalityType DEF UpTo
  <2>2. PICK x \in s : x = CHOOSE y \in s : TRUE
    BY <1>7
  <2>3. Cardinality(s \ {x}) = Cardinality(s) - 1
    BY <2>1, FS_RemoveElement
  <2>4. QED
    BY <2>1, <2>2, <2>3, <1>3 DEF UpTo
<1>8. g = [s \in UpTo(S, k) |-> SumStep(fun, g, s)]
  <2>1. ASSUME NEW s \in UpTo(S, k) PROVE SumStep(fun, f, s) = SumStep(fun, g, s)
    <3>1. CASE s = {}
      BY <3>1 DEF SumStep
    <3>2. CASE s # {}
      <4>1. g[s \ {CHOOSE x \in s : TRUE}] = f[s \ {CHOOSE x \in s : TRUE}]
        BY <1>6, <1>7, <3>2
      <4> HIDE DEF g
      <4>2. QED
        BY <4>1, <3>2 DEF SumStep
    <3>3. QED
      BY <3>1, <3>2
  <2>2. QED
    BY <2>1
<1>9. QED
  <2> HIDE DEF g
  <2>1. QED
    BY <1>3, <1>8 DEF Sums

\* A sum of natural numbers is one, is at least each of them, and is bounded
\* by their bound times their number.
LEMMA SumFacts ==
  ASSUME NEW fun, NEW S, IsFiniteSet(S), \A x \in S : fun[x] \in Nat
  PROVE  /\ SumFunctionOnSet(fun, S) \in Nat
         /\ \A x \in S : fun[x] <= SumFunctionOnSet(fun, S)
         /\ (\A x \in S : fun[x] <= 100000) => SumFunctionOnSet(fun, S) <= 100000 * Cardinality(S)
<1> DEFINE iter == CHOOSE f : f = [s \in SUBSET S |-> SumStep(fun, f, s)]
           Good(s) ==
             /\ iter[s] \in Nat
             /\ \A x \in s : fun[x] <= iter[s]
             /\ (\A x \in s : fun[x] <= 100000) => iter[s] <= 100000 * Cardinality(s)
           Bad == {n \in Nat : \E s \in SUBSET S : Cardinality(s) = n /\ ~Good(s)}
<1>1. iter = [s \in SUBSET S |-> SumStep(fun, iter, s)]
  <2>1. PICK n \in Nat : n = Cardinality(S)
    BY FS_CardinalityType
  <2>2. UpTo(S, n) = SUBSET S
    BY <2>1, FS_Subset, FS_CardinalityType DEF UpTo
  <2>3. \E f : Sums(fun, f, UpTo(S, n))
    BY PartialSumsExist
  <2>4. \E f : f = [s \in SUBSET S |-> SumStep(fun, f, s)]
    BY <2>2, <2>3 DEF Sums
  <2>5. QED
    BY <2>4
<1>2. SumFunctionOnSet(fun, S) = iter[S]
  BY SumIsFold
<1> HIDE DEF iter
<1>3. Bad = {}
  <2>1. SUFFICES ASSUME Bad # {} PROVE FALSE
    OBVIOUS
  <2>2. PICK n \in Bad : \A j \in Bad : n <= j
    <3>1. Bad \in SUBSET Nat
      OBVIOUS
    <3> HIDE DEF Bad
    <3>2. QED
      BY <2>1, <3>1, LeastNumber
  <2>3. PICK s \in SUBSET S : Cardinality(s) = n /\ ~Good(s)
    BY <2>2
  <2>4. IsFiniteSet(s) /\ n \in Nat /\ iter[s] = SumStep(fun, iter, s)
    BY <2>2, <1>1, FS_Subset
  <2>5. s # {}
    <3>1. SUFFICES ASSUME s = {} PROVE FALSE
      OBVIOUS
    <3>2. iter[s] = 0 /\ Cardinality(s) = 0
      BY <2>4, <3>1, FS_EmptySet DEF SumStep
    <3>3. QED
      BY <2>3, <3>1, <3>2
  <2>6. PICK x \in s : x = CHOOSE y \in s : TRUE
    BY <2>5
  <2>7. iter[s] = fun[x] + iter[s \ {x}]
    BY <2>4, <2>5, <2>6 DEF SumStep
  <2>8. Cardinality(s \ {x}) = n - 1 /\ n # 0
    <3>1. IsFiniteSet(s) /\ x \in s
      BY <2>4, <2>6
    <3> HIDE DEF Good, Bad
    <3>0. Cardinality(s \ {x}) = Cardinality(s) - 1
      BY ONLY <3>1, FS_RemoveElement
    <3>2. Cardinality(s) # 0
      BY <2>4, <2>5, FS_EmptySet
    <3>3. QED
      BY <2>3, <3>0, <3>2
  <2>9. Good(s \ {x})
    <3>1. n - 1 \in Nat /\ ~(n <= n - 1)
      BY <2>4, <2>8
    <3>2. n - 1 \notin Bad
      BY <2>2, <3>1
    <3>3. s \ {x} \in SUBSET S
      OBVIOUS
    <3> HIDE DEF Good
    <3>4. QED
      BY <3>1, <3>2, <3>3, <2>8
  <2>10. Good(s)
    <3>1. fun[x] \in Nat
      BY <2>6
    <3>2. iter[s \ {x}] \in Nat /\ iter[s] \in Nat /\ fun[x] <= iter[s] /\ iter[s \ {x}] <= iter[s]
      BY <2>7, <2>9, <3>1
    <3>3. \A y \in s : fun[y] <= iter[s]
      <4>1. ASSUME NEW y \in s PROVE fun[y] <= iter[s]
        <5>1. CASE y = x
          BY <5>1, <3>2
        <5>2. CASE y # x
          <6>1. fun[y] <= iter[s \ {x}] /\ fun[y] \in Nat
            BY <5>2, <2>9
          <6>2. QED
            BY <6>1, <3>2
        <5>3. QED
          BY <5>1, <5>2
      <4>2. QED
        BY <4>1
    <3>4. ASSUME \A y \in s : fun[y] <= 100000
          PROVE  iter[s] <= 100000 * Cardinality(s)
      <4>1. iter[s \ {x}] <= 100000 * (n - 1)
        BY <3>4, <2>8, <2>9
      <4>2. fun[x] <= 100000
        BY <3>4
      <4>3. QED
        BY <4>1, <4>2, <3>1, <3>2, <2>3, <2>4, <2>7
    <3>5. QED
      BY <3>2, <3>3, <3>4
  <2>11. QED
    BY <2>3, <2>10
<1>4. Good(S)
  <2>1. Cardinality(S) \in Nat
    BY FS_CardinalityType
  <2>2. Cardinality(S) \notin Bad
    BY <1>3
  <2>3. QED
    BY <2>1, <2>2
<1>5. QED
  BY <1>2, <1>4

(***************************************************************************)
(* Types                                                                   *)
(***************************************************************************)
\* A pairing has two players, or one who has a bye.
PairsOf(C) == {s \in SUBSET C : Cardinality(s) \in {1, 2}}
RoundsOf(C) == UNION {[D -> PairingState] : D \in SUBSET PairsOf(C)}
Phases == {"open", "gone", "forgotten"}

\* The pairings that have two players, and so may have a table.
Matches == {id \in Pairings : Cardinality(id[2]) = 2}

TablesTyped ==
  /\ tables \in Seq([of : Nat \X SUBSET Player, phase : Phases])
  /\ Len(tables) <= MaxTables
  /\ \A x \in DOMAIN tables : tables[x].of \in Matches

\* A loss on time is about a pairing with an opponent.
TimeoutsTyped == \A m \in timeouts : m.of \in Matches /\ m.loser \in m.of[2]

\* Before the start there is nothing but players; a running event has a round.
StartsEmpty ==
  /\ status = "registration" =>
       rounds = <<>> /\ tables = <<>> /\ timeouts = {} /\ competing = {} /\ dropped = {}
  /\ status = "running" => rounds # <<>>

PlayersTyped ==
  /\ status \in {"registration", "running", "completed", "cancelled"}
  /\ checked \subseteq entrants /\ entrants \subseteq Player
  /\ competing \subseteq checked /\ dropped \subseteq competing
  /\ Cardinality(entrants) <= MaxPlayers
  /\ order \in [Player -> Nat]
  /\ disturbed \in 0 .. MaxDisturbances

TypeInv ==
  /\ PlayersTyped /\ rounds \in Seq(RoundsOf(competing))
  /\ TablesTyped /\ TimeoutsTyped /\ StartsEmpty

\* What the type of the rounds says of one of them.
LEMMA RoundFacts ==
  ASSUME NEW C, NEW rs \in Seq(RoundsOf(C)), NEW k \in DOMAIN rs
  PROVE  /\ rs[k] \in RoundsOf(C)
         /\ DOMAIN rs[k] \subseteq PairsOf(C)
         /\ rs[k] = [pair \in DOMAIN rs[k] |-> rs[k][pair]]
         /\ \A pair \in DOMAIN rs[k] : rs[k][pair] \in PairingState
<1>1. rs[k] \in RoundsOf(C)
  BY ElementOfSeq, k \in 1 .. Len(rs)
<1>2. PICK D \in SUBSET PairsOf(C) : rs[k] \in [D -> PairingState]
  BY <1>1 DEF RoundsOf
<1>3. QED
  BY <1>1, <1>2

LEMMA TypeInvGivesTypes ==
  ASSUME TypeInv
  PROVE  TypeOK
<1>1. \A k \in DOMAIN rounds :
        DOMAIN rounds[k] \subseteq SUBSET competing /\ \A pair \in DOMAIN rounds[k] : rounds[k][pair] \in PairingState
  BY RoundFacts DEF TypeInv, PairsOf
<1>2. ASSUME NEW x \in DOMAIN tables
      PROVE  tables[x].of \in Pairings /\ tables[x].phase \in {"open", "gone", "forgotten"}
  <2>1. tables[x] \in [of : Nat \X SUBSET Player, phase : Phases]
    BY ElementOfSeq, x \in 1 .. Len(tables) DEF TypeInv, TablesTyped
  <2>2. QED
    BY <2>1 DEF TypeInv, TablesTyped, Matches, Phases
<1>3. \A m \in timeouts : m.of \in Pairings /\ m.loser \in m.of[2]
  BY DEF TypeInv, TimeoutsTyped, Matches
<1>4. QED
  BY <1>1, <1>2, <1>3 DEF TypeInv, TypeOK, PlayersTyped

LEMMA PlayersAreFinite ==
  ASSUME NEW C \in SUBSET Player
  PROVE  /\ IsFiniteSet(C) /\ Cardinality(C) \in Nat /\ Cardinality(C) <= 18
         /\ Cardinality(C) <= Cardinality(Player) /\ Cardinality(Player) \in Nat
BY PlayerAssumption, FS_Subset, FS_CardinalityType

(***************************************************************************)
(* Changing rounds                                                         *)
(***************************************************************************)
\* No pairing is added or removed.
SameShape ==
  /\ rounds' \in Seq(RoundsOf(competing)) /\ Len(rounds') = Len(rounds)
  /\ \A k \in DOMAIN rounds : DOMAIN rounds'[k] = DOMAIN rounds[k]

\* Rounds are only added.
Grows ==
  /\ rounds' \in Seq(RoundsOf(competing')) /\ Len(rounds') >= Len(rounds)
  /\ \A k \in DOMAIN rounds : DOMAIN rounds'[k] = DOMAIN rounds[k]

LEMMA PairingFacts ==
  ASSUME TypeInv, NEW id \in Pairings
  PROVE  /\ id = <<id[1], id[2]>> /\ id[1] \in DOMAIN rounds /\ id[2] \in DOMAIN rounds[id[1]]
         /\ id[2] \in PairsOf(competing) /\ id[2] \subseteq Player /\ id[1] \in Nat \ {0}
         /\ At(id) \in PairingState
<1>1. PICK k \in DOMAIN rounds : id \in {<<k, pair>> : pair \in DOMAIN rounds[k]}
  BY DEF Pairings
<1>2. PICK pair \in DOMAIN rounds[k] : id = <<k, pair>>
  BY <1>1
<1>3. rounds \in Seq(RoundsOf(competing)) /\ competing \subseteq Player /\ k \in Nat \ {0}
  BY <1>1 DEF TypeInv, PlayersTyped
<1>4. pair \in PairsOf(competing) /\ rounds[k][pair] \in PairingState
  BY <1>3, <1>2, RoundFacts
<1>5. QED
  BY <1>1, <1>2, <1>3, <1>4 DEF At, PairsOf

LEMMA PairingsAre ==
  ASSUME NEW k, NEW pair
  PROVE  <<k, pair>> \in Pairings <=> k \in DOMAIN rounds /\ pair \in DOMAIN rounds[k]
BY DEF Pairings

\* A command on one pairing changes its state, and nothing else.
LEMMA OnePairing ==
  ASSUME TypeInv, NEW id \in Pairings, NEW state \in PairingState, SetPairing(id, state)
  PROVE  /\ SameShape
         /\ \A k \in DOMAIN rounds : \A pair \in DOMAIN rounds[k] :
              rounds'[k][pair] = IF <<k, pair>> = id THEN state ELSE rounds[k][pair]
<1> DEFINE i == id[1]
           q == id[2]
           r == [rounds[i] EXCEPT ![q] = state]
<1>1. /\ i \in DOMAIN rounds /\ q \in DOMAIN rounds[i] /\ id = <<i, q>>
      /\ rounds \in Seq(RoundsOf(competing))
  BY PairingFacts DEF TypeInv
<1>2. PICK D \in SUBSET PairsOf(competing) : rounds[i] \in [D -> PairingState]
  BY <1>1, RoundFacts DEF RoundsOf
<1>3. r \in [D -> PairingState] /\ DOMAIN r = DOMAIN rounds[i]
  BY <1>2
<1>4. r \in RoundsOf(competing)
  BY <1>3 DEF RoundsOf
<1>5. rounds' = [rounds EXCEPT ![i] = r]
  BY DEF SetPairing
<1>6. \A pair \in DOMAIN rounds[i] : r[pair] = IF pair = q THEN state ELSE rounds[i][pair]
  BY <1>1, <1>2
<1> HIDE DEF r, i, q
<1>7. rounds' \in Seq(RoundsOf(competing)) /\ Len(rounds') = Len(rounds) /\ DOMAIN rounds' = DOMAIN rounds
  BY <1>1, <1>4, <1>5, ExceptSeq
<1>8. \A k \in DOMAIN rounds : rounds'[k] = IF k = i THEN r ELSE rounds[k]
  BY <1>1, <1>5
<1>9. SameShape
  BY <1>3, <1>7, <1>8 DEF SameShape
<1>10. QED
  BY <1>1, <1>6, <1>8, <1>9

\* Every pairing keeps its place.
LEMMA ShapeKept ==
  ASSUME rounds \in Seq(RoundsOf(competing)), SameShape \/ UNCHANGED rounds
  PROVE  /\ Len(rounds') = Len(rounds) /\ DOMAIN rounds' = DOMAIN rounds
         /\ \A k \in DOMAIN rounds : DOMAIN rounds'[k] = DOMAIN rounds[k]
         /\ Pairings' = Pairings /\ Matches' = Matches
         /\ rounds' # <<>> <=> rounds # <<>>
<1>1. /\ Len(rounds') = Len(rounds) /\ DOMAIN rounds' = DOMAIN rounds
      /\ \A k \in DOMAIN rounds : DOMAIN rounds'[k] = DOMAIN rounds[k]
  BY DEF SameShape
<1>2. Pairings' = Pairings
  BY <1>1 DEF Pairings
<1>3. rounds' # <<>> <=> rounds # <<>>
  BY <1>1 DEF SameShape
<1>4. QED
  BY <1>1, <1>2, <1>3 DEF Matches

\* Pairings of earlier rounds stay when rounds are added.
LEMMA GrowthKeepsPairings ==
  ASSUME rounds \in Seq(RoundsOf(competing)), Grows
  PROVE  Pairings \subseteq Pairings' /\ Matches \subseteq Matches'
<1>1. Pairings \subseteq Pairings'
  <2>1. ASSUME NEW id \in Pairings PROVE id \in Pairings'
    <3>1. PICK k \in DOMAIN rounds : id \in {<<k, pair>> : pair \in DOMAIN rounds[k]}
      BY DEF Pairings
    <3>2. k \in DOMAIN rounds' /\ DOMAIN rounds'[k] = DOMAIN rounds[k]
      BY <3>1 DEF Grows
    <3>3. QED
      BY <3>1, <3>2 DEF Pairings
  <2>2. QED
    BY <2>1
<1>2. QED
  BY <1>1 DEF Matches

\* The cleanup after a room changes no more than tables of pairings.
LEMMA ClearedPairings ==
  ASSUME TypeInv, NEW x, ClearRoom(x)
  PROVE  /\ SameShape
         /\ \A k \in DOMAIN rounds : \A pair \in DOMAIN rounds[k] :
              rounds'[k][pair] = [rounds[k][pair] EXCEPT !.table = IF @ = x THEN 0 ELSE @]
<1> DEFINE cleared(k) == [pair \in DOMAIN rounds[k] |->
              [rounds[k][pair] EXCEPT !.table = IF @ = x THEN 0 ELSE @]]
<1>1. rounds' = [k \in DOMAIN rounds |-> cleared(k)] /\ rounds \in Seq(RoundsOf(competing))
  BY DEF ClearRoom, TypeInv
<1>2. ASSUME NEW k \in DOMAIN rounds PROVE cleared(k) \in RoundsOf(competing)
  <2>1. PICK D \in SUBSET PairsOf(competing) : rounds[k] \in [D -> PairingState]
    BY <1>1, RoundFacts DEF RoundsOf
  <2>2. \A s \in PairingState : [s EXCEPT !.table = IF @ = x THEN 0 ELSE @] \in PairingState
    BY LimitAssumption DEF PairingState
  <2>3. cleared(k) \in [D -> PairingState]
    BY <2>1, <2>2
  <2>4. QED
    BY <2>3 DEF RoundsOf
<1>3. \A k \in DOMAIN rounds : rounds'[k] = cleared(k) /\ DOMAIN cleared(k) = DOMAIN rounds[k]
  BY <1>1
<1>4. rounds' \in Seq(RoundsOf(competing)) /\ Len(rounds') = Len(rounds)
  <2>1. DOMAIN rounds = 1 .. Len(rounds) /\ Len(rounds) \in Nat
    BY <1>1
  <2> HIDE DEF cleared
  <2>2. QED
    BY <1>1, <1>2, <2>1
<1>5. SameShape
  BY <1>3, <1>4 DEF SameShape
<1>6. QED
  BY <1>3, <1>5

(***************************************************************************)
(* New rounds                                                              *)
(***************************************************************************)
LEMMA PairsAreTwo ==
  ASSUME NEW S
  PROVE  \A pair \in kSubset(2, S) : pair \in SUBSET S /\ Cardinality(pair) = 2
BY DEF kSubset

\* The byes among the pairings of a round.
Singles(bye) == {{p} : p \in bye}
Won(p) == [Open EXCEPT !.score = p]
MadeOf(round, pairs, bye) ==
  /\ DOMAIN round = pairs \cup Singles(bye)
  /\ \A pair \in pairs : round[pair] = Open
  /\ \A p \in bye : round[{p}] = Won(p)

\* A new round is a round: its pairs are open, and a bye is won.
LEMMA NewRoundTyped ==
  ASSUME NEW C \in SUBSET Player, NEW pairs, pairs \subseteq kSubset(2, C),
         NEW bye \in SUBSET C
  PROVE  /\ NewRound(pairs, bye) \in RoundsOf(C)
         /\ MadeOf(NewRound(pairs, bye), pairs, bye)
<1> DEFINE D == pairs \cup Singles(bye)
           at(pair) == IF Cardinality(pair) = 1 THEN [Open EXCEPT !.score = CHOOSE p \in pair : TRUE] ELSE Open
<1>1. NewRound(pairs, bye) = [pair \in D |-> at(pair)]
  BY DEF NewRound, Singles
<1>2. \A pair \in pairs : pair \in SUBSET C /\ Cardinality(pair) = 2
  BY PairsAreTwo
<1>3. \A p : Cardinality({p}) = 1
  BY FS_Singleton
<1>4. Open \in PairingState /\ \A p \in Player : Won(p) \in PairingState
  BY LimitAssumption DEF Open, Won, PairingState
<1>5. \A pair \in pairs : at(pair) = Open
  BY <1>2
<1>6. \A p \in bye : at({p}) = Won(p)
  BY <1>3 DEF Won
<1>7. D \subseteq PairsOf(C)
  BY <1>2, <1>3 DEF PairsOf, Singles
<1> HIDE DEF at
<1>8. \A pair \in D : at(pair) \in PairingState
  BY <1>4, <1>5, <1>6 DEF Singles
<1>9. [pair \in D |-> at(pair)] \in RoundsOf(C)
  <2> HIDE DEF D
  <2>1. [pair \in D |-> at(pair)] \in [D -> PairingState]
    BY <1>8
  <2>2. QED
    BY <2>1, <1>7 DEF RoundsOf
<1>10. QED
  BY <1>1, <1>5, <1>6, <1>9 DEF Singles, MadeOf

LEMMA ByeIsPlayer ==
  ASSUME NEW S, NEW rank
  PROVE  Bye(S, rank) \subseteq S
BY DEF Bye

\* The cheapest pairs of S pair it off.
LEMMA CheapestPairsOff ==
  ASSUME NEW S, NEW rank, NEW m \in CheapestPairs(S, rank)
  PROVE  /\ m \in PairsOff(S)
         /\ \A other \in PairsOff(S) : TotalCost(S, rank, m) <= TotalCost(S, rank, other)
<1> DEFINE cost == [n \in PairsOff(S) |-> TotalCost(S, rank, n)]
<1>1. m \in {n \in DOMAIN cost : \A other \in DOMAIN cost : cost[n] <= cost[other]}
  BY DEF CheapestPairs
<1>2. QED
  BY <1>1

\* How a round after the first comes about.
LEMMA NextRound ==
  ASSUME NEW S, NEW round \in NextRounds(S)
  PROVE  \E rank \in Standings(S) : \E pairs \in CheapestPairs(S \ Bye(S, rank), rank) :
           round = NewRound(pairs, Bye(S, rank))
BY DEF NextRounds

LEMMA NextRoundTyped ==
  ASSUME NEW S \in SUBSET Player, NEW round \in NextRounds(S)
  PROVE  round \in RoundsOf(S)
<1>1. PICK rank \in Standings(S) : \E pairs \in CheapestPairs(S \ Bye(S, rank), rank) :
        round = NewRound(pairs, Bye(S, rank))
  BY NextRound
<1>2. PICK pairs \in CheapestPairs(S \ Bye(S, rank), rank) : round = NewRound(pairs, Bye(S, rank))
  BY <1>1
<1>3. pairs \subseteq kSubset(2, S)
  BY CheapestPairsOff DEF PairsOff, kSubset
<1>4. QED
  BY <1>2, <1>3, ByeIsPlayer, NewRoundTyped

LEMMA FirstRoundTyped ==
  ASSUME NEW S \in SUBSET Player, NEW shuffle
  PROVE  FirstRound(S, shuffle) \in RoundsOf(S)
<1>1. OpeningPairs(S \ Bye(S, shuffle), shuffle) \subseteq kSubset(2, S)
  BY DEF OpeningPairs, kSubset
<1>2. QED
  BY <1>1, ByeIsPlayer, NewRoundTyped DEF FirstRound

(***************************************************************************)
(* The steps of the tournament                                             *)
(***************************************************************************)
LEMMA TwoPlayers ==
  ASSUME NEW s, IsFiniteSet(s), Cardinality(s) = 2
  PROVE  \E p, q \in s : p # q /\ s = {p, q}
<1>1. s # {}
  BY FS_EmptySet
<1>2. PICK p \in s : TRUE
  BY <1>1
<1>3. IsFiniteSet(s \ {p}) /\ Cardinality(s \ {p}) = 1
  BY <1>2, FS_RemoveElement
<1>4. PICK q : s \ {p} = {q}
  BY <1>3, FS_Singleton
<1>5. q \in s /\ q # p /\ s = {p, q}
  BY <1>2, <1>4
<1>6. QED
  BY <1>2, <1>5

\* What a step may make of a pairing's result: it stands unless the organizer
\* rules, it is not taken back, and nothing is left to confirm beside it.
Ruled(id, state) ==
  /\ At(id).score # "none" =>
       /\ state.score = At(id).score \/ \E score \in Scores(id) : Correct(id, score)
       /\ state.score # "none"
  /\ state.score # "none" => state.pending = NoReport

\* Reports and rulings leave tables alone.
Ruling(id) ==
  \/ Confirm(id) \/ Reject(id)
  \/ \E score \in Scores(id) : Correct(id, score) \/ Report(id, score)

LEMMA ScoresAre ==
  ASSUME TypeInv, NEW id \in Pairings
  PROVE  Scores(id) \subseteq Player \cup {"draw"} /\ "none" \notin Scores(id)
BY PairingFacts, NullAssumption DEF Scores

LEMMA RulingSteps ==
  ASSUME TypeInv, NEW id \in Pairings, Ruling(id)
  PROVE  /\ status = "running" /\ UNCHANGED <<status, players, dropped, tables, timeouts>>
         /\ disturbed' \in 0 .. MaxDisturbances
         /\ \E state \in PairingState :
              SetPairing(id, state) /\ Ruled(id, state) /\ state.table = At(id).table
<1> DEFINE state(score, pending) == [At(id) EXCEPT !.score = score, !.pending = pending]
<1>1. At(id) \in PairingState /\ disturbed \in 0 .. MaxDisturbances /\ MaxDisturbances \in Nat
  BY PairingFacts, LimitAssumption DEF TypeInv, PlayersTyped
<1>2. ASSUME NEW score \in Player \cup {"none", "draw"}, NEW pending \in Player \cup {"draw", NoReport}
      PROVE  state(score, pending) \in PairingState /\ state(score, pending).table = At(id).table
             /\ state(score, pending).score = score /\ state(score, pending).pending = pending
  BY <1>1, <1>2 DEF PairingState
<1>3. ASSUME NEW score \in Player \cup {"none", "draw"}, NEW pending \in Player \cup {"draw", NoReport},
             SetPairing(id, state(score, pending)),
             At(id).score # "none" => score # "none" /\ \E s \in Scores(id) : Correct(id, s),
             score # "none" => pending = NoReport
      PROVE  \E new \in PairingState :
               SetPairing(id, new) /\ Ruled(id, new) /\ new.table = At(id).table
  <2>1. PICK new \in PairingState : new = state(score, pending)
    BY <1>2
  <2>2. new.score = score /\ new.pending = pending /\ new.table = At(id).table /\ SetPairing(id, new)
    BY <1>2, <1>3, <2>1
  <2>3. Ruled(id, new)
    BY <1>3, <2>2 DEF Ruled
  <2>4. QED
    BY <2>2, <2>3
<1>4. ASSUME Confirm(id)
      PROVE  /\ status = "running" /\ UNCHANGED <<status, players, dropped, tables, timeouts, disturbed>>
             /\ \E new \in PairingState :
                  SetPairing(id, new) /\ Ruled(id, new) /\ new.table = At(id).table
  <2>1. PICK score \in Player \cup {"draw"} : score = At(id).pending
    BY <1>1, <1>4 DEF Confirm, PairingState
  <2>2. SetPairing(id, state(score, NoReport)) /\ At(id).score = "none"
    BY <1>4, <2>1 DEF Confirm
  <2>3. QED
    BY <1>3, <1>4, <2>2 DEF Confirm
<1>5. ASSUME Reject(id)
      PROVE  /\ status = "running" /\ UNCHANGED <<status, players, dropped, tables, timeouts, disturbed>>
             /\ \E new \in PairingState :
                  SetPairing(id, new) /\ Ruled(id, new) /\ new.table = At(id).table
  <2>1. SetPairing(id, state("none", NoReport)) /\ At(id).score = "none"
    BY <1>1, <1>5 DEF Reject, PairingState
  <2>2. QED
    BY <1>3, <1>5, <2>1 DEF Reject
<1>6. ASSUME NEW score \in Scores(id), Correct(id, score)
      PROVE  /\ status = "running" /\ UNCHANGED <<status, players, dropped, tables, timeouts>>
             /\ disturbed' \in 0 .. MaxDisturbances
             /\ \E new \in PairingState :
                  SetPairing(id, new) /\ Ruled(id, new) /\ new.table = At(id).table
  <2>1. SetPairing(id, state(score, NoReport)) /\ score \in Player \cup {"draw"} /\ score # "none"
    BY <1>6, ScoresAre DEF Correct
  <2>2. disturbed' \in 0 .. MaxDisturbances
    BY <1>1, <1>6 DEF Correct, Disturb
  <2>3. \E new \in PairingState :
          SetPairing(id, new) /\ Ruled(id, new) /\ new.table = At(id).table
    BY <1>3, <1>6, <2>1
  <2>4. QED
    BY <1>6, <2>2, <2>3 DEF Correct
<1>7. ASSUME NEW score \in Scores(id), Report(id, score)
      PROVE  /\ status = "running" /\ UNCHANGED <<status, players, dropped, tables, timeouts, disturbed>>
             /\ \E new \in PairingState :
                  SetPairing(id, new) /\ Ruled(id, new) /\ new.table = At(id).table
  <2>1. /\ SetPairing(id, state("none", score)) /\ score \in Player \cup {"draw"}
        /\ At(id).score = "none"
    BY <1>1, <1>7, ScoresAre DEF Report, PairingState
  <2>2. QED
    BY <1>3, <1>7, <2>1 DEF Report
<1> HIDE DEF state
<1>8. QED
  BY <1>1, <1>4, <1>5, <1>6, <1>7 DEF Ruling

\* A table is opened for a pairing that has none, or the pairing forgets it.
LEMMA OpeningSteps ==
  ASSUME TypeInv, NEW id \in Pairings, OpenMatch(id)
  PROVE  /\ status = "running" /\ UNCHANGED <<status, players, dropped, timeouts, disturbed>>
         /\ id \in Matches /\ At(id).score = "none" /\ ~IsOpen(At(id).table)
         /\ \E state \in PairingState :
              /\ SetPairing(id, state) /\ Ruled(id, state)
              /\ \/ /\ Len(tables) < MaxTables /\ state.table = Len(tables) + 1
                    /\ tables' = Append(tables, [of |-> id, phase |-> "open"])
                 \/ UNCHANGED tables
<1> DEFINE state(x) == [At(id) EXCEPT !.table = x]
<1>1. At(id) \in PairingState /\ Len(tables) \in Nat /\ id[2] \in PairsOf(competing)
  BY PairingFacts DEF TypeInv, TablesTyped
<1>2. id \in Matches
  BY <1>1 DEF OpenMatch, IsBye, Matches, PairsOf
<1>3. ASSUME NEW x \in 0 .. MaxTables
      PROVE  state(x) \in PairingState /\ state(x).table = x /\ state(x).score = At(id).score
  BY <1>1 DEF PairingState
<1>4. \A x \in 0 .. MaxTables : Ruled(id, state(x))
  BY <1>3 DEF Ruled, OpenMatch
<1>5. 0 \in 0 .. MaxTables
  BY LimitAssumption
<1>6. Len(tables) < MaxTables => Len(tables) + 1 \in 0 .. MaxTables
  BY <1>1, LimitAssumption
<1>7. \E x \in 0 .. MaxTables :
        /\ SetPairing(id, state(x))
        /\ \/ /\ Len(tables) < MaxTables /\ x = Len(tables) + 1
              /\ tables' = Append(tables, [of |-> id, phase |-> "open"])
           \/ UNCHANGED tables
  BY <1>5, <1>6 DEF OpenMatch
<1>8. QED
  BY <1>2, <1>3, <1>4, <1>7 DEF OpenMatch

\* A loss on time decides its pairing, or comes too late.
LEMMA TimeoutSteps ==
  ASSUME TypeInv, NEW m \in timeouts, ApplyTimeout(m)
  PROVE  /\ UNCHANGED <<status, players, dropped, tables, disturbed>> /\ timeouts' = timeouts \ {m}
         /\ \/ UNCHANGED rounds
            \/ /\ status = "running" /\ m.of \in Pairings
               /\ \E state \in PairingState :
                    SetPairing(m.of, state) /\ Ruled(m.of, state) /\ state.table = At(m.of).table
<1>1. CASE status = "running" /\ At(m.of).score = "none"
  <2>1. m.of \in Pairings /\ Cardinality(m.of[2]) = 2
    BY DEF TypeInv, TimeoutsTyped, Matches
  <2>2. At(m.of) \in PairingState /\ m.of[2] \subseteq Player
    BY <2>1, PairingFacts
  <2>3. \E q \in m.of[2] : q # m.loser
    BY <2>1, <2>2, TwoPlayers, PlayersAreFinite
  <2>4. PICK q \in Player : q = CHOOSE p \in m.of[2] : p # m.loser
    BY <2>2, <2>3
  <2> DEFINE state == [At(m.of) EXCEPT !.score = q, !.pending = NoReport]
  <2>5. /\ state \in PairingState /\ state.table = At(m.of).table
        /\ state.score = q /\ state.pending = NoReport
    BY <2>2 DEF PairingState
  <2>6. SetPairing(m.of, state) /\ Ruled(m.of, state)
    BY <1>1, <2>4, <2>5 DEF ApplyTimeout, Ruled
  <2>7. QED
    BY <1>1, <2>1, <2>5, <2>6 DEF ApplyTimeout
<1>2. CASE ~(status = "running" /\ At(m.of).score = "none")
  BY <1>2 DEF ApplyTimeout
<1>3. QED
  BY <1>1, <1>2

LEMMA Disturbing ==
  ASSUME PlayersTyped, Disturb
  PROVE  disturbed' \in 0 .. MaxDisturbances
BY LimitAssumption DEF PlayersTyped, Disturb

LEMMA PlaceIsNat ==
  ASSUME NEW S \in SUBSET Player, NEW rank, NEW p
  PROVE  /\ Place(S, rank, p) \in Nat /\ Place(S, rank, p) <= Cardinality(S)
         /\ IsFiniteSet({q \in S : rank[q] < rank[p]})
BY PlayersAreFinite, FS_Subset, FS_CardinalityType DEF Place

LEMMA PlayersStep ==
  ASSUME TypeInv, [Next]_vars
  PROVE  PlayersTyped'
<1> USE DEF PlayersTyped
<1>0. PlayersTyped /\ StartsEmpty
  BY DEF TypeInv
<1>1. ASSUME NEW p \in Player, Register(p) PROVE PlayersTyped'
  <2>1. IsFiniteSet(entrants) /\ Cardinality(entrants) \in Nat
    BY <1>0, PlayersAreFinite
  <2>2. Cardinality(entrants \cup {p}) = Cardinality(entrants) + 1
    BY <1>1, <2>1, FS_AddElement DEF Register
  <2>3. Cardinality(entrants') <= MaxPlayers
    BY <1>1, <2>1, <2>2, LimitAssumption DEF Register
  <2>4. QED
    BY <1>0, <1>1, <2>3 DEF Register
<1>2. ASSUME NEW p \in Player, Unregister(p) PROVE PlayersTyped'
  <2>1. IsFiniteSet(entrants) /\ Cardinality(entrants) \in Nat
    BY <1>0, PlayersAreFinite
  <2>2. Cardinality(entrants \ {p}) = Cardinality(entrants) - 1
    BY <1>2, <2>1, FS_RemoveElement DEF Unregister
  <2>3. Cardinality(entrants') <= MaxPlayers
    BY <1>0, <1>2, <2>1, <2>2, LimitAssumption DEF Unregister
  <2>4. QED
    BY <1>0, <1>2, <2>3 DEF Unregister, StartsEmpty
<1>3. ASSUME NEW p \in Player, SetCheckedIn(p) PROVE PlayersTyped'
  BY <1>0, <1>3 DEF SetCheckedIn, StartsEmpty
<1>4. ASSUME NEW p \in Player, Drop(p) PROVE PlayersTyped'
  BY <1>0, <1>4, Disturbing DEF Drop, Active, players
<1>5. ASSUME Start PROVE PlayersTyped'
  <2>1. PICK shuffle : order' = [p \in Player |-> Place(checked, shuffle, p)]
    BY <1>5 DEF Start
  <2>2. order' \in [Player -> Nat]
    BY <1>0, <2>1, PlaceIsNat
  <2>3. QED
    BY <1>0, <1>5, <2>2 DEF Start, StartsEmpty
<1>6. ASSUME Advance PROVE PlayersTyped'
  BY <1>0, <1>6 DEF Advance, players
<1>7. ASSUME Cancel PROVE PlayersTyped'
  BY <1>0, <1>7, Disturbing DEF Cancel, players
<1>8. ASSUME NEW id \in Pairings, Ruling(id) PROVE PlayersTyped'
  BY <1>0, <1>8, RulingSteps DEF players
<1>9. ASSUME NEW id \in Pairings, OpenMatch(id) PROVE PlayersTyped'
  BY <1>0, <1>9, OpeningSteps DEF players
<1>10. ASSUME NEW x, RemoveRoom(x) PROVE PlayersTyped'
  BY <1>0, <1>10, Disturbing DEF RemoveRoom, players
<1>11. ASSUME NEW x, ClearRoom(x) PROVE PlayersTyped'
  BY <1>0, <1>11 DEF ClearRoom, players
<1>12. ASSUME NEW x, NEW p \in Player, ClockExpires(x, p) PROVE PlayersTyped'
  BY <1>0, <1>12, Disturbing DEF ClockExpires, players
<1>13. ASSUME NEW m \in timeouts, ApplyTimeout(m) PROVE PlayersTyped'
  BY <1>0, <1>13 DEF ApplyTimeout, players
<1>14. CASE UNCHANGED vars
  BY <1>0, <1>14 DEF vars, players
<1>15. QED
  BY <1>1, <1>2, <1>3, <1>4, <1>5, <1>6, <1>7, <1>8, <1>9, <1>10, <1>11, <1>12, <1>13, <1>14
     DEF Next, Command, Ruling

\* The start makes the first round, and nothing was there before.
LEMMA StartStep ==
  ASSUME TypeInv, Start
  PROVE  /\ rounds = <<>> /\ tables' = <<>> /\ timeouts' = {} /\ dropped' = {} /\ status' = "running"
         /\ competing' = checked /\ checked \subseteq Player
         /\ \E shuffle \in Shuffles :
              rounds' = <<FirstRound(checked, shuffle)>> /\ FirstRound(checked, shuffle) \in RoundsOf(checked)
BY FirstRoundTyped DEF TypeInv, StartsEmpty, PlayersTyped, Start

\* A later round is added for those who still play, once the last is complete.
LEMMA AdvanceStep ==
  ASSUME TypeInv, Advance
  PROVE  /\ UNCHANGED <<players, dropped, tables, timeouts, disturbed>>
         /\ status = "running" /\ rounds # <<>> /\ RoundComplete
         /\ \/ status' = "completed" /\ UNCHANGED rounds
            \/ /\ status' = "running" /\ Len(rounds) < PlannedRounds
               /\ \E round \in NextRounds(Active) : rounds' = Append(rounds, round)
<1>1. Len(rounds) \in Nat /\ (status = "running" => rounds # <<>>)
  BY DEF TypeInv, StartsEmpty
<1>2. CASE Len(rounds) >= PlannedRounds \/ Cardinality(Active) < 2
  BY <1>1, <1>2 DEF Advance
<1>3. CASE ~(Len(rounds) >= PlannedRounds \/ Cardinality(Active) < 2)
  BY <1>1, <1>3, LimitAssumption DEF Advance
<1>4. QED
  BY <1>2, <1>3

LEMMA AppendedRound ==
  ASSUME TypeInv, NEW round \in NextRounds(Active), rounds' = Append(rounds, round), UNCHANGED players
  PROVE  /\ Grows /\ round \in RoundsOf(competing) /\ round \in RoundsOf(Active)
         /\ Len(rounds') = Len(rounds) + 1 /\ Len(rounds) \in Nat
         /\ DOMAIN rounds' = 1 .. Len(rounds) + 1 /\ DOMAIN rounds = 1 .. Len(rounds)
         /\ \A k \in DOMAIN rounds : rounds'[k] = rounds[k]
         /\ rounds'[Len(rounds) + 1] = round
<1>1. Active \subseteq competing /\ Active \subseteq Player /\ rounds \in Seq(RoundsOf(competing))
  BY DEF Active, TypeInv, PlayersTyped
<1>2. round \in RoundsOf(Active)
  BY <1>1, NextRoundTyped
<1>3. RoundsOf(Active) \subseteq RoundsOf(competing)
  BY <1>1 DEF RoundsOf, PairsOf
<1>4. competing' = competing
  BY DEF players
<1>5. rounds' \in Seq(RoundsOf(competing)) /\ Len(rounds') = Len(rounds) + 1 /\ Len(rounds) \in Nat
      /\ (\A k \in 1 .. Len(rounds) : rounds'[k] = rounds[k]) /\ rounds'[Len(rounds) + 1] = round
  BY <1>1, <1>2, <1>3, AppendProperties
<1>6. DOMAIN rounds' = 1 .. Len(rounds) + 1 /\ DOMAIN rounds = 1 .. Len(rounds)
  BY <1>1, <1>5
<1>7. Grows
  BY <1>4, <1>5, <1>6 DEF Grows
<1>8. QED
  BY <1>2, <1>3, <1>5, <1>6, <1>7

\* What any step does to the rounds.
LEMMA RoundSteps ==
  ASSUME TypeInv, [Next]_vars
  PROVE  \/ UNCHANGED <<rounds, competing>>
         \/ SameShape /\ UNCHANGED competing
         \/ Start
         \/ Advance /\ \E round \in NextRounds(Active) : rounds' = Append(rounds, round)
<1>1. ASSUME NEW id \in Pairings, Ruling(id) PROVE SameShape /\ UNCHANGED competing
  BY <1>1, RulingSteps, OnePairing DEF players
<1>2. ASSUME NEW id \in Pairings, OpenMatch(id) PROVE SameShape /\ UNCHANGED competing
  BY <1>2, OpeningSteps, OnePairing DEF players
<1>3. ASSUME NEW x, ClearRoom(x) PROVE SameShape /\ UNCHANGED competing
  BY <1>3, ClearedPairings DEF players, ClearRoom
<1>4. ASSUME NEW m \in timeouts, ApplyTimeout(m)
      PROVE  UNCHANGED <<rounds, competing>> \/ (SameShape /\ UNCHANGED competing)
  BY <1>4, TimeoutSteps, OnePairing DEF players
<1>5. ASSUME Advance
      PROVE  \/ UNCHANGED <<rounds, competing>>
             \/ \E round \in NextRounds(Active) : rounds' = Append(rounds, round)
  BY <1>5, AdvanceStep DEF players
<1>6. ASSUME NEW p \in Player, Register(p) \/ Unregister(p) \/ SetCheckedIn(p) \/ Drop(p)
      PROVE  UNCHANGED <<rounds, competing>>
  BY <1>6 DEF Register, Unregister, SetCheckedIn, Drop, players
<1>7. ASSUME NEW x, RemoveRoom(x) \/ \E p \in Player : ClockExpires(x, p)
      PROVE  UNCHANGED <<rounds, competing>>
  BY <1>7 DEF RemoveRoom, ClockExpires, players
<1>8. Cancel \/ UNCHANGED vars => UNCHANGED <<rounds, competing>>
  BY DEF Cancel, vars, players
<1>9. QED
  BY <1>1, <1>2, <1>3, <1>4, <1>5, <1>6, <1>7, <1>8 DEF Next, Command, Ruling

LEMMA RoundsTypeStep ==
  ASSUME TypeInv, [Next]_vars
  PROVE  /\ rounds' \in Seq(RoundsOf(competing'))
         /\ Pairings \subseteq Pairings' /\ Matches \subseteq Matches'
<1>0. rounds \in Seq(RoundsOf(competing))
  BY DEF TypeInv
<1>1. CASE UNCHANGED <<rounds, competing>>
  BY <1>0, <1>1, ShapeKept
<1>2. CASE SameShape /\ UNCHANGED competing
  BY <1>0, <1>2, ShapeKept DEF SameShape
<1>3. CASE Start
  <2>1. PICK round \in RoundsOf(checked) : rounds' = <<round>>
    BY <1>3, StartStep
  <2>2. rounds = <<>> /\ competing' = checked
    BY <1>3, StartStep
  <2>3. Pairings = {}
    BY <2>2 DEF Pairings
  <2>4. QED
    BY <2>1, <2>2, <2>3 DEF Matches
<1>4. CASE Advance /\ \E round \in NextRounds(Active) : rounds' = Append(rounds, round)
  <2>1. UNCHANGED players
    BY <1>4, AdvanceStep
  <2>2. Grows
    BY <1>4, <2>1, AppendedRound
  <2>3. QED
    BY <1>0, <2>2, GrowthKeepsPairings DEF Grows
<1>5. QED
  BY <1>1, <1>2, <1>3, <1>4, RoundSteps

\* Tables come from OpenMatch, and only their phase ever changes.
LEMMA TableSteps ==
  ASSUME TypeInv, [Next]_vars
  PROVE  \/ UNCHANGED tables
         \/ \E id \in Pairings : OpenMatch(id) /\ id \in Matches /\ Len(tables) < MaxTables
              /\ tables' = Append(tables, [of |-> id, phase |-> "open"])
         \/ \E x \in DOMAIN tables : \E phase \in {"gone", "forgotten"} :
              (RemoveRoom(x) \/ ClearRoom(x)) /\ tables' = [tables EXCEPT ![x].phase = phase]
<1>1. ASSUME NEW id \in Pairings, Ruling(id) PROVE UNCHANGED tables
  BY <1>1, RulingSteps
<1>2. ASSUME NEW id \in Pairings, OpenMatch(id)
      PROVE  \/ UNCHANGED tables
             \/ OpenMatch(id) /\ id \in Matches /\ Len(tables) < MaxTables
                  /\ tables' = Append(tables, [of |-> id, phase |-> "open"])
  BY <1>2, OpeningSteps
<1>3. ASSUME NEW p \in Player, Register(p) \/ Unregister(p) \/ SetCheckedIn(p) \/ Drop(p)
      PROVE  UNCHANGED tables
  BY <1>3 DEF Register, Unregister, SetCheckedIn, Drop
<1>4. Start \/ Advance \/ Cancel \/ UNCHANGED vars => UNCHANGED tables
  BY DEF Start, Advance, Cancel, vars
<1>5. ASSUME NEW x, \E p \in Player : ClockExpires(x, p) PROVE UNCHANGED tables
  BY <1>5 DEF ClockExpires
<1>6. ASSUME NEW m \in timeouts, ApplyTimeout(m) PROVE UNCHANGED tables
  BY <1>6, TimeoutSteps
<1>7. ASSUME NEW x \in DOMAIN tables, RemoveRoom(x) \/ ClearRoom(x)
      PROVE  \E phase \in {"gone", "forgotten"} :
               (RemoveRoom(x) \/ ClearRoom(x)) /\ tables' = [tables EXCEPT ![x].phase = phase]
  BY <1>7 DEF RemoveRoom, ClearRoom
<1>8. QED
  BY <1>1, <1>2, <1>3, <1>4, <1>5, <1>6, <1>7 DEF Next, Command, Ruling

Table == [of : Nat \X SUBSET Player, phase : Phases]

\* What a change of one table's phase leaves.
LEMMA OnePhase ==
  ASSUME tables \in Seq(Table), NEW x \in DOMAIN tables, NEW phase \in Phases,
         tables' = [tables EXCEPT ![x].phase = phase]
  PROVE  /\ tables' \in Seq(Table) /\ Len(tables') = Len(tables) /\ DOMAIN tables' = DOMAIN tables
         /\ \A y \in DOMAIN tables :
              /\ tables'[y].of = tables[y].of
              /\ tables'[y].phase = IF y = x THEN phase ELSE tables[y].phase
<1> DEFINE one == [tables[x] EXCEPT !.phase = phase]
<1>1. tables[x] \in Table /\ x \in 1 .. Len(tables)
  BY ElementOfSeq
<1>2. one \in Table /\ one.of = tables[x].of /\ one.phase = phase
  BY <1>1 DEF Table
<1>3. tables' = [tables EXCEPT ![x] = one]
  OBVIOUS
<1> HIDE DEF one
<1>4. tables' \in Seq(Table) /\ Len(tables') = Len(tables)
      /\ \A y \in 1 .. Len(tables) : tables'[y] = IF y = x THEN one ELSE tables[y]
  BY <1>1, <1>2, <1>3, ExceptSeq
<1>5. DOMAIN tables' = DOMAIN tables /\ DOMAIN tables = 1 .. Len(tables)
  BY <1>3
<1>6. QED
  BY <1>2, <1>4, <1>5

LEMMA OneTableMore ==
  ASSUME tables \in Seq(Table), NEW table \in Table, tables' = Append(tables, table)
  PROVE  /\ tables' \in Seq(Table) /\ Len(tables') = Len(tables) + 1 /\ Len(tables) \in Nat
         /\ DOMAIN tables' = 1 .. Len(tables) + 1 /\ DOMAIN tables = 1 .. Len(tables)
         /\ \A y \in DOMAIN tables : tables'[y] = tables[y]
         /\ tables'[Len(tables) + 1] = table
<1>1. tables' \in Seq(Table) /\ Len(tables') = Len(tables) + 1 /\ Len(tables) \in Nat
      /\ (\A y \in 1 .. Len(tables) : tables'[y] = tables[y]) /\ tables'[Len(tables) + 1] = table
  BY AppendProperties
<1>2. DOMAIN tables' = 1 .. Len(tables) + 1 /\ DOMAIN tables = 1 .. Len(tables)
  BY <1>1
<1>3. QED
  BY <1>1, <1>2

LEMMA MatchesAreTyped ==
  ASSUME TypeInv, NEW id \in Matches
  PROVE  id \in Nat \X SUBSET Player
BY PairingFacts DEF Matches

LEMMA TablesTypeStep ==
  ASSUME TypeInv, [Next]_vars
  PROVE  TablesTyped'
<1>0. /\ tables \in Seq(Table) /\ Len(tables) <= MaxTables /\ Len(tables) \in Nat
      /\ \A x \in DOMAIN tables : tables[x].of \in Matches'
  BY RoundsTypeStep DEF TypeInv, TablesTyped, Table
<1>1. CASE UNCHANGED tables
  BY <1>0, <1>1 DEF TablesTyped, Table
<1>2. ASSUME NEW id \in Matches, Len(tables) < MaxTables,
             tables' = Append(tables, [of |-> id, phase |-> "open"])
      PROVE  TablesTyped'
  <2>1. PICK table \in Table : table = [of |-> id, phase |-> "open"]
    BY MatchesAreTyped DEF Table, Phases
  <2>2. /\ tables' \in Seq(Table) /\ Len(tables') = Len(tables) + 1
        /\ DOMAIN tables' = 1 .. Len(tables) + 1 /\ DOMAIN tables = 1 .. Len(tables)
        /\ \A y \in DOMAIN tables : tables'[y] = tables[y]
        /\ tables'[Len(tables) + 1] = table
    BY <1>0, <1>2, <2>1, OneTableMore
  <2>3. id \in Matches'
    BY RoundsTypeStep
  <2>4. \A x \in DOMAIN tables' : tables'[x].of \in Matches'
    BY <1>0, <2>1, <2>2, <2>3
  <2>5. Len(tables') <= MaxTables
    BY <1>0, <1>2, <2>2, LimitAssumption
  <2>6. QED
    BY <2>2, <2>4, <2>5 DEF TablesTyped, Table
<1>3. ASSUME NEW x \in DOMAIN tables, NEW phase \in {"gone", "forgotten"},
             tables' = [tables EXCEPT ![x].phase = phase]
      PROVE  TablesTyped'
  <2>1. phase \in Phases
    BY DEF Phases
  <2>2. /\ tables' \in Seq(Table) /\ Len(tables') = Len(tables) /\ DOMAIN tables' = DOMAIN tables
        /\ \A y \in DOMAIN tables : tables'[y].of = tables[y].of
    BY <1>0, <1>3, <2>1, OnePhase
  <2>3. QED
    BY <1>0, <2>2 DEF TablesTyped, Table
<1>4. QED
  BY <1>1, <1>2, <1>3, TableSteps

LEMMA TimeoutsTypeStep ==
  ASSUME TypeInv, [Next]_vars
  PROVE  TimeoutsTyped'
<1>0. \A m \in timeouts : m.of \in Matches' /\ m.loser \in m.of[2]
  BY RoundsTypeStep DEF TypeInv, TimeoutsTyped
<1>1. ASSUME NEW x \in DOMAIN tables, NEW p \in Player, ClockExpires(x, p)
      PROVE  TimeoutsTyped'
  <2>1. tables[x].of \in Matches'
    BY RoundsTypeStep DEF TypeInv, TablesTyped
  <2>2. QED
    BY <1>0, <1>1, <2>1 DEF ClockExpires, TimeoutsTyped
<1>2. \A id \in Pairings : Command(id) => timeouts' = timeouts
  BY RulingSteps, OpeningSteps DEF Command, Ruling
<1>3. \A p \in Player : Register(p) \/ Unregister(p) \/ SetCheckedIn(p) \/ Drop(p) => timeouts' = timeouts
  BY DEF Register, Unregister, SetCheckedIn, Drop
<1>4. Start \/ Advance \/ Cancel \/ UNCHANGED vars => timeouts' = timeouts
  BY DEF Start, Advance, Cancel, vars
<1>5. \A x \in DOMAIN tables : RemoveRoom(x) \/ ClearRoom(x) => timeouts' = timeouts
  BY DEF RemoveRoom, ClearRoom
<1>6. \A m \in timeouts : ApplyTimeout(m) => timeouts' \subseteq timeouts
  BY DEF ApplyTimeout
<1>7. timeouts' \subseteq timeouts => TimeoutsTyped'
  BY <1>0 DEF TimeoutsTyped
<1>8. QED
  BY <1>1, <1>2, <1>3, <1>4, <1>5, <1>6, <1>7 DEF Next

LEMMA StartsEmptyStep ==
  ASSUME TypeInv, [Next]_vars
  PROVE  StartsEmpty'
<1> USE DEF StartsEmpty
<1>0. StartsEmpty /\ rounds \in Seq(RoundsOf(competing))
  BY DEF TypeInv
<1>1. \A id \in Pairings : Command(id) => status = "running" /\ status' = "running"
  BY RulingSteps, OpeningSteps DEF Command, Ruling
<1>2. ASSUME NEW id \in Pairings, Command(id) PROVE StartsEmpty'
  <2>1. SameShape
    BY <1>2, RulingSteps, OpeningSteps, OnePairing DEF Command, Ruling
  <2>2. QED
    BY <1>0, <1>1, <1>2, <2>1, ShapeKept
<1>3. ASSUME NEW p \in Player, Register(p) \/ Unregister(p) \/ SetCheckedIn(p) \/ Drop(p)
      PROVE  StartsEmpty'
  BY <1>0, <1>3 DEF Register, Unregister, SetCheckedIn, Drop, players
<1>4. ASSUME Start PROVE StartsEmpty'
  <2>1. PICK round : rounds' = <<round>>
    BY <1>4, StartStep
  <2>2. QED
    BY <1>4, <2>1, StartStep
<1>5. ASSUME Advance PROVE StartsEmpty'
  <2>1. CASE status' = "completed"
    BY <2>1
  <2>2. CASE status' = "running" /\ \E round \in NextRounds(Active) : rounds' = Append(rounds, round)
    <3>1. rounds' # <<>>
      BY <1>5, <2>2, AdvanceStep, AppendedRound
    <3>2. QED
      BY <2>2, <3>1
  <2>3. QED
    BY <1>5, <2>1, <2>2, AdvanceStep
<1>6. Cancel => StartsEmpty'
  BY DEF Cancel
<1>7. ASSUME NEW x \in DOMAIN tables, RemoveRoom(x) \/ \E p \in Player : ClockExpires(x, p)
      PROVE  StartsEmpty'
  BY <1>0, <1>7 DEF RemoveRoom, ClockExpires, players
<1>8. ASSUME NEW x \in DOMAIN tables, ClearRoom(x) PROVE StartsEmpty'
  <2>1. SameShape
    BY <1>8, ClearedPairings
  <2>2. status # "registration"
    BY <1>0
  <2>3. QED
    BY <1>0, <1>8, <2>1, <2>2, ShapeKept DEF ClearRoom
<1>9. ASSUME NEW m \in timeouts, ApplyTimeout(m) PROVE StartsEmpty'
  <2>1. status # "registration" /\ status' = status
    BY <1>0, <1>9 DEF ApplyTimeout
  <2>2. UNCHANGED rounds \/ SameShape
    BY <1>9, TimeoutSteps, OnePairing
  <2>3. QED
    BY <1>0, <2>1, <2>2, ShapeKept
<1>10. UNCHANGED vars => StartsEmpty'
  BY <1>0 DEF vars, players
<1>11. QED
  BY <1>2, <1>3, <1>4, <1>5, <1>6, <1>7, <1>8, <1>9, <1>10 DEF Next

LEMMA TypeInvariant == Spec => []TypeInv
<1>1. Init => TypeInv
  <2>1. Init => PlayersTyped
    BY LimitAssumption, FS_EmptySet DEF Init, PlayersTyped
  <2>2. Init => rounds \in Seq(RoundsOf(competing)) /\ TablesTyped /\ TimeoutsTyped /\ StartsEmpty
    BY LimitAssumption DEF Init, TablesTyped, TimeoutsTyped, StartsEmpty
  <2>3. QED
    BY <2>1, <2>2 DEF TypeInv
<1>2. TypeInv /\ [Next]_vars => TypeInv'
  BY PlayersStep, RoundsTypeStep, TablesTypeStep, TimeoutsTypeStep, StartsEmptyStep DEF TypeInv
<1>3. QED
  BY <1>1, <1>2, PTL DEF Spec

\* Every variable of the tournament keeps its type, in any event.
THEOREM TypeCorrect == Spec => []TypeOK
BY TypeInvariant, TypeInvGivesTypes, PTL

(***************************************************************************)
(* Results                                                                 *)
(***************************************************************************)
\* The state of a pairing after a step.
Becomes(id) == rounds'[id[1]][id[2]]

\* No step touches the result of a pairing but one that may.
LEMMA PairingStep ==
  ASSUME TypeInv, [Next]_vars, NEW id \in Pairings
  PROVE  \/ Becomes(id).score = At(id).score /\ Becomes(id).pending = At(id).pending
         \/ Ruled(id, Becomes(id))
<1>0. /\ id = <<id[1], id[2]>> /\ id[1] \in DOMAIN rounds /\ id[2] \in DOMAIN rounds[id[1]]
      /\ At(id) \in PairingState /\ At(id) = rounds[id[1]][id[2]]
  BY PairingFacts DEF At
<1>1. ASSUME NEW other \in Pairings, NEW state \in PairingState,
             SetPairing(other, state), Ruled(other, state)
      PROVE  \/ Becomes(id) = At(id)
             \/ Ruled(id, Becomes(id))
  <2>1. Becomes(id) = IF id = other THEN state ELSE At(id)
    BY <1>0, <1>1, OnePairing DEF Becomes
  <2>2. CASE id = other
    BY <1>1, <2>1, <2>2
  <2>3. CASE id # other
    BY <2>1, <2>3
  <2>4. QED
    BY <2>2, <2>3
<1>2. ASSUME NEW other \in Pairings, Command(other)
      PROVE  Becomes(id) = At(id) \/ Ruled(id, Becomes(id))
  <2>1. CASE Ruling(other)
    BY <1>1, <2>1, RulingSteps
  <2>2. CASE OpenMatch(other)
    BY <1>1, <2>2, OpeningSteps
  <2>3. QED
    BY <1>2, <2>1, <2>2 DEF Command, Ruling
<1>3. ASSUME NEW m \in timeouts, ApplyTimeout(m)
      PROVE  Becomes(id) = At(id) \/ Ruled(id, Becomes(id))
  <2>1. CASE UNCHANGED rounds
    BY <1>0, <2>1 DEF Becomes
  <2>2. CASE /\ m.of \in Pairings
             /\ \E state \in PairingState : SetPairing(m.of, state) /\ Ruled(m.of, state)
    BY <1>1, <2>2
  <2>3. QED
    BY <1>3, <2>1, <2>2, TimeoutSteps
<1>4. ASSUME NEW x, ClearRoom(x)
      PROVE  Becomes(id).score = At(id).score /\ Becomes(id).pending = At(id).pending
  <2>1. Becomes(id) = [At(id) EXCEPT !.table = IF @ = x THEN 0 ELSE @]
    BY <1>0, <1>4, ClearedPairings DEF Becomes
  <2>2. QED
    BY <1>0, <2>1 DEF PairingState
<1>5. ASSUME Start PROVE FALSE
  BY <1>0, <1>5, StartStep
<1>6. ASSUME Advance PROVE Becomes(id) = At(id)
  <2>1. CASE UNCHANGED rounds
    BY <1>0, <2>1 DEF Becomes
  <2>2. CASE \E round \in NextRounds(Active) : rounds' = Append(rounds, round)
    BY <1>0, <1>6, <2>2, AdvanceStep, AppendedRound DEF Becomes
  <2>3. QED
    BY <1>6, <2>1, <2>2, AdvanceStep
<1>7. UNCHANGED rounds => Becomes(id) = At(id)
  BY <1>0 DEF Becomes
<1>8. ASSUME NEW p \in Player, Register(p) \/ Unregister(p) \/ SetCheckedIn(p) \/ Drop(p)
      PROVE  UNCHANGED rounds
  BY <1>8 DEF Register, Unregister, SetCheckedIn, Drop
<1>9. ASSUME NEW x, RemoveRoom(x) \/ \E p \in Player : ClockExpires(x, p)
      PROVE  UNCHANGED rounds
  BY <1>9 DEF RemoveRoom, ClockExpires
<1>10. Cancel \/ UNCHANGED vars => UNCHANGED rounds
  BY DEF Cancel, vars
<1>11. QED
  BY <1>2, <1>3, <1>4, <1>5, <1>6, <1>7, <1>8, <1>9, <1>10 DEF Next

\* A result stands whatever is reported, times out, is closed or paired later:
\* only the organizer's ruling replaces it.
THEOREM ResultsAreFinal == Spec => ResultsStand
<1>1. TypeInv /\ [Next]_vars =>
        [\A id \in Pairings : At(id).score # "none" =>
           \/ rounds'[id[1]][id[2]].score = At(id).score
           \/ \E score \in Scores(id) : Correct(id, score)]_vars
  <2>1. SUFFICES ASSUME TypeInv, [Next]_vars, NEW id \in Pairings, At(id).score # "none"
                 PROVE  \/ rounds'[id[1]][id[2]].score = At(id).score
                        \/ \E score \in Scores(id) : Correct(id, score)
    OBVIOUS
  <2>2. QED
    BY <2>1, PairingStep DEF Becomes, Ruled
<1>2. QED
  BY <1>1, TypeInvariant, PTL DEF Spec, ResultsStand

(***************************************************************************)
(* Tables                                                                  *)
(***************************************************************************)
\* A step that leaves the tables alone leaves every pairing its own.
LEMMA TableKept ==
  ASSUME TypeInv, [Next]_vars, UNCHANGED tables, NEW id \in Pairings,
         \A other \in Pairings : ~OpenMatch(other)
  PROVE  Becomes(id).table = At(id).table
<1>0. /\ id = <<id[1], id[2]>> /\ id[1] \in DOMAIN rounds /\ id[2] \in DOMAIN rounds[id[1]]
      /\ At(id) = rounds[id[1]][id[2]]
  BY PairingFacts DEF At
<1>1. ASSUME NEW other \in Pairings, NEW state \in PairingState,
             SetPairing(other, state), state.table = At(other).table
      PROVE  Becomes(id).table = At(id).table
  BY <1>0, <1>1, OnePairing DEF Becomes
<1>2. ASSUME NEW other \in Pairings, Command(other) PROVE Becomes(id).table = At(id).table
  BY <1>1, <1>2, RulingSteps DEF Command, Ruling
<1>3. ASSUME NEW m \in timeouts, ApplyTimeout(m) PROVE Becomes(id).table = At(id).table
  <2>1. CASE UNCHANGED rounds
    BY <1>0, <2>1 DEF Becomes
  <2>2. CASE /\ m.of \in Pairings
             /\ \E state \in PairingState : SetPairing(m.of, state) /\ state.table = At(m.of).table
    BY <1>1, <2>2
  <2>3. QED
    BY <1>3, <2>1, <2>2, TimeoutSteps
<1>4. ASSUME Start PROVE FALSE
  BY <1>0, <1>4, StartStep
<1>5. ASSUME Advance PROVE Becomes(id) = At(id)
  <2>1. CASE UNCHANGED rounds
    BY <1>0, <2>1 DEF Becomes
  <2>2. CASE \E round \in NextRounds(Active) : rounds' = Append(rounds, round)
    BY <1>0, <1>5, <2>2, AdvanceStep, AppendedRound DEF Becomes
  <2>3. QED
    BY <1>5, <2>1, <2>2, AdvanceStep
<1>6. UNCHANGED rounds => Becomes(id) = At(id)
  BY <1>0 DEF Becomes
<1>7. ASSUME NEW p \in Player, Register(p) \/ Unregister(p) \/ SetCheckedIn(p) \/ Drop(p)
      PROVE  UNCHANGED rounds
  BY <1>7 DEF Register, Unregister, SetCheckedIn, Drop
<1>8. ASSUME NEW x, RemoveRoom(x) \/ \E p \in Player : ClockExpires(x, p)
      PROVE  UNCHANGED rounds
  BY <1>8 DEF RemoveRoom, ClockExpires
<1>9. Cancel \/ UNCHANGED vars => UNCHANGED rounds
  BY DEF Cancel, vars
<1>10. ASSUME NEW x \in DOMAIN tables, ClearRoom(x) PROVE FALSE
  <2>1. tables[x] \in Table
    BY ElementOfSeq, x \in 1 .. Len(tables) DEF TypeInv, TablesTyped, Table
  <2>2. tables'[x].phase = "forgotten" /\ tables[x].phase = "gone"
    BY <1>10, <2>1 DEF ClearRoom, Table
  <2>3. QED
    BY <2>2
<1>11. QED
  BY <1>2, <1>3, <1>4, <1>5, <1>6, <1>7, <1>8, <1>9, <1>10 DEF Next

LEMMA OneTableStep ==
  ASSUME TypeInv, OneTable, [Next]_vars
  PROVE  OneTable'
<1>0. /\ tables \in Seq(Table) /\ Len(tables) \in Nat /\ DOMAIN tables = 1 .. Len(tables)
      /\ \A x \in DOMAIN tables : tables[x].of \in Matches /\ tables[x].of \in Pairings
      /\ \A x \in DOMAIN tables : tables[x].phase = "open" => At(tables[x].of).table = x
  BY DEF TypeInv, TablesTyped, Table, OneTable, IsOpen, Matches
<1>1. SUFFICES ASSUME NEW x \in DOMAIN tables', tables'[x].phase = "open"
               PROVE  Becomes(tables'[x].of).table = x
  BY DEF OneTable, IsOpen, At, Becomes
<1>2. CASE UNCHANGED tables /\ \A id \in Pairings : ~OpenMatch(id)
  BY <1>0, <1>1, <1>2, TableKept
<1>3. ASSUME NEW id \in Pairings, OpenMatch(id)
      PROVE  Becomes(tables'[x].of).table = x
  <2>1. PICK state \in PairingState :
          /\ SetPairing(id, state)
          /\ \/ state.table = Len(tables) + 1 /\ tables' = Append(tables, [of |-> id, phase |-> "open"])
             \/ UNCHANGED tables
    BY <1>3, OpeningSteps
  <2>2. \A other \in Pairings : Becomes(other) = IF other = id THEN state ELSE At(other)
    <3>1. ASSUME NEW other \in Pairings PROVE Becomes(other) = IF other = id THEN state ELSE At(other)
      <4>1. /\ other = <<other[1], other[2]>> /\ other[1] \in DOMAIN rounds /\ other[2] \in DOMAIN rounds[other[1]]
            /\ At(other) = rounds[other[1]][other[2]]
        BY PairingFacts DEF At
      <4>2. QED
        BY <2>1, <4>1, OnePairing DEF Becomes
    <3>2. QED
      BY <3>1
  <2>3. ASSUME NEW y \in DOMAIN tables, tables[y].phase = "open"
        PROVE  Becomes(tables[y].of).table = y
    <3>1. tables[y].of # id
      BY <1>0, <1>3, <2>3, OpeningSteps DEF IsOpen
    <3>2. QED
      BY <1>0, <2>2, <2>3, <3>1
  <2>4. CASE UNCHANGED tables
    BY <1>1, <2>3, <2>4
  <2>5. CASE state.table = Len(tables) + 1 /\ tables' = Append(tables, [of |-> id, phase |-> "open"])
    <3>1. PICK table \in Table : table = [of |-> id, phase |-> "open"]
      BY <1>3, OpeningSteps, MatchesAreTyped DEF Table, Phases
    <3>2. /\ DOMAIN tables' = 1 .. Len(tables) + 1 /\ tables'[Len(tables) + 1] = table
          /\ \A y \in DOMAIN tables : tables'[y] = tables[y]
      BY <1>0, <2>5, <3>1, OneTableMore
    <3>3. CASE x = Len(tables) + 1
      BY <2>2, <2>5, <3>1, <3>2, <3>3
    <3>4. CASE x # Len(tables) + 1
      <4>1. x \in DOMAIN tables
        BY <1>0, <1>1, <3>2, <3>4
      <4>2. QED
        BY <1>1, <2>3, <3>2, <4>1
    <3>5. QED
      BY <3>3, <3>4
  <2>6. QED
    BY <2>1, <2>4, <2>5
<1>4. ASSUME NEW y \in DOMAIN tables, NEW phase \in {"gone", "forgotten"},
             RemoveRoom(y) \/ ClearRoom(y), tables' = [tables EXCEPT ![y].phase = phase]
      PROVE  Becomes(tables'[x].of).table = x
  <2>1. /\ DOMAIN tables' = DOMAIN tables /\ tables'[x].of = tables[x].of
        /\ tables'[x].phase = IF x = y THEN phase ELSE tables[x].phase
    <3>1. phase \in Phases
      BY DEF Phases
    <3>2. /\ DOMAIN tables' = DOMAIN tables
          /\ \A z \in DOMAIN tables : /\ tables'[z].of = tables[z].of
                                      /\ tables'[z].phase = IF z = y THEN phase ELSE tables[z].phase
      BY <1>0, <1>4, <3>1, OnePhase
    <3>3. QED
      BY <1>1, <3>2
  <2>2. x # y /\ x \in DOMAIN tables /\ tables[x].phase = "open" /\ tables[x].of \in Pairings
    BY <1>0, <1>1, <2>1
  <2>3. At(tables[x].of).table = x
    BY <1>0, <2>2
  <2>4. CASE RemoveRoom(y)
    BY <2>1, <2>3, <2>4 DEF RemoveRoom, Becomes, At
  <2>5. CASE ClearRoom(y)
    <3> DEFINE id == tables[x].of
    <3>1. /\ id = <<id[1], id[2]>> /\ id[1] \in DOMAIN rounds /\ id[2] \in DOMAIN rounds[id[1]]
          /\ At(id) = rounds[id[1]][id[2]] /\ At(id) \in PairingState
      BY <2>2, PairingFacts DEF At
    <3>2. Becomes(id) = [At(id) EXCEPT !.table = IF @ = y THEN 0 ELSE @]
      BY <2>5, <3>1, ClearedPairings DEF Becomes
    <3>3. Becomes(id).table = x
      BY <2>2, <2>3, <3>1, <3>2 DEF PairingState
    <3>4. QED
      BY <2>1, <3>3
  <2>6. QED
    BY <1>4, <2>4, <2>5
<1>5. QED
  BY <1>2, <1>3, <1>4, TableSteps

\* An open table is the one its pairing leads both players to, however late the
\* end of an earlier room of that pairing is noticed.
THEOREM TablesAreSingle == Spec => []OneTable
<1>1. Init => OneTable
  BY DEF Init, OneTable, IsOpen
<1>2. QED
  BY <1>1, OneTableStep, TypeInvariant, PTL DEF Spec

(***************************************************************************)
(* Byes                                                                    *)
(***************************************************************************)
\* Those who still play become fewer, but for the start.
LEMMA ActiveShrinks ==
  ASSUME TypeInv, [Next]_vars, ~Start
  PROVE  Active' \subseteq Active
<1>1. \A id \in Pairings : Command(id) => UNCHANGED <<competing, dropped>>
  BY RulingSteps, OpeningSteps DEF Command, Ruling, players
<1>2. \A p \in Player : Register(p) \/ Unregister(p) \/ SetCheckedIn(p) => UNCHANGED <<competing, dropped>>
  BY DEF Register, Unregister, SetCheckedIn
<1>3. \A p \in Player : Drop(p) => competing' = competing /\ dropped \subseteq dropped'
  BY DEF Drop, players
<1>4. Advance \/ Cancel \/ UNCHANGED vars => UNCHANGED <<competing, dropped>>
  BY DEF Advance, Cancel, vars, players
<1>5. \A x \in DOMAIN tables :
        RemoveRoom(x) \/ ClearRoom(x) \/ (\E p \in Player : ClockExpires(x, p)) => UNCHANGED <<competing, dropped>>
  BY DEF RemoveRoom, ClearRoom, ClockExpires, players
<1>6. \A m \in timeouts : ApplyTimeout(m) => UNCHANGED <<competing, dropped>>
  BY DEF ApplyTimeout, players
<1>7. competing' = competing /\ dropped \subseteq dropped'
  BY <1>1, <1>2, <1>3, <1>4, <1>5, <1>6 DEF Next
<1>8. QED
  BY <1>7 DEF Active

LEMMA FirstNumbers ==
  ASSUME NEW n \in Nat
  PROVE  IsFiniteSet(1 .. n) /\ Cardinality(1 .. n) = n
<1>1. IsFiniteSet(1 .. n) /\ Cardinality(1 .. n) = IF 1 > n THEN 0 ELSE n - 1 + 1
  BY FS_Interval
<1>2. QED
  BY <1>1

\* The rounds p sat out.
ByesOf(p) == {k \in DOMAIN rounds : {p} \in DOMAIN rounds[k]}

LEMMA ByesAreCounted ==
  ASSUME rounds \in Seq(RoundsOf(competing)), NEW p
  PROVE  /\ IsFiniteSet(ByesOf(p)) /\ ByeCount(p) = Cardinality(ByesOf(p)) /\ ByeCount(p) \in Nat
         /\ ByesOf(p) \subseteq 1 .. Len(rounds) /\ Len(rounds) \in Nat
         /\ ByeCount(p) <= Len(rounds)
<1>1. ByesOf(p) \subseteq 1 .. Len(rounds) /\ Len(rounds) \in Nat
  BY DEF ByesOf
<1>2. IsFiniteSet(1 .. Len(rounds)) /\ Cardinality(1 .. Len(rounds)) = Len(rounds)
  BY <1>1, FirstNumbers
<1>3. IsFiniteSet(ByesOf(p)) /\ Cardinality(ByesOf(p)) \in Nat /\ Cardinality(ByesOf(p)) <= Len(rounds)
  BY <1>1, <1>2, FS_Subset, FS_CardinalityType
<1>4. QED
  BY <1>1, <1>3 DEF ByeCount, ByesOf

\* A new round seats one player less if the field is odd: one with the fewest
\* byes.  Everybody else is in a pair.
LEMMA WhoHasBye ==
  ASSUME NEW S \in SUBSET Player, NEW round \in NextRounds(S), NEW p, {p} \in DOMAIN round
  PROVE  p \in S /\ \A q \in S : ByeCount(p) <= ByeCount(q)
<1>1. PICK rank \in Standings(S) : \E pairs \in CheapestPairs(S \ Bye(S, rank), rank) :
        round = NewRound(pairs, Bye(S, rank))
  BY NextRound
<1>2. PICK pairs \in CheapestPairs(S \ Bye(S, rank), rank) : round = NewRound(pairs, Bye(S, rank))
  BY <1>1
<1>3. pairs \subseteq kSubset(2, S)
  BY CheapestPairsOff DEF PairsOff, kSubset
<1>4. DOMAIN round = pairs \cup {{q} : q \in Bye(S, rank)}
  BY <1>2, <1>3, ByeIsPlayer, NewRoundTyped DEF Singles, MadeOf
<1>5. {p} \notin pairs
  <2>1. Cardinality({p}) = 1
    BY FS_Singleton
  <2>2. \A pair \in pairs : Cardinality(pair) = 2
    BY <1>3, PairsAreTwo
  <2>3. QED
    BY <2>1, <2>2
<1>6. p \in Bye(S, rank)
  BY <1>4, <1>5
<1>7. QED
  BY <1>6 DEF Bye

LEMMA ByesStep ==
  ASSUME TypeInv, TypeInv', ByesAreShared, [Next]_vars
  PROVE  ByesAreShared'
<1>0. rounds \in Seq(RoundsOf(competing)) /\ rounds' \in Seq(RoundsOf(competing'))
  BY DEF TypeInv
<1>1. CASE ~Start /\ (UNCHANGED rounds \/ SameShape)
  <2>1. \A p : ByesOf(p)' = ByesOf(p)
    BY <1>0, <1>1, ShapeKept DEF ByesOf
  <2>2. \A p : ByeCount(p)' = ByeCount(p)
    BY <1>0, <2>1 DEF ByeCount, ByesOf
  <2>3. QED
    BY <1>1, <2>2, ActiveShrinks DEF ByesAreShared
<1>2. CASE Start
  <2>1. PICK round : rounds' = <<round>>
    BY <1>2, StartStep
  <2>2. Len(rounds') = 1
    BY <2>1
  <2>3. \A p : ByeCount(p)' \in Nat /\ ByeCount(p)' <= 1
    <3>1. ASSUME NEW p PROVE ByeCount(p)' \in Nat /\ ByeCount(p)' <= 1
      <4>1. ByesOf(p)' \subseteq 1 .. 1
        BY <2>1 DEF ByesOf
      <4>2. IsFiniteSet(1 .. 1) /\ Cardinality(1 .. 1) = 1
        BY FirstNumbers
      <4>3. Cardinality(ByesOf(p)') \in Nat /\ Cardinality(ByesOf(p)') <= 1
        BY <4>1, <4>2, FS_Subset, FS_CardinalityType
      <4>4. QED
        BY <4>3 DEF ByeCount, ByesOf
    <3>2. QED
      BY <3>1
  <2>4. QED
    BY <2>3 DEF ByesAreShared
<1>3. CASE ~Start /\ Advance /\ \E round \in NextRounds(Active) : rounds' = Append(rounds, round)
  <2>1. PICK round \in NextRounds(Active) : rounds' = Append(rounds, round)
    BY <1>3
  <2>2. /\ Len(rounds) \in Nat
        /\ DOMAIN rounds' = 1 .. Len(rounds) + 1 /\ DOMAIN rounds = 1 .. Len(rounds)
        /\ \A k \in DOMAIN rounds : rounds'[k] = rounds[k]
        /\ rounds'[Len(rounds) + 1] = round
    BY <1>3, <2>1, AdvanceStep, AppendedRound
  <2>3. ASSUME NEW p
        PROVE  ByeCount(p)' = ByeCount(p) + (IF {p} \in DOMAIN round THEN 1 ELSE 0)
    <3>1. ByesOf(p)' = ByesOf(p) \cup (IF {p} \in DOMAIN round THEN {Len(rounds) + 1} ELSE {})
      BY <2>2 DEF ByesOf
    <3>2. IsFiniteSet(ByesOf(p)) /\ ByeCount(p) = Cardinality(ByesOf(p)) /\ ByeCount(p) \in Nat
      BY <1>0, ByesAreCounted
    <3>0. Len(rounds) + 1 \notin ByesOf(p)
      BY <2>2 DEF ByesOf
    <3>3. Cardinality(ByesOf(p) \cup {Len(rounds) + 1}) = Cardinality(ByesOf(p)) + 1
      BY <3>0, <3>2, FS_AddElement
    <3>4. ByeCount(p)' = Cardinality(ByesOf(p)')
      BY DEF ByeCount, ByesOf
    <3>5. QED
      BY <3>1, <3>2, <3>3, <3>4
  <2>4. ASSUME NEW p \in Active', NEW q \in Active'
        PROVE  ByeCount(p)' <= ByeCount(q)' + 1
    <3>1. p \in Active /\ q \in Active /\ Active \subseteq Player
      BY <1>3, <2>4, ActiveShrinks DEF Active, TypeInv, PlayersTyped
    <3>2. ByeCount(p) \in Nat /\ ByeCount(q) \in Nat /\ ByeCount(p) <= ByeCount(q) + 1
      BY <1>0, <3>1, ByesAreCounted DEF ByesAreShared
    <3>3. {p} \in DOMAIN round => ByeCount(p) <= ByeCount(q)
      BY <2>1, <3>1, WhoHasBye
    <3>4. ByeCount(q)' \in {ByeCount(q), ByeCount(q) + 1}
      <4>1. CASE {q} \in DOMAIN round
        BY <2>3, <4>1
      <4>2. CASE {q} \notin DOMAIN round
        <5>1. ByeCount(q)' = ByeCount(q) + 0
          BY <2>3, <4>2
        <5>2. QED
          BY <3>2, <5>1
      <4>3. QED
        BY <4>1, <4>2
    <3>5. CASE {p} \in DOMAIN round
      <4>1. ByeCount(p)' = ByeCount(p) + 1
        BY <2>3, <3>5
      <4>2. QED
        BY <3>2, <3>3, <3>4, <3>5, <4>1
    <3>6. CASE {p} \notin DOMAIN round
      <4>1. ByeCount(p)' = ByeCount(p) + 0
        BY <2>3, <3>6
      <4>2. QED
        BY <3>2, <3>4, <4>1
    <3>7. QED
      BY <3>5, <3>6
  <2>5. QED
    BY <2>4 DEF ByesAreShared
<1>4. QED
  BY <1>1, <1>2, <1>3, RoundSteps

\* Byes go round: whoever sat out once more than another did so while that
\* player had sat out as often, and drops in between change nothing of it.
THEOREM ByesGoRound == Spec => []ByesAreShared
<1>1. Init => ByesAreShared
  BY DEF Init, ByesAreShared, Active
<1>2. QED
  BY <1>1, ByesStep, TypeInvariant, PTL DEF Spec

(***************************************************************************)
(* Pairing off                                                             *)
(***************************************************************************)
LEMMA Halves ==
  ASSUME NEW n \in Nat
  PROVE  /\ n % 2 \in {0, 1} /\ n \div 2 \in Nat
         /\ n % 2 = 0 => n = 2 * (n \div 2)
         /\ n % 2 = 0 <=> (n + 1) % 2 # 0
OBVIOUS

\* The numbers of the players of S are all different and none exceeds n.
Ranked(S, rank, n) ==
  /\ \A p \in S : rank[p] \in 1 .. n
  /\ \A p, q \in S : p # q => rank[p] # rank[q]

LEMMA StandingsRank ==
  ASSUME NEW S, NEW rank \in Standings(S)
  PROVE  Ranked(S, rank, Cardinality(S))
<1>1. PICK points \in {[p \in S |-> MatchPoints(p)]} :
        rank \in {r \in [S -> 1 .. Cardinality(S)] : \A p, q \in S : p # q =>
                    r[p] # r[q] /\ (points[p] > points[q] => r[p] < r[q])}
  BY DEF Standings
<1>2. QED
  BY <1>1 DEF Ranked

LEMMA ShufflesRank ==
  ASSUME NEW S \in SUBSET Player, NEW shuffle \in Shuffles
  PROVE  Ranked(S, shuffle, Cardinality(Player))
BY ShuffleAssumption DEF Ranked

LastOf(S, rank) == {p \in S : \A q \in S : rank[q] <= rank[p]}

\* Of ranked players one is the last.
LEMMA SomebodyIsLast ==
  ASSUME NEW S, S # {}, NEW rank, NEW n \in Nat, Ranked(S, rank, n)
  PROVE  \E p \in S : LastOf(S, rank) = {p}
<1> DEFINE behind == {n - rank[p] : p \in S}
<1>1. behind \in SUBSET Nat /\ behind # {}
  BY DEF Ranked
<1>2. PICK d \in behind : \A e \in behind : d <= e
  BY <1>1, LeastNumber
<1>3. PICK p \in S : d = n - rank[p]
  BY <1>2
<1>4. \A q \in S : rank[q] <= rank[p]
  BY <1>2, <1>3 DEF Ranked
<1>5. \A x \in S : (\A q \in S : rank[q] <= rank[x]) => x = p
  BY <1>4 DEF Ranked
<1>6. QED
  BY <1>4, <1>5 DEF LastOf

\* An even field has no bye, an odd one a single bye: who is left is even.
LEMMA OneBye ==
  ASSUME rounds \in Seq(RoundsOf(competing)), NEW S \in SUBSET Player,
         NEW rank, NEW n \in Nat, Ranked(S, rank, n)
  PROVE  /\ Bye(S, rank) = {} \/ \E p \in S : Bye(S, rank) = {p}
         /\ Cardinality(S \ Bye(S, rank)) % 2 = 0
<1>1. IsFiniteSet(S) /\ Cardinality(S) \in Nat
  BY PlayersAreFinite
<1>2. CASE Cardinality(S) % 2 = 0
  <2>1. Bye(S, rank) = {}
    BY <1>2 DEF Bye
  <2>2. S \ Bye(S, rank) = S
    BY <2>1
  <2>3. QED
    BY <1>2, <2>1, <2>2
<1>3. CASE Cardinality(S) % 2 # 0
  <2> DEFINE fewest == {p \in S : \A q \in S : ByeCount(p) <= ByeCount(q)}
             counts == {ByeCount(p) : p \in S}
  <2>1. S # {}
    <3>1. 0 % 2 = 0
      OBVIOUS
    <3>2. QED
      BY <1>3, <3>1, FS_EmptySet
  <2>2. \A p \in S : ByeCount(p) \in Nat
    BY ByesAreCounted
  <2>3. fewest # {}
    <3>1. counts \in SUBSET Nat /\ counts # {}
      BY <2>1, <2>2
    <3>2. PICK c \in counts : \A e \in counts : c <= e
      BY <3>1, LeastNumber
    <3>3. PICK p \in S : c = ByeCount(p)
      BY <3>2
    <3>4. QED
      BY <3>2, <3>3
  <2>4. Ranked(fewest, rank, n)
    BY DEF Ranked
  <2>5. Bye(S, rank) = LastOf(fewest, rank)
    BY <1>3 DEF Bye, LastOf
  <2>6. fewest \subseteq S
    OBVIOUS
  <2> HIDE DEF fewest
  <2>7. PICK p \in fewest : LastOf(fewest, rank) = {p}
    BY <2>3, <2>4, SomebodyIsLast
  <2>8. p \in S /\ Bye(S, rank) = {p}
    BY <2>5, <2>6, <2>7
  <2>9. Cardinality(S \ {p}) = Cardinality(S) - 1
    BY <1>1, <2>8, FS_RemoveElement
  <2>10. Cardinality(S) # 0
    BY <1>1, <2>1, FS_EmptySet
  <2>11. (Cardinality(S) - 1) % 2 = 0
    <3>1. Cardinality(S) - 1 \in Nat
      BY <1>1, <2>10
    <3>2. Cardinality(S) = (Cardinality(S) - 1) + 1
      BY <1>1
    <3>3. QED
      BY <1>3, <3>1, <3>2, Halves
  <2>12. QED
    BY <2>8, <2>9, <2>11
<1>4. QED
  BY <1>2, <1>3

\* The places of ranked players are the numbers below their count, once each.
LEMMA PlacesAreAll ==
  ASSUME NEW S \in SUBSET Player, NEW rank, NEW n \in Nat, Ranked(S, rank, n)
  PROVE  /\ \A p \in S : Place(S, rank, p) \in 0 .. Cardinality(S) - 1
         /\ \A p, q \in S : Place(S, rank, p) = Place(S, rank, q) => p = q
         /\ \A k \in 0 .. Cardinality(S) - 1 : \E p \in S : Place(S, rank, p) = k
<1> DEFINE before(p) == {q \in S : rank[q] < rank[p]}
           c == Cardinality(S)
           place == [p \in S |-> Place(S, rank, p)]
<1>1. IsFiniteSet(S) /\ c \in Nat
  BY PlayersAreFinite
<1>2. \A p \in S : IsFiniteSet(before(p)) /\ Place(S, rank, p) = Cardinality(before(p)) /\ Place(S, rank, p) \in Nat
  BY PlaceIsNat DEF Place
<1>3. \A p \in S : rank[p] \in Nat
  BY DEF Ranked
<1>4. ASSUME NEW p \in S PROVE Place(S, rank, p) \in 0 .. c - 1
  <2>1. before(p) \in SUBSET (S \ {p})
    BY <1>3
  <2>2. IsFiniteSet(S \ {p}) /\ Cardinality(S \ {p}) = c - 1
    BY <1>1, FS_RemoveElement
  <2> HIDE DEF before
  <2>3. Cardinality(before(p)) <= c - 1
    BY <2>1, <2>2, FS_Subset
  <2>4. QED
    BY <1>1, <1>2, <2>3
<1>5. ASSUME NEW p \in S, NEW q \in S, rank[p] < rank[q]
      PROVE  Place(S, rank, p) < Place(S, rank, q)
  <2>1. before(p) \cup {p} \in SUBSET before(q) /\ p \notin before(p)
    BY <1>3, <1>5
  <2>2. IsFiniteSet(before(p)) /\ IsFiniteSet(before(q))
        /\ Place(S, rank, p) = Cardinality(before(p)) /\ Place(S, rank, p) \in Nat
        /\ Place(S, rank, q) = Cardinality(before(q)) /\ Place(S, rank, q) \in Nat
    BY <1>2
  <2> HIDE DEF before
  <2>3. Cardinality(before(p) \cup {p}) = Cardinality(before(p)) + 1
    BY <2>1, <2>2, FS_AddElement
  <2>4. Cardinality(before(p) \cup {p}) <= Cardinality(before(q))
    BY <2>1, <2>2, FS_Subset
  <2>5. QED
    BY <2>2, <2>3, <2>4
<1>6. \A p, q \in S : Place(S, rank, p) = Place(S, rank, q) => p = q
  <2>1. ASSUME NEW p \in S, NEW q \in S, p # q PROVE Place(S, rank, p) # Place(S, rank, q)
    <3>1. rank[p] < rank[q] \/ rank[q] < rank[p]
      BY <1>3, <2>1 DEF Ranked
    <3>2. Place(S, rank, p) \in Nat /\ Place(S, rank, q) \in Nat
      BY <1>2
    <3>3. Place(S, rank, p) < Place(S, rank, q) \/ Place(S, rank, q) < Place(S, rank, p)
      BY <1>5, <3>1
    <3> HIDE DEF before, place
    <3>4. QED
      BY <3>2, <3>3
  <2>2. QED
    BY <2>1
<1>7. place \in Injection(S, 0 .. c - 1)
  BY <1>4, <1>6 DEF Injection, IsInjective
<1>8. IsFiniteSet(0 .. c - 1) /\ Cardinality(0 .. c - 1) = c
  <2>1. PICK last \in Int : last = c - 1
    BY <1>1
  <2>2. IsFiniteSet(0 .. last) /\ Cardinality(0 .. last) = IF 0 > last THEN 0 ELSE last - 0 + 1
    BY FS_Interval
  <2>3. QED
    BY <1>1, <2>1, <2>2
<1>9. place \in Surjection(S, 0 .. c - 1)
  <2> HIDE DEF place
  <2>1. QED
    BY <1>1, <1>7, <1>8, FS_Injection
<1>10. \A k \in 0 .. c - 1 : \E p \in S : Place(S, rank, p) = k
  BY <1>9 DEF Surjection
<1>11. QED
  BY <1>4, <1>6, <1>10

\* The pairs seat every player of S, and nobody twice.
PairsUp(pairs, S) ==
  /\ pairs \subseteq kSubset(2, S)
  /\ UNION pairs = S
  /\ \A a, b \in pairs : a # b => a \cap b = {}

\* n pairs seat at most 2n players.
LEMMA PairsCoverTwice ==
  ASSUME NEW S \in SUBSET Player, NEW m \in SUBSET kSubset(2, S), IsFiniteSet(m)
  PROVE  IsFiniteSet(UNION m) /\ Cardinality(UNION m) <= 2 * Cardinality(m)
<1> DEFINE Good(s) == Cardinality(UNION s) <= 2 * Cardinality(s)
           Bad == {n \in Nat : \E s \in SUBSET m : Cardinality(s) = n /\ ~Good(s)}
<1>1. \A s \in SUBSET m : /\ IsFiniteSet(s) /\ Cardinality(s) \in Nat
                          /\ IsFiniteSet(UNION s) /\ Cardinality(UNION s) \in Nat
  <2>1. ASSUME NEW s \in SUBSET m
        PROVE  /\ IsFiniteSet(s) /\ Cardinality(s) \in Nat
               /\ IsFiniteSet(UNION s) /\ Cardinality(UNION s) \in Nat
    <3>1. UNION s \in SUBSET Player
      BY PairsAreTwo
    <3>2. IsFiniteSet(UNION s) /\ Cardinality(UNION s) \in Nat
      BY <3>1, PlayersAreFinite
    <3>3. IsFiniteSet(s) /\ Cardinality(s) \in Nat
      BY FS_Subset, FS_CardinalityType
    <3>4. QED
      BY <3>2, <3>3
  <2>2. QED
    BY <2>1
<1>2. Bad = {}
  <2>1. SUFFICES ASSUME Bad # {} PROVE FALSE
    OBVIOUS
  <2>2. PICK n \in Bad : \A j \in Bad : n <= j
    <3>1. Bad \in SUBSET Nat
      OBVIOUS
    <3> HIDE DEF Bad
    <3>2. QED
      BY <2>1, <3>1, LeastNumber
  <2>3. PICK s \in SUBSET m : Cardinality(s) = n /\ ~Good(s)
    BY <2>2
  <2>4. IsFiniteSet(s) /\ n \in Nat
    BY <1>1, <2>2
  <2>5. s # {}
    <3>1. SUFFICES ASSUME s = {} PROVE FALSE
      OBVIOUS
    <3>2. Cardinality(s) = 0 /\ UNION s = {}
      BY <3>1, FS_EmptySet
    <3>3. Cardinality(UNION s) = 0
      BY <3>2, FS_EmptySet
    <3>4. QED
      BY <2>3, <3>2, <3>3
  <2>6. PICK pair \in s : TRUE
    BY <2>5
  <2>7. Cardinality(s \ {pair}) = n - 1 /\ n # 0
    <3>1. Cardinality(s \ {pair}) = Cardinality(s) - 1
      BY <2>4, <2>6, FS_RemoveElement
    <3>2. Cardinality(s) # 0
      BY <2>4, <2>5, FS_EmptySet
    <3>3. QED
      BY <2>3, <3>1, <3>2
  <2>8. Good(s \ {pair})
    <3>1. n - 1 \in Nat /\ ~(n <= n - 1)
      BY <2>4, <2>7
    <3>2. n - 1 \notin Bad
      BY <2>2, <3>1
    <3>3. s \ {pair} \in SUBSET m
      OBVIOUS
    <3> HIDE DEF Good
    <3>4. QED
      BY <3>1, <3>2, <3>3, <2>7
  <2>9. Cardinality(UNION s) <= Cardinality(UNION (s \ {pair})) + 2
    <3> DEFINE rest == UNION (s \ {pair})
    <3>1. UNION s = rest \cup pair
      BY <2>6
    <3>2. pair \in SUBSET Player /\ Cardinality(pair) = 2
      BY <2>6, PairsAreTwo
    <3>3. IsFiniteSet(pair)
      BY <3>2, PlayersAreFinite
    <3>4. IsFiniteSet(rest) /\ Cardinality(rest) \in Nat
      BY <1>1
    <3> HIDE DEF rest
    <3>5. Cardinality(rest \cup pair) = Cardinality(rest) + Cardinality(pair) - Cardinality(rest \cap pair)
      BY <3>3, <3>4, FS_Union
    <3>6. Cardinality(rest \cap pair) \in Nat
      BY <3>3, <3>4, FS_Intersection, FS_CardinalityType
    <3>7. Cardinality(rest \cup pair) <= Cardinality(rest) + 2
      BY ONLY <3>2, <3>4, <3>5, <3>6
    <3>8. QED
      BY <3>1, <3>7 DEF rest
  <2>10. Cardinality(UNION s) \in Nat /\ Cardinality(UNION (s \ {pair})) \in Nat
    BY <1>1
  <2>11. Good(s)
    BY <2>3, <2>4, <2>7, <2>8, <2>9, <2>10
  <2>12. QED
    BY <2>3, <2>11
<1>3. Good(m)
  <2> HIDE DEF Good
  <2>1. QED
    BY <1>1, <1>2
<1>4. QED
  BY <1>1, <1>3

\* So pairs that are half as many as the players they seat never share one.
LEMMA PairingOffIsWhole ==
  ASSUME NEW S \in SUBSET Player, Cardinality(S) % 2 = 0, NEW m \in PairsOff(S)
  PROVE  PairsUp(m, S) /\ IsFiniteSet(m) /\ 2 * Cardinality(m) = Cardinality(S)
<1> DEFINE half == Cardinality(S) \div 2
<1>1. m \in SUBSET kSubset(2, S) /\ Cardinality(m) = half /\ UNION m = S
  BY DEF PairsOff, kSubset
<1>2. Cardinality(S) \in Nat /\ IsFiniteSet(S) /\ half \in Nat /\ Cardinality(S) = 2 * half
  BY PlayersAreFinite, Halves
<1>3. IsFiniteSet(m)
  <2>1. IsFiniteSet(SUBSET S)
    BY <1>2, FS_SUBSET
  <2>2. m \in SUBSET SUBSET S
    BY <1>1, PairsAreTwo
  <2>3. QED
    BY <2>1, <2>2, FS_Subset
<1>4. ASSUME NEW a \in m, NEW b \in m, a # b, a \cap b # {}
      PROVE  FALSE
  <2> DEFINE others == m \ {a, b}
  <2>1. a \in SUBSET Player /\ b \in SUBSET Player /\ Cardinality(a) = 2 /\ Cardinality(b) = 2
    BY <1>1, PairsAreTwo
  <2>2. IsFiniteSet(a) /\ IsFiniteSet(b)
    BY <2>1, PlayersAreFinite
  <2>3. Cardinality(a \cup b) = Cardinality(a) + Cardinality(b) - Cardinality(a \cap b)
    BY <2>2, FS_Union
  <2>4. IsFiniteSet(a \cap b) /\ Cardinality(a \cap b) \in Nat /\ Cardinality(a \cap b) # 0
    BY <1>4, <2>2, FS_Intersection, FS_CardinalityType, FS_EmptySet
  <2>5. Cardinality(others) = half - 2 /\ IsFiniteSet(others)
    <3>1. IsFiniteSet(m \ {a}) /\ Cardinality(m \ {a}) = half - 1
      BY <1>1, <1>2, <1>3, FS_RemoveElement
    <3>2. IsFiniteSet((m \ {a}) \ {b}) /\ Cardinality((m \ {a}) \ {b}) = Cardinality(m \ {a}) - 1
      BY <1>4, <3>1, FS_RemoveElement
    <3>3. (m \ {a}) \ {b} = others
      OBVIOUS
    <3>4. Cardinality(others) = Cardinality(m \ {a}) - 1 /\ IsFiniteSet(others)
      BY <3>2, <3>3
    <3> HIDE DEF half, others
    <3>5. QED
      BY <1>2, <3>1, <3>4
  <2>6. IsFiniteSet(UNION others) /\ Cardinality(UNION others) <= 2 * Cardinality(others)
    BY <1>1, <2>5, PairsCoverTwice
  <2>7. S = (UNION others) \cup (a \cup b)
    BY <1>1
  <2>8. IsFiniteSet(a \cup b)
    BY <2>2, FS_Union
  <2> HIDE DEF others
  <2>9. Cardinality(S) = Cardinality(UNION others) + Cardinality(a \cup b) - Cardinality((UNION others) \cap (a \cup b))
    BY <2>6, <2>7, <2>8, FS_Union
  <2>10. Cardinality((UNION others) \cap (a \cup b)) \in Nat
    BY <2>6, FS_Intersection, FS_CardinalityType
  <2>11. Cardinality(UNION others) \in Nat
    BY <2>6, FS_CardinalityType
  <2>12. Cardinality(a \cup b) \in Int /\ Cardinality(a \cup b) <= 3
    BY <2>1, <2>3, <2>4
  <2> HIDE DEF half
  <2>13. Cardinality(UNION others) <= 2 * (half - 2)
    BY <2>5, <2>6
  <2>14. Cardinality(S) <= Cardinality(UNION others) + 3
    BY <1>2, <2>9, <2>10, <2>11, <2>12
  <2>15. QED
    BY <1>2, <2>11, <2>13, <2>14
<1>5. QED
  BY <1>1, <1>2, <1>3, <1>4 DEF PairsUp

\* Neighbours of a ranked even field pair it off as well.
LEMMA OpeningIsWhole ==
  ASSUME NEW S \in SUBSET Player, Cardinality(S) % 2 = 0,
         NEW rank, NEW n \in Nat, Ranked(S, rank, n)
  PROVE  PairsUp(OpeningPairs(S, rank), S)
<1> DEFINE place(p) == Place(S, rank, p)
           c == Cardinality(S)
<1>1. /\ \A p \in S : place(p) \in 0 .. c - 1
      /\ \A p, q \in S : place(p) = place(q) => p = q
      /\ \A k \in 0 .. c - 1 : \E p \in S : place(p) = k
  BY PlacesAreAll
<1>2. c \in Nat /\ c % 2 = 0
  BY PlayersAreFinite
<1>3. ASSUME NEW pair \in OpeningPairs(S, rank)
      PROVE  \E p, q \in S : /\ p # q /\ pair = {p, q} /\ place(p) % 2 = 0 /\ place(q) = place(p) + 1
  <2>1. pair \in kSubset(2, S)
    BY DEF OpeningPairs
  <2>2. PICK p \in pair : \E q \in pair : place(p) % 2 = 0 /\ place(q) = place(p) + 1
    BY DEF OpeningPairs
  <2>3. PICK q \in pair : place(p) % 2 = 0 /\ place(q) = place(p) + 1
    BY <2>2
  <2>4. pair \in SUBSET S /\ Cardinality(pair) = 2 /\ IsFiniteSet(pair)
    BY <2>1, PairsAreTwo, PlayersAreFinite
  <2>5. p # q
    BY <1>1, <2>3, <2>4
  <2>6. pair = {p, q}
    <3>1. PICK x, y \in pair : x # y /\ pair = {x, y}
      BY <2>4, TwoPlayers
    <3>2. QED
      BY <2>5, <3>1
  <2>7. QED
    BY <2>3, <2>4, <2>5, <2>6
<1>4. ASSUME NEW p \in S, NEW q \in S, place(p) % 2 = 0, place(q) = place(p) + 1
      PROVE  {p, q} \in OpeningPairs(S, rank)
  <2>1. p # q
    BY <1>1, <1>4
  <2>2. Cardinality({p, q}) = 2
    <3>1. IsFiniteSet({p}) /\ Cardinality({p}) = 1
      BY FS_Singleton
    <3>2. Cardinality({p} \cup {q}) = 2
      BY <2>1, <3>1, FS_AddElement
    <3>3. {p} \cup {q} = {p, q}
      OBVIOUS
    <3>4. QED
      BY <3>2, <3>3
  <2>3. QED
    BY <1>4, <2>2 DEF OpeningPairs, kSubset
<1> HIDE DEF place
<1>5. ASSUME NEW p \in S PROVE p \in UNION OpeningPairs(S, rank)
  <2>1. place(p) \in Nat /\ place(p) <= c - 1
    BY <1>1, <1>2, <1>5
  <2>2. CASE place(p) % 2 = 0
    <3>1. place(p) # c - 1
      <4>1. SUFFICES ASSUME place(p) = c - 1 PROVE FALSE
        OBVIOUS
      <4>2. c - 1 \in Nat /\ c = (c - 1) + 1
        BY <1>2, <2>1, <4>1
      <4>3. QED
        BY <1>2, <2>2, <4>1, <4>2, Halves
    <3>2. place(p) + 1 \in 0 .. c - 1
      BY <1>2, <2>1, <3>1
    <3>3. PICK q \in S : place(q) = place(p) + 1
      BY <1>1, <3>2
    <3>4. QED
      BY <1>4, <2>2, <3>3
  <2>3. CASE place(p) % 2 # 0
    <3>1. place(p) # 0
      BY <2>3
    <3>2. place(p) - 1 \in Nat /\ place(p) = (place(p) - 1) + 1
      BY <2>1, <3>1
    <3>3. (place(p) - 1) % 2 = 0
      BY <2>3, <3>2, Halves
    <3>4. place(p) - 1 \in 0 .. c - 1
      BY <1>2, <2>1, <3>2
    <3>5. PICK q \in S : place(q) = place(p) - 1
      BY <1>1, <3>4
    <3>6. {q, p} \in OpeningPairs(S, rank)
      BY <1>4, <3>2, <3>3, <3>5
    <3>7. QED
      BY <3>6
  <2>4. QED
    BY <2>2, <2>3
<1>6. ASSUME NEW a \in OpeningPairs(S, rank), NEW b \in OpeningPairs(S, rank), NEW x \in a \cap b
      PROVE  a = b
  <2>1. PICK p, q \in S : p # q /\ a = {p, q} /\ place(p) % 2 = 0 /\ place(q) = place(p) + 1
    BY <1>3
  <2>2. PICK u, v \in S : u # v /\ b = {u, v} /\ place(u) % 2 = 0 /\ place(v) = place(u) + 1
    BY <1>3
  <2>3. place(p) \in Nat /\ place(q) \in Nat /\ place(u) \in Nat /\ place(v) \in Nat
    BY <1>1, <1>2
  <2>4. place(q) % 2 # 0 /\ place(v) % 2 # 0
    BY <2>1, <2>2, <2>3, Halves
  <2>5. p # v /\ q # u
    BY <2>1, <2>2, <2>4
  <2>6. (x = p /\ x = u) \/ (x = q /\ x = v)
    BY <2>1, <2>2, <2>5
  <2>7. place(p) = place(u) /\ place(q) = place(v)
    BY <2>1, <2>2, <2>3, <2>6
  <2>8. QED
    BY <1>1, <2>1, <2>2, <2>7
<1>7. QED
  BY <1>3, <1>5, <1>6 DEF PairsUp, OpeningPairs

(***************************************************************************)
(* Whole rounds                                                            *)
(***************************************************************************)
\* A round seats everybody of S once, with at most one bye.
Whole(round, S) ==
  /\ \A a, b \in DOMAIN round : a # b => a \cap b = {}
  /\ Cardinality({pair \in DOMAIN round : Cardinality(pair) # 2}) <= 1
  /\ S \subseteq UNION DOMAIN round

\* Nothing waits for confirmation beside a result.
Settled(round) ==
  \A pair \in DOMAIN round : round[pair].score # "none" => round[pair].pending = NoReport

LEMMA NewRoundIsWhole ==
  ASSUME NEW S \in SUBSET Player, NEW bye \in SUBSET S, bye = {} \/ \E p \in S : bye = {p},
         NEW pairs, PairsUp(pairs, S \ bye)
  PROVE  Whole(NewRound(pairs, bye), S) /\ Settled(NewRound(pairs, bye))
<1> DEFINE round == NewRound(pairs, bye)
           singles == Singles(bye)
<1>1. pairs \subseteq kSubset(2, S)
  BY DEF PairsUp, kSubset
<1>2. /\ DOMAIN round = pairs \cup singles
      /\ \A pair \in pairs : round[pair] = Open
      /\ \A p \in bye : round[{p}] = Won(p)
  <2>1. S \in SUBSET Player /\ bye \in SUBSET S /\ pairs \subseteq kSubset(2, S)
    BY <1>1
  <2>2. MadeOf(round, pairs, bye)
    BY ONLY <2>1, NewRoundTyped
  <2>3. QED
    BY <2>2 DEF MadeOf
<1>3. \A pair \in pairs : pair \in SUBSET (S \ bye) /\ Cardinality(pair) = 2
  BY PairsAreTwo DEF PairsUp
<1>4. \A a, b \in DOMAIN round : a # b => a \cap b = {}
  <2>1. \A a, b \in pairs : a # b => a \cap b = {}
    BY DEF PairsUp
  <2>2. \A a \in pairs : \A b \in singles : a \cap b = {}
    BY <1>3 DEF Singles
  <2>3. \A a, b \in singles : a # b => a \cap b = {}
    BY DEF Singles
  <2> HIDE DEF round, singles
  <2>4. QED
    BY <1>2, <2>1, <2>2, <2>3
<1>5. Cardinality({pair \in DOMAIN round : Cardinality(pair) # 2}) <= 1
  <2>1. {pair \in DOMAIN round : Cardinality(pair) # 2} \in SUBSET singles
    BY <1>2, <1>3
  <2>2. IsFiniteSet(singles) /\ Cardinality(singles) \in {0, 1}
    <3>1. CASE bye = {}
      <4>1. singles = {}
        BY <3>1 DEF Singles
      <4>2. QED
        BY <4>1, FS_EmptySet
    <3>2. ASSUME NEW p, bye = {p} PROVE IsFiniteSet(singles) /\ Cardinality(singles) \in {0, 1}
      <4>1. singles = {{p}}
        BY <3>2 DEF Singles
      <4>2. \A x : IsFiniteSet({x}) /\ Cardinality({x}) = 1
        BY FS_Singleton
      <4>3. IsFiniteSet({{p}}) /\ Cardinality({{p}}) = 1
        BY <4>2
      <4>4. QED
        BY <4>1, <4>3
    <3>3. QED
      BY <3>1, <3>2
  <2> HIDE DEF singles, round
  <2>3. /\ IsFiniteSet({pair \in DOMAIN round : Cardinality(pair) # 2})
        /\ Cardinality({pair \in DOMAIN round : Cardinality(pair) # 2}) <= Cardinality(singles)
    BY <2>1, <2>2, FS_Subset
  <2>4. Cardinality({pair \in DOMAIN round : Cardinality(pair) # 2}) \in Nat
    BY <2>3, FS_CardinalityType
  <2>5. QED
    BY <2>2, <2>3, <2>4
<1>6. S \subseteq UNION DOMAIN round
  <2>1. UNION pairs = S \ bye /\ bye \subseteq UNION singles
    BY DEF PairsUp, Singles
  <2> HIDE DEF round, singles
  <2>2. QED
    BY <1>2, <2>1
<1>7. Settled(round)
  <2>1. ASSUME NEW pair \in pairs PROVE round[pair].score = "none"
    BY <1>2 DEF Open
  <2>2. ASSUME NEW p \in bye PROVE round[{p}].pending = NoReport
    BY <1>2 DEF Open, Won
  <2>3. \A pair \in singles : \E p \in bye : pair = {p}
    BY DEF Singles
  <2> HIDE DEF round, singles
  <2>4. QED
    BY <1>2, <2>1, <2>2, <2>3 DEF Settled
<1>8. QED
  BY <1>4, <1>5, <1>6, <1>7 DEF Whole

LEMMA FirstRoundIsWhole ==
  ASSUME rounds \in Seq(RoundsOf(competing)), NEW S \in SUBSET Player, NEW shuffle \in Shuffles
  PROVE  Whole(FirstRound(S, shuffle), S) /\ Settled(FirstRound(S, shuffle))
<1>1. PICK n \in Nat : n = Cardinality(Player)
  BY PlayersAreFinite
<1>2. Ranked(S, shuffle, n)
  BY <1>1, ShufflesRank
<1>3. PICK bye \in SUBSET S : bye = Bye(S, shuffle)
  BY ByeIsPlayer
<1>4. /\ bye = {} \/ \E p \in S : bye = {p}
      /\ Cardinality(S \ bye) % 2 = 0
  BY <1>2, <1>3, OneBye
<1>5. Ranked(S \ bye, shuffle, n)
  BY <1>2 DEF Ranked
<1>6. PairsUp(OpeningPairs(S \ bye, shuffle), S \ bye)
  BY <1>4, <1>5, OpeningIsWhole
<1>7. FirstRound(S, shuffle) = NewRound(OpeningPairs(S \ bye, shuffle), bye)
  BY <1>3 DEF FirstRound
<1>8. QED
  BY <1>4, <1>6, <1>7, NewRoundIsWhole

\* How a later round comes about, with what it is made of.
LEMMA LaterRound ==
  ASSUME rounds \in Seq(RoundsOf(competing)), NEW S \in SUBSET Player, NEW round \in NextRounds(S)
  PROVE  \E rank \in Standings(S) : \E bye \in SUBSET S : \E pairs \in CheapestPairs(S \ bye, rank) :
           /\ round = NewRound(pairs, bye)
           /\ bye = {} \/ \E p \in S : bye = {p}
           /\ Cardinality(S \ bye) % 2 = 0 /\ PairsUp(pairs, S \ bye)
<1>1. PICK rank \in Standings(S) : \E pairs \in CheapestPairs(S \ Bye(S, rank), rank) :
        round = NewRound(pairs, Bye(S, rank))
  BY NextRound
<1>2. PICK bye \in SUBSET S : bye = Bye(S, rank)
  BY ByeIsPlayer
<1>3. PICK pairs \in CheapestPairs(S \ bye, rank) : round = NewRound(pairs, bye)
  BY <1>1, <1>2
<1>4. PICK n \in Nat : n = Cardinality(S)
  BY PlayersAreFinite
<1>5. Ranked(S, rank, n)
  BY <1>4, StandingsRank
<1>6. /\ bye = {} \/ \E p \in S : bye = {p}
      /\ Cardinality(S \ bye) % 2 = 0
  BY <1>2, <1>5, OneBye
<1>7. pairs \in PairsOff(S \ bye)
  BY CheapestPairsOff
<1>8. PairsUp(pairs, S \ bye)
  BY <1>6, <1>7, PairingOffIsWhole
<1>9. QED
  BY <1>3, <1>6, <1>8

LEMMA LaterRoundIsWhole ==
  ASSUME rounds \in Seq(RoundsOf(competing)), NEW S \in SUBSET Player, NEW round \in NextRounds(S)
  PROVE  Whole(round, S) /\ Settled(round)
<1>1. PICK rank \in Standings(S) : \E bye \in SUBSET S : \E pairs \in CheapestPairs(S \ bye, rank) :
        /\ round = NewRound(pairs, bye)
        /\ bye = {} \/ \E p \in S : bye = {p}
        /\ PairsUp(pairs, S \ bye)
  BY LaterRound
<1>2. PICK bye \in SUBSET S : \E pairs \in CheapestPairs(S \ bye, rank) :
        /\ round = NewRound(pairs, bye)
        /\ bye = {} \/ \E p \in S : bye = {p}
        /\ PairsUp(pairs, S \ bye)
  BY <1>1
<1>3. PICK pairs \in CheapestPairs(S \ bye, rank) :
        /\ round = NewRound(pairs, bye)
        /\ bye = {} \/ \E p \in S : bye = {p}
        /\ PairsUp(pairs, S \ bye)
  BY <1>2
<1>4. QED
  BY <1>3, NewRoundIsWhole

\* RoundsAreWhole, as it is preserved.
WholeInv ==
  /\ \A k \in DOMAIN rounds : Whole(rounds[k], Active)
  /\ \A k \in DOMAIN rounds : Settled(rounds[k])
  /\ \A id \in Pairings : id[1] < Len(rounds) \/ status = "completed" => At(id).score # "none"

LEMMA WholeInvGivesWhole ==
  ASSUME TypeInv, WholeInv
  PROVE  RoundsAreWhole
<1>1. ASSUME NEW k \in DOMAIN rounds, k < Len(rounds) \/ status = "completed",
             NEW pair \in DOMAIN rounds[k]
      PROVE  rounds[k][pair].score # "none" /\ rounds[k][pair].pending = NoReport
  <2>1. PICK id : id = <<k, pair>>
    OBVIOUS
  <2>2. id \in Pairings /\ id[1] = k /\ At(id) = rounds[k][pair]
    BY <2>1, PairingsAre DEF At
  <2>3. rounds[k][pair].score # "none"
    BY <1>1, <2>2 DEF WholeInv
  <2>4. QED
    BY <2>3 DEF WholeInv, Settled
<1>2. QED
  BY <1>1 DEF WholeInv, Whole, RoundsAreWhole

LEMMA WholeStep ==
  ASSUME TypeInv, TypeInv', WholeInv, [Next]_vars, ~Start
  PROVE  \A k \in DOMAIN rounds' : Whole(rounds'[k], Active')
<1>0. rounds \in Seq(RoundsOf(competing)) /\ Active' \subseteq Active /\ Active \subseteq Player
  BY ActiveShrinks DEF TypeInv, PlayersTyped, Active
<1>1. CASE UNCHANGED rounds \/ SameShape
  <2>1. DOMAIN rounds' = DOMAIN rounds /\ \A k \in DOMAIN rounds : DOMAIN rounds'[k] = DOMAIN rounds[k]
    BY <1>0, <1>1, ShapeKept
  <2>2. QED
    BY <1>0, <2>1 DEF WholeInv, Whole
<1>2. ASSUME Advance, NEW round \in NextRounds(Active), rounds' = Append(rounds, round)
      PROVE  \A k \in DOMAIN rounds' : Whole(rounds'[k], Active')
  <2>1. /\ Len(rounds) \in Nat
        /\ DOMAIN rounds' = 1 .. Len(rounds) + 1 /\ DOMAIN rounds = 1 .. Len(rounds)
        /\ \A k \in DOMAIN rounds : rounds'[k] = rounds[k]
        /\ rounds'[Len(rounds) + 1] = round
    BY <1>2, AdvanceStep, AppendedRound
  <2>2. Whole(round, Active)
    BY <1>0, <1>2, LaterRoundIsWhole
  <2>3. \A k \in DOMAIN rounds' : Whole(rounds'[k], Active)
    BY <2>1, <2>2 DEF WholeInv
  <2>4. QED
    BY <1>0, <2>3 DEF Whole
<1>3. QED
  BY <1>1, <1>2, RoundSteps

LEMMA SettledStep ==
  ASSUME TypeInv, TypeInv', WholeInv, [Next]_vars, ~Start
  PROVE  \A k \in DOMAIN rounds' : Settled(rounds'[k])
<1>0. rounds \in Seq(RoundsOf(competing)) /\ Active \subseteq Player
  BY DEF TypeInv, PlayersTyped, Active
<1>1. ASSUME NEW k \in DOMAIN rounds, NEW pair \in DOMAIN rounds[k], rounds'[k][pair].score # "none"
      PROVE  rounds'[k][pair].pending = NoReport
  <2>1. PICK id : id = <<k, pair>>
    OBVIOUS
  <2>2. id \in Pairings /\ Becomes(id) = rounds'[k][pair] /\ At(id) = rounds[k][pair]
    BY <2>1, PairingsAre DEF At, Becomes
  <2>3. At(id).score # "none" => At(id).pending = NoReport
    BY <2>2 DEF WholeInv, Settled
  <2>4. QED
    BY <1>1, <2>2, <2>3, PairingStep DEF Ruled
<1>2. CASE UNCHANGED rounds \/ SameShape
  <2>1. DOMAIN rounds' = DOMAIN rounds /\ \A k \in DOMAIN rounds : DOMAIN rounds'[k] = DOMAIN rounds[k]
    BY <1>0, <1>2, ShapeKept
  <2>2. QED
    BY <1>1, <2>1 DEF Settled
<1>3. ASSUME Advance, NEW round \in NextRounds(Active), rounds' = Append(rounds, round)
      PROVE  \A k \in DOMAIN rounds' : Settled(rounds'[k])
  <2>1. /\ Len(rounds) \in Nat
        /\ DOMAIN rounds' = 1 .. Len(rounds) + 1 /\ DOMAIN rounds = 1 .. Len(rounds)
        /\ \A k \in DOMAIN rounds : rounds'[k] = rounds[k]
        /\ rounds'[Len(rounds) + 1] = round
    BY <1>3, AdvanceStep, AppendedRound
  <2>2. Settled(round)
    BY <1>0, <1>3, LaterRoundIsWhole
  <2>3. QED
    BY <2>1, <2>2 DEF WholeInv
<1>4. QED
  BY <1>2, <1>3, RoundSteps

\* A round is over when all its pairings are, and the event when all are.
LEMMA FinishedStep ==
  ASSUME TypeInv, TypeInv', WholeInv, [Next]_vars, ~Start,
         NEW id \in Pairings', id[1] < Len(rounds') \/ status' = "completed"
  PROVE  Becomes(id).score # "none"
<1>0. rounds \in Seq(RoundsOf(competing)) /\ Len(rounds) \in Nat
  BY DEF TypeInv
<1>1. ASSUME id \in Pairings, At(id).score # "none" PROVE Becomes(id).score # "none"
  BY <1>1, PairingStep DEF Ruled
<1>2. CASE Advance
  <2>1. \A other \in Pairings : At(other).score # "none"
    <3>1. ASSUME NEW other \in Pairings PROVE At(other).score # "none"
      <4>1. /\ other = <<other[1], other[2]>> /\ other[1] \in DOMAIN rounds
            /\ other[2] \in DOMAIN rounds[other[1]] /\ other[1] \in Nat
        BY PairingFacts
      <4>2. CASE other[1] < Len(rounds)
        BY <4>2 DEF WholeInv
      <4>3. CASE other[1] = Len(rounds)
        <5>1. RoundComplete
          BY <1>2, AdvanceStep
        <5>2. QED
          BY <4>1, <4>3, <5>1 DEF RoundComplete, Round, At
      <4>4. QED
        BY <1>0, <4>1, <4>2, <4>3
    <3>2. QED
      BY <3>1
  <2>2. id \in Pairings
    <3>1. CASE UNCHANGED rounds
      BY <3>1 DEF Pairings
    <3>2. ASSUME NEW round \in NextRounds(Active), rounds' = Append(rounds, round), status' = "running"
          PROVE  id \in Pairings
      <4>1. /\ DOMAIN rounds' = 1 .. Len(rounds) + 1 /\ DOMAIN rounds = 1 .. Len(rounds)
            /\ Len(rounds') = Len(rounds) + 1
            /\ \A k \in DOMAIN rounds : rounds'[k] = rounds[k]
        BY <1>2, <3>2, AdvanceStep, AppendedRound
      <4>2. PICK k \in DOMAIN rounds' : \E pair \in DOMAIN rounds'[k] : id = <<k, pair>>
        BY DEF Pairings
      <4>3. k < Len(rounds) + 1
        BY <3>2, <4>1, <4>2
      <4>4. k \in DOMAIN rounds
        BY <1>0, <4>1, <4>2, <4>3
      <4>5. QED
        BY <4>1, <4>2, <4>4 DEF Pairings
    <3>3. QED
      BY <1>2, <3>1, <3>2, AdvanceStep
  <2>3. QED
    BY <1>1, <2>1, <2>2
<1>3. CASE ~Advance
  <2>1. UNCHANGED rounds \/ SameShape
    BY <1>3, RoundSteps
  <2>2. id \in Pairings /\ Len(rounds') = Len(rounds)
    BY <1>0, <2>1, ShapeKept
  <2>3. status' = "completed" => status = "completed"
    <3>1. \A other \in Pairings : Command(other) => status' = status
      BY RulingSteps, OpeningSteps DEF Command, Ruling
    <3>2. \A p \in Player : Register(p) \/ Unregister(p) \/ SetCheckedIn(p) \/ Drop(p) => status' = status
      BY DEF Register, Unregister, SetCheckedIn, Drop
    <3>3. UNCHANGED vars => status' = status
      BY DEF vars
    <3>4. Cancel => status' # "completed"
      BY DEF Cancel
    <3>5. \A x \in DOMAIN tables :
            RemoveRoom(x) \/ ClearRoom(x) \/ (\E p \in Player : ClockExpires(x, p)) => status' = status
      BY DEF RemoveRoom, ClearRoom, ClockExpires
    <3>6. \A m \in timeouts : ApplyTimeout(m) => status' = status
      BY DEF ApplyTimeout
    <3>7. QED
      BY <1>3, <3>1, <3>2, <3>3, <3>4, <3>5, <3>6 DEF Next
  <2>4. At(id).score # "none"
    BY <2>2, <2>3 DEF WholeInv
  <2>5. QED
    BY <1>1, <2>2, <2>4
<1>4. QED
  BY <1>2, <1>3

LEMMA WholeInvStep ==
  ASSUME TypeInv, TypeInv', WholeInv, [Next]_vars
  PROVE  WholeInv'
<1>1. CASE Start
  <2>1. /\ rounds \in Seq(RoundsOf(competing)) /\ competing' = checked /\ checked \subseteq Player
        /\ dropped' = {} /\ status' = "running"
    BY <1>1, StartStep DEF TypeInv
  <2>2. PICK shuffle \in Shuffles : rounds' = <<FirstRound(checked, shuffle)>>
    BY <1>1, StartStep
  <2>3. Whole(FirstRound(checked, shuffle), checked) /\ Settled(FirstRound(checked, shuffle))
    BY <2>1, FirstRoundIsWhole
  <2>4. Active' = checked
    BY <2>1 DEF Active
  <2>5. DOMAIN rounds' = {1} /\ rounds'[1] = FirstRound(checked, shuffle) /\ Len(rounds') = 1
    BY <2>2
  <2>6. \A id \in Pairings' : ~(id[1] < Len(rounds') \/ status' = "completed")
    BY <2>1, <2>5 DEF Pairings
  <2>7. QED
    BY <2>3, <2>4, <2>5, <2>6 DEF WholeInv
<1>2. CASE ~Start
  BY <1>2, WholeStep, SettledStep, FinishedStep DEF WholeInv, At, Becomes
<1>3. QED
  BY <1>1, <1>2

\* Every round seats everybody who still plays once, with at most one bye, and
\* all but the current one are finished for good.
THEOREM RoundsStayWhole == Spec => []RoundsAreWhole
<1>1. Init => WholeInv
  BY DEF Init, WholeInv, Pairings
<1>2. QED
  BY <1>1, WholeInvStep, WholeInvGivesWhole, TypeInvariant, PTL DEF Spec

(***************************************************************************)
(* Rematches                                                               *)
(***************************************************************************)
LEMMA GapBound ==
  ASSUME NEW n \in Nat, NEW x \in 0 .. n, NEW y \in 0 .. n
  PROVE  Gap({x, y}) \in 0 .. n
<1> DEFINE T == {x, y}
<1>1. \E t \in T : \A u \in T : t >= u
  BY x >= y \/ y >= x
<1>2. \E t \in T : \A u \in T : t <= u
  BY x <= y \/ y <= x
<1> HIDE DEF T
<1>3. Max(T) \in T /\ \A u \in T : Max(T) >= u
  BY <1>1 DEF Max
<1>4. Min(T) \in T /\ \A u \in T : Min(T) <= u
  BY <1>2 DEF Min
<1>5. Max(T) \in 0 .. n /\ Min(T) \in 0 .. n /\ Max(T) >= Min(T)
  BY <1>3, <1>4 DEF T
<1>6. Max(T) - Min(T) \in 0 .. n
  BY <1>5
<1>7. QED
  BY <1>6 DEF Gap, T

\* Nobody has more match points than four a round.
LEMMA MatchPointsBound ==
  ASSUME rounds \in Seq(RoundsOf(competing)), NEW p
  PROVE  MatchPoints(p) \in 0 .. 4 * Len(rounds)
<1>1. PICK n \in Nat : n = Len(rounds)
  OBVIOUS
<1>2. IsFiniteSet(1 .. n) /\ Cardinality(1 .. n) = n
  <2>1. \A a, b \in Int : IsFiniteSet(a .. b) /\ (a <= b => Cardinality(a .. b) = b - a + 1)
    BY FS_Interval
  <2>2. CASE n = 0
    <3>1. 1 .. n = {}
      BY <2>2
    <3>2. QED
      BY <2>2, <3>1, FS_EmptySet
  <2>3. CASE n # 0
    BY <2>1, <2>3
  <2>4. QED
    BY <2>2, <2>3
<1>3. ASSUME NEW score PROVE Cardinality(Having(p, score)) \in 0 .. n
  <2>1. Having(p, score) \in SUBSET (1 .. n)
    BY <1>1 DEF Having
  <2>2. IsFiniteSet(Having(p, score)) /\ Cardinality(Having(p, score)) <= n
    BY <1>2, <2>1, FS_Subset
  <2>3. Cardinality(Having(p, score)) \in Nat
    BY <2>2, FS_CardinalityType
  <2>4. QED
    BY <2>2, <2>3
<1>4. PICK won \in 0 .. n : won = Cardinality(Having(p, p))
  BY <1>3
<1>5. PICK drawn \in 0 .. n : drawn = Cardinality(Having(p, "draw"))
  BY <1>3
<1>6. MatchPoints(p) = 3 * won + drawn
  BY <1>4, <1>5 DEF MatchPoints
<1>7. QED
  BY <1>1, <1>4, <1>5, <1>6

\* A rematch outweighs everything else about a pair.
LEMMA RematchWeighs ==
  ASSUME TypeInv, Len(rounds) < PlannedRounds,
         NEW S \in SUBSET Player, NEW rank, NEW n \in Nat, Ranked(S, rank, n),
         NEW pair \in kSubset(2, S)
  PROVE  /\ PairCost(S, rank, pair) \in Nat
         /\ Met(pair) => PairCost(S, rank, pair) >= 1000000
         /\ ~Met(pair) => PairCost(S, rank, pair) <= 100000
<1>1. pair \in SUBSET S /\ Cardinality(pair) = 2 /\ IsFiniteSet(pair)
  BY PairsAreTwo, PlayersAreFinite
<1>2. PICK p, q \in pair : p # q /\ pair = {p, q}
  BY <1>1, TwoPlayers
<1>3. /\ rounds \in Seq(RoundsOf(competing)) /\ order \in [Player -> Nat]
      /\ Len(rounds) \in Nat /\ Len(rounds) <= 19
  BY LimitAssumption DEF TypeInv, PlayersTyped
<1>4. PICK points \in Nat : points <= 76 /\ points = Gap({MatchPoints(r) : r \in pair})
  <2>1. PICK l \in Nat : l = Len(rounds) /\ l <= 19
    BY <1>3
  <2>2. \A r : MatchPoints(r) \in 0 .. 4 * l
    BY <1>3, <2>1, MatchPointsBound
  <2>3. PICK a, b \in 0 .. 76 : a = MatchPoints(p) /\ b = MatchPoints(q)
    <3>1. \A i \in 0 .. 4 * l : i \in 0 .. 76
      BY ONLY <2>1, SMT
    <3>2. MatchPoints(p) \in 0 .. 76 /\ MatchPoints(q) \in 0 .. 76
      BY <2>2, <3>1
    <3>3. QED
      BY <3>2, Zenon
  <2>4. PICK values : values = {MatchPoints(r) : r \in pair}
    OBVIOUS
  <2>5. values = {a, b}
    BY <1>2, <2>3, <2>4
  <2>6. PICK g \in 0 .. 76 : g = Gap(values)
    BY <2>5, GapBound
  <2>7. g \in Nat /\ g <= 76
    BY ONLY <2>6, SMT
  <2>8. QED
    BY <2>4, <2>6, <2>7
<1>5. PICK places \in Nat : places <= 18 /\ places = Gap({Place(S, rank, r) : r \in pair})
  <2>1. PICK c \in Nat : c = Cardinality(S) /\ c <= 18
    BY PlayersAreFinite
  <2>2. \A r \in S : Place(S, rank, r) \in 0 .. c - 1
    BY <2>1, PlacesAreAll
  <2>3. PICK a, b \in 0 .. 18 : a = Place(S, rank, p) /\ b = Place(S, rank, q)
    <3>1. \A i \in 0 .. c - 1 : i \in 0 .. 18
      BY ONLY <2>1, SMT
    <3>2. Place(S, rank, p) \in 0 .. 18 /\ Place(S, rank, q) \in 0 .. 18
      BY <1>1, <2>2, <3>1
    <3>3. QED
      BY <3>2, Zenon
  <2>4. PICK values : values = {Place(S, rank, r) : r \in pair}
    OBVIOUS
  <2>5. values = {a, b}
    BY <1>2, <2>3, <2>4
  <2>6. PICK g \in 0 .. 18 : g = Gap(values)
    BY <2>5, GapBound
  <2>7. g \in Nat /\ g <= 18
    BY <2>6
  <2>8. QED
    BY <2>4, <2>6, <2>7
<1>6. PICK firsts \in Nat : firsts <= 9 /\ firsts = Least(Gap({order[r] : r \in pair}), 9)
  <2>1. PICK values : values = {order[r] : r \in pair}
    OBVIOUS
  <2>2. PICK a, b \in Nat : a = order[p] /\ b = order[q]
    BY <1>1, <1>3
  <2>3. a \in 0 .. a + b /\ b \in 0 .. a + b /\ a + b \in Nat
    BY <2>2
  <2>4. values = {a, b}
    BY <1>2, <2>1, <2>2
  <2>5. PICK g \in Nat : g = Gap(values)
    BY <2>3, <2>4, GapBound
  <2>6. Least(g, 9) \in Nat /\ Least(g, 9) <= 9
    BY <2>5 DEF Least
  <2>7. QED
    BY <2>1, <2>5, <2>6
<1>7. PairCost(S, rank, pair)
        = points * 1000 + places * 10 + (IF Met(pair) THEN 1000000 ELSE 0) + firsts
  BY <1>4, <1>5, <1>6, SMT DEF PairCost
<1>8. CASE Met(pair)
  <2>1. PairCost(S, rank, pair) = points * 1000 + places * 10 + 1000000 + firsts
    BY <1>7, <1>8, SMT
  <2>2. QED
    BY <1>8, <2>1, SMT
<1>9. CASE ~Met(pair)
  <2>1. PairCost(S, rank, pair) = points * 1000 + places * 10 + 0 + firsts
    BY <1>7, <1>9, SMT
  <2>2. points <= 76 /\ places <= 18 /\ firsts <= 9
    BY <1>4, <1>5, <1>6
  <2>3. QED
    BY <1>9, <2>1, <2>2, SMT
<1>10. QED
  BY <1>8, <1>9, SMT

\* So a pairing with a rematch costs more than any without.
LEMMA RematchesCost ==
  ASSUME TypeInv, Len(rounds) < PlannedRounds,
         NEW S \in SUBSET Player, Cardinality(S) % 2 = 0,
         NEW rank, NEW n \in Nat, Ranked(S, rank, n),
         NEW m \in PairsOff(S)
  PROVE  /\ TotalCost(S, rank, m) \in Nat
         /\ (\E pair \in m : Met(pair)) => TotalCost(S, rank, m) >= 1000000
         /\ ~(\E pair \in m : Met(pair)) => TotalCost(S, rank, m) <= 900000
<1> DEFINE cost == [pair \in m |-> PairCost(S, rank, pair)]
<1>1. IsFiniteSet(m) /\ 2 * Cardinality(m) = Cardinality(S)
  BY PairingOffIsWhole
<1>2. Cardinality(m) \in Nat /\ Cardinality(m) <= 9
  <2>1. Cardinality(m) \in Nat
    BY <1>1, FS_CardinalityType
  <2>2. Cardinality(S) <= 18 /\ Cardinality(S) \in Nat
    BY PlayersAreFinite
  <2>3. QED
    BY <1>1, <2>1, <2>2
<1>3. ASSUME NEW pair \in m
      PROVE  /\ cost[pair] \in Nat
             /\ Met(pair) => cost[pair] >= 1000000
             /\ ~Met(pair) => cost[pair] <= 100000
  <2>1. pair \in kSubset(2, S)
    BY DEF PairsOff, kSubset
  <2>2. cost[pair] = PairCost(S, rank, pair)
    OBVIOUS
  <2> HIDE DEF cost
  <2>3. QED
    BY <2>1, <2>2, RematchWeighs, SMT
<1>4. TotalCost(S, rank, m) = SumFunctionOnSet(cost, m)
  BY DEF TotalCost
<1> HIDE DEF cost
<1>5. /\ SumFunctionOnSet(cost, m) \in Nat
      /\ \A pair \in m : cost[pair] <= SumFunctionOnSet(cost, m)
      /\ (\A pair \in m : cost[pair] <= 100000) => SumFunctionOnSet(cost, m) <= 100000 * Cardinality(m)
  BY <1>1, <1>3, SumFacts, SMT
<1>6. ASSUME NEW pair \in m, Met(pair) PROVE TotalCost(S, rank, m) >= 1000000
  <2>1. PICK c, total \in Nat : c = cost[pair] /\ total = TotalCost(S, rank, m)
    BY <1>3, <1>4, <1>5, SMT
  <2>2. c >= 1000000 /\ c <= total
    BY <1>3, <1>4, <1>5, <1>6, <2>1, SMT
  <2>3. QED
    BY <2>1, <2>2, SMT
<1>7. ASSUME ~(\E pair \in m : Met(pair)) PROVE TotalCost(S, rank, m) <= 900000
  <2>1. \A pair \in m : cost[pair] <= 100000
    BY <1>3, <1>7, SMT
  <2>2. PICK number \in Nat : number = Cardinality(m) /\ number <= 9
    BY <1>2
  <2>3. TotalCost(S, rank, m) \in Nat /\ TotalCost(S, rank, m) <= 100000 * number
    BY <1>4, <1>5, <2>1, <2>2, SMT
  <2>4. QED
    BY <2>2, <2>3, SMT
<1>8. QED
  BY <1>4, <1>5, <1>6, <1>7, SMT

\* The pairings of a round that have two players.
MatchesOf(round) == {pair \in DOMAIN round : Cardinality(pair) = 2}

\* A round after the first repeats a pairing only if every way to pair off the
\* same players does.
LEMMA RematchIsForced ==
  ASSUME TypeInv, Len(rounds) < PlannedRounds,
         NEW S \in SUBSET Player, NEW round \in NextRounds(S),
         NEW again \in MatchesOf(round), Met(again),
         NEW m \in PairsOff(UNION MatchesOf(round))
  PROVE  \E pair \in m : Met(pair)
<1>0. rounds \in Seq(RoundsOf(competing))
  BY DEF TypeInv
<1>1. PICK rank \in Standings(S) : \E bye \in SUBSET S : \E pairs \in CheapestPairs(S \ bye, rank) :
        /\ round = NewRound(pairs, bye)
        /\ Cardinality(S \ bye) % 2 = 0 /\ PairsUp(pairs, S \ bye)
  BY <1>0, LaterRound
<1>2. PICK bye \in SUBSET S : \E pairs \in CheapestPairs(S \ bye, rank) :
        /\ round = NewRound(pairs, bye)
        /\ Cardinality(S \ bye) % 2 = 0 /\ PairsUp(pairs, S \ bye)
  BY <1>1
<1>3. PICK pairs \in CheapestPairs(S \ bye, rank) :
        /\ round = NewRound(pairs, bye)
        /\ Cardinality(S \ bye) % 2 = 0 /\ PairsUp(pairs, S \ bye)
  BY <1>2
<1>4. pairs \subseteq kSubset(2, S \ bye) /\ UNION pairs = S \ bye
  BY <1>3 DEF PairsUp
<1>5. MatchesOf(round) = pairs
  <2>1. pairs \subseteq kSubset(2, S) /\ S \in SUBSET Player /\ bye \in SUBSET S
    BY <1>4 DEF kSubset
  <2>2. MadeOf(round, pairs, bye)
    BY <1>3, <2>1, NewRoundTyped
  <2>3. \A pair \in pairs : Cardinality(pair) = 2
    BY <1>4, PairsAreTwo
  <2>4. \A pair \in Singles(bye) : Cardinality(pair) = 1
    BY FS_Singleton DEF Singles
  <2>5. QED
    BY <2>2, <2>3, <2>4 DEF MadeOf, MatchesOf
<1>6. PICK rest \in SUBSET Player : rest = S \ bye
  OBVIOUS
<1>7. PICK n \in Nat : n = Cardinality(S)
  BY PlayersAreFinite
<1>8. Ranked(rest, rank, n)
  <2>1. Ranked(S, rank, n)
    BY <1>7, StandingsRank
  <2>2. QED
    BY <1>6, <2>1 DEF Ranked
<1>9. Cardinality(rest) % 2 = 0 /\ pairs \in CheapestPairs(rest, rank) /\ again \in pairs /\ m \in PairsOff(rest)
  BY <1>3, <1>4, <1>5, <1>6
<1>10. pairs \in PairsOff(rest) /\ TotalCost(rest, rank, pairs) <= TotalCost(rest, rank, m)
  BY <1>9, CheapestPairsOff
<1>11. TotalCost(rest, rank, pairs) \in Nat /\ TotalCost(rest, rank, pairs) >= 1000000
  BY <1>8, <1>9, <1>10, RematchesCost, SMT
<1>12. /\ TotalCost(rest, rank, m) \in Nat
       /\ ~(\E pair \in m : Met(pair)) => TotalCost(rest, rank, m) <= 900000
  BY <1>8, <1>9, RematchesCost, SMT
<1>13. QED
  BY <1>10, <1>11, <1>12, SMT

Before(k, pair) == \E j \in 1 .. k - 1 : pair \in DOMAIN rounds[j]

\* The rematches of a round were unavoidable.
Forced(k) ==
  (\E pair \in MatchesOf(rounds[k]) : Before(k, pair))
    => \A m \in PairsOff(UNION MatchesOf(rounds[k])) : \E pair \in m : Before(k, pair)

LEMMA ForcedRounds ==
  NoAvoidableRematch <=> \A k \in DOMAIN rounds : Forced(k)
BY DEF NoAvoidableRematch, Forced, Before, MatchesOf

LEMMA ForcedStep ==
  ASSUME TypeInv, TypeInv', \A k \in DOMAIN rounds : Forced(k), [Next]_vars
  PROVE  \A k \in DOMAIN rounds' : Forced(k)'
<1>0. rounds \in Seq(RoundsOf(competing)) /\ Active \subseteq Player
      /\ Len(rounds) \in Nat /\ DOMAIN rounds = 1 .. Len(rounds)
  BY DEF TypeInv, PlayersTyped, Active
\* Rounds that keep their pairings keep their rematches.
<1>1. ASSUME NEW k \in DOMAIN rounds, \A j \in 1 .. k : DOMAIN rounds'[j] = DOMAIN rounds[j]
      PROVE  Forced(k)'
  <2>1. k \in Nat /\ k >= 1
    BY <1>0
  <2>2. MatchesOf(rounds[k])' = MatchesOf(rounds[k])
    BY <1>1, <2>1 DEF MatchesOf
  <2>3. \A pair : Before(k, pair)' <=> Before(k, pair)
    BY <1>1, <2>1 DEF Before
  <2>4. Forced(k)
    OBVIOUS
  <2>5. QED
    BY <2>2, <2>3, <2>4 DEF Forced
<1>2. CASE UNCHANGED rounds \/ SameShape
  <2>1. DOMAIN rounds' = DOMAIN rounds /\ \A k \in DOMAIN rounds : DOMAIN rounds'[k] = DOMAIN rounds[k]
    BY <1>0, <1>2, ShapeKept
  <2>2. \A k \in DOMAIN rounds : \A j \in 1 .. k : j \in DOMAIN rounds
    BY <1>0
  <2>3. QED
    BY <1>1, <2>1, <2>2
<1>3. CASE Start
  <2>1. PICK round : rounds' = <<round>>
    BY <1>3, StartStep
  <2>2. DOMAIN rounds' = {1}
    BY <2>1
  <2>3. \A pair : ~Before(1, pair)'
    BY DEF Before
  <2>4. QED
    BY <2>2, <2>3 DEF Forced
<1>4. ASSUME Advance, NEW round \in NextRounds(Active), rounds' = Append(rounds, round)
      PROVE  \A k \in DOMAIN rounds' : Forced(k)'
  <2>1. /\ DOMAIN rounds' = 1 .. Len(rounds) + 1
        /\ \A k \in DOMAIN rounds : rounds'[k] = rounds[k]
        /\ rounds'[Len(rounds) + 1] = round
    BY <1>4, AdvanceStep, AppendedRound
  <2>2. ASSUME NEW k \in DOMAIN rounds PROVE Forced(k)'
    <3>1. \A j \in 1 .. k : j \in DOMAIN rounds
      BY <1>0
    <3>2. QED
      BY <1>1, <2>1, <3>1
  <2>3. ASSUME NEW k \in Nat, k = Len(rounds) + 1 PROVE Forced(k)'
    <3>2. \A pair : Before(k, pair)' <=> Met(pair)
      <4>1. 1 .. k - 1 = DOMAIN rounds
        BY <1>0, <2>3
      <4>2. QED
        BY <2>1, <4>1 DEF Before, Met
    <3>3. rounds'[k] = round
      BY <2>1, <2>3
    <3>4. Len(rounds) < PlannedRounds
      <4>1. \/ UNCHANGED rounds
            \/ Len(rounds) < PlannedRounds
        BY <1>4, AdvanceStep
      <4>2. Len(rounds') = Len(rounds) + 1
        BY <1>0, <1>4, AdvanceStep, AppendedRound
      <4>3. QED
        BY <1>0, <4>1, <4>2
    <3>5. ASSUME NEW again \in MatchesOf(round), Met(again), NEW m \in PairsOff(UNION MatchesOf(round))
          PROVE  \E pair \in m : Met(pair)
      BY <1>0, <1>4, <3>4, <3>5, RematchIsForced
    <3>6. QED
      BY <3>2, <3>3, <3>5 DEF Forced
  <2>4. QED
    <3>1. \A k \in DOMAIN rounds' : k \in DOMAIN rounds \/ k = Len(rounds) + 1
      BY <1>0, <2>1
    <3>2. QED
      BY <2>2, <2>3, <3>1
<1>5. QED
  BY <1>2, <1>3, <1>4, RoundSteps

\* Two players meet again only if that round could not be paired otherwise.
THEOREM RematchesAreForced == Spec => []NoAvoidableRematch
<1>1. Init => \A k \in DOMAIN rounds : Forced(k)
  BY DEF Init
<1>2. TypeInv /\ TypeInv' /\ NoAvoidableRematch /\ [Next]_vars => NoAvoidableRematch'
  <2>1. (\A k \in DOMAIN rounds : Forced(k))' <=> NoAvoidableRematch'
    BY DEF NoAvoidableRematch, Forced, Before, MatchesOf
  <2>2. QED
    BY <2>1, ForcedStep, ForcedRounds
<1>3. Init => NoAvoidableRematch
  BY <1>1, ForcedRounds
<1>4. QED
  BY <1>2, <1>3, TypeInvariant, PTL DEF Spec

=============================================================================
