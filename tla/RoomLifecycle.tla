--------------------------- MODULE RoomLifecycle ---------------------------
(***************************************************************************)
(* The life of one room: decks, readiness, loading, games, best-of-three   *)
(* sideboarding, results and the return to the waiting room, for manual    *)
(* tables and for tables whose rules the Forge engine runs.                *)
(*                                                                         *)
(* Every handler runs under the room's opMu, so a handler is one action;   *)
(* what interleaves are the callbacks that were scheduled earlier and get  *)
(* the lock late: the sideboard timer and the watcher of a lost engine.    *)
(* A timer is identified by the sideboarding it was started for, an engine *)
(* game by the load generation in its game id.  Deadlines are five minutes *)
(* after the sideboarding began, so they pass in the order of opening.     *)
(*                                                                         *)
(* A deck is a registered list and a partition of it: 0 as it was          *)
(* submitted, 1 after cards moved or commanders changed between games.     *)
(* Seats are humans, AI controllers or free; who sits there and how a      *)
(* dropped player keeps the seat is RoomSession's business.                *)
(***************************************************************************)
EXTENDS Integers, FiniteSets

CONSTANTS MaxSeats,     \* seats of an EDH table; other tables have two
          Lists,        \* registered deck lists
  NoList,       \* a seat without a deck
          RulesModes, Formats, MatchModes, LoadModes,  \* rooms the run creates
          AIRooms,      \* whether practice rooms are created
          Faults,       \* {"setup"} when setting up a manual game may fail
          MaxLoads,     \* bound on load generations
          MaxSides,     \* bound on sideboardings
          MaxDraws      \* bound on drawn games

ASSUME BoundsAssumption == MaxSeats \in Nat /\ MaxSeats >= 2
                           /\ MaxLoads \in Nat /\ MaxSides \in Nat /\ MaxDraws \in Nat
ASSUME ListsAssumption == NoList \notin Lists
ASSUME ModesAssumption == /\ RulesModes \subseteq {"manual", "forge"}
                          /\ Formats \subseteq {"1v1", "edh", "group"}
                          /\ MatchModes \subseteq {"bo1", "bo3"}
                          /\ LoadModes \subseteq {"required", "background"}
                          /\ AIRooms \subseteq BOOLEAN /\ Faults \subseteq {"setup"}

VARIABLES
  mode,       \* the options the room was created with
  room,       \* room.Room
  announced,  \* decks named by match.load_required of the current loading
  fetched,    \* Seat -> last load generation its client fetched
  engine,     \* load generation of the game in Handler.forgeGames, 0 if none
  alive,      \* the runtime of that game is running
  watch,      \* games whose watcher has seen the exit and waits for opMu
  sides,      \* sideboardings opened so far
  lapsed,     \* the last sideboarding whose deadline has passed
  sideTimer,  \* Handler.sideboardTimers of this room, 0 if none
  armed,      \* timers that have not fired
  fired       \* timers whose callback has not got opMu yet

clientVars == <<announced, fetched>>
engineVars == <<engine, alive, watch>>
timerVars  == <<sides, lapsed, sideTimer, armed, fired>>
vars == <<mode, room, clientVars, engineVars, timerVars>>

Seat     == 0 .. MaxSeats - 1
NoSeat   == -1
NoDeck   == [list |-> NoList, split |-> 0]
NoResult == [over |-> FALSE, winner |-> NoSeat, done |-> FALSE]
NoSide   == [id |-> 0, loser |-> NoSeat, chosen |-> NoSeat,
             split |-> [s \in Seat |-> 0], ready |-> [s \in Seat |-> FALSE]]
NoGame   == [number |-> 0, order |-> <<>>, active |-> NoSeat, out |-> {},
             result |-> NoResult, side |-> NoSide]

Forge  == mode.rules = "forge"
EDH    == mode.format \in {"edh", "group"}
Needed == IF mode.match = "bo3" THEN 2 ELSE 1
Seats  == IF EDH THEN Seat ELSE {0, 1}

(***************************************************************************)
(* What a room knows of its seats                                          *)
(***************************************************************************)
Taken(rm)   == {s \in Seats : rm.occ[s] # "free"}
Humans(rm)  == {s \in Seats : rm.occ[s] = "human"}
Lowest(S)   == CHOOSE s \in S : \A t \in S : s <= t
Fill(x)     == [s \in Seat |-> x]
Controlled(rm) == [s \in Seat |-> rm.occ[s] = "ai"]
Started(rm) == rm.phase = "started"
Playing(rm) == Started(rm) /\ rm.game # NoGame
Live(rm)    == Playing(rm) /\ ~rm.game.result.over
Decided(rm) == Playing(rm) /\ rm.game.result.done
Sideboarding(rm) == Playing(rm) /\ rm.game.side # NoSide

\* A player still in the game, as playerSeat accepts it.
Plays(rm, s) == rm.occ[s] = "human" /\ (rm.game # NoGame => s \notin rm.game.out)

MinPlayers == IF mode.format = "edh" THEN 2 ELSE Cardinality(Seats)

CanSideboard(rm) == ~EDH /\ \A s \in Seats : rm.deck[s] # NoDeck

(***************************************************************************)
(* Waiting, loading and setting up                                         *)
(***************************************************************************)
Cancel(rm) == IF rm.phase = "loading" THEN [rm EXCEPT !.phase = "waiting", !.loaded = Fill(FALSE)]
              ELSE rm

\* Back to the waiting room after a game could not start or was aborted.
Reset(rm) ==
  [rm EXCEPT !.phase = "waiting", !.game = NoGame, !.loaded = Fill(FALSE),
             !.ready = [s \in Seat |-> rm.occ[s] = "ai" /\ rm.deck[s] # NoDeck]]

GateOpen(rm) ==
  /\ rm.phase = "waiting"
  /\ Cardinality(Taken(rm)) >= MinPlayers
  /\ \A s \in Taken(rm) : rm.deck[s] # NoDeck /\ rm.ready[s]

\* A new load generation; a Forge match starts its score afresh.
BeginLoading(rm) ==
  LET fresh == IF Forge THEN [rm EXCEPT !.score = Fill(0), !.drawn = 0, !.start = NoSeat] ELSE rm
  IN  [fresh EXCEPT !.loadID = @ + 1, !.loaded = Controlled(rm), !.phase = "loading"]

\* Turn orders: seats in table order from a starting seat, or any order of
\* the seats when Commander rolls for it.
After(S, s) == IF \E t \in S : t > s THEN Lowest({t \in S : t > s}) ELSE Lowest(S)
Orders(S)   == {o \in [1 .. Cardinality(S) -> S] : \A i, j \in DOMAIN o : o[i] = o[j] => i = j}
TableOrders(S) == {o \in Orders(S) : \A i \in DOMAIN o : i > 1 => o[i] = After(S, o[i - 1])}

NewGame(rm, number, order) ==
  [number |-> number, order |-> order, active |-> order[1], out |-> Seat \ Taken(rm),
   result |-> NoResult, side |-> NoSide]

\* The games setupGameNumber may deal: the starting seat is fixed or drawn.
SetupGame(rm, number, starter) ==
  {NewGame(rm, number, o) : o \in
     IF EDH /\ starter = NoSeat THEN Orders(Taken(rm))
     ELSE {o \in TableOrders(Taken(rm)) : starter = NoSeat \/ o[1] = starter}}

\* The next seat in turn order that is still in the game.
NextActive(g) ==
  LET n  == Cardinality(DOMAIN g.order)
      at == CHOOSE i \in DOMAIN g.order : g.order[i] = g.active
      Ahead(k) == g.order[((at + k - 1) % n) + 1]
      ks == {k \in 1 .. n : Ahead(k) \notin g.out}
  IN  IF ks = {} THEN NoSeat ELSE Ahead(Lowest(ks))

(***************************************************************************)
(* Results                                                                 *)
(***************************************************************************)
Side(rm, loser, id) ==
  [id |-> id, loser |-> loser, chosen |-> IF Forge THEN NoSeat ELSE loser,
   split |-> [s \in Seat |-> rm.deck[s].split], ready |-> Fill(FALSE)]

\* The current game is over; an undecided match goes on to sideboarding.
EndGame(rm, winner, loser, done) ==
  [rm EXCEPT !.game.active = NoSeat,
             !.game.result = [over |-> TRUE, winner |-> winner, done |-> done],
             !.game.side = IF done \/ ~CanSideboard(rm) THEN NoSide
                           ELSE Side(rm, loser, sides + 1)]

ConcedeTwoPlayer(rm, s) ==
  LET won == [rm EXCEPT !.score[1 - s] = @ + 1]
  IN  EndGame(won, 1 - s, s, won.score[1 - s] >= Needed)

\* Mutant of Eliminate: the turn stays with the player who is out.
EliminateKeepsTurn(rm, s) ==
  LET out  == rm.game.out \cup {s}
      left == Seats \ out
      gone == [rm EXCEPT !.game.out = out]
  IN  IF Cardinality(left) > 1 THEN gone
      ELSE LET winner == IF left = {} THEN NoSeat ELSE Lowest(left)
           IN  [gone EXCEPT !.score = [t \in Seat |-> IF t = winner THEN 1 ELSE rm.score[t]],
                            !.game.active = NoSeat,
                            !.game.result = [over |-> TRUE, winner |-> winner, done |-> TRUE]]

\* A Commander player is out; the last one left wins.
Eliminate(rm, s) ==
  LET out  == rm.game.out \cup {s}
      left == Seats \ out
      gone == [rm EXCEPT !.game.out = out]
  IN  IF Cardinality(left) > 1
      THEN [gone EXCEPT !.game.active = IF rm.game.active = s THEN NextActive(gone.game) ELSE @]
      ELSE LET winner == IF left = {} THEN NoSeat ELSE Lowest(left)
           IN  [gone EXCEPT !.score = [t \in Seat |-> IF t = winner THEN 1 ELSE rm.score[t]],
                            !.game.active = NoSeat,
                            !.game.result = [over |-> TRUE, winner |-> winner, done |-> TRUE]]

\* Mutant of Forfeit: a departure between two games of a match is ignored.
ForfeitLiveOnly(rm, s) ==
  IF ~Live(rm) \/ s \in rm.game.out THEN rm
  ELSE IF EDH THEN Eliminate(rm, s)
  ELSE EndGame([rm EXCEPT !.score[1 - s] = IF @ < Needed THEN Needed ELSE @], 1 - s, s, TRUE)

\* A player who departs loses the match, or is out of a Commander game.
Forfeit(rm, s) ==
  IF ~Playing(rm) \/ Decided(rm) THEN rm
  ELSE IF EDH THEN IF s \in rm.game.out THEN rm ELSE Eliminate(rm, s)
  ELSE EndGame([rm EXCEPT !.score[1 - s] = IF @ < Needed THEN Needed ELSE @], 1 - s, s, TRUE)

\* The games won so far, each with the seat that won it.
Wins(rm) == UNION {{s} \X (1 .. rm.score[s]) : s \in Seat}

\* The game a Forge room is playing, counted from its score and draws.
RulesGameNumber(rm) == rm.drawn + 1 + Cardinality(Wins(rm))

\* The shell that records a Forge result without any engine state.
RulesShell(rm) ==
  [number |-> RulesGameNumber(rm), order |-> <<>>, active |-> NoSeat,
   out |-> Seat \ Taken(rm), result |-> NoResult, side |-> NoSide]

\* A finished Forge game: a win, or a draw, which counts as a drawn game unless
\* a concession ended it.
CompleteRulesGame(rm, winner, conceded) ==
  LET scored == IF winner # NoSeat THEN [rm EXCEPT !.score[winner] = @ + 1]
                ELSE [rm EXCEPT !.drawn = IF conceded THEN @ ELSE @ + 1]
      done   == mode.match # "bo3" \/ (winner # NoSeat /\ scored.score[winner] >= 2)
  IN  EndGame([scored EXCEPT !.game = RulesShell(rm)], winner,
              IF winner = NoSeat THEN NoSeat ELSE 1 - winner, done)

\* Mutant of ForfeitActionClock: the loser always gives back a win.
ForfeitGivesBack(rm, s) ==
  LET won == [rm EXCEPT !.score = [t \in Seat |-> IF t = s THEN rm.score[t] - 1
                                                ELSE IF t = 1 - s THEN Needed ELSE 0]]
  IN  EndGame([won EXCEPT !.game = RulesShell(rm)], 1 - s, s, TRUE)

\* A player's action clock ran out: the other player wins the match.
ForfeitActionClock(rm, s) ==
  LET won == [rm EXCEPT !.score = [t \in Seat |->
                IF t = 1 - s /\ rm.score[t] < Needed THEN Needed
                ELSE IF t = s /\ rm.score[t] >= Needed THEN Needed - 1 ELSE rm.score[t]]]
  IN  EndGame([won EXCEPT !.game = RulesShell(rm)], 1 - s, s, TRUE)

PrepareNextRulesGame(rm, starter) ==
  [rm EXCEPT !.game = NoGame, !.loadID = @ + 1, !.start = starter]

\* The pending partitions become the decks of the next game.
CommitDecks(rm) ==
  [rm EXCEPT !.deck = [s \in Seat |->
     IF s \in Seats THEN [rm.deck[s] EXCEPT !.split = rm.game.side.split[s]] ELSE rm.deck[s]]]

(***************************************************************************)
(* Engine games and sideboard timers                                       *)
(***************************************************************************)
\* startForgeGame for room rm when "running" is the room's registered game:
\* the game starts, or the room goes back to waiting.
Launch(rm, running) ==
  \/ /\ running = 0
     /\ room' = rm /\ engine' = rm.loadID /\ alive' = TRUE /\ UNCHANGED watch
  \/ /\ room' = Reset(rm) /\ engine' = running /\ UNCHANGED <<alive, watch>>

\* prepareForgeTransition also aborts what is still registered.
Transition(rm) ==
  \/ /\ engine = 0
     /\ room' = rm /\ engine' = rm.loadID /\ alive' = TRUE /\ UNCHANGED watch
  \/ /\ room' = Reset(rm) /\ engine' = 0 /\ UNCHANGED <<alive, watch>>

NoEngine == engine' = 0 /\ UNCHANGED <<alive, watch>>

\* Mutant of Schedule: the timer is not started.
ScheduleNothing(rm) ==
  /\ sides' = IF Sideboarding(rm) THEN rm.game.side.id ELSE sides
  /\ UNCHANGED <<lapsed, sideTimer, armed, fired>>

\* A sideboarding that has just opened gets a timer in place of the old one.
Schedule(rm) ==
  IF Sideboarding(rm)
  THEN /\ sides' = rm.game.side.id /\ sideTimer' = rm.game.side.id
       /\ armed' = (armed \ {sideTimer}) \cup {rm.game.side.id} /\ UNCHANGED <<lapsed, fired>>
  ELSE UNCHANGED timerVars

CancelTimer == sideTimer' = 0 /\ armed' = armed \ {sideTimer} /\ UNCHANGED <<sides, lapsed, fired>>

\* removeRoom: nothing of the room survives but callbacks that run late.
ClosedRoom ==
  [phase |-> "closed", occ |-> Fill("free"), host |-> NoSeat, reg |-> Fill(NoDeck),
   deck |-> Fill(NoDeck), ready |-> Fill(FALSE), loaded |-> Fill(FALSE), loadID |-> 0,
   score |-> Fill(0), drawn |-> 0, start |-> NoSeat, game |-> NoGame]

Close == /\ room' = ClosedRoom /\ announced' = Fill(NoDeck) /\ UNCHANGED fetched
         /\ NoEngine /\ CancelTimer

Announce(rm) == announced' = IF rm.phase = "loading" THEN rm.deck ELSE Fill(NoDeck)

-----------------------------------------------------------------------------
Init ==
  /\ mode \in {m \in [rules : RulesModes, format : Formats, match : MatchModes,
                      load : LoadModes, ai : AIRooms] :
                 /\ m.format # "1v1" => m.match = "bo1"
                 /\ m.ai => m.rules = "forge" /\ m.match = "bo1" /\ m.format = "1v1"}
  /\ room = [phase |-> "waiting",
             occ |-> [s \in Seat |-> IF s = 0 THEN "human"
                                     ELSE IF s = 1 /\ mode.ai THEN "ai" ELSE "free"],
             host |-> 0, reg |-> Fill(NoDeck), deck |-> Fill(NoDeck), ready |-> Fill(FALSE),
             loaded |-> Fill(FALSE), loadID |-> 0, score |-> Fill(0), drawn |-> 0,
             start |-> NoSeat, game |-> NoGame]
  /\ announced = Fill(NoDeck) /\ fetched = Fill(0)
  /\ engine = 0 /\ alive = FALSE /\ watch = {}
  /\ sides = 0 /\ lapsed = 0 /\ sideTimer = 0 /\ armed = {} /\ fired = {}

(***************************************************************************)
(* The waiting room                                                        *)
(***************************************************************************)
Join(s) ==
  /\ room.phase = "waiting" /\ Taken(room) # Seats /\ s = Lowest(Seats \ Taken(room))
  /\ room' = [room EXCEPT !.occ[s] = "human", !.host = IF @ = NoSeat THEN s ELSE @]
  /\ fetched' = [fetched EXCEPT ![s] = 0]
  /\ UNCHANGED <<mode, announced, engineVars, timerVars>>

\* Mutant of SelectDeck: the loading that is under way goes on.
SelectDeckWhileLoading(s, list) ==
  /\ room.phase \in {"waiting", "loading"} /\ Plays(room, s)
  /\ LET deck == [list |-> list, split |-> 0]
     IN  room' = [room EXCEPT !.reg[s] = deck, !.deck[s] = deck, !.ready[s] = FALSE]
  /\ UNCHANGED <<mode, clientVars, engineVars, timerVars>>

SelectDeck(s, list) ==
  /\ room.phase \in {"waiting", "loading"} /\ Plays(room, s)
  /\ LET deck == [list |-> list, split |-> 0]
     IN  room' = Cancel([room EXCEPT !.reg[s] = deck, !.deck[s] = deck, !.ready[s] = FALSE])
  /\ Announce(room')
  /\ UNCHANGED <<mode, fetched, engineVars, timerVars>>

\* The host of a practice room changes the AI's deck, or only its difficulty.
ConfigureAI(s, list) ==
  /\ room.phase = "waiting" /\ room.host = s /\ mode.ai
  /\ LET deck == IF list = NoList THEN room.deck[1] ELSE [list |-> list, split |-> 0]
     IN  room' = [room EXCEPT !.reg[1] = deck, !.deck[1] = deck, !.loaded = Fill(FALSE),
                              !.ready = [t \in Seat |-> t = 1 /\ deck # NoDeck]]
  /\ UNCHANGED <<mode, clientVars, engineVars, timerVars>>

\* Everybody is ready: the room loads, or starts at once when cards load in
\* the background.
Begin(rm) ==
  LET loading == BeginLoading(rm)
      begun   == [loading EXCEPT !.phase = "started"]
  IN  /\ rm.loadID < MaxLoads
      /\ IF mode.load = "required"
         THEN room' = loading /\ UNCHANGED engineVars
         ELSE IF Forge THEN Launch(begun, engine)
         ELSE \/ /\ \E g \in SetupGame(rm, 1, NoSeat) : room' = [begun EXCEPT !.game = g]
                 /\ UNCHANGED engineVars
              \/ "setup" \in Faults /\ UNCHANGED <<room, engineVars>>

SetReady(s, ready) ==
  /\ room.phase \in {"waiting", "loading"} /\ Plays(room, s)
  /\ ready => Cardinality(Taken(room)) >= MinPlayers /\ room.deck[s] # NoDeck
  /\ LET said == [room EXCEPT !.ready[s] = ready]
         rm   == IF ready THEN said ELSE Cancel(said)
     IN  IF GateOpen(rm) THEN Begin(rm) ELSE room' = rm /\ UNCHANGED engineVars
  /\ Announce(room')
  /\ UNCHANGED <<mode, fetched, timerVars>>

\* The client of seat s has every card of the current load generation.
FetchCards(s) ==
  /\ room.phase = "loading" /\ room.occ[s] = "human" /\ fetched[s] # room.loadID
  /\ fetched' = [fetched EXCEPT ![s] = room.loadID]
  /\ UNCHANGED <<mode, room, announced, engineVars, timerVars>>

\* Everybody has loaded: the game begins.
BeginLoaded(rm) ==
  LET begun == [rm EXCEPT !.phase = "started"]
  IN  IF Forge
      THEN IF rm.game # NoGame THEN room' = Reset(rm) /\ UNCHANGED engineVars
           ELSE Launch(begun, engine)
      ELSE /\ \/ \E g \in SetupGame(rm, 1, NoSeat) : room' = [begun EXCEPT !.game = g]
              \/ "setup" \in Faults /\ room' = Reset(rm)
           /\ UNCHANGED engineVars

\* Mutant of CompleteLoad: any acknowledgement counts, however old.
CompleteAnyLoad(s, id) ==
  /\ room.phase = "loading" /\ room.occ[s] = "human" /\ id \in 1 .. fetched[s]
  /\ LET rm == [room EXCEPT !.loaded[s] = TRUE]
     IN  IF \A t \in Taken(rm) : rm.loaded[t] THEN BeginLoaded(rm)
         ELSE room' = rm /\ UNCHANGED engineVars
  /\ Announce(room')
  /\ UNCHANGED <<mode, fetched, timerVars>>

\* The client of seat s acknowledges generation id, maybe an old one.
CompleteLoad(s, id) ==
  /\ room.phase = "loading" /\ room.occ[s] = "human" /\ id \in 1 .. fetched[s]
  /\ id = room.loadID
  /\ LET rm == [room EXCEPT !.loaded[s] = TRUE]
     IN  IF \A t \in Taken(rm) : rm.loaded[t] THEN BeginLoaded(rm)
         ELSE room' = rm /\ UNCHANGED engineVars
  /\ Announce(room')
  /\ UNCHANGED <<mode, fetched, timerVars>>

(***************************************************************************)
(* Manual games                                                            *)
(***************************************************************************)
NextTurn(s) ==
  /\ Live(room) /\ Plays(room, s) /\ room.game.active = s
  /\ room' = [room EXCEPT !.game.active = NextActive(room.game)]
  /\ UNCHANGED <<mode, clientVars, engineVars, timerVars>>

Concede(s) ==
  /\ ~Forge /\ Live(room) /\ Plays(room, s)
  /\ EDH \/ sides < MaxSides
  /\ room' = IF EDH THEN Eliminate(room, s) ELSE ConcedeTwoPlayer(room, s)
  /\ Schedule(room')
  /\ UNCHANGED <<mode, clientVars, engineVars>>

DeclareDraw(s) ==
  /\ ~Forge /\ Live(room) /\ Plays(room, s) /\ room.drawn < MaxDraws
  /\ mode.match = "bo3" => CanSideboard(room) /\ sides < MaxSides
  /\ room' = EndGame([room EXCEPT !.drawn = @ + 1], NoSeat, NoSeat, mode.match # "bo3")
  /\ Schedule(room')
  /\ UNCHANGED <<mode, clientVars, engineVars>>

\* The order of a restarted game: the old cycle without released seats.
RestartOrders(rm) ==
  IF EDH
  THEN LET n    == Cardinality(DOMAIN rm.game.order)
           kept == {i \in 1 .. n : rm.game.order[i] \in Taken(rm)}
           Nth(k) == CHOOSE i \in kept : Cardinality({j \in kept : j < i}) = k - 1
       IN  {[k \in 1 .. Cardinality(kept) |-> rm.game.order[Nth(k)]]}
  ELSE {rm.game.order}

RestartGame(s) ==
  /\ ~Forge /\ Live(room) /\ room.host = s
  /\ \E o \in RestartOrders(room) : room' = [room EXCEPT !.game = NewGame(room, room.game.number, o)]
  /\ UNCHANGED <<mode, clientVars, engineVars, timerVars>>

(***************************************************************************)
(* Forge games                                                             *)
(***************************************************************************)
\* A publication of the live game names its starting player.
RecordStart(s) ==
  /\ engine # 0 /\ alive /\ room.start = NoSeat /\ s \in Taken(room)
  /\ room' = [room EXCEPT !.start = s]
  /\ UNCHANGED <<mode, clientVars, engineVars, timerVars>>

RulesResult(winner, conceded) ==
  /\ engine # 0 /\ alive /\ Started(room) /\ room.game = NoGame
  /\ mode.match = "bo3" => CanSideboard(room) /\ sides < MaxSides
  /\ winner = NoSeat => room.drawn < MaxDraws
  /\ room' = CompleteRulesGame(room, winner, conceded)
  /\ NoEngine /\ Schedule(room')
  /\ UNCHANGED <<mode, clientVars>>

\* The engine's projection is terminal: somebody won, or nobody did.
PublishResult == \E winner \in Taken(room) \cup {NoSeat} : RulesResult(winner, FALSE)

\* A concession that ends the game; others leave the room as it is.
ForgeConcede(s) ==
  Plays(room, s) /\ \E winner \in (Taken(room) \cup {NoSeat}) \ {s} : RulesResult(winner, TRUE)

ForgeRestart(s) ==
  /\ Forge /\ Started(room) /\ room.game = NoGame /\ room.host = s /\ room.start # NoSeat
  /\ room.loadID < MaxLoads
  /\ Launch(PrepareNextRulesGame(room, room.start), 0)
  /\ UNCHANGED <<mode, clientVars, timerVars>>

ExpireActionClock(s) ==
  /\ engine # 0 /\ ~EDH /\ s \in Taken(room)
  /\ room' = ForfeitActionClock(room, s)
  /\ NoEngine
  /\ UNCHANGED <<mode, clientVars, timerVars>>

\* Mutant of Terminate: the room goes on without its engine.
TerminateQuietly == room' = room /\ engine' = 0 /\ UNCHANGED alive

\* The room's engine game is given up.
Terminate ==
  /\ room' = IF Started(room) /\ room.game = NoGame THEN Reset(room) ELSE room
  /\ engine' = 0 /\ UNCHANGED alive

\* A projection, prompt or reply of the engine could not be trusted.
FailGame == engine # 0 /\ Terminate /\ UNCHANGED <<mode, clientVars, watch, timerVars>>

\* Mutant of RuntimeExits: the exit is seen after the game was forgotten.
RuntimeExitsUnwatched ==
  /\ engine # 0 /\ alive
  /\ alive' = FALSE
  /\ UNCHANGED <<mode, room, clientVars, engine, watch, timerVars>>

RuntimeExits ==
  /\ engine # 0 /\ alive
  /\ alive' = FALSE /\ watch' = watch \cup {engine}
  /\ UNCHANGED <<mode, room, clientVars, engine, timerVars>>

\* Mutant of WatchRuntime: whatever game is registered now is terminated.
WatchAnyGame(g) ==
  /\ g \in watch /\ watch' = watch \ {g}
  /\ IF room.phase # "closed" /\ engine # 0 THEN Terminate ELSE UNCHANGED <<room, engine, alive>>
  /\ UNCHANGED <<mode, clientVars, timerVars>>

\* The watcher of a lost game gets the lock and terminates that game only.
WatchRuntime(g) ==
  /\ g \in watch /\ watch' = watch \ {g}
  /\ IF room.phase # "closed" /\ engine = g THEN Terminate ELSE UNCHANGED <<room, engine, alive>>
  /\ UNCHANGED <<mode, clientVars, timerVars>>

(***************************************************************************)
(* Between the games of a match                                            *)
(***************************************************************************)
\* A card or commander of the pending deck moves; its owner is not ready.
Repartition(s, split) ==
  /\ Sideboarding(room) /\ Plays(room, s)
  /\ room' = [room EXCEPT !.game.side.split[s] = split, !.game.side.ready[s] = FALSE]
  /\ UNCHANGED <<mode, clientVars, engineVars, timerVars>>

ChooseStartingPlayer(s, t) ==
  /\ ~Forge /\ Sideboarding(room) /\ Plays(room, s)
  /\ s = room.game.side.loser /\ t \in Taken(room)
  /\ room' = [room EXCEPT !.game.side.chosen = t, !.game.side.ready[s] = FALSE]
  /\ UNCHANGED <<mode, clientVars, engineVars, timerVars>>

\* Mutant of CompleteSideboard: an expired sideboarding commits as well.
CompleteAlwaysCommits(rm, commit) ==
  LET next == CommitDecks(rm)
      side == rm.game.side
      starter == IF side.chosen # NoSeat THEN side.chosen ELSE side.loser
  IN  IF Forge THEN Transition(PrepareNextRulesGame(next, side.loser))
      ELSE /\ \E g \in SetupGame(next, rm.game.number + 1, starter) :
                room' = [next EXCEPT !.game = g]
           /\ UNCHANGED engineVars

\* The next game, with the pending partitions or with the decks as they are.
CompleteSideboard(rm, commit) ==
  LET next == IF commit THEN CommitDecks(rm) ELSE rm
      side == rm.game.side
      starter == IF side.chosen # NoSeat THEN side.chosen ELSE side.loser
  IN  IF Forge THEN Transition(PrepareNextRulesGame(next, side.loser))
      ELSE /\ \/ \E g \in SetupGame(next, rm.game.number + 1, starter) :
                    room' = [next EXCEPT !.game = g]
              \/ "setup" \in Faults /\ UNCHANGED room
           /\ UNCHANGED engineVars

SetSideboardReady(s, ready) ==
  /\ Sideboarding(room) /\ Plays(room, s)
  /\ LET rm == [room EXCEPT !.game.side.ready[s] = ready]
     IN  IF \A t \in Seats : rm.game.side.ready[t]
         THEN /\ CompleteSideboard(rm, TRUE)
              /\ IF room' = room THEN UNCHANGED timerVars ELSE CancelTimer
         ELSE room' = rm /\ UNCHANGED <<engineVars, timerVars>>
  /\ UNCHANGED <<mode, clientVars>>

PassDeadline ==
  /\ lapsed < sides /\ lapsed' = lapsed + 1
  /\ UNCHANGED <<mode, room, clientVars, engineVars, sides, sideTimer, armed, fired>>

\* The timer of sideboarding k fires; its callback still needs the lock.
TimerFires(k) ==
  /\ k \in armed /\ k <= lapsed
  /\ armed' = armed \ {k} /\ fired' = fired \cup {k}
  /\ UNCHANGED <<mode, room, clientVars, engineVars, sides, lapsed, sideTimer>>

\* What an expiring timer does to the sideboarding of the room.
ExpireRoom ==
  IF Sideboarding(room) /\ lapsed >= room.game.side.id THEN CompleteSideboard(room, FALSE)
  ELSE UNCHANGED <<room, engineVars>>

\* Mutant of ExpireSideboard: a replaced timer still acts.
ExpireAnySideboard(k) ==
  /\ k \in fired /\ fired' = fired \ {k}
  /\ IF room.phase = "closed" THEN UNCHANGED <<room, engineVars, sideTimer>>
     ELSE sideTimer' = 0 /\ ExpireRoom
  /\ UNCHANGED <<mode, clientVars, sides, lapsed, armed>>

\* The callback of timer k acts only while it is the room's timer.
ExpireSideboard(k) ==
  /\ k \in fired /\ fired' = fired \ {k}
  /\ IF room.phase = "closed" \/ sideTimer # k THEN UNCHANGED <<room, engineVars, sideTimer>>
     ELSE sideTimer' = 0 /\ ExpireRoom
  /\ UNCHANGED <<mode, clientVars, sides, lapsed, armed>>

\* Any member closes a decided match for the whole room.
ReturnToRoom(s) ==
  /\ room.occ[s] = "human" /\ Decided(room) /\ room.game.side = NoSide
  /\ room' = [room EXCEPT !.phase = "waiting", !.game = NoGame, !.score = Fill(0), !.drawn = 0,
                          !.start = IF Forge THEN NoSeat ELSE @, !.deck = room.reg,
                          !.ready = [t \in Seat |-> room.occ[t] = "ai" /\ room.deck[t] # NoDeck],
                          !.loaded = Fill(FALSE)]
  /\ UNCHANGED <<mode, clientVars, engineVars, timerVars>>

(***************************************************************************)
(* Departures                                                              *)
(***************************************************************************)
Vacate(rm, s) ==
  [rm EXCEPT !.occ[s] = "free", !.reg[s] = NoDeck, !.deck[s] = NoDeck,
             !.ready[s] = FALSE, !.loaded[s] = FALSE]

TransferHost(rm) == [rm EXCEPT !.host = IF Humans(rm) = {} THEN NoSeat ELSE Lowest(Humans(rm))]

\* Mutant of Departed: loading goes on with the players who are left.
DepartedWhileLoading(s) ==
  LET rm == Vacate(Forfeit(room, s), s)
  IN  IF room.host = s THEN TransferHost(rm) ELSE rm

\* The room without the player of seat s.
Departed(s) ==
  LET rm == Vacate(Forfeit(room, s), s)
  IN  Cancel(IF room.host = s THEN TransferHost(rm) ELSE rm)

\* A started Forge room cannot go on without one of its players.
Depart(s) ==
  /\ IF Forge /\ Started(room)
     THEN room' = Reset(Departed(s)) /\ NoEngine
     ELSE room' = Departed(s) /\ UNCHANGED engineVars
  /\ Announce(room')
  /\ UNCHANGED <<fetched, timerVars>>

LeaveRoom(s) ==
  /\ room.occ[s] = "human" /\ UNCHANGED mode
  /\ IF room.host = s /\ ~(mode.format = "group" /\ Taken(room) # {s}) THEN Close ELSE Depart(s)

KickPlayer(s) ==
  /\ room.occ[s] = "human" /\ room.host \in Humans(room) \ {s} /\ UNCHANGED mode
  /\ Depart(s)

\* The reconnect hold of seat s ran out.
ExpireHold(s) ==
  /\ room.occ[s] = "human" /\ UNCHANGED mode
  /\ IF Humans(room) = {s} THEN Close ELSE Depart(s)

DisbandRoom(s) == room.host = s /\ UNCHANGED mode /\ Close

-----------------------------------------------------------------------------
\* What the people and their clients do.
Preparation(s) ==
  \/ Join(s) \/ FetchCards(s)
  \/ \E list \in Lists : SelectDeck(s, list)
  \/ \E list \in Lists \cup {NoList} : ConfigureAI(s, list)
  \/ \E ready \in BOOLEAN : SetReady(s, ready)
  \/ \E id \in 1 .. room.loadID : CompleteLoad(s, id)

Play(s) ==
  \/ NextTurn(s) \/ Concede(s) \/ DeclareDraw(s) \/ RestartGame(s)
  \/ ForgeConcede(s) \/ ForgeRestart(s) \/ ReturnToRoom(s)
  \/ \E split \in {0, 1} : Repartition(s, split)
  \/ \E t \in Seats : ChooseStartingPlayer(s, t)
  \/ \E ready \in BOOLEAN : SetSideboardReady(s, ready)

Departure(s) == LeaveRoom(s) \/ KickPlayer(s) \/ ExpireHold(s) \/ DisbandRoom(s)

\* What the engine and the clock do.
EngineStep ==
  \/ PublishResult \/ FailGame \/ RuntimeExits
  \/ \E s \in Seats : RecordStart(s) \/ ExpireActionClock(s)

TimerStep(k) == TimerFires(k) \/ ExpireSideboard(k)

Next ==
  \/ \E s \in Seats : Preparation(s) \/ Play(s) \/ Departure(s)
  \/ EngineStep \/ PassDeadline
  \/ \E g \in watch : WatchRuntime(g)
  \/ \E k \in armed \cup fired : TimerStep(k)

Spec == Init /\ [][Next]_vars

\* Time passes, timers fire and callbacks that wait for opMu get it; neither
\* the players nor the engine promise anything.
Fairness ==
  /\ WF_vars(PassDeadline)
  /\ \A k \in 1 .. MaxSides : WF_vars(TimerFires(k)) /\ WF_vars(ExpireSideboard(k))
  /\ \A g \in 1 .. MaxLoads + MaxSides : WF_vars(WatchRuntime(g))

LiveSpec == Spec /\ Fairness

(***************************************************************************)
(* Properties                                                              *)
(***************************************************************************)
Decks  == [list : Lists, split : {0, 1}] \cup {NoDeck}
SeatOrNone == Seat \cup {NoSeat}

Games ==
  [number : Nat, order : UNION {[1 .. n -> Seat] : n \in 0 .. MaxSeats}, active : SeatOrNone,
   out : SUBSET Seat, result : [over : BOOLEAN, winner : SeatOrNone, done : BOOLEAN],
   side : [id : Nat, loser : SeatOrNone, chosen : SeatOrNone,
           split : [Seat -> {0, 1}], ready : [Seat -> BOOLEAN]]]

RoomState ==
  [phase : {"waiting", "loading", "started", "closed"}, occ : [Seat -> {"free", "human", "ai"}],
   host : SeatOrNone, reg : [Seat -> Decks], deck : [Seat -> Decks],
   ready : [Seat -> BOOLEAN], loaded : [Seat -> BOOLEAN], loadID : Nat,
   score : [Seat -> Nat], drawn : Nat, start : SeatOrNone, game : Games]

\* Every variable keeps the shape of the Go state it stands for.
TypeOK ==
  /\ mode \in [rules : {"manual", "forge"}, format : {"1v1", "edh", "group"},
               match : {"bo1", "bo3"}, load : {"required", "background"}, ai : BOOLEAN]
  /\ room \in RoomState
  /\ announced \in [Seat -> Decks] /\ fetched \in [Seat -> Nat]
  /\ engine \in Nat /\ alive \in BOOLEAN /\ watch \in SUBSET Nat
  /\ sides \in Nat /\ lapsed \in Nat /\ sideTimer \in Nat
  /\ armed \in SUBSET Nat /\ fired \in SUBSET Nat

\* A loading room has a full gate, and the cards it announced are those of the
\* decks that will be played: whoever leaves or changes a deck stops loading.
LoadingIsGated ==
  room.phase = "loading" =>
    /\ Cardinality(Taken(room)) >= MinPlayers
    /\ \A s \in Taken(room) :
         room.ready[s] /\ room.deck[s] # NoDeck /\ room.deck[s] = announced[s]

\* No game starts from a loading room before every player's client has fetched
\* the cards of this very load generation: late acknowledgements start nothing.
StartsFullyLoaded ==
  [][room.phase = "loading" /\ room'.phase = "started" =>
       \A s \in Humans(room) : fetched[s] = room.loadID]_vars

\* A running engine game belongs to a started match without a result, and such
\* a match has its engine, or a watcher on its way to end it: no engine leaks,
\* no room waits for ever for one.
EngineMatchesMatch ==
  /\ engine # 0 => Forge /\ Started(room) /\ room.game = NoGame /\ engine = room.loadID
  /\ Forge /\ Started(room) /\ room.game = NoGame => engine # 0 /\ (alive \/ engine \in watch)

\* The watcher of an earlier engine game never touches the room's new game.
StaleWatcherHarmless ==
  [][\A g \in watch : g \notin watch' /\ alive => UNCHANGED <<room, engine>>]_vars

\* The turn of a manual game is with a seated player who is still in it.
ActiveSeatPlays ==
  Live(room) => room.game.active \in Taken(room) \ room.game.out

\* The score agrees with the games played: a running match is undecided, an
\* unfinished one goes on to sideboarding with both its players, and only the
\* winner of a decided one has the wins it takes.  (A Forge game that a player
\* conceded and nobody won is not counted.)
MatchAccounts ==
  LET played == RulesGameNumber(room) - 1
  IN  /\ Started(room) /\ ~Decided(room) => \A s \in Seat : room.score[s] < Needed
      /\ Live(room) => room.game.number = played + 1
      /\ Playing(room) /\ ~Live(room) /\ ~Decided(room) =>
           /\ Sideboarding(room) /\ Taken(room) = Seats
           /\ \/ room.game.number = played
              \/ Forge /\ room.game.result.winner = NoSeat /\ room.game.number = played + 1
      /\ Decided(room) => ~Sideboarding(room) /\ \A s \in Seat :
           IF s = room.game.result.winner THEN room.score[s] = Needed ELSE room.score[s] < Needed

\* Decks change during a match only when every player has locked in, and then
\* all of them to what their owners arranged.
DecksCommitTogether ==
  [][Started(room) /\ Started(room)' /\ room'.occ = room.occ /\ room'.deck # room.deck =>
       /\ Sideboarding(room) /\ fired' = fired
       /\ Cardinality({s \in Seats : ~room.game.side.ready[s]}) <= 1
       /\ \A s \in Seats : room'.deck[s].split = room.game.side.split[s]]_vars

\* The callback of an old timer leaves the room, the sideboarding that is going
\* on now and its timer alone.
StaleTimerHarmless ==
  [][\A k \in fired : k \notin fired' /\ room.game.side.id # k =>
       room' = room /\ sideTimer \in {k, sideTimer'}]_vars

\* Each match begins with the decks as they were registered.
RegisteredForNewMatch ==
  [][~Started(room) /\ room'.phase = "started" =>
       \A s \in Taken(room)' : room'.deck[s] = room'.reg[s]]_vars

\* Sideboarding ends, whatever the players do: its timer is never lost.
SideboardEnds ==
  \A k \in 1 .. MaxSides : (room.game.side.id = k) ~> (room.game.side.id # k)

\* A room whose engine is gone is told so.
LostEngineNoticed == (engine # 0 /\ ~alive) ~> (engine = 0 \/ alive)
=============================================================================
