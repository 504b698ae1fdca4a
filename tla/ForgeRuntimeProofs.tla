------------------------- MODULE ForgeRuntimeProofs -------------------------
(***************************************************************************)
(* Proofs about ForgeRuntime, for any numbers of rooms, engines and slots: *)
(* its types with the ownership of the single-flight barrier, that every   *)
(* registered game has a watcher, and that capacity is held.               *)
(***************************************************************************)
EXTENDS ForgeRuntime, FiniteSetTheorems, TLAPS

\* One room moves to operation o, and the barrier from or to nobody but it:
\* every operation stays typed and in order.
LEMMA MoveKeepsOrder ==
  ASSUME TypeOK, NEW r \in Room, NEW o \in Operations, NEW s \in Room \cup {NoRoom},
         InOrder(r, o, s),
         s = starting \/ {s, starting} \subseteq {r, NoRoom}
  PROVE  /\ [op EXCEPT ![r] = o] \in [Room -> Operations]
         /\ \A q \in Room : InOrder(q, [op EXCEPT ![r] = o][q], s)
<1>1. op \in [Room -> Operations] /\ \A q \in Room : InOrder(q, op[q], starting)
  BY DEF TypeOK
<1>2. ASSUME NEW q \in Room
      PROVE  InOrder(q, [op EXCEPT ![r] = o][q], s)
  <2>1. CASE q = r
    BY <1>1, <2>1
  <2>2. CASE q # r
    BY <1>1, <2>2, EngineAssumption DEF InOrder
  <2>3. QED
    BY <2>1, <2>2
<1>3. QED
  BY <1>1, <1>2

\* What TypeOK asks of the operations.
OperationsInOrder ==
  /\ op \in [Room -> Operations]
  /\ \A q \in Room : InOrder(q, op[q], starting)

\* A room that does not own the barrier goes to a step without an engine.
LEMMA MoveWithoutEngine ==
  ASSUME TypeOK, NEW r \in Room, starting # r, starting' = starting,
         NEW at \in {"idle", "admit", "publish", "failed"}, NEW then \in {"idle", "admit", "failed"},
         op' = [op EXCEPT ![r] = [at |-> at, on |-> NoEngine, then |-> then]]
  PROVE  OperationsInOrder'
<1> DEFINE o == [at |-> at, on |-> NoEngine, then |-> then]
<1>1. o \in Operations /\ InOrder(r, o, starting)
  BY EngineAssumption DEF Operations, Step, InOrder
<1>2. starting \in Room \cup {NoRoom}
  BY DEF TypeOK
<1>3. QED
  BY <1>1, <1>2, MoveKeepsOrder DEF OperationsInOrder

\* Or to one with an engine.
LEMMA MoveWithEngine ==
  ASSUME TypeOK, NEW r \in Room, starting # r, starting' = starting, NEW c \in Engine,
         NEW at \in {"start", "register", "close"}, NEW then \in {"idle", "admit", "failed"},
         op' = [op EXCEPT ![r] = [at |-> at, on |-> c, then |-> then]]
  PROVE  OperationsInOrder'
<1> DEFINE o == [at |-> at, on |-> c, then |-> then]
<1>1. o \in Operations /\ InOrder(r, o, starting)
  BY EngineAssumption DEF Operations, Step, InOrder
<1>2. starting \in Room \cup {NoRoom}
  BY DEF TypeOK
<1>3. QED
  BY <1>1, <1>2, MoveKeepsOrder DEF OperationsInOrder

\* The operation of a room is typed, and says who owns the barrier.
LEMMA OperationFacts ==
  ASSUME TypeOK, NEW r \in Room
  PROVE  /\ op[r] \in Operations
         /\ op[r].on \in Engine \cup {NoEngine}
         /\ op[r].at \in {"launch", "unlaunch", "start", "register", "close"} => op[r].on \in Engine
         /\ op[r].at \in {"launch", "unlaunch"} => starting = r
         /\ op[r].at \notin {"launch", "unlaunch"} => starting # r
BY DEF TypeOK, Operations, InOrder

\* A cold start gets an engine nobody else holds.
LEMMA NewEngineIsAnEngine ==
  ASSUME \E c \in Engine : Forgotten(c)
  PROVE  NewEngine \in Engine
BY DEF NewEngine

LEMMA TypeInit == Init => TypeOK
<1> SUFFICES ASSUME Init PROVE TypeOK
  OBVIOUS
<1>1. \A r \in Room : InOrder(r, op[r], starting)
  BY EngineAssumption DEF Init, InOrder, Idle
<1>2. op \in [Room -> Operations]
  BY DEF Init, Idle, Operations, Step
<1>3. watch \in [Engine -> [at : {"none", "waiting", "ending"}, rooms : SUBSET Room]]
  BY DEF Init, Asleep
<1>4. closer \in [at : {"open", "waiting", "closing", "done"}, clients : SUBSET Engine]
  BY DEF Init, Open
<1>5. QED
  BY <1>1, <1>2, <1>3, <1>4 DEF Init, TypeOK

\* The steps of a cold start move the barrier.
LEMMA StartKeepsTypes ==
  ASSUME TypeOK, NEW r \in Room,
         Admit(r) \/ Launched(r) \/ LaunchFails(r) \/ Unlaunched(r)
  PROVE  TypeOK'
<1> DEFINE c == op[r].on
<1>1. CASE Admit(r)
  <2> DEFINE o == [at |-> "launch", on |-> NewEngine, then |-> "idle"]
  <2>1. NewEngine \in Engine
    BY <1>1, NewEngineIsAnEngine DEF Admit
  <2>2. o \in Operations /\ InOrder(r, o, r)
    BY <2>1, EngineAssumption DEF Operations, Step, InOrder
  <2>3. op' = [op EXCEPT ![r] = o] /\ starting = NoRoom /\ starting' = r
    BY <1>1 DEF Admit, Goto
  <2>4. OperationsInOrder'
    BY <2>2, <2>3, MoveKeepsOrder DEF OperationsInOrder
  <2>5. QED
    BY <1>1, <2>1, <2>3, <2>4 DEF TypeOK, Admit, OperationsInOrder
<1>2. CASE Launched(r)
  <2> DEFINE o == [at |-> "start", on |-> c, then |-> "idle"]
  <2>1. c \in Engine /\ starting = r
    BY <1>2, OperationFacts DEF Launched
  <2>2. o \in Operations /\ InOrder(r, o, NoRoom)
    BY <2>1, EngineAssumption DEF Operations, Step, InOrder
  <2>3. op' = [op EXCEPT ![r] = o] /\ starting' = NoRoom
    BY <1>2 DEF Launched, Goto
  <2>4. OperationsInOrder'
    BY <2>1, <2>2, <2>3, MoveKeepsOrder DEF OperationsInOrder
  <2>5. QED
    BY <1>2, <2>1, <2>3, <2>4 DEF TypeOK, Launched, OperationsInOrder
<1>3. CASE LaunchFails(r)
  <2> DEFINE o == [at |-> "unlaunch", on |-> c, then |-> "idle"]
  <2>1. c \in Engine /\ starting = r
    BY <1>3, OperationFacts DEF LaunchFails
  <2>2. o \in Operations /\ InOrder(r, o, r)
    BY <2>1, EngineAssumption DEF Operations, Step, InOrder
  <2>3. op' = [op EXCEPT ![r] = o] /\ starting' = r
    BY <1>3, <2>1 DEF LaunchFails, Goto
  <2>4. OperationsInOrder'
    BY <2>1, <2>2, <2>3, MoveKeepsOrder DEF OperationsInOrder
  <2>5. QED
    BY <1>3, <2>1, <2>3, <2>4 DEF TypeOK, LaunchFails, OperationsInOrder
<1>4. CASE Unlaunched(r)
  <2> DEFINE o == [at |-> "failed", on |-> NoEngine, then |-> "idle"]
  <2>1. starting = r
    BY <1>4, OperationFacts DEF Unlaunched
  <2>2. o \in Operations /\ InOrder(r, o, NoRoom)
    BY EngineAssumption DEF Operations, Step, InOrder
  <2>3. op' = [op EXCEPT ![r] = o] /\ starting' = NoRoom
    BY <1>4 DEF Unlaunched, Goto
  <2>4. OperationsInOrder'
    BY <2>1, <2>2, <2>3, MoveKeepsOrder DEF OperationsInOrder
  <2>5. QED
    BY <1>4, <2>3, <2>4 DEF TypeOK, Unlaunched, OperationsInOrder
<1>5. QED
  BY <1>1, <1>2, <1>3, <1>4

\* Closing a game: the room's operation has its engine to close, or goes on.
LEMMA CloseGameKeepsTypes ==
  ASSUME TypeOK, NEW r \in Room, starting # r, NEW keepSlot \in BOOLEAN,
         NEW next \in {"idle", "admit", "failed"}, CloseGame(r, keepSlot, next),
         phase' \in [Room -> {"waiting", "playing", "between"}],
         UNCHANGED <<proc, clients, starting, cooldown, watch, closer>>
  PROVE  TypeOK' /\ OperationsInOrder'
<1> DEFINE c == game[r]
<1>1. c \in Engine \cup {NoEngine}
  BY DEF TypeOK
<1>2. game' \in [Room -> Engine \cup {NoEngine}] /\ reserved' \in [Room -> Engine \cup {NoEngine}]
  BY <1>1 DEF TypeOK, CloseGame
<1>3. OperationsInOrder'
  <2>1. CASE c = NoEngine
    <3>1. op' = [op EXCEPT ![r] = [at |-> next, on |-> NoEngine, then |-> next]]
      BY <2>1 DEF CloseGame, Goto
    <3>2. QED
      BY <3>1, MoveWithoutEngine
  <2>2. CASE c # NoEngine
    <3>1. op' = [op EXCEPT ![r] = [at |-> "close", on |-> c, then |-> next]]
      BY <2>2 DEF CloseGame, Goto
    <3>2. QED
      BY <1>1, <2>2, <3>1, MoveWithEngine
  <2>3. QED
    BY <2>1, <2>2
<1>4. QED
  BY <1>2, <1>3 DEF TypeOK, OperationsInOrder

\* Every step of an operation under way keeps the types.
LEMMA ProceedKeepsTypes ==
  ASSUME TypeOK, NEW r \in Room, Proceed(r)
  PROVE  TypeOK'
<1> DEFINE c == op[r].on
<1>1. CASE Refuse(r)
  <2>1. starting # r /\ starting' = starting
    BY <1>1, OperationFacts DEF Refuse, registry
  <2>2. op' = [op EXCEPT ![r] = [at |-> "failed", on |-> NoEngine, then |-> "idle"]]
    BY <1>1 DEF Refuse, Goto
  <2>3. OperationsInOrder'
    BY <2>1, <2>2, MoveWithoutEngine
  <2>4. QED
    BY <1>1, <2>3 DEF TypeOK, Refuse, registry, OperationsInOrder
<1>2. CASE StartGame(r)
  <2>1. c \in Engine /\ starting # r /\ starting' = starting
    BY <1>2, OperationFacts DEF StartGame, registry
  <2>2. \/ op' = [op EXCEPT ![r] = [at |-> "register", on |-> c, then |-> "idle"]]
        \/ op' = [op EXCEPT ![r] = [at |-> "close", on |-> c, then |-> "failed"]]
    BY <1>2 DEF StartGame, Goto
  <2>3. OperationsInOrder'
    BY <2>1, <2>2, MoveWithEngine
  <2>4. QED
    BY <1>2, <2>3 DEF TypeOK, StartGame, registry, OperationsInOrder
<1>3. CASE RegisterGame(r)
  <2>1. c \in Engine /\ starting # r /\ starting' = starting
    BY <1>3, OperationFacts DEF RegisterGame
  <2>2. \/ op' = [op EXCEPT ![r] = [at |-> "publish", on |-> NoEngine, then |-> "idle"]]
        \/ op' = [op EXCEPT ![r] = [at |-> "close", on |-> c, then |-> "failed"]]
    BY <1>3 DEF RegisterGame, Goto
  <2>3. OperationsInOrder'
    BY <2>1, <2>2, MoveWithEngine, MoveWithoutEngine
  <2>4. game' \in [Room -> Engine \cup {NoEngine}]
    BY <1>3, <2>1 DEF TypeOK, RegisterGame
  <2>5. QED
    BY <1>3, <2>3, <2>4 DEF TypeOK, RegisterGame, OperationsInOrder
<1>4. CASE Publish(r)
  <2>1. starting # r /\ starting' = starting
    BY <1>4, OperationFacts DEF Publish
  <2>2. CASE op' = [op EXCEPT ![r] = Idle] /\ UNCHANGED <<game, reserved>>
    <3>1. OperationsInOrder'
      BY <2>1, <2>2, MoveWithoutEngine DEF Idle
    <3>2. QED
      BY <1>4, <2>2, <3>1 DEF TypeOK, Publish, OperationsInOrder
  <2>3. CASE CloseGame(r, FALSE, "failed")
    <3>1. phase' \in [Room -> {"waiting", "playing", "between"}]
      BY <1>4 DEF TypeOK, Publish
    <3>2. QED
      BY <1>4, <2>1, <2>3, <3>1, CloseGameKeepsTypes DEF Publish
  <2>4. QED
    BY <1>4, <2>2, <2>3 DEF Publish
<1>5. CASE CloseEngine(r)
  <2>1. starting # r /\ starting' = starting /\ op[r].then \in {"idle", "admit", "failed"}
    BY <1>5, OperationFacts DEF CloseEngine, registry, Operations
  <2>2. CASE UNCHANGED op
    BY <1>5, <2>1, <2>2 DEF TypeOK, CloseEngine, registry
  <2>3. CASE op' = [op EXCEPT ![r] = [Idle EXCEPT !.at = op[r].then]]
    <3>1. [Idle EXCEPT !.at = op[r].then] = [at |-> op[r].then, on |-> NoEngine, then |-> "idle"]
      BY DEF Idle
    <3>2. OperationsInOrder'
      BY <2>1, <2>3, <3>1, MoveWithoutEngine
    <3>3. QED
      BY <1>5, <3>2 DEF TypeOK, CloseEngine, registry, OperationsInOrder
  <2>4. QED
    BY <1>5, <2>2, <2>3 DEF CloseEngine
<1>6. CASE StartFailed(r)
  <2>1. starting # r /\ starting' = starting
    BY <1>6, OperationFacts DEF StartFailed
  <2>2. OperationsInOrder'
    BY <1>6, <2>1, MoveWithoutEngine DEF StartFailed, Idle
  <2>3. QED
    BY <1>6, <2>2 DEF TypeOK, StartFailed, OperationsInOrder
<1>7. QED
  BY <1>1, <1>2, <1>3, <1>4, <1>5, <1>6, StartKeepsTypes DEF Proceed

\* So does what players and the host ask for.
LEMMA RequestKeepsTypes ==
  ASSUME TypeOK, NEW r \in Room, Request(r)
  PROVE  TypeOK'
<1>0. op[r] = Idle \/ FailGame(r)
  BY DEF Request, BeginGame, Restart, Abandon, FinishGame
<1>1. op[r] = Idle => starting # r
  BY OperationFacts DEF Idle
<1>2. CASE BeginGame(r)
  <2>1. OperationsInOrder'
    BY <1>1, <1>2, MoveWithoutEngine DEF BeginGame, Goto, registry
  <2>2. QED
    BY <1>2, <2>1 DEF TypeOK, BeginGame, registry, OperationsInOrder
<1>3. CASE Restart(r)
  <2>1. phase' \in [Room -> {"waiting", "playing", "between"}]
    BY <1>3 DEF TypeOK, Restart
  <2>2. QED
    BY <1>1, <1>3, <2>1, CloseGameKeepsTypes DEF Restart
<1>4. CASE Abandon(r)
  <2>1. phase' \in [Room -> {"waiting", "playing", "between"}]
    BY <1>4 DEF TypeOK, Abandon
  <2>2. QED
    BY <1>1, <1>4, <2>1, CloseGameKeepsTypes DEF Abandon
<1>5. CASE FailGame(r)
  BY <1>5 DEF TypeOK, FailGame
<1>6. ASSUME NEW keepSlot \in BOOLEAN, FinishGame(r, keepSlot)
      PROVE  TypeOK'
  <2> DEFINE c == game[r]
  <2>1. starting # r /\ starting' = starting
    BY <1>1, <1>6 DEF FinishGame
  <2>2. phase' \in [Room -> {"waiting", "playing", "between"}]
    BY <1>6 DEF TypeOK, FinishGame
  <2>3. CASE c = NoEngine
    BY <1>6, <2>2, <2>3 DEF TypeOK, FinishGame
  <2>4. CASE c # NoEngine
    <3>1. c \in Engine
      BY <2>4 DEF TypeOK
    <3>2. OperationsInOrder'
      BY <1>6, <2>1, <2>4, <3>1, MoveWithEngine DEF FinishGame, Goto
    <3>3. game' \in [Room -> Engine \cup {NoEngine}] /\ reserved' \in [Room -> Engine \cup {NoEngine}]
      BY <1>6, <2>4, <3>1 DEF TypeOK, FinishGame
    <3>4. QED
      BY <1>6, <2>2, <3>2, <3>3 DEF TypeOK, FinishGame, OperationsInOrder
  <2>5. QED
    BY <2>3, <2>4
<1>7. QED
  BY <1>2, <1>3, <1>4, <1>5, <1>6 DEF Request

\* And processes, their watchers and the shutdown.
LEMMA EnvironmentKeepsTypes ==
  ASSUME TypeOK,
         \/ \E c \in Engine : ColdStart(c) \/ Crash(c) \/ Reap(c) \/ Watch(c)
         \/ CooldownEnds \/ BeginClose \/ ShutDown
  PROVE  TypeOK'
<1>1. ASSUME NEW c \in Engine, ColdStart(c) \/ Crash(c) \/ Reap(c)
      PROVE  TypeOK'
  <2>1. proc' \in [Engine -> {"cold", "up", "ending", "gone"}]
    BY <1>1 DEF TypeOK, ColdStart, Crash, Reap
  <2>2. QED
    BY <1>1, <2>1 DEF TypeOK, ColdStart, Crash, Reap, registry
<1>2. ASSUME NEW c \in Engine, Notice(c)
      PROVE  TypeOK'
  BY <1>2 DEF TypeOK, Notice, Asleep
<1>3. ASSUME NEW c \in Engine, NEW r \in Room, Terminate(c, r)
      PROVE  TypeOK'
  <2>1. watch' \in [Engine -> [at : {"none", "waiting", "ending"}, rooms : SUBSET Room]]
    BY <1>3 DEF TypeOK, Terminate, Asleep
  <2>2. /\ game' \in [Room -> Engine \cup {NoEngine}]
        /\ phase' \in [Room -> {"waiting", "playing", "between"}]
    BY <1>3 DEF TypeOK, Terminate
  <2>3. QED
    BY <1>3, <2>1, <2>2 DEF TypeOK, Terminate
<1>4. CASE CooldownEnds
  BY <1>4 DEF TypeOK, CooldownEnds
<1>5. CASE BeginClose
  BY <1>5 DEF TypeOK, BeginClose
<1>6. CASE CloseClients
  BY <1>6 DEF TypeOK, CloseClients, registry
<1>7. CASE CloseReturns
  BY <1>7 DEF TypeOK, CloseReturns, registry
<1>8. QED
  BY <1>1, <1>2, <1>3, <1>4, <1>5, <1>6, <1>7 DEF Watch, ShutDown

LEMMA NextKeepsTypes ==
  ASSUME TypeOK, [Next]_vars
  PROVE  TypeOK'
<1>1. CASE Next
  BY <1>1, ProceedKeepsTypes, RequestKeepsTypes, EnvironmentKeepsTypes DEF Next
<1>2. CASE UNCHANGED vars
  BY <1>2 DEF TypeOK, vars, registry
<1>3. QED
  BY <1>1, <1>2

\* Every reachable state is well typed; an operation holds an engine exactly
\* at the steps that use one, and the single-flight barrier of start belongs
\* to the room whose cold start is under way.
THEOREM EnginesAreTyped == Spec => []TypeOK
<1>1. QED
  BY TypeInit, NextKeepsTypes, PTL DEF Spec

\* Tracked engines have a waiting watcher, a waiting watcher has not collected
\* games yet, and a closed server has no games.
Supervised ==
  /\ \A c \in clients : watch[c].at = "waiting"
  /\ \A c \in Engine : watch[c].at = "waiting" => watch[c].rooms = {}
  /\ closed => \A r \in Room : game[r] = NoEngine

WatchInv == TypeOK /\ Supervised /\ GamesAreWatched

LEMMA WatchInit == Init => WatchInv
BY TypeInit DEF Init, WatchInv, Supervised, GamesAreWatched, closed, Open, Asleep

\* A game that ends takes nobody's watcher away.
LEMMA EndingKeepsWatch ==
  ASSUME WatchInv, TypeOK',
         \A r \in Room : game'[r] \in {game[r], NoEngine},
         UNCHANGED <<clients, watch, closer>>
  PROVE  WatchInv'
BY DEF WatchInv, Supervised, GamesAreWatched, closed

LEMMA ProceedKeepsWatch ==
  ASSUME WatchInv, NEW r \in Room, Proceed(r), TypeOK'
  PROVE  WatchInv'
<1>1. CASE Refuse(r) \/ Admit(r) \/ LaunchFails(r) \/ Unlaunched(r) \/ StartGame(r)
           \/ CloseEngine(r) \/ StartFailed(r)
  BY <1>1, EndingKeepsWatch
     DEF Refuse, Admit, LaunchFails, Unlaunched, StartGame, CloseEngine, StartFailed, registry
<1>2. CASE Publish(r)
  BY <1>2, EndingKeepsWatch DEF Publish, CloseGame, WatchInv, TypeOK
<1>3. CASE Launched(r)
  <2> DEFINE c == op[r].on
  <2>1. c \in Engine /\ watch \in [Engine -> [at : {"none", "waiting", "ending"}, rooms : SUBSET Room]]
    BY <1>3, OperationFacts DEF Launched, WatchInv, TypeOK
  <2>2. watch'[c] = [at |-> "waiting", rooms |-> {}] /\ \A d \in Engine \ {c} : watch'[d] = watch[d]
    BY <1>3, <2>1 DEF Launched
  <2>3. clients' = clients \cup {c} /\ UNCHANGED <<game, closer>>
    BY <1>3 DEF Launched
  <2>4. Supervised'
    BY <2>1, <2>2, <2>3 DEF WatchInv, Supervised, TypeOK, closed
  <2>5. GamesAreWatched'
    BY <2>1, <2>2, <2>3 DEF WatchInv, GamesAreWatched, TypeOK
  <2>6. QED
    BY <2>4, <2>5 DEF WatchInv
<1>4. CASE RegisterGame(r)
  <2> DEFINE c == op[r].on
  <2>1. CASE AcceptsGame(c) /\ game[r] = NoEngine
    <3>1. game' = [game EXCEPT ![r] = c] /\ UNCHANGED <<clients, watch, closer>>
      BY <1>4, <2>1 DEF RegisterGame
    <3>2. watch[c].at = "waiting" /\ ~closed
      BY <2>1 DEF AcceptsGame, WatchInv, Supervised
    <3>3. Supervised'
      BY <3>1, <3>2 DEF WatchInv, Supervised, closed
    <3>4. GamesAreWatched'
      BY <3>1, <3>2 DEF WatchInv, GamesAreWatched, TypeOK
    <3>5. QED
      BY <3>3, <3>4 DEF WatchInv
  <2>2. CASE ~(AcceptsGame(c) /\ game[r] = NoEngine)
    BY <1>4, <2>2, EndingKeepsWatch DEF RegisterGame
  <2>3. QED
    BY <2>1, <2>2
<1>5. QED
  BY <1>1, <1>2, <1>3, <1>4 DEF Proceed

LEMMA RequestKeepsWatch ==
  ASSUME WatchInv, NEW r \in Room, Request(r), TypeOK'
  PROVE  WatchInv'
<1>1. game \in [Room -> Engine \cup {NoEngine}]
  BY DEF WatchInv, TypeOK
<1>2. \A q \in Room : game'[q] \in {game[q], NoEngine}
  BY <1>1 DEF Request, BeginGame, Restart, Abandon, FailGame, FinishGame, CloseGame, registry
<1>3. UNCHANGED <<clients, watch, closer>>
  BY DEF Request, BeginGame, Restart, Abandon, FailGame, FinishGame, registry
<1>4. QED
  BY <1>2, <1>3, EndingKeepsWatch

LEMMA EnvironmentKeepsWatch ==
  ASSUME WatchInv, TypeOK',
         \/ \E c \in Engine : ColdStart(c) \/ Crash(c) \/ Reap(c) \/ Watch(c)
         \/ CooldownEnds \/ BeginClose \/ ShutDown
  PROVE  WatchInv'
<1>0. /\ game \in [Room -> Engine \cup {NoEngine}]
      /\ watch \in [Engine -> [at : {"none", "waiting", "ending"}, rooms : SUBSET Room]]
      /\ clients \subseteq Engine
  BY DEF WatchInv, TypeOK
<1>1. ASSUME NEW c \in Engine, ColdStart(c) \/ Crash(c) \/ Reap(c)
      PROVE  WatchInv'
  BY <1>1, EndingKeepsWatch DEF ColdStart, Crash, Reap, registry
<1>2. ASSUME NEW c \in Engine, Notice(c)
      PROVE  WatchInv'
  <2>1. clients' = clients \ {c} /\ UNCHANGED <<game, closer>>
    BY <1>2 DEF Notice
  <2>2. \A d \in Engine \ {c} : watch'[d] = watch[d]
    BY <1>0, <1>2 DEF Notice
  <2>3. ASSUME NEW r \in Room, game[r] = c
        PROVE  r \in watch'[c].rooms
    <3>1. ~closed
      BY <2>3, EngineAssumption DEF WatchInv, Supervised
    <3>2. watch' = [watch EXCEPT ![c] = [at |-> "ending", rooms |-> {q \in Room : game[q] = c}]]
      BY <1>2, <2>3, <3>1 DEF Notice
    <3>3. QED
      BY <1>0, <2>3, <3>2
  <2>4. Supervised'
    <3>1. watch'[c].at # "waiting"
      BY <1>0, <1>2 DEF Notice, Asleep
    <3>2. QED
      BY <1>0, <2>1, <2>2, <3>1 DEF WatchInv, Supervised, closed
  <2>5. GamesAreWatched'
    BY <1>0, <2>1, <2>2, <2>3 DEF WatchInv, GamesAreWatched
  <2>6. QED
    BY <2>4, <2>5 DEF WatchInv
<1>3. ASSUME NEW c \in Engine, NEW r \in Room, Terminate(c, r)
      PROVE  WatchInv'
  <2>1. game'[r] # c /\ \A q \in Room : game'[q] \in {game[q], NoEngine}
    BY <1>0, <1>3, EngineAssumption DEF Terminate, WatchInv, Supervised
  <2>2. UNCHANGED <<clients, closer>> /\ \A d \in Engine \ {c} : watch'[d] = watch[d]
    BY <1>0, <1>3 DEF Terminate
  <2>3. watch[c].at # "waiting" /\ r \in watch[c].rooms
    BY <1>3 DEF Terminate, WatchInv, Supervised
  <2>4. watch'[c].at # "waiting"
    BY <1>0, <1>3, <2>3 DEF Terminate, Asleep
  <2>5. Supervised'
    BY <1>0, <2>1, <2>2, <2>3, <2>4 DEF WatchInv, Supervised, closed
  <2>6. ASSUME NEW q \in Room, game'[q] = c
        PROVE  q \in watch'[c].rooms
    <3>1. game[q] = c /\ q # r
      BY <2>1, <2>6, EngineAssumption
    <3>2. q \in watch[c].rooms \ {r}
      BY <2>3, <3>1, EngineAssumption DEF WatchInv, GamesAreWatched
    <3>3. watch' = [watch EXCEPT ![c] = [@ EXCEPT !.rooms = watch[c].rooms \ {r}]]
      BY <1>3, <3>2 DEF Terminate
    <3>4. QED
      BY <1>0, <3>2, <3>3
  <2>7. GamesAreWatched'
    BY <1>0, <2>1, <2>2, <2>6 DEF WatchInv, GamesAreWatched
  <2>8. QED
    BY <2>5, <2>7 DEF WatchInv
<1>4. CASE CooldownEnds
  BY <1>4, EndingKeepsWatch DEF CooldownEnds
<1>5. CASE BeginClose
  BY <1>5 DEF BeginClose, WatchInv, Supervised, GamesAreWatched, closed
<1>6. CASE ShutDown
  <2>1. closed /\ closed' /\ UNCHANGED <<clients, watch, game>>
    BY <1>6 DEF ShutDown, CloseClients, CloseReturns, registry, closed, WatchInv, TypeOK
  <2>2. QED
    BY <2>1 DEF WatchInv, Supervised, GamesAreWatched
<1>7. QED
  BY <1>1, <1>2, <1>3, <1>4, <1>5, <1>6 DEF Watch

LEMMA NextKeepsWatch ==
  ASSUME WatchInv, [Next]_vars
  PROVE  WatchInv'
<1>1. TypeOK'
  BY NextKeepsTypes DEF WatchInv
<1>2. CASE Next
  BY <1>1, <1>2, ProceedKeepsWatch, RequestKeepsWatch, EnvironmentKeepsWatch DEF Next
<1>3. CASE UNCHANGED vars
  BY <1>1, <1>3, EndingKeepsWatch DEF vars
<1>4. QED
  BY <1>2, <1>3

\* Whatever room, engine, watcher or shutdown step comes between: somebody
\* will notice when the engine of a registered game is gone.
THEOREM NoGameIsForgotten == Spec => []GamesAreWatched
<1>1. WatchInv => GamesAreWatched
  BY DEF WatchInv
<1>2. QED
  BY <1>1, WatchInit, NextKeepsWatch, PTL DEF Spec

(***************************************************************************)
(* Capacity.  Occupied is not bounded by MaxGames in every state: a room   *)
(* may reserve the slot of an engine that has died while another room was  *)
(* admitted.  What holds is that every living process is tracked, or is    *)
(* the one that starts; and what start counts covers them all.             *)
(***************************************************************************)
Tracked == clients \cup closer.clients
Starting(r) == op[r].at \in {"launch", "unlaunch"}
Slots == {r \in Room : reserved[r] # NoEngine}

ProcessInv ==
  /\ \A c \in Living : c \in Tracked \/ \E r \in Room : Starting(r) /\ op[r].on = c
  /\ clients # {} => ~closed
  /\ closer.at = "open" => closer.clients = {}
  /\ closer.at \in {"closing", "done"} => starting = NoRoom
  /\ closer.at = "done" => closer.clients = {}
  /\ IsFiniteSet(Living) /\ IsFiniteSet(Slots)
  /\ Cardinality(Living) <= MaxGames

\* The slot of a match outlives a game only between two games or while the
\* next one is started, and a game is registered only while it is played.
SlotInv ==
  \A r \in Room :
    /\ op[r].at \notin {"idle", "close"} => phase[r] = "playing"
    /\ op[r].at = "close" => (op[r].then = "idle" <=> phase[r] # "playing")
    /\ game[r] # NoEngine => phase[r] = "playing" /\ op[r].at \in {"idle", "publish"}
    /\ op[r].at \in {"launch", "unlaunch", "start", "register", "publish"} => reserved[r] = NoEngine
    /\ reserved[r] # NoEngine => phase[r] = "between" \/ (phase[r] = "playing" /\ op[r].at # "idle")

CapacityInv == WatchInv /\ ProcessInv /\ SlotInv

\* What admission counts covers every living process but the previous engine
\* of the room, which is gone: below the limit there is room for one more.
LEMMA CountCoversTheLiving ==
  ASSUME CapacityInv, NEW r \in Room,
         ~closed, starting = NoRoom, PreviousGone(r), OthersOccupy(r) < MaxGames
  PROVE  Cardinality(Living) < MaxGames
<1> DEFINE rest == {c \in clients \ ReservedEngines : Alive(c)}
           kept == {c \in Living : \E q \in Slots \ {r} : reserved[q] = c}
           back == [q \in {p \in Slots \ {r} : reserved[p] \in Living} |-> reserved[q]]
<1>1. Living \subseteq rest \cup kept
  <2>1. SUFFICES ASSUME NEW c \in Living, c \notin rest PROVE c \in kept
    OBVIOUS
  <2>2. \A q \in Room : ~Starting(q)
    BY OperationFacts, EngineAssumption DEF CapacityInv, WatchInv, Starting
  <2>3. c \in clients
    BY <2>2 DEF CapacityInv, ProcessInv, Tracked, closed
  <2>4. c \in ReservedEngines /\ c \in Engine
    BY <2>1, <2>3 DEF Living
  <2>5. PICK q \in Room : reserved[q] = c
    BY <2>4 DEF ReservedEngines
  <2>6. c # NoEngine /\ q # r
    BY <2>4, <2>5, EngineAssumption DEF PreviousGone
  <2>7. QED
    BY <2>5, <2>6 DEF Slots
<1>2. IsFiniteSet(rest) /\ IsFiniteSet(Living) /\ IsFiniteSet(Slots)
  <2>1. rest \subseteq Living
    BY DEF Living, CapacityInv, WatchInv, TypeOK
  <2> HIDE DEF rest
  <2>2. QED
    BY <2>1, FS_Subset DEF CapacityInv, ProcessInv
<1>3. IsFiniteSet(kept) /\ Cardinality(kept) <= Cardinality(Slots \ {r})
  <2>1. /\ IsFiniteSet(Slots \ {r})
        /\ {p \in Slots \ {r} : reserved[p] \in Living} \in SUBSET (Slots \ {r})
    BY <1>2, FS_RemoveElement
  <2>2. back \in Surjection({p \in Slots \ {r} : reserved[p] \in Living}, kept)
    BY DEF Surjection
  <2> HIDE DEF back, kept
  <2>3. /\ IsFiniteSet({p \in Slots \ {r} : reserved[p] \in Living})
        /\ Cardinality({p \in Slots \ {r} : reserved[p] \in Living}) <= Cardinality(Slots \ {r})
    BY <2>1, FS_Subset
  <2>4. /\ IsFiniteSet(kept)
        /\ Cardinality(kept) <= Cardinality({p \in Slots \ {r} : reserved[p] \in Living})
    BY <2>2, <2>3, FS_Surjection
  <2>5. QED
    BY <2>1, <2>3, <2>4, FS_CardinalityType
<1>4. OthersOccupy(r) = Cardinality(Slots \ {r}) + Cardinality(rest)
  <2>1. Cardinality(Slots \ {r}) =
          IF reserved[r] # NoEngine THEN Cardinality(Slots) - 1 ELSE Cardinality(Slots)
    <3>1. r \in Slots <=> reserved[r] # NoEngine
      BY DEF Slots
    <3>2. QED
      BY <1>2, <3>1, FS_RemoveElement
  <2>2. Occupied = Cardinality(Slots) + Cardinality(rest) + 0
    BY DEF Occupied, Slots
  <2> HIDE DEF rest
  <2>3. Cardinality(Slots) \in Nat /\ Cardinality(rest) \in Nat
    BY <1>2, FS_CardinalityType
  <2>4. QED
    BY <2>1, <2>2, <2>3 DEF OthersOccupy
<1> HIDE DEF rest, kept, back
<1>5. /\ IsFiniteSet(rest \cup kept)
      /\ Cardinality(rest \cup kept) <= Cardinality(rest) + Cardinality(kept)
  <2>1. /\ IsFiniteSet(rest \cup kept)
        /\ Cardinality(rest \cup kept) =
             Cardinality(rest) + Cardinality(kept) - Cardinality(rest \cap kept)
    BY <1>2, <1>3, FS_Union
  <2>2. Cardinality(rest \cap kept) \in Nat /\ Cardinality(rest) \in Nat /\ Cardinality(kept) \in Nat
    BY <1>2, <1>3, FS_Intersection, FS_CardinalityType
  <2>3. QED
    BY <2>1, <2>2
<1>6. Cardinality(Living) <= Cardinality(rest \cup kept)
  BY <1>1, <1>5, FS_Subset
<1>7. /\ Cardinality(Living) \in Nat /\ Cardinality(rest) \in Nat /\ Cardinality(kept) \in Nat
      /\ Cardinality(Slots \ {r}) \in Nat /\ Cardinality(rest \cup kept) \in Nat
  BY <1>2, <1>3, <1>5, FS_CardinalityType, FS_RemoveElement
<1>8. QED
  BY <1>3, <1>4, <1>5, <1>6, <1>7, CapacityAssumption

\* Processes that end or change, and slots that are taken or given back.
LEMMA NoMoreProcesses ==
  ASSUME ProcessInv, NEW r, Living' \subseteq Living, Slots' \subseteq Slots \cup {r}
  PROVE  /\ IsFiniteSet(Living') /\ Cardinality(Living') <= MaxGames
         /\ IsFiniteSet(Slots')
<1>1. IsFiniteSet(Living') /\ Cardinality(Living') <= Cardinality(Living)
  BY FS_Subset DEF ProcessInv
<1>2. Cardinality(Living) \in Nat /\ Cardinality(Living') \in Nat
  BY <1>1, FS_CardinalityType DEF ProcessInv
<1>3. IsFiniteSet(Slots \cup {r})
  BY FS_AddElement DEF ProcessInv
<1>4. QED
  BY <1>1, <1>2, <1>3, FS_Subset, CapacityAssumption DEF ProcessInv

\* A step in which no cold start begins or ends, and nobody is forgotten.
LEMMA SameOwners ==
  ASSUME ProcessInv, NEW r, Living' \subseteq Living, Slots' \subseteq Slots \cup {r},
         UNCHANGED <<closer, starting, clients>>,
         \A q \in Room : Starting(q) => op'[q].at \in {"launch", "unlaunch"} /\ op'[q].on = op[q].on
  PROVE  ProcessInv'
<1>1. \A c \in Living' : c \in Tracked' \/ \E q \in Room : Starting(q)' /\ op'[q].on = c
  BY DEF ProcessInv, Tracked, Starting
<1>2. QED
  BY <1>1, NoMoreProcesses DEF ProcessInv, closed

\* The room of a step is not starting an engine, unless it says so.
LEMMA AtMostOneStarts ==
  ASSUME TypeOK, NEW r \in Room
  PROVE  Starting(r) <=> starting = r
BY OperationFacts DEF Starting

LEMMA ProceedKeepsProcesses ==
  ASSUME CapacityInv, TypeOK', NEW r \in Room, Proceed(r)
  PROVE  ProcessInv'
<1> USE DEF CapacityInv, WatchInv
<1>0. /\ op \in [Room -> Operations] /\ reserved \in [Room -> Engine \cup {NoEngine}]
      /\ proc \in [Engine -> {"cold", "up", "ending", "gone"}] /\ clients \subseteq Engine
  BY DEF TypeOK
<1>1. CASE Refuse(r) \/ StartGame(r) \/ RegisterGame(r) \/ Publish(r) \/ CloseEngine(r)
           \/ StartFailed(r)
  <2>1. ~Starting(r)
    BY <1>1 DEF Refuse, StartGame, RegisterGame, Publish, CloseEngine, StartFailed, Starting
  <2>2. \A q \in Room \ {r} : op'[q] = op[q]
    BY <1>0, <1>1 DEF Refuse, StartGame, RegisterGame, Publish, CloseEngine, StartFailed, Goto,
                      CloseGame
  <2>3. Living' \subseteq Living
    BY <1>0, <1>1 DEF Refuse, StartGame, RegisterGame, Publish, CloseEngine, StartFailed, Living,
                      Alive, Healthy
  <2>4. Slots' \subseteq Slots \cup {r}
    BY <1>0, <1>1 DEF Refuse, StartGame, RegisterGame, Publish, CloseEngine, StartFailed, Slots,
                      CloseGame, registry
  <2>5. UNCHANGED <<closer, starting, clients>>
    BY <1>1 DEF Refuse, StartGame, RegisterGame, Publish, CloseEngine, StartFailed, registry
  <2>6. \A q \in Room : Starting(q) => op'[q].at \in {"launch", "unlaunch"} /\ op'[q].on = op[q].on
    BY <2>1, <2>2 DEF Starting
  <2>7. QED
    BY <2>3, <2>4, <2>5, <2>6, SameOwners
<1>2. CASE Admit(r)
  <2>1. PICK n \in Engine : n = NewEngine /\ Forgotten(n)
    BY <1>2 DEF Admit, NewEngine
  <2>2. n \notin Living /\ Living' = Living \cup {n}
    BY <1>0, <1>2, <2>1 DEF Admit, Living, Alive, Forgotten
  <2>3. Cardinality(Living) < MaxGames
    BY <1>2, CountCoversTheLiving DEF Admit
  <2>4. IsFiniteSet(Living') /\ Cardinality(Living') <= MaxGames
    <3>1. IsFiniteSet(Living') /\ Cardinality(Living') = Cardinality(Living) + 1
      BY <2>2, FS_AddElement DEF ProcessInv
    <3>2. Cardinality(Living) \in Nat
      BY FS_CardinalityType DEF ProcessInv
    <3>3. QED
      BY <2>3, <3>1, <3>2, CapacityAssumption
  <2>5. IsFiniteSet(Slots')
    <3>1. Slots' \in SUBSET Slots
      BY <1>0, <1>2 DEF Admit, Slots
    <3>2. QED
      BY <3>1, FS_Subset DEF ProcessInv
  <2>6. \A c \in Living' : c \in Tracked' \/ \E q \in Room : Starting(q)' /\ op'[q].on = c
    <3>1. op'[r] = [at |-> "launch", on |-> n, then |-> "idle"] /\ \A q \in Room \ {r} : op'[q] = op[q]
      BY <1>0, <1>2, <2>1 DEF Admit, Goto
    <3>2. ~Starting(r) /\ UNCHANGED Tracked
      BY <1>2 DEF Admit, Starting, Tracked
    <3>3. QED
      BY <2>2, <3>1, <3>2 DEF ProcessInv, Starting
  <2>7. UNCHANGED <<closer, clients>> /\ closer.at = "open"
    BY <1>2 DEF Admit, closed
  <2>8. QED
    BY <2>4, <2>5, <2>6, <2>7 DEF ProcessInv, closed
<1>3. CASE Launched(r) \/ LaunchFails(r) \/ Unlaunched(r)
  <2> DEFINE c == op[r].on
  <2>1. Living' \subseteq Living /\ Slots' \subseteq Slots \cup {r}
    BY <1>0, <1>3 DEF Launched, LaunchFails, Unlaunched, Living, Alive, Healthy, Slots
  <2>2. \A q \in Room \ {r} : op'[q] = op[q]
    BY <1>0, <1>3 DEF Launched, LaunchFails, Unlaunched, Goto
  <2>3. starting = r
    BY <1>3, AtMostOneStarts DEF Launched, LaunchFails, Unlaunched, Starting
  <2>4. \A d \in Living' : d \in Tracked' \/ \E q \in Room : Starting(q)' /\ op'[q].on = d
    <3>1. ASSUME NEW d \in Living' PROVE d \in Tracked \/ (d = c)
      BY <2>1, <2>3, <3>1, AtMostOneStarts, EngineAssumption DEF ProcessInv
    <3>2. CASE Launched(r)
      BY <3>1, <3>2 DEF Launched, Tracked
    <3>3. CASE LaunchFails(r)
      <4>1. op'[r].at = "unlaunch" /\ op'[r].on = c /\ UNCHANGED Tracked
        BY <1>0, <3>3 DEF LaunchFails, Goto, Tracked
      <4>2. QED
        BY <3>1, <4>1 DEF Starting
    <3>4. CASE Unlaunched(r)
      <4>1. c \notin Living' /\ UNCHANGED Tracked
        BY <3>4 DEF Unlaunched, Living, Alive, Tracked
      <4>2. QED
        BY <3>1, <4>1
    <3>5. QED
      BY <1>3, <3>2, <3>3, <3>4
  <2>5. closer' = closer /\ closer.at \notin {"closing", "done"}
    BY <1>3, <2>3, EngineAssumption DEF ProcessInv, Launched, LaunchFails, Unlaunched
  <2>6. clients' # {} => ~closed
    BY <1>3 DEF ProcessInv, Launched, LaunchFails, Unlaunched
  <2>7. QED
    BY <2>1, <2>4, <2>5, <2>6, NoMoreProcesses DEF ProcessInv, closed
<1>4. QED
  BY <1>1, <1>2, <1>3 DEF Proceed

LEMMA RequestKeepsProcesses ==
  ASSUME CapacityInv, TypeOK', NEW r \in Room, Request(r)
  PROVE  ProcessInv'
<1> USE DEF CapacityInv, WatchInv, Request, BeginGame, Restart, Abandon, FailGame, FinishGame
<1>0. /\ op \in [Room -> Operations] /\ reserved \in [Room -> Engine \cup {NoEngine}]
      /\ proc \in [Engine -> {"cold", "up", "ending", "gone"}]
  BY DEF TypeOK
<1>1. op[r] = Idle
  OBVIOUS
<1>2. \A q \in Room \ {r} : op'[q] = op[q]
  BY <1>0 DEF Goto, CloseGame
<1>3. Living' \subseteq Living
  BY <1>0 DEF Living, Alive
<1>4. Slots' \subseteq Slots \cup {r}
  BY <1>0 DEF Slots, CloseGame, registry
<1>5. UNCHANGED <<closer, starting, clients>>
  BY DEF registry
<1>6. \A q \in Room : Starting(q) => op'[q].at \in {"launch", "unlaunch"} /\ op'[q].on = op[q].on
  BY <1>1, <1>2 DEF Starting, Idle
<1>7. QED
  BY <1>3, <1>4, <1>5, <1>6, SameOwners

LEMMA EnvironmentKeepsProcesses ==
  ASSUME CapacityInv, TypeOK',
         \/ \E c \in Engine : ColdStart(c) \/ Crash(c) \/ Reap(c) \/ Watch(c)
         \/ CooldownEnds \/ BeginClose \/ ShutDown
  PROVE  ProcessInv'
<1> USE DEF CapacityInv, WatchInv
<1>0. /\ proc \in [Engine -> {"cold", "up", "ending", "gone"}] /\ clients \subseteq Engine
      /\ closer \in [at : {"open", "waiting", "closing", "done"}, clients : SUBSET Engine]
  BY DEF TypeOK
<1>1. Living' \subseteq Living
  BY <1>0 DEF ColdStart, Crash, Reap, Watch, Notice, Terminate, CooldownEnds, BeginClose, ShutDown,
              CloseClients, CloseReturns, Living, Alive
<1>2. UNCHANGED op
  BY DEF ColdStart, Crash, Reap, Watch, Notice, Terminate, CooldownEnds, BeginClose, ShutDown,
         CloseClients, CloseReturns
<1>3. Slots' \subseteq Slots
  BY DEF ColdStart, Crash, Reap, Watch, Notice, Terminate, CooldownEnds, BeginClose, ShutDown,
         CloseClients, CloseReturns, Slots, registry
<1>4. CASE UNCHANGED <<closer, starting, clients>>
  BY <1>1, <1>2, <1>3, <1>4, SameOwners DEF Starting
<1>5. ASSUME NEW c \in Engine, Notice(c) PROVE ProcessInv'
  <2>1. c \notin Living /\ clients' = clients \ {c} /\ UNCHANGED <<closer, starting>>
    BY <1>5 DEF Notice, Living
  <2>2. \A d \in Living' : d \in Tracked' \/ \E q \in Room : Starting(q)' /\ op'[q].on = d
    BY <1>1, <1>2, <2>1 DEF ProcessInv, Tracked, Starting
  <2>3. QED
    BY <1>1, <1>3, <2>1, <2>2, NoMoreProcesses DEF ProcessInv, closed
<1>6. CASE BeginClose
  <2>1. closer' = [at |-> "waiting", clients |-> clients] /\ clients' = {} /\ closer.clients = {}
    BY <1>6 DEF BeginClose, closed, ProcessInv
  <2>2. \A d \in Living' : d \in Tracked' \/ \E q \in Room : Starting(q)' /\ op'[q].on = d
    BY <1>1, <1>2, <2>1 DEF ProcessInv, Tracked, Starting
  <2>3. QED
    BY <1>1, <1>3, <2>1, <2>2, NoMoreProcesses DEF ProcessInv, closed
<1>7. CASE CloseClients
  <2>1. /\ closer'.at = "closing" /\ closer'.clients = closer.clients /\ starting' = NoRoom
        /\ closer.at = "waiting" /\ clients' = clients
    BY <1>0, <1>7 DEF CloseClients, registry
  <2>2. \A d \in Living' : d \in Tracked' \/ \E q \in Room : Starting(q)' /\ op'[q].on = d
    BY <1>1, <1>2, <2>1 DEF ProcessInv, Tracked, Starting
  <2>3. QED
    BY <1>1, <1>3, <2>1, <2>2, NoMoreProcesses DEF ProcessInv, closed
<1>8. CASE CloseReturns
  <2>1. /\ closer' = [at |-> "done", clients |-> {}] /\ closer.at = "closing"
        /\ clients' = clients /\ starting' = starting
        /\ \A d \in closer.clients : d \notin Living
    BY <1>8 DEF CloseReturns, registry, Living
  <2>2. \A d \in Living' : d \in Tracked' \/ \E q \in Room : Starting(q)' /\ op'[q].on = d
    BY <1>1, <1>2, <2>1 DEF ProcessInv, Tracked, Starting
  <2>3. QED
    BY <1>1, <1>3, <2>1, <2>2, NoMoreProcesses DEF ProcessInv, closed
<1>9. QED
  BY <1>4, <1>5, <1>6, <1>7, <1>8
     DEF ColdStart, Crash, Reap, Watch, Terminate, CooldownEnds, ShutDown, registry

\* What a room's step does to its own slot, phase, game and operation decides:
\* everybody else's stay as they are.
SlotKept(r) ==
  /\ op[r].at \notin {"idle", "close"} => phase[r] = "playing"
  /\ op[r].at = "close" => (op[r].then = "idle" <=> phase[r] # "playing")
  /\ game[r] # NoEngine => phase[r] = "playing" /\ op[r].at \in {"idle", "publish"}
  /\ op[r].at \in {"launch", "unlaunch", "start", "register", "publish"} => reserved[r] = NoEngine
  /\ reserved[r] # NoEngine => phase[r] = "between" \/ (phase[r] = "playing" /\ op[r].at # "idle")

LEMMA OneRoomsSlot ==
  ASSUME SlotInv, NEW r \in Room, SlotKept(r)',
         \A q \in Room \ {r} : /\ op'[q] = op[q] /\ phase'[q] = phase[q]
                               /\ reserved'[q] = reserved[q] /\ game'[q] = game[q]
  PROVE  SlotInv'
BY DEF SlotInv, SlotKept

LEMMA ProceedKeepsSlots ==
  ASSUME CapacityInv, TypeOK', NEW r \in Room, Proceed(r)
  PROVE  SlotInv'
<1> USE DEF CapacityInv, WatchInv
<1>0. /\ op \in [Room -> Operations] /\ reserved \in [Room -> Engine \cup {NoEngine}]
      /\ game \in [Room -> Engine \cup {NoEngine}]
      /\ phase \in [Room -> {"waiting", "playing", "between"}]
  BY DEF TypeOK
<1>1. SlotKept(r) /\ op[r] \in Operations
  BY <1>0 DEF SlotInv, SlotKept
<1>2. \A q \in Room \ {r} : /\ op'[q] = op[q] /\ phase'[q] = phase[q]
                            /\ reserved'[q] = reserved[q] /\ game'[q] = game[q]
  BY <1>0 DEF Proceed, Refuse, Admit, Launched, LaunchFails, Unlaunched, StartGame, RegisterGame,
              Publish, CloseEngine, StartFailed, Goto, CloseGame, registry
<1>3. CASE Refuse(r) \/ Admit(r) \/ Launched(r) \/ LaunchFails(r) \/ Unlaunched(r) \/ StartGame(r)
  <2>1. /\ phase'[r] = phase[r] /\ game'[r] = game[r]
        /\ op[r].at \in {"admit", "launch", "unlaunch", "start"}
        /\ reserved'[r] \in {reserved[r], NoEngine}
    BY <1>0, <1>3 DEF Refuse, Admit, Launched, LaunchFails, Unlaunched, StartGame, registry
  <2>2. /\ op'[r].at \in {"launch", "unlaunch", "start", "register", "close", "failed"}
        /\ op'[r].at = "close" => op'[r].then = "failed"
        /\ op'[r].at \in {"launch", "unlaunch", "start", "register"} => reserved'[r] = NoEngine
    BY <1>0, <1>1, <1>3 DEF SlotKept, Refuse, Admit, Launched, LaunchFails, Unlaunched, StartGame,
                            Goto, registry
  <2>3. SlotKept(r)'
    BY <1>1, <2>1, <2>2 DEF SlotKept
  <2>4. QED
    BY <1>2, <2>3, OneRoomsSlot
<1>4. CASE RegisterGame(r)
  <2>1. /\ phase'[r] = phase[r] /\ reserved'[r] = reserved[r] /\ op[r].at = "register"
        /\ \/ op'[r].at = "publish"
           \/ op'[r].at = "close" /\ op'[r].then = "failed" /\ game'[r] = game[r]
    BY <1>0, <1>4 DEF RegisterGame, Goto
  <2>2. SlotKept(r)'
    BY <1>1, <2>1 DEF SlotKept
  <2>3. QED
    BY <1>2, <2>2, OneRoomsSlot
<1>5. CASE Publish(r)
  <2>1. /\ phase'[r] = phase[r] /\ op[r].at = "publish" /\ reserved'[r] = NoEngine
        /\ \/ op'[r].at = "idle" /\ game'[r] = game[r]
           \/ op'[r].at \in {"close", "failed"} /\ op'[r].then = "failed" /\ game'[r] = NoEngine
    BY <1>0, <1>1, <1>5 DEF Publish, CloseGame, Goto, Idle, SlotKept
  <2>2. SlotKept(r)'
    BY <1>1, <2>1 DEF SlotKept
  <2>3. QED
    BY <1>2, <2>2, OneRoomsSlot
<1>6. CASE CloseEngine(r)
  <2>1. /\ phase'[r] = phase[r] /\ reserved'[r] = reserved[r] /\ game'[r] = game[r]
        /\ op[r].at = "close" /\ op[r].then \in {"idle", "admit", "failed"}
        /\ op'[r] = op[r] \/ op'[r].at = op[r].then
    BY <1>0, <1>1, <1>6 DEF CloseEngine, Idle, Operations, registry
  <2>2. SlotKept(r)'
    BY <1>0, <1>1, <2>1 DEF SlotKept
  <2>3. QED
    BY <1>2, <2>2, OneRoomsSlot
<1>7. CASE StartFailed(r)
  <2>1. /\ phase'[r] = "waiting" /\ reserved'[r] = NoEngine /\ game'[r] = game[r]
        /\ op'[r].at = "idle" /\ op[r].at = "failed"
    BY <1>0, <1>7 DEF StartFailed, Idle
  <2>2. SlotKept(r)'
    BY <1>1, <2>1 DEF SlotKept
  <2>3. QED
    BY <1>2, <2>2, OneRoomsSlot
<1>8. QED
  BY <1>3, <1>4, <1>5, <1>6, <1>7 DEF Proceed

LEMMA RequestKeepsSlots ==
  ASSUME CapacityInv, TypeOK', NEW r \in Room, Request(r)
  PROVE  SlotInv'
<1> USE DEF CapacityInv, WatchInv
<1>0. /\ op \in [Room -> Operations] /\ reserved \in [Room -> Engine \cup {NoEngine}]
      /\ game \in [Room -> Engine \cup {NoEngine}]
      /\ phase \in [Room -> {"waiting", "playing", "between"}]
  BY DEF TypeOK
<1>1. SlotKept(r) /\ op[r] = Idle /\ op[r].at = "idle"
  <2>1. op[r] = Idle
    BY DEF Request, BeginGame, Restart, Abandon, FailGame, FinishGame
  <2>2. SlotKept(r)
    BY DEF SlotInv, SlotKept
  <2>3. QED
    BY <2>1, <2>2 DEF Idle
<1>2. \A q \in Room \ {r} : /\ op'[q] = op[q] /\ phase'[q] = phase[q]
                            /\ reserved'[q] = reserved[q] /\ game'[q] = game[q]
  BY <1>0 DEF Request, BeginGame, Restart, Abandon, FailGame, FinishGame, Goto, CloseGame, registry
<1>3. CASE BeginGame(r)
  <2>1. /\ phase'[r] = "playing" /\ reserved'[r] = reserved[r] /\ game'[r] = game[r]
        /\ op'[r].at = "admit" /\ phase[r] # "playing"
    BY <1>0, <1>3 DEF BeginGame, Goto, registry
  <2>2. SlotKept(r)'
    BY <1>1, <2>1 DEF SlotKept
  <2>3. QED
    BY <1>2, <2>2, OneRoomsSlot
<1>4. CASE Restart(r)
  <2>1. /\ phase'[r] = "playing" /\ game'[r] = NoEngine
        /\ op'[r].at \in {"close", "admit"} /\ op'[r].then = "admit"
    BY <1>0, <1>4 DEF Restart, CloseGame, Goto
  <2>2. SlotKept(r)'
    BY <2>1 DEF SlotKept
  <2>3. QED
    BY <1>2, <2>2, OneRoomsSlot
<1>5. CASE Abandon(r)
  <2>1. /\ phase'[r] = "waiting" /\ game'[r] = NoEngine /\ reserved'[r] = NoEngine
        /\ op'[r].at \in {"close", "idle"} /\ op'[r].then = "idle"
    BY <1>0, <1>5 DEF Abandon, CloseGame, Goto
  <2>2. SlotKept(r)'
    BY <2>1 DEF SlotKept
  <2>3. QED
    BY <1>2, <2>2, OneRoomsSlot
<1>6. CASE FailGame(r)
  <2>1. /\ phase'[r] = "waiting" /\ game'[r] = NoEngine /\ reserved'[r] = reserved[r]
        /\ op'[r] = op[r] /\ game[r] # NoEngine
    BY <1>0, <1>6 DEF FailGame
  <2>2. SlotKept(r)'
    BY <1>1, <2>1 DEF SlotKept
  <2>3. QED
    BY <1>2, <2>2, OneRoomsSlot
<1>7. ASSUME NEW keepSlot \in BOOLEAN, FinishGame(r, keepSlot) PROVE SlotInv'
  <2>1. /\ phase[r] = "playing" /\ phase'[r] = (IF keepSlot THEN "between" ELSE "waiting")
        /\ \/ /\ op'[r].at = "close" /\ op'[r].then = "idle" /\ game'[r] = NoEngine
              /\ keepSlot \/ reserved'[r] = reserved[r]
           \/ op'[r] = op[r] /\ game'[r] = game[r] /\ game[r] = NoEngine /\ reserved'[r] = reserved[r]
    BY <1>0, <1>7 DEF FinishGame, Goto
  <2>2. SlotKept(r)'
    BY <1>1, <2>1 DEF SlotKept
  <2>3. QED
    BY <1>2, <2>2, OneRoomsSlot
<1>8. QED
  BY <1>3, <1>4, <1>5, <1>6, <1>7 DEF Request

LEMMA EnvironmentKeepsSlots ==
  ASSUME CapacityInv, TypeOK',
         \/ \E c \in Engine : ColdStart(c) \/ Crash(c) \/ Reap(c) \/ Watch(c)
         \/ CooldownEnds \/ BeginClose \/ ShutDown
  PROVE  SlotInv'
<1> USE DEF CapacityInv, WatchInv
<1>0. /\ game \in [Room -> Engine \cup {NoEngine}]
      /\ phase \in [Room -> {"waiting", "playing", "between"}]
  BY DEF TypeOK
<1>1. CASE UNCHANGED <<op, phase, game, reserved>>
  BY <1>1 DEF SlotInv
<1>2. ASSUME NEW c \in Engine, NEW r \in Room, Terminate(c, r) PROVE SlotInv'
  <2>1. /\ SlotKept(r) /\ op[r].at = "idle"
        /\ op'[r] = op[r] /\ reserved'[r] = reserved[r]
        /\ \/ game'[r] = game[r] /\ phase'[r] = phase[r]
           \/ game'[r] = NoEngine /\ phase'[r] = "waiting" /\ game[r] # NoEngine
    BY <1>0, <1>2, EngineAssumption DEF Terminate, SlotInv, SlotKept, Idle
  <2>2. \A q \in Room \ {r} : /\ op'[q] = op[q] /\ phase'[q] = phase[q]
                              /\ reserved'[q] = reserved[q] /\ game'[q] = game[q]
    BY <1>0, <1>2 DEF Terminate
  <2>3. SlotKept(r)'
    BY <2>1 DEF SlotKept
  <2>4. QED
    BY <2>2, <2>3, OneRoomsSlot
<1>3. CASE BeginClose
  BY <1>3 DEF BeginClose, SlotInv
<1>4. QED
  BY <1>1, <1>2, <1>3
     DEF ColdStart, Crash, Reap, Watch, Notice, CooldownEnds, ShutDown, CloseClients, CloseReturns,
         registry

\* However rooms start, restart, sideboard, abandon and lose their games and
\* whenever the server closes: there are at most MaxGames engine processes,
\* none when Close has returned, and no slot is kept for a match that is over.
THEOREM CapacityIsHeld == Spec => []CapacityHeld
<1>1. Init => CapacityInv
  <2>1. SUFFICES ASSUME Init PROVE CapacityInv
    OBVIOUS
  <2>2. \A c \in Engine : proc[c] = "gone"
    BY <2>1 DEF Init
  <2>3. \A r \in Room : reserved[r] = NoEngine /\ game[r] = NoEngine /\ op[r].at = "idle"
    BY <2>1 DEF Init, Idle
  <2>4. Living = {} /\ Slots = {}
    BY <2>2, <2>3 DEF Living, Alive, Slots
  <2>5. clients = {} /\ closer.at = "open" /\ closer.clients = {}
    BY <2>1 DEF Init, Open
  <2>6. ProcessInv
    BY <2>4, <2>5, FS_EmptySet, CapacityAssumption DEF ProcessInv, closed
  <2>7. SlotInv
    BY <2>3 DEF SlotInv
  <2>8. QED
    BY <2>1, <2>6, <2>7, WatchInit DEF CapacityInv
<1>2. CapacityInv /\ [Next]_vars => CapacityInv'
  <2>1. SUFFICES ASSUME CapacityInv, [Next]_vars PROVE CapacityInv'
    OBVIOUS
  <2>2. WatchInv' /\ TypeOK'
    BY <2>1, NextKeepsWatch DEF CapacityInv, WatchInv
  <2>3. CASE Next
    <3>1. ProcessInv'
      BY <2>1, <2>2, <2>3, ProceedKeepsProcesses, RequestKeepsProcesses,
         EnvironmentKeepsProcesses DEF Next
    <3>2. SlotInv'
      BY <2>1, <2>2, <2>3, ProceedKeepsSlots, RequestKeepsSlots, EnvironmentKeepsSlots DEF Next
    <3>3. QED
      BY <2>2, <3>1, <3>2 DEF CapacityInv
  <2>4. CASE UNCHANGED vars
    <3>1. UNCHANGED <<Living, Slots, Tracked, closer, starting, clients, op>>
      BY <2>4 DEF vars, Living, Alive, Slots, Tracked
    <3>2. ProcessInv'
      BY <2>1, <3>1 DEF CapacityInv, ProcessInv, Starting, closed
    <3>3. SlotInv'
      BY <2>1, <2>4 DEF CapacityInv, SlotInv, vars
    <3>4. QED
      BY <2>2, <3>2, <3>3 DEF CapacityInv
  <2>5. QED
    BY <2>1, <2>3, <2>4
<1>3. CapacityInv => CapacityHeld
  <2>1. SUFFICES ASSUME CapacityInv PROVE CapacityHeld
    OBVIOUS
  <2>2. ASSUME closer.at = "done" PROVE Living = {}
    <3>1. starting = NoRoom /\ clients = {} /\ closer.clients = {}
      BY <2>1, <2>2 DEF CapacityInv, ProcessInv, closed
    <3>2. \A r \in Room : ~Starting(r)
      BY <2>1, <3>1, AtMostOneStarts, EngineAssumption DEF CapacityInv, WatchInv
    <3>3. QED
      BY <2>1, <3>1, <3>2 DEF CapacityInv, ProcessInv, Tracked
  <2>3. Cardinality(Living) <= IF closer.at = "done" THEN 0 ELSE MaxGames
    BY <2>1, <2>2, FS_EmptySet DEF CapacityInv, ProcessInv
  <2>4. \A r \in Room : op[r].at # "idle" => op[r] # Idle
    BY DEF Idle
  <2>5. QED
    BY <2>1, <2>3, <2>4 DEF CapacityHeld, CapacityInv, SlotInv
<1>4. QED
  BY <1>1, <1>2, <1>3, PTL DEF Spec

=============================================================================
