---------------------------- MODULE ForgeRuntime ----------------------------
(***************************************************************************)
(* The engine processes of a server: admission up to MaxGames, the slot a  *)
(* match keeps between two of its games, the single-flight cold start, the *)
(* watcher of every process and the shutdown.  One process (a JVM) plays   *)
(* one game, the default (ForgeGamesPerJVM = 1), so the game of a room is  *)
(* named by its process.                                                   *)
(*                                                                         *)
(* A room's operations run one at a time under its opMu: op[r] is the one  *)
(* that holds it.  Every step between two states is one critical section   *)
(* of forgeRuntimeLifecycle.mu or one call on a process; between them      *)
(* other rooms, watchers, dying processes and Close run.                   *)
(***************************************************************************)
EXTENDS Integers, FiniteSets

CONSTANTS Room, Engine,  \* an engine id is used again once all forgot it
          NoEngine, NoRoom,
          MaxGames       \* -max-forge-games

ASSUME EngineAssumption == NoEngine \notin Engine /\ NoRoom \notin Room
ASSUME CapacityAssumption == MaxGames \in Nat \ {0}

VARIABLES
  proc,      \* Engine -> "cold", "up", "ending" (killed or told to quit) or "gone" (reaped)
  clients,   \* tracked engines
  reserved,  \* Room -> engine whose slot the room's match keeps
  game,      \* Room -> engine of the registered game (Handler.forgeGames)
  starting,  \* room whose cold start is under way
  cooldown,  \* retryAfter lies ahead
  watch,     \* Engine -> what its watcher does
  phase,     \* Room -> its match: "between" two games, or "waiting" (none, or over)
  op,        \* Room -> the operation under opMu
  closer     \* Handler.Close

vars == <<proc, clients, reserved, game, starting, cooldown, watch, phase, op, closer>>
registry == <<clients, reserved, game, starting, cooldown>>

Idle == [at |-> "idle", on |-> NoEngine, then |-> "idle"]
Asleep == [at |-> "none", rooms |-> {}]
Open == [at |-> "open", clients |-> {}]

Alive(c) == proc[c] # "gone"
Living == {c \in Engine : Alive(c)}
Healthy(c) == proc[c] = "up"
closed == closer.at # "open"

Goto(r, step, c, next) == op' = [op EXCEPT ![r] = [at |-> step, on |-> c, then |-> next]]

\* Nobody holds the handle of c any more: the id can stand for a new process.
Forgotten(c) ==
  /\ ~Alive(c) /\ watch[c] = Asleep /\ c \notin closer.clients
  /\ \A r \in Room : c \notin {reserved[r], game[r], op[r].on}

\* Forgotten ids differ in nothing: which one is taken does not matter.
NewEngine == CHOOSE c \in Engine : Forgotten(c)

(***************************************************************************)
(* Admission (forgeRuntimeLifecycle.start)                                 *)
(***************************************************************************)
ReservedEngines == {reserved[r] : r \in Room} \ {NoEngine}

\* Mutant of Occupied: an engine that was killed no longer counts.
OccupiedByHealthy ==
  Cardinality({r \in Room : reserved[r] # NoEngine})
  + Cardinality({c \in clients \ ReservedEngines : Healthy(c)})
  + (IF starting # NoRoom THEN 1 ELSE 0)

\* Every live, cold or reserved lease counts once.
Occupied ==
  Cardinality({r \in Room : reserved[r] # NoEngine})
  + Cardinality({c \in clients \ ReservedEngines : Alive(c)})
  + (IF starting # NoRoom THEN 1 ELSE 0)

\* Slots other rooms occupy, and whether the previous engine of r was reaped.
OthersOccupy(r) == Occupied - (IF reserved[r] # NoEngine THEN 1 ELSE 0)
PreviousGone(r) == reserved[r] \notin Living

\* A refusal: closed, cooling down, at capacity, or out of time while waiting
\* for the previous engine or for another cold start.
Refuse(r) ==
  /\ op[r].at = "admit"
  /\ \/ closed \/ cooldown
     \/ ~PreviousGone(r)
     \/ OthersOccupy(r) >= MaxGames \/ starting # NoRoom
  /\ Goto(r, "failed", NoEngine, "idle")
  /\ UNCHANGED <<proc, registry, watch, phase, closer>>

Admit(r) ==
  /\ op[r].at = "admit"
  /\ ~closed /\ ~cooldown
  /\ PreviousGone(r) /\ OthersOccupy(r) < MaxGames /\ starting = NoRoom
  /\ reserved' = [reserved EXCEPT ![r] = NoEngine]
  /\ starting' = r
  /\ \E c \in Engine : Forgotten(c)
  /\ proc' = [proc EXCEPT ![NewEngine] = "cold"]
  /\ Goto(r, "launch", NewEngine, "idle")
  /\ UNCHANGED <<clients, game, cooldown, watch, phase, closer>>

\* The end of forge.Start: the child answers, or it failed, ran out of time or
\* was cancelled, and Start has reaped it.
ColdStart(c) ==
  /\ proc[c] = "cold"
  /\ \E end \in {"up", "gone"} : proc' = [proc EXCEPT ![c] = end]
  /\ UNCHANGED <<registry, watch, phase, op, closer>>

Launched(r) ==
  LET c == op[r].on IN
  /\ op[r].at = "launch" /\ Healthy(c) /\ ~closed
  /\ clients' = clients \cup {c}
  /\ watch' = [watch EXCEPT ![c] = [at |-> "waiting", rooms |-> {}]]
  /\ starting' = NoRoom
  /\ Goto(r, "start", c, "idle")
  /\ UNCHANGED <<proc, reserved, game, cooldown, phase, closer>>

\* The single-flight barrier stays up while the child is closed.
LaunchFails(r) ==
  LET c == op[r].on IN
  /\ op[r].at = "launch" /\ proc[c] # "cold" /\ (Healthy(c) => closed)
  /\ cooldown' = TRUE
  /\ proc' = [proc EXCEPT ![c] = IF @ = "up" THEN "ending" ELSE @]
  /\ Goto(r, "unlaunch", c, "idle")
  /\ UNCHANGED <<clients, reserved, game, starting, watch, phase, closer>>

\* Mutant of Unlaunched: the barrier of the failed start is never lifted.
UnlaunchedBarred(r) ==
  /\ op[r].at = "unlaunch" /\ ~Alive(op[r].on)
  /\ Goto(r, "failed", NoEngine, "idle")
  /\ UNCHANGED <<proc, registry, watch, phase, closer>>

Unlaunched(r) ==
  /\ op[r].at = "unlaunch" /\ ~Alive(op[r].on)
  /\ starting' = NoRoom
  /\ Goto(r, "failed", NoEngine, "idle")
  /\ UNCHANGED <<proc, clients, reserved, game, cooldown, watch, phase, closer>>

CooldownEnds ==
  /\ cooldown /\ cooldown' = FALSE
  /\ UNCHANGED <<proc, clients, reserved, game, starting, watch, phase, op, closer>>

(***************************************************************************)
(* The game of a room (startForgeGame)                                     *)
(***************************************************************************)
\* The room is ready: a first game, or the next one after sideboarding.
BeginGame(r) ==
  /\ op[r] = Idle /\ phase[r] \in {"waiting", "between"}
  /\ phase' = [phase EXCEPT ![r] = "playing"]
  /\ Goto(r, "admit", NoEngine, "idle")
  /\ UNCHANGED <<proc, registry, watch, closer>>

\* client.StartGame; a failure closes the engine.
StartGame(r) ==
  LET c == op[r].on IN
  /\ op[r].at = "start"
  /\ \/ Healthy(c) /\ Goto(r, "register", c, "idle")
     \/ Goto(r, "close", c, "failed")
  /\ UNCHANGED <<proc, registry, watch, phase, closer>>

\* Mutant of AcceptsGame: only the shutdown is looked at.
AcceptsWhileOpen(c) == ~closed

AcceptsGame(c) == ~closed /\ c \in clients /\ Healthy(c)

RegisterGame(r) ==
  LET c == op[r].on IN
  /\ op[r].at = "register"
  /\ IF AcceptsGame(c) /\ game[r] = NoEngine
     THEN game' = [game EXCEPT ![r] = c] /\ Goto(r, "publish", NoEngine, "idle")
     ELSE UNCHANGED game /\ Goto(r, "close", c, "failed")
  /\ UNCHANGED <<proc, clients, reserved, starting, cooldown, watch, phase, closer>>

\* closeForgeGame: the registered game ends; its slot is kept or released.
CloseGame(r, keepSlot, next) ==
  LET c == game[r] IN
  /\ game' = [game EXCEPT ![r] = NoEngine]
  /\ reserved' = [reserved EXCEPT ![r] = IF ~keepSlot THEN NoEngine
                                         ELSE IF c # NoEngine THEN c ELSE @]
  /\ Goto(r, IF c # NoEngine THEN "close" ELSE next, c, next)

\* The first prompt and projection: published, or the game is aborted.
Publish(r) ==
  /\ op[r].at = "publish"
  /\ \/ /\ op' = [op EXCEPT ![r] = Idle]
        /\ UNCHANGED <<game, reserved>>
     \/ CloseGame(r, FALSE, "failed")
  /\ UNCHANGED <<proc, clients, starting, cooldown, watch, phase, closer>>

\* Mutant of CloseEngine: the engine is told to quit by nobody.
CloseForgotten(r) ==
  /\ op[r].at = "close"
  /\ op' = [op EXCEPT ![r] = [Idle EXCEPT !.at = op[r].then]]
  /\ UNCHANGED <<proc, registry, watch, phase, closer>>

\* client.Close, after the game was ended or aborted: the process is told to
\* quit (or killed), and Close returns when it was reaped.
CloseEngine(r) ==
  LET c == op[r].on IN
  /\ op[r].at = "close"
  /\ \/ /\ Healthy(c)
        /\ proc' = [proc EXCEPT ![c] = "ending"]
        /\ UNCHANGED op
     \/ /\ ~Alive(c)
        /\ op' = [op EXCEPT ![r] = [Idle EXCEPT !.at = op[r].then]]
        /\ UNCHANGED proc
  /\ UNCHANGED <<registry, watch, phase, closer>>

\* The slot is released and the room waits again.
StartFailed(r) ==
  /\ op[r].at = "failed"
  /\ reserved' = [reserved EXCEPT ![r] = NoEngine]
  /\ phase' = [phase EXCEPT ![r] = "waiting"]
  /\ op' = [op EXCEPT ![r] = Idle]
  /\ UNCHANGED <<proc, clients, game, starting, cooldown, watch, closer>>

(***************************************************************************)
(* The end of a game                                                       *)
(***************************************************************************)
\* finishForgeGame, for a game found over, conceded or lost on time: the match
\* goes on after sideboarding, or it is over.
FinishGame(r, keepSlot) ==
  LET c == game[r] IN
  /\ op[r] = Idle /\ phase[r] = "playing"
  /\ phase' = [phase EXCEPT ![r] = IF keepSlot THEN "between" ELSE "waiting"]
  /\ IF c # NoEngine
     THEN /\ game' = [game EXCEPT ![r] = NoEngine]
          /\ reserved' = [reserved EXCEPT ![r] = IF keepSlot THEN c ELSE @]
          /\ Goto(r, "close", c, "idle")
     ELSE UNCHANGED <<op, game, reserved>>
  /\ UNCHANGED <<proc, clients, starting, cooldown, watch, closer>>

\* The host restarts the game: its slot is kept across both processes.
Restart(r) ==
  /\ op[r] = Idle /\ phase[r] = "playing"
  /\ CloseGame(r, TRUE, "admit")
  /\ UNCHANGED <<proc, clients, starting, cooldown, watch, phase, closer>>

\* A player leaves, is kicked or expires, or the room is removed.
Abandon(r) ==
  /\ op[r] = Idle /\ phase[r] \in {"playing", "between"}
  /\ phase' = [phase EXCEPT ![r] = "waiting"]
  /\ CloseGame(r, FALSE, "idle")
  /\ UNCHANGED <<proc, clients, starting, cooldown, watch, closer>>

\* failForgeGame: a projection that cannot be trusted kills the engine.
FailGame(r) ==
  LET c == game[r] IN
  /\ op[r] = Idle /\ c # NoEngine
  /\ proc' = [proc EXCEPT ![c] = IF @ = "up" THEN "ending" ELSE @]
  /\ game' = [game EXCEPT ![r] = NoEngine]
  /\ phase' = [phase EXCEPT ![r] = "waiting"]
  /\ UNCHANGED <<clients, reserved, starting, cooldown, watch, op, closer>>

(***************************************************************************)
(* Processes and their watchers                                            *)
(***************************************************************************)
Crash(c) ==
  /\ proc[c] = "up"
  /\ proc' = [proc EXCEPT ![c] = "gone"]
  /\ UNCHANGED <<registry, watch, phase, op, closer>>

Reap(c) ==
  /\ proc[c] = "ending"
  /\ proc' = [proc EXCEPT ![c] = "gone"]
  /\ UNCHANGED <<registry, watch, phase, op, closer>>

\* watchForgeRuntime: forget the engine, collect the games it played.
Notice(c) ==
  /\ watch[c].at = "waiting" /\ ~Alive(c)
  /\ clients' = clients \ {c}
  /\ LET affected == {r \in Room : game[r] = c} IN
     watch' = [watch EXCEPT ![c] = IF closed \/ affected = {} THEN Asleep
                                   ELSE [at |-> "ending", rooms |-> affected]]
  /\ UNCHANGED <<proc, reserved, game, starting, cooldown, phase, op, closer>>

\* Under the room's opMu the watcher looks again: an old watcher must not
\* reset a new match.
Terminate(c, r) ==
  /\ r \in watch[c].rooms /\ op[r] = Idle
  /\ LET rest == watch[c].rooms \ {r} IN
     watch' = [watch EXCEPT ![c] = IF rest = {} THEN Asleep ELSE [@ EXCEPT !.rooms = rest]]
  /\ IF game[r] = c /\ ~closed
     THEN /\ game' = [game EXCEPT ![r] = NoEngine]
          /\ phase' = [phase EXCEPT ![r] = "waiting"]
     ELSE UNCHANGED <<game, phase>>
  /\ UNCHANGED <<proc, clients, reserved, starting, cooldown, op, closer>>

(***************************************************************************)
(* Shutdown (Handler.Close)                                                *)
(***************************************************************************)
BeginClose ==
  /\ ~closed
  /\ closer' = [at |-> "waiting", clients |-> clients]
  /\ clients' = {}
  /\ reserved' = [r \in Room |-> NoEngine]
  /\ game' = [r \in Room |-> NoEngine]
  /\ UNCHANGED <<proc, starting, cooldown, watch, phase, op>>

\* After the start that was under way has ended, every client is closed.
CloseClients ==
  /\ closer.at = "waiting" /\ starting = NoRoom
  /\ closer' = [closer EXCEPT !.at = "closing"]
  /\ proc' = [c \in Engine |-> IF c \in closer.clients /\ proc[c] = "up" THEN "ending" ELSE proc[c]]
  /\ UNCHANGED <<registry, watch, phase, op>>

CloseReturns ==
  /\ closer.at = "closing" /\ \A c \in closer.clients : ~Alive(c)
  /\ closer' = [at |-> "done", clients |-> {}]
  /\ UNCHANGED <<proc, registry, watch, phase, op>>

(***************************************************************************)
(* Specification                                                           *)
(***************************************************************************)
Init ==
  /\ proc = [c \in Engine |-> "gone"]
  /\ clients = {}
  /\ reserved = [r \in Room |-> NoEngine]
  /\ game = [r \in Room |-> NoEngine]
  /\ starting = NoRoom
  /\ cooldown = FALSE
  /\ watch = [c \in Engine |-> Asleep]
  /\ phase = [r \in Room |-> "waiting"]
  /\ op = [r \in Room |-> Idle]
  /\ closer = Open

\* What an operation under way does next.
Proceed(r) ==
  \/ Refuse(r) \/ Admit(r) \/ Launched(r) \/ LaunchFails(r) \/ Unlaunched(r)
  \/ StartGame(r) \/ RegisterGame(r) \/ Publish(r) \/ CloseEngine(r) \/ StartFailed(r)

Request(r) ==
  \/ BeginGame(r) \/ Restart(r) \/ Abandon(r) \/ FailGame(r)
  \/ \E keepSlot \in BOOLEAN : FinishGame(r, keepSlot)

Watch(c) == Notice(c) \/ \E r \in Room : Terminate(c, r)
ShutDown == CloseClients \/ CloseReturns

Next ==
  \/ \E r \in Room : Proceed(r) \/ Request(r)
  \/ \E c \in Engine : ColdStart(c) \/ Crash(c) \/ Reap(c) \/ Watch(c)
  \/ CooldownEnds \/ BeginClose \/ ShutDown

\* Goroutines run; a cold start ends within its timeout, a killed process dies.
Fairness ==
  /\ \A r \in Room : WF_vars(Proceed(r))
  /\ \A c \in Engine : WF_vars(ColdStart(c)) /\ WF_vars(Reap(c)) /\ WF_vars(Watch(c))
  /\ WF_vars(ShutDown)

Spec == Init /\ [][Next]_vars /\ Fairness

(***************************************************************************)
(* Properties                                                              *)
(***************************************************************************)
Step == {"idle", "admit", "launch", "unlaunch", "start", "register", "publish",
         "close", "failed"}

Operations ==
  [at : Step, on : Engine \cup {NoEngine}, then : {"idle", "admit", "failed"}]

\* The operation o of room r has an engine in its hands exactly at the steps
\* that use one, and owns the barrier s exactly during its cold start.
InOrder(r, o, s) ==
  /\ o.on # NoEngine <=> o.at \in {"launch", "unlaunch", "start", "register", "close"}
  /\ s = r <=> o.at \in {"launch", "unlaunch"}

\* The state has its types, an operation has an engine in its hands exactly
\* at the steps that use one, and the single-flight barrier belongs to the
\* room whose cold start is under way (forgeRuntimeLifecycle, startForgeGame).
TypeOK ==
  /\ proc \in [Engine -> {"cold", "up", "ending", "gone"}]
  /\ clients \subseteq Engine
  /\ reserved \in [Room -> Engine \cup {NoEngine}]
  /\ game \in [Room -> Engine \cup {NoEngine}]
  /\ starting \in Room \cup {NoRoom}
  /\ cooldown \in BOOLEAN
  /\ watch \in [Engine -> [at : {"none", "waiting", "ending"}, rooms : SUBSET Room]]
  /\ phase \in [Room -> {"waiting", "playing", "between"}]
  /\ op \in [Room -> Operations]
  /\ closer \in [at : {"open", "waiting", "closing", "done"}, clients : SUBSET Engine]
  /\ \A r \in Room : InOrder(r, op[r], starting)

\* At most MaxGames engine processes exist, those that start, quit or are
\* killed included, and none when Handler.Close has returned; and a slot is
\* held back only for a match that goes on: never for a room that waits, was
\* abandoned or whose match is over (start, occupiedLocked, closeForgeGame).
CapacityHeld ==
  /\ Cardinality(Living) <= IF closer.at = "done" THEN 0 ELSE MaxGames
  /\ \A r \in Room : reserved[r] # NoEngine =>
       phase[r] = "between" \/ (phase[r] = "playing" /\ op[r] # Idle)

\* A registered game always has somebody who will notice that its engine is
\* gone: the watcher still waits for the process, or has the room on its list.
\* Without this a game whose engine died while it was being registered would
\* stay for ever (acceptsGameLocked, watchForgeRuntime).
GamesAreWatched ==
  \A r \in Room : game[r] # NoEngine =>
    \/ watch[game[r]].at = "waiting"
    \/ r \in watch[game[r]].rooms

\* No process is left behind: an engine that no room plays on is reaped, or
\* becomes a room's engine, whatever failed, crashed, was abandoned or shut
\* down on the way (startForgeGame, abortUntrackedForgeGame, finishForgeGame).
EnginesAreOwned ==
  \A c \in Engine :
    LET Owned == ~Alive(c) \/ \E r \in Room : game[r] = c
    IN  ~Owned ~> Owned
=============================================================================
