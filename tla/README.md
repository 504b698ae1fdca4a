# Hexproof: specifications, model checking and proofs

Hexproof is a Magic: The Gathering table server (Go, `src/apps/server`) with a
Qt desktop client (`src/apps/client-qt`) and a Java rules engine, Forge
(`src/third_party/forge-runtime`). The server owns all shared state: sessions,
rooms, matches, tournaments, drafts, and the engine processes that play games
for it. These modules specify the server's stateful parts in TLA+; TLC checks
them on small instances and TLAPS proves the central theorems for all sizes.

`PROJECT.json` lists the components, the runs with their properties, for every
property a mutation of the modelled code that breaks it, the source lines behind
every definition, the hazards and the theorems. Paths below are relative to
`src/apps/server/internal/`.

## 1. Inventory

### The parts, their state and their operations

| Component | State it keeps | Operations | What makes it correct |
|---|---|---|---|
| **Hub, sessions and holds** `server/hub.go`, `handler_session.go`, `account_resume.go`, `handler_account.go`, `handler_room.go`; `room/room_membership.go` | registry of rooms with one `opMu` each; sessions with `roomRef`, account and token; `resumeHolds` and their timers; `accountConnections` and account locks | hello, login, logout, create, join, watch, leave, kick, disband, drop, resume, reclaim, expire | every membership has a live owner; one use per token; one seat per account; a seat survives a drop; a hold ends; no deadlock |
| **Room lifecycle** `room/room_setup.go`, `room_game_flow.go`, `room_sideboard.go`, `room_rules.go`; `server/handler_sideboard.go`, `forge_match.go`, `forge_supervision.go` | phase, seats with registered and active deck, ready and loaded flags, load generation, score, game with result and sideboarding; the room's engine game; the sideboard timer | select deck, ready, load acknowledgement, turn, concede, draw, result, sideboard, restart, return, departure, engine loss | a game starts fully loaded; score agrees with the games played; decks commit together; no engine leaks; stale timers and watchers do nothing; sideboarding ends |
| **Action clock** `room/room_action_clock.go`, `server/action_clock.go` | per-player budget, running seat, sequence number, one timer token per room | observe, pause, expire | only the player with priority pays; a stale timer never forfeits; one forfeit per match |
| **Manual table** `room/room_game_*.go` | zones, counters, stack, combat marks | some sixty table operations | conservation of cards, hidden information |
| **Zone consent** `server/consent_lifecycle.go`, `handler_public_zone_consent.go`, `handler_private_zones.go` | pending requests keyed by requester and owner | ask, approve, refuse, discard on departure | an approval acts on what was asked for, once |
| **Tournament** `tournament/`, `server/handler_tournament*.go` | participants, rounds, pairings, reports, deadlines | register, start, pair, report, confirm, drop, advance | no pairing twice, results agree with reports, no participant in two tables, rounds end |
| **Limited** `limited/`, `server/handler_limited.go` | packs, pools, picks in flight, deadlines | open, pick, pass, time out, build, submit | cards are conserved, packs circulate, a late pick never takes a second card |
| **Forge runtime** `server/forge_runtime_lifecycle.go`, `forge_lifecycle.go`, `rulesengine/forge/` | shared and dedicated processes, capacity reservations, sessions, prompt ids | reserve, start, attach, answer, close, crash | capacity is never exceeded nor lost, single start, no answer reaches another prompt |
| **Player-hosted engine** `server/player_host*.go`, `player_peer*.go`, `forgehost/` | host runtime, checkpoints, migration state | offer, checkpoint, commit, migrate | one authority at a time, a migration resumes at a commit |
| **PeerLink** `peerlink/` | sequence numbers, windows, acknowledgements, relay fallback | send, acknowledge, retransmit, fall back | in order, exactly once, over loss and duplication |
| **Cluster** `cluster/`, `server/cluster*.go` | nodes, leases, placements, tickets | join, place, redirect, drain | a room lives on one node; a ticket is redeemed once |
| **Home node gateway** `homenode/` | one tunnel per node | dial, forward, retry | byte forwarding |
| **Accounts** `accounts/` | users, credentials, devices | create, login, revoke | one mutex, file replaced atomically |
| **Feedback** `feedback/` | store, outbox, threads | submit, deliver, retry, prune | delivered at least once, never lost by a restart |
| **Replays and retention** `server/retention.go`, `handler_replay.go`, `forge_recording.go` | recordings, retained snapshots | record, retain, expire | retention matches what can be resumed |
| **Data helpers** `forgediag/`, `runtimepkg/`, `rulesinput/`, `protocol/`, `syncutil/` | none | parse, sanitise, pack | pure functions |
| **Qt client** `src/apps/client-qt` | user interface, reconnect controller, load coordinator | any legal command | the server must not depend on it |

### How they interact

Each WebSocket connection has one session goroutine that executes its commands
in order. A command on a room takes the room's `opMu`, runs a *reducer* of
`room.Room` (a pure method that returns events), and fans the events out before
it unlocks. An account session also holds its account's lock for the whole
command. Timers (`time.AfterFunc`: holds, sideboarding, action clock, draft and
round deadlines) and engine watchers (`client.Done()`) are callbacks: they are
scheduled under a lock and run later, after taking it again, so everything they
were scheduled for may have changed. The maps in the handler (`resumeHolds`,
`forgeGames`, `sideboardTimers`, `accountConnections`) have their own small
mutexes. Lock order is account lock, then `opMu`, then a map's mutex; the
expiry of a hold may not run under the account lock of a room it is about to
lock.

### What is hard to test

* a room, a hold or a registry entry read before a lock and used after it;
* a hold taken out of the map, carried by one goroutine, and put back when the
  resume is turned away, around the instant its only timer fires;
* replacement of an account's session by another device while the old one is
  in the middle of a command;
* timers and watchers that get the lock after their room has moved on;
* departures in every phase of a match, the two sides of a sideboarding in
  particular;
* the failure of an engine start after score, decks and load generation have
  already been advanced.

`PROJECT.json` has the full list under `hazards`, each at its line.

## 2. Plan

| Step | Module | Contents |
|---|---|---|
| done | `RoomSession`, `RoomSessionTypes`, `RoomSessionProofs`, `RoomSessionRoles`, `RoomSessionSeats` | sessions, membership, holds, accounts; all safety properties proved |
| done | `SeatLease`, `RoomSessionLease` | the abstract promise to a player, and the mapping under which `RoomSession` implements it; the refinement proved in `RoomSessionSeats` |
| done | `RoomLifecycle`, `RoomLifecycleProofs` | phases, decks, loading, results, sideboarding, engine loss; every safety property that holds is proved |
| done | `Cluster`, `ClusterProofs` | registration, reports, allocation, tickets, coordinator and node restarts, late and lost requests; all safety properties proved |
| done | `Swiss`, `SwissProofs` | registration, pairing against the results so far, reports, tables, losses on time; all safety properties proved |
| done | `ForgeRuntime`, `ForgeRuntimeProofs` | admission, slots, single-flight start, watchers, shutdown; all safety properties proved |
| then | `ActionClock` | budgets, pauses, stale timers; composes with the result part of `RoomLifecycle` |
| then | `LimitedDraft` | packs, passes, timed picks; conservation of cards |
| then | `PeerLink`, `HostMigration` | lossy delivery; one engine authority at a time |
| then | `ZoneConsent`, `FeedbackOutbox` | requests that outlive their state; crash recovery |

Of the modules above, every safety property that holds is proved. The ones that
follow have the same pattern: the component, its runs, its invariants, and then
its proofs.

## 3. RoomSession

### State and actions

| Variable | Code |
|---|---|
| `rooms[r]` | the registry entry and `room.Room`: `status` (not created, registered, removed from the registry with holds still to purge, removed), `kind`, `seats`, `spectators`, `host` |
| `opMu[r]` | the session that keeps the room's operation lock between two steps |
| `pc[c]`, `target[c]`, `want[c]` | where the session goroutine of connection `c` is, the room it read before locking, the token it resumes with |
| `bound[c]` | `Session.roomRef` |
| `acct[c]`, `current[a]`, `accountMu[a]` | `Session.account`, `Handler.accountConnections`, the account's lock |
| `held`, `lease` | `Handler.resumeHolds` |
| `due`, `armed`, `expiring` | holds whose deadline has passed, whose `AfterFunc` has not run, and that were taken out of the map to release their seat |

A resume token is issued to one session, and a session is suspended at most
once, so a token is the connection it was issued to. All that a handler does
under one `opMu` is one action; what it reads before the lock and what it does
to the hold map outside it are steps of their own, because other goroutines
run there. `ClientStep` is what a client may decide; `SessionStep` is what the
goroutine still has to do; `ExpiryStep` and `PurgeHolds` are timer goroutines
and the cleanup after a room is removed. The five kinds of room differ in who
keeps them alive: a table, a practice room with an AI seat, a room whose
engine runs at a player, the fixed group of a Commander Limited event, and a
Cube pod. Refusals without an effect on this state (passwords, rate limits,
phase guards) are the step `Refuse`; steps of a resume that may fail for
reasons outside this state (the account service, a Cube pod, a projection) are
enabled by the constant `Faults`.

Left out: paired joins of tournament tables, the entry into a Cube pod, the
hand-over between cluster nodes, and AI seats added after creation.

### Runs

| Run | Instance | Shows |
|---|---|---|
| `session_guests` | 4 guests, 1 room of each of four kinds, 2 seats, 1 spectator, projection failures; symmetric in connections | ownership of every membership, tokens, host, that a dropped seat survives, and the refinement below |
| `session_accounts` | 3 connections, 1 account, 2 rooms, refused claims and Cube failures | one seat per account, a replaced session gains nothing |
| `session_live` | 3 connections, 1 account, 1 room with an AI seat, resumes a Cube or a projection refuses, with fairness | every hold and every expiry ends, every command ends: nobody waits in a circle for account lock, room lock and expiry |
| `session_timer_race` | 2 connections, 1 account, 1 room, a resume that may be turned away, with fairness | the hold that no timer watches any more (section 10) |

Four connections are the smallest number with a host, a second player, a
spectator and a successor for any of them at once. Two rooms and one account
are the smallest instance in which an account could own two seats, and three
connections allow a replaced session, its replacement and a guest hold to be
adopted. A connection is used once, so a run ends when they are used up:
deadlock checking is off for that reason only.

A handler gives a room's lock back within one step except after a projection
failure: the membership is rolled back, the clock is read and the hold is
restored with `opMu` held, and only then is the room unlocked and a late hold
expired (`server/account_resume.go:85`). `session_live` has this failure in
`Faults`: the goroutine of the failed resume goes on to wait for the expiry of
the hold it restored, under its account's lock, and a third connection that
joins meanwhile finds the room's lock taken. Expiring before the unlock (the
mutant `ExpireUnderLock`) deadlocks there. The room is one with an AI seat, with
no place for a spectator, because three connections that can also sit down
beside each other do not fit the time of a liveness run. `HoldRunsOut` exempts
the hold of section 10 and nothing else: `t \in due \ armed` of a hold in the
map means that its timer ran while it was not there.

**Fairness.** Weak fairness of each session goroutine's own steps (the Go
scheduler runs goroutines, and its mutexes hand over to waiters), of time
(`PassDeadline`), of timers and their callbacks, and of the cleanup goroutine.
Weak fairness is enough for a step that waits for a lock: a failing resume can
take the lock of a room again only until the hold it restores is due.
No fairness on `ClientStep`: a client may stay silent for ever.

### The abstract promise

`SeatLease` says what the people in a room may rely on, without sessions,
tokens, locks or timers: each has a place as a player or a spectator; who loses
the connection is away, and the place stays reserved until its window ends;
within the window one successor may take it over in the same role; and nobody
but a player who is present may take it away.
`RoomSessionLease` maps `RoomSession` onto it: a member of a registered room
whose session is bound is present, one without a bound session is away, wherever
the hold is (in the map, carried by a resume, being expired).
`KeepsSeatPromise` is the abstract specification under that mapping, checked as
a property of `session_guests`. The steps that only move a hold between the map
and a goroutine are stutters of the promise.

## 4. RoomLifecycle

### State and actions

`room` is the part of `room.Room` that decides what may happen: phase, who sits
where, registered and active decks, ready and loaded flags, load generation,
score, drawn games, and the game with its order, active seat, players that are
out, result and sideboarding. A deck is a registered list and a partition (0 as
registered, 1 rearranged). `engine`, `alive` and `watch` are the room's entry
of `Handler.forgeGames`, whether its process runs, and the games that a watcher
goroutine collected before it got the room's lock. `sideTimer`, `armed`,
`fired` and `lapsed` are the handler's timer of the room, the timers that have
not fired, the callbacks waiting for the lock, and time. `announced` and
`fetched` are what `match.load_required` told clients and what they loaded;
they are only there for properties and for the acknowledgements a client may
send, old ones included.

Handlers run under `opMu` and are one action each. A step that starts an engine
game (`Launch`, `Transition`) ends either with a registered game or with the
room reset to the waiting room, as `startForgeGame` and
`prepareForgeTransition` do, and `SetupGame` may fail (its random source) when
`Faults` says so. In an engine game the winner is the engine's choice: any
seated player, or a draw; a concession in it may end without a winner and is
then not counted, so that the next game has the same number. The action clock may run out whenever an engine game
is registered; which budgets lead there is left to the action clock's own
module. Orders of play are sequences of seats: any order where Commander rolls
for it, table order from a chosen seat elsewhere.

Left out: Playtest rooms, decks sealed by a tournament, Cube closing,
disbanding of player-hosted rooms, capacity and consent to engine hosting,
spectators, chat and the table operations that change no match state.

### Runs

| Run | Instance | Shows |
|---|---|---|
| `lifecycle_loading` | two players, EDH with 2 to 3 seats, fixed groups of 3, practice; manual and Forge; cards load first; 2 lists, 2 load generations | loading is gated, games start fully loaded, engines belong to matches |
| `lifecycle_match` | the same rooms, background loading, single games and best of three, 2 load generations, 2 sideboardings, 1 drawn game | score, result, turn and deck invariants, stale timers and watchers |
| `lifecycle_live` | two players, best of three, 1 load generation, 2 sideboardings, no setup failure, with fairness | sideboarding ends, a lost engine is noticed |
| `lifecycle_leak` | Forge best of three, 3 load generations | the deck that leaks into the next match (section 10) |

Three seats are needed for an eliminated active player with two opponents left.
Two load generations are needed for a late acknowledgement, for a restart and
for a second match after an aborted one; the leak run has one more, for a match
that is aborted only after a sideboarding. Two sideboardings in one room make a stale timer
and a stale watcher possible. `MaxLoads` bounds the generations that a loading
or a restart may begin (sideboardings add at most `MaxSides`), and the guards
of results bound sideboardings and draws. Once the bounds or the room are used
up nothing may be left to do, so deadlock checking is off. Deck lists are
interchangeable (`SYMMETRY`) in `lifecycle_loading`.

**Fairness.** Time passes, armed timers fire, and timer callbacks and engine
watchers that wait for `opMu` get it. Neither players nor the engine promise
anything. `lifecycle_live` has `Faults = {}`: when the expiry of a sideboarding
cannot set up the next manual game (the random source fails),
`server/handler_sideboard.go:52` logs it and the timer is spent, so nothing
would try again.

## 5. Cluster

### State and actions

The coordinator (`cluster/`) is one mutex over memory, so each of its requests
is one step: `state[n]` is its entry of node `n` (generation, whether the node
was heard, the rooms of its last report), `tickets[t]` an outstanding ticket.
`agent[p]` is the publisher of a node process (registered generation, whether
it must register again), `flight[p]` its request under way with the answer the
coordinator gave, `late[p]` a request it abandoned that may still be executed.
`rooms[p]` are the rooms a process hosts. `call[s]` is a session that carries a
room-creating command: allocate, redirect or run here, present the ticket,
execute, complete. `issued`, `known`, `ran` and `void` only serve properties: the
tokens used up, those a client was told, those whose command ran, and those
whose reservation the coordinator dropped.

A token stands for a command, its ticket and the room it makes. Report
sequence numbers become the flag "old" (a later report of the generation was
accepted). A node the coordinator has not heard for ten seconds is refused: here any
allocation may be refused. A ticket for the own node goes the same way as any
other. The publication that precedes an allocation is an ordinary one.

Processes crash, the coordinator restarts with an empty memory, requests time
out, and an abandoned report or registration may be executed after later ones;
`MaxFaults` bounds how often and `Delays` says which kinds.

A registration that arrives late is the harder kind. The coordinator drops a
request whose connection it knows to be gone (`cluster/coordinator.go:151`),
but that is all: a registration carries no sequence number, so one that was
delayed on its way, or waited in a coordinator that stalled, past the agent's
three seconds and its retry overwrites the entry the retry made, and the next
report of the agent is answered as fenced although no other process runs. The
model has this behaviour ("register" in `Delays`), and `cluster_place` checks
`OnlySupersededIsFenced` with it: a process is fenced only once its node was
registered again after it. The documents promise that *responses* to an older
registration fence nobody and that a node registered again fences the
generations before, and both hold. That a process stays unless another one was
started needs more: `cluster_live` has late reports only, and there
`NodeReturns` says it.

### Runs

| Run | Instance | Shows |
|---|---|---|
| `cluster_place` | 1 node, 2 processes one after the other, 2 tokens, 1 session, 1 room per node, 1 fault, late reports and registrations | no room is counted twice or forgotten between ticket and report, reservations never exceed capacity, a process is fenced only once its node was registered again |
| `cluster_live` | 1 node, 1 process, 1 token, 2 sessions, 2 faults, late reports, with fairness | a ticket runs once, a node that nobody replaced is never fenced and comes back whenever it lost its registration, every reservation ends |

One room per node makes every double count an overrun. Two processes are the
smallest number with a replaced one. Two tokens let one room run while another
is reserved.

**Fairness.** Weak fairness of the publisher's steps (a ticker and a wake
channel drive its loop, and its requests have deadlines) and of the steps of a
session's call. None of clients, crashes or restarts.

## 6. Swiss

`status`, `entrants` (registered), `checked`, `competing`, `dropped`, `order` and
`rounds` are the fields of `tournament.Tournament` and its participants; a pairing is its set of players, its result, the report
that waits for confirmation and its table. All that `tournament` does is under
one mutex and is one action. `Standings` orders by match points and then by
percentages: the module takes *any* order that agrees with the match points.
`CheapestPairs` is what `minimumCostPairing` computes, stated as a minimum over all
perfect matchings with the weights of `pairCost`; above eighteen players the
code pairs greedily, which is not modelled. The opening round pairs a shuffle;
one shuffle stands for all since players are interchangeable before it. The
module assumes of `Shuffles` what `random.Shuffle` gives, that no two players
get the same place, and of the number of rounds the limit of
`tournament/tournament.go:235`.

The handler side is where the interleavings are: a room leaves the hub
(`RemoveRoom`) and a later step, outside its lock, clears it from its pairing
(`ClearRoom`); the action clock's verdict is applied by a goroutine of its own
(`ClockExpires`, `ApplyTimeout`). Who may report or correct for whom is left
out: a confirmation comes from the opponent or the organiser.

`swiss` has four or five players, three rounds, no draws, at most two tables, opened in
the first round, and one disturbance (a drop, a correction, a cancellation, a room that ends, a loss on time). Five
players give byes and, after a drop, an even field; three rounds are the
smallest number in which the third pairing can be forced near a rematch.
Rematches that cannot be avoided need more rounds than this, so the instance
only shows that avoidable ones do not happen.

## 7. ForgeRuntime

### State and actions

| Variable | Code |
|---|---|
| `proc[c]` | the child process behind a `forge.Client`: starting, up, told to quit or killed, reaped (`Done` closed) |
| `clients`, `reserved`, `starting`, `cooldown` | the fields `clients`, `reservations`, `starting` and `retryAfter` of `forgeRuntimeLifecycle` |
| `game[r]` | `Handler.forgeGames`; with one process per game the process names the game |
| `watch[c]` | the goroutine `watchForgeRuntime`: waiting for `Done`, or going through the games it collected |
| `op[r]` | the operation that holds the room's `opMu`, between two critical sections of the lifecycle's mutex |
| `phase[r]` | whether the room plays, sideboards between two games, or waits (a finished match counts as waiting) |
| `closer` | `Handler.Close` |

`Proceed(r)` is what an operation under way does next, `Request(r)` what players
may ask for. A start that waits (for the previous process of its match, for
another cold start) may run out of its 45 seconds: `Refuse`. The removal of a
room acts here as its abandonment. Engine ids are used again once nobody holds
the handle, so processes can be started without end; which free id is taken
does not matter.

Left out: the pool of shared processes (`ForgeGamesPerJVM` above one; the
default is one), player-hosted engines, and the reading of a game found over in
its very first projection, which here is the next step.

### Run

`forge_runtime`: two rooms, three engines, two slots, with fairness. Two slots
and two rooms are the smallest instance in which a room can have its old
process dying beside its new one while the other room plays: a third process
would be one too many, and a third id is there to show it. It checks that
capacity is neither exceeded nor held by a room whose match does not go on
(and that no process is alive when `Close` has returned), that every game is
watched, and that no process is left behind.

**Fairness.** Operations under way, watchers and the shutdown proceed; a cold
start ends (it has a deadline and is killed) and a killed process is reaped.
Nothing else is promised: an engine that is up may stay up for ever.

One observation, not a property: a process that has died stops counting at
once, so when the host restarts a game whose engine died a moment ago, or a
game ends just then, another room may have taken the slot before it is
reserved; the restart is then refused for capacity, which is also what the
watcher would have led to, a match reset to waiting.

## 8. What is proved

Every theorem holds for all values of the constants that satisfy the modules'
named assumptions: any sets of connections, rooms, accounts, seats, nodes,
processes, tokens and engines, any capacities and bounds.

| Module | Theorem | Statement |
|---|---|---|
| `RoomSessionTypes` | `TypeCorrectness` | `Spec => []TypeOK` |
| | `TypesAndLocks` | `Spec => []TypeInv` |
| `RoomSessionProofs` | `SessionsAndHolds` | `Spec => []IInv` |
| | `NoZombieSeats` | `Spec => []EveryMemberHasAnOwner` |
| | `TokensAreSpentOnce` | `Spec => []TokenSpentOnce` |
| | `BindingsAreTrue` | `Spec => []BoundIsMember` |
| | `DroppedSeatsSurvive` | `Spec => SeatSurvivesDrop` |
| `RoomSessionRoles` | `RolesAreKept` | `Spec => []RoleInv` |
| | `HostsAreSeated` | `Spec => []HostIsSeated` |
| | `RoomsAreInhabited` | `Spec => []RoomIsInhabited` |
| | `ReplacedSessionsGainNothing` | `Spec => ReplacedGainsNothing` |
| `RoomSessionSeats` | `OneSeatForEachAccount` | `Spec => []OneSeatPerAccount` |
| | `SeatsArePromised` | `Spec => KeepsSeatPromise` (refinement of `SeatLease`) |
| `RoomLifecycleProofs` | `TypeCorrect` | `Spec => []TypeOK` |
| | `LoadsWhatItAnnounced` | `Spec => []LoadingIsGated` |
| | `EngineAndMatchAgree` | `Spec => []EngineMatchesMatch` |
| | `ActivePlayerPlays` | `Spec => []ActiveSeatPlays` |
| | `AccountsBalance` | `Spec => []MatchAccounts` |
| | `LateLoadsStartNothing` | `Spec => StartsFullyLoaded` |
| | `LateWatchersDoNoHarm` | `Spec => StaleWatcherHarmless` |
| | `LateTimersDoNoHarm` | `Spec => StaleTimerHarmless` |
| | `DecksAreLockedIn` | `Spec => DecksCommitTogether` |
| `ClusterProofs` | `TypeCorrect` | `Spec => []TypeOK` |
| | `FencedOnlyIfSuperseded` | `Spec => OnlySupersededIsFenced` |
| | `CommandRunsOnce` | `Spec => TicketRunsOnce` |
| | `RoomsAreCounted` | `Spec => []CountedWithoutGap` |
| | `ReservationsAlwaysFit` | `Spec => []ReservationsFit` |
| `ForgeRuntimeProofs` | `EnginesAreTyped` | `Spec => []TypeOK` |
| | `NoGameIsForgotten` | `Spec => []GamesAreWatched` |
| | `CapacityIsHeld` | `Spec => []CapacityHeld` |
| `SwissProofs` | `TypeCorrect` | `Spec => []TypeOK` |
| | `ResultsAreFinal` | `Spec => ResultsStand` |
| | `TablesAreSingle` | `Spec => []OneTable` |
| | `ByesGoRound` | `Spec => []ByesAreShared` |
| | `RoundsStayWhole` | `Spec => []RoundsAreWhole` |
| | `RematchesAreForced` | `Spec => []NoAvoidableRematch` |

The assumptions are those of the modules, and say no more than that null values
are not members of the sets they are null values of, that numbers are natural
numbers, and that what is counted is finite.

### RoomSession

**Why TypeOK needs help.** `TypeInv` adds four facts. `WantsAToken`: at the
steps that work on a token there is one. `HoldsPointToRooms`: a hold in the
map, carried by a resume or being expired names a room. `TargetsARoom`: so does
a command that is about to lock its room. `AccountLocked`: an account session
in the middle of a command holds its account's lock, so the session it
replaces does not move while it is being replaced.

**Why three safety properties are proved together.** That every membership
has an owner is preserved by a resume only if the token was spent once, and
that only if a suspended session never works again (`HeldIsRetired`: its
goroutine is over or its account refuses it commands). A command that read its
room before the lock is safe because the session is then bound to that very
room or to none (`BoundWhereExpected`), which needs the lock facts of
`TypeInv`. `IInv` is the conjunction. `DroppedSeatsSurvive` follows from it step
by step: a hold in the map is neither being expired nor carried, and its
session is retired, so nobody removes that very member but a kicking host.

**What roles need.** Being hosted and inhabited is a property of one room that
each reducer preserves (`LeaveKeeps`, `ExpireKeeps`, `KickKeeps`, ...), given
that only practice rooms have an AI: a Commander Limited group that outlives its
host therefore keeps a human. A replaced session gains nothing because
`EntersAsCurrent`: a session in the middle of a command that may end in a room
is its account's current session, and holds the lock that would have to be
taken to replace it. `RoleInv` is `TypeInv` with these two.

**The argument for `IInv`.** The steps that change a membership are few: creating,
joining, leaving, disbanding, kicking, releasing a held seat and resuming. For
each a lemma (`CreateMoves` ... `ResumeMoves`) states which connections it adds
to or removes from which room and what becomes of their bindings; two lemmas,
`Departure` and `Arrival`, collect these facts into one form. Each conjunct of
`IInv` is then preserved (`...Step` lemmas) by a case for each membership step,
a case for each step on the hold map, and one lemma for the steps that touch
neither.

**One seat for an account.** `SeatInv` says where an account's one seat can be.
`OneHold`: at most one of its holds is still good or being resumed.
`BoundOrHeld`: while one of its sessions is in a room there is no such hold, and
that session is the account's current one, or is attaching and found nobody
else in a room. `KnowsItsHolds`: a session that is about to resume knows the
account's only hold, one that is about to join knows there is none; this is what
the account lock is for. `CarriesItsOwn`: a resume carries its own account's
hold or a guest's. A session or hold comes to an account only in a few steps
(`NewHold`, `SearchStep`); each of them holds the account's lock.

**The refinement.** `SeatsArePromised` proves that the initial state maps to
one of `SeatLease` and each step to a step or a stutter under the mapping of
`RoomSessionLease`. It needs `WindowInv`: only a hold whose window has ended is
on its way to being released, and a window runs only for a suspended session.
`PlaceStep` shows that all steps but those that enter or leave a room, suspend
a session, end a window or release a seat leave everybody's place alone.

### RoomLifecycle

`IInv` has the properties together with what makes them inductive. `RoomOK` is about
the room record alone, so that each reducer is one lemma: `GameShape` (only a
started room has a game, it sideboards only when its game is over and the match is
not), `TurnKept` (everybody still in the game sits at the table and has a place
in the turn order: what `ActiveSeatPlays` needs when the active player leaves),
`FullTable` (a two-player match without a decision has both players and their
decks: what the next game after sideboarding is dealt with) and `Accounts`
(`MatchAccounts`, with a match that starts from nothing). `LoadsInOrder` says that
an acknowledgement counted for the current generation was fetched in it, and
that nobody, client or watcher, knows of a generation still to come; that is
why a late one is recognised by its number. `WatchersSawAnExit`: a watcher
holds a game's number only when that game's runtime has exited, so a watcher
that is on its way while the engine runs is an old one. `TimerInOrder`: the
timer the handler knows belongs to the sideboarding that is going on, so the
callback of any other finds that it was replaced. Turn orders rest on
`RanksReachEveryPlace` and `OrdersSeatEveryone`: who is left in the order after
a departure gets the places from the first on, without gap or repetition.
`Wins(rm)` makes the number of games played a cardinality, so that a result
adds one element to it. `RegisteredForNewMatch` is not among the theorems: it is
violated (section 10).

### Cluster

The proof is in layers, each using the ones before it. `TypeInv` adds that
calls come from registered processes, that requests look as `Publish` builds
them, and that only a registered node is heard. `NeverOutrun`: the
coordinator has forgotten a node or knows it by the registration of its process
or by a later one, since every registration, a late one too, gets a new
generation; an agent that is fenced therefore holds a registration that was
superseded (`FencedOnlyIfSuperseded`, for all `Delays`). `TicketInv`: until its
ticket is taken nobody may run a token's command, then one session may, once;
and a token ran in one process only, wherever its trace is (hub, agent, request
under way or abandoned). `CountInv`: two processes never share a generation
(`GenerationsApart`); the grant of a session stands unless its reservation was
dropped (`GrantsStand`); a room missing in a snapshot that may still be
accepted is reserved until a later snapshot (`SnapshotsCover`), which is why a
report that arrives late may not release it. `FitInv`: a node that has
reservations was heard since it registered, so its rooms are counted, and the hub keeps its own limit;
`ReservationsFit` is then an argument on cardinalities of those sets.

### ForgeRuntime

The type invariant says who owns the single-flight barrier, and is inductive;
`MoveKeepsOrder` is its core: one room moves and the barrier passes only between
it and nobody. `GamesAreWatched` needs `Supervised`: a tracked engine's watcher
still waits, a waiting watcher has collected nothing, and a closed server has no
games. Registration checks "tracked" in the critical section in which the
watcher would have forgotten the engine, which is why a game cannot be
registered behind its watcher's back.

`CapacityHeld` is not proved from `Cardinality(Occupied) <= MaxGames`, which is not
invariant: a match that pauses between two games may reserve the slot of an
engine that has died while another room was admitted. What holds
(`ProcessInv`) is that every living process is tracked or is the one that
starts, and that what a start counts covers all of them but the previous engine
of its own room, which is gone (`CountCoversTheLiving`). `SlotInv` says of each room, step by
step, when it may hold back a slot.

### Swiss

These hold for any number of players up to eighteen, any number of rounds up to
twenty, any set of shuffles and every order of the standings.

`TypeInv` says that a round maps sets of one or two players of the event to
pairing states, that tables and losses under way are about pairings of two, and
that there is none of all that before the start. Results stand because of what
a step may do to one pairing (`PairingStep`): it is left alone, gets a result
it did not have, changes its table or its report, or is ruled by the organiser.
`OneTable` is inductive as it stands.

**Byes.** A bye goes to somebody among those with the fewest, so it never makes
a difference of more than one (`WhoHasBye`), and a pair is no bye
for anybody. Those who drop only make the set of active players smaller.

**Rounds.** `WholeInv` states wholeness for each round and for those who *now*
play, and adds that a result has no report waiting beside it. `OneBye`: an odd
field has exactly one last player among those with the fewest byes, because a
standings order (or a shuffle) gives no place twice. The opening round pairs
neighbours: the places of an even field are `0 .. n - 1` without gap
(`PlacesAreAll`), so each has one partner (`OpeningIsWhole`). For the later
rounds the model asks only for half as many pairs as there are players whose union
is the field; that they are disjoint is a counting argument
(`PairsCoverTwice`, `PairingOffIsWhole`): if two of them shared a player, they could not
cover everybody.

**Rematches.** `minimumCostPairing` minimises one sum of weights, and the
question is whether everything else can ever add up to a rematch. It cannot:
with at most nineteen earlier rounds nobody has more than 76 points, with
eighteen players two places differ by at most eighteen, so a pair that has not met costs at most
100,000 (`RematchWeighs`), nine of them cost at most 900,000, and a single rematch costs
1,000,000 (`RematchesCost`). A cheapest pairing with a rematch therefore shows that
every pairing has one (`RematchIsForced`). The two limits are needed and are
the code's: `tournament/tournament.go:235` refuses more than twenty rounds,
and more than eighteen players are paired by another algorithm. What a sum over a set is
bounded by (`SumFacts`) is proved by a least counterexample, since the
induction theorems of the library cannot be instantiated here.

## 9. What is only model-checked


* That a process is not fenced unless another one was started: it holds only as
  long as no abandoned registration is executed late (section 5). What holds
  without that condition is proved as `FencedOnlyIfSuperseded`.
* Some cases lie beyond the bounds of every run and are covered by a theorem
  only: a refused next game of a longer match for `EngineMatchesMatch`
  (`lifecycle_loading` plays single games; `EngineAndMatchAgree`), a rematch
  that no pairing avoids (`RematchesAreForced`), and a loss on time after a
  correction (`ResultsAreFinal`). `SideboardEnds` is checked within one match
  (`MaxLoads` 1).
* Liveness (`HoldRunsOut`, `CommandsFinish`, `SideboardEnds`,
  `LostEngineNoticed`, `NodeReturns`, `ReservationsEnd`,
  `EnginesAreOwned`) stays with TLC: the installed provers do not do
  fairness, `ENABLED`, induction over data or recursive operators.

## 10. Disagreements with the repository's own words

* **A restored hold can lose its timer** (`session_timer_race`).
  `takeAccountResumeHold` reads the clock before `restoreResumeHold` locks the
  map (`server/handler_session.go:413`). If the hold's single-shot timer fires
  between the two, it finds no entry and is gone; the hold is put back as not
  yet expired and nothing ever releases its seat, although
  `docs/networking-notes.md` says the seat is held for three minutes.
* **A sideboarded deck leaks into the next match** (`lifecycle_leak`).
  When a best-of-three in a Forge room is aborted after a sideboarding (the
  next game cannot start, the engine dies, the opponent leaves),
  `resetAfterGameSetupFailure` (`room/room_setup.go:244`) leaves the active
  deck as it was last committed, and the next match, whose score starts
  afresh, is played with it. `room/room.go:30` calls `RegisteredDeck` the
  partition submitted for the next match, and `ReturnToRoom` restores it for
  this very reason.

## 11. What is not modelled, and why

The components with status `not_modelled` in `PROJECT.json` carry their reason.
In short: the action clock, draft, peer link, consent, feedback and host
migration are planned (section 2); the
manual table is bookkeeping in single steps under the room's lock; accounts,
gateway, diagnostics, packages and parsing are I/O or pure data conversion; the
Qt client and the Forge engine are the environment, and are modelled by what
they may send.

## 12. Running it

    tlc -config RoomSessionGuests.cfg MCRoomSession
    tlc -config RoomSessionAccounts.cfg MCRoomSession
    tlc -config RoomSessionLive.cfg MCRoomSession
    tlc -config RoomLifecycleLoading.cfg MCRoomLifecycle
    tlc -config RoomLifecycleMatch.cfg MCRoomLifecycle
    tlc -config RoomLifecycleLive.cfg MCRoomLifecycle
    tlc -config ClusterPlace.cfg MCCluster
    tlc -config ClusterLive.cfg MCCluster
    tlc -config Swiss.cfg MCSwiss
    tlc -config ForgeRuntime.cfg MCForgeRuntime
    tlapm RoomSessionTypes.tla
    tlapm RoomSessionProofs.tla
    tlapm RoomSessionRoles.tla
    tlapm RoomSessionSeats.tla
    tlapm RoomLifecycleProofs.tla
    tlapm ClusterProofs.tla
    tlapm ForgeRuntimeProofs.tla
    tlapm SwissProofs.tla

`RoomSessionTimerRace.cfg` and `RoomLifecycleLeak.cfg` end with the
counterexamples of section 10.
