---------------------------- MODULE RoomSession ----------------------------
(***************************************************************************)
(* Sessions, room membership and reconnect holds of the Go hub.            *)
(*                                                                         *)
(* One WebSocket connection is one session goroutine.  A dropped session   *)
(* leaves its seat behind as a hold: an entry of Handler.resumeHolds keyed *)
(* by the session's resume token, with a timer that releases the seat.  A  *)
(* later connection spends the token to take the seat over.  An account    *)
(* has one current session and may reclaim its own hold without a token.   *)
(*                                                                         *)
(* A resume token is issued to one session and a session is held at most   *)
(* once, so a token is modelled by the connection it was issued to; its    *)
(* hold is in the map iff the connection is in "held", and "lease" is the  *)
(* value stored (or carried by the goroutine that took it out).  Time is   *)
(* abstracted to "due": the deadline of that hold has passed.              *)
(*                                                                         *)
(* Everything a handler does under one room's opMu is one step; what it    *)
(* reads before the lock (the session's room, the registry entry) and what *)
(* it does to the hold map outside the lock are steps of their own.        *)
(***************************************************************************)
EXTENDS Integers, FiniteSets

CONSTANTS Conn,        \* connections, each with its session and resume token
          Room,        \* rooms that may ever be created
          Account,     \* signed-in accounts
          NoConn, NoRoom, NoAccount,
          AI,          \* the occupant of a server-controlled seat
          MaxSeats,    \* seats of every room
          MaxSpectators,
          Kinds,       \* kinds of room the run creates
          Faults       \* resume steps that may be refused or fail

AllKinds == {"table", "ai", "engine", "group", "cube"}
AllFaults == {"claim", "cube", "projection"}

ASSUME ConnAssumption == NoConn \notin Conn /\ AI \notin Conn /\ AI # NoConn
ASSUME RoomAssumption == NoRoom \notin Room
ASSUME AccountAssumption == NoAccount \notin Account
ASSUME SeatAssumption == MaxSeats \in Nat /\ MaxSeats >= 2 /\ MaxSpectators \in Nat
ASSUME KindAssumption == Kinds \subseteq AllKinds /\ Faults \subseteq AllFaults

VARIABLES
  rooms,      \* Room -> registry entry and membership
  opMu,       \* Room -> session that keeps the operation lock between steps
  pc,         \* Conn -> step of the session goroutine
  bound,      \* Conn -> Session.roomRef
  acct,       \* Conn -> Session.account
  target,     \* Conn -> room read before the operation lock is taken
  want,       \* Conn -> token the goroutine is resuming with
  held,       \* tokens present in Handler.resumeHolds
  lease,      \* Conn -> the hold's room and owning account
  due,        \* holds whose deadline has passed
  armed,      \* holds whose time.AfterFunc has not run yet
  expiring,   \* holds taken out of the map whose seat is not yet released
  current,    \* Account -> Handler.accountConnections
  accountMu   \* Account -> holder of the account's lock

sessionVars == <<pc, target, want>>
holdVars    == <<held, lease, due, armed, expiring>>
accountVars == <<acct, current, accountMu>>
vars == <<rooms, opMu, bound, sessionVars, holdVars, accountVars>>

Seat   == 0 .. MaxSeats - 1
NoSeat == -1
Free   == NoConn

(***************************************************************************)
(* Room reducers                                                           *)
(***************************************************************************)
Empty == [s \in Seat |-> Free]

Closed(rm, status) == [rm EXCEPT !.status = status, !.seats = Empty,
                                 !.spectators = {}, !.host = NoSeat]

Humans(rm)   == {s \in Seat : rm.seats[s] \in Conn}
Occupied(rm) == {s \in Seat : rm.seats[s] # Free}
Seated(rm, c) == \E s \in Seat : rm.seats[s] = c
Member(rm, c) == Seated(rm, c) \/ c \in rm.spectators
IsHost(rm, c) == rm.host \in Seat /\ rm.seats[rm.host] = c
HasAI(rm)    == \E s \in Seat : rm.seats[s] = AI
IsEmpty(rm)  == Occupied(rm) = {} /\ rm.spectators = {}

Lowest(S) == CHOOSE s \in S : \A t \in S : s <= t

\* Mutant of TransferHost: seats counted from one.
TransferHostFromOne(rm) ==
  [rm EXCEPT !.host = IF Humans(rm) = {} THEN NoSeat ELSE Lowest(Humans(rm)) + 1]

\* The lowest seat occupied by a human is the host; none when there is none.
TransferHost(rm) ==
  [rm EXCEPT !.host = IF Humans(rm) = {} THEN NoSeat ELSE Lowest(Humans(rm))]

Vacate(rm, c) ==
  [rm EXCEPT !.seats = [s \in Seat |-> IF rm.seats[s] = c THEN Free ELSE rm.seats[s]],
             !.spectators = rm.spectators \ {c}]

\* Mutant of Join: a seat whose occupant is not connected counts as free.
JoinTakesHeldSeat(rm, c) ==
  LET seat == Lowest({s \in Seat : rm.seats[s] = Free \/ bound[rm.seats[s]] = NoRoom})
  IN  [rm EXCEPT !.seats = [rm.seats EXCEPT ![seat] = c],
                 !.host = IF rm.host = NoSeat THEN seat ELSE rm.host]

\* A player takes the first free seat and the host role if nobody has it.
Join(rm, c) ==
  LET seat == Lowest(Seat \ Occupied(rm))
  IN  [rm EXCEPT !.seats = [rm.seats EXCEPT ![seat] = c],
                 !.host = IF rm.host = NoSeat THEN seat ELSE rm.host]

Watch(rm, c) == [rm EXCEPT !.spectators = rm.spectators \cup {c}]

\* Rebinds one membership from a lost connection to its successor.
Reconnect(rm, old, new) ==
  [rm EXCEPT !.seats = [s \in Seat |-> IF rm.seats[s] = old THEN new ELSE rm.seats[s]],
             !.spectators = IF old \in rm.spectators
                            THEN (rm.spectators \ {old}) \cup {new} ELSE rm.spectators]

\* Mutant of ExpireDisconnected: the host role stays where it was.
ExpireKeepsHost(rm, c) == Vacate(rm, c)

\* Releases a membership whose hold ran out; the host role moves on.
ExpireDisconnected(rm, c) ==
  IF IsHost(rm, c) THEN TransferHost(Vacate(rm, c)) ELSE Vacate(rm, c)

\* Mutant of ClosesOnExpiry: a room left to its AI stays open.
ClosesOnlyEmpty(rm) == IsEmpty(rm)

\* ... and whether the hub then closes the room.
ClosesOnExpiry(rm) == (HasAI(rm) /\ Humans(rm) = {}) \/ IsEmpty(rm)

\* Commander Limited groups survive their host as long as a player stays.
KeepsGroup(rm, c) == rm.kind = "group" /\ Occupied(Vacate(rm, c)) # {}

LeaveDisbands(rm, c) == IsHost(rm, c) /\ ~KeepsGroup(rm, c)

Leave(rm, c) ==
  IF IsHost(rm, c) /\ KeepsGroup(rm, c) THEN TransferHost(Vacate(rm, c)) ELSE Vacate(rm, c)

\* A Cube player who leaves closes the two-player table; a Commander Cube
\* table closes too, unless a game is running or it is not a Cube event.
CubeCloses(rm, c) ==
  CASE rm.kind = "cube"  -> {Seated(rm, c)}
    [] rm.kind = "group" -> {Seated(rm, c), FALSE}
    [] OTHER             -> {FALSE}

(***************************************************************************)
(* Derived state                                                           *)
(***************************************************************************)
Registered(r) == rooms[r].status = "registered"

\* lockRoomOperation returns at once when the room left the registry.
OpFree(r) == Registered(r) => opMu[r] = NoConn

\* The steps at which a goroutine carries the hold it took out of the map.
Carrying == {"adopting", "screening", "resuming", "restoring", "restoreEarly", "restoreLate"}
Carries(c, t) == pc[c] \in Carrying /\ want[c] = t

\* Unexpired holds that belong to an account (accountResumeToken).
AccountHolds(a) == {t \in held : lease[t].acct = a /\ t \notin due}

\* Mutant of Authorised: the account's lock without the current-session check.
AuthorisedByLock(c) == acct[c] # NoAccount => accountMu[acct[c]] = NoConn

\* A command of an account session runs under the account's lock and only for
\* the account's current session.
Authorised(c) ==
  acct[c] # NoAccount => accountMu[acct[c]] = NoConn /\ current[acct[c]] = c

Release(c) ==
  accountMu' = [a \in Account |-> IF accountMu[a] = c THEN NoConn ELSE accountMu[a]]

Acquire(c) ==
  accountMu' = [a \in Account |-> IF a = acct[c] THEN c ELSE accountMu[a]]

\* Mutant of MayEnter: the account's hold is not looked up.
MayEnterWithHold(c) == bound[c] = NoRoom

\* An account that can reclaim a seat may not enter another room.
MayEnter(c) == bound[c] = NoRoom /\ (acct[c] # NoAccount => AccountHolds(acct[c]) = {})

\* The end of a command: back to reading messages, locks released.
Finish(c) ==
  /\ pc' = [pc EXCEPT ![c] = "idle"]
  /\ want' = [want EXCEPT ![c] = NoConn]
  /\ Release(c)

\* The goroutine goes on to another step of the same command.
Goto(c, step) == pc' = [pc EXCEPT ![c] = step]
Continue(c, step) == Goto(c, step) /\ UNCHANGED <<want, accountMu>>

\* removeRoom: the room leaves the registry; every session still in it is
\* unbound by disbandAndFanout.  rm is the room after the departure.
CloseRoom(r, rm, leaver) ==
  /\ rooms' = [rooms EXCEPT ![r] = Closed(rm, "closing")]
  /\ bound' = [c \in Conn |-> IF c = leaver \/ Member(rm, c) THEN NoRoom ELSE bound[c]]

\* Mutant of Hold: the hold is stored without a timer.
HoldWithoutTimer(s, r) ==
  /\ OpFree(r)
  /\ bound' = [bound EXCEPT ![s] = NoRoom]
  /\ IF Registered(r) /\ Member(rooms[r], s)
     THEN /\ held' = held \cup {s}
          /\ lease' = [lease EXCEPT ![s] =
               [room |-> r, acct |-> IF Seated(rooms[r], s) THEN acct[s] ELSE NoAccount]]
     ELSE UNCHANGED <<held, lease>>
  /\ UNCHANGED <<armed, due, expiring>>

\* holdForReconnect, for session s that was in room r when this was decided.
Hold(s, r) ==
  /\ OpFree(r)
  /\ bound' = [bound EXCEPT ![s] = NoRoom]
  /\ IF Registered(r) /\ Member(rooms[r], s)
     THEN /\ held' = held \cup {s}
          /\ armed' = armed \cup {s}
          /\ lease' = [lease EXCEPT ![s] =
               [room |-> r, acct |-> IF Seated(rooms[r], s) THEN acct[s] ELSE NoAccount]]
     ELSE UNCHANGED <<held, armed, lease>>
  /\ UNCHANGED <<due, expiring>>

\* The hold-map half of expireResumeHold: only a hold still in the map expires.
BeginExpiry(t) ==
  /\ held' = held \ {t}
  /\ expiring' = IF t \in held THEN expiring \cup {t} ELSE expiring
  /\ UNCHANGED <<lease, due>>

(***************************************************************************)
(* Connecting                                                              *)
(***************************************************************************)
Init ==
  /\ rooms = [r \in Room |-> [status |-> "unused", kind |-> "table", seats |-> Empty,
                              spectators |-> {}, host |-> NoSeat]]
  /\ opMu = [r \in Room |-> NoConn]
  /\ pc = [c \in Conn |-> "off"]
  /\ bound = [c \in Conn |-> NoRoom]
  /\ acct = [c \in Conn |-> NoAccount]
  /\ target = [c \in Conn |-> NoRoom]
  /\ want = [c \in Conn |-> NoConn]
  /\ held = {} /\ expiring = {}
  /\ lease = [c \in Conn |-> [room |-> NoRoom, acct |-> NoAccount]]
  /\ due = {} /\ armed = {}
  /\ current = [a \in Account |-> NoConn]
  /\ accountMu = [a \in Account |-> NoConn]

\* A client knows the tokens of connections that were welcomed earlier.
Presentable(c) == {t \in Conn \ {c} : pc[t] \notin {"off", "hello"}} \cup {NoConn}

Connect(c) ==
  /\ pc[c] = "off"
  /\ Goto(c, "hello")
  /\ UNCHANGED <<rooms, opMu, bound, target, want, holdVars, accountVars>>

\* session.hello without an account.
HelloGuest(c) ==
  /\ pc[c] = "hello"
  /\ \E t \in Presentable(c) :
       /\ want' = [want EXCEPT ![c] = t]
       /\ Goto(c, IF t = NoConn THEN "idle" ELSE "taking")
  /\ UNCHANGED <<rooms, opMu, bound, target, holdVars, accountVars>>

\* The session the account binding of c would replace.
Replaced(c, a) == IF current[a] \in Conn \ {c} THEN {current[a]} ELSE {}
ReplacedRoom(c, a) == IF Replaced(c, a) = {} THEN NoRoom ELSE bound[current[a]]

\* Takes the account's lock and reads the room of the session to be replaced.
BeginBinding(c, a, step) ==
  /\ accountMu[a] = NoConn
  /\ accountMu' = [accountMu EXCEPT ![a] = c]
  /\ acct' = [acct EXCEPT ![c] = a]
  /\ target' = [target EXCEPT ![c] = ReplacedRoom(c, a)]
  /\ Goto(c, step)
  /\ UNCHANGED <<rooms, opMu, bound, holdVars, current>>

\* session.hello that presents an account session.
HelloAccount(c, a) ==
  /\ pc[c] = "hello"
  /\ \E t \in Presentable(c) : want' = [want EXCEPT ![c] = t]
  /\ BeginBinding(c, a, "binding")

\* Signing in on a live guest session; refused to a session that already sits
\* in a room while the account owns a seat elsewhere.
Login(c, a) ==
  /\ pc[c] = "idle" /\ acct[c] = NoAccount
  /\ bound[c] # NoRoom => ReplacedRoom(c, a) = NoRoom /\ AccountHolds(a) = {}
  /\ BeginBinding(c, a, "attaching")
  /\ UNCHANGED want

\* bindAccountSession: the replaced session's seat becomes a hold.
BindAccount(c) ==
  /\ pc[c] \in {"binding", "attaching"}
  /\ current' = [current EXCEPT ![acct[c]] = c]
  /\ IF target[c] = NoRoom THEN UNCHANGED <<bound, holdVars>>
     ELSE Hold(current[acct[c]], target[c])
  /\ target' = [target EXCEPT ![c] = NoRoom]
  /\ IF pc[c] = "binding"
     THEN Continue(c, "choosing") ELSE Finish(c)
  /\ UNCHANGED <<rooms, opMu, acct>>

\* The account's own hold replaces the token the client presented.
ChooseToken(c) ==
  /\ pc[c] = "choosing"
  /\ LET own == AccountHolds(acct[c])
     IN  \E t \in (IF own = {} THEN {want[c]} ELSE own) :
           IF t = NoConn THEN Finish(c)
           ELSE /\ Goto(c, "taking")
                /\ want' = [want EXCEPT ![c] = t]
                /\ UNCHANGED accountMu
  /\ UNCHANGED <<rooms, opMu, bound, target, holdVars, acct, current>>

\* The account command "resume" reclaims the account's hold without a token.
Reclaim(c) ==
  /\ pc[c] = "idle" /\ acct[c] # NoAccount /\ Authorised(c) /\ bound[c] = NoRoom
  /\ \E t \in AccountHolds(acct[c]) : want' = [want EXCEPT ![c] = t]
  /\ Acquire(c)
  /\ Goto(c, "reclaiming")
  /\ UNCHANGED <<rooms, opMu, bound, target, holdVars, acct, current>>

(***************************************************************************)
(* Resuming                                                                *)
(***************************************************************************)
Spendable(t, a) == t \in held /\ lease[t].acct \in {NoAccount, a}

\* Mutant of TakeHold: the hold stays in the map while it is resumed.
TakeHoldCopies(c) ==
  /\ pc[c] \in {"taking", "reclaiming"}
  /\ IF Spendable(want[c], acct[c]) /\ want[c] \notin due
     THEN Continue(c, "resuming") ELSE Finish(c)
  /\ UNCHANGED <<rooms, opMu, bound, target, holdVars, acct, current>>

\* takeAccountResumeHold takes the hold out of the map, or expires it on the
\* spot when its deadline has passed.
TakeHold(c) ==
  /\ pc[c] \in {"taking", "reclaiming"}
  /\ LET t == want[c]
         adopts == acct[c] # NoAccount /\ lease[t].acct = NoAccount
     IN  IF ~Spendable(t, acct[c])
         THEN Finish(c) /\ UNCHANGED held
         ELSE IF t \in due
         THEN Continue(c, "expireCall") /\ UNCHANGED held
         ELSE /\ held' = held \ {t}
              /\ Continue(c, IF adopts THEN "adopting"
                             ELSE IF pc[c] = "reclaiming" THEN "screening" ELSE "resuming")
  /\ UNCHANGED <<rooms, opMu, bound, target, lease, due, armed, expiring, acct, current>>

\* adoptAccountResumeHold: a guest hold becomes the account's, unless the room
\* is gone or the event refuses the account's claim to the seat.
AdoptHold(c) ==
  /\ pc[c] = "adopting"
  /\ LET t == want[c]
         r == lease[t].room
         player == Registered(r) /\ Seated(rooms[r], t)
         mayRefuse == "claim" \in Faults /\ player /\ rooms[r].kind \in {"group", "cube"}
     IN  \/ /\ Registered(r)
           /\ lease' = [lease EXCEPT ![t].acct = IF player THEN acct[c] ELSE NoAccount]
           /\ Goto(c, "resuming")
        \/ /\ ~Registered(r) \/ mayRefuse
           /\ Goto(c, "restoring")
           /\ UNCHANGED lease
  /\ UNCHANGED <<rooms, opMu, bound, target, want, held, due, armed, expiring, accountVars>>

\* cubeRoomBlocksNavigation: a session in another Cube event keeps its hold.
ScreenNavigation(c) ==
  /\ pc[c] = "screening"
  /\ \/ Goto(c, "resuming")
     \/ "cube" \in Faults /\ Goto(c, "restoring")
  /\ UNCHANGED <<rooms, opMu, bound, target, want, holdVars, accountVars>>

\* ResumeRoom under the room's operation lock.  A projection error rolls the
\* membership back and keeps the lock while the hold is restored.
ResumeRoom(c) ==
  /\ pc[c] = "resuming"
  /\ LET t == want[c]
         r == lease[t].room
         retryable == Registered(r) /\ Member(rooms[r], t)
     IN  /\ OpFree(r)
         /\ \/ /\ retryable
              /\ rooms' = [rooms EXCEPT ![r] = Reconnect(rooms[r], t, c)]
              /\ bound' = [bound EXCEPT ![c] = r]
              /\ Finish(c)
              /\ UNCHANGED opMu
           \/ /\ ~retryable
              /\ Finish(c)
              /\ UNCHANGED <<rooms, bound, opMu>>
           \/ /\ retryable /\ "projection" \in Faults
              /\ opMu' = [opMu EXCEPT ![r] = c]
              /\ Continue(c, "restoring")
              /\ UNCHANGED <<rooms, bound>>
  /\ UNCHANGED <<target, holdVars, acct, current>>

\* The clock is read before the hold map is locked ...
ReadClock(c) ==
  /\ pc[c] = "restoring"
  /\ Goto(c, IF want[c] \in due THEN "restoreLate" ELSE "restoreEarly")
  /\ UNCHANGED <<rooms, opMu, bound, target, want, holdVars, accountVars>>

\* Mutant of RestoreHold: a resume that failed loses the hold.
RestoreForgets(c) ==
  /\ pc[c] \in {"restoreEarly", "restoreLate"}
  /\ Finish(c)
  /\ opMu' = [r \in Room |-> IF opMu[r] = c THEN NoConn ELSE opMu[r]]
  /\ UNCHANGED <<rooms, bound, target, holdVars, acct, current>>

\* Mutant of RestoreHold: a late hold expires before the room is unlocked.
ExpireUnderLock(c) ==
  /\ pc[c] \in {"restoreEarly", "restoreLate"}
  /\ held' = held \cup {want[c]}
  /\ IF pc[c] = "restoreLate"
     THEN Continue(c, "expireCall") /\ UNCHANGED opMu
     ELSE /\ Finish(c)
          /\ opMu' = [r \in Room |-> IF opMu[r] = c THEN NoConn ELSE opMu[r]]
  /\ UNCHANGED <<rooms, bound, target, lease, due, armed, expiring, acct, current>>

\* ... and restoreResumeHold puts the hold back; a late one expires at once.
RestoreHold(c) ==
  /\ pc[c] \in {"restoreEarly", "restoreLate"}
  /\ LET t == want[c]
         late == pc[c] = "restoreLate" /\ t \notin held
     IN  /\ held' = held \cup {t}
         /\ IF late THEN Continue(c, "expireCall") ELSE Finish(c)
  /\ opMu' = [r \in Room |-> IF opMu[r] = c THEN NoConn ELSE opMu[r]]
  /\ UNCHANGED <<rooms, bound, target, lease, due, armed, expiring, acct, current>>

(***************************************************************************)
(* Expiry                                                                  *)
(***************************************************************************)
\* The reconnect window of a hold ends.
PassDeadline(t) ==
  /\ t \in armed \ due
  /\ due' = due \cup {t}
  /\ UNCHANGED <<rooms, opMu, bound, sessionVars, held, lease, armed, expiring, accountVars>>

\* The hold's time.AfterFunc runs, once.
TimerFire(t) ==
  /\ t \in armed \cap due
  /\ armed' = armed \ {t}
  /\ BeginExpiry(t)
  /\ UNCHANGED <<rooms, opMu, bound, sessionVars, accountVars>>

\* A session goroutine that met an expired hold calls expireResumeHold itself.
ExpireCall(c) ==
  /\ pc[c] = "expireCall"
  /\ BeginExpiry(want[c])
  /\ IF want[c] \in held THEN Continue(c, "expireWait") ELSE Finish(c)
  /\ UNCHANGED <<rooms, opMu, bound, target, armed, acct, current>>

ExpireReturn(c) ==
  /\ pc[c] = "expireWait" /\ want[c] \notin expiring
  /\ Finish(c)
  /\ UNCHANGED <<rooms, opMu, bound, target, holdVars, acct, current>>

\* The room half of expireResumeHold: the seat is released; losing the engine
\* host, the last member or the last human closes the room.
ReleaseSeat(t) ==
  /\ t \in expiring
  /\ expiring' = expiring \ {t}
  /\ LET r == lease[t].room
         left == ExpireDisconnected(rooms[r], t)
         engineLost == rooms[r].kind = "engine" /\ rooms[r].seats[0] = t
     IN  /\ OpFree(r)
         /\ IF ~Registered(r) \/ ~Member(rooms[r], t) THEN UNCHANGED <<rooms, bound>>
            ELSE IF engineLost THEN CloseRoom(r, Leave(rooms[r], t), t)
            ELSE IF ClosesOnExpiry(left) THEN CloseRoom(r, left, t)
            ELSE rooms' = [rooms EXCEPT ![r] = left] /\ UNCHANGED bound
  /\ UNCHANGED <<opMu, sessionVars, held, lease, due, armed, accountVars>>

\* removeRoom finally drops the holds of the room that left the registry.
PurgeHolds(r) ==
  /\ rooms[r].status = "closing"
  /\ rooms' = [rooms EXCEPT ![r].status = "removed"]
  /\ held' = {t \in held : lease[t].room # r}
  /\ UNCHANGED <<opMu, bound, sessionVars, lease, due, armed, expiring, accountVars>>

(***************************************************************************)
(* Room commands                                                           *)
(***************************************************************************)
\* A command that will work under the lock of room r.
Begin(c, step, r) ==
  /\ pc[c] = "idle" /\ Authorised(c)
  /\ Acquire(c)
  /\ target' = [target EXCEPT ![c] = r]
  /\ Goto(c, step)
  /\ UNCHANGED <<rooms, opMu, bound, want, holdVars, acct, current>>

\* Its work under the lock, after which the command is over.
Commit(c, step) ==
  /\ pc[c] = step
  /\ OpFree(target[c])
  /\ target' = [target EXCEPT ![c] = NoRoom]
  /\ UNCHANGED <<opMu, lease, due, armed, expiring, acct>>

\* The room changed, or it left the registry first and nothing happens.
Refuse(c) == Finish(c) /\ UNCHANGED <<rooms, bound, held, current>>

\* createRoom publishes a room with its creator bound to seat 0.
CreateRoom(c, r, kind) ==
  /\ pc[c] = "idle" /\ Authorised(c) /\ MayEnter(c)
  /\ rooms[r].status = "unused"
  /\ rooms' = [rooms EXCEPT ![r] =
       [status |-> "registered", kind |-> kind, spectators |-> {}, host |-> 0,
        seats |-> [Empty EXCEPT ![0] = c, ![1] = IF kind = "ai" THEN AI ELSE Free]]]
  /\ bound' = [bound EXCEPT ![c] = r]
  /\ UNCHANGED <<opMu, sessionVars, holdVars, accountVars>>

\* beginJoin reads the registry entry and checks the password unlocked.
BeginJoin(c, r) == Registered(r) /\ MayEnter(c) /\ Begin(c, "joining", r)

\* Mutant of JoinRoom: the registry entry is not checked again under the lock.
JoinStaleEntry(c) ==
  LET r == target[c]
      Enter(next) == /\ rooms' = [rooms EXCEPT ![r] = next]
                     /\ bound' = [bound EXCEPT ![c] = r]
                     /\ Finish(c)
                     /\ UNCHANGED <<held, current>>
  IN  /\ Commit(c, "joining")
      /\ \/ Occupied(rooms[r]) # Seat /\ Enter(Join(rooms[r], c))
         \/ Refuse(c)

JoinRoom(c) ==
  LET r == target[c]
      rm == rooms[r]
      Enter(next) == /\ Registered(r) /\ ~Member(rm, c)
                     /\ rooms' = [rooms EXCEPT ![r] = next]
                     /\ bound' = [bound EXCEPT ![c] = r]
                     /\ Finish(c)
                     /\ UNCHANGED <<held, current>>
  IN  /\ Commit(c, "joining")
      /\ \/ Occupied(rm) # Seat /\ Enter(Join(rm, c))
         \/ Cardinality(rm.spectators) < MaxSpectators /\ Enter(Watch(rm, c))
         \/ Refuse(c)

BeginLeave(c) == bound[c] # NoRoom /\ Begin(c, "leaving", bound[c])

LeaveRoom(c) ==
  LET r == target[c]
      rm == rooms[r]
      left == Leave(rm, c)
  IN  /\ Commit(c, "leaving")
      /\ UNCHANGED <<held, current>>
      /\ \/ /\ ~Registered(r) \/ ~Member(rm, c)
            /\ Finish(c) /\ UNCHANGED <<rooms, bound>>
         \/ /\ Registered(r) /\ Member(rm, c)
            /\ Finish(c)
            /\ \E closes \in CubeCloses(rm, c) :
                 IF closes \/ LeaveDisbands(rm, c) \/ IsEmpty(left)
                 THEN CloseRoom(r, left, c)
                 ELSE /\ rooms' = [rooms EXCEPT ![r] = left]
                      /\ bound' = [bound EXCEPT ![c] = NoRoom]

BeginDisband(c) == bound[c] # NoRoom /\ Begin(c, "disbanding", bound[c])

\* Only the host disbands a room on purpose.
DisbandRoom(c) ==
  LET r == target[c]
      rm == rooms[r]
  IN  /\ Commit(c, "disbanding")
      /\ UNCHANGED <<held, current>>
      /\ Finish(c)
      /\ IF Registered(r) /\ IsHost(rm, c)
         THEN CloseRoom(r, Vacate(rm, c), c)
         ELSE UNCHANGED <<rooms, bound>>

BeginKick(c) == bound[c] # NoRoom /\ Begin(c, "kicking", bound[c])

\* Mutant of KickMember: any member removes another one.
KickByMember(c) ==
  LET r == target[c]
      rm == rooms[r]
  IN  /\ Commit(c, "kicking")
      /\ \/ /\ Registered(r) /\ Member(rm, c)
            /\ \E d \in Conn \ {c} :
                 /\ Member(rm, d)
                 /\ rooms' = [rooms EXCEPT ![r] = Vacate(rm, d)]
                 /\ bound' = [bound EXCEPT ![d] = NoRoom]
            /\ Finish(c)
            /\ UNCHANGED <<held, current>>
         \/ Refuse(c)

\* The host removes a member other than itself and unbinds its live session.
KickMember(c) ==
  LET r == target[c]
      rm == rooms[r]
  IN  /\ Commit(c, "kicking")
      /\ \/ /\ Registered(r) /\ IsHost(rm, c)
            /\ \E d \in Conn \ {c} :
                 /\ Member(rm, d)
                 /\ rooms' = [rooms EXCEPT ![r] = Vacate(rm, d)]
                 /\ bound' = [bound EXCEPT ![d] = NoRoom]
            /\ Finish(c)
            /\ UNCHANGED <<held, current>>
         \/ Refuse(c)

(***************************************************************************)
(* Ending a session                                                        *)
(***************************************************************************)
ClearCurrent(c) ==
  current' = [a \in Account |-> IF current[a] = c THEN NoConn ELSE current[a]]

\* The read loop ended; the room is read before its lock is taken.
Drop(c) ==
  /\ pc[c] \in {"hello", "idle"}
  /\ acct[c] # NoAccount => accountMu[acct[c]] = NoConn
  /\ IF bound[c] = NoRoom
     THEN /\ Goto(c, "closed") /\ ClearCurrent(c)
          /\ UNCHANGED <<target, accountMu>>
     ELSE /\ Goto(c, "dropping") /\ Acquire(c)
          /\ target' = [target EXCEPT ![c] = bound[c]]
          /\ UNCHANGED current
  /\ UNCHANGED <<rooms, opMu, bound, want, holdVars, acct>>

\* holdForReconnect and unregisterSession.
DropHold(c) ==
  /\ pc[c] = "dropping"
  /\ Hold(c, target[c])
  /\ target' = [target EXCEPT ![c] = NoRoom]
  /\ Goto(c, "closed") /\ Release(c) /\ ClearCurrent(c)
  /\ UNCHANGED <<rooms, opMu, want, acct>>

\* Signing out, or revoking this device, leaves a hold behind as well.
BeginLogout(c) == acct[c] # NoAccount /\ Begin(c, "signingOut", bound[c])

Logout(c) ==
  /\ pc[c] = "signingOut"
  /\ IF target[c] = NoRoom THEN UNCHANGED <<bound, holdVars>> ELSE Hold(c, target[c])
  /\ target' = [target EXCEPT ![c] = NoRoom]
  /\ Finish(c) /\ ClearCurrent(c)
  /\ UNCHANGED <<rooms, opMu, acct>>

(***************************************************************************)
(* Specification                                                           *)
(***************************************************************************)
\* What a client decides to do.
ClientStep(c) ==
  \/ Connect(c) \/ HelloGuest(c) \/ Reclaim(c)
  \/ BeginLeave(c) \/ BeginDisband(c) \/ BeginKick(c) \/ BeginLogout(c) \/ Drop(c)
  \/ \E a \in Account : HelloAccount(c, a) \/ Login(c, a)
  \/ \E r \in Room : BeginJoin(c, r)
  \/ \E r \in Room, kind \in Kinds : CreateRoom(c, r, kind)

\* What the server's goroutine for c still has to do once it started.
SessionStep(c) ==
  \/ BindAccount(c) \/ ChooseToken(c) \/ TakeHold(c) \/ AdoptHold(c)
  \/ ScreenNavigation(c) \/ ResumeRoom(c) \/ ReadClock(c) \/ RestoreHold(c)
  \/ ExpireCall(c) \/ ExpireReturn(c)
  \/ JoinRoom(c) \/ LeaveRoom(c) \/ DisbandRoom(c) \/ KickMember(c) \/ DropHold(c) \/ Logout(c)

\* The hold's timer and the release of its seat.
ExpiryStep(t) == TimerFire(t) \/ ReleaseSeat(t)

Next ==
  \/ \E c \in Conn : ClientStep(c) \/ SessionStep(c) \/ PassDeadline(c) \/ ExpiryStep(c)
  \/ \E r \in Room : PurgeHolds(r)

Spec == Init /\ [][Next]_vars

\* Goroutines run, timers fire and time passes; clients promise nothing.
Fairness ==
  /\ \A c \in Conn : /\ WF_vars(SessionStep(c)) /\ WF_vars(PassDeadline(c))
                     /\ WF_vars(TimerFire(c)) /\ WF_vars(ReleaseSeat(c))
  /\ \A r \in Room : WF_vars(PurgeHolds(r))

LiveSpec == Spec /\ Fairness

(***************************************************************************)
(* Properties                                                              *)
(***************************************************************************)
RoomState ==
  [status : {"unused", "registered", "closing", "removed"}, kind : AllKinds,
   seats : [Seat -> Conn \cup {AI, Free}], spectators : SUBSET Conn,
   host : Seat \cup {NoSeat}]

Steps == {"off", "hello", "idle", "closed", "binding", "attaching", "choosing", "taking",
          "reclaiming", "expireCall", "expireWait", "joining", "leaving", "disbanding", "kicking",
          "dropping", "signingOut"} \cup Carrying

\* Every variable keeps the shape of the Go state it stands for.
TypeOK ==
  /\ rooms \in [Room -> RoomState]
  /\ opMu \in [Room -> Conn \cup {NoConn}]
  /\ pc \in [Conn -> Steps]
  /\ bound \in [Conn -> Room \cup {NoRoom}]
  /\ acct \in [Conn -> Account \cup {NoAccount}]
  /\ target \in [Conn -> Room \cup {NoRoom}]
  /\ want \in [Conn -> Conn \cup {NoConn}]
  /\ held \in SUBSET Conn
  /\ lease \in [Conn -> [room : Room \cup {NoRoom}, acct : Account \cup {NoAccount}]]
  /\ due \in SUBSET Conn
  /\ armed \in SUBSET Conn
  /\ expiring \in SUBSET Conn
  /\ current \in [Account -> Conn \cup {NoConn}]
  /\ accountMu \in [Account -> Conn \cup {NoConn}]

\* A session believes it is in a room only when that room is registered and
\* lists it: no session is left stuck in a room that is gone or threw it out.
BoundIsMember ==
  \A c \in Conn : bound[c] # NoRoom => Registered(bound[c]) /\ Member(rooms[bound[c]], c)

\* No zombie seats: each membership of a registered room belongs to a live
\* session, or to a hold that can still be resumed, is being resumed or is
\* being released.
EveryMemberHasAnOwner ==
  \A r \in Room : Registered(r) => \A c \in Conn : Member(rooms[r], c) =>
    \/ bound[c] = r
    \/ c \in held \cup expiring /\ lease[c].room = r
    \/ \E d \in Conn : Carries(d, c) /\ lease[c].room = r

\* A resume token is spent at most once: it is in the map, with one resuming
\* goroutine or with the expiry, never in two of these places, and never while
\* the session it was issued to is still in a room.
TokenSpentOnce ==
  /\ held \cap expiring = {}
  /\ \A t \in held \cup expiring : bound[t] = NoRoom
  /\ \A c, t \in Conn : Carries(c, t) =>
       /\ t \notin held \cup expiring /\ bound[t] = NoRoom
       /\ \A d \in Conn : Carries(d, t) => d = c

\* The host of a registered room is one of its seated humans, and there is one
\* as long as a human is seated.
HostIsSeated ==
  \A r \in Room : Registered(r) =>
    IF Humans(rooms[r]) = {} THEN rooms[r].host = NoSeat ELSE rooms[r].host \in Humans(rooms[r])

\* A registered room has somebody in it, and a room with an AI has a human
\* player: the hub never keeps a room that nobody can close.
RoomIsInhabited ==
  \A r \in Room : Registered(r) =>
    /\ \E c \in Conn : Member(rooms[r], c)
    /\ HasAI(rooms[r]) => Humans(rooms[r]) # {}

\* The rooms in which account a owns a player seat that has not run out.
SeatsOf(a) ==
  {r \in Room : Registered(r) /\ \E c \in Conn : Seated(rooms[r], c) /\
     \/ bound[c] = r /\ acct[c] = a
     \/ lease[c] = [room |-> r, acct |-> a] /\ c \notin due
          /\ (c \in held \/ \E d \in Conn : Carries(d, c))}

\* An account never owns player seats in two rooms at once, however it signs
\* in, loses its connection, reclaims or adopts a seat.
OneSeatPerAccount == \A a \in Account : Cardinality(SeatsOf(a)) <= 1

\* A dropped member keeps its place until its deadline, unless a successor
\* resumes it, the host removes it or the room closes.
SeatSurvivesDrop ==
  [][\A r \in Room, t \in Conn :
       /\ Registered(r) /\ Registered(r)' /\ t \in held /\ t \notin due
       /\ Member(rooms[r], t)
       => \/ Member(rooms[r], t)'
          \/ \E c \in Conn : IsHost(rooms[r], c) /\ pc[c] = "kicking" /\ pc'[c] = "idle"]_vars

\* A session whose account moved to another connection can only lose its room.
ReplacedGainsNothing ==
  [][\A c \in Conn : acct[c] # NoAccount /\ pc[c] \notin {"binding", "attaching"}
                     /\ current[acct[c]] # c => bound'[c] \in {bound[c], NoRoom}]_vars

\* A hold does not outlive its reconnect window for ever: it is resumed or
\* released, or it goes with its room, whatever resumes fail.
HoldIsReleased == \A t \in Conn : (t \in held) ~> (t \notin held)

\* A hold is resumed, released or goes with its room, unless its only timer ran
\* while a failing resume carried it; and an expiry that has begun gets the lock
\* of its room and releases the seat.
HoldRunsOut ==
  \A t \in Conn :
    /\ t \in held ~> t \notin held \/ t \in due \ armed
    /\ t \in expiring ~> t \notin expiring

\* Every command that starts comes to its end: no two goroutines wait for each
\* other's account, room or hold.
CommandsFinish ==
  \A c \in Conn : pc[c] \notin {"off", "hello", "idle"} ~> pc[c] \in {"idle", "closed"}
=============================================================================
