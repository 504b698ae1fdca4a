-------------------------- MODULE RoomSessionTypes --------------------------
(***************************************************************************)
(* First half of the proofs about RoomSession: what the room reducers      *)
(* return, and that the types, the account locks and the rooms a command   *)
(* or a hold refers to stay well formed.  TypeOK is not inductive alone: a *)
(* resumed token and the room of a hold are only known to exist because of *)
(* the step the goroutine is at, and the session replaced by an account    *)
(* binding because the account's lock keeps it there.                      *)
(***************************************************************************)
EXTENDS RoomSession, WellFoundedInduction, TLAPS

(***************************************************************************)
(* The inductive invariant                                                 *)
(***************************************************************************)
\* Steps at which the goroutine works on the token in "want".
Wanting == Carrying \cup {"taking", "reclaiming", "expireCall", "expireWait"}
WantsAToken == \A c \in Conn : pc[c] \in Wanting => want[c] \in Conn

\* Holds and the commands that lock a room name a room of the hub.
HoldsPointToRooms ==
  /\ \A t \in held \cup expiring : lease[t].room \in Room
  /\ \A c \in Conn : pc[c] \in Carrying => lease[want[c]].room \in Room

TargetsARoom ==
  \A c \in Conn :
    pc[c] \in {"joining", "leaving", "disbanding", "kicking", "dropping"} => target[c] \in Room

\* The account lock: the goroutine of an account session that is in the middle
\* of something holds it, and only its holder moves the account.
Busy(c) == pc[c] \notin {"off", "hello", "idle", "closed"}

AccountLocked ==
  /\ \A c \in Conn : acct[c] \in Account /\ Busy(c) => accountMu[acct[c]] = c
  /\ \A c \in Conn : pc[c] \in {"off", "hello"} => acct[c] = NoAccount
  /\ \A c \in Conn : pc[c] \in {"binding", "attaching"} =>
       /\ acct[c] \in Account
       /\ target[c] # NoRoom => current[acct[c]] \in Conn \ {c}
  /\ \A a \in Account, c \in Conn : current[a] = c =>
       acct[c] = a /\ pc[c] \notin {"off", "hello", "closed"}

TypeInv == TypeOK /\ WantsAToken /\ HoldsPointToRooms /\ TargetsARoom /\ AccountLocked

(***************************************************************************)
(* What the room reducers return                                           *)
(***************************************************************************)
\* Lowest picks a member of any non-empty set of seats.
LEMMA LowestIsMember ==
  ASSUME NEW S \in SUBSET Seat, S # {}
  PROVE  Lowest(S) \in S
<1>1. S \subseteq Nat
  BY SeatAssumption DEF Seat
<1>2. PICK s \in S : \A t \in S : ~ (<<t, s>> \in OpToRel(<, Nat))
  BY <1>1, NatLessThanWellFounded, WFMin, Zenon
<1>3. OpToRel(<, Nat) = {p \in Nat \X Nat : p[1] < p[2]}
  BY Zenon DEF OpToRel
<1>4. \A t \in S : ~ (t < s)
  <2>1. SUFFICES ASSUME NEW t \in S, t < s PROVE FALSE
    OBVIOUS
  <2>2. <<t, s>> \in {p \in Nat \X Nat : p[1] < p[2]}
    BY <1>1, <2>1
  <2>3. QED
    BY <1>2, <1>3, <2>2
<1>5. \A t \in S : s <= t
  BY <1>1, <1>4
<1>6. QED
  BY <1>5 DEF Lowest

\* Moving the host role leaves a well-formed room.
LEMMA TransferHostType ==
  ASSUME NEW rm \in RoomState
  PROVE  TransferHost(rm) \in RoomState
<1>1. Humans(rm) \in SUBSET Seat
  BY DEF Humans
<1>2. CASE Humans(rm) = {}
  BY <1>2 DEF TransferHost, RoomState, NoSeat
<1>3. CASE Humans(rm) # {}
  <2>1. Lowest(Humans(rm)) \in Seat
    BY <1>1, <1>3, LowestIsMember
  <2>2. QED
    BY <1>3, <2>1 DEF TransferHost, RoomState
<1>4. QED
  BY <1>2, <1>3

\* ... and so does removing a member,
LEMMA VacateType ==
  ASSUME NEW rm \in RoomState, NEW c \in Conn
  PROVE  Vacate(rm, c) \in RoomState
BY DEF Vacate, RoomState, Free

\* seating a player in the first free seat,
LEMMA JoinType ==
  ASSUME NEW rm \in RoomState, NEW c \in Conn, Occupied(rm) # Seat
  PROVE  Join(rm, c) \in RoomState
<1>1. Lowest(Seat \ Occupied(rm)) \in Seat
  <2>1. Seat \ Occupied(rm) # {} /\ Seat \ Occupied(rm) \in SUBSET Seat
    BY DEF Occupied
  <2>2. QED
    BY <2>1, LowestIsMember
<1>2. QED
  BY <1>1 DEF Join, RoomState

\* leaving a room or losing the seat of an expired hold,
LEMMA LeaveType ==
  ASSUME NEW rm \in RoomState, NEW c \in Conn
  PROVE  Leave(rm, c) \in RoomState /\ ExpireDisconnected(rm, c) \in RoomState
BY VacateType, TransferHostType DEF Leave, ExpireDisconnected

\* rebinding a membership to its successor
LEMMA ReconnectType ==
  ASSUME NEW rm \in RoomState, NEW old \in Conn, NEW new \in Conn
  PROVE  Reconnect(rm, old, new) \in RoomState
BY DEF Reconnect, RoomState

\* and emptying the room that left the registry.
LEMMA ClosedType ==
  ASSUME NEW rm \in RoomState
  PROVE  Closed(rm, "closing") \in RoomState
BY DEF Closed, RoomState, Empty, Free, NoSeat

(***************************************************************************)
(* What the shared pieces of the actions leave behind                      *)
(***************************************************************************)
\* holdForReconnect keeps the types of all it touches.
LEMMA HoldType ==
  ASSUME TypeOK, NEW s \in Conn, NEW r \in Room, Hold(s, r)
  PROVE  /\ bound' \in [Conn -> Room \cup {NoRoom}]
         /\ held' \in SUBSET Conn
         /\ armed' \in SUBSET Conn
         /\ lease' \in [Conn -> [room : Room \cup {NoRoom}, acct : Account \cup {NoAccount}]]
         /\ due' \in SUBSET Conn
         /\ expiring' \in SUBSET Conn
BY DEF Hold, TypeOK

\* Closing a room keeps the types of rooms and bindings.
LEMMA CloseRoomType ==
  ASSUME TypeOK, NEW r \in Room, NEW rm \in RoomState, NEW c \in Conn, CloseRoom(r, rm, c)
  PROVE  /\ rooms' \in [Room -> RoomState]
         /\ bound' \in [Conn -> Room \cup {NoRoom}]
<1>1. Closed(rm, "closing") \in RoomState
  BY ClosedType
<1>2. rooms' \in [Room -> RoomState]
  BY <1>1 DEF CloseRoom, TypeOK
<1>3. bound' = [d \in Conn |-> IF d = c \/ Member(rm, d) THEN NoRoom ELSE bound[d]]
  BY DEF CloseRoom
<1>4. bound \in [Conn -> Room \cup {NoRoom}]
  BY DEF TypeOK
<1>5. QED
  BY <1>2, <1>3, <1>4

\* Ending a command keeps the types of the goroutine and the account locks.
LEMMA FinishType ==
  ASSUME TypeOK, NEW c \in Conn, Finish(c)
  PROVE  /\ pc' \in [Conn -> Steps]
         /\ want' \in [Conn -> Conn \cup {NoConn}]
         /\ accountMu' \in [Account -> Conn \cup {NoConn}]
BY DEF Finish, Release, TypeOK, Steps

\* A goroutine that goes on is at a known step.
LEMMA GotoType ==
  ASSUME TypeOK, NEW c \in Conn, NEW step \in Steps, Goto(c, step)
  PROVE  pc' \in [Conn -> Steps]
BY DEF Goto, TypeOK

\* Taking the account's lock keeps the types of the locks.
LEMMA AcquireType ==
  ASSUME TypeOK, NEW c \in Conn, Acquire(c)
  PROVE  accountMu' \in [Account -> Conn \cup {NoConn}]
BY DEF Acquire, TypeOK

\* A command that ends, or goes on under its lock, keeps the account discipline.
LEMMA LocksAfterFinish ==
  ASSUME TypeInv, NEW c \in Conn, Finish(c), pc[c] \notin {"off", "hello", "closed"},
         UNCHANGED <<acct, current>>, target' \in {target, [target EXCEPT ![c] = NoRoom]}
  PROVE  AccountLocked'
<1>1. /\ \A d \in Conn : pc'[d] = IF d = c THEN "idle" ELSE pc[d]
      /\ \A a \in Account : accountMu'[a] = IF accountMu[a] = c THEN NoConn ELSE accountMu[a]
      /\ \A d \in Conn \ {c} : target'[d] = target[d]
  BY DEF Finish, Release, TypeInv, TypeOK
<1>2. QED
  BY <1>1 DEF TypeInv, AccountLocked, Busy

\* A command that goes on at a working step keeps its account lock.
LEMMA LocksAfterContinue ==
  ASSUME TypeInv, NEW c \in Conn, NEW step \in Steps, Continue(c, step), Busy(c),
         step \notin {"off", "hello", "idle", "closed", "binding", "attaching"},
         UNCHANGED <<acct, current, target>>
  PROVE  AccountLocked'
<1>1. \A d \in Conn : pc'[d] = IF d = c THEN step ELSE pc[d]
  BY DEF Continue, Goto, TypeInv, TypeOK
<1>2. QED
  BY <1>1 DEF TypeInv, AccountLocked, Busy, Continue

\* A session that ends, or signs out, gives up its account and its locks.
LEMMA LocksAfterClearing ==
  ASSUME TypeInv, NEW c \in Conn, NEW step \in {"idle", "closed"},
         \A d \in Conn : pc'[d] = IF d = c THEN step ELSE pc[d],
         \A a \in Account : current'[a] = IF current[a] = c THEN NoConn ELSE current[a],
         \A a \in Account : accountMu'[a] = IF accountMu[a] = c THEN NoConn ELSE accountMu[a],
         acct' = acct, \A d \in Conn \ {c} : target'[d] = target[d],
         \A d \in Conn \ {c} : acct[d] \in Account /\ Busy(d) => current[acct[d]] # c
  PROVE  AccountLocked'
<1> USE ConnAssumption, AccountAssumption DEF TypeInv, AccountLocked, Busy
<1>1. ASSUME NEW d \in Conn, acct'[d] \in Account, Busy(d)' PROVE accountMu'[acct'[d]] = d
  BY <1>1
<1>2. ASSUME NEW d \in Conn, pc'[d] \in {"off", "hello"} PROVE acct'[d] = NoAccount
  BY <1>2
<1>3. ASSUME NEW d \in Conn, pc'[d] \in {"binding", "attaching"}
      PROVE  /\ acct'[d] \in Account
             /\ target'[d] # NoRoom => current'[acct'[d]] \in Conn \ {d}
  BY <1>3
<1>4. ASSUME NEW a \in Account, NEW d \in Conn, current'[a] = d
      PROVE  acct'[d] = a /\ pc'[d] \notin {"off", "hello", "closed"}
  BY <1>4
<1>5. QED
  BY <1>1, <1>2, <1>3, <1>4

\* A new hold stores the room it was made in and changes no other hold.
LEMMA HoldLeases ==
  ASSUME TypeOK, NEW s \in Conn, NEW r \in Room, Hold(s, r)
  PROVE  /\ \A t \in Conn \ {s} : lease'[t] = lease[t]
         /\ lease'[s] = lease[s] \/ lease'[s].room = r
         /\ held' = held \/ (held' = held \cup {s} /\ lease'[s].room = r)
         /\ expiring' = expiring
BY DEF Hold, TypeOK

(***************************************************************************)
(* Every step preserves each part                                          *)
(***************************************************************************)
\* Every step keeps the types.
LEMMA TypeOKStep ==
  TypeInv /\ [Next]_vars => TypeOK'
<1> SUFFICES ASSUME TypeInv, [Next]_vars PROVE TypeOK'
  OBVIOUS
<1> USE DEF TypeInv, sessionVars, holdVars, accountVars, Steps, Carrying
<1>1. ASSUME NEW c \in Conn, Connect(c) PROVE TypeOK'
  BY <1>1 DEF Connect, Goto, TypeOK
<1>2. ASSUME NEW c \in Conn, HelloGuest(c) PROVE TypeOK'
  BY <1>2 DEF HelloGuest, Presentable, Goto, TypeOK
<1>3. ASSUME NEW c \in Conn, NEW a \in Account, HelloAccount(c, a) PROVE TypeOK'
  BY <1>3 DEF HelloAccount, BeginBinding, ReplacedRoom, Replaced, Presentable, Goto, TypeOK
<1>4. ASSUME NEW c \in Conn, NEW a \in Account, Login(c, a) PROVE TypeOK'
  BY <1>4 DEF Login, BeginBinding, ReplacedRoom, Replaced, Goto, TypeOK
<1>5. ASSUME NEW c \in Conn, Reclaim(c) PROVE TypeOK'
  BY <1>5 DEF Reclaim, Authorised, AccountHolds, Acquire, Goto, TypeOK
<1>6. ASSUME NEW c \in Conn, NEW r \in Room, NEW kind \in Kinds, CreateRoom(c, r, kind)
      PROVE  TypeOK'
  <2>1. [Empty EXCEPT ![0] = c, ![1] = IF kind = "ai" THEN AI ELSE Free]
          \in [Seat -> Conn \cup {AI, Free}]
    BY SeatAssumption DEF Empty, Seat, Free
  <2>2. kind \in AllKinds /\ 0 \in Seat
    BY KindAssumption, SeatAssumption DEF Seat
  <2>3. rooms' \in [Room -> RoomState]
    BY <1>6, <2>1, <2>2 DEF CreateRoom, TypeOK, RoomState
  <2>4. QED
    BY <1>6, <2>3 DEF CreateRoom, TypeOK
<1>7. ASSUME NEW c \in Conn, NEW r \in Room, BeginJoin(c, r) PROVE TypeOK'
  BY <1>7 DEF BeginJoin, Begin, Authorised, MayEnter, Acquire, Goto, TypeOK
<1>8. ASSUME NEW c \in Conn, BeginLeave(c) PROVE TypeOK'
  BY <1>8 DEF BeginLeave, Begin, Authorised, Acquire, Goto, TypeOK
<1>9. ASSUME NEW c \in Conn, BeginDisband(c) PROVE TypeOK'
  BY <1>9 DEF BeginDisband, Begin, Authorised, Acquire, Goto, TypeOK
<1>10. ASSUME NEW c \in Conn, BeginKick(c) PROVE TypeOK'
  BY <1>10 DEF BeginKick, Begin, Authorised, Acquire, Goto, TypeOK
<1>11. ASSUME NEW c \in Conn, BeginLogout(c) PROVE TypeOK'
  BY <1>11 DEF BeginLogout, Begin, Authorised, Acquire, Goto, TypeOK
<1>12. ASSUME NEW c \in Conn, Drop(c) PROVE TypeOK'
  <2>1. CASE bound[c] = NoRoom
    BY <1>12, <2>1 DEF Drop, Goto, ClearCurrent, TypeOK
  <2>2. CASE bound[c] # NoRoom
    BY <1>12, <2>2, AcquireType, GotoType DEF Drop, TypeOK
  <2>3. QED
    BY <2>1, <2>2
<1>13. ASSUME NEW c \in Conn, BindAccount(c) PROVE TypeOK'
  <2>1. /\ pc' \in [Conn -> Steps]
        /\ want' \in [Conn -> Conn \cup {NoConn}]
        /\ accountMu' \in [Account -> Conn \cup {NoConn}]
    BY <1>13, FinishType DEF BindAccount, Continue, Goto, TypeOK
  <2>2. /\ bound' \in [Conn -> Room \cup {NoRoom}]
        /\ held' \in SUBSET Conn /\ armed' \in SUBSET Conn
        /\ due' \in SUBSET Conn /\ expiring' \in SUBSET Conn
        /\ lease' \in [Conn -> [room : Room \cup {NoRoom}, acct : Account \cup {NoAccount}]]
    <3>1. CASE target[c] = NoRoom
      BY <1>13, <3>1 DEF BindAccount, TypeOK
    <3>2. CASE target[c] # NoRoom
      <4>1. current[acct[c]] \in Conn /\ target[c] \in Room
        BY <1>13, <3>2 DEF BindAccount, TypeOK, AccountLocked
      <4>2. Hold(current[acct[c]], target[c])
        BY <1>13, <3>2 DEF BindAccount
      <4>3. QED
        BY <4>1, <4>2, HoldType
    <3>3. QED
      BY <3>1, <3>2
  <2>3. current' \in [Account -> Conn \cup {NoConn}] /\ target' \in [Conn -> Room \cup {NoRoom}]
    BY <1>13 DEF BindAccount, TypeOK
  <2>4. QED
    BY <1>13, <2>1, <2>2, <2>3 DEF BindAccount, TypeOK
<1>14. ASSUME NEW c \in Conn, ChooseToken(c) PROVE TypeOK'
  <2>1. PICK t \in Conn \cup {NoConn} :
          IF t = NoConn THEN Finish(c)
          ELSE /\ Goto(c, "taking")
               /\ want' = [want EXCEPT ![c] = t]
               /\ UNCHANGED accountMu
    BY <1>14 DEF ChooseToken, AccountHolds, TypeOK
  <2>2. CASE t = NoConn
    BY <1>14, <2>1, <2>2, FinishType DEF ChooseToken, TypeOK
  <2>3. CASE t # NoConn
    <3>1. want' \in [Conn -> Conn \cup {NoConn}] /\ accountMu' = accountMu
      BY <2>1, <2>3 DEF TypeOK
    <3>2. pc' \in [Conn -> Steps]
      BY <2>1, <2>3, GotoType
    <3>3. QED
      BY <1>14, <3>1, <3>2 DEF ChooseToken, TypeOK
  <2>4. QED
    BY <2>2, <2>3
<1>15. ASSUME NEW c \in Conn, TakeHold(c) PROVE TypeOK'
  <2>1. /\ pc' \in [Conn -> Steps]
        /\ want' \in [Conn -> Conn \cup {NoConn}]
        /\ accountMu' \in [Account -> Conn \cup {NoConn}]
    BY <1>15, FinishType DEF TakeHold, Continue, Goto, TypeOK
  <2>2. held' \in SUBSET Conn
    BY <1>15 DEF TakeHold, TypeOK
  <2>3. QED
    BY <1>15, <2>1, <2>2 DEF TakeHold, TypeOK
<1>16. ASSUME NEW c \in Conn, AdoptHold(c) PROVE TypeOK'
  <2>1. lease' \in [Conn -> [room : Room \cup {NoRoom}, acct : Account \cup {NoAccount}]]
    BY <1>16 DEF AdoptHold, TypeOK
  <2>2. pc' \in [Conn -> Steps]
    BY <1>16 DEF AdoptHold, Goto, TypeOK
  <2>3. QED
    BY <1>16, <2>1, <2>2 DEF AdoptHold, TypeOK
<1>17. ASSUME NEW c \in Conn, ScreenNavigation(c) PROVE TypeOK'
  BY <1>17 DEF ScreenNavigation, Goto, TypeOK
<1>18. ASSUME NEW c \in Conn, ResumeRoom(c) PROVE TypeOK'
  <2>1. /\ pc' \in [Conn -> Steps]
        /\ want' \in [Conn -> Conn \cup {NoConn}]
        /\ accountMu' \in [Account -> Conn \cup {NoConn}]
    BY <1>18, FinishType DEF ResumeRoom, Continue, Goto, TypeOK
  <2>2. want[c] \in Conn /\ lease[want[c]].room \in Room
    BY <1>18 DEF ResumeRoom, WantsAToken, Wanting, HoldsPointToRooms
  <2>3. Reconnect(rooms[lease[want[c]].room], want[c], c) \in RoomState
    BY <2>2, ReconnectType DEF TypeOK
  <2>4. /\ rooms' \in [Room -> RoomState]
        /\ bound' \in [Conn -> Room \cup {NoRoom}]
        /\ opMu' \in [Room -> Conn \cup {NoConn}]
    BY <1>18, <2>2, <2>3 DEF ResumeRoom, TypeOK
  <2>5. QED
    BY <1>18, <2>1, <2>4 DEF ResumeRoom, TypeOK
<1>19. ASSUME NEW c \in Conn, ReadClock(c) PROVE TypeOK'
  BY <1>19 DEF ReadClock, Goto, TypeOK
<1>20. ASSUME NEW c \in Conn, RestoreHold(c) PROVE TypeOK'
  <2>1. /\ pc' \in [Conn -> Steps]
        /\ want' \in [Conn -> Conn \cup {NoConn}]
        /\ accountMu' \in [Account -> Conn \cup {NoConn}]
    BY <1>20, FinishType DEF RestoreHold, Continue, Goto, TypeOK
  <2>2. held' \in SUBSET Conn
    BY <1>20 DEF RestoreHold, TypeOK, WantsAToken, Wanting
  <2>3. opMu' \in [Room -> Conn \cup {NoConn}]
    BY <1>20 DEF RestoreHold, TypeOK
  <2>4. QED
    BY <1>20, <2>1, <2>2, <2>3 DEF RestoreHold, TypeOK
<1>21. ASSUME NEW c \in Conn, ExpireCall(c) PROVE TypeOK'
  <2>1. /\ pc' \in [Conn -> Steps]
        /\ want' \in [Conn -> Conn \cup {NoConn}]
        /\ accountMu' \in [Account -> Conn \cup {NoConn}]
    BY <1>21, FinishType DEF ExpireCall, Continue, Goto, TypeOK
  <2>2. held' \in SUBSET Conn /\ expiring' \in SUBSET Conn
    BY <1>21 DEF ExpireCall, BeginExpiry, TypeOK
  <2>3. QED
    BY <1>21, <2>1, <2>2 DEF ExpireCall, BeginExpiry, TypeOK
<1>22. ASSUME NEW c \in Conn, ExpireReturn(c) PROVE TypeOK'
  BY <1>22 DEF ExpireReturn, Finish, Release, TypeOK
<1>23. ASSUME NEW c \in Conn, JoinRoom(c) PROVE TypeOK'
  <2> DEFINE r == target[c]
  <2>1. r \in Room /\ rooms[r] \in RoomState
    BY <1>23 DEF JoinRoom, Commit, TargetsARoom, TypeOK
  <2>2. Occupied(rooms[r]) # Seat => Join(rooms[r], c) \in RoomState
    BY <2>1, JoinType
  <2>3. Watch(rooms[r], c) \in RoomState
    BY <2>1 DEF Watch, RoomState
  <2>4. /\ rooms' \in [Room -> RoomState]
        /\ bound' \in [Conn -> Room \cup {NoRoom}]
    BY <1>23, <2>1, <2>2, <2>3 DEF JoinRoom, Refuse, TypeOK
  <2>5. Finish(c) /\ Commit(c, "joining") /\ UNCHANGED <<held, current>>
    BY <1>23 DEF JoinRoom, Refuse
  <2>6. target' \in [Conn -> Room \cup {NoRoom}]
    BY <2>5 DEF Commit, TypeOK
  <2>7. QED
    BY <2>4, <2>5, <2>6, FinishType DEF Commit, TypeOK
<1>24. ASSUME NEW c \in Conn, LeaveRoom(c) PROVE TypeOK'
  <2> DEFINE r == target[c]
  <2>1. r \in Room /\ rooms[r] \in RoomState
    BY <1>24 DEF LeaveRoom, Commit, TargetsARoom, TypeOK
  <2>2. Leave(rooms[r], c) \in RoomState
    BY <2>1, LeaveType
  <2>3. /\ rooms' \in [Room -> RoomState]
        /\ bound' \in [Conn -> Room \cup {NoRoom}]
    <3>1. CASE CloseRoom(r, Leave(rooms[r], c), c)
      BY <2>1, <2>2, <3>1, CloseRoomType
    <3>2. CASE /\ rooms' = [rooms EXCEPT ![r] = Leave(rooms[r], c)]
               /\ bound' = [bound EXCEPT ![c] = NoRoom]
      BY <2>1, <2>2, <3>2 DEF TypeOK
    <3>3. CASE UNCHANGED <<rooms, bound>>
      BY <3>3 DEF TypeOK
    <3>4. QED
      BY <1>24, <3>1, <3>2, <3>3 DEF LeaveRoom
  <2>4. Finish(c) /\ Commit(c, "leaving") /\ UNCHANGED <<held, current>>
    BY <1>24 DEF LeaveRoom
  <2>5. target' \in [Conn -> Room \cup {NoRoom}]
    BY <2>4 DEF Commit, TypeOK
  <2>6. QED
    BY <2>3, <2>4, <2>5, FinishType DEF Commit, TypeOK
<1>25. ASSUME NEW c \in Conn, DisbandRoom(c) PROVE TypeOK'
  <2> DEFINE r == target[c]
  <2>1. r \in Room /\ rooms[r] \in RoomState
    BY <1>25 DEF DisbandRoom, Commit, TargetsARoom, TypeOK
  <2>2. Vacate(rooms[r], c) \in RoomState
    BY <2>1, VacateType
  <2>3. /\ rooms' \in [Room -> RoomState]
        /\ bound' \in [Conn -> Room \cup {NoRoom}]
    <3>1. CASE CloseRoom(r, Vacate(rooms[r], c), c)
      BY <2>1, <2>2, <3>1, CloseRoomType
    <3>2. CASE UNCHANGED <<rooms, bound>>
      BY <3>2 DEF TypeOK
    <3>3. QED
      BY <1>25, <3>1, <3>2 DEF DisbandRoom
  <2>4. Finish(c) /\ Commit(c, "disbanding") /\ UNCHANGED <<held, current>>
    BY <1>25 DEF DisbandRoom
  <2>5. target' \in [Conn -> Room \cup {NoRoom}]
    BY <2>4 DEF Commit, TypeOK
  <2>6. QED
    BY <2>3, <2>4, <2>5, FinishType DEF Commit, TypeOK
<1>26. ASSUME NEW c \in Conn, KickMember(c) PROVE TypeOK'
  <2> DEFINE r == target[c]
  <2>1. r \in Room /\ rooms[r] \in RoomState
    BY <1>26 DEF KickMember, Commit, TargetsARoom, TypeOK
  <2>2. \A d \in Conn : Vacate(rooms[r], d) \in RoomState
    BY <2>1, VacateType
  <2>3. /\ rooms' \in [Room -> RoomState]
        /\ bound' \in [Conn -> Room \cup {NoRoom}]
    BY <1>26, <2>1, <2>2 DEF KickMember, Refuse, TypeOK
  <2>4. Finish(c) /\ Commit(c, "kicking") /\ UNCHANGED <<held, current>>
    BY <1>26 DEF KickMember, Refuse
  <2>5. target' \in [Conn -> Room \cup {NoRoom}]
    BY <2>4 DEF Commit, TypeOK
  <2>6. QED
    BY <2>3, <2>4, <2>5, FinishType DEF Commit, TypeOK
<1>27. ASSUME NEW c \in Conn, DropHold(c) PROVE TypeOK'
  <2>1. target[c] \in Room /\ Hold(c, target[c])
    BY <1>27 DEF DropHold, TargetsARoom
  <2>2. pc' \in [Conn -> Steps]
    BY <1>27, GotoType DEF DropHold
  <2>3. /\ accountMu' \in [Account -> Conn \cup {NoConn}]
        /\ current' \in [Account -> Conn \cup {NoConn}]
        /\ target' \in [Conn -> Room \cup {NoRoom}]
    BY <1>27 DEF DropHold, Release, ClearCurrent, TypeOK
  <2>4. QED
    BY <1>27, <2>1, <2>2, <2>3, HoldType DEF DropHold, TypeOK
<1>28. ASSUME NEW c \in Conn, Logout(c) PROVE TypeOK'
  <2>1. /\ bound' \in [Conn -> Room \cup {NoRoom}]
        /\ held' \in SUBSET Conn /\ armed' \in SUBSET Conn
        /\ due' \in SUBSET Conn /\ expiring' \in SUBSET Conn
        /\ lease' \in [Conn -> [room : Room \cup {NoRoom}, acct : Account \cup {NoAccount}]]
    <3>1. CASE target[c] = NoRoom
      BY <1>28, <3>1 DEF Logout, TypeOK
    <3>2. CASE target[c] # NoRoom
      <4>1. target[c] \in Room /\ Hold(c, target[c])
        BY <1>28, <3>2 DEF Logout, TypeOK
      <4>2. QED
        BY <4>1, HoldType
    <3>3. QED
      BY <3>1, <3>2
  <2>2. /\ current' \in [Account -> Conn \cup {NoConn}]
        /\ target' \in [Conn -> Room \cup {NoRoom}]
    BY <1>28 DEF Logout, ClearCurrent, TypeOK
  <2>3. QED
    BY <1>28, <2>1, <2>2, FinishType DEF Logout, TypeOK
<1>29. ASSUME NEW c \in Conn, PassDeadline(c) PROVE TypeOK'
  BY <1>29 DEF PassDeadline, TypeOK
<1>30. ASSUME NEW c \in Conn, TimerFire(c) PROVE TypeOK'
  BY <1>30 DEF TimerFire, BeginExpiry, TypeOK
<1>31. ASSUME NEW c \in Conn, ReleaseSeat(c) PROVE TypeOK'
  <2> DEFINE r == lease[c].room
             left == ExpireDisconnected(rooms[r], c)
  <2>1. r \in Room /\ rooms[r] \in RoomState
    BY <1>31 DEF ReleaseSeat, HoldsPointToRooms, TypeOK
  <2>2. left \in RoomState /\ Leave(rooms[r], c) \in RoomState
    BY <2>1, LeaveType
  <2>3. /\ rooms' \in [Room -> RoomState]
        /\ bound' \in [Conn -> Room \cup {NoRoom}]
    <3>1. CASE CloseRoom(r, left, c)
      BY <2>1, <2>2, <3>1, CloseRoomType
    <3>2. CASE CloseRoom(r, Leave(rooms[r], c), c)
      BY <2>1, <2>2, <3>2, CloseRoomType
    <3>3. CASE rooms' = [rooms EXCEPT ![r] = left] /\ UNCHANGED bound
      BY <2>1, <2>2, <3>3 DEF TypeOK
    <3>4. CASE UNCHANGED <<rooms, bound>>
      BY <3>4 DEF TypeOK
    <3>5. QED
      BY <1>31, <3>1, <3>2, <3>3, <3>4 DEF ReleaseSeat
  <2>4. QED
    BY <1>31, <2>3 DEF ReleaseSeat, TypeOK
<1>32. ASSUME NEW r \in Room, PurgeHolds(r) PROVE TypeOK'
  <2>0. rooms[r] \in RoomState
    BY DEF TypeOK
  <2>1. [rooms[r] EXCEPT !.status = "removed"] \in RoomState
    BY <2>0 DEF RoomState
  <2>4. rooms' \in [Room -> RoomState]
    BY <1>32, <2>1 DEF PurgeHolds, TypeOK
  <2>2. held' \in SUBSET Conn
    BY <1>32 DEF PurgeHolds, TypeOK
  <2>3. QED
    BY <1>32, <2>4, <2>2 DEF PurgeHolds, TypeOK
<1>33. CASE UNCHANGED vars
  BY <1>33 DEF vars, TypeOK
<1>34. QED
  BY <1>1, <1>2, <1>3, <1>4, <1>5, <1>6, <1>7, <1>8, <1>9, <1>10, <1>11, <1>12, <1>13, <1>14,
     <1>15, <1>16, <1>17, <1>18, <1>19, <1>20, <1>21, <1>22, <1>23, <1>24, <1>25, <1>26, <1>27,
     <1>28, <1>29, <1>30, <1>31, <1>32, <1>33 DEF Next, ClientStep, SessionStep, ExpiryStep

\* Every step that works on a token has one.
LEMMA WantsATokenStep ==
  TypeInv /\ [Next]_vars => WantsAToken'
<1> SUFFICES ASSUME TypeInv, [Next]_vars PROVE WantsAToken'
  OBVIOUS
<1> USE ConnAssumption, RoomAssumption, AccountAssumption DEF TypeInv, TypeOK, WantsAToken,
        Wanting, Carrying, sessionVars, holdVars, accountVars
<1>1. ASSUME NEW c \in Conn, Connect(c) PROVE WantsAToken'
  BY <1>1 DEF Connect, Goto
<1>2. ASSUME NEW c \in Conn, HelloGuest(c) PROVE WantsAToken'
  BY <1>2 DEF HelloGuest, Presentable, Goto
<1>3. ASSUME NEW c \in Conn, NEW a \in Account, HelloAccount(c, a) PROVE WantsAToken'
  BY <1>3 DEF HelloAccount, BeginBinding, ReplacedRoom, Replaced, Presentable, Goto
<1>4. ASSUME NEW c \in Conn, NEW a \in Account, Login(c, a) PROVE WantsAToken'
  BY <1>4 DEF Login, BeginBinding, ReplacedRoom, Replaced, Goto
<1>5. ASSUME NEW c \in Conn, Reclaim(c) PROVE WantsAToken'
  BY <1>5 DEF Reclaim, Authorised, AccountHolds, Acquire, Goto
<1>6. ASSUME NEW c \in Conn, NEW r \in Room, NEW kind \in Kinds, CreateRoom(c, r, kind)
      PROVE  WantsAToken'
  BY <1>6 DEF CreateRoom, Authorised, MayEnter
<1>7. ASSUME NEW c \in Conn, NEW r \in Room, BeginJoin(c, r) PROVE WantsAToken'
  BY <1>7 DEF BeginJoin, Begin, Authorised, MayEnter, Acquire, Goto
<1>8. ASSUME NEW c \in Conn, BeginLeave(c) PROVE WantsAToken'
  BY <1>8 DEF BeginLeave, Begin, Authorised, Acquire, Goto
<1>9. ASSUME NEW c \in Conn, BeginDisband(c) PROVE WantsAToken'
  BY <1>9 DEF BeginDisband, Begin, Authorised, Acquire, Goto
<1>10. ASSUME NEW c \in Conn, BeginKick(c) PROVE WantsAToken'
  BY <1>10 DEF BeginKick, Begin, Authorised, Acquire, Goto
<1>11. ASSUME NEW c \in Conn, BeginLogout(c) PROVE WantsAToken'
  BY <1>11 DEF BeginLogout, Begin, Authorised, Acquire, Goto
<1>12. ASSUME NEW c \in Conn, Drop(c) PROVE WantsAToken'
  BY <1>12 DEF Drop, Acquire, ClearCurrent, Goto
<1>13. ASSUME NEW c \in Conn, BindAccount(c) PROVE WantsAToken'
  BY <1>13 DEF BindAccount, Hold, Finish, Continue, Release, Goto
<1>14. ASSUME NEW c \in Conn, ChooseToken(c) PROVE WantsAToken'
  BY <1>14 DEF ChooseToken, AccountHolds, Finish, Release, Goto
<1>15. ASSUME NEW c \in Conn, TakeHold(c) PROVE WantsAToken'
  BY <1>15 DEF TakeHold, Spendable, Finish, Continue, Release, Goto
<1>16. ASSUME NEW c \in Conn, AdoptHold(c) PROVE WantsAToken'
  BY <1>16 DEF AdoptHold, Goto
<1>17. ASSUME NEW c \in Conn, ScreenNavigation(c) PROVE WantsAToken'
  BY <1>17 DEF ScreenNavigation, Goto
<1>18. ASSUME NEW c \in Conn, ResumeRoom(c) PROVE WantsAToken'
  BY <1>18 DEF ResumeRoom, Finish, Continue, Release, Goto
<1>19. ASSUME NEW c \in Conn, ReadClock(c) PROVE WantsAToken'
  BY <1>19 DEF ReadClock, Goto
<1>20. ASSUME NEW c \in Conn, RestoreHold(c) PROVE WantsAToken'
  BY <1>20 DEF RestoreHold, Finish, Continue, Release, Goto
<1>21. ASSUME NEW c \in Conn, ExpireCall(c) PROVE WantsAToken'
  BY <1>21 DEF ExpireCall, BeginExpiry, Finish, Continue, Release, Goto
<1>22. ASSUME NEW c \in Conn, ExpireReturn(c) PROVE WantsAToken'
  BY <1>22 DEF ExpireReturn, Finish, Release
<1>23. ASSUME NEW c \in Conn, JoinRoom(c) PROVE WantsAToken'
  BY <1>23 DEF JoinRoom, Commit, Refuse, Finish, Release
<1>24. ASSUME NEW c \in Conn, LeaveRoom(c) PROVE WantsAToken'
  BY <1>24 DEF LeaveRoom, Commit, CloseRoom, Finish, Release
<1>25. ASSUME NEW c \in Conn, DisbandRoom(c) PROVE WantsAToken'
  BY <1>25 DEF DisbandRoom, Commit, CloseRoom, Finish, Release
<1>26. ASSUME NEW c \in Conn, KickMember(c) PROVE WantsAToken'
  BY <1>26 DEF KickMember, Commit, Refuse, Finish, Release
<1>27. ASSUME NEW c \in Conn, DropHold(c) PROVE WantsAToken'
  BY <1>27 DEF DropHold, Hold, Release, ClearCurrent, Goto
<1>28. ASSUME NEW c \in Conn, Logout(c) PROVE WantsAToken'
  BY <1>28 DEF Logout, Hold, Finish, Release, ClearCurrent
<1>29. ASSUME NEW c \in Conn, PassDeadline(c) PROVE WantsAToken'
  BY <1>29 DEF PassDeadline
<1>30. ASSUME NEW c \in Conn, TimerFire(c) PROVE WantsAToken'
  BY <1>30 DEF TimerFire, BeginExpiry
<1>31. ASSUME NEW c \in Conn, ReleaseSeat(c) PROVE WantsAToken'
  BY <1>31 DEF ReleaseSeat, CloseRoom
<1>32. ASSUME NEW r \in Room, PurgeHolds(r) PROVE WantsAToken'
  BY <1>32 DEF PurgeHolds
<1>33. CASE UNCHANGED vars
  BY <1>33 DEF vars
<1>34. QED
  BY <1>1, <1>2, <1>3, <1>4, <1>5, <1>6, <1>7, <1>8, <1>9, <1>10, <1>11, <1>12, <1>13, <1>14,
     <1>15, <1>16, <1>17, <1>18, <1>19, <1>20, <1>21, <1>22, <1>23, <1>24, <1>25, <1>26, <1>27,
     <1>28, <1>29, <1>30, <1>31, <1>32, <1>33 DEF Next, ClientStep, SessionStep, ExpiryStep

\* Every step keeps holds pointing to rooms.
LEMMA HoldsPointToRoomsStep ==
  TypeInv /\ [Next]_vars => HoldsPointToRooms'
<1> SUFFICES ASSUME TypeInv, [Next]_vars PROVE HoldsPointToRooms'
  OBVIOUS
<1> USE ConnAssumption, RoomAssumption, AccountAssumption DEF TypeInv, TypeOK,
        HoldsPointToRooms, WantsAToken, Wanting, Carrying, sessionVars, holdVars,
        accountVars
<1>1. ASSUME NEW c \in Conn, Connect(c) PROVE HoldsPointToRooms'
  BY <1>1 DEF Connect, Goto
<1>2. ASSUME NEW c \in Conn, HelloGuest(c) PROVE HoldsPointToRooms'
  BY <1>2 DEF HelloGuest, Presentable, Goto
<1>3. ASSUME NEW c \in Conn, NEW a \in Account, HelloAccount(c, a) PROVE HoldsPointToRooms'
  BY <1>3 DEF HelloAccount, BeginBinding, ReplacedRoom, Replaced, Presentable, Goto
<1>4. ASSUME NEW c \in Conn, NEW a \in Account, Login(c, a) PROVE HoldsPointToRooms'
  BY <1>4 DEF Login, BeginBinding, ReplacedRoom, Replaced, Goto
<1>5. ASSUME NEW c \in Conn, Reclaim(c) PROVE HoldsPointToRooms'
  BY <1>5 DEF Reclaim, Authorised, AccountHolds, Acquire, Goto
<1>6. ASSUME NEW c \in Conn, NEW r \in Room, NEW kind \in Kinds, CreateRoom(c, r, kind)
      PROVE  HoldsPointToRooms'
  BY <1>6 DEF CreateRoom, Authorised, MayEnter
<1>7. ASSUME NEW c \in Conn, NEW r \in Room, BeginJoin(c, r) PROVE HoldsPointToRooms'
  BY <1>7 DEF BeginJoin, Begin, Authorised, MayEnter, Acquire, Goto
<1>8. ASSUME NEW c \in Conn, BeginLeave(c) PROVE HoldsPointToRooms'
  BY <1>8 DEF BeginLeave, Begin, Authorised, Acquire, Goto
<1>9. ASSUME NEW c \in Conn, BeginDisband(c) PROVE HoldsPointToRooms'
  BY <1>9 DEF BeginDisband, Begin, Authorised, Acquire, Goto
<1>10. ASSUME NEW c \in Conn, BeginKick(c) PROVE HoldsPointToRooms'
  BY <1>10 DEF BeginKick, Begin, Authorised, Acquire, Goto
<1>11. ASSUME NEW c \in Conn, BeginLogout(c) PROVE HoldsPointToRooms'
  BY <1>11 DEF BeginLogout, Begin, Authorised, Acquire, Goto
<1>12. ASSUME NEW c \in Conn, Drop(c) PROVE HoldsPointToRooms'
  BY <1>12 DEF Drop, Acquire, ClearCurrent, Goto
<1>13. ASSUME NEW c \in Conn, BindAccount(c) PROVE HoldsPointToRooms'
  <2>1. /\ \A t \in Conn : lease[t].room \in Room => lease'[t].room \in Room
        /\ \A t \in held' \ held : lease'[t].room \in Room
        /\ expiring' = expiring
    BY <1>13, HoldLeases DEF BindAccount, AccountLocked
  <2>2. \A d \in Conn : pc'[d] \in Carrying => pc[d] = pc'[d] /\ want'[d] = want[d]
    BY <1>13 DEF BindAccount, Goto, Continue, Finish
  <2>3. QED
    BY <2>1, <2>2
<1>14. ASSUME NEW c \in Conn, ChooseToken(c) PROVE HoldsPointToRooms'
  BY <1>14 DEF ChooseToken, AccountHolds, Finish, Release, Goto
<1>15. ASSUME NEW c \in Conn, TakeHold(c) PROVE HoldsPointToRooms'
  BY <1>15 DEF TakeHold, Spendable, Finish, Continue, Release, Goto
<1>16. ASSUME NEW c \in Conn, AdoptHold(c) PROVE HoldsPointToRooms'
  <2>1. \A t \in Conn : lease'[t].room = lease[t].room
    BY <1>16 DEF AdoptHold
  <2>2. \A d \in Conn : pc'[d] \in Carrying => pc[d] \in Carrying
    BY <1>16 DEF AdoptHold, Goto
  <2>3. UNCHANGED <<held, expiring, want>>
    BY <1>16 DEF AdoptHold
  <2>4. QED
    BY <2>1, <2>2, <2>3
<1>17. ASSUME NEW c \in Conn, ScreenNavigation(c) PROVE HoldsPointToRooms'
  BY <1>17 DEF ScreenNavigation, Goto
<1>18. ASSUME NEW c \in Conn, ResumeRoom(c) PROVE HoldsPointToRooms'
  BY <1>18 DEF ResumeRoom, Finish, Continue, Release, Goto
<1>19. ASSUME NEW c \in Conn, ReadClock(c) PROVE HoldsPointToRooms'
  BY <1>19 DEF ReadClock, Goto
<1>20. ASSUME NEW c \in Conn, RestoreHold(c) PROVE HoldsPointToRooms'
  BY <1>20 DEF RestoreHold, Finish, Continue, Release, Goto
<1>21. ASSUME NEW c \in Conn, ExpireCall(c) PROVE HoldsPointToRooms'
  BY <1>21 DEF ExpireCall, BeginExpiry, Finish, Continue, Release, Goto
<1>22. ASSUME NEW c \in Conn, ExpireReturn(c) PROVE HoldsPointToRooms'
  BY <1>22 DEF ExpireReturn, Finish, Release
<1>23. ASSUME NEW c \in Conn, JoinRoom(c) PROVE HoldsPointToRooms'
  BY <1>23 DEF JoinRoom, Commit, Refuse, Finish, Release
<1>24. ASSUME NEW c \in Conn, LeaveRoom(c) PROVE HoldsPointToRooms'
  BY <1>24 DEF LeaveRoom, Commit, CloseRoom, Finish, Release
<1>25. ASSUME NEW c \in Conn, DisbandRoom(c) PROVE HoldsPointToRooms'
  BY <1>25 DEF DisbandRoom, Commit, CloseRoom, Finish, Release
<1>26. ASSUME NEW c \in Conn, KickMember(c) PROVE HoldsPointToRooms'
  BY <1>26 DEF KickMember, Commit, Refuse, Finish, Release
<1>27. ASSUME NEW c \in Conn, DropHold(c) PROVE HoldsPointToRooms'
  <2>1. /\ \A t \in Conn : lease[t].room \in Room => lease'[t].room \in Room
        /\ \A t \in held' \ held : lease'[t].room \in Room
        /\ expiring' = expiring
    BY <1>27, HoldLeases DEF DropHold, TargetsARoom
  <2>2. \A d \in Conn : pc'[d] \in Carrying => pc[d] = pc'[d] /\ want'[d] = want[d]
    BY <1>27 DEF DropHold, Goto, Continue, Finish
  <2>3. QED
    BY <2>1, <2>2
<1>28. ASSUME NEW c \in Conn, Logout(c) PROVE HoldsPointToRooms'
  <2>1. /\ \A t \in Conn : lease[t].room \in Room => lease'[t].room \in Room
        /\ \A t \in held' \ held : lease'[t].room \in Room
        /\ expiring' = expiring
    BY <1>28, HoldLeases DEF Logout
  <2>2. \A d \in Conn : pc'[d] \in Carrying => pc[d] = pc'[d] /\ want'[d] = want[d]
    BY <1>28 DEF Logout, Goto, Continue, Finish
  <2>3. QED
    BY <2>1, <2>2
<1>29. ASSUME NEW c \in Conn, PassDeadline(c) PROVE HoldsPointToRooms'
  BY <1>29 DEF PassDeadline
<1>30. ASSUME NEW c \in Conn, TimerFire(c) PROVE HoldsPointToRooms'
  BY <1>30 DEF TimerFire, BeginExpiry
<1>31. ASSUME NEW c \in Conn, ReleaseSeat(c) PROVE HoldsPointToRooms'
  BY <1>31 DEF ReleaseSeat, CloseRoom
<1>32. ASSUME NEW r \in Room, PurgeHolds(r) PROVE HoldsPointToRooms'
  BY <1>32 DEF PurgeHolds
<1>33. CASE UNCHANGED vars
  BY <1>33 DEF vars
<1>34. QED
  BY <1>1, <1>2, <1>3, <1>4, <1>5, <1>6, <1>7, <1>8, <1>9, <1>10, <1>11, <1>12, <1>13, <1>14,
     <1>15, <1>16, <1>17, <1>18, <1>19, <1>20, <1>21, <1>22, <1>23, <1>24, <1>25, <1>26, <1>27,
     <1>28, <1>29, <1>30, <1>31, <1>32, <1>33 DEF Next, ClientStep, SessionStep, ExpiryStep

\* Every step that locks a room knows which.
LEMMA TargetsARoomStep ==
  TypeInv /\ [Next]_vars => TargetsARoom'
<1> SUFFICES ASSUME TypeInv, [Next]_vars PROVE TargetsARoom'
  OBVIOUS
<1> USE ConnAssumption, RoomAssumption, AccountAssumption DEF TypeInv, TypeOK, TargetsARoom,
        sessionVars, holdVars, accountVars
<1>1. ASSUME NEW c \in Conn, Connect(c) PROVE TargetsARoom'
  BY <1>1 DEF Connect, Goto
<1>2. ASSUME NEW c \in Conn, HelloGuest(c) PROVE TargetsARoom'
  BY <1>2 DEF HelloGuest, Presentable, Goto
<1>3. ASSUME NEW c \in Conn, NEW a \in Account, HelloAccount(c, a) PROVE TargetsARoom'
  BY <1>3 DEF HelloAccount, BeginBinding, ReplacedRoom, Replaced, Presentable, Goto
<1>4. ASSUME NEW c \in Conn, NEW a \in Account, Login(c, a) PROVE TargetsARoom'
  BY <1>4 DEF Login, BeginBinding, ReplacedRoom, Replaced, Goto
<1>5. ASSUME NEW c \in Conn, Reclaim(c) PROVE TargetsARoom'
  BY <1>5 DEF Reclaim, Authorised, AccountHolds, Acquire, Goto
<1>6. ASSUME NEW c \in Conn, NEW r \in Room, NEW kind \in Kinds, CreateRoom(c, r, kind)
      PROVE  TargetsARoom'
  BY <1>6 DEF CreateRoom, Authorised, MayEnter
<1>7. ASSUME NEW c \in Conn, NEW r \in Room, BeginJoin(c, r) PROVE TargetsARoom'
  BY <1>7 DEF BeginJoin, Begin, Authorised, MayEnter, Acquire, Goto
<1>8. ASSUME NEW c \in Conn, BeginLeave(c) PROVE TargetsARoom'
  BY <1>8 DEF BeginLeave, Begin, Authorised, Acquire, Goto
<1>9. ASSUME NEW c \in Conn, BeginDisband(c) PROVE TargetsARoom'
  BY <1>9 DEF BeginDisband, Begin, Authorised, Acquire, Goto
<1>10. ASSUME NEW c \in Conn, BeginKick(c) PROVE TargetsARoom'
  BY <1>10 DEF BeginKick, Begin, Authorised, Acquire, Goto
<1>11. ASSUME NEW c \in Conn, BeginLogout(c) PROVE TargetsARoom'
  BY <1>11 DEF BeginLogout, Begin, Authorised, Acquire, Goto
<1>12. ASSUME NEW c \in Conn, Drop(c) PROVE TargetsARoom'
  BY <1>12 DEF Drop, Acquire, ClearCurrent, Goto
<1>13. ASSUME NEW c \in Conn, BindAccount(c) PROVE TargetsARoom'
  BY <1>13 DEF BindAccount, Hold, Finish, Continue, Release, Goto
<1>14. ASSUME NEW c \in Conn, ChooseToken(c) PROVE TargetsARoom'
  BY <1>14 DEF ChooseToken, AccountHolds, Finish, Release, Goto
<1>15. ASSUME NEW c \in Conn, TakeHold(c) PROVE TargetsARoom'
  BY <1>15 DEF TakeHold, Spendable, Finish, Continue, Release, Goto
<1>16. ASSUME NEW c \in Conn, AdoptHold(c) PROVE TargetsARoom'
  BY <1>16 DEF AdoptHold, Goto
<1>17. ASSUME NEW c \in Conn, ScreenNavigation(c) PROVE TargetsARoom'
  BY <1>17 DEF ScreenNavigation, Goto
<1>18. ASSUME NEW c \in Conn, ResumeRoom(c) PROVE TargetsARoom'
  BY <1>18 DEF ResumeRoom, Finish, Continue, Release, Goto
<1>19. ASSUME NEW c \in Conn, ReadClock(c) PROVE TargetsARoom'
  BY <1>19 DEF ReadClock, Goto
<1>20. ASSUME NEW c \in Conn, RestoreHold(c) PROVE TargetsARoom'
  BY <1>20 DEF RestoreHold, Finish, Continue, Release, Goto
<1>21. ASSUME NEW c \in Conn, ExpireCall(c) PROVE TargetsARoom'
  BY <1>21 DEF ExpireCall, BeginExpiry, Finish, Continue, Release, Goto
<1>22. ASSUME NEW c \in Conn, ExpireReturn(c) PROVE TargetsARoom'
  BY <1>22 DEF ExpireReturn, Finish, Release
<1>23. ASSUME NEW c \in Conn, JoinRoom(c) PROVE TargetsARoom'
  BY <1>23 DEF JoinRoom, Commit, Refuse, Finish, Release
<1>24. ASSUME NEW c \in Conn, LeaveRoom(c) PROVE TargetsARoom'
  BY <1>24 DEF LeaveRoom, Commit, CloseRoom, Finish, Release
<1>25. ASSUME NEW c \in Conn, DisbandRoom(c) PROVE TargetsARoom'
  BY <1>25 DEF DisbandRoom, Commit, CloseRoom, Finish, Release
<1>26. ASSUME NEW c \in Conn, KickMember(c) PROVE TargetsARoom'
  BY <1>26 DEF KickMember, Commit, Refuse, Finish, Release
<1>27. ASSUME NEW c \in Conn, DropHold(c) PROVE TargetsARoom'
  BY <1>27 DEF DropHold, Hold, Release, ClearCurrent, Goto
<1>28. ASSUME NEW c \in Conn, Logout(c) PROVE TargetsARoom'
  BY <1>28 DEF Logout, Hold, Finish, Release, ClearCurrent
<1>29. ASSUME NEW c \in Conn, PassDeadline(c) PROVE TargetsARoom'
  BY <1>29 DEF PassDeadline
<1>30. ASSUME NEW c \in Conn, TimerFire(c) PROVE TargetsARoom'
  BY <1>30 DEF TimerFire, BeginExpiry
<1>31. ASSUME NEW c \in Conn, ReleaseSeat(c) PROVE TargetsARoom'
  BY <1>31 DEF ReleaseSeat, CloseRoom
<1>32. ASSUME NEW r \in Room, PurgeHolds(r) PROVE TargetsARoom'
  BY <1>32 DEF PurgeHolds
<1>33. CASE UNCHANGED vars
  BY <1>33 DEF vars
<1>34. QED
  BY <1>1, <1>2, <1>3, <1>4, <1>5, <1>6, <1>7, <1>8, <1>9, <1>10, <1>11, <1>12, <1>13, <1>14,
     <1>15, <1>16, <1>17, <1>18, <1>19, <1>20, <1>21, <1>22, <1>23, <1>24, <1>25, <1>26, <1>27,
     <1>28, <1>29, <1>30, <1>31, <1>32, <1>33 DEF Next, ClientStep, SessionStep, ExpiryStep

\* Every step respects the account locks.
LEMMA AccountLockedStep ==
  TypeInv /\ [Next]_vars => AccountLocked'
<1> SUFFICES ASSUME TypeInv, [Next]_vars PROVE AccountLocked'
  OBVIOUS
<1> USE ConnAssumption, RoomAssumption, AccountAssumption DEF TypeInv, TypeOK,
        AccountLocked, Busy, Carrying, sessionVars, holdVars, accountVars
<1>1. ASSUME NEW c \in Conn, Connect(c) PROVE AccountLocked'
  BY <1>1 DEF Connect, Goto
<1>2. ASSUME NEW c \in Conn, HelloGuest(c) PROVE AccountLocked'
  BY <1>2 DEF HelloGuest, Presentable, Goto
<1>3. ASSUME NEW c \in Conn, NEW a \in Account, HelloAccount(c, a) PROVE AccountLocked'
  BY <1>3 DEF HelloAccount, BeginBinding, ReplacedRoom, Replaced, Presentable, Goto
<1>4. ASSUME NEW c \in Conn, NEW a \in Account, Login(c, a) PROVE AccountLocked'
  BY <1>4 DEF Login, BeginBinding, ReplacedRoom, Replaced, Goto
<1>5. ASSUME NEW c \in Conn, Reclaim(c) PROVE AccountLocked'
  BY <1>5 DEF Reclaim, Authorised, AccountHolds, Acquire, Goto
<1>6. ASSUME NEW c \in Conn, NEW r \in Room, NEW kind \in Kinds, CreateRoom(c, r, kind)
      PROVE  AccountLocked'
  BY <1>6 DEF CreateRoom, Authorised, MayEnter
<1>7. ASSUME NEW c \in Conn, NEW r \in Room, BeginJoin(c, r) PROVE AccountLocked'
  BY <1>7 DEF BeginJoin, Begin, Authorised, MayEnter, Acquire, Goto
<1>8. ASSUME NEW c \in Conn, BeginLeave(c) PROVE AccountLocked'
  BY <1>8 DEF BeginLeave, Begin, Authorised, Acquire, Goto
<1>9. ASSUME NEW c \in Conn, BeginDisband(c) PROVE AccountLocked'
  BY <1>9 DEF BeginDisband, Begin, Authorised, Acquire, Goto
<1>10. ASSUME NEW c \in Conn, BeginKick(c) PROVE AccountLocked'
  BY <1>10 DEF BeginKick, Begin, Authorised, Acquire, Goto
<1>11. ASSUME NEW c \in Conn, BeginLogout(c) PROVE AccountLocked'
  BY <1>11 DEF BeginLogout, Begin, Authorised, Acquire, Goto
<1>12. ASSUME NEW c \in Conn, Drop(c) PROVE AccountLocked'
  <2>1. CASE bound[c] = NoRoom
    <3>1. \A d \in Conn : pc'[d] = IF d = c THEN "closed" ELSE pc[d]
      BY <1>12, <2>1 DEF Drop, Goto
    <3>2. \A a \in Account : current'[a] = IF current[a] = c THEN NoConn ELSE current[a]
      BY <1>12, <2>1 DEF Drop, ClearCurrent
    <3>3. UNCHANGED <<acct, accountMu, target>>
      BY <1>12, <2>1 DEF Drop
    <3>4. \A d \in Conn : acct[d] \in Account /\ Busy(d) => current[acct[d]] # c
      BY <1>12 DEF Drop
    <3>5. \A d \in Conn : acct'[d] \in Account /\ Busy(d)' => accountMu'[acct'[d]] = d
      BY <3>1, <3>3
    <3>6. \A d \in Conn : pc'[d] \in {"off", "hello"} => acct'[d] = NoAccount
      BY <3>1, <3>3
    <3>7. \A d \in Conn : pc'[d] \in {"binding", "attaching"} => Busy(d) /\ acct[d] \in Account
      BY <3>1
    <3>8. \A d \in Conn : pc'[d] \in {"binding", "attaching"} =>
            /\ acct'[d] \in Account
            /\ target'[d] # NoRoom => current'[acct'[d]] \in Conn \ {d}
      BY <3>1, <3>2, <3>3, <3>4, <3>7
    <3>9. \A a \in Account, d \in Conn : current'[a] = d =>
            acct'[d] = a /\ pc'[d] \notin {"off", "hello", "closed"}
      BY <3>1, <3>2, <3>3
    <3>10. QED
      BY <3>5, <3>6, <3>8, <3>9
  <2>2. CASE bound[c] # NoRoom
    <3>1. \A d \in Conn : pc'[d] = IF d = c THEN "dropping" ELSE pc[d]
      BY <1>12, <2>2 DEF Drop, Goto
    <3>2. \A a \in Account : accountMu'[a] = IF a = acct[c] THEN c ELSE accountMu[a]
      BY <1>12, <2>2 DEF Drop, Acquire
    <3>3. acct' = acct /\ current' = current /\ \A d \in Conn \ {c} : target'[d] = target[d]
      BY <1>12, <2>2 DEF Drop
    <3>4. acct[c] # NoAccount => accountMu[acct[c]] = NoConn
      BY <1>12 DEF Drop
    <3>5. pc[c] # "off" /\ \A a \in Account : current[a] = c => pc[c] # "closed"
      BY <1>12 DEF Drop
    <3>6. \A d \in Conn : acct[d] \in Account /\ Busy(d)' => accountMu'[acct[d]] = d
      BY <3>1, <3>2, <3>4
    <3>7. \A d \in Conn : pc'[d] \in {"off", "hello", "binding", "attaching"} => pc'[d] = pc[d] /\ d # c
      BY <3>1
    <3>8. \A a \in Account, d \in Conn : current[a] = d => pc'[d] \notin {"off", "hello", "closed"}
      BY <3>1, <3>5
    <3>9. QED
      BY <3>3, <3>6, <3>7, <3>8
  <2>3. QED
    BY <2>1, <2>2
<1>13. ASSUME NEW c \in Conn, BindAccount(c) PROVE AccountLocked'
  BY <1>13 DEF BindAccount, Hold, Finish, Continue, Release, Goto
<1>14. ASSUME NEW c \in Conn, ChooseToken(c) PROVE AccountLocked'
  BY <1>14 DEF ChooseToken, AccountHolds, Finish, Release, Goto
<1>15. ASSUME NEW c \in Conn, TakeHold(c) PROVE AccountLocked'
  <2>1. CASE Finish(c)
    BY <1>15, <2>1, LocksAfterFinish DEF TakeHold
  <2>2. CASE \E step \in {"expireCall", "adopting", "screening", "resuming"} : Continue(c, step)
    BY <1>15, <2>2, LocksAfterContinue DEF TakeHold, Steps
  <2>3. QED
    BY <1>15, <2>1, <2>2 DEF TakeHold
<1>16. ASSUME NEW c \in Conn, AdoptHold(c) PROVE AccountLocked'
  BY <1>16 DEF AdoptHold, Goto
<1>17. ASSUME NEW c \in Conn, ScreenNavigation(c) PROVE AccountLocked'
  BY <1>17 DEF ScreenNavigation, Goto
<1>18. ASSUME NEW c \in Conn, ResumeRoom(c) PROVE AccountLocked'
  BY <1>18 DEF ResumeRoom, Finish, Continue, Release, Goto
<1>19. ASSUME NEW c \in Conn, ReadClock(c) PROVE AccountLocked'
  BY <1>19 DEF ReadClock, Goto
<1>20. ASSUME NEW c \in Conn, RestoreHold(c) PROVE AccountLocked'
  BY <1>20 DEF RestoreHold, Finish, Continue, Release, Goto
<1>21. ASSUME NEW c \in Conn, ExpireCall(c) PROVE AccountLocked'
  <2>1. CASE Finish(c)
    BY <1>21, <2>1, LocksAfterFinish DEF ExpireCall
  <2>2. CASE Continue(c, "expireWait")
    BY <1>21, <2>2, LocksAfterContinue DEF ExpireCall, Steps
  <2>3. QED
    BY <1>21, <2>1, <2>2 DEF ExpireCall
<1>22. ASSUME NEW c \in Conn, ExpireReturn(c) PROVE AccountLocked'
  BY <1>22 DEF ExpireReturn, Finish, Release
<1>23. ASSUME NEW c \in Conn, JoinRoom(c) PROVE AccountLocked'
  BY <1>23 DEF JoinRoom, Commit, Refuse, Finish, Release
<1>24. ASSUME NEW c \in Conn, LeaveRoom(c) PROVE AccountLocked'
  BY <1>24, LocksAfterFinish DEF LeaveRoom, Commit
<1>25. ASSUME NEW c \in Conn, DisbandRoom(c) PROVE AccountLocked'
  BY <1>25 DEF DisbandRoom, Commit, CloseRoom, Finish, Release
<1>26. ASSUME NEW c \in Conn, KickMember(c) PROVE AccountLocked'
  BY <1>26 DEF KickMember, Commit, Refuse, Finish, Release
<1>27. ASSUME NEW c \in Conn, DropHold(c) PROVE AccountLocked'
  <2>1. \A d \in Conn : pc'[d] = IF d = c THEN "closed" ELSE pc[d]
    BY <1>27 DEF DropHold, Goto
  <2>2. \A a \in Account : /\ current'[a] = IF current[a] = c THEN NoConn ELSE current[a]
                           /\ accountMu'[a] = IF accountMu[a] = c THEN NoConn ELSE accountMu[a]
    BY <1>27 DEF DropHold, ClearCurrent, Release
  <2>3. acct' = acct /\ \A d \in Conn \ {c} : target'[d] = target[d]
    BY <1>27 DEF DropHold
  <2>4. \A d \in Conn \ {c} : acct[d] \in Account /\ Busy(d) => current[acct[d]] # c
    BY <1>27 DEF DropHold
  <2>5. QED
    BY <2>1, <2>2, <2>3, <2>4, LocksAfterClearing
<1>28. ASSUME NEW c \in Conn, Logout(c) PROVE AccountLocked'
  <2>1. \A d \in Conn : pc'[d] = IF d = c THEN "idle" ELSE pc[d]
    BY <1>28 DEF Logout, Finish
  <2>2. \A a \in Account : /\ current'[a] = IF current[a] = c THEN NoConn ELSE current[a]
                           /\ accountMu'[a] = IF accountMu[a] = c THEN NoConn ELSE accountMu[a]
    BY <1>28 DEF Logout, ClearCurrent, Finish, Release
  <2>3. acct' = acct /\ \A d \in Conn \ {c} : target'[d] = target[d]
    BY <1>28 DEF Logout
  <2>4. \A d \in Conn \ {c} : acct[d] \in Account /\ Busy(d) => current[acct[d]] # c
    BY <1>28 DEF Logout
  <2>5. QED
    BY <2>1, <2>2, <2>3, <2>4, LocksAfterClearing
<1>29. ASSUME NEW c \in Conn, PassDeadline(c) PROVE AccountLocked'
  BY <1>29 DEF PassDeadline
<1>30. ASSUME NEW c \in Conn, TimerFire(c) PROVE AccountLocked'
  BY <1>30 DEF TimerFire, BeginExpiry
<1>31. ASSUME NEW c \in Conn, ReleaseSeat(c) PROVE AccountLocked'
  BY <1>31 DEF ReleaseSeat, CloseRoom
<1>32. ASSUME NEW r \in Room, PurgeHolds(r) PROVE AccountLocked'
  BY <1>32 DEF PurgeHolds
<1>33. CASE UNCHANGED vars
  BY <1>33 DEF vars
<1>34. QED
  BY <1>1, <1>2, <1>3, <1>4, <1>5, <1>6, <1>7, <1>8, <1>9, <1>10, <1>11, <1>12, <1>13, <1>14,
     <1>15, <1>16, <1>17, <1>18, <1>19, <1>20, <1>21, <1>22, <1>23, <1>24, <1>25, <1>26, <1>27,
     <1>28, <1>29, <1>30, <1>31, <1>32, <1>33 DEF Next, ClientStep, SessionStep, ExpiryStep

(***************************************************************************)
(* The theorem                                                             *)
(***************************************************************************)
\* The hub starts with well-formed, unlocked state.
LEMMA TypeInvInit == Init => TypeInv
<1> SUFFICES ASSUME Init PROVE TypeInv
  OBVIOUS
<1>1. TypeOK
  BY DEF Init, TypeOK, RoomState, AllKinds, Empty, Free, NoSeat, Steps
<1>2. WantsAToken /\ HoldsPointToRooms /\ TargetsARoom /\ AccountLocked
  BY ConnAssumption DEF Init, WantsAToken, Wanting, Carrying, HoldsPointToRooms, TargetsARoom,
     AccountLocked, Busy
<1>3. QED
  BY <1>1, <1>2 DEF TypeInv

\* In every behaviour the accounts, holds, rooms and goroutines stay well formed.
THEOREM TypesAndLocks == Spec => []TypeInv
<1>1. TypeInv /\ [Next]_vars => TypeInv'
  BY TypeOKStep, WantsATokenStep, HoldsPointToRoomsStep, TargetsARoomStep, AccountLockedStep
     DEF TypeInv
<1>2. QED
  BY <1>1, TypeInvInit, PTL DEF Spec

\* The type invariant the runs check, for every number of connections, rooms,
\* accounts and seats.
THEOREM TypeCorrectness == Spec => []TypeOK
<1>1. TypeInv => TypeOK
  BY DEF TypeInv
<1>2. QED
  BY <1>1, TypesAndLocks, PTL
=============================================================================
