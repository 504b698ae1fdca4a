-------------------------- MODULE RoomSessionRoles --------------------------
(***************************************************************************)
(* Proofs about RoomSession: who runs a room, and for whom a session acts. *)
(*                                                                         *)
(* The host of a registered room is one of its players and the room has    *)
(* somebody in it, however members leave, are kicked, expire or are        *)
(* replaced; and a session whose account moved on gains no room.  Both     *)
(* need the types and account locks of RoomSessionTypes only.              *)
(***************************************************************************)
EXTENDS RoomSessionTypes

(***************************************************************************)
(* One room                                                                *)
(***************************************************************************)
Hosted(rm) == IF Humans(rm) = {} THEN rm.host = NoSeat ELSE rm.host \in Humans(rm)

\* Only a practice room has an AI; a Commander Limited group never does, which
\* is why a group that keeps a player keeps a human.
Inhabited(rm) ==
  /\ \E c \in Conn : Member(rm, c)
  /\ HasAI(rm) => rm.kind = "ai" /\ Humans(rm) # {}

WellKept(rm) == Hosted(rm) /\ Inhabited(rm)

RoomsWellKept == \A r \in Room : Registered(r) => WellKept(rooms[r])

\* A room with a human in a seat, or without an AI and with somebody, is lived in.
LEMMA InhabitedRooms ==
  ASSUME NEW rm \in RoomState, HasAI(rm) => rm.kind = "ai" /\ Humans(rm) # {}, ~IsEmpty(rm)
  PROVE  Inhabited(rm)
<1>1. CASE rm.spectators # {}
  BY <1>1 DEF Inhabited, Member, RoomState
<1>2. CASE Occupied(rm) # {}
  <2>1. PICK s \in Seat : rm.seats[s] # Free
    BY <1>2 DEF Occupied
  <2>2. rm.seats[s] \in Conn \/ HasAI(rm)
    BY <2>1 DEF RoomState, HasAI
  <2>3. \E q \in Seat : rm.seats[q] \in Conn
    BY <2>2 DEF Humans
  <2>4. QED
    BY <2>3 DEF Inhabited, Member, Seated
<1>3. QED
  BY <1>1, <1>2 DEF IsEmpty

\* The host role that is passed on goes to a human, if there is one.
LEMMA TransferHostHosts ==
  ASSUME NEW rm \in RoomState
  PROVE  /\ Hosted(TransferHost(rm))
         /\ Humans(TransferHost(rm)) = Humans(rm)
         /\ HasAI(TransferHost(rm)) <=> HasAI(rm)
         /\ IsEmpty(TransferHost(rm)) <=> IsEmpty(rm)
         /\ TransferHost(rm).kind = rm.kind
<1>1. /\ TransferHost(rm).seats = rm.seats /\ TransferHost(rm).spectators = rm.spectators
      /\ TransferHost(rm).kind = rm.kind
      /\ TransferHost(rm).host = IF Humans(rm) = {} THEN NoSeat ELSE Lowest(Humans(rm))
  BY DEF TransferHost, RoomState
<1>2. Humans(TransferHost(rm)) = Humans(rm) /\ Humans(rm) \in SUBSET Seat
  BY <1>1 DEF Humans
<1>3. Humans(rm) # {} => Lowest(Humans(rm)) \in Humans(rm)
  BY <1>2, LowestIsMember
<1>4. QED
  BY <1>1, <1>2, <1>3 DEF Hosted, HasAI, IsEmpty, Occupied

\* Removing a member empties its seats and changes nothing else.
LEMMA VacateSeats ==
  ASSUME NEW rm \in RoomState, NEW c \in Conn
  PROVE  /\ Humans(Vacate(rm, c)) = {s \in Humans(rm) : rm.seats[s] # c}
         /\ HasAI(Vacate(rm, c)) <=> HasAI(rm)
         /\ Vacate(rm, c).kind = rm.kind /\ Vacate(rm, c).host = rm.host
BY ConnAssumption DEF Vacate, Humans, HasAI, RoomState, Free

\* Removing a member that is not the host leaves the host in its seat.
LEMMA VacateKeepsHost ==
  ASSUME NEW rm \in RoomState, NEW c \in Conn, Hosted(rm), ~IsHost(rm, c)
  PROVE  /\ Hosted(Vacate(rm, c))
         /\ Humans(rm) # {} => Humans(Vacate(rm, c)) # {}
BY VacateSeats DEF Hosted, IsHost, Humans

\* A player who leaves a room that stays open leaves it hosted and inhabited;
LEMMA LeaveKeeps ==
  ASSUME NEW rm \in RoomState, NEW c \in Conn, WellKept(rm),
         ~LeaveDisbands(rm, c), ~IsEmpty(Leave(rm, c))
  PROVE  WellKept(Leave(rm, c))
<1>1. CASE IsHost(rm, c)
  <2>1. rm.kind = "group" /\ Leave(rm, c) = TransferHost(Vacate(rm, c))
    BY <1>1 DEF LeaveDisbands, KeepsGroup, Leave
  <2>2. Vacate(rm, c) \in RoomState /\ Leave(rm, c) \in RoomState
    BY VacateType, LeaveType
  <2>3. ~HasAI(Leave(rm, c)) /\ Hosted(Leave(rm, c))
    BY <2>1, <2>2, VacateSeats, TransferHostHosts DEF WellKept, Inhabited
  <2>4. QED
    BY <2>2, <2>3, InhabitedRooms DEF WellKept
<1>2. CASE ~IsHost(rm, c)
  <2>1. Leave(rm, c) = Vacate(rm, c)
    BY <1>2 DEF Leave
  <2>2. Hosted(Vacate(rm, c))
    BY <1>2, VacateKeepsHost DEF WellKept
  <2>3. HasAI(Vacate(rm, c)) => Vacate(rm, c).kind = "ai" /\ Humans(Vacate(rm, c)) # {}
    BY <1>2, VacateSeats, VacateKeepsHost DEF WellKept, Inhabited
  <2>4. QED
    BY <2>1, <2>2, <2>3, VacateType, InhabitedRooms DEF WellKept
<1>3. QED
  BY <1>1, <1>2

\* and so does the expiry of a hold.
LEMMA ExpireKeeps ==
  ASSUME NEW rm \in RoomState, NEW c \in Conn, WellKept(rm),
         ~ClosesOnExpiry(ExpireDisconnected(rm, c))
  PROVE  WellKept(ExpireDisconnected(rm, c))
<1> DEFINE left == ExpireDisconnected(rm, c)
<1>1. left \in RoomState /\ Vacate(rm, c) \in RoomState
  BY LeaveType, VacateType
<1>2. Hosted(left) /\ left.kind = rm.kind /\ (HasAI(left) => HasAI(rm))
  <2>1. CASE IsHost(rm, c)
    BY <1>1, <2>1, VacateSeats, TransferHostHosts DEF ExpireDisconnected
  <2>2. CASE ~IsHost(rm, c)
    BY <2>2, VacateSeats, VacateKeepsHost DEF ExpireDisconnected, WellKept
  <2>3. QED
    BY <2>1, <2>2
<1>3. ~IsEmpty(left) /\ (HasAI(left) => Humans(left) # {})
  BY DEF ClosesOnExpiry
<1> HIDE DEF left
<1>4. Inhabited(left)
  BY <1>1, <1>2, <1>3, InhabitedRooms DEF WellKept, Inhabited
<1>5. QED
  BY <1>2, <1>4 DEF WellKept, left

\* The host kicks somebody else and keeps its seat.
LEMMA KickKeeps ==
  ASSUME NEW rm \in RoomState, NEW c \in Conn, NEW d \in Conn \ {c}, WellKept(rm), IsHost(rm, c)
  PROVE  WellKept(Vacate(rm, d))
<1>1. ~IsHost(rm, d) /\ rm.host \in Seat /\ rm.seats[rm.host] = c
  BY DEF IsHost
<1>2. Hosted(Vacate(rm, d))
  BY <1>1, VacateKeepsHost DEF WellKept
<1>3. rm.host \in Humans(Vacate(rm, d)) /\ Vacate(rm, d) \in RoomState
  BY <1>1, VacateSeats, VacateType DEF Humans
<1>4. ~IsEmpty(Vacate(rm, d))
  BY <1>3, ConnAssumption DEF IsEmpty, Humans, Occupied, Free
<1>5. HasAI(Vacate(rm, d)) => Vacate(rm, d).kind = "ai"
  BY VacateSeats DEF WellKept, Inhabited
<1>6. QED
  BY <1>2, <1>3, <1>4, <1>5, InhabitedRooms DEF WellKept

\* A player who joins becomes host if nobody was.
LEMMA JoinKeeps ==
  ASSUME NEW rm \in RoomState, NEW c \in Conn, WellKept(rm), Occupied(rm) # Seat
  PROVE  WellKept(Join(rm, c))
<1> DEFINE seat == Lowest(Seat \ Occupied(rm))
<1>1. seat \in Seat /\ rm.seats[seat] = Free
  <2>1. Seat \ Occupied(rm) # {} /\ Seat \ Occupied(rm) \in SUBSET Seat
    BY DEF Occupied
  <2>2. seat \in Seat \ Occupied(rm)
    BY <2>1, LowestIsMember
  <2>3. QED
    BY <2>2 DEF Occupied
<1> HIDE DEF seat
<1>2. /\ Join(rm, c).seats = [rm.seats EXCEPT ![seat] = c]
      /\ Join(rm, c).kind = rm.kind
      /\ Join(rm, c).host = IF rm.host = NoSeat THEN seat ELSE rm.host
  BY DEF Join, RoomState, seat
<1>3. Humans(Join(rm, c)) = Humans(rm) \cup {seat}
  BY <1>1, <1>2 DEF Humans, RoomState
<1>4. HasAI(Join(rm, c)) => HasAI(rm)
  BY <1>1, <1>2, ConnAssumption DEF HasAI, RoomState
<1>5. Member(Join(rm, c), c)
  BY <1>1, <1>2 DEF Member, Seated, RoomState
<1>6. Hosted(Join(rm, c))
  BY <1>2, <1>3 DEF Hosted, WellKept
<1>7. QED
  BY <1>2, <1>3, <1>4, <1>5, <1>6 DEF WellKept, Inhabited

\* A spectator changes no seat.
LEMMA WatchKeeps ==
  ASSUME NEW rm \in RoomState, NEW c \in Conn, WellKept(rm)
  PROVE  WellKept(Watch(rm, c))
BY DEF Watch, WellKept, Hosted, Inhabited, Humans, HasAI, Member, Seated, RoomState

\* A successor takes over the seat, and the host role if it goes with it.
LEMMA ReconnectKeeps ==
  ASSUME NEW rm \in RoomState, NEW old \in Conn, NEW new \in Conn, WellKept(rm), Member(rm, old)
  PROVE  WellKept(Reconnect(rm, old, new))
<1>1. /\ Reconnect(rm, old, new).kind = rm.kind /\ Reconnect(rm, old, new).host = rm.host
      /\ \A s \in Seat : Reconnect(rm, old, new).seats[s] =
                           IF rm.seats[s] = old THEN new ELSE rm.seats[s]
  BY DEF Reconnect, RoomState
<1>2. Humans(Reconnect(rm, old, new)) = Humans(rm)
  BY <1>1 DEF Humans
<1>3. HasAI(Reconnect(rm, old, new)) => HasAI(rm)
  BY <1>1, ConnAssumption DEF HasAI
<1>4. Member(Reconnect(rm, old, new), new)
  BY DEF Reconnect, Member, Seated, RoomState
<1>5. QED
  BY <1>1, <1>2, <1>3, <1>4 DEF WellKept, Hosted, Inhabited

(***************************************************************************)
(* All rooms                                                               *)
(***************************************************************************)
\* A step that rewrites one room keeps the others.
LEMMA OneRoomChanges ==
  ASSUME TypeOK, RoomsWellKept, NEW r \in Room, NEW rm,
         rooms' = [rooms EXCEPT ![r] = rm], rm.status = "registered" => WellKept(rm)
  PROVE  RoomsWellKept'
BY DEF RoomsWellKept, Registered, TypeOK

\* A room that closes is registered no longer.
LEMMA ClosingKeeps ==
  ASSUME TypeOK, RoomsWellKept, NEW r \in Room, NEW rm \in RoomState, NEW c, CloseRoom(r, rm, c)
  PROVE  RoomsWellKept'
<1>1. Closed(rm, "closing").status = "closing"
  BY DEF Closed, RoomState
<1>2. QED
  BY <1>1, OneRoomChanges DEF CloseRoom

\* Most steps change no room.
LEMMA SameRooms ==
  ASSUME RoomsWellKept, UNCHANGED rooms
  PROVE  RoomsWellKept'
BY DEF RoomsWellKept, Registered

\* Every step keeps every registered room hosted and inhabited.
LEMMA RoomsWellKeptStep ==
  TypeInv /\ RoomsWellKept /\ [Next]_vars => RoomsWellKept'
<1> SUFFICES ASSUME TypeInv, RoomsWellKept, [Next]_vars PROVE RoomsWellKept'
  OBVIOUS
<1> USE DEF TypeInv
<1>1. ASSUME NEW c \in Conn, NEW r \in Room, NEW kind \in Kinds, CreateRoom(c, r, kind)
      PROVE  RoomsWellKept'
  <2> DEFINE seats == [Empty EXCEPT ![0] = c, ![1] = IF kind = "ai" THEN AI ELSE Free]
             rm == [status |-> "registered", kind |-> kind, spectators |-> {}, host |-> 0,
                    seats |-> seats]
  <2>1. /\ 0 \in Seat /\ 1 \in Seat /\ NoSeat \notin Seat
        /\ seats[0] = c /\ seats[1] = (IF kind = "ai" THEN AI ELSE Free)
        /\ \A s \in Seat \ {0, 1} : seats[s] = Free
    BY SeatAssumption DEF Seat, Empty, NoSeat
  <2> HIDE DEF seats
  <2>2. 0 \in Humans(rm)
    BY <2>1 DEF Humans
  <2>3. HasAI(rm) => kind = "ai"
    BY <2>1, ConnAssumption DEF HasAI, Free
  <2>4. Member(rm, c)
    BY <2>1 DEF Member, Seated
  <2>5. WellKept(rm)
    BY <2>2, <2>3, <2>4 DEF WellKept, Hosted, Inhabited
  <2>6. rooms' = [rooms EXCEPT ![r] = rm]
    BY <1>1 DEF CreateRoom, seats
  <2> HIDE DEF rm
  <2>7. QED
    BY <2>5, <2>6, OneRoomChanges
<1>2. ASSUME NEW c \in Conn, JoinRoom(c) PROVE RoomsWellKept'
  <2> DEFINE r == target[c]
  <2>1. r \in Room /\ rooms[r] \in RoomState
    BY <1>2 DEF JoinRoom, Commit, TargetsARoom, TypeOK
  <2>2. CASE UNCHANGED rooms
    BY <2>2, SameRooms
  <2>3. CASE Registered(r) /\ Occupied(rooms[r]) # Seat
             /\ rooms' = [rooms EXCEPT ![r] = Join(rooms[r], c)]
    BY <2>1, <2>3, JoinKeeps, OneRoomChanges DEF RoomsWellKept
  <2>4. CASE Registered(r) /\ rooms' = [rooms EXCEPT ![r] = Watch(rooms[r], c)]
    BY <2>1, <2>4, WatchKeeps, OneRoomChanges DEF RoomsWellKept
  <2>5. QED
    BY <1>2, <2>2, <2>3, <2>4 DEF JoinRoom, Refuse
<1>3. ASSUME NEW c \in Conn, ResumeRoom(c) PROVE RoomsWellKept'
  <2> DEFINE t == want[c]  r == lease[t].room
  <2>1. t \in Conn /\ r \in Room /\ rooms[r] \in RoomState
    BY <1>3 DEF ResumeRoom, WantsAToken, Wanting, Carrying, HoldsPointToRooms, TypeOK
  <2>2. CASE UNCHANGED rooms
    BY <2>2, SameRooms
  <2>3. CASE Registered(r) /\ Member(rooms[r], t)
             /\ rooms' = [rooms EXCEPT ![r] = Reconnect(rooms[r], t, c)]
    BY <2>1, <2>3, ReconnectKeeps, OneRoomChanges DEF RoomsWellKept
  <2>4. QED
    BY <1>3, <2>2, <2>3 DEF ResumeRoom
<1>4. ASSUME NEW c \in Conn, LeaveRoom(c) PROVE RoomsWellKept'
  <2> DEFINE r == target[c]  left == Leave(rooms[r], c)
  <2>1. r \in Room /\ rooms[r] \in RoomState /\ left \in RoomState
    BY <1>4, LeaveType DEF LeaveRoom, Commit, TargetsARoom, TypeOK
  <2>2. CASE UNCHANGED rooms
    BY <2>2, SameRooms
  <2>3. CASE CloseRoom(r, left, c)
    BY <2>1, <2>3, ClosingKeeps
  <2>4. CASE /\ Registered(r) /\ ~LeaveDisbands(rooms[r], c) /\ ~IsEmpty(left)
             /\ rooms' = [rooms EXCEPT ![r] = left]
    BY <2>1, <2>4, LeaveKeeps, OneRoomChanges DEF RoomsWellKept
  <2>5. QED
    BY <1>4, <2>2, <2>3, <2>4 DEF LeaveRoom
<1>5. ASSUME NEW c \in Conn, DisbandRoom(c) PROVE RoomsWellKept'
  <2> DEFINE r == target[c]  left == Vacate(rooms[r], c)
  <2>1. r \in Room /\ left \in RoomState
    BY <1>5, VacateType DEF DisbandRoom, Commit, TargetsARoom, TypeOK
  <2>2. UNCHANGED rooms \/ CloseRoom(r, left, c)
    BY <1>5 DEF DisbandRoom
  <2>3. QED
    BY <2>1, <2>2, SameRooms, ClosingKeeps
<1>6. ASSUME NEW c \in Conn, KickMember(c) PROVE RoomsWellKept'
  <2> DEFINE r == target[c]
  <2>1. r \in Room /\ rooms[r] \in RoomState
    BY <1>6 DEF KickMember, Commit, TargetsARoom, TypeOK
  <2>2. CASE UNCHANGED rooms
    BY <2>2, SameRooms
  <2>3. ASSUME NEW d \in Conn \ {c}, Registered(r), IsHost(rooms[r], c),
               rooms' = [rooms EXCEPT ![r] = Vacate(rooms[r], d)]
        PROVE  RoomsWellKept'
    BY <2>1, <2>3, KickKeeps, OneRoomChanges DEF RoomsWellKept
  <2>4. QED
    BY <1>6, <2>2, <2>3 DEF KickMember, Refuse
<1>7. ASSUME NEW t \in Conn, ReleaseSeat(t) PROVE RoomsWellKept'
  <2> DEFINE r == lease[t].room  left == ExpireDisconnected(rooms[r], t)
  <2>1. r \in Room /\ rooms[r] \in RoomState
    BY <1>7 DEF ReleaseSeat, HoldsPointToRooms, TypeOK
  <2>2. left \in RoomState /\ Leave(rooms[r], t) \in RoomState
    BY <2>1, LeaveType
  <2>3. CASE UNCHANGED rooms
    BY <2>3, SameRooms
  <2>4. CASE CloseRoom(r, left, t) \/ CloseRoom(r, Leave(rooms[r], t), t)
    BY <2>1, <2>2, <2>4, ClosingKeeps
  <2>5. CASE /\ Registered(r) /\ ~ClosesOnExpiry(left)
             /\ rooms' = [rooms EXCEPT ![r] = left]
    BY <2>1, <2>5, ExpireKeeps, OneRoomChanges DEF RoomsWellKept
  <2>6. QED
    BY <1>7, <2>3, <2>4, <2>5 DEF ReleaseSeat
<1>8. ASSUME NEW r \in Room, PurgeHolds(r) PROVE RoomsWellKept'
  <2>1. rooms' = [rooms EXCEPT ![r] = [rooms[r] EXCEPT !.status = "removed"]]
    BY <1>8 DEF PurgeHolds
  <2>2. [rooms[r] EXCEPT !.status = "removed"].status = "removed"
    BY DEF TypeOK, RoomState
  <2>3. QED
    BY <2>1, <2>2, OneRoomChanges
<1>9. ASSUME NEW c \in Conn,
             \/ Connect(c) \/ HelloGuest(c) \/ Reclaim(c) \/ BeginLeave(c) \/ BeginDisband(c)
             \/ BeginKick(c) \/ BeginLogout(c) \/ Drop(c)
             \/ \E a \in Account : HelloAccount(c, a) \/ Login(c, a)
             \/ \E r \in Room : BeginJoin(c, r)
      PROVE  UNCHANGED rooms
  BY <1>9 DEF Connect, HelloGuest, Reclaim, BeginLeave, BeginDisband, BeginKick, BeginLogout,
     Drop, HelloAccount, Login, BeginBinding, BeginJoin, Begin
<1>10. ASSUME NEW c \in Conn,
              \/ BindAccount(c) \/ ChooseToken(c) \/ TakeHold(c) \/ AdoptHold(c)
              \/ ScreenNavigation(c) \/ ReadClock(c) \/ RestoreHold(c) \/ ExpireCall(c)
              \/ ExpireReturn(c) \/ DropHold(c) \/ Logout(c) \/ PassDeadline(c) \/ TimerFire(c)
       PROVE  UNCHANGED rooms
  BY <1>10 DEF BindAccount, ChooseToken, TakeHold, AdoptHold, ScreenNavigation, ReadClock,
     RestoreHold, ExpireCall, ExpireReturn, DropHold, Logout, PassDeadline, TimerFire
<1>11. CASE UNCHANGED vars
  BY <1>11, SameRooms DEF vars
<1>12. QED
  BY <1>1, <1>2, <1>3, <1>4, <1>5, <1>6, <1>7, <1>8, <1>9, <1>10, <1>11, SameRooms
     DEF Next, ClientStep, SessionStep, ExpiryStep

(***************************************************************************)
(* The account a session acts for                                          *)
(***************************************************************************)
\* Steps of a command that may end with the session in a room.
Entering == {"choosing", "joining"} \cup Wanting

\* An account session that is about to enter a room is its account's current
\* session: it became that before, or checked it, and has kept the lock since.
EntersAsCurrent ==
  \A c \in Conn : acct[c] \in Account /\ pc[c] \in Entering => current[acct[c]] = c

\* Every step keeps it: the account moves only to the session that holds its
\* lock, and a session in the middle of a command holds it.
LEMMA EntersAsCurrentStep ==
  TypeInv /\ EntersAsCurrent /\ [Next]_vars => EntersAsCurrent'
<1> SUFFICES ASSUME TypeInv, EntersAsCurrent, [Next]_vars PROVE EntersAsCurrent'
  OBVIOUS
<1> USE ConnAssumption, AccountAssumption
    DEF TypeInv, TypeOK, EntersAsCurrent, Entering, Wanting, Carrying, sessionVars, holdVars,
        accountVars
<1>1. ASSUME NEW c \in Conn, NEW step \in Steps \ Entering, pc' = [pc EXCEPT ![c] = step],
             UNCHANGED current, \A d \in Conn \ {c} : acct'[d] = acct[d]
      PROVE  EntersAsCurrent'
  BY <1>1
<1>2. ASSUME NEW c \in Conn, NEW step \in Entering, pc' = [pc EXCEPT ![c] = step],
             UNCHANGED current, UNCHANGED acct,
             pc[c] \in Entering \/ (acct[c] \in Account => current[acct[c]] = c)
      PROVE  EntersAsCurrent'
  BY <1>2
<1>3. ASSUME NEW c \in Conn, Connect(c) \/ HelloGuest(c) \/ Reclaim(c) \/ BeginLeave(c)
                               \/ BeginDisband(c) \/ BeginKick(c) \/ BeginLogout(c)
      PROVE  EntersAsCurrent'
  <2>1. CASE Connect(c)
    BY <2>1, <1>1 DEF Connect, Goto, Steps
  <2>2. CASE HelloGuest(c)
    BY <2>2 DEF HelloGuest, Goto, AccountLocked
  <2>3. CASE Reclaim(c)
    BY <2>3, <1>2 DEF Reclaim, Goto, Authorised
  <2>4. CASE BeginLeave(c)
    BY <2>4, <1>1 DEF BeginLeave, Begin, Goto, Steps
  <2>5. CASE BeginDisband(c)
    BY <2>5, <1>1 DEF BeginDisband, Begin, Goto, Steps
  <2>6. CASE BeginKick(c)
    BY <2>6, <1>1 DEF BeginKick, Begin, Goto, Steps
  <2>7. CASE BeginLogout(c)
    BY <2>7, <1>1 DEF BeginLogout, Begin, Goto, Steps
  <2>8. QED
    BY <1>3, <2>1, <2>2, <2>3, <2>4, <2>5, <2>6, <2>7
<1>4. ASSUME NEW c \in Conn, NEW a \in Account, HelloAccount(c, a) \/ Login(c, a)
      PROVE  EntersAsCurrent'
  BY <1>4, <1>1 DEF HelloAccount, Login, BeginBinding, Goto, Steps
<1>5. ASSUME NEW c \in Conn, NEW r \in Room, BeginJoin(c, r) PROVE EntersAsCurrent'
  BY <1>5, <1>2 DEF BeginJoin, Begin, Goto, Authorised
<1>6. ASSUME NEW c \in Conn, Drop(c) PROVE EntersAsCurrent'
  <2>1. acct' = acct
    BY <1>6 DEF Drop
  <2>2. \A d \in Conn : pc'[d] \in Entering => d # c /\ pc'[d] = pc[d]
    BY <1>6 DEF Drop, Goto
  <2>3. \A a \in Account : current'[a] = current[a] \/ current[a] = c
    BY <1>6 DEF Drop, ClearCurrent
  <2>4. QED
    BY <2>1, <2>2, <2>3
<1>7. ASSUME NEW c \in Conn, BindAccount(c) PROVE EntersAsCurrent'
  <2>1. acct' = acct /\ acct[c] \in Account /\ accountMu[acct[c]] = c
    BY <1>7 DEF BindAccount, AccountLocked, Busy
  <2>2. current' = [current EXCEPT ![acct[c]] = c]
    BY <1>7 DEF BindAccount
  <2>3. \A d \in Conn \ {c} : pc'[d] = pc[d]
    BY <1>7 DEF BindAccount, Continue, Goto, Finish
  <2>4. \A d \in Conn \ {c} : acct[d] \in Account /\ pc[d] \in Entering => acct[d] # acct[c]
    BY <2>1 DEF AccountLocked, Busy
  <2>5. QED
    BY <2>1, <2>2, <2>3, <2>4
<1>8. ASSUME NEW c \in Conn, DropHold(c) \/ Logout(c) PROVE EntersAsCurrent'
  <2>1. acct' = acct
    BY <1>8 DEF DropHold, Logout
  <2>2. \A d \in Conn : pc'[d] \in Entering => d # c /\ pc'[d] = pc[d]
    BY <1>8 DEF DropHold, Logout, Finish, Goto
  <2>3. \A a \in Account : current'[a] = current[a] \/ current[a] = c
    BY <1>8 DEF DropHold, Logout, ClearCurrent
  <2>4. QED
    BY <2>1, <2>2, <2>3
<1>9. ASSUME NEW c \in Conn,
             \/ ChooseToken(c) \/ TakeHold(c) \/ AdoptHold(c) \/ ScreenNavigation(c)
             \/ ResumeRoom(c) \/ ReadClock(c) \/ RestoreHold(c) \/ ExpireCall(c)
             \/ ExpireReturn(c)
      PROVE  EntersAsCurrent'
  <2>1. UNCHANGED <<acct, current>> /\ pc[c] \in Entering
    BY <1>9 DEF ChooseToken, TakeHold, AdoptHold, ScreenNavigation, ResumeRoom, ReadClock,
       RestoreHold, ExpireCall, ExpireReturn
  <2>2. \A d \in Conn \ {c} : pc'[d] = pc[d]
    BY <1>9 DEF ChooseToken, TakeHold, AdoptHold, ScreenNavigation, ResumeRoom, ReadClock,
       RestoreHold, ExpireCall, ExpireReturn, Continue, Goto, Finish
  <2>3. QED
    BY <2>1, <2>2
<1>10. ASSUME NEW c \in Conn, JoinRoom(c) \/ LeaveRoom(c) \/ DisbandRoom(c) \/ KickMember(c)
       PROVE  EntersAsCurrent'
  BY <1>10, <1>1 DEF JoinRoom, LeaveRoom, DisbandRoom, KickMember, Commit, Refuse, Finish, Steps
<1>11. ASSUME UNCHANGED <<pc, acct, current>> PROVE EntersAsCurrent'
  BY <1>11
<1>12. ASSUME NEW c \in Conn, NEW r \in Room, NEW kind \in Kinds, CreateRoom(c, r, kind)
       PROVE  UNCHANGED <<pc, acct, current>>
  BY <1>12 DEF CreateRoom
<1>13. ASSUME NEW c \in Conn, PassDeadline(c) \/ TimerFire(c) \/ ReleaseSeat(c)
       PROVE  UNCHANGED <<pc, acct, current>>
  BY <1>13 DEF PassDeadline, TimerFire, ReleaseSeat
<1>14. ASSUME NEW r \in Room, PurgeHolds(r) PROVE UNCHANGED <<pc, acct, current>>
  BY <1>14 DEF PurgeHolds
<1>15. CASE UNCHANGED vars
  BY <1>11, <1>15 DEF vars
<1>16. QED
  BY <1>3, <1>4, <1>5, <1>6, <1>7, <1>8, <1>9, <1>10, <1>11, <1>12, <1>13, <1>14, <1>15
     DEF Next, ClientStep, SessionStep, ExpiryStep

\* The step gives c no room it did not have.
GainsNothing(c) == bound'[c] \in {bound[c], NoRoom}

\* Closing a room takes rooms away and gives none.
LEMMA ClosingGains ==
  ASSUME TypeOK, NEW r, NEW rm, NEW c, CloseRoom(r, rm, c), NEW d \in Conn
  PROVE  GainsNothing(d)
BY DEF CloseRoom, GainsNothing, TypeOK

\* Only creating, joining and resuming give a room, and only to the session its
\* account is bound to.
LEMMA ReplacedGainsNothingStep ==
  TypeInv /\ EntersAsCurrent /\ [Next]_vars =>
    \A c \in Conn : acct[c] # NoAccount /\ pc[c] \notin {"binding", "attaching"}
                    /\ current[acct[c]] # c => bound'[c] \in {bound[c], NoRoom}
<1> SUFFICES ASSUME TypeInv, EntersAsCurrent, [Next]_vars, NEW d \in Conn,
                    acct[d] # NoAccount, current[acct[d]] # d
             PROVE  GainsNothing(d)
  BY DEF GainsNothing
<1> USE DEF TypeInv, sessionVars, holdVars, accountVars
<1>0. acct[d] \in Account /\ bound \in [Conn -> Room \cup {NoRoom}]
  BY DEF TypeOK
<1>same. ASSUME UNCHANGED bound PROVE GainsNothing(d)
  BY <1>same DEF GainsNothing
<1>1. ASSUME NEW c \in Conn, NEW r \in Room, NEW kind \in Kinds, CreateRoom(c, r, kind)
      PROVE  GainsNothing(d)
  BY <1>0, <1>1 DEF CreateRoom, Authorised, GainsNothing
<1>2. ASSUME NEW c \in Conn, JoinRoom(c) PROVE GainsNothing(d)
  <2>1. c # d
    BY <1>0, <1>2 DEF JoinRoom, Commit, EntersAsCurrent, Entering
  <2>2. UNCHANGED bound \/ bound' = [bound EXCEPT ![c] = target[c]]
    BY <1>2 DEF JoinRoom, Refuse
  <2>3. QED
    BY <1>0, <2>1, <2>2 DEF GainsNothing
<1>3. ASSUME NEW c \in Conn, ResumeRoom(c) PROVE GainsNothing(d)
  <2>1. c # d
    BY <1>0, <1>3 DEF ResumeRoom, EntersAsCurrent, Entering, Wanting, Carrying
  <2>2. UNCHANGED bound \/ bound' = [bound EXCEPT ![c] = lease[want[c]].room]
    BY <1>3 DEF ResumeRoom
  <2>3. QED
    BY <1>0, <2>1, <2>2 DEF GainsNothing
<1>4. ASSUME NEW c \in Conn, LeaveRoom(c) \/ DisbandRoom(c) \/ ReleaseSeat(c) PROVE GainsNothing(d)
  <2>1. \/ UNCHANGED bound \/ bound' = [bound EXCEPT ![c] = NoRoom]
        \/ \E r, rm : CloseRoom(r, rm, c)
    BY <1>4 DEF LeaveRoom, DisbandRoom, ReleaseSeat
  <2>2. QED
    BY <1>0, <2>1, ClosingGains DEF GainsNothing
<1>5. ASSUME NEW c \in Conn, KickMember(c) PROVE GainsNothing(d)
  BY <1>0, <1>5 DEF KickMember, Refuse, GainsNothing
<1>6. ASSUME NEW c \in Conn, BindAccount(c) \/ DropHold(c) \/ Logout(c) PROVE GainsNothing(d)
  <2>1. UNCHANGED bound \/ \E s : bound' = [bound EXCEPT ![s] = NoRoom]
    BY <1>6 DEF BindAccount, DropHold, Logout, Hold
  <2>2. QED
    BY <1>0, <2>1 DEF GainsNothing
<1>7. ASSUME NEW c \in Conn,
             \/ Connect(c) \/ HelloGuest(c) \/ Reclaim(c) \/ BeginLeave(c) \/ BeginDisband(c)
             \/ BeginKick(c) \/ BeginLogout(c) \/ Drop(c)
             \/ \E a \in Account : HelloAccount(c, a) \/ Login(c, a)
             \/ \E r \in Room : BeginJoin(c, r)
      PROVE  UNCHANGED bound
  BY <1>7 DEF Connect, HelloGuest, Reclaim, BeginLeave, BeginDisband, BeginKick, BeginLogout,
     Drop, HelloAccount, Login, BeginBinding, BeginJoin, Begin
<1>8. ASSUME NEW c \in Conn,
             \/ ChooseToken(c) \/ TakeHold(c) \/ AdoptHold(c) \/ ScreenNavigation(c)
             \/ ReadClock(c) \/ RestoreHold(c) \/ ExpireCall(c) \/ ExpireReturn(c)
             \/ PassDeadline(c) \/ TimerFire(c)
      PROVE  UNCHANGED bound
  BY <1>8 DEF ChooseToken, TakeHold, AdoptHold, ScreenNavigation, ReadClock, RestoreHold,
     ExpireCall, ExpireReturn, PassDeadline, TimerFire
<1>9. ASSUME NEW r \in Room, PurgeHolds(r) PROVE UNCHANGED bound
  BY <1>9 DEF PurgeHolds
<1>10. CASE UNCHANGED vars
  BY <1>10, <1>same DEF vars
<1>11. QED
  BY <1>1, <1>2, <1>3, <1>4, <1>5, <1>6, <1>7, <1>8, <1>9, <1>10, <1>same
     DEF Next, ClientStep, SessionStep, ExpiryStep

(***************************************************************************)
(* The theorems                                                            *)
(***************************************************************************)
\* The roles in a room and of a session, with the types they need.
RoleInv == TypeInv /\ RoomsWellKept /\ EntersAsCurrent

\* In every behaviour roles are kept.
THEOREM RolesAreKept == Spec => []RoleInv
<1>1. Init => RoleInv
  <2>1. Init => RoomsWellKept
    BY DEF Init, RoomsWellKept, Registered
  <2>2. Init => EntersAsCurrent
    BY AccountAssumption DEF Init, EntersAsCurrent
  <2>3. QED
    BY <2>1, <2>2, TypeInvInit DEF RoleInv
<1>2. RoleInv /\ [Next]_vars => RoleInv'
  <2>1. TypeInv /\ [Next]_vars => TypeInv'
    BY TypeOKStep, WantsATokenStep, HoldsPointToRoomsStep, TargetsARoomStep, AccountLockedStep
       DEF TypeInv
  <2>2. QED
    BY <2>1, RoomsWellKeptStep, EntersAsCurrentStep DEF RoleInv
<1>3. QED
  BY <1>1, <1>2, PTL DEF Spec

\* The host of a registered room is a seated human as long as there is one,
\* whoever leaves, is kicked, expires or is replaced.
THEOREM HostsAreSeated == Spec => []HostIsSeated
<1>1. RoleInv => HostIsSeated
  BY DEF RoleInv, RoomsWellKept, WellKept, Hosted, HostIsSeated
<1>2. QED
  BY <1>1, RolesAreKept, PTL

\* The hub keeps no registered room that nobody is in, or that only an AI plays.
THEOREM RoomsAreInhabited == Spec => []RoomIsInhabited
<1>1. RoleInv => RoomIsInhabited
  BY DEF RoleInv, RoomsWellKept, WellKept, Inhabited, RoomIsInhabited
<1>2. QED
  BY <1>1, RolesAreKept, PTL

\* A session whose account moved to another connection enters no room any more.
THEOREM ReplacedSessionsGainNothing == Spec => ReplacedGainsNothing
<1>1. RoleInv /\ [Next]_vars =>
        [\A c \in Conn : acct[c] # NoAccount /\ pc[c] \notin {"binding", "attaching"}
                         /\ current[acct[c]] # c => bound'[c] \in {bound[c], NoRoom}]_vars
  BY ReplacedGainsNothingStep DEF RoleInv
<1>2. QED
  BY <1>1, RolesAreKept, PTL DEF Spec, ReplacedGainsNothing
=============================================================================
