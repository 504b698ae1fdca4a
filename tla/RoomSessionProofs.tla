------------------------- MODULE RoomSessionProofs -------------------------
(***************************************************************************)
(* Second half of the proofs about RoomSession: every membership has an    *)
(* owner, a resume token is spent once and a bound session is a member.    *)
(*                                                                         *)
(* These three do not follow from each other.  They need to know that the  *)
(* session a hold was taken from never works again (Retired), and where a  *)
(* session in the middle of a command may be bound (BoundWhereExpected).   *)
(***************************************************************************)
EXTENDS RoomSessionTypes

(***************************************************************************)
(* The inductive invariant                                                 *)
(***************************************************************************)
\* The seat of t waits in the hold map, with a resuming goroutine or with the
\* expiry of the hold.
Suspended(t) == t \in held \cup expiring \/ \E c \in Conn : Carries(c, t)

\* t's goroutine is over, or its account has moved on and refuses it commands.
Retired(t) ==
  \/ pc[t] = "closed"
  \/ pc[t] = "idle" /\ acct[t] \in Account /\ current[acct[t]] # t

HeldIsRetired == \A t \in Conn : Suspended(t) => Retired(t)

Roomless == {"off", "hello", "closed", "binding", "choosing", "joining"} \cup Wanting
Leaving == {"leaving", "disbanding", "kicking", "dropping", "signingOut"}
Binding == {"binding", "attaching"}

\* What a goroutine read before its lock is still right, or was taken away; and
\* only an account session signs out.
BoundWhereExpected ==
  \A c \in Conn :
    /\ pc[c] \in Roomless => bound[c] = NoRoom
    /\ pc[c] \in Leaving => bound[c] \in {target[c], NoRoom}
    /\ pc[c] \in Binding /\ current[acct[c]] \in Conn \ {c}
         => bound[current[acct[c]]] \in {target[c], NoRoom}
    /\ pc[c] = "signingOut" => acct[c] \in Account

IInv == TypeInv /\ HeldIsRetired /\ BoundWhereExpected
        /\ BoundIsMember /\ TokenSpentOnce /\ EveryMemberHasAnOwner

(***************************************************************************)
(* Who is a member after a room reducer                                    *)
(***************************************************************************)
\* Removing a member removes nobody else.
LEMMA VacateMembers ==
  ASSUME NEW rm \in RoomState, NEW c \in Conn, NEW x \in Conn
  PROVE  /\ Member(Vacate(rm, c), x) <=> x # c /\ Member(rm, x)
         /\ Vacate(rm, c).status = rm.status
BY ConnAssumption DEF Vacate, Member, Seated, RoomState, Free

\* Moving the host role moves no member.
LEMMA TransferHostMembers ==
  ASSUME NEW rm \in RoomState, NEW x \in Conn
  PROVE  /\ Member(TransferHost(rm), x) <=> Member(rm, x)
         /\ TransferHost(rm).status = rm.status
BY DEF TransferHost, Member, Seated, RoomState

\* Leaving, or expiring, removes exactly that member.
LEMMA LeaveMembers ==
  ASSUME NEW rm \in RoomState, NEW c \in Conn, NEW x \in Conn
  PROVE  /\ Member(Leave(rm, c), x) <=> x # c /\ Member(rm, x)
         /\ Leave(rm, c).status = rm.status
         /\ Member(ExpireDisconnected(rm, c), x) <=> x # c /\ Member(rm, x)
         /\ ExpireDisconnected(rm, c).status = rm.status
BY VacateType, VacateMembers, TransferHostMembers DEF Leave, ExpireDisconnected

\* A joining player becomes a member and displaces nobody.
LEMMA JoinMembers ==
  ASSUME NEW rm \in RoomState, NEW c \in Conn, Occupied(rm) # Seat, NEW x \in Conn
  PROVE  /\ Member(Join(rm, c), x) <=> x = c \/ Member(rm, x)
         /\ Join(rm, c).status = rm.status
<1> DEFINE seat == Lowest(Seat \ Occupied(rm))
<1>1. seat \in Seat \ Occupied(rm)
  <2>1. Seat \ Occupied(rm) # {} /\ Seat \ Occupied(rm) \in SUBSET Seat
    BY DEF Occupied
  <2>2. QED
    BY <2>1, LowestIsMember
<1>2. rm.seats[seat] = NoConn
  BY <1>1 DEF Occupied, Free
<1> HIDE DEF seat
<1>3. /\ Join(rm, c).seats = [rm.seats EXCEPT ![seat] = c]
      /\ Join(rm, c).spectators = rm.spectators
      /\ Join(rm, c).status = rm.status
  BY DEF Join, RoomState, seat
<1>4. rm.seats \in [Seat -> Conn \cup {AI, Free}]
  BY DEF RoomState
<1>5. QED
  BY <1>1, <1>2, <1>3, <1>4, ConnAssumption DEF Member, Seated

\* A joining spectator becomes a member and displaces nobody.
LEMMA WatchMembers ==
  ASSUME NEW rm \in RoomState, NEW c \in Conn, NEW x \in Conn
  PROVE  /\ Member(Watch(rm, c), x) <=> x = c \/ Member(rm, x)
         /\ Watch(rm, c).status = rm.status
BY DEF Watch, Member, Seated, RoomState

\* A successor replaces exactly the membership it resumes.
LEMMA ReconnectMembers ==
  ASSUME NEW rm \in RoomState, NEW old \in Conn, NEW new \in Conn, NEW x \in Conn,
         old # new, Member(rm, old)
  PROVE  /\ Member(Reconnect(rm, old, new), x) <=> x = new \/ (x # old /\ Member(rm, x))
         /\ Reconnect(rm, old, new).status = rm.status
BY DEF Reconnect, Member, Seated, RoomState

(***************************************************************************)
(* What the invariant says of one session                                  *)
(***************************************************************************)
\* A session that still works is not suspended.
LEMMA ActiveNotSuspended ==
  ASSUME IInv, NEW c \in Conn,
         \/ pc[c] \notin {"idle", "closed"}
         \/ pc[c] = "idle" /\ (acct[c] # NoAccount => current[acct[c]] = c)
  PROVE  ~Suspended(c)
BY AccountAssumption DEF IInv, HeldIsRetired, Retired

\* A member of a registered room is bound to no other room.
LEMMA MemberBound ==
  ASSUME IInv, NEW r \in Room, NEW x \in Conn, Registered(r), Member(rooms[r], x)
  PROVE  /\ bound[x] \in {r, NoRoom}
         /\ bound[x] = NoRoom => Suspended(x) /\ lease[x].room = r
<1>1. CASE bound[x] = r
  BY <1>1, RoomAssumption
<1>2. CASE x \in held \cup expiring /\ lease[x].room = r
  BY <1>2 DEF IInv, TokenSpentOnce, Suspended
<1>3. CASE \E d \in Conn : Carries(d, x) /\ lease[x].room = r
  BY <1>3 DEF IInv, TokenSpentOnce, Suspended
<1>4. QED
  BY <1>1, <1>2, <1>3 DEF IInv, EveryMemberHasAnOwner

\* A session is a member of one registered room at most.
LEMMA OneRoom ==
  ASSUME IInv, NEW r \in Room, NEW q \in Room, NEW x \in Conn,
         Registered(r), Registered(q), Member(rooms[r], x), Member(rooms[q], x)
  PROVE  r = q
BY MemberBound, RoomAssumption

\* A working session that is bound nowhere is in no room.
LEMMA RoomlessIsNoMember ==
  ASSUME IInv, NEW c \in Conn, ~Suspended(c), bound[c] = NoRoom, NEW r \in Room, Registered(r)
  PROVE  ~Member(rooms[r], c)
BY MemberBound

(***************************************************************************)
(* Leaving a room and entering one                                         *)
(***************************************************************************)
\* Afterwards each member of a registered room was one before, with the same
\* binding, or is bound to that very room.
Kept ==
  \A q \in Room, y \in Conn : rooms'[q].status = "registered" /\ Member(rooms'[q], y) =>
    \/ bound'[y] = q
    \/ Registered(q) /\ Member(rooms[q], y) /\ bound'[y] = bound[y]

\* ... and no suspended session is bound again.
Moves == BoundIsMember' /\ Kept /\ \A y \in Conn : Suspended(y) => bound'[y] = NoRoom

\* A suspended session is bound nowhere.
LEMMA SuspendedIsUnbound ==
  ASSUME IInv, NEW y \in Conn, Suspended(y)
  PROVE  bound[y] = NoRoom
BY DEF IInv, TokenSpentOnce, Suspended

\* A step that leaves rooms and bindings alone.
LEMMA StandsStill ==
  ASSUME IInv, UNCHANGED <<rooms, bound>>
  PROVE  Moves
BY SuspendedIsUnbound DEF Moves, Kept, Registered, IInv, BoundIsMember

\* x leaves room r, which then is rm or closes.
LEMMA Departure ==
  ASSUME IInv, NEW r \in Room, NEW x \in Conn, NEW rm \in RoomState,
         Registered(r), Member(rooms[r], x),
         \A y \in Conn : Member(rm, y) <=> y # x /\ Member(rooms[r], y),
         \/ rooms' = [rooms EXCEPT ![r] = rm] /\ bound' = [bound EXCEPT ![x] = NoRoom]
         \/ CloseRoom(r, rm, x),
         rm.status = "registered"
  PROVE  /\ Moves
         /\ \A q \in Room : rooms'[q].status = "registered" => ~Member(rooms'[q], x)
<1> USE RoomAssumption DEF IInv, TypeInv, TypeOK
<1>1. \A q \in Room \ {r} : rooms'[q] = rooms[q]
  BY DEF CloseRoom
<1>closed. Closed(rm, "closing").status = "closing"
  BY DEF Closed, RoomState
<1>left. \/ /\ rooms'[r] = rm /\ bound' = [bound EXCEPT ![x] = NoRoom]
      \/ /\ rooms'[r] = Closed(rm, "closing")
         /\ bound' = [c \in Conn |-> IF c = x \/ Member(rm, c) THEN NoRoom ELSE bound[c]]
  BY DEF CloseRoom
<1>2. \A y \in Conn : /\ bound'[y] \in {bound[y], NoRoom}
                      /\ y # x /\ bound'[y] # bound[y]
                           => rooms'[r].status # "registered" /\ Member(rm, y)
  BY <1>closed, <1>left
<1>3. bound'[x] = NoRoom
  BY <1>left
<1>4. rooms'[r].status = "registered" => rooms'[r] = rm
  BY <1>closed, <1>left
<1>5. rooms'[r].status # "registered" => \A y \in Conn : Member(rm, y) => bound'[y] = NoRoom
  BY <1>left
<1>6. BoundIsMember'
  <2>1. SUFFICES ASSUME NEW y \in Conn, bound'[y] # NoRoom
                 PROVE  rooms'[bound'[y]].status = "registered" /\ Member(rooms'[bound'[y]], y)
    BY DEF BoundIsMember, Registered
  <2>2. y # x /\ bound'[y] = bound[y] /\ bound[y] \in Room
    BY <1>2, <1>3, <2>1
  <2>3. Registered(bound[y]) /\ Member(rooms[bound[y]], y)
    BY <2>1, <2>2 DEF BoundIsMember
  <2>4. CASE bound[y] = r
    BY <1>4, <1>5, <2>1, <2>2, <2>3, <2>4
  <2>5. CASE bound[y] # r
    BY <1>1, <2>2, <2>3, <2>5 DEF Registered
  <2>6. QED
    BY <2>4, <2>5
<1>7. \A q \in Room : rooms'[q].status = "registered" => ~Member(rooms'[q], x)
  BY <1>1, <1>4, OneRoom DEF Registered
<1>8. Kept
  <2>1. SUFFICES ASSUME NEW q \in Room, NEW y \in Conn,
                        rooms'[q].status = "registered", Member(rooms'[q], y)
                 PROVE  Registered(q) /\ Member(rooms[q], y) /\ bound'[y] = bound[y]
    BY DEF Kept
  <2>2. y # x
    BY <1>7, <2>1
  <2>3. Registered(q) /\ Member(rooms[q], y)
    BY <1>1, <1>4, <2>1 DEF Registered
  <2>4. bound'[y] = bound[y]
    <3>1. SUFFICES ASSUME bound'[y] # bound[y] PROVE FALSE
      OBVIOUS
    <3>2. rooms'[r].status # "registered" /\ Member(rooms[r], y)
      BY <1>2, <2>2, <3>1
    <3>3. q = r
      BY <2>3, <3>2, OneRoom
    <3>4. QED
      BY <2>1, <3>2, <3>3
  <2>5. QED
    BY <2>3, <2>4
<1>9. \A y \in Conn : Suspended(y) => bound'[y] = NoRoom
  BY <1>2, SuspendedIsUnbound
<1>10. QED
  BY <1>6, <1>7, <1>8, <1>9 DEF Moves

\* c enters room r, which then is rm.
LEMMA Arrival ==
  ASSUME IInv, NEW r \in Room, NEW c \in Conn, NEW rm \in RoomState,
         ~Suspended(c), bound[c] = NoRoom, rm.status = "registered",
         rooms' = [rooms EXCEPT ![r] = rm], bound' = [bound EXCEPT ![c] = r],
         Member(rm, c),
         \A y \in Conn \ {c} : Member(rm, y) => Registered(r) /\ Member(rooms[r], y),
         \A y \in Conn : bound[y] = r => Member(rm, y)
  PROVE  Moves
<1> USE RoomAssumption DEF IInv, TypeInv, TypeOK
<1>1. /\ rooms'[r] = rm /\ \A q \in Room \ {r} : rooms'[q] = rooms[q]
      /\ bound'[c] = r /\ \A y \in Conn \ {c} : bound'[y] = bound[y]
  OBVIOUS
<1>2. BoundIsMember'
  <2>1. SUFFICES ASSUME NEW y \in Conn, bound'[y] # NoRoom
                 PROVE  rooms'[bound'[y]].status = "registered" /\ Member(rooms'[bound'[y]], y)
    BY DEF BoundIsMember, Registered
  <2>2. CASE y = c
    BY <1>1, <2>2
  <2>3. CASE y # c
    <3>1. bound[y] \in Room /\ Registered(bound[y]) /\ Member(rooms[bound[y]], y)
      BY <1>1, <2>1, <2>3 DEF BoundIsMember
    <3>2. QED
      BY <1>1, <2>3, <3>1 DEF Registered
  <2>4. QED
    BY <2>2, <2>3
<1>3. Kept
  <2>1. SUFFICES ASSUME NEW q \in Room, NEW y \in Conn,
                        rooms'[q].status = "registered", Member(rooms'[q], y), bound'[y] # q
                 PROVE  Registered(q) /\ Member(rooms[q], y) /\ bound'[y] = bound[y]
    BY DEF Kept
  <2>2. CASE y = c
    <3>1. q # r /\ Registered(q) /\ Member(rooms[q], c)
      BY <1>1, <2>1, <2>2 DEF Registered
    <3>2. QED
      BY <3>1, RoomlessIsNoMember
  <2>3. CASE y # c
    BY <1>1, <2>1, <2>3 DEF Registered
  <2>4. QED
    BY <2>2, <2>3
<1>4. \A y \in Conn : Suspended(y) => bound'[y] = NoRoom
  BY <1>1, SuspendedIsUnbound
<1>5. QED
  BY <1>2, <1>3, <1>4 DEF Moves

(***************************************************************************)
(* The room commands                                                       *)
(***************************************************************************)
\* A command keeps every room consistent with the bindings of its members.
LEMMA LeaveMoves ==
  ASSUME IInv, NEW c \in Conn, LeaveRoom(c)
  PROVE  Moves
<1> DEFINE r == target[c]  left == Leave(rooms[r], c)
<1>1. r \in Room /\ rooms[r] \in RoomState
  BY DEF IInv, TypeInv, TypeOK, TargetsARoom, LeaveRoom, Commit
<1>2. CASE ~Registered(r) \/ ~Member(rooms[r], c)
  BY <1>2, StandsStill DEF LeaveRoom
<1>3. CASE Registered(r) /\ Member(rooms[r], c)
  <2>1. left \in RoomState /\ left.status = "registered"
    BY <1>1, <1>3, LeaveType, LeaveMembers DEF Registered
  <2>2. \A y \in Conn : Member(left, y) <=> y # c /\ Member(rooms[r], y)
    BY <1>1, LeaveMembers
  <2>3. \/ rooms' = [rooms EXCEPT ![r] = left] /\ bound' = [bound EXCEPT ![c] = NoRoom]
        \/ CloseRoom(r, left, c)
    BY <1>3 DEF LeaveRoom
  <2> HIDE DEF r, left
  <2>4. QED
    BY <1>1, <1>3, <2>1, <2>2, <2>3, Departure
<1>4. QED
  BY <1>2, <1>3

\* Disbanding a room unbinds all of its members.
LEMMA DisbandMoves ==
  ASSUME IInv, NEW c \in Conn, DisbandRoom(c)
  PROVE  Moves
<1> DEFINE r == target[c]  left == Vacate(rooms[r], c)
<1>1. r \in Room /\ rooms[r] \in RoomState
  BY DEF IInv, TypeInv, TypeOK, TargetsARoom, DisbandRoom, Commit
<1>2. CASE ~(Registered(r) /\ IsHost(rooms[r], c))
  BY <1>2, StandsStill DEF DisbandRoom
<1>3. CASE Registered(r) /\ IsHost(rooms[r], c)
  <2>1. left \in RoomState /\ left.status = "registered"
    BY <1>1, <1>3, VacateType, VacateMembers DEF Registered
  <2>2. \A y \in Conn : Member(left, y) <=> y # c /\ Member(rooms[r], y)
    BY <1>1, VacateMembers
  <2>3. Member(rooms[r], c)
    BY <1>3 DEF IsHost, Member, Seated
  <2>4. CloseRoom(r, left, c)
    BY <1>3 DEF DisbandRoom
  <2> HIDE DEF r, left
  <2>5. QED
    BY <1>1, <1>3, <2>1, <2>2, <2>3, <2>4, Departure
<1>4. QED
  BY <1>2, <1>3

\* A kicked member is unbound with its seat.
LEMMA KickMoves ==
  ASSUME IInv, NEW c \in Conn, KickMember(c)
  PROVE  Moves
<1> DEFINE r == target[c]
<1>1. r \in Room /\ rooms[r] \in RoomState
  BY DEF IInv, TypeInv, TypeOK, TargetsARoom, KickMember, Commit
<1>2. CASE UNCHANGED <<rooms, bound>>
  BY <1>2, StandsStill
<1>3. CASE ~UNCHANGED <<rooms, bound>>
  <2>1. PICK d \in Conn \ {c} : /\ Registered(r) /\ Member(rooms[r], d)
                                /\ rooms' = [rooms EXCEPT ![r] = Vacate(rooms[r], d)]
                                /\ bound' = [bound EXCEPT ![d] = NoRoom]
    BY <1>3 DEF KickMember, Refuse
  <2> DEFINE left == Vacate(rooms[r], d)
  <2>2. left \in RoomState /\ left.status = "registered"
    BY <1>1, <2>1, VacateType, VacateMembers DEF Registered
  <2>3. \A y \in Conn : Member(left, y) <=> y # d /\ Member(rooms[r], y)
    BY <1>1, VacateMembers
  <2>4. rooms' = [rooms EXCEPT ![r] = left]
    BY <2>1
  <2> HIDE DEF r, left
  <2>5. QED
    BY <1>1, <2>1, <2>2, <2>3, <2>4, Departure
<1>4. QED
  BY <1>2, <1>3

\* An expired seat is in no room afterwards.
LEMMA ReleaseMoves ==
  ASSUME IInv, NEW t \in Conn, ReleaseSeat(t)
  PROVE  Moves /\ \A q \in Room : rooms'[q].status = "registered" => ~Member(rooms'[q], t)
<1> DEFINE r == lease[t].room
           left == IF rooms[r].kind = "engine" /\ rooms[r].seats[0] = t
                   THEN Leave(rooms[r], t) ELSE ExpireDisconnected(rooms[r], t)
<1>1. r \in Room /\ rooms[r] \in RoomState /\ t \in expiring
  BY DEF IInv, TypeInv, TypeOK, HoldsPointToRooms, ReleaseSeat
<1>2. Suspended(t) /\ bound[t] = NoRoom
  BY <1>1, SuspendedIsUnbound DEF Suspended
<1>3. CASE ~Registered(r) \/ ~Member(rooms[r], t)
  <2>1. UNCHANGED <<rooms, bound>>
    BY <1>3 DEF ReleaseSeat
  <2>2. \A q \in Room : Registered(q) => ~Member(rooms[q], t)
    BY <1>2, <1>3, MemberBound, RoomAssumption
  <2>3. QED
    BY <2>1, <2>2, StandsStill DEF Registered
<1>4. CASE Registered(r) /\ Member(rooms[r], t)
  <2>1. left \in RoomState /\ left.status = "registered"
    BY <1>1, <1>4, LeaveType, LeaveMembers DEF Registered
  <2>2. \A y \in Conn : Member(left, y) <=> y # t /\ Member(rooms[r], y)
    BY <1>1, LeaveMembers
  <2>3. bound = [bound EXCEPT ![t] = NoRoom]
    BY <1>2 DEF IInv, TypeInv, TypeOK
  <2>4. \/ rooms' = [rooms EXCEPT ![r] = left] /\ bound' = [bound EXCEPT ![t] = NoRoom]
        \/ CloseRoom(r, left, t)
    BY <1>4, <2>3 DEF ReleaseSeat
  <2> HIDE DEF r, left
  <2>5. QED
    BY <1>1, <1>4, <2>1, <2>2, <2>4, Departure
<1>5. QED
  BY <1>3, <1>4

\* The creator is bound to the room it made.
LEMMA CreateMoves ==
  ASSUME IInv, NEW c \in Conn, NEW r \in Room, NEW kind \in Kinds, CreateRoom(c, r, kind)
  PROVE  Moves
<1> DEFINE rm == [status |-> "registered", kind |-> kind, spectators |-> {}, host |-> 0,
                  seats |-> [Empty EXCEPT ![0] = c, ![1] = IF kind = "ai" THEN AI ELSE Free]]
<1>1. 0 \in Seat /\ 1 \in Seat /\ 0 # 1
  BY SeatAssumption DEF Seat
<1>2. rm \in RoomState
  BY <1>1, KindAssumption DEF RoomState, Empty, Free
<1>3. ~Suspended(c) /\ bound[c] = NoRoom
  BY ActiveNotSuspended DEF CreateRoom, Authorised, MayEnter
<1>4. \A y \in Conn : Member(rm, y) <=> y = c
  <2>1. Empty \in [Seat -> {Free}]
    BY DEF Empty
  <2>2. /\ rm.spectators = {} /\ rm.seats[0] = c
        /\ \A s \in Seat \ {0} : rm.seats[s] \in {AI, Free}
    BY <1>1, <2>1
  <2>3. QED
    BY <1>1, <2>2, ConnAssumption DEF Member, Seated, Free
<1>5. \A y \in Conn : bound[y] # r
  BY RoomAssumption DEF IInv, BoundIsMember, Registered, CreateRoom
<1>6. rooms' = [rooms EXCEPT ![r] = rm] /\ bound' = [bound EXCEPT ![c] = r]
  BY DEF CreateRoom
<1>7. rm.status = "registered"
  OBVIOUS
<1> HIDE DEF rm
<1>8. QED
  BY <1>2, <1>3, <1>4, <1>5, <1>6, <1>7, Arrival

\* A joining session enters one room, as a player or as a spectator.
LEMMA JoinMoves ==
  ASSUME IInv, NEW c \in Conn, JoinRoom(c)
  PROVE  Moves
<1> DEFINE r == target[c]
<1>1. r \in Room /\ rooms[r] \in RoomState
  BY DEF IInv, TypeInv, TypeOK, TargetsARoom, JoinRoom, Commit
<1>2. ~Suspended(c) /\ bound[c] = NoRoom
  BY ActiveNotSuspended DEF JoinRoom, Commit, IInv, BoundWhereExpected, Roomless
<1>3. CASE UNCHANGED <<rooms, bound>>
  BY <1>3, StandsStill
<1>4. CASE ~UNCHANGED <<rooms, bound>>
  <2>1. Registered(r) /\ bound' = [bound EXCEPT ![c] = r]
    BY <1>4 DEF JoinRoom, Refuse
  <2>2. \/ Occupied(rooms[r]) # Seat /\ rooms' = [rooms EXCEPT ![r] = Join(rooms[r], c)]
        \/ rooms' = [rooms EXCEPT ![r] = Watch(rooms[r], c)]
    BY <1>4 DEF JoinRoom, Refuse
  <2>3. PICK rm \in RoomState : /\ rooms' = [rooms EXCEPT ![r] = rm]
                                /\ rm.status = "registered"
                                /\ \A y \in Conn : Member(rm, y) <=> y = c \/ Member(rooms[r], y)
    <3>1. CASE Occupied(rooms[r]) # Seat /\ rooms' = [rooms EXCEPT ![r] = Join(rooms[r], c)]
      <4>1. Join(rooms[r], c) \in RoomState
        BY <1>1, <3>1, JoinType
      <4>2. \A y \in Conn : Member(Join(rooms[r], c), y) <=> y = c \/ Member(rooms[r], y)
        BY <1>1, <3>1, JoinMembers
      <4>3. Join(rooms[r], c).status = rooms[r].status
        BY <1>1, <3>1, JoinMembers
      <4>4. QED
        BY <2>1, <3>1, <4>1, <4>2, <4>3 DEF Registered
    <3>2. CASE rooms' = [rooms EXCEPT ![r] = Watch(rooms[r], c)]
      <4>1. Watch(rooms[r], c) \in RoomState
        BY <1>1 DEF Watch, RoomState
      <4>2. QED
        BY <1>1, <2>1, <3>2, <4>1, WatchMembers DEF Registered
    <3>3. QED
      BY <2>2, <3>1, <3>2
  <2>4. \A y \in Conn : bound[y] = r => Member(rm, y)
    BY <1>1, <2>3, RoomAssumption DEF IInv, BoundIsMember
  <2> HIDE DEF r
  <2>5. QED
    BY <1>1, <1>2, <2>1, <2>3, <2>4, Arrival
<1>5. QED
  BY <1>3, <1>4

\* The successor takes the seat over; the session it lost is in no room.
LEMMA ResumeMoves ==
  ASSUME IInv, NEW c \in Conn, ResumeRoom(c)
  PROVE  /\ Moves
         /\ \/ /\ UNCHANGED <<rooms, bound>> /\ pc'[c] = "restoring" /\ want' = want
            \/ \A q \in Room : rooms'[q].status = "registered" => ~Member(rooms'[q], want[c])
<1> DEFINE t == want[c]  r == lease[t].room  rm == Reconnect(rooms[r], t, c)
<1>1. t \in Conn /\ r \in Room /\ rooms[r] \in RoomState /\ Carries(c, t)
  BY DEF IInv, TypeInv, TypeOK, WantsAToken, Wanting, Carrying, HoldsPointToRooms, Carries,
         ResumeRoom
<1>2. ~Suspended(c) /\ bound[c] = NoRoom
  BY ActiveNotSuspended DEF ResumeRoom, IInv, BoundWhereExpected, Roomless, Wanting, Carrying
<1>3. Suspended(t) /\ bound[t] = NoRoom /\ t # c
  BY <1>1, <1>2, SuspendedIsUnbound DEF Suspended
<1>4. \A q \in Room : Registered(q) /\ Member(rooms[q], t) => q = r
  BY <1>1, <1>3, MemberBound, RoomAssumption
<1>5. CASE ~(Registered(r) /\ Member(rooms[r], t))
  <2>1. UNCHANGED <<rooms, bound>>
    BY <1>5 DEF ResumeRoom
  <2>2. QED
    BY <1>4, <1>5, <2>1, StandsStill DEF Registered
<1>6. CASE UNCHANGED <<rooms, bound>> /\ pc'[c] = "restoring" /\ want' = want
  BY <1>6, StandsStill
<1>7. CASE /\ Registered(r) /\ Member(rooms[r], t)
           /\ rooms' = [rooms EXCEPT ![r] = rm] /\ bound' = [bound EXCEPT ![c] = r]
  <2>1. rm \in RoomState /\ rm.status = "registered"
    BY <1>1, <1>3, <1>7, ReconnectType, ReconnectMembers DEF Registered
  <2>2. \A y \in Conn : Member(rm, y) <=> y = c \/ (y # t /\ Member(rooms[r], y))
    BY <1>1, <1>3, <1>7, ReconnectMembers
  <2>3. \A y \in Conn : bound[y] = r => Member(rm, y)
    BY <1>1, <1>3, <2>2, RoomAssumption DEF IInv, BoundIsMember
  <2>4. \A q \in Room : rooms'[q].status = "registered" => ~Member(rooms'[q], t)
    BY <1>1, <1>3, <1>4, <1>7, <2>2 DEF Registered, IInv, TypeInv, TypeOK
  <2> HIDE DEF t, r, rm
  <2>5. Moves
    BY <1>1, <1>2, <1>7, <2>1, <2>2, <2>3, Arrival
  <2>6. QED
    BY <2>4, <2>5 DEF t
<1>8. QED
  BY <1>1, <1>5, <1>6, <1>7 DEF ResumeRoom, Continue, Goto, IInv, TypeInv, TypeOK

(***************************************************************************)
(* What carries each part over a step                                      *)
(***************************************************************************)
\* A step that suspends nobody keeps suspended sessions retired.
LEMMA RetiredKeeps ==
  ASSUME IInv, NEW c \in Conn, pc[c] \notin {"idle", "closed"},
         \A d \in Conn \ {c} : pc'[d] = pc[d],
         acct' = acct, \A a \in Account : current'[a] \in {current[a], NoConn},
         \A t \in Conn : Suspended(t)' => Suspended(t)
  PROVE  HeldIsRetired'
<1> SUFFICES ASSUME NEW t \in Conn, Suspended(t)' PROVE Retired(t)'
  BY DEF HeldIsRetired
<1>1. Suspended(t) /\ t # c
  BY ActiveNotSuspended
<1>2. Retired(t)
  BY <1>1 DEF IInv, HeldIsRetired
<1>3. QED
  BY <1>1, <1>2, ConnAssumption DEF Retired

\* A step that moves no token keeps each token in one place.
LEMMA TokensKeep ==
  ASSUME IInv, UNCHANGED <<held, expiring>>,
         \A d \in Conn, t \in Conn : Carries(d, t)' => Carries(d, t),
         Moves
  PROVE  TokenSpentOnce'
BY DEF IInv, TypeInv, TypeOK, TokenSpentOnce, Suspended, Moves

\* Members keep their owners while holds and carried tokens stay.
LEMMA OwnersKeep ==
  ASSUME IInv, UNCHANGED <<held, expiring, lease>>, Moves,
         \A d \in Conn, t \in Conn : Carries(d, t) => Carries(d, t)'
  PROVE  EveryMemberHasAnOwner'
<1> SUFFICES ASSUME NEW q \in Room, NEW y \in Conn,
                    rooms'[q].status = "registered", Member(rooms'[q], y), bound'[y] # q
             PROVE  \/ y \in held \cup expiring /\ lease[y].room = q
                    \/ \E d \in Conn : Carries(d, y)' /\ lease[y].room = q
  BY DEF EveryMemberHasAnOwner, Registered
<1>1. Registered(q) /\ Member(rooms[q], y) /\ bound[y] # q
  BY DEF Moves, Kept
<1>2. QED
  BY <1>1 DEF IInv, EveryMemberHasAnOwner

\* ... or the one session that lost its owner is in no room any more.
LEMMA KeptOwners ==
  ASSUME IInv, NEW x \in Conn, Moves, UNCHANGED <<held, lease>>,
         expiring \ {x} \subseteq expiring',
         \A d \in Conn, t \in Conn \ {x} : Carries(d, t) => Carries(d, t)',
         \A q \in Room : rooms'[q].status = "registered" => ~Member(rooms'[q], x)
  PROVE  EveryMemberHasAnOwner'
<1> SUFFICES ASSUME NEW q \in Room, NEW y \in Conn,
                    rooms'[q].status = "registered", Member(rooms'[q], y), bound'[y] # q
             PROVE  \/ y \in held \cup expiring' /\ lease[y].room = q
                    \/ \E d \in Conn : Carries(d, y)' /\ lease[y].room = q
  BY DEF EveryMemberHasAnOwner, Registered
<1>1. y # x /\ Registered(q) /\ Member(rooms[q], y) /\ bound[y] # q
  BY DEF Moves, Kept
<1>2. QED
  BY <1>1 DEF IInv, EveryMemberHasAnOwner

\* A session put on hold still owns its seat, through the hold.
LEMMA HoldOwners ==
  ASSUME IInv, NEW s \in Conn, NEW r \in Room, Hold(s, r), rooms' = rooms,
         ~Suspended(s), bound[s] \in {r, NoRoom},
         \A d \in Conn, t \in Conn : Carries(d, t) => Carries(d, t)'
  PROVE  EveryMemberHasAnOwner'
<1> USE DEF IInv, TypeInv, TypeOK
<1>1. \A t \in Conn \ {s} : lease'[t] = lease[t] /\ bound'[t] = bound[t]
  BY HoldLeases DEF Hold
<1>2. held \subseteq held' /\ expiring' = expiring
  BY DEF Hold
<1> SUFFICES ASSUME NEW q \in Room, NEW y \in Conn, Registered(q), Member(rooms[q], y)
             PROVE  \/ bound'[y] = q
                    \/ y \in held' \cup expiring' /\ lease'[y].room = q
                    \/ \E d \in Conn : Carries(d, y)' /\ lease'[y].room = q
  BY DEF EveryMemberHasAnOwner, Registered
<1>3. CASE y = s
  <2>1. bound[s] = q
    BY <1>3, MemberBound
  <2>2. q = r
    BY <2>1, RoomAssumption
  <2>3. s \in held' /\ lease'[s].room = r
    BY <1>3, <2>2 DEF Hold
  <2>4. QED
    BY <1>3, <2>2, <2>3
<1>4. CASE y # s
  BY <1>1, <1>2, <1>4 DEF EveryMemberHasAnOwner
<1>5. QED
  BY <1>3, <1>4

\* No step revives a session whose seat was put on hold.
LEMMA HeldIsRetiredStep ==
  IInv /\ [Next]_vars => HeldIsRetired'
<1> SUFFICES ASSUME IInv, [Next]_vars PROVE HeldIsRetired'
  OBVIOUS
<1> USE ConnAssumption, RoomAssumption, AccountAssumption DEF IInv, TypeInv, TypeOK,
        HeldIsRetired, Retired, Suspended, Carries, Carrying, WantsAToken, Wanting,
        AccountLocked, Busy, sessionVars, holdVars, accountVars
<1>1. ASSUME NEW c \in Conn, Connect(c) PROVE HeldIsRetired'
  BY <1>1 DEF Connect, Goto
<1>2. ASSUME NEW c \in Conn, HelloGuest(c) PROVE HeldIsRetired'
  BY <1>2 DEF HelloGuest, Presentable, Goto
<1>3. ASSUME NEW c \in Conn, NEW a \in Account, HelloAccount(c, a) PROVE HeldIsRetired'
  BY <1>3 DEF HelloAccount, BeginBinding, ReplacedRoom, Replaced, Presentable, Goto
<1>4. ASSUME NEW c \in Conn, NEW a \in Account, Login(c, a) PROVE HeldIsRetired'
  BY <1>4 DEF Login, BeginBinding, ReplacedRoom, Replaced, Goto
<1>5. ASSUME NEW c \in Conn, Reclaim(c) PROVE HeldIsRetired'
  BY <1>5 DEF Reclaim, Authorised, AccountHolds, Acquire, Goto
<1>6. ASSUME NEW c \in Conn, NEW r \in Room, NEW kind \in Kinds, CreateRoom(c, r, kind)
      PROVE  HeldIsRetired'
  BY <1>6 DEF CreateRoom, Authorised, MayEnter
<1>7. ASSUME NEW c \in Conn, NEW r \in Room, BeginJoin(c, r) PROVE HeldIsRetired'
  BY <1>7 DEF BeginJoin, Begin, Authorised, MayEnter, Acquire, Goto
<1>8. ASSUME NEW c \in Conn, BeginLeave(c) PROVE HeldIsRetired'
  BY <1>8 DEF BeginLeave, Begin, Authorised, Acquire, Goto
<1>9. ASSUME NEW c \in Conn, BeginDisband(c) PROVE HeldIsRetired'
  BY <1>9 DEF BeginDisband, Begin, Authorised, Acquire, Goto
<1>10. ASSUME NEW c \in Conn, BeginKick(c) PROVE HeldIsRetired'
  BY <1>10 DEF BeginKick, Begin, Authorised, Acquire, Goto
<1>11. ASSUME NEW c \in Conn, BeginLogout(c) PROVE HeldIsRetired'
  BY <1>11 DEF BeginLogout, Begin, Authorised, Acquire, Goto
<1>12. ASSUME NEW c \in Conn, Drop(c) PROVE HeldIsRetired'
  <2>1. \A d \in Conn, t \in Conn : Carries(d, t)' => Carries(d, t)
    BY <1>12 DEF Drop, Acquire, ClearCurrent, Goto
  <2>2. \A t \in Conn : Suspended(t)' => Suspended(t)
    BY <1>12, <2>1 DEF Drop
  <2>3. Suspended(c) => pc'[c] = "closed"
    BY <1>12, SuspendedIsUnbound DEF Drop, Goto
  <2>4. /\ \A d \in Conn \ {c} : pc'[d] = pc[d]
        /\ acct' = acct /\ \A a \in Account : current'[a] \in {current[a], NoConn}
    BY <1>12 DEF Drop, Goto, ClearCurrent
  <2>5. QED
    BY <2>2, <2>3, <2>4
<1>13. ASSUME NEW c \in Conn, BindAccount(c) PROVE HeldIsRetired'
  BY <1>13 DEF BindAccount, Hold, Finish, Continue, Release, Goto
<1>14. ASSUME NEW c \in Conn, ChooseToken(c) PROVE HeldIsRetired'
  BY <1>14 DEF ChooseToken, AccountHolds, Finish, Release, Goto
<1>15. ASSUME NEW c \in Conn, TakeHold(c) PROVE HeldIsRetired'
  BY <1>15 DEF TakeHold, Spendable, Finish, Continue, Release, Goto
<1>16. ASSUME NEW c \in Conn, AdoptHold(c) PROVE HeldIsRetired'
  BY <1>16 DEF AdoptHold, Goto
<1>17. ASSUME NEW c \in Conn, ScreenNavigation(c) PROVE HeldIsRetired'
  BY <1>17 DEF ScreenNavigation, Goto
<1>18. ASSUME NEW c \in Conn, ResumeRoom(c) PROVE HeldIsRetired'
  <2>1. \A d \in Conn, t \in Conn : Carries(d, t)' => Carries(d, t)
    BY <1>18 DEF ResumeRoom, Finish, Continue, Release, Goto
  <2>2. \A t \in Conn : Suspended(t)' => Suspended(t)
    BY <1>18, <2>1 DEF ResumeRoom
  <2>3. QED
    BY <1>18, <2>2, RetiredKeeps DEF ResumeRoom, Finish, Continue, Goto
<1>19. ASSUME NEW c \in Conn, ReadClock(c) PROVE HeldIsRetired'
  BY <1>19 DEF ReadClock, Goto
<1>20. ASSUME NEW c \in Conn, RestoreHold(c) PROVE HeldIsRetired'
  <2>1. \A d \in Conn, t \in Conn : Carries(d, t)' => Carries(d, t)
    BY <1>20 DEF RestoreHold, Finish, Continue, Release, Goto
  <2>2. want[c] \in Conn /\ Carries(c, want[c])
    BY <1>20 DEF RestoreHold
  <2>3. held' = held \cup {want[c]} /\ expiring' = expiring
    BY <1>20 DEF RestoreHold
  <2>4. \A t \in Conn : Suspended(t)' => Suspended(t)
    BY <2>1, <2>2, <2>3
  <2>5. QED
    BY <1>20, <2>4, RetiredKeeps DEF RestoreHold, Finish, Continue, Goto
<1>21. ASSUME NEW c \in Conn, ExpireCall(c) PROVE HeldIsRetired'
  <2>1. \A d \in Conn, t \in Conn : Carries(d, t)' => Carries(d, t)
    BY <1>21 DEF ExpireCall, BeginExpiry, Finish, Continue, Release, Goto
  <2>2. \A t \in Conn : Suspended(t)' => Suspended(t)
    BY <1>21, <2>1 DEF ExpireCall, BeginExpiry
  <2>3. QED
    BY <1>21, <2>2, RetiredKeeps DEF ExpireCall, BeginExpiry, Finish, Continue, Goto
<1>22. ASSUME NEW c \in Conn, ExpireReturn(c) PROVE HeldIsRetired'
  BY <1>22 DEF ExpireReturn, Finish, Release
<1>23. ASSUME NEW c \in Conn, JoinRoom(c) PROVE HeldIsRetired'
  BY <1>23 DEF JoinRoom, Commit, Refuse, Finish, Release
<1>24. ASSUME NEW c \in Conn, LeaveRoom(c) PROVE HeldIsRetired'
  <2>1. \A d \in Conn, t \in Conn : Carries(d, t)' => Carries(d, t)
    BY <1>24 DEF LeaveRoom, Commit, CloseRoom, Finish, Release
  <2>2. \A t \in Conn : Suspended(t)' => Suspended(t)
    BY <1>24, <2>1 DEF LeaveRoom, Commit
  <2>3. QED
    BY <1>24, <2>2, RetiredKeeps DEF LeaveRoom, Commit, Finish, Continue, Goto
<1>25. ASSUME NEW c \in Conn, DisbandRoom(c) PROVE HeldIsRetired'
  BY <1>25 DEF DisbandRoom, Commit, CloseRoom, Finish, Release
<1>26. ASSUME NEW c \in Conn, KickMember(c) PROVE HeldIsRetired'
  BY <1>26 DEF KickMember, Commit, Refuse, Finish, Release
<1>27. ASSUME NEW c \in Conn, DropHold(c) PROVE HeldIsRetired'
  BY <1>27 DEF DropHold, Hold, Release, ClearCurrent, Goto
<1>28. ASSUME NEW c \in Conn, Logout(c) PROVE HeldIsRetired'
  <2>1. \A d \in Conn, t \in Conn : Carries(d, t)' => Carries(d, t)
    BY <1>28 DEF Logout, Hold, Finish, Release, ClearCurrent
  <2>2. \A t \in Conn \ {c} : Suspended(t)' => Suspended(t)
    BY <1>28, <2>1 DEF Logout, Hold
  <2>3. /\ \A d \in Conn \ {c} : pc'[d] = pc[d]
        /\ acct' = acct /\ \A a \in Account : current'[a] \in {current[a], NoConn}
    BY <1>28 DEF Logout, Finish, ClearCurrent
  <2>4. acct[c] \in Account /\ pc'[c] = "idle" /\ current'[acct[c]] # c
    BY <1>28 DEF Logout, Finish, ClearCurrent, BoundWhereExpected
  <2>5. QED
    BY <2>2, <2>3, <2>4
<1>29. ASSUME NEW c \in Conn, PassDeadline(c) PROVE HeldIsRetired'
  BY <1>29 DEF PassDeadline
<1>30. ASSUME NEW c \in Conn, TimerFire(c) PROVE HeldIsRetired'
  BY <1>30 DEF TimerFire, BeginExpiry
<1>31. ASSUME NEW c \in Conn, ReleaseSeat(c) PROVE HeldIsRetired'
  BY <1>31 DEF ReleaseSeat, CloseRoom
<1>32. ASSUME NEW r \in Room, PurgeHolds(r) PROVE HeldIsRetired'
  BY <1>32 DEF PurgeHolds
<1>33. CASE UNCHANGED vars
  BY <1>33 DEF vars
<1>34. QED
  BY <1>1, <1>2, <1>3, <1>4, <1>5, <1>6, <1>7, <1>8, <1>9, <1>10, <1>11, <1>12, <1>13, <1>14,
     <1>15, <1>16, <1>17, <1>18, <1>19, <1>20, <1>21, <1>22, <1>23, <1>24, <1>25, <1>26, <1>27,
     <1>28, <1>29, <1>30, <1>31, <1>32, <1>33 DEF Next, ClientStep, SessionStep, ExpiryStep

\* No step binds a session that is in the middle of a command elsewhere.
LEMMA BoundWhereExpectedStep ==
  IInv /\ [Next]_vars => BoundWhereExpected'
<1> SUFFICES ASSUME IInv, [Next]_vars PROVE BoundWhereExpected'
  OBVIOUS
<1> USE ConnAssumption, RoomAssumption, AccountAssumption DEF IInv, TypeInv, TypeOK,
        BoundWhereExpected, HeldIsRetired, Retired, Roomless, Leaving, Binding, Carrying,
        Wanting, WantsAToken, AccountLocked, Busy, sessionVars, holdVars, accountVars
<1>1. ASSUME NEW c \in Conn, Connect(c) PROVE BoundWhereExpected'
  BY <1>1 DEF Connect, Goto
<1>2. ASSUME NEW c \in Conn, HelloGuest(c) PROVE BoundWhereExpected'
  BY <1>2 DEF HelloGuest, Presentable, Goto
<1>3. ASSUME NEW c \in Conn, NEW a \in Account, HelloAccount(c, a) PROVE BoundWhereExpected'
  BY <1>3 DEF HelloAccount, BeginBinding, ReplacedRoom, Replaced, Presentable, Goto
<1>4. ASSUME NEW c \in Conn, NEW a \in Account, Login(c, a) PROVE BoundWhereExpected'
  BY <1>4 DEF Login, BeginBinding, ReplacedRoom, Replaced, Goto
<1>5. ASSUME NEW c \in Conn, Reclaim(c) PROVE BoundWhereExpected'
  BY <1>5 DEF Reclaim, Authorised, AccountHolds, Acquire, Goto
<1>6. ASSUME NEW c \in Conn, NEW r \in Room, NEW kind \in Kinds, CreateRoom(c, r, kind)
      PROVE  BoundWhereExpected'
  BY <1>6 DEF CreateRoom, Authorised, MayEnter
<1>7. ASSUME NEW c \in Conn, NEW r \in Room, BeginJoin(c, r) PROVE BoundWhereExpected'
  BY <1>7 DEF BeginJoin, Begin, Authorised, MayEnter, Acquire, Goto
<1>8. ASSUME NEW c \in Conn, BeginLeave(c) PROVE BoundWhereExpected'
  BY <1>8 DEF BeginLeave, Begin, Authorised, Acquire, Goto
<1>9. ASSUME NEW c \in Conn, BeginDisband(c) PROVE BoundWhereExpected'
  BY <1>9 DEF BeginDisband, Begin, Authorised, Acquire, Goto
<1>10. ASSUME NEW c \in Conn, BeginKick(c) PROVE BoundWhereExpected'
  BY <1>10 DEF BeginKick, Begin, Authorised, Acquire, Goto
<1>11. ASSUME NEW c \in Conn, BeginLogout(c) PROVE BoundWhereExpected'
  BY <1>11 DEF BeginLogout, Begin, Authorised, Acquire, Goto
<1>12. ASSUME NEW c \in Conn, Drop(c) PROVE BoundWhereExpected'
  BY <1>12 DEF Drop, Acquire, ClearCurrent, Goto
<1>13. ASSUME NEW c \in Conn, BindAccount(c) PROVE BoundWhereExpected'
  BY <1>13 DEF BindAccount, Hold, Finish, Continue, Release, Goto
<1>14. ASSUME NEW c \in Conn, ChooseToken(c) PROVE BoundWhereExpected'
  BY <1>14 DEF ChooseToken, AccountHolds, Finish, Release, Goto
<1>15. ASSUME NEW c \in Conn, TakeHold(c) PROVE BoundWhereExpected'
  BY <1>15 DEF TakeHold, Spendable, Finish, Continue, Release, Goto
<1>16. ASSUME NEW c \in Conn, AdoptHold(c) PROVE BoundWhereExpected'
  BY <1>16 DEF AdoptHold, Goto
<1>17. ASSUME NEW c \in Conn, ScreenNavigation(c) PROVE BoundWhereExpected'
  BY <1>17 DEF ScreenNavigation, Goto
<1>18. ASSUME NEW c \in Conn, ResumeRoom(c) PROVE BoundWhereExpected'
  BY <1>18 DEF ResumeRoom, Finish, Continue, Release, Goto
<1>19. ASSUME NEW c \in Conn, ReadClock(c) PROVE BoundWhereExpected'
  BY <1>19 DEF ReadClock, Goto
<1>20. ASSUME NEW c \in Conn, RestoreHold(c) PROVE BoundWhereExpected'
  BY <1>20 DEF RestoreHold, Finish, Continue, Release, Goto
<1>21. ASSUME NEW c \in Conn, ExpireCall(c) PROVE BoundWhereExpected'
  BY <1>21 DEF ExpireCall, BeginExpiry, Finish, Continue, Release, Goto
<1>22. ASSUME NEW c \in Conn, ExpireReturn(c) PROVE BoundWhereExpected'
  BY <1>22 DEF ExpireReturn, Finish, Release
<1>23. ASSUME NEW c \in Conn, JoinRoom(c) PROVE BoundWhereExpected'
  BY <1>23 DEF JoinRoom, Commit, Refuse, Finish, Release
<1>24. ASSUME NEW c \in Conn, LeaveRoom(c) PROVE BoundWhereExpected'
  BY <1>24 DEF LeaveRoom, Commit, CloseRoom, Finish, Release
<1>25. ASSUME NEW c \in Conn, DisbandRoom(c) PROVE BoundWhereExpected'
  BY <1>25 DEF DisbandRoom, Commit, CloseRoom, Finish, Release
<1>26. ASSUME NEW c \in Conn, KickMember(c) PROVE BoundWhereExpected'
  BY <1>26 DEF KickMember, Commit, Refuse, Finish, Release
<1>27. ASSUME NEW c \in Conn, DropHold(c) PROVE BoundWhereExpected'
  BY <1>27 DEF DropHold, Hold, Release, ClearCurrent, Goto
<1>28. ASSUME NEW c \in Conn, Logout(c) PROVE BoundWhereExpected'
  BY <1>28 DEF Logout, Hold, Finish, Release, ClearCurrent
<1>29. ASSUME NEW c \in Conn, PassDeadline(c) PROVE BoundWhereExpected'
  BY <1>29 DEF PassDeadline
<1>30. ASSUME NEW c \in Conn, TimerFire(c) PROVE BoundWhereExpected'
  BY <1>30 DEF TimerFire, BeginExpiry
<1>31. ASSUME NEW c \in Conn, ReleaseSeat(c) PROVE BoundWhereExpected'
  BY <1>31 DEF ReleaseSeat, CloseRoom
<1>32. ASSUME NEW r \in Room, PurgeHolds(r) PROVE BoundWhereExpected'
  BY <1>32 DEF PurgeHolds
<1>33. CASE UNCHANGED vars
  BY <1>33 DEF vars
<1>34. QED
  BY <1>1, <1>2, <1>3, <1>4, <1>5, <1>6, <1>7, <1>8, <1>9, <1>10, <1>11, <1>12, <1>13, <1>14,
     <1>15, <1>16, <1>17, <1>18, <1>19, <1>20, <1>21, <1>22, <1>23, <1>24, <1>25, <1>26, <1>27,
     <1>28, <1>29, <1>30, <1>31, <1>32, <1>33 DEF Next, ClientStep, SessionStep, ExpiryStep

\* No step leaves a session bound to a room it is not a member of.
LEMMA BoundIsMemberStep ==
  IInv /\ [Next]_vars => BoundIsMember'
<1> SUFFICES ASSUME IInv, [Next]_vars PROVE BoundIsMember'
  OBVIOUS
<1> USE ConnAssumption, RoomAssumption, AccountAssumption DEF IInv, TypeInv, TypeOK,
        BoundIsMember, BoundWhereExpected, Roomless, Leaving, Binding, Carrying, Wanting,
        Registered, sessionVars, holdVars, accountVars
<1>1. ASSUME NEW c \in Conn, Connect(c) PROVE BoundIsMember'
  BY <1>1 DEF Connect, Goto
<1>2. ASSUME NEW c \in Conn, HelloGuest(c) PROVE BoundIsMember'
  BY <1>2 DEF HelloGuest, Presentable, Goto
<1>3. ASSUME NEW c \in Conn, NEW a \in Account, HelloAccount(c, a) PROVE BoundIsMember'
  BY <1>3 DEF HelloAccount, BeginBinding, ReplacedRoom, Replaced, Presentable, Goto
<1>4. ASSUME NEW c \in Conn, NEW a \in Account, Login(c, a) PROVE BoundIsMember'
  BY <1>4 DEF Login, BeginBinding, ReplacedRoom, Replaced, Goto
<1>5. ASSUME NEW c \in Conn, Reclaim(c) PROVE BoundIsMember'
  BY <1>5 DEF Reclaim, Authorised, AccountHolds, Acquire, Goto
<1>6. ASSUME NEW c \in Conn, NEW r \in Room, NEW kind \in Kinds, CreateRoom(c, r, kind)
      PROVE  BoundIsMember'
  BY <1>6, CreateMoves DEF Moves
<1>7. ASSUME NEW c \in Conn, NEW r \in Room, BeginJoin(c, r) PROVE BoundIsMember'
  BY <1>7 DEF BeginJoin, Begin, Authorised, MayEnter, Acquire, Goto
<1>8. ASSUME NEW c \in Conn, BeginLeave(c) PROVE BoundIsMember'
  BY <1>8 DEF BeginLeave, Begin, Authorised, Acquire, Goto
<1>9. ASSUME NEW c \in Conn, BeginDisband(c) PROVE BoundIsMember'
  BY <1>9 DEF BeginDisband, Begin, Authorised, Acquire, Goto
<1>10. ASSUME NEW c \in Conn, BeginKick(c) PROVE BoundIsMember'
  BY <1>10 DEF BeginKick, Begin, Authorised, Acquire, Goto
<1>11. ASSUME NEW c \in Conn, BeginLogout(c) PROVE BoundIsMember'
  BY <1>11 DEF BeginLogout, Begin, Authorised, Acquire, Goto
<1>12. ASSUME NEW c \in Conn, Drop(c) PROVE BoundIsMember'
  BY <1>12 DEF Drop, Acquire, ClearCurrent, Goto
<1>13. ASSUME NEW c \in Conn, BindAccount(c) PROVE BoundIsMember'
  BY <1>13 DEF BindAccount, Hold, Finish, Continue, Release, Goto
<1>14. ASSUME NEW c \in Conn, ChooseToken(c) PROVE BoundIsMember'
  BY <1>14 DEF ChooseToken, AccountHolds, Finish, Release, Goto
<1>15. ASSUME NEW c \in Conn, TakeHold(c) PROVE BoundIsMember'
  BY <1>15 DEF TakeHold, Spendable, Finish, Continue, Release, Goto
<1>16. ASSUME NEW c \in Conn, AdoptHold(c) PROVE BoundIsMember'
  BY <1>16 DEF AdoptHold, Goto
<1>17. ASSUME NEW c \in Conn, ScreenNavigation(c) PROVE BoundIsMember'
  BY <1>17 DEF ScreenNavigation, Goto
<1>18. ASSUME NEW c \in Conn, ResumeRoom(c) PROVE BoundIsMember'
  BY <1>18, ResumeMoves DEF Moves
<1>19. ASSUME NEW c \in Conn, ReadClock(c) PROVE BoundIsMember'
  BY <1>19 DEF ReadClock, Goto
<1>20. ASSUME NEW c \in Conn, RestoreHold(c) PROVE BoundIsMember'
  BY <1>20 DEF RestoreHold, Finish, Continue, Release, Goto
<1>21. ASSUME NEW c \in Conn, ExpireCall(c) PROVE BoundIsMember'
  BY <1>21 DEF ExpireCall, BeginExpiry, Finish, Continue, Release, Goto
<1>22. ASSUME NEW c \in Conn, ExpireReturn(c) PROVE BoundIsMember'
  BY <1>22 DEF ExpireReturn, Finish, Release
<1>23. ASSUME NEW c \in Conn, JoinRoom(c) PROVE BoundIsMember'
  BY <1>23, JoinMoves DEF Moves
<1>24. ASSUME NEW c \in Conn, LeaveRoom(c) PROVE BoundIsMember'
  BY <1>24, LeaveMoves DEF Moves
<1>25. ASSUME NEW c \in Conn, DisbandRoom(c) PROVE BoundIsMember'
  BY <1>25, DisbandMoves DEF Moves
<1>26. ASSUME NEW c \in Conn, KickMember(c) PROVE BoundIsMember'
  BY <1>26, KickMoves DEF Moves
<1>27. ASSUME NEW c \in Conn, DropHold(c) PROVE BoundIsMember'
  BY <1>27 DEF DropHold, Hold, Release, ClearCurrent, Goto
<1>28. ASSUME NEW c \in Conn, Logout(c) PROVE BoundIsMember'
  BY <1>28 DEF Logout, Hold, Finish, Release, ClearCurrent
<1>29. ASSUME NEW c \in Conn, PassDeadline(c) PROVE BoundIsMember'
  BY <1>29 DEF PassDeadline
<1>30. ASSUME NEW c \in Conn, TimerFire(c) PROVE BoundIsMember'
  BY <1>30 DEF TimerFire, BeginExpiry
<1>31. ASSUME NEW c \in Conn, ReleaseSeat(c) PROVE BoundIsMember'
  BY <1>31, ReleaseMoves DEF Moves
<1>32. ASSUME NEW r \in Room, PurgeHolds(r) PROVE BoundIsMember'
  BY <1>32 DEF PurgeHolds
<1>33. CASE UNCHANGED vars
  BY <1>33 DEF vars
<1>34. QED
  BY <1>1, <1>2, <1>3, <1>4, <1>5, <1>6, <1>7, <1>8, <1>9, <1>10, <1>11, <1>12, <1>13, <1>14,
     <1>15, <1>16, <1>17, <1>18, <1>19, <1>20, <1>21, <1>22, <1>23, <1>24, <1>25, <1>26, <1>27,
     <1>28, <1>29, <1>30, <1>31, <1>32, <1>33 DEF Next, ClientStep, SessionStep, ExpiryStep

\* No step puts a token in two places.
LEMMA TokenSpentOnceStep ==
  IInv /\ [Next]_vars => TokenSpentOnce'
<1> SUFFICES ASSUME IInv, [Next]_vars PROVE TokenSpentOnce'
  OBVIOUS
<1> USE ConnAssumption, RoomAssumption, AccountAssumption DEF IInv, TypeInv, TypeOK,
        TokenSpentOnce, HeldIsRetired, Retired, Suspended, Carries, Carrying, Wanting,
        WantsAToken, AccountLocked, Busy, BoundWhereExpected, Roomless, Leaving, Binding,
        sessionVars, holdVars, accountVars
<1>1. ASSUME NEW c \in Conn, Connect(c) PROVE TokenSpentOnce'
  BY <1>1 DEF Connect, Goto
<1>2. ASSUME NEW c \in Conn, HelloGuest(c) PROVE TokenSpentOnce'
  BY <1>2 DEF HelloGuest, Presentable, Goto
<1>3. ASSUME NEW c \in Conn, NEW a \in Account, HelloAccount(c, a) PROVE TokenSpentOnce'
  BY <1>3 DEF HelloAccount, BeginBinding, ReplacedRoom, Replaced, Presentable, Goto
<1>4. ASSUME NEW c \in Conn, NEW a \in Account, Login(c, a) PROVE TokenSpentOnce'
  BY <1>4 DEF Login, BeginBinding, ReplacedRoom, Replaced, Goto
<1>5. ASSUME NEW c \in Conn, Reclaim(c) PROVE TokenSpentOnce'
  BY <1>5 DEF Reclaim, Authorised, AccountHolds, Acquire, Goto
<1>6. ASSUME NEW c \in Conn, NEW r \in Room, NEW kind \in Kinds, CreateRoom(c, r, kind)
      PROVE  TokenSpentOnce'
  <2>1. \A d \in Conn, t \in Conn : Carries(d, t)' => Carries(d, t)
    BY <1>6 DEF CreateRoom, Authorised, MayEnter
  <2>2. QED
    BY <1>6, <2>1, CreateMoves, TokensKeep DEF CreateRoom
<1>7. ASSUME NEW c \in Conn, NEW r \in Room, BeginJoin(c, r) PROVE TokenSpentOnce'
  BY <1>7 DEF BeginJoin, Begin, Authorised, MayEnter, Acquire, Goto
<1>8. ASSUME NEW c \in Conn, BeginLeave(c) PROVE TokenSpentOnce'
  BY <1>8 DEF BeginLeave, Begin, Authorised, Acquire, Goto
<1>9. ASSUME NEW c \in Conn, BeginDisband(c) PROVE TokenSpentOnce'
  BY <1>9 DEF BeginDisband, Begin, Authorised, Acquire, Goto
<1>10. ASSUME NEW c \in Conn, BeginKick(c) PROVE TokenSpentOnce'
  BY <1>10 DEF BeginKick, Begin, Authorised, Acquire, Goto
<1>11. ASSUME NEW c \in Conn, BeginLogout(c) PROVE TokenSpentOnce'
  BY <1>11 DEF BeginLogout, Begin, Authorised, Acquire, Goto
<1>12. ASSUME NEW c \in Conn, Drop(c) PROVE TokenSpentOnce'
  BY <1>12 DEF Drop, Acquire, ClearCurrent, Goto
<1>13. ASSUME NEW c \in Conn, BindAccount(c) PROVE TokenSpentOnce'
  BY <1>13 DEF BindAccount, Hold, Finish, Continue, Release, Goto
<1>14. ASSUME NEW c \in Conn, ChooseToken(c) PROVE TokenSpentOnce'
  <2>1. \A d \in Conn, t \in Conn : Carries(d, t)' => Carries(d, t)
    BY <1>14 DEF ChooseToken, AccountHolds, Finish, Release, Goto
  <2>2. QED
    BY <1>14, <2>1, StandsStill, TokensKeep DEF ChooseToken
<1>15. ASSUME NEW c \in Conn, TakeHold(c) PROVE TokenSpentOnce'
  <2>1. bound' = bound /\ expiring' = expiring
    BY <1>15 DEF TakeHold
  <2>2. CASE want[c] \in held /\ held' = held \ {want[c]}
    <3>1. \A d \in Conn, t \in Conn : Carries(d, t)' => Carries(d, t) \/ (d = c /\ t = want[c])
      BY <1>15 DEF TakeHold, Finish, Continue, Goto
    <3>2. \A d \in Conn : ~Carries(d, want[c]) /\ want[c] \notin expiring /\ bound[want[c]] = NoRoom
      BY <2>2
    <3>3. ~\E t \in Conn : Carries(c, t)
      BY <1>15 DEF TakeHold
    <3>4. QED
      BY <2>1, <2>2, <3>1, <3>2, <3>3
  <2>3. CASE held' = held /\ pc'[c] \notin Carrying
    <3>1. \A d \in Conn, t \in Conn : Carries(d, t)' => Carries(d, t)
      BY <1>15, <2>3 DEF TakeHold, Finish, Continue, Goto
    <3>2. QED
      BY <2>1, <2>3, <3>1
  <2>4. QED
    BY <1>15, <2>2, <2>3 DEF TakeHold, Spendable, Finish, Continue, Goto
<1>16. ASSUME NEW c \in Conn, AdoptHold(c) PROVE TokenSpentOnce'
  BY <1>16 DEF AdoptHold, Goto
<1>17. ASSUME NEW c \in Conn, ScreenNavigation(c) PROVE TokenSpentOnce'
  BY <1>17 DEF ScreenNavigation, Goto
<1>18. ASSUME NEW c \in Conn, ResumeRoom(c) PROVE TokenSpentOnce'
  BY <1>18 DEF ResumeRoom, Finish, Continue, Release, Goto
<1>19. ASSUME NEW c \in Conn, ReadClock(c) PROVE TokenSpentOnce'
  BY <1>19 DEF ReadClock, Goto
<1>20. ASSUME NEW c \in Conn, RestoreHold(c) PROVE TokenSpentOnce'
  <2>1. bound' = bound /\ expiring' = expiring /\ held' = held \cup {want[c]}
    BY <1>20 DEF RestoreHold
  <2>2. \A d \in Conn, t \in Conn : Carries(d, t)' => Carries(d, t) /\ d # c
    BY <1>20 DEF RestoreHold, Finish, Continue, Goto
  <2>3. want[c] \in Conn /\ Carries(c, want[c])
    BY <1>20 DEF RestoreHold
  <2>4. QED
    BY <2>1, <2>2, <2>3
<1>21. ASSUME NEW c \in Conn, ExpireCall(c) PROVE TokenSpentOnce'
  <2>1. \A d \in Conn, t \in Conn : Carries(d, t)' => Carries(d, t)
    BY <1>21 DEF ExpireCall, BeginExpiry, Finish, Continue, Release, Goto
  <2>2. /\ bound' = bound /\ held' = held \ {want[c]}
        /\ expiring' = IF want[c] \in held THEN expiring \cup {want[c]} ELSE expiring
    BY <1>21 DEF ExpireCall, BeginExpiry
  <2>3. QED
    BY <2>1, <2>2
<1>22. ASSUME NEW c \in Conn, ExpireReturn(c) PROVE TokenSpentOnce'
  BY <1>22 DEF ExpireReturn, Finish, Release
<1>23. ASSUME NEW c \in Conn, JoinRoom(c) PROVE TokenSpentOnce'
  <2>1. \A d \in Conn, t \in Conn : Carries(d, t)' => Carries(d, t)
    BY <1>23 DEF JoinRoom, Commit, Refuse, Finish, Release
  <2>2. UNCHANGED <<held, expiring>>
    BY <1>23 DEF JoinRoom, Commit, Refuse
  <2>3. QED
    BY <1>23, <2>1, <2>2, JoinMoves, TokensKeep
<1>24. ASSUME NEW c \in Conn, LeaveRoom(c) PROVE TokenSpentOnce'
  <2>1. \A d \in Conn, t \in Conn : Carries(d, t)' => Carries(d, t)
    BY <1>24 DEF LeaveRoom, Commit, CloseRoom, Finish, Release
  <2>2. UNCHANGED <<held, expiring>>
    BY <1>24 DEF LeaveRoom, Commit, Refuse
  <2>3. QED
    BY <1>24, <2>1, <2>2, LeaveMoves, TokensKeep
<1>25. ASSUME NEW c \in Conn, DisbandRoom(c) PROVE TokenSpentOnce'
  <2>1. \A d \in Conn, t \in Conn : Carries(d, t)' => Carries(d, t)
    BY <1>25 DEF DisbandRoom, Commit, CloseRoom, Finish, Release
  <2>2. UNCHANGED <<held, expiring>>
    BY <1>25 DEF DisbandRoom, Commit, Refuse
  <2>3. QED
    BY <1>25, <2>1, <2>2, DisbandMoves, TokensKeep
<1>26. ASSUME NEW c \in Conn, KickMember(c) PROVE TokenSpentOnce'
  <2>1. \A d \in Conn, t \in Conn : Carries(d, t)' => Carries(d, t)
    BY <1>26 DEF KickMember, Commit, Refuse, Finish, Release
  <2>2. UNCHANGED <<held, expiring>>
    BY <1>26 DEF KickMember, Commit, Refuse
  <2>3. QED
    BY <1>26, <2>1, <2>2, KickMoves, TokensKeep
<1>27. ASSUME NEW c \in Conn, DropHold(c) PROVE TokenSpentOnce'
  BY <1>27 DEF DropHold, Hold, Release, ClearCurrent, Goto
<1>28. ASSUME NEW c \in Conn, Logout(c) PROVE TokenSpentOnce'
  BY <1>28 DEF Logout, Hold, Finish, Release, ClearCurrent
<1>29. ASSUME NEW c \in Conn, PassDeadline(c) PROVE TokenSpentOnce'
  BY <1>29 DEF PassDeadline
<1>30. ASSUME NEW c \in Conn, TimerFire(c) PROVE TokenSpentOnce'
  BY <1>30 DEF TimerFire, BeginExpiry
<1>31. ASSUME NEW c \in Conn, ReleaseSeat(c) PROVE TokenSpentOnce'
  BY <1>31 DEF ReleaseSeat, CloseRoom
<1>32. ASSUME NEW r \in Room, PurgeHolds(r) PROVE TokenSpentOnce'
  BY <1>32 DEF PurgeHolds
<1>33. CASE UNCHANGED vars
  BY <1>33 DEF vars
<1>34. QED
  BY <1>1, <1>2, <1>3, <1>4, <1>5, <1>6, <1>7, <1>8, <1>9, <1>10, <1>11, <1>12, <1>13, <1>14,
     <1>15, <1>16, <1>17, <1>18, <1>19, <1>20, <1>21, <1>22, <1>23, <1>24, <1>25, <1>26, <1>27,
     <1>28, <1>29, <1>30, <1>31, <1>32, <1>33 DEF Next, ClientStep, SessionStep, ExpiryStep

\* No step leaves a seat without an owner.
LEMMA EveryMemberHasAnOwnerStep ==
  IInv /\ [Next]_vars => EveryMemberHasAnOwner'
<1> SUFFICES ASSUME IInv, [Next]_vars PROVE EveryMemberHasAnOwner'
  OBVIOUS
<1> USE ConnAssumption, RoomAssumption, AccountAssumption DEF IInv, TypeInv, TypeOK,
        EveryMemberHasAnOwner, TokenSpentOnce, HeldIsRetired, Retired, Suspended,
        BoundWhereExpected, Roomless, Leaving, Binding, Carries, Carrying, Wanting,
        WantsAToken, Registered, sessionVars, holdVars, accountVars
<1>1. ASSUME NEW c \in Conn, Connect(c) PROVE EveryMemberHasAnOwner'
  <2>1. \A d \in Conn, t \in Conn : Carries(d, t) => Carries(d, t)'
    BY <1>1 DEF Connect, Goto
  <2>2. QED
    BY <1>1, <2>1, StandsStill, OwnersKeep DEF Connect
<1>2. ASSUME NEW c \in Conn, HelloGuest(c) PROVE EveryMemberHasAnOwner'
  <2>1. \A d \in Conn, t \in Conn : Carries(d, t) => Carries(d, t)'
    BY <1>2 DEF HelloGuest, Presentable, Goto
  <2>2. QED
    BY <1>2, <2>1, StandsStill, OwnersKeep DEF HelloGuest
<1>3. ASSUME NEW c \in Conn, NEW a \in Account, HelloAccount(c, a)
      PROVE  EveryMemberHasAnOwner'
  <2>1. \A d \in Conn, t \in Conn : Carries(d, t) => Carries(d, t)'
    BY <1>3 DEF HelloAccount, BeginBinding, ReplacedRoom, Replaced, Presentable, Goto
  <2>2. QED
    BY <1>3, <2>1, StandsStill, OwnersKeep DEF HelloAccount, BeginBinding
<1>4. ASSUME NEW c \in Conn, NEW a \in Account, Login(c, a) PROVE EveryMemberHasAnOwner'
  <2>1. \A d \in Conn, t \in Conn : Carries(d, t) => Carries(d, t)'
    BY <1>4 DEF Login, BeginBinding, ReplacedRoom, Replaced, Goto
  <2>2. QED
    BY <1>4, <2>1, StandsStill, OwnersKeep DEF Login, BeginBinding
<1>5. ASSUME NEW c \in Conn, Reclaim(c) PROVE EveryMemberHasAnOwner'
  <2>1. \A d \in Conn, t \in Conn : Carries(d, t) => Carries(d, t)'
    BY <1>5 DEF Reclaim, Authorised, AccountHolds, Acquire, Goto
  <2>2. QED
    BY <1>5, <2>1, StandsStill, OwnersKeep DEF Reclaim
<1>6. ASSUME NEW c \in Conn, NEW r \in Room, NEW kind \in Kinds, CreateRoom(c, r, kind)
      PROVE  EveryMemberHasAnOwner'
  <2>1. \A d \in Conn, t \in Conn : Carries(d, t) => Carries(d, t)'
    BY <1>6 DEF CreateRoom, Authorised, MayEnter
  <2>2. QED
    BY <1>6, <2>1, CreateMoves, OwnersKeep DEF CreateRoom
<1>7. ASSUME NEW c \in Conn, NEW r \in Room, BeginJoin(c, r) PROVE EveryMemberHasAnOwner'
  <2>1. \A d \in Conn, t \in Conn : Carries(d, t) => Carries(d, t)'
    BY <1>7 DEF BeginJoin, Begin, Authorised, MayEnter, Acquire, Goto
  <2>2. QED
    BY <1>7, <2>1, StandsStill, OwnersKeep DEF BeginJoin, Begin
<1>8. ASSUME NEW c \in Conn, BeginLeave(c) PROVE EveryMemberHasAnOwner'
  <2>1. \A d \in Conn, t \in Conn : Carries(d, t) => Carries(d, t)'
    BY <1>8 DEF BeginLeave, Begin, Authorised, Acquire, Goto
  <2>2. QED
    BY <1>8, <2>1, StandsStill, OwnersKeep DEF BeginLeave, Begin
<1>9. ASSUME NEW c \in Conn, BeginDisband(c) PROVE EveryMemberHasAnOwner'
  <2>1. \A d \in Conn, t \in Conn : Carries(d, t) => Carries(d, t)'
    BY <1>9 DEF BeginDisband, Begin, Authorised, Acquire, Goto
  <2>2. QED
    BY <1>9, <2>1, StandsStill, OwnersKeep DEF BeginDisband, Begin
<1>10. ASSUME NEW c \in Conn, BeginKick(c) PROVE EveryMemberHasAnOwner'
  <2>1. \A d \in Conn, t \in Conn : Carries(d, t) => Carries(d, t)'
    BY <1>10 DEF BeginKick, Begin, Authorised, Acquire, Goto
  <2>2. QED
    BY <1>10, <2>1, StandsStill, OwnersKeep DEF BeginKick, Begin
<1>11. ASSUME NEW c \in Conn, BeginLogout(c) PROVE EveryMemberHasAnOwner'
  <2>1. \A d \in Conn, t \in Conn : Carries(d, t) => Carries(d, t)'
    BY <1>11 DEF BeginLogout, Begin, Authorised, Acquire, Goto
  <2>2. QED
    BY <1>11, <2>1, StandsStill, OwnersKeep DEF BeginLogout, Begin
<1>12. ASSUME NEW c \in Conn, Drop(c) PROVE EveryMemberHasAnOwner'
  <2>1. \A d \in Conn, t \in Conn : Carries(d, t) => Carries(d, t)'
    BY <1>12 DEF Drop, Acquire, ClearCurrent, Goto
  <2>2. QED
    BY <1>12, <2>1, StandsStill, OwnersKeep DEF Drop
<1>13. ASSUME NEW c \in Conn, BindAccount(c) PROVE EveryMemberHasAnOwner'
  <2>1. \A d \in Conn, t \in Conn : Carries(d, t) => Carries(d, t)'
    BY <1>13 DEF BindAccount, Hold, Finish, Continue, Release, Goto
  <2>2. CASE target[c] = NoRoom
    BY <1>13, <2>1, <2>2, StandsStill, OwnersKeep DEF BindAccount
  <2>3. CASE target[c] # NoRoom
    <3>1. target[c] \in Room /\ current[acct[c]] \in Conn \ {c} /\ Hold(current[acct[c]], target[c])
      BY <1>13, <2>3 DEF BindAccount, AccountLocked
    <3>2. bound[current[acct[c]]] \in {target[c], NoRoom} /\ rooms' = rooms
      BY <1>13, <3>1 DEF BindAccount, BoundWhereExpected, Binding
    <3>3. ~Suspended(current[acct[c]])
      BY <1>13, <3>1, ActiveNotSuspended DEF BindAccount, AccountLocked
    <3>4. QED
      BY <2>1, <3>1, <3>2, <3>3, HoldOwners
  <2>4. QED
    BY <2>2, <2>3
<1>14. ASSUME NEW c \in Conn, ChooseToken(c) PROVE EveryMemberHasAnOwner'
  <2>1. \A d \in Conn, t \in Conn : Carries(d, t) => Carries(d, t)'
    BY <1>14 DEF ChooseToken, AccountHolds, Finish, Release, Goto
  <2>2. QED
    BY <1>14, <2>1, StandsStill, OwnersKeep DEF ChooseToken
<1>15. ASSUME NEW c \in Conn, TakeHold(c) PROVE EveryMemberHasAnOwner'
  BY <1>15 DEF TakeHold, Spendable, Finish, Continue, Release, Goto
<1>16. ASSUME NEW c \in Conn, AdoptHold(c) PROVE EveryMemberHasAnOwner'
  <2>1. \A t \in Conn : lease'[t].room = lease[t].room
    BY <1>16 DEF AdoptHold
  <2>2. \A d \in Conn, t \in Conn : Carries(d, t)' <=> Carries(d, t)
    BY <1>16 DEF AdoptHold, Goto
  <2>3. UNCHANGED <<rooms, bound, held, expiring>>
    BY <1>16 DEF AdoptHold
  <2>4. QED
    BY <2>1, <2>2, <2>3
<1>17. ASSUME NEW c \in Conn, ScreenNavigation(c) PROVE EveryMemberHasAnOwner'
  <2>1. \A d \in Conn, t \in Conn : Carries(d, t) => Carries(d, t)'
    BY <1>17 DEF ScreenNavigation, Goto
  <2>2. QED
    BY <1>17, <2>1, StandsStill, OwnersKeep DEF ScreenNavigation
<1>18. ASSUME NEW c \in Conn, ResumeRoom(c) PROVE EveryMemberHasAnOwner'
  <2>1. UNCHANGED <<held, expiring, lease>>
    BY <1>18 DEF ResumeRoom
  <2>2. \A d \in Conn \ {c}, t \in Conn : Carries(d, t) => Carries(d, t)'
    BY <1>18 DEF ResumeRoom, Finish, Continue, Goto
  <2>3. CASE pc'[c] = "restoring" /\ want' = want
    <3>1. \A t \in Conn : Carries(c, t) => Carries(c, t)'
      BY <2>3
    <3>2. QED
      BY <1>18, <2>1, <2>2, <3>1, ResumeMoves, OwnersKeep
  <2>4. CASE ~(pc'[c] = "restoring" /\ want' = want)
    <3>1. \A q \in Room : rooms'[q].status = "registered" => ~Member(rooms'[q], want[c])
      BY <1>18, <2>4, ResumeMoves
    <3>2. \A t \in Conn : Carries(c, t) => t = want[c]
      OBVIOUS
    <3>3. want[c] \in Conn
      BY <1>18 DEF ResumeRoom
    <3>4. QED
      BY <1>18, <2>1, <2>2, <3>1, <3>2, <3>3, ResumeMoves, KeptOwners
  <2>5. QED
    BY <2>3, <2>4
<1>19. ASSUME NEW c \in Conn, ReadClock(c) PROVE EveryMemberHasAnOwner'
  <2>1. \A d \in Conn, t \in Conn : Carries(d, t) => Carries(d, t)'
    BY <1>19 DEF ReadClock, Goto
  <2>2. QED
    BY <1>19, <2>1, StandsStill, OwnersKeep DEF ReadClock
<1>20. ASSUME NEW c \in Conn, RestoreHold(c) PROVE EveryMemberHasAnOwner'
  BY <1>20 DEF RestoreHold, Finish, Continue, Release, Goto
<1>21. ASSUME NEW c \in Conn, ExpireCall(c) PROVE EveryMemberHasAnOwner'
  BY <1>21 DEF ExpireCall, BeginExpiry, Finish, Continue, Release, Goto
<1>22. ASSUME NEW c \in Conn, ExpireReturn(c) PROVE EveryMemberHasAnOwner'
  <2>1. \A d \in Conn, t \in Conn : Carries(d, t) => Carries(d, t)'
    BY <1>22 DEF ExpireReturn, Finish, Release
  <2>2. QED
    BY <1>22, <2>1, StandsStill, OwnersKeep DEF ExpireReturn
<1>23. ASSUME NEW c \in Conn, JoinRoom(c) PROVE EveryMemberHasAnOwner'
  <2>1. \A d \in Conn, t \in Conn : Carries(d, t) => Carries(d, t)'
    BY <1>23 DEF JoinRoom, Commit, Refuse, Finish, Release
  <2>2. UNCHANGED <<held, expiring, lease>>
    BY <1>23 DEF JoinRoom, Commit, Refuse
  <2>3. QED
    BY <1>23, <2>1, <2>2, JoinMoves, OwnersKeep
<1>24. ASSUME NEW c \in Conn, LeaveRoom(c) PROVE EveryMemberHasAnOwner'
  <2>1. \A d \in Conn, t \in Conn : Carries(d, t) => Carries(d, t)'
    BY <1>24 DEF LeaveRoom, Commit, CloseRoom, Finish, Release
  <2>2. UNCHANGED <<held, expiring, lease>>
    BY <1>24 DEF LeaveRoom, Commit, Refuse
  <2>3. QED
    BY <1>24, <2>1, <2>2, LeaveMoves, OwnersKeep
<1>25. ASSUME NEW c \in Conn, DisbandRoom(c) PROVE EveryMemberHasAnOwner'
  <2>1. \A d \in Conn, t \in Conn : Carries(d, t) => Carries(d, t)'
    BY <1>25 DEF DisbandRoom, Commit, CloseRoom, Finish, Release
  <2>2. UNCHANGED <<held, expiring, lease>>
    BY <1>25 DEF DisbandRoom, Commit, Refuse
  <2>3. QED
    BY <1>25, <2>1, <2>2, DisbandMoves, OwnersKeep
<1>26. ASSUME NEW c \in Conn, KickMember(c) PROVE EveryMemberHasAnOwner'
  <2>1. \A d \in Conn, t \in Conn : Carries(d, t) => Carries(d, t)'
    BY <1>26 DEF KickMember, Commit, Refuse, Finish, Release
  <2>2. UNCHANGED <<held, expiring, lease>>
    BY <1>26 DEF KickMember, Commit, Refuse
  <2>3. QED
    BY <1>26, <2>1, <2>2, KickMoves, OwnersKeep
<1>27. ASSUME NEW c \in Conn, DropHold(c) PROVE EveryMemberHasAnOwner'
  BY <1>27 DEF DropHold, Hold, Release, ClearCurrent, Goto
<1>28. ASSUME NEW c \in Conn, Logout(c) PROVE EveryMemberHasAnOwner'
  BY <1>28 DEF Logout, Hold, Finish, Release, ClearCurrent
<1>29. ASSUME NEW c \in Conn, PassDeadline(c) PROVE EveryMemberHasAnOwner'
  BY <1>29 DEF PassDeadline
<1>30. ASSUME NEW c \in Conn, TimerFire(c) PROVE EveryMemberHasAnOwner'
  BY <1>30 DEF TimerFire, BeginExpiry
<1>31. ASSUME NEW c \in Conn, ReleaseSeat(c) PROVE EveryMemberHasAnOwner'
  <2>1. \A d \in Conn, t \in Conn : Carries(d, t) => Carries(d, t)'
    BY <1>31 DEF ReleaseSeat, CloseRoom
  <2>2. expiring' = expiring \ {c} /\ UNCHANGED <<held, lease>>
    BY <1>31 DEF ReleaseSeat
  <2>3. QED
    BY <1>31, <2>1, <2>2, ReleaseMoves, KeptOwners
<1>32. ASSUME NEW r \in Room, PurgeHolds(r) PROVE EveryMemberHasAnOwner'
  BY <1>32 DEF PurgeHolds
<1>33. CASE UNCHANGED vars
  BY <1>33 DEF vars
<1>34. QED
  BY <1>1, <1>2, <1>3, <1>4, <1>5, <1>6, <1>7, <1>8, <1>9, <1>10, <1>11, <1>12, <1>13, <1>14,
     <1>15, <1>16, <1>17, <1>18, <1>19, <1>20, <1>21, <1>22, <1>23, <1>24, <1>25, <1>26, <1>27,
     <1>28, <1>29, <1>30, <1>31, <1>32, <1>33 DEF Next, ClientStep, SessionStep, ExpiryStep

(***************************************************************************)
(* The theorems                                                            *)
(***************************************************************************)
\* The invariant holds initially ...
LEMMA IInvInit == Init => IInv
<1> SUFFICES ASSUME Init PROVE IInv
  OBVIOUS
<1>1. TypeInv
  BY TypeInvInit
<1>2. HeldIsRetired /\ TokenSpentOnce
  BY ConnAssumption DEF Init, HeldIsRetired, Suspended, Carries, Carrying, TokenSpentOnce
<1>3. BoundWhereExpected
  BY DEF Init, BoundWhereExpected, Leaving, Binding
<1>4. BoundIsMember /\ EveryMemberHasAnOwner
  BY DEF Init, BoundIsMember, EveryMemberHasAnOwner, Registered
<1>5. QED
  BY <1>1, <1>2, <1>3, <1>4 DEF IInv

\* ... and every step of the hub preserves it.
LEMMA IInvStep == IInv /\ [Next]_vars => IInv'
<1> SUFFICES ASSUME IInv, [Next]_vars PROVE IInv'
  OBVIOUS
<1>1. TypeInv'
  BY TypeOKStep, WantsATokenStep, HoldsPointToRoomsStep, TargetsARoomStep, AccountLockedStep
     DEF IInv, TypeInv
<1>2. QED
  BY <1>1, HeldIsRetiredStep, BoundWhereExpectedStep, BoundIsMemberStep, TokenSpentOnceStep,
     EveryMemberHasAnOwnerStep DEF IInv

\* In every behaviour membership, bindings and holds agree with each other.
THEOREM SessionsAndHolds == Spec => []IInv
BY IInvInit, IInvStep, PTL DEF Spec

\* No zombie seats, for any number of connections, rooms and accounts: the seat
\* of a registered room belongs to a live session, or to a hold in the map, on
\* its way to a successor or being released.
THEOREM NoZombieSeats == Spec => []EveryMemberHasAnOwner
<1>1. IInv => EveryMemberHasAnOwner
  BY DEF IInv
<1>2. QED
  BY <1>1, SessionsAndHolds, PTL

\* A resume token is spent at most once, whatever connections present it while
\* its timer, a sign-in or a reclaim is under way.
THEOREM TokensAreSpentOnce == Spec => []TokenSpentOnce
<1>1. IInv => TokenSpentOnce
  BY DEF IInv
<1>2. QED
  BY <1>1, SessionsAndHolds, PTL

\* A session that believes it is in a room is a member of it, and the room is
\* still registered.
THEOREM BindingsAreTrue == Spec => []BoundIsMember
<1>1. IInv => BoundIsMember
  BY DEF IInv
<1>2. QED
  BY <1>1, SessionsAndHolds, PTL

\* A held seat leaves its room only with the room, by its own expiry, which a
\* hold still in the map has not begun, to the successor that took the hold
\* out, or because the host kicked it.
LEMMA HeldSeatStays ==
  ASSUME IInv, [Next]_vars, NEW r \in Room, NEW t \in Conn,
         Registered(r), Registered(r)', t \in held, Member(rooms[r], t)
  PROVE  \/ Member(rooms[r], t)'
         \/ \E c \in Conn : IsHost(rooms[r], c) /\ pc[c] = "kicking" /\ pc'[c] = "idle"
<1> DEFINE Stays == Member(rooms'[r], t)
<1> USE DEF IInv, TypeInv
<1>0. /\ rooms \in [Room -> RoomState] /\ rooms[r] \in RoomState
      /\ Suspended(t) /\ Retired(t) /\ t \notin expiring
      /\ \A c \in Conn : ~Carries(c, t)
  BY DEF TypeOK, Suspended, HeldIsRetired, TokenSpentOnce
<1>same. ASSUME UNCHANGED rooms PROVE Stays
  BY <1>same
<1>edit. ASSUME NEW q \in Room, NEW rm, rooms' = [rooms EXCEPT ![q] = rm],
                Member(rooms[q], t) => Member(rm, t)
         PROVE  Stays
  BY <1>0, <1>edit
<1>closing. ASSUME NEW q \in Room, NEW rm \in RoomState, NEW c, CloseRoom(q, rm, c) PROVE Stays
  <2>1. Closed(rm, "closing").status = "closing"
    BY DEF Closed, RoomState
  <2>2. q # r
    BY <1>0, <1>closing, <2>1 DEF CloseRoom, Registered
  <2>3. QED
    BY <1>0, <1>closing, <2>2 DEF CloseRoom
<1>1. ASSUME NEW c \in Conn, NEW q \in Room, NEW kind \in Kinds, CreateRoom(c, q, kind)
      PROVE  Stays
  <2>1. q # r
    BY <1>1 DEF CreateRoom, Registered
  <2>2. QED
    BY <1>0, <1>1, <2>1 DEF CreateRoom
<1>2. ASSUME NEW c \in Conn, JoinRoom(c) PROVE Stays
  <2>1. \/ UNCHANGED rooms
        \/ Occupied(rooms[target[c]]) # Seat
           /\ rooms' = [rooms EXCEPT ![target[c]] = Join(rooms[target[c]], c)]
        \/ rooms' = [rooms EXCEPT ![target[c]] = Watch(rooms[target[c]], c)]
    BY <1>2 DEF JoinRoom, Refuse
  <2>2. QED
    BY <1>0, <2>1, JoinMembers, WatchMembers
<1>3. ASSUME NEW c \in Conn, ResumeRoom(c) PROVE Stays
  <2>1. want[c] \in Conn /\ lease[want[c]].room \in Room /\ want[c] # t /\ Carries(c, want[c])
    BY <1>0, <1>3 DEF ResumeRoom, WantsAToken, Wanting, Carrying, HoldsPointToRooms, Carries
  <2>2. want[c] # c
    BY <1>3, <2>1 DEF ResumeRoom, HeldIsRetired, Suspended, Retired
  <2>3. \/ UNCHANGED rooms
        \/ /\ Member(rooms[lease[want[c]].room], want[c])
           /\ rooms' = [rooms EXCEPT ![lease[want[c]].room] =
                          Reconnect(rooms[lease[want[c]].room], want[c], c)]
    BY <1>3 DEF ResumeRoom
  <2>4. QED
    BY <1>0, <2>1, <2>2, <2>3, ReconnectMembers
<1>4. ASSUME NEW c \in Conn, LeaveRoom(c) PROVE Stays
  <2>1. c # t /\ target[c] \in Room /\ rooms[target[c]] \in RoomState
    BY <1>0, <1>4 DEF LeaveRoom, Commit, Retired, TargetsARoom, TypeOK
  <2>2. \/ UNCHANGED rooms
        \/ CloseRoom(target[c], Leave(rooms[target[c]], c), c)
        \/ rooms' = [rooms EXCEPT ![target[c]] = Leave(rooms[target[c]], c)]
    BY <1>4 DEF LeaveRoom
  <2>3. /\ Leave(rooms[target[c]], c) \in RoomState
        /\ Member(rooms[target[c]], t) => Member(Leave(rooms[target[c]], c), t)
    BY <2>1, LeaveType, LeaveMembers
  <2>4. QED
    BY <1>same, <1>edit, <1>closing, <2>1, <2>2, <2>3
<1>5. ASSUME NEW c \in Conn, DisbandRoom(c) PROVE Stays
  <2>1. target[c] \in Room /\ rooms[target[c]] \in RoomState
    BY <1>5 DEF DisbandRoom, Commit, TargetsARoom, TypeOK
  <2>2. UNCHANGED rooms \/ CloseRoom(target[c], Vacate(rooms[target[c]], c), c)
    BY <1>5 DEF DisbandRoom
  <2>3. QED
    BY <1>closing, <2>1, <2>2, VacateType
<1>6. ASSUME NEW c \in Conn, KickMember(c)
      PROVE  Stays \/ (IsHost(rooms[r], c) /\ pc[c] = "kicking" /\ pc'[c] = "idle")
  <2>1. pc[c] = "kicking" /\ pc'[c] = "idle"
    BY <1>6 DEF KickMember, Commit, Refuse, Finish, TypeOK
  <2>2. CASE target[c] = r
    BY <1>6, <2>1, <2>2 DEF KickMember, Refuse
  <2>3. CASE target[c] # r
    BY <1>0, <1>6, <2>3 DEF KickMember, Refuse
  <2>4. QED
    BY <2>1, <2>2, <2>3
<1>7. ASSUME NEW c \in Conn, ReleaseSeat(c) PROVE Stays
  <2>1. c # t /\ lease[c].room \in Room /\ rooms[lease[c].room] \in RoomState
    BY <1>0, <1>7 DEF ReleaseSeat, HoldsPointToRooms, TypeOK
  <2>2. \/ UNCHANGED rooms
        \/ CloseRoom(lease[c].room, Leave(rooms[lease[c].room], c), c)
        \/ CloseRoom(lease[c].room, ExpireDisconnected(rooms[lease[c].room], c), c)
        \/ rooms' = [rooms EXCEPT ![lease[c].room] =
                       ExpireDisconnected(rooms[lease[c].room], c)]
    BY <1>7 DEF ReleaseSeat
  <2>3. /\ Leave(rooms[lease[c].room], c) \in RoomState
        /\ ExpireDisconnected(rooms[lease[c].room], c) \in RoomState
        /\ Member(rooms[lease[c].room], t)
             => Member(ExpireDisconnected(rooms[lease[c].room], c), t)
    BY <2>1, LeaveType, LeaveMembers
  <2>4. QED
    BY <1>same, <1>edit, <1>closing, <2>1, <2>2, <2>3
<1>8. ASSUME NEW q \in Room, PurgeHolds(q) PROVE Stays
  BY <1>0, <1>8 DEF PurgeHolds, Member, Seated, RoomState
<1>9. ASSUME NEW c \in Conn,
             \/ Connect(c) \/ HelloGuest(c) \/ Reclaim(c) \/ BeginLeave(c) \/ BeginDisband(c)
             \/ BeginKick(c) \/ BeginLogout(c) \/ Drop(c)
             \/ \E a \in Account : HelloAccount(c, a) \/ Login(c, a)
             \/ \E q \in Room : BeginJoin(c, q)
      PROVE  UNCHANGED rooms
  BY <1>9 DEF Connect, HelloGuest, Reclaim, BeginLeave, BeginDisband, BeginKick, BeginLogout,
     Drop, HelloAccount, Login, BeginBinding, BeginJoin, Begin
<1>10. ASSUME NEW c \in Conn,
              \/ BindAccount(c) \/ ChooseToken(c) \/ TakeHold(c) \/ AdoptHold(c)
              \/ ScreenNavigation(c) \/ ReadClock(c) \/ RestoreHold(c) \/ ExpireCall(c)
              \/ ExpireReturn(c) \/ DropHold(c) \/ Logout(c) \/ PassDeadline(c) \/ TimerFire(c)
       PROVE  UNCHANGED rooms
  BY <1>10 DEF BindAccount, ChooseToken, TakeHold, AdoptHold, ScreenNavigation, ReadClock,
     RestoreHold, ExpireCall, ExpireReturn, DropHold, Logout, PassDeadline, TimerFire
<1>11. CASE UNCHANGED vars
  BY <1>11, <1>same DEF vars
<1>12. QED
  BY <1>1, <1>2, <1>3, <1>4, <1>5, <1>6, <1>7, <1>8, <1>9, <1>10, <1>11, <1>same
     DEF Next, ClientStep, SessionStep, ExpiryStep

\* A dropped member keeps its place until its deadline, unless a successor
\* resumes it, the host kicks it or the room closes.
THEOREM DroppedSeatsSurvive == Spec => SeatSurvivesDrop
<1>1. IInv /\ [Next]_vars =>
        [\A r \in Room, t \in Conn :
           /\ Registered(r) /\ Registered(r)' /\ t \in held /\ t \notin due
           /\ Member(rooms[r], t)
           => \/ Member(rooms[r], t)'
              \/ \E c \in Conn : IsHost(rooms[r], c) /\ pc[c] = "kicking" /\ pc'[c] = "idle"]_vars
  BY HeldSeatStays
<1>2. QED
  BY <1>1, SessionsAndHolds, PTL DEF Spec, SeatSurvivesDrop
=============================================================================
