-------------------------- MODULE RoomSessionSeats --------------------------
(***************************************************************************)
(* Proofs about the seats of RoomSession, in two parts.                    *)
(*                                                                         *)
(* An account owns a player seat in one room at most, whether a session    *)
(* sits there or a hold is kept for it.  What makes it true is spread over *)
(* the handlers: holds of an account are looked up before its sessions     *)
(* enter a room, when they choose a token and when a guest signs in, and   *)
(* the account's lock is kept from there on to the end of the command.     *)
(*                                                                         *)
(* RoomSession implements SeatLease: every step of the hub is a step of    *)
(* that module under the mapping of RoomSessionLease, or invisible to it.  *)
(***************************************************************************)
EXTENDS RoomSessionLease, RoomSessionProofs, RoomSessionRoles, FiniteSetTheorems

(***************************************************************************)
(* The inductive invariant                                                 *)
(***************************************************************************)
\* The hold of t can still be resumed, or is being resumed.
Live(t) == (t \in held /\ t \notin due) \/ \E d \in Conn : Carries(d, t)

HoldsOf(a) == {t \in Conn : lease[t].acct = a /\ Live(t)}

OneHold == \A a \in Account : \A t, u \in HoldsOf(a) : t = u

\* A session in a room is its account's current one, or it is about to be and
\* has found nobody else in a room; and the account has no hold next to it.
BoundOrHeld ==
  \A c \in Conn : acct[c] \in Account /\ bound[c] # NoRoom =>
    /\ HoldsOf(acct[c]) = {}
    /\ current[acct[c]] = c \/ (pc[c] = "attaching" /\ target[c] = NoRoom)

\* A session that is about to resume knows the only hold of its account; one
\* that is about to join knows that there is none.
KnowsItsHolds ==
  \A c \in Conn : acct[c] \in Account =>
    /\ pc[c] \in Carrying \cup {"taking", "reclaiming"} => HoldsOf(acct[c]) \subseteq {want[c]}
    /\ pc[c] = "joining" => HoldsOf(acct[c]) = {}

\* A session carries its account's hold or one of a guest.
CarriesItsOwn ==
  \A c \in Conn : pc[c] \in Carrying => lease[want[c]].acct \in {NoAccount, acct[c]}

SeatInv == OneHold /\ BoundOrHeld /\ KnowsItsHolds /\ CarriesItsOwn

(***************************************************************************)
(* What one step changes                                                   *)
(***************************************************************************)
\* Only its own goroutine moves a session.
Own(c) == <<pc[c], want[c], acct[c], target[c]>>

LEMMA OwnStep ==
  ASSUME TypeOK, [Next]_vars, NEW c \in Conn, Own(c)' # Own(c)
  PROVE  ClientStep(c) \/ SessionStep(c)
<1> USE DEF Own, TypeOK, sessionVars, holdVars, accountVars
<1>1. ASSUME NEW d \in Conn \ {c}, ClientStep(d) PROVE FALSE
  <2>1. ASSUME Connect(d) \/ HelloGuest(d) \/ Reclaim(d) PROVE FALSE
    BY <2>1 DEF Connect, HelloGuest, Reclaim, Goto
  <2>2. ASSUME BeginLeave(d) \/ BeginDisband(d) \/ BeginKick(d) \/ BeginLogout(d) PROVE FALSE
    BY <2>2 DEF BeginLeave, BeginDisband, BeginKick, BeginLogout, Begin, Goto
  <2>3. ASSUME Drop(d) PROVE FALSE
    BY <2>3 DEF Drop, Goto
  <2>4. ASSUME NEW a \in Account, HelloAccount(d, a) \/ Login(d, a) PROVE FALSE
    BY <2>4 DEF HelloAccount, Login, BeginBinding, Goto
  <2>5. ASSUME NEW r \in Room, BeginJoin(d, r) PROVE FALSE
    BY <2>5 DEF BeginJoin, Begin, Goto
  <2>6. ASSUME NEW r \in Room, NEW kind \in Kinds, CreateRoom(d, r, kind) PROVE FALSE
    BY <2>6 DEF CreateRoom
  <2>7. QED
    BY <1>1, <2>1, <2>2, <2>3, <2>4, <2>5, <2>6 DEF ClientStep
<1>2. ASSUME NEW d \in Conn \ {c}, SessionStep(d) PROVE FALSE
  <2>1. ASSUME BindAccount(d) \/ ChooseToken(d) PROVE FALSE
    BY <2>1 DEF BindAccount, ChooseToken, Continue, Finish, Goto
  <2>2. ASSUME TakeHold(d) \/ AdoptHold(d) \/ ScreenNavigation(d) \/ ReadClock(d) PROVE FALSE
    BY <2>2 DEF TakeHold, AdoptHold, ScreenNavigation, ReadClock, Continue, Finish, Goto
  <2>3. ASSUME ResumeRoom(d) \/ RestoreHold(d) \/ ExpireCall(d) \/ ExpireReturn(d) PROVE FALSE
    BY <2>3 DEF ResumeRoom, RestoreHold, ExpireCall, ExpireReturn, Continue, Finish, Goto
  <2>4. ASSUME JoinRoom(d) \/ LeaveRoom(d) \/ DisbandRoom(d) \/ KickMember(d) PROVE FALSE
    BY <2>4 DEF JoinRoom, LeaveRoom, DisbandRoom, KickMember, Commit, Refuse, Finish
  <2>5. ASSUME DropHold(d) \/ Logout(d) PROVE FALSE
    BY <2>5 DEF DropHold, Logout, Finish, Goto
  <2>6. QED
    BY <1>2, <2>1, <2>2, <2>3, <2>4, <2>5 DEF SessionStep
<1>3. ASSUME NEW t \in Conn, PassDeadline(t) \/ ExpiryStep(t) PROVE FALSE
  BY <1>3 DEF PassDeadline, ExpiryStep, TimerFire, ReleaseSeat
<1>4. ASSUME NEW r \in Room, PurgeHolds(r) PROVE FALSE
  BY <1>4 DEF PurgeHolds
<1>5. CASE UNCHANGED vars
  BY <1>5 DEF vars
<1>6. QED
  BY <1>1, <1>2, <1>3, <1>4, <1>5 DEF Next

\* A session gets into a room by creating, joining or resuming it.
LEMMA GetsARoom ==
  ASSUME TypeInv, [Next]_vars, NEW c \in Conn, bound'[c] \notin {bound[c], NoRoom}
  PROVE  \/ \E r \in Room, kind \in Kinds : CreateRoom(c, r, kind)
         \/ JoinRoom(c) \/ ResumeRoom(c)
<1> USE DEF TypeInv, sessionVars, holdVars, accountVars
<1>0. bound \in [Conn -> Room \cup {NoRoom}]
  BY DEF TypeOK
<1>1. ASSUME NEW d \in Conn \ {c}, NEW r \in Room, NEW kind \in Kinds, CreateRoom(d, r, kind)
      PROVE  FALSE
  BY <1>0, <1>1 DEF CreateRoom
<1>2. ASSUME NEW d \in Conn \ {c}, JoinRoom(d) PROVE FALSE
  <2>1. UNCHANGED bound \/ bound' = [bound EXCEPT ![d] = target[d]]
    BY <1>2 DEF JoinRoom, Refuse
  <2>2. QED
    BY <1>0, <2>1
<1>3. ASSUME NEW d \in Conn \ {c}, ResumeRoom(d) PROVE FALSE
  <2>1. UNCHANGED bound \/ bound' = [bound EXCEPT ![d] = lease[want[d]].room]
    BY <1>3 DEF ResumeRoom
  <2>2. QED
    BY <1>0, <2>1
<1>4. ASSUME NEW d \in Conn, LeaveRoom(d) \/ DisbandRoom(d) \/ ReleaseSeat(d) PROVE FALSE
  <2>1. \/ UNCHANGED bound \/ bound' = [bound EXCEPT ![d] = NoRoom]
        \/ \E r, rm : CloseRoom(r, rm, d)
    BY <1>4 DEF LeaveRoom, DisbandRoom, ReleaseSeat
  <2>2. QED
    BY <1>0, <2>1, ClosingGains DEF GainsNothing
<1>5. ASSUME NEW d \in Conn, KickMember(d) PROVE FALSE
  BY <1>0, <1>5 DEF KickMember, Refuse
<1>6. ASSUME NEW d \in Conn, BindAccount(d) \/ DropHold(d) \/ Logout(d) PROVE FALSE
  <2>1. UNCHANGED bound \/ \E s : bound' = [bound EXCEPT ![s] = NoRoom]
    BY <1>6 DEF BindAccount, DropHold, Logout, Hold
  <2>2. QED
    BY <1>0, <2>1
<1>7. ASSUME NEW d \in Conn,
             \/ Connect(d) \/ HelloGuest(d) \/ Reclaim(d) \/ BeginLeave(d) \/ BeginDisband(d)
             \/ BeginKick(d) \/ BeginLogout(d) \/ Drop(d)
             \/ \E a \in Account : HelloAccount(d, a) \/ Login(d, a)
             \/ \E r \in Room : BeginJoin(d, r)
      PROVE  UNCHANGED bound
  BY <1>7 DEF Connect, HelloGuest, Reclaim, BeginLeave, BeginDisband, BeginKick, BeginLogout,
     Drop, HelloAccount, Login, BeginBinding, BeginJoin, Begin
<1>8. ASSUME NEW d \in Conn,
             \/ ChooseToken(d) \/ TakeHold(d) \/ AdoptHold(d) \/ ScreenNavigation(d)
             \/ ReadClock(d) \/ RestoreHold(d) \/ ExpireCall(d) \/ ExpireReturn(d)
             \/ PassDeadline(d) \/ TimerFire(d)
      PROVE  UNCHANGED bound
  BY <1>8 DEF ChooseToken, TakeHold, AdoptHold, ScreenNavigation, ReadClock, RestoreHold,
     ExpireCall, ExpireReturn, PassDeadline, TimerFire
<1>9. ASSUME NEW r \in Room, PurgeHolds(r) PROVE UNCHANGED bound
  BY <1>9 DEF PurgeHolds
<1>10. ASSUME UNCHANGED vars PROVE FALSE
  BY <1>10 DEF vars
<1>11. QED
  BY <1>1, <1>2, <1>3, <1>4, <1>5, <1>6, <1>7, <1>8, <1>9, <1>10
     DEF Next, ClientStep, SessionStep, ExpiryStep

\* d's goroutine leaves a hold behind for t: its own, or that of the session
\* its account is being moved away from.
Leaves(d, t) ==
  /\ target[d] \in Room
  /\ Registered(target[d]) /\ Member(rooms[target[d]], t)
  /\ Hold(t, target[d])
  /\ \/ pc[d] \in Binding /\ t = current[acct[d]]
     \/ pc[d] \in {"dropping", "signingOut"} /\ t = d

\* A hold changes, or comes into the map, only when it is adopted, restored or
\* made; and no deadline is taken back.
LEMMA HoldStep ==
  ASSUME TypeInv, [Next]_vars
  PROVE  /\ due \subseteq due'
         /\ \A t \in Conn : lease'[t] # lease[t] \/ t \in held' \ held =>
              \E d \in Conn : \/ AdoptHold(d) /\ want[d] = t
                              \/ RestoreHold(d) /\ want[d] = t
                              \/ Leaves(d, t)
<1> USE DEF TypeInv, TypeOK, sessionVars, holdVars, accountVars
<1> DEFINE Changes(t) == lease'[t] # lease[t] \/ t \in held' \ held
<1> DEFINE Goal == /\ due \subseteq due'
                   /\ \A t \in Conn : Changes(t) =>
                        \E d \in Conn : \/ AdoptHold(d) /\ want[d] = t
                                        \/ RestoreHold(d) /\ want[d] = t
                                        \/ Leaves(d, t)
<1>0. ASSUME UNCHANGED <<lease, due>>, held' \subseteq held PROVE Goal
  BY <1>0
<1>hold. ASSUME NEW d \in Conn, NEW s \in Conn, target[d] \in Room, Hold(s, target[d]),
                \/ pc[d] \in Binding /\ s = current[acct[d]]
                \/ pc[d] \in {"dropping", "signingOut"} /\ s = d
         PROVE  Goal
  <2>1. UNCHANGED due
    BY <1>hold DEF Hold
  <2>2. ASSUME NEW t \in Conn, Changes(t) PROVE Leaves(d, t)
    <3>1. Registered(target[d]) /\ Member(rooms[target[d]], s)
      BY <1>hold, <2>2 DEF Hold
    <3>2. t = s
      BY <1>hold, <2>2 DEF Hold
    <3>3. QED
      BY <1>hold, <3>1, <3>2 DEF Leaves
  <2>3. QED
    BY <2>1, <2>2
<1>1. ASSUME NEW d \in Conn, ClientStep(d) PROVE UNCHANGED holdVars
  <2>1. ASSUME NEW a \in Account, HelloAccount(d, a) \/ Login(d, a) PROVE UNCHANGED holdVars
    BY <2>1 DEF HelloAccount, Login, BeginBinding
  <2>2. QED
    BY <1>1, <2>1 DEF ClientStep, Connect, HelloGuest, Reclaim, BeginLeave, BeginDisband,
       BeginKick, BeginLogout, Drop, BeginJoin, Begin, CreateRoom
<1>2. ASSUME NEW d \in Conn, AdoptHold(d) PROVE Goal
  <2>1. UNCHANGED <<held, due>>
    BY <1>2 DEF AdoptHold
  <2>2. \A t \in Conn : lease'[t] # lease[t] => t = want[d]
    BY <1>2 DEF AdoptHold
  <2>3. QED
    BY <1>2, <2>1, <2>2
<1>3. ASSUME NEW d \in Conn, RestoreHold(d) PROVE Goal
  <2>1. UNCHANGED <<lease, due>> /\ held' = held \cup {want[d]}
    BY <1>3 DEF RestoreHold
  <2>2. QED
    BY <1>3, <2>1
<1>4. ASSUME NEW d \in Conn, BindAccount(d) PROVE Goal
  <2>1. CASE target[d] = NoRoom
    BY <1>0, <1>4, <2>1 DEF BindAccount
  <2>2. CASE target[d] # NoRoom
    <3>1. /\ target[d] \in Room /\ Hold(current[acct[d]], target[d])
          /\ pc[d] \in Binding /\ current[acct[d]] \in Conn
      BY <1>4, <2>2 DEF BindAccount, AccountLocked, Binding
    <3>2. QED
      BY <1>hold, <3>1
  <2>3. QED
    BY <2>1, <2>2
<1>5. ASSUME NEW d \in Conn, DropHold(d) PROVE Goal
  <2>1. target[d] \in Room /\ Hold(d, target[d]) /\ pc[d] = "dropping"
    BY <1>5 DEF DropHold, TargetsARoom
  <2>2. QED
    BY <1>hold, <2>1
<1>6. ASSUME NEW d \in Conn, Logout(d) PROVE Goal
  <2>1. CASE target[d] = NoRoom
    BY <1>0, <1>6, <2>1 DEF Logout
  <2>2. CASE target[d] # NoRoom
    <3>1. target[d] \in Room /\ Hold(d, target[d]) /\ pc[d] = "signingOut"
      BY <1>6, <2>2 DEF Logout
    <3>2. QED
      BY <1>hold, <3>1
  <2>3. QED
    BY <2>1, <2>2
<1>7. ASSUME NEW d \in Conn,
             \/ ChooseToken(d) \/ TakeHold(d) \/ ScreenNavigation(d) \/ ResumeRoom(d)
             \/ ReadClock(d) \/ ExpireCall(d) \/ ExpireReturn(d)
             \/ JoinRoom(d) \/ LeaveRoom(d) \/ DisbandRoom(d) \/ KickMember(d)
      PROVE  UNCHANGED <<lease, due>> /\ held' \subseteq held
  <2>1. CASE ChooseToken(d) \/ TakeHold(d) \/ ScreenNavigation(d) \/ ResumeRoom(d) \/ ReadClock(d)
    BY <2>1 DEF ChooseToken, TakeHold, ScreenNavigation, ResumeRoom, ReadClock
  <2>2. CASE ExpireCall(d) \/ ExpireReturn(d)
    BY <2>2 DEF ExpireCall, BeginExpiry, ExpireReturn
  <2>3. CASE JoinRoom(d) \/ LeaveRoom(d) \/ DisbandRoom(d) \/ KickMember(d)
    BY <2>3 DEF JoinRoom, LeaveRoom, DisbandRoom, KickMember, Commit, Refuse
  <2>4. QED
    BY <1>7, <2>1, <2>2, <2>3
<1>8. ASSUME NEW t \in Conn, PassDeadline(t) \/ TimerFire(t) \/ ReleaseSeat(t) PROVE Goal
  <2>1. UNCHANGED lease /\ due \subseteq due' /\ held' \subseteq held
    BY <1>8 DEF PassDeadline, TimerFire, BeginExpiry, ReleaseSeat
  <2>2. QED
    BY <2>1
<1>9. ASSUME NEW r \in Room, PurgeHolds(r) PROVE UNCHANGED <<lease, due>> /\ held' \subseteq held
  BY <1>9 DEF PurgeHolds
<1>10. ASSUME UNCHANGED vars PROVE UNCHANGED holdVars
  BY <1>10 DEF vars
<1>11. Goal
  BY <1>0, <1>1, <1>2, <1>3, <1>4, <1>5, <1>6, <1>7, <1>8, <1>9, <1>10
     DEF Next, SessionStep, ExpiryStep
<1>12. QED
  BY <1>11

\* A goroutine carries a hold since it took it out of the map, before its deadline.
LEMMA CarriesStep ==
  ASSUME TypeInv, [Next]_vars, NEW d \in Conn, pc'[d] \in Carrying,
         pc[d] \notin Carrying \/ want'[d] # want[d]
  PROVE  /\ TakeHold(d) /\ want'[d] = want[d] /\ UNCHANGED <<acct, lease>>
         /\ want[d] \in held \ due /\ lease[want[d]].acct \in {NoAccount, acct[d]}
<1> USE DEF TypeInv, sessionVars, holdVars, accountVars
<1>0. ClientStep(d) \/ SessionStep(d)
  BY OwnStep DEF Own
<1>types. pc \in [Conn -> Steps] /\ want \in [Conn -> Conn \cup {NoConn}]
  BY DEF TypeOK
<1> USE <1>types DEF Carrying
<1>1. CASE ClientStep(d)
  <2>1. ASSUME NEW a \in Account, HelloAccount(d, a) \/ Login(d, a) PROVE FALSE
    BY <2>1 DEF HelloAccount, Login, BeginBinding, Goto
  <2>2. ASSUME Connect(d) \/ HelloGuest(d) \/ Reclaim(d) PROVE FALSE
    BY <2>2 DEF Connect, HelloGuest, Reclaim, Goto
  <2>3. ASSUME BeginLeave(d) \/ BeginDisband(d) \/ BeginKick(d) \/ BeginLogout(d) PROVE FALSE
    BY <2>3 DEF BeginLeave, BeginDisband, BeginKick, BeginLogout, Begin, Goto
  <2>4. ASSUME Drop(d) \/ \E r \in Room : BeginJoin(d, r) PROVE FALSE
    BY <2>4 DEF Drop, BeginJoin, Begin, Goto
  <2>5. ASSUME NEW r \in Room, NEW kind \in Kinds, CreateRoom(d, r, kind) PROVE FALSE
    BY <2>5 DEF CreateRoom
  <2>6. QED
    BY <1>1, <2>1, <2>2, <2>3, <2>4, <2>5 DEF ClientStep
<1>2. CASE SessionStep(d)
  <2>1. ASSUME BindAccount(d) \/ ChooseToken(d) PROVE FALSE
    BY <2>1 DEF BindAccount, ChooseToken, Continue, Finish, Goto
  <2>2. ASSUME AdoptHold(d) \/ ScreenNavigation(d) \/ ReadClock(d) PROVE FALSE
    BY <2>2 DEF AdoptHold, ScreenNavigation, ReadClock, Continue, Finish, Goto
  <2>3. ASSUME ResumeRoom(d) \/ RestoreHold(d) \/ ExpireCall(d) \/ ExpireReturn(d) PROVE FALSE
    BY <2>3 DEF ResumeRoom, RestoreHold, ExpireCall, ExpireReturn, Continue, Finish, Goto
  <2>4. ASSUME JoinRoom(d) \/ LeaveRoom(d) \/ DisbandRoom(d) \/ KickMember(d) PROVE FALSE
    BY <2>4 DEF JoinRoom, LeaveRoom, DisbandRoom, KickMember, Commit, Refuse, Finish
  <2>5. ASSUME DropHold(d) \/ Logout(d) PROVE FALSE
    BY <2>5 DEF DropHold, Logout, Finish, Goto
  <2>6. TakeHold(d)
    BY <1>2, <2>1, <2>2, <2>3, <2>4, <2>5 DEF SessionStep
  <2>7. QED
    BY <2>6 DEF TakeHold, Spendable, Continue, Finish, Goto
<1>3. QED
  BY <1>0, <1>1, <1>2

(***************************************************************************)
(* What the account's lock keeps away                                      *)
(***************************************************************************)
\* One goroutine at a time works for an account.
LEMMA OneWorker ==
  ASSUME TypeInv, NEW c \in Conn, NEW d \in Conn, acct[c] \in Account, acct[d] = acct[c],
         Busy(c), Busy(d)
  PROVE  c = d
BY DEF TypeInv, AccountLocked

\* While none does, or the one that does carries no hold, the account's holds
\* are the ones its next command can look up.
LEMMA HoldsLookedUp ==
  ASSUME TypeInv, CarriesItsOwn, NEW a \in Account,
         \A d \in Conn : accountMu[a] = d => pc[d] \notin Carrying
  PROVE  HoldsOf(a) = AccountHolds(a)
<1>1. ASSUME NEW d \in Conn, NEW t \in Conn, Carries(d, t), lease[t].acct = a PROVE FALSE
  <2>1. acct[d] = a
    BY <1>1, AccountAssumption DEF CarriesItsOwn, Carries
  <2>2. Busy(d) /\ pc[d] \in Carrying
    BY <1>1 DEF Carries, Carrying, Busy
  <2>3. accountMu[a] = d
    BY <2>1, <2>2 DEF TypeInv, AccountLocked
  <2>4. QED
    BY <2>2, <2>3
<1>2. held \subseteq Conn
  BY DEF TypeInv, TypeOK
<1>3. QED
  BY <1>1, <1>2 DEF HoldsOf, Live, AccountHolds

\* Two sessions of an account are never in a room.
LEMMA OneInARoom ==
  ASSUME IInv, BoundOrHeld, NEW c \in Conn, NEW d \in Conn, acct[c] \in Account,
         acct[d] = acct[c], bound[c] # NoRoom, bound[d] # NoRoom
  PROVE  c = d
<1> DEFINE Enters(x) == pc[x] = "attaching" /\ target[x] = NoRoom
<1>1. /\ current[acct[c]] = c \/ Enters(c)
      /\ current[acct[c]] = d \/ Enters(d)
  BY DEF BoundOrHeld
<1>2. CASE Enters(c) /\ Enters(d)
  BY <1>2, OneWorker DEF IInv, Busy
<1>3. ASSUME NEW x \in Conn, NEW y \in Conn, x # y, acct[x] = acct[c], current[acct[c]] = y,
             bound[y] # NoRoom, Enters(x)
      PROVE  FALSE
  BY <1>3 DEF IInv, BoundWhereExpected, Binding
<1>4. QED
  BY <1>1, <1>2, <1>3

\* A hold is left behind only by a session in that room, which is not yet
\* suspended; and that session is not bound any more.
LEMMA LeftByAMember ==
  ASSUME IInv, NEW d \in Conn, NEW t \in Conn, Leaves(d, t)
  PROVE  /\ ~Suspended(t) /\ Busy(d)
         /\ bound[t] = target[d] /\ bound'[t] = NoRoom
         /\ acct[d] = acct[t]
         /\ lease'[t].acct \in {acct[t], NoAccount}
<1> USE DEF IInv, TypeInv, TypeOK, Leaves
<1>1. ~Suspended(t) /\ Busy(d) /\ acct[d] = acct[t]
  <2>1. CASE pc[d] \in Binding /\ t = current[acct[d]]
    <3>1. acct[d] \in Account
      BY <2>1 DEF AccountLocked, Binding
    <3>2. acct[t] = acct[d] /\ pc[t] # "closed"
      BY <2>1, <3>1 DEF AccountLocked
    <3>3. QED
      BY <2>1, <3>1, <3>2 DEF HeldIsRetired, Retired, Busy, Binding
  <2>2. CASE pc[d] \in {"dropping", "signingOut"} /\ t = d
    BY <2>2 DEF HeldIsRetired, Retired, Busy
  <2>3. QED
    BY <2>1, <2>2
<1>2. bound[t] \in {target[d], NoRoom} /\ (bound[t] = NoRoom => Suspended(t))
  BY MemberBound
<1>3. bound' = [bound EXCEPT ![t] = NoRoom]
  BY DEF Hold
<1>4. lease'[t].acct \in {acct[t], NoAccount}
  BY DEF Hold
<1>5. QED
  BY <1>1, <1>2, <1>3, <1>4

(***************************************************************************)
(* How an account comes to a hold                                          *)
(***************************************************************************)
\* d, the goroutine at work for account a, brings it the hold of t: it adopts
\* the one it carries, or unbinds the account's session.
Brings(d, t, a) ==
  /\ acct[d] = a /\ Busy(d)
  /\ \/ pc[d] = "adopting" /\ want[d] = t
     \/ /\ acct[t] = a /\ bound[t] # NoRoom /\ bound'[t] = NoRoom
        /\ \/ pc[d] \in Binding /\ target[d] # NoRoom /\ t = current[a]
           \/ pc[d] \in {"dropping", "signingOut"} /\ t = d

LEMMA NewHold ==
  ASSUME IInv, [Next]_vars, NEW a \in Account, NEW t \in Conn,
         t \in HoldsOf(a)', t \notin HoldsOf(a)
  PROVE  \E d \in Conn : Brings(d, t, a)
<1> USE DEF IInv
<1>1. lease'[t].acct = a /\ ((t \in held' /\ t \notin due') \/ \E d \in Conn : Carries(d, t)')
  BY DEF HoldsOf, Live
<1>2. CASE lease'[t] # lease[t] \/ t \in held' \ held
  <2>1. PICK d \in Conn : \/ AdoptHold(d) /\ want[d] = t
                          \/ RestoreHold(d) /\ want[d] = t
                          \/ Leaves(d, t)
    BY <1>2, HoldStep
  <2>2. CASE AdoptHold(d) /\ want[d] = t
    <3>1. lease'[t] # lease[t]
      BY <1>2, <2>2 DEF AdoptHold
    <3>2. lease'[t].acct \in {acct[d], NoAccount}
      BY <2>2, <3>1 DEF AdoptHold, TypeInv, TypeOK
    <3>3. acct[d] = a /\ pc[d] = "adopting"
      BY <1>1, <2>2, <3>2, AccountAssumption DEF AdoptHold
    <3>4. QED
      BY <2>2, <3>3 DEF Brings, Busy
  <2>3. CASE RestoreHold(d) /\ want[d] = t
    <3>1. lease' = lease
      BY <2>3 DEF RestoreHold
    <3>2. Carries(d, t)
      BY <2>3 DEF RestoreHold, Carries, Carrying
    <3>3. QED
      BY <1>1, <3>1, <3>2 DEF HoldsOf, Live
  <2>4. CASE Leaves(d, t)
    <3>1. /\ Busy(d) /\ bound[t] = target[d] /\ bound'[t] = NoRoom /\ acct[d] = acct[t]
          /\ lease'[t].acct \in {acct[t], NoAccount}
      BY <2>4, LeftByAMember
    <3>2. acct[d] = a /\ acct[t] = a
      BY <1>1, <3>1, AccountAssumption
    <3>3. target[d] # NoRoom
      BY <2>4, RoomAssumption DEF Leaves
    <3>4. QED
      BY <2>4, <3>1, <3>2, <3>3 DEF Brings, Leaves
  <2>5. QED
    BY <2>1, <2>2, <2>3, <2>4
<1>3. CASE lease'[t] = lease[t] /\ t \notin held' \ held
  <2>1. ~Live(t)
    BY <1>1, <1>3 DEF HoldsOf
  <2>2. ~(t \in held' /\ t \notin due')
    BY <1>3, <2>1, HoldStep DEF Live
  <2>3. PICK d \in Conn : Carries(d, t)'
    BY <1>1, <2>2
  <2>4. ~Carries(d, t)
    BY <2>1 DEF Live
  <2>5. pc'[d] \in Carrying /\ want'[d] = t
    BY <2>3 DEF Carries, Carrying
  <2>6. t \in held \ due
    <3>1. pc[d] \notin Carrying \/ want'[d] # want[d]
      BY <2>4, <2>5 DEF Carries
    <3>2. want[d] \in held \ due /\ want'[d] = want[d]
      BY <2>5, <3>1, CarriesStep
    <3>3. QED
      BY <2>5, <3>2
  <2>7. QED
    BY <2>1, <2>6 DEF Live
<1>4. QED
  BY <1>2, <1>3

(***************************************************************************)
(* Every step preserves each part                                          *)
(***************************************************************************)
\* The first hold an account comes to is its only one.
LEMMA OneHoldStep == IInv /\ SeatInv /\ [Next]_vars => OneHold'
<1> SUFFICES ASSUME IInv, SeatInv, [Next]_vars, NEW a \in Account,
                    NEW t \in HoldsOf(a)', NEW u \in HoldsOf(a)'
             PROVE  t = u
  BY DEF OneHold
<1> USE DEF IInv, SeatInv
<1>0. t \in Conn /\ u \in Conn
  BY DEF HoldsOf
<1>1. ASSUME NEW x \in HoldsOf(a)', NEW y \in HoldsOf(a)', x \notin HoldsOf(a) PROVE x = y
  <2>0. x \in Conn /\ y \in Conn
    BY DEF HoldsOf
  <2>1. PICK d \in Conn : Brings(d, x, a)
    BY <1>1, <2>0, NewHold
  <2>2. HoldsOf(a) \subseteq {x}
    BY <2>0, <2>1 DEF Brings, KnowsItsHolds, BoundOrHeld, Carrying
  <2>3. ASSUME y \notin HoldsOf(a) PROVE x = y
    <3>1. PICK e \in Conn : Brings(e, y, a)
      BY <2>0, <2>3, NewHold
    <3>2. d = e
      BY <2>1, <3>1, OneWorker DEF Brings
    <3>3. QED
      BY <2>1, <3>1, <3>2 DEF Brings, Binding
  <2>4. QED
    BY <2>2, <2>3
<1>2. QED
  BY <1>1 DEF OneHold

\* A goroutine carries its account's hold, or a guest's, to the end.
LEMMA CarriesItsOwnStep == IInv /\ SeatInv /\ [Next]_vars => CarriesItsOwn'
<1> SUFFICES ASSUME IInv, SeatInv, [Next]_vars, NEW c \in Conn, pc'[c] \in Carrying
             PROVE  lease'[want'[c]].acct \in {NoAccount, acct'[c]}
  BY DEF CarriesItsOwn, Carrying
<1> USE DEF IInv, SeatInv
<1>1. CASE pc[c] \notin Carrying \/ want'[c] # want[c]
  BY <1>1, CarriesStep
<1>2. CASE pc[c] \in Carrying /\ want'[c] = want[c]
  <2>1. acct'[c] = acct[c]
    <3>1. SUFFICES ASSUME acct'[c] # acct[c] PROVE FALSE
      OBVIOUS
    <3>2. ClientStep(c) \/ SessionStep(c)
      BY <3>1, OwnStep DEF Own, TypeInv
    <3>3. CASE ClientStep(c)
      BY <1>2, <3>3 DEF ClientStep, Connect, HelloGuest, Reclaim, BeginLeave, BeginDisband,
         BeginKick, BeginLogout, Drop, HelloAccount, Login, BeginJoin, Begin, CreateRoom, Carrying
    <3>4. CASE SessionStep(c)
      BY <3>1, <3>4 DEF SessionStep, BindAccount, ChooseToken, TakeHold, AdoptHold,
         ScreenNavigation, ResumeRoom, ReadClock, RestoreHold, ExpireCall, ExpireReturn, JoinRoom,
         LeaveRoom, DisbandRoom, KickMember, Commit, DropHold, Logout, accountVars
    <3>5. QED
      BY <3>2, <3>3, <3>4
  <2>2. lease[want[c]].acct \in {NoAccount, acct[c]} /\ want[c] \in Conn
    BY <1>2 DEF CarriesItsOwn, TypeInv, WantsAToken, Wanting
  <2>3. CASE lease'[want[c]] = lease[want[c]]
    BY <1>2, <2>1, <2>2, <2>3
  <2>4. CASE lease'[want[c]] # lease[want[c]]
    <3>1. PICK d \in Conn : \/ AdoptHold(d) /\ want[d] = want[c]
                            \/ RestoreHold(d) /\ want[d] = want[c]
                            \/ Leaves(d, want[c])
      BY <2>2, <2>4, HoldStep
    <3>2. CASE AdoptHold(d) /\ want[d] = want[c]
      <4>1. Carries(d, want[c]) /\ Carries(c, want[c])
        BY <1>2, <3>2 DEF AdoptHold, Carries, Carrying
      <4>2. d = c
        BY <2>2, <4>1 DEF TokenSpentOnce
      <4>3. lease'[want[c]].acct \in {NoAccount, acct[c]}
        BY <2>2, <3>2, <4>2 DEF AdoptHold, TypeInv, TypeOK
      <4>4. QED
        BY <1>2, <2>1, <4>3
    <3>3. CASE RestoreHold(d) /\ want[d] = want[c]
      BY <2>4, <3>3 DEF RestoreHold
    <3>4. CASE Leaves(d, want[c])
      <4>1. ~Suspended(want[c])
        BY <2>2, <3>4, LeftByAMember
      <4>2. QED
        BY <1>2, <4>1 DEF Suspended, Carries
    <3>5. QED
      BY <3>1, <3>2, <3>3, <3>4
  <2>5. QED
    BY <2>3, <2>4
<1>3. QED
  BY <1>1, <1>2

\* What a session did before the steps at which it relies on the account's holds.
Searching == Carrying \cup {"taking", "reclaiming"}

LEMMA SearchStep ==
  ASSUME TypeInv, [Next]_vars, NEW c \in Conn, pc'[c] \in Searching \cup {"joining"}
  PROVE  /\ acct'[c] = acct[c]
         /\ \/ pc[c] \in Searching /\ pc'[c] \in Searching /\ want'[c] = want[c]
            \/ pc[c] = "joining" /\ pc'[c] = "joining"
            \/ HelloGuest(c) \/ ChooseToken(c) \/ Reclaim(c)
            \/ \E r \in Room : BeginJoin(c, r)
<1> USE DEF TypeInv, sessionVars, holdVars, accountVars
<1>types. pc \in [Conn -> Steps] /\ want \in [Conn -> Conn \cup {NoConn}]
  BY DEF TypeOK
<1> USE <1>types DEF Carrying, Searching
<1>1. CASE Own(c)' = Own(c)
  BY <1>1 DEF Own
<1>2. CASE ClientStep(c)
  <2>1. ASSUME NEW a \in Account, HelloAccount(c, a) \/ Login(c, a) PROVE FALSE
    BY <2>1 DEF HelloAccount, Login, BeginBinding, Goto
  <2>2. ASSUME BeginLeave(c) \/ BeginDisband(c) \/ BeginKick(c) \/ BeginLogout(c) PROVE FALSE
    BY <2>2 DEF BeginLeave, BeginDisband, BeginKick, BeginLogout, Begin, Goto
  <2>3. ASSUME Connect(c) \/ Drop(c) PROVE FALSE
    BY <2>3 DEF Connect, Drop, Goto
  <2>4. ASSUME NEW r \in Room, NEW kind \in Kinds, CreateRoom(c, r, kind) PROVE FALSE
    BY <2>4 DEF CreateRoom
  <2>5. HelloGuest(c) \/ Reclaim(c) \/ \E r \in Room : BeginJoin(c, r)
    BY <1>2, <2>1, <2>2, <2>3, <2>4 DEF ClientStep
  <2>6. acct' = acct
    BY <2>5 DEF HelloGuest, Reclaim, BeginJoin, Begin
  <2>7. QED
    BY <2>5, <2>6
<1>3. CASE SessionStep(c)
  <2>1. ASSUME BindAccount(c) PROVE FALSE
    BY <2>1 DEF BindAccount, Continue, Finish, Goto
  <2>2. ASSUME ExpireCall(c) \/ ExpireReturn(c) PROVE FALSE
    BY <2>2 DEF ExpireCall, ExpireReturn, Continue, Finish, Goto
  <2>3. ASSUME JoinRoom(c) \/ LeaveRoom(c) \/ DisbandRoom(c) \/ KickMember(c) PROVE FALSE
    BY <2>3 DEF JoinRoom, LeaveRoom, DisbandRoom, KickMember, Commit, Refuse, Finish
  <2>4. ASSUME DropHold(c) \/ Logout(c) PROVE FALSE
    BY <2>4 DEF DropHold, Logout, Finish, Goto
  <2>5. CASE ChooseToken(c)
    BY <2>5 DEF ChooseToken
  <2>6. CASE TakeHold(c) \/ AdoptHold(c) \/ ScreenNavigation(c) \/ ReadClock(c)
    <3>1. acct' = acct /\ pc[c] \in Searching /\ pc'[c] # "joining"
      BY <2>6 DEF TakeHold, AdoptHold, ScreenNavigation, ReadClock, Continue, Finish, Goto
    <3>2. want'[c] = want[c]
      BY <2>6 DEF TakeHold, AdoptHold, ScreenNavigation, ReadClock, Continue, Finish, Goto
    <3>3. QED
      BY <3>1, <3>2
  <2>7. CASE ResumeRoom(c) \/ RestoreHold(c)
    <3>1. acct' = acct /\ pc[c] \in Searching /\ pc'[c] # "joining"
      BY <2>7 DEF ResumeRoom, RestoreHold, Continue, Finish, Goto
    <3>2. want'[c] = want[c]
      BY <2>7 DEF ResumeRoom, RestoreHold, Continue, Finish, Goto
    <3>3. QED
      BY <3>1, <3>2
  <2>8. QED
    BY <1>3, <2>1, <2>2, <2>3, <2>4, <2>5, <2>6, <2>7 DEF SessionStep
<1>4. QED
  BY <1>1, <1>2, <1>3, OwnStep

\* A session that resumes knows all holds of its account, and one that joins
\* knows that there are none, because the lock was taken before they looked.
LEMMA KnowsItsHoldsStep == IInv /\ SeatInv /\ [Next]_vars => KnowsItsHolds'
<1> SUFFICES ASSUME IInv, SeatInv, [Next]_vars, NEW c \in Conn, NEW a \in Account, acct'[c] = a,
                    pc'[c] \in Searching \cup {"joining"}
             PROVE  /\ pc'[c] \in Searching => HoldsOf(a)' \subseteq {want'[c]}
                    /\ pc'[c] = "joining" => HoldsOf(a)' = {}
  BY DEF KnowsItsHolds, Searching
<1> USE DEF IInv, SeatInv
<1>0. acct[c] = a
  BY SearchStep
<1>1. ASSUME NEW t \in HoldsOf(a)', t \notin HoldsOf(a), Busy(c)
      PROVE  /\ pc[c] \in Binding \cup {"adopting", "dropping", "signingOut"}
             /\ pc[c] = "adopting" => t = want[c]
  <2>0. t \in Conn
    BY DEF HoldsOf
  <2>1. PICK d \in Conn : Brings(d, t, a)
    BY <1>1, <2>0, NewHold
  <2>2. d = c
    BY <1>0, <1>1, <2>1, OneWorker DEF Brings
  <2>3. QED
    BY <2>1, <2>2 DEF Brings, Binding
<1>2. ASSUME NEW t \in HoldsOf(a)', t \notin HoldsOf(a), accountMu[a] = NoConn
      PROVE  FALSE
  <2>0. t \in Conn
    BY DEF HoldsOf
  <2>1. PICK d \in Conn : Brings(d, t, a)
    BY <1>2, <2>0, NewHold
  <2>2. accountMu[a] = d
    BY <2>1 DEF Brings, TypeInv, AccountLocked
  <2>3. QED
    BY <1>2, <2>2, ConnAssumption
<1>3. CASE pc[c] \in Searching /\ pc'[c] \in Searching /\ want'[c] = want[c]
  <2>1. HoldsOf(a) \subseteq {want[c]}
    BY <1>0, <1>3 DEF KnowsItsHolds, Searching
  <2>2. Busy(c) /\ pc[c] \notin Binding \cup {"dropping", "signingOut"}
    BY <1>3 DEF Searching, Carrying, Busy, Binding
  <2>3. HoldsOf(a)' \subseteq {want'[c]}
    BY <1>1, <1>3, <2>1, <2>2
  <2>4. QED
    BY <1>3, <2>3 DEF Searching, Carrying
<1>4. CASE pc[c] = "joining" /\ pc'[c] = "joining"
  <2>1. HoldsOf(a) = {} /\ Busy(c)
    BY <1>0, <1>4 DEF KnowsItsHolds, Busy
  <2>2. HoldsOf(a)' = {}
    BY <1>1, <1>4, <2>1 DEF Binding
  <2>3. QED
    BY <1>4, <2>2 DEF Searching, Carrying
<1>5. CASE HelloGuest(c)
  BY <1>0, <1>5, AccountAssumption DEF HelloGuest, TypeInv, AccountLocked
<1>6. CASE ChooseToken(c)
  <2>1. pc[c] = "choosing" /\ accountMu[a] = c /\ Busy(c)
    BY <1>0, <1>6 DEF ChooseToken, TypeInv, AccountLocked, Busy
  <2>2. HoldsOf(a) = AccountHolds(a)
    BY <2>1, HoldsLookedUp DEF Carrying
  <2>3. HoldsOf(a)' \subseteq HoldsOf(a)
    BY <1>1, <2>1 DEF Binding
  <2>4. pc'[c] # "joining"
    BY <1>6 DEF ChooseToken, Finish, Goto, TypeInv, TypeOK
  <2>5. CASE AccountHolds(a) = {}
    BY <2>2, <2>3, <2>4, <2>5
  <2>6. CASE AccountHolds(a) # {}
    <3>1. want'[c] \in AccountHolds(a) \/ pc'[c] = "idle"
      BY <1>0, <1>6, <2>6 DEF ChooseToken, Finish, TypeInv, TypeOK
    <3>2. AccountHolds(a) \subseteq {want'[c]} \/ pc'[c] = "idle"
      BY <3>1, <2>2 DEF OneHold
    <3>3. QED
      BY <2>2, <2>3, <2>4, <3>2 DEF Searching, Carrying
  <2>7. QED
    BY <2>5, <2>6
<1>7. CASE Reclaim(c)
  <2>1. accountMu[a] = NoConn
    BY <1>0, <1>7, AccountAssumption DEF Reclaim, Authorised
  <2>2. HoldsOf(a) = AccountHolds(a)
    BY <2>1, HoldsLookedUp, ConnAssumption
  <2>3. HoldsOf(a)' \subseteq HoldsOf(a)
    BY <1>2, <2>1
  <2>4. want'[c] \in AccountHolds(a) /\ pc'[c] # "joining"
    BY <1>0, <1>7 DEF Reclaim, Goto, TypeInv, TypeOK
  <2>5. QED
    BY <2>2, <2>3, <2>4 DEF OneHold
<1>8. CASE \E r \in Room : BeginJoin(c, r)
  <2>1. accountMu[a] = NoConn /\ AccountHolds(a) = {}
    BY <1>0, <1>8, AccountAssumption DEF BeginJoin, Begin, Authorised, MayEnter
  <2>2. HoldsOf(a) = {}
    BY <2>1, HoldsLookedUp, ConnAssumption
  <2>3. QED
    BY <1>2, <2>1, <2>2
<1>9. QED
  BY <1>3, <1>4, <1>5, <1>6, <1>7, <1>8, SearchStep

\* The account's binding moves when a session takes it over, or ends.
LEMMA CurrentStep ==
  ASSUME TypeInv, [Next]_vars, NEW a \in Account, current'[a] # current[a]
  PROVE  \/ \E d \in Conn : BindAccount(d) /\ acct[d] = a /\ current'[a] = d
         \/ \E d \in Conn : (Drop(d) \/ DropHold(d) \/ Logout(d)) /\ current[a] = d
<1> USE DEF TypeInv, sessionVars, holdVars, accountVars
<1>0. current \in [Account -> Conn \cup {NoConn}]
  BY DEF TypeOK
<1>1. ASSUME NEW d \in Conn, ClientStep(d), ~Drop(d) PROVE UNCHANGED current
  <2>1. ASSUME NEW b \in Account, HelloAccount(d, b) \/ Login(d, b) PROVE UNCHANGED current
    BY <2>1 DEF HelloAccount, Login, BeginBinding
  <2>2. QED
    BY <1>1, <2>1 DEF ClientStep, Connect, HelloGuest, Reclaim, BeginLeave, BeginDisband,
       BeginKick, BeginLogout, BeginJoin, Begin, CreateRoom
<1>2. ASSUME NEW d \in Conn,
             \/ ChooseToken(d) \/ TakeHold(d) \/ AdoptHold(d) \/ ScreenNavigation(d)
             \/ ResumeRoom(d) \/ ReadClock(d) \/ RestoreHold(d)
             \/ ExpireCall(d) \/ ExpireReturn(d)
      PROVE  UNCHANGED current
  BY <1>2 DEF ChooseToken, TakeHold, AdoptHold, ScreenNavigation, ResumeRoom, ReadClock,
     RestoreHold, ExpireCall, ExpireReturn
<1>3. ASSUME NEW d \in Conn, JoinRoom(d) \/ LeaveRoom(d) \/ DisbandRoom(d) \/ KickMember(d)
      PROVE  UNCHANGED current
  BY <1>3 DEF JoinRoom, LeaveRoom, DisbandRoom, KickMember, Refuse
<1>4. ASSUME NEW d \in Conn, PassDeadline(d) \/ TimerFire(d) \/ ReleaseSeat(d)
      PROVE  UNCHANGED current
  BY <1>4 DEF PassDeadline, TimerFire, ReleaseSeat
<1>5. ASSUME NEW r \in Room, PurgeHolds(r) PROVE UNCHANGED current
  BY <1>5 DEF PurgeHolds
<1>6. ASSUME NEW d \in Conn, BindAccount(d) PROVE acct[d] = a /\ current'[a] = d
  <2>1. current' = [current EXCEPT ![acct[d]] = d]
    BY <1>6 DEF BindAccount
  <2>2. QED
    BY <1>0, <2>1
<1>7. ASSUME NEW d \in Conn, Drop(d) \/ DropHold(d) \/ Logout(d) PROVE current[a] = d
  <2>1. UNCHANGED current \/ ClearCurrent(d)
    BY <1>7 DEF Drop, DropHold, Logout
  <2>2. QED
    BY <1>0, <2>1 DEF ClearCurrent
<1>8. ASSUME UNCHANGED vars PROVE UNCHANGED current
  BY <1>8 DEF vars
<1>9. QED
  BY <1>1, <1>2, <1>3, <1>4, <1>5, <1>6, <1>7, <1>8 DEF Next, SessionStep, ExpiryStep

\* A session signs in only where it has no room, or where the account has none
\* and no hold either.
LEMMA SignsIn ==
  ASSUME TypeInv, [Next]_vars, NEW c \in Conn, acct'[c] # acct[c]
  PROVE  /\ acct[c] = NoAccount /\ acct'[c] \in Account
         /\ accountMu[acct'[c]] = NoConn /\ UNCHANGED <<bound, current>>
         /\ \/ pc[c] = "hello"
            \/ /\ pc'[c] = "attaching" /\ target'[c] = ReplacedRoom(c, acct'[c])
               /\ bound[c] # NoRoom =>
                    ReplacedRoom(c, acct'[c]) = NoRoom /\ AccountHolds(acct'[c]) = {}
<1> USE DEF TypeInv, sessionVars, holdVars, accountVars
<1>1. ClientStep(c) \/ SessionStep(c)
  BY OwnStep DEF Own
<1>2. ~SessionStep(c)
  BY DEF SessionStep, BindAccount, ChooseToken, TakeHold, AdoptHold,
     ScreenNavigation, ResumeRoom, ReadClock, RestoreHold, ExpireCall, ExpireReturn, JoinRoom,
     LeaveRoom, DisbandRoom, KickMember, Commit, DropHold, Logout
<1>3. PICK a \in Account : HelloAccount(c, a) \/ Login(c, a)
  BY <1>1, <1>2 DEF ClientStep, Connect, HelloGuest, Reclaim, BeginLeave, BeginDisband,
     BeginKick, BeginLogout, Drop, BeginJoin, Begin, CreateRoom
<1>4. acct'[c] = a /\ accountMu[a] = NoConn /\ UNCHANGED <<bound, current>>
  BY <1>3 DEF HelloAccount, Login, BeginBinding, TypeOK
<1>5. CASE HelloAccount(c, a)
  BY <1>4, <1>5 DEF HelloAccount, AccountLocked
<1>6. CASE Login(c, a)
  BY <1>4, <1>6 DEF Login, BeginBinding, Goto, TypeOK
<1>7. QED
  BY <1>3, <1>5, <1>6

\* A guest session that signs in does nothing else before the account is bound.
LEMMA OnlyBinds ==
  ASSUME TypeInv, [Next]_vars, NEW c \in Conn, pc[c] = "attaching", Own(c)' # Own(c)
  PROVE  BindAccount(c)
<1>1. ClientStep(c) \/ SessionStep(c)
  BY OwnStep DEF TypeInv
<1>2. ~ClientStep(c)
  BY DEF ClientStep, Connect, HelloGuest, Reclaim, BeginLeave, BeginDisband, BeginKick,
     BeginLogout, Drop, HelloAccount, Login, BeginJoin, Begin, CreateRoom
<1>3. QED
  BY <1>1, <1>2 DEF SessionStep, ChooseToken, TakeHold, AdoptHold, ScreenNavigation,
     ResumeRoom, ReadClock, RestoreHold, ExpireCall, ExpireReturn, JoinRoom, LeaveRoom,
     DisbandRoom, KickMember, Commit, DropHold, Logout

\* An account that has a session in a room comes to no hold meanwhile: it could
\* only be that of the session itself, which then is in no room any more.
LEMMA BoundStaysAlone ==
  ASSUME IInv, SeatInv, EntersAsCurrent, [Next]_vars, NEW c \in Conn, NEW a \in Account,
         acct[c] = a, bound[c] # NoRoom, bound'[c] # NoRoom
  PROVE  HoldsOf(a)' = {}
<1> USE DEF IInv, SeatInv
<1>0. HoldsOf(a) = {} /\ (current[a] = c \/ (pc[c] = "attaching" /\ target[c] = NoRoom))
  BY DEF BoundOrHeld
<1>1. SUFFICES ASSUME NEW t \in HoldsOf(a)' PROVE FALSE
  OBVIOUS
<1>2. t \in Conn /\ t \notin HoldsOf(a)
  BY <1>0 DEF HoldsOf
<1>3. PICK d \in Conn : Brings(d, t, a)
  BY <1>2, NewHold
<1>4. CASE pc[d] = "adopting"
  <2>1. bound[d] = NoRoom /\ current[a] = d
    BY <1>3, <1>4 DEF Brings, BoundWhereExpected, Roomless, Wanting, Carrying, EntersAsCurrent,
       Entering
  <2>2. c # d /\ pc[c] = "attaching"
    BY <1>0, <2>1
  <2>3. QED
    BY <1>3, <2>2, OneWorker DEF Brings, Busy
<1>5. CASE pc[d] # "adopting"
  <2>1. acct[t] = a /\ bound[t] # NoRoom /\ bound'[t] = NoRoom
    BY <1>3, <1>5 DEF Brings
  <2>2. t = c
    BY <1>2, <2>1, OneInARoom
  <2>3. QED
    BY <2>1, <2>2
<1>6. QED
  BY <1>4, <1>5

\* ... and that session stays the account's current one, or becomes it.
LEMMA BoundStaysCurrent ==
  ASSUME IInv, SeatInv, [Next]_vars, NEW c \in Conn, NEW a \in Account,
         acct[c] = a, bound[c] # NoRoom, bound'[c] # NoRoom
  PROVE  current'[a] = c \/ (pc'[c] = "attaching" /\ target'[c] = NoRoom)
<1> USE DEF IInv, SeatInv
<1>0. current[a] = c \/ (pc[c] = "attaching" /\ target[c] = NoRoom)
  BY DEF BoundOrHeld
<1>types. current \in [Account -> Conn \cup {NoConn}] /\ bound \in [Conn -> Room \cup {NoRoom}]
  BY DEF TypeInv, TypeOK
<1>1. CASE pc[c] = "attaching" /\ target[c] = NoRoom
  <2>1. CASE Own(c)' = Own(c)
    BY <1>1, <2>1 DEF Own
  <2>2. CASE Own(c)' # Own(c)
    <3>1. BindAccount(c)
      BY <1>1, <2>2, OnlyBinds
    <3>2. QED
      BY <1>types, <3>1 DEF BindAccount
  <2>3. QED
    BY <2>1, <2>2
<1>2. CASE current[a] = c /\ current'[a] # c
  <2>1. CASE \E d \in Conn : BindAccount(d) /\ acct[d] = a /\ current'[a] = d
    <3>1. PICK d \in Conn : BindAccount(d) /\ acct[d] = a /\ current'[a] = d
      BY <2>1
    <3>2. bound[c] \in {target[d], NoRoom}
      BY <1>2, <3>1 DEF BindAccount, BoundWhereExpected, Binding
    <3>3. Hold(c, target[d])
      BY <1>2, <3>1, <3>2 DEF BindAccount
    <3>4. QED
      BY <1>types, <3>3 DEF Hold
  <2>2. CASE (Drop(c) \/ DropHold(c) \/ Logout(c))
    <3>1. ~Drop(c)
      BY <1>2 DEF Drop
    <3>2. bound[c] = target[c] /\ target[c] # NoRoom
      BY <2>2, <3>1 DEF DropHold, Logout, BoundWhereExpected, Leaving
    <3>3. Hold(c, target[c])
      BY <2>2, <3>1, <3>2 DEF DropHold, Logout
    <3>4. QED
      BY <1>types, <3>3 DEF Hold
  <2>3. QED
    BY <1>2, <2>1, <2>2, CurrentStep
<1>3. QED
  BY <1>0, <1>1, <1>2

\* A session that gets into a room is its account's current one, and the hold it
\* resumed, if any, was the account's last.
LEMMA EntersAlone ==
  ASSUME IInv, SeatInv, EntersAsCurrent, [Next]_vars, NEW c \in Conn, NEW a \in Account,
         acct'[c] = a, bound[c] = NoRoom, bound'[c] # NoRoom
  PROVE  HoldsOf(a)' = {} /\ current'[a] = c
<1> USE DEF IInv, SeatInv, sessionVars, holdVars, accountVars
<1>types. bound \in [Conn -> Room \cup {NoRoom}] /\ pc \in [Conn -> Steps]
  BY DEF TypeInv, TypeOK
<1>1. \/ \E r \in Room, kind \in Kinds : CreateRoom(c, r, kind)
      \/ JoinRoom(c) \/ ResumeRoom(c)
  BY GetsARoom
<1>2. CASE \E r \in Room, kind \in Kinds : CreateRoom(c, r, kind)
  <2>1. /\ UNCHANGED <<pc, want, acct, current>> /\ UNCHANGED <<held, lease, due>>
        /\ Authorised(c) /\ MayEnter(c)
    BY <1>2 DEF CreateRoom
  <2>2. accountMu[a] = NoConn /\ current[a] = c /\ AccountHolds(a) = {}
    BY <2>1, AccountAssumption DEF Authorised, MayEnter
  <2>3. HoldsOf(a) = {}
    BY <2>2, HoldsLookedUp, ConnAssumption
  <2>4. HoldsOf(a)' = HoldsOf(a)
    BY <2>1 DEF HoldsOf, Live, Carries
  <2>5. QED
    BY <2>1, <2>2, <2>3, <2>4
<1>3. CASE JoinRoom(c)
  <2>1. pc[c] = "joining" /\ UNCHANGED <<acct, current>>
    BY <1>3 DEF JoinRoom, Commit, Refuse
  <2>2. HoldsOf(a) = {} /\ current[a] = c
    BY <2>1 DEF KnowsItsHolds, EntersAsCurrent, Entering
  <2>3. ASSUME NEW t \in HoldsOf(a)' PROVE FALSE
    <3>1. t \in Conn /\ t \notin HoldsOf(a)
      BY <2>2, <2>3 DEF HoldsOf
    <3>2. PICK d \in Conn : Brings(d, t, a)
      BY <3>1, NewHold
    <3>3. d = c
      BY <2>1, <3>2, OneWorker DEF Brings, Busy
    <3>4. QED
      BY <2>1, <3>2, <3>3 DEF Brings, Binding
  <2>4. QED
    BY <2>1, <2>2, <2>3
<1>4. CASE ResumeRoom(c)
  <2>0. bound'[c] # bound[c]
    OBVIOUS
  <2>1. pc[c] = "resuming" /\ UNCHANGED <<acct, current>> /\ UNCHANGED <<held, lease, due>>
    BY <1>4 DEF ResumeRoom
  <2>2. Finish(c)
    BY <1>4, <2>0 DEF ResumeRoom
  <2>3. HoldsOf(a) \subseteq {want[c]} /\ current[a] = c
    BY <2>1 DEF KnowsItsHolds, Carrying, EntersAsCurrent, Entering, Wanting
  <2>4. want[c] \in Conn /\ Carries(c, want[c])
    BY <2>1 DEF TypeInv, WantsAToken, Wanting, Carrying, Carries
  <2>5. want[c] \notin held /\ \A d \in Conn \ {c} : ~Carries(d, want[c])
    BY <2>4 DEF TokenSpentOnce
  <2>6. \A d \in Conn, t \in Conn : Carries(d, t)' => d # c /\ Carries(d, t)
    <3>1. /\ pc' = [pc EXCEPT ![c] = "idle"]
          /\ want' = [want EXCEPT ![c] = NoConn]
      BY <2>2 DEF Finish
    <3>2. QED
      BY <1>types, <3>1 DEF Carries, Carrying, TypeInv, TypeOK
  <2>7. HoldsOf(a)' = {}
    <3>1. SUFFICES ASSUME NEW t \in HoldsOf(a)' PROVE FALSE
      OBVIOUS
    <3>2. t \in Conn /\ lease[t].acct = a
      BY <2>1 DEF HoldsOf
    <3>3. (t \in held /\ t \notin due) \/ \E d \in Conn \ {c} : Carries(d, t)
      BY <2>1, <2>6, <3>2 DEF HoldsOf, Live
    <3>4. t \in HoldsOf(a)
      BY <3>2, <3>3 DEF HoldsOf, Live
    <3>5. QED
      BY <2>3, <2>5, <3>3, <3>4
  <2>8. QED
    BY <2>1, <2>3, <2>7
<1>5. QED
  BY <1>1, <1>2, <1>3, <1>4, <1>types

LEMMA BoundOrHeldStep == IInv /\ SeatInv /\ EntersAsCurrent /\ [Next]_vars => BoundOrHeld'
<1> SUFFICES ASSUME IInv, SeatInv, EntersAsCurrent, [Next]_vars, NEW c \in Conn,
                    NEW a \in Account, acct'[c] = a, bound'[c] # NoRoom
             PROVE  /\ HoldsOf(a)' = {}
                    /\ current'[a] = c \/ (pc'[c] = "attaching" /\ target'[c] = NoRoom)
  BY DEF BoundOrHeld
<1> USE DEF IInv, SeatInv
<1>1. CASE bound[c] = NoRoom
  BY <1>1, EntersAlone
<1>2. CASE bound[c] # NoRoom /\ acct[c] = a
  BY <1>2, BoundStaysAlone, BoundStaysCurrent
<1>3. CASE bound[c] # NoRoom /\ acct[c] # a
  <2>1. /\ accountMu[a] = NoConn
        /\ pc'[c] = "attaching" /\ target'[c] = NoRoom /\ AccountHolds(a) = {}
    BY <1>3, SignsIn DEF BoundWhereExpected, Roomless
  <2>2. HoldsOf(a) = {}
    BY <2>1, HoldsLookedUp, ConnAssumption
  <2>3. ASSUME NEW t \in HoldsOf(a)' PROVE FALSE
    <3>1. t \in Conn /\ t \notin HoldsOf(a)
      BY <2>2, <2>3 DEF HoldsOf
    <3>2. PICK d \in Conn : Brings(d, t, a)
      BY <3>1, NewHold
    <3>3. accountMu[a] = d
      BY <3>2 DEF Brings, TypeInv, AccountLocked
    <3>4. QED
      BY <2>1, <3>3, ConnAssumption
  <2>4. QED
    BY <2>1, <2>3
<1>4. QED
  BY <1>1, <1>2, <1>3

(***************************************************************************)
(* The theorem                                                             *)
(***************************************************************************)
\* Everything the proof needs about one state.
SeatsInv == IInv /\ EntersAsCurrent /\ SeatInv

\* It holds in every state that can be reached.
THEOREM SeatsAreSingle == Spec => []SeatsInv
<1>1. Init => SeatInv
  <2>1. ASSUME Init PROVE \A a \in Account : HoldsOf(a) = {}
    BY <2>1, AccountAssumption DEF Init, HoldsOf
  <2>2. QED
    BY <2>1, AccountAssumption
       DEF Init, SeatInv, OneHold, BoundOrHeld, KnowsItsHolds, CarriesItsOwn, Carrying
<1>2. SeatInv /\ IInv /\ RoleInv /\ [Next]_vars => SeatInv'
  BY OneHoldStep, BoundOrHeldStep, KnowsItsHoldsStep, CarriesItsOwnStep DEF SeatInv, RoleInv
<1>3. IInv /\ RoleInv /\ SeatInv => SeatsInv
  BY DEF SeatsInv, RoleInv
<1>4. QED
  BY <1>1, <1>2, <1>3, SessionsAndHolds, RolesAreKept, PTL DEF Spec

\* An account never owns player seats in two rooms at once, however it signs in,
\* loses its connection, reclaims or adopts a seat.
THEOREM OneSeatForEachAccount == Spec => []OneSeatPerAccount
<1>1. ASSUME SeatsInv, NEW a \in Account, NEW r \in SeatsOf(a), NEW q \in SeatsOf(a)
      PROVE  r = q
  <2> USE DEF SeatsInv, SeatInv
  <2>1. PICK c \in Conn : \/ bound[c] = r /\ acct[c] = a
                          \/ lease[c] = [room |-> r, acct |-> a] /\ c \in HoldsOf(a)
    BY <1>1 DEF SeatsOf, HoldsOf, Live
  <2>2. PICK d \in Conn : \/ bound[d] = q /\ acct[d] = a
                          \/ lease[d] = [room |-> q, acct |-> a] /\ d \in HoldsOf(a)
    BY <1>1 DEF SeatsOf, HoldsOf, Live
  <2>3. r # NoRoom /\ q # NoRoom
    BY RoomAssumption DEF SeatsOf
  <2>4. CASE bound[c] = r /\ acct[c] = a
    BY <1>1, <2>2, <2>3, <2>4, OneInARoom DEF BoundOrHeld
  <2>5. CASE bound[d] = q /\ acct[d] = a
    BY <1>1, <2>1, <2>3, <2>5, OneInARoom DEF BoundOrHeld
  <2>6. CASE /\ lease[c] = [room |-> r, acct |-> a] /\ c \in HoldsOf(a)
             /\ lease[d] = [room |-> q, acct |-> a] /\ d \in HoldsOf(a)
    <3>1. c = d
      BY <1>1, <2>6 DEF OneHold
    <3>2. lease[c].room = r /\ lease[d].room = q
      BY <2>6
    <3>3. QED
      BY <3>1, <3>2
  <2>7. QED
    BY <2>1, <2>2, <2>4, <2>5, <2>6
<1>2. SeatsInv => OneSeatPerAccount
  <2>1. SUFFICES ASSUME SeatsInv, NEW a \in Account PROVE Cardinality(SeatsOf(a)) <= 1
    BY DEF OneSeatPerAccount
  <2>2. CASE SeatsOf(a) = {}
    BY <2>2, FS_EmptySet
  <2>3. CASE SeatsOf(a) # {}
    <3>1. PICK r \in SeatsOf(a) : TRUE
      BY <2>3
    <3>2. SeatsOf(a) = {r}
      BY <1>1, <2>1, <3>1
    <3>3. QED
      BY <3>2, FS_Singleton
  <2>4. QED
    BY <2>2, <2>3
<1>3. QED
  BY <1>2, SeatsAreSingle, PTL

(***************************************************************************)
(* The second inductive invariant: who may be released                     *)
(***************************************************************************)
\* Only a hold whose window has ended is on its way to being released.
ExpiresLate ==
  /\ expiring \subseteq due
  /\ \A c \in Conn : pc[c] \in {"expireCall", "expireWait", "restoreLate"} => want[c] \in due

\* A window runs, or has run, only for a session that was suspended.
WindowsAreRetired == \A t \in armed \cup due : Retired(t) /\ bound[t] = NoRoom

\* The spectators of a room can be counted.
WatchersCounted == \A r \in Room : IsFiniteSet(rooms[r].spectators)

WindowInv == ExpiresLate /\ WindowsAreRetired /\ WatchersCounted

\* Places change only when a session enters or leaves a room, loses its own, or
\* is released; everything else the hub does is invisible to them, but for time.
LEMMA PlaceStep ==
  ASSUME [Next]_vars
  PROVE  \/ UNCHANGED <<rooms, bound, due>>
         \/ \E t \in Conn : PassDeadline(t) \/ ReleaseSeat(t)
         \/ \E c \in Conn, r \in Room, kind \in Kinds : CreateRoom(c, r, kind)
         \/ \E c \in Conn : BindAccount(c) \/ DropHold(c) \/ Logout(c)
         \/ \E c \in Conn :
              JoinRoom(c) \/ LeaveRoom(c) \/ DisbandRoom(c) \/ KickMember(c) \/ ResumeRoom(c)
         \/ \E r \in Room : PurgeHolds(r)
<1> USE DEF sessionVars, holdVars, accountVars
<1>1. ASSUME NEW c \in Conn,
             \/ Connect(c) \/ HelloGuest(c) \/ Reclaim(c) \/ BeginLeave(c) \/ BeginDisband(c)
             \/ BeginKick(c) \/ BeginLogout(c) \/ Drop(c)
             \/ \E a \in Account : HelloAccount(c, a) \/ Login(c, a)
             \/ \E r \in Room : BeginJoin(c, r)
      PROVE  UNCHANGED <<rooms, bound, due>>
  BY <1>1 DEF Connect, HelloGuest, Reclaim, BeginLeave, BeginDisband, BeginKick, BeginLogout,
     Drop, HelloAccount, Login, BeginBinding, BeginJoin, Begin
<1>2. ASSUME NEW c \in Conn,
             \/ ChooseToken(c) \/ TakeHold(c) \/ AdoptHold(c) \/ ScreenNavigation(c)
             \/ ReadClock(c) \/ RestoreHold(c) \/ ExpireCall(c) \/ ExpireReturn(c) \/ TimerFire(c)
      PROVE  UNCHANGED <<rooms, bound, due>>
  BY <1>2 DEF ChooseToken, TakeHold, AdoptHold, ScreenNavigation, ReadClock, RestoreHold,
     ExpireCall, ExpireReturn, TimerFire, BeginExpiry
<1>3. ASSUME UNCHANGED vars PROVE UNCHANGED <<rooms, bound, due>>
  BY <1>3 DEF vars
<1>4. QED
  BY <1>1, <1>2, <1>3 DEF Next, ClientStep, SessionStep, ExpiryStep

\* Every step expires late holds only,
LEMMA ExpiresLateStep == TypeInv /\ ExpiresLate /\ [Next]_vars => ExpiresLate'
<1> SUFFICES ASSUME TypeInv, ExpiresLate, [Next]_vars PROVE ExpiresLate'
  OBVIOUS
<1> USE DEF TypeInv, ExpiresLate, sessionVars, holdVars, accountVars
<1>types. pc \in [Conn -> Steps] /\ want \in [Conn -> Conn \cup {NoConn}]
  BY DEF TypeOK
<1>1. due \subseteq due'
  BY HoldStep
<1>2. expiring' \subseteq due'
  <2>1. ASSUME NEW c \in Conn, ClientStep(c) PROVE UNCHANGED expiring
    <3>1. ASSUME NEW a \in Account, HelloAccount(c, a) \/ Login(c, a) PROVE UNCHANGED expiring
      BY <3>1 DEF HelloAccount, Login, BeginBinding
    <3>2. QED
      BY <2>1, <3>1 DEF ClientStep, Connect, HelloGuest, Reclaim, BeginLeave, BeginDisband,
         BeginKick, BeginLogout, Drop, BeginJoin, Begin, CreateRoom
  <2>2. ASSUME NEW c \in Conn, SessionStep(c), ~ExpireCall(c) PROVE UNCHANGED expiring
    <3>1. CASE BindAccount(c) \/ DropHold(c) \/ Logout(c)
      BY <3>1 DEF BindAccount, DropHold, Logout, Hold
    <3>2. CASE \/ ChooseToken(c) \/ TakeHold(c) \/ AdoptHold(c) \/ ScreenNavigation(c)
               \/ ResumeRoom(c) \/ ReadClock(c) \/ RestoreHold(c) \/ ExpireReturn(c)
      BY <3>2 DEF ChooseToken, TakeHold, AdoptHold, ScreenNavigation, ResumeRoom, ReadClock,
         RestoreHold, ExpireReturn
    <3>3. CASE JoinRoom(c) \/ LeaveRoom(c) \/ DisbandRoom(c) \/ KickMember(c)
      BY <3>3 DEF JoinRoom, LeaveRoom, DisbandRoom, KickMember, Commit
    <3>4. QED
      BY <2>2, <3>1, <3>2, <3>3 DEF SessionStep
  <2>3. ASSUME NEW c \in Conn, ExpireCall(c) PROVE expiring' \subseteq due'
    BY <1>1, <2>3 DEF ExpireCall, BeginExpiry
  <2>4. ASSUME NEW t \in Conn, PassDeadline(t) \/ TimerFire(t) \/ ReleaseSeat(t)
        PROVE  expiring' \subseteq due'
    BY <1>1, <2>4 DEF PassDeadline, TimerFire, BeginExpiry, ReleaseSeat
  <2>5. ASSUME NEW r \in Room, PurgeHolds(r) PROVE UNCHANGED expiring
    BY <2>5 DEF PurgeHolds
  <2>6. ASSUME UNCHANGED vars PROVE UNCHANGED expiring
    BY <2>6 DEF vars
  <2>7. QED
    BY <1>1, <2>1, <2>2, <2>3, <2>4, <2>5, <2>6 DEF Next, ExpiryStep
<1>3. ASSUME NEW c \in Conn, pc'[c] \in {"expireCall", "expireWait", "restoreLate"}
      PROVE  want'[c] \in due'
  <2>1. CASE Own(c)' = Own(c)
    BY <1>1, <1>3, <2>1 DEF Own
  <2>2. ~ClientStep(c) \/ Own(c)' = Own(c)
    <3>1. ASSUME NEW a \in Account, HelloAccount(c, a) \/ Login(c, a) PROVE FALSE
      BY <1>3, <1>types, <3>1 DEF HelloAccount, Login, BeginBinding, Goto
    <3>2. ASSUME Connect(c) \/ HelloGuest(c) \/ Reclaim(c) \/ Drop(c) PROVE FALSE
      BY <1>3, <1>types, <3>2 DEF Connect, HelloGuest, Reclaim, Drop, Goto
    <3>3. ASSUME \/ BeginLeave(c) \/ BeginDisband(c) \/ BeginKick(c) \/ BeginLogout(c)
                 \/ \E r \in Room : BeginJoin(c, r)
          PROVE  FALSE
      BY <1>3, <1>types, <3>3 DEF BeginLeave, BeginDisband, BeginKick, BeginLogout, BeginJoin,
         Begin, Goto
    <3>4. ASSUME NEW r \in Room, NEW kind \in Kinds, CreateRoom(c, r, kind)
          PROVE  Own(c)' = Own(c)
      BY <3>4 DEF CreateRoom, Own
    <3>5. QED
      BY <3>1, <3>2, <3>3, <3>4 DEF ClientStep
  <2>3. CASE SessionStep(c)
    <3>1. ASSUME BindAccount(c) \/ ChooseToken(c) \/ AdoptHold(c) \/ ScreenNavigation(c) PROVE FALSE
      BY <1>3, <1>types, <3>1 DEF BindAccount, ChooseToken, AdoptHold, ScreenNavigation, Continue,
         Finish, Goto
    <3>2. ASSUME ResumeRoom(c) \/ ExpireReturn(c) PROVE FALSE
      BY <1>3, <1>types, <3>2 DEF ResumeRoom, ExpireReturn, Continue, Finish, Goto
    <3>3. ASSUME JoinRoom(c) \/ LeaveRoom(c) \/ DisbandRoom(c) \/ KickMember(c) PROVE FALSE
      BY <1>3, <1>types, <3>3 DEF JoinRoom, LeaveRoom, DisbandRoom, KickMember, Commit, Refuse, Finish
    <3>4. ASSUME DropHold(c) \/ Logout(c) PROVE FALSE
      BY <1>3, <1>types, <3>4 DEF DropHold, Logout, Finish, Goto
    <3>5. CASE TakeHold(c)
      BY <1>1, <1>3, <1>types, <3>5 DEF TakeHold, Continue, Finish, Goto
    <3>6. CASE ReadClock(c)
      BY <1>1, <1>3, <1>types, <3>6 DEF ReadClock, Goto
    <3>7. CASE RestoreHold(c)
      BY <1>1, <1>3, <1>types, <3>7 DEF RestoreHold, Continue, Finish, Goto
    <3>8. CASE ExpireCall(c)
      BY <1>1, <1>3, <1>types, <3>8 DEF ExpireCall, Continue, Finish, Goto
    <3>9. QED
      BY <2>3, <3>1, <3>2, <3>3, <3>4, <3>5, <3>6, <3>7, <3>8 DEF SessionStep
  <2>4. QED
    BY <2>1, <2>2, <2>3, OwnStep
<1>4. QED
  BY <1>2, <1>3

\* ... only for sessions that never work again,
LEMMA WindowsAreRetiredStep == IInv /\ IInv' /\ WindowsAreRetired /\ [Next]_vars => WindowsAreRetired'
<1> SUFFICES ASSUME IInv, IInv', WindowsAreRetired, [Next]_vars, NEW t \in armed' \cup due'
             PROVE  Retired(t)' /\ bound'[t] = NoRoom
  BY DEF WindowsAreRetired
<1> USE DEF sessionVars, holdVars, accountVars
<1>0. t \in Conn
  BY DEF IInv, TypeInv, TypeOK
<1>1. CASE t \in armed \cup due
  <2>1. Retired(t) /\ bound[t] = NoRoom
    BY <1>1 DEF WindowsAreRetired
  <2>2. pc[t] = "closed" \/ (pc[t] = "idle" /\ acct[t] \in Account /\ ~Authorised(t))
    BY <2>1, AccountAssumption DEF Retired, Authorised
  <2>3. ~SessionStep(t)
    BY <2>2 DEF SessionStep, BindAccount, ChooseToken, TakeHold, AdoptHold,
       ScreenNavigation, ResumeRoom, ReadClock, RestoreHold, ExpireCall, ExpireReturn, JoinRoom,
       LeaveRoom, DisbandRoom, KickMember, Commit, DropHold, Logout
  <2>4. ClientStep(t) => Drop(t)
    BY <2>2, AccountAssumption DEF ClientStep, Connect, HelloGuest, Reclaim, BeginLeave,
       BeginDisband, BeginKick, BeginLogout, HelloAccount, Login, BeginJoin, Begin, CreateRoom
  <2>5. bound'[t] = NoRoom
    <3>1. ~ \E r \in Room, kind \in Kinds : CreateRoom(t, r, kind)
      BY <2>2 DEF CreateRoom
    <3>2. ~JoinRoom(t) /\ ~ResumeRoom(t)
      BY <2>3 DEF SessionStep
    <3>3. QED
      BY <1>0, <2>1, <3>1, <3>2, GetsARoom DEF IInv
  <2>6. CASE Drop(t)
    BY <1>0, <2>1, <2>5, <2>6 DEF Drop, Goto, Retired, IInv, TypeInv, TypeOK
  <2>7. CASE Own(t)' = Own(t)
    <3>1. pc'[t] = pc[t] /\ acct'[t] = acct[t]
      BY <2>7 DEF Own
    <3>2. CASE pc[t] = "closed"
      BY <2>5, <3>1, <3>2 DEF Retired
    <3>3. CASE pc[t] = "idle" /\ acct[t] \in Account /\ current[acct[t]] # t
      <4>1. current'[acct[t]] # t
        <5>1. SUFFICES ASSUME current'[acct[t]] = t PROVE FALSE
          OBVIOUS
        <5>2. CASE BindAccount(t)
          BY <2>3, <5>2 DEF SessionStep
        <5>3. CASE \E d \in Conn : (Drop(d) \/ DropHold(d) \/ Logout(d)) /\ current[acct[t]] = d
          <6>1. UNCHANGED current \/ \E d \in Conn : ClearCurrent(d)
            BY <5>3 DEF Drop, DropHold, Logout
          <6>2. QED
            BY <1>0, <3>3, <5>1, <6>1, ConnAssumption DEF ClearCurrent
        <5>4. QED
          BY <3>3, <5>1, <5>2, <5>3, CurrentStep DEF IInv
      <4>2. QED
        BY <2>5, <3>1, <3>3, <4>1 DEF Retired
    <3>4. QED
      BY <2>1, <3>2, <3>3 DEF Retired
  <2>8. QED
    BY <1>0, <2>3, <2>4, <2>6, <2>7, OwnStep DEF IInv, TypeInv
<1>2. CASE t \notin armed \cup due
  <2>1. t \in held'
    <3>1. t \in armed' \/ \E d \in Conn : PassDeadline(d) /\ d = t
      <4>1. SUFFICES ASSUME t \in due', t \notin due PROVE \E d \in Conn : PassDeadline(d) /\ d = t
        BY <1>2
      <4>2. \/ \E x \in Conn : PassDeadline(x) \/ ReleaseSeat(x)
            \/ \E c \in Conn, r \in Room, kind \in Kinds : CreateRoom(c, r, kind)
            \/ \E c \in Conn : BindAccount(c) \/ DropHold(c) \/ Logout(c)
            \/ \E c \in Conn :
                 JoinRoom(c) \/ LeaveRoom(c) \/ DisbandRoom(c) \/ KickMember(c) \/ ResumeRoom(c)
            \/ \E r \in Room : PurgeHolds(r)
        BY <4>1, PlaceStep
      <4>3. QED
        BY <4>1, <4>2 DEF PassDeadline, ReleaseSeat, CreateRoom, BindAccount, DropHold, Logout,
           Hold, JoinRoom, LeaveRoom, DisbandRoom, KickMember, Commit, ResumeRoom, PurgeHolds
    <3>2. ~ \E d \in Conn : PassDeadline(d) /\ d = t
      BY <1>2 DEF PassDeadline
    <3>3. PICK d \in Conn : BindAccount(d) \/ DropHold(d) \/ Logout(d)
      <4>1. ASSUME NEW c \in Conn, ClientStep(c) PROVE armed' \subseteq armed
        <5>1. ASSUME NEW a \in Account, HelloAccount(c, a) \/ Login(c, a) PROVE UNCHANGED armed
          BY <5>1 DEF HelloAccount, Login, BeginBinding
        <5>2. QED
          BY <4>1, <5>1 DEF ClientStep, Connect, HelloGuest, Reclaim, BeginLeave, BeginDisband,
             BeginKick, BeginLogout, Drop, BeginJoin, Begin, CreateRoom
      <4>2. ASSUME NEW c \in Conn,
                   \/ ChooseToken(c) \/ TakeHold(c) \/ AdoptHold(c) \/ ScreenNavigation(c)
                   \/ ResumeRoom(c) \/ ReadClock(c) \/ RestoreHold(c) \/ ExpireCall(c)
                   \/ ExpireReturn(c)
            PROVE  armed' \subseteq armed
        BY <4>2 DEF ChooseToken, TakeHold, AdoptHold, ScreenNavigation, ResumeRoom, ReadClock,
           RestoreHold, ExpireCall, ExpireReturn
      <4>3. ASSUME NEW c \in Conn, JoinRoom(c) \/ LeaveRoom(c) \/ DisbandRoom(c) \/ KickMember(c)
            PROVE  armed' \subseteq armed
        BY <4>3 DEF JoinRoom, LeaveRoom, DisbandRoom, KickMember, Commit
      <4>4. ASSUME NEW x \in Conn, PassDeadline(x) \/ ExpiryStep(x) PROVE armed' \subseteq armed
        BY <4>4 DEF PassDeadline, ExpiryStep, TimerFire, ReleaseSeat
      <4>5. ASSUME NEW r \in Room, PurgeHolds(r) PROVE armed' \subseteq armed
        BY <4>5 DEF PurgeHolds
      <4>6. ASSUME UNCHANGED vars PROVE armed' \subseteq armed
        BY <4>6 DEF vars
      <4>7. t \in armed' /\ t \notin armed
        BY <1>2, <3>1, <3>2
      <4>8. QED
        BY <4>1, <4>2, <4>3, <4>4, <4>5, <4>6, <4>7 DEF Next, SessionStep
    <3>4. t \in armed' /\ t \notin armed
      BY <1>2, <3>1, <3>2
    <3>5. QED
      BY <3>3, <3>4 DEF BindAccount, DropHold, Logout, Hold
  <2>2. Suspended(t)'
    BY <2>1 DEF Suspended
  <2>3. Retired(t)'
    BY <1>0, <2>2 DEF IInv, HeldIsRetired
  <2>4. bound'[t] = NoRoom
    BY <2>1 DEF IInv, TokenSpentOnce
  <2>5. QED
    BY <2>3, <2>4
<1>3. QED
  BY <1>1, <1>2

\* ... and each room can count its spectators.
LEMMA WatchersCountedStep == TypeInv /\ WatchersCounted /\ [Next]_vars => WatchersCounted'
<1> SUFFICES ASSUME TypeInv, WatchersCounted, [Next]_vars PROVE WatchersCounted'
  OBVIOUS
<1> DEFINE Counted(rm) == IsFiniteSet(rm.spectators)
<1>1. ASSUME NEW r \in Room, NEW rm, rooms' = [rooms EXCEPT ![r] = rm], Counted(rm)
      PROVE  WatchersCounted'
  BY <1>1 DEF WatchersCounted, TypeInv, TypeOK
<1>same. ASSUME UNCHANGED rooms PROVE WatchersCounted'
  BY <1>same DEF WatchersCounted
<1>2. ASSUME NEW r \in Room, NEW c \in Conn
      PROVE  /\ Counted(Vacate(rooms[r], c)) /\ Counted(TransferHost(Vacate(rooms[r], c)))
             /\ Counted(Watch(rooms[r], c)) /\ Counted(Join(rooms[r], c))
             /\ \A t \in Conn : Counted(Reconnect(rooms[r], t, c))
  <2>1. rooms[r] \in RoomState /\ Vacate(rooms[r], c) \in RoomState
    BY VacateType DEF TypeInv, TypeOK
  <2>2. IsFiniteSet(rooms[r].spectators)
    BY DEF WatchersCounted
  <2>3. /\ IsFiniteSet(rooms[r].spectators \ {c}) /\ IsFiniteSet(rooms[r].spectators \cup {c})
        /\ \A t \in Conn : IsFiniteSet((rooms[r].spectators \ {t}) \cup {c})
    BY <2>2, FS_AddElement, FS_RemoveElement
  <2>4. Vacate(rooms[r], c).spectators = rooms[r].spectators \ {c}
    BY <2>1 DEF Vacate, RoomState
  <2>5. TransferHost(Vacate(rooms[r], c)).spectators = rooms[r].spectators \ {c}
    BY <2>1, <2>4 DEF TransferHost, RoomState
  <2>6. /\ Watch(rooms[r], c).spectators = rooms[r].spectators \cup {c}
        /\ Join(rooms[r], c).spectators = rooms[r].spectators
    BY <2>1 DEF Watch, Join, RoomState
  <2>7. \A t \in Conn : Reconnect(rooms[r], t, c).spectators
           \in {rooms[r].spectators, (rooms[r].spectators \ {t}) \cup {c}}
    BY <2>1 DEF Reconnect, RoomState
  <2>8. QED
    BY <2>2, <2>3, <2>4, <2>5, <2>6, <2>7
<1>3. ASSUME NEW r \in Room, NEW c \in Conn
      PROVE  Counted(Leave(rooms[r], c)) /\ Counted(ExpireDisconnected(rooms[r], c))
  BY <1>2 DEF Leave, ExpireDisconnected
<1>4. ASSUME NEW r \in Room, NEW rm \in RoomState, NEW c, CloseRoom(r, rm, c)
      PROVE  WatchersCounted'
  <2>1. Closed(rm, "closing").spectators = {}
    BY DEF Closed, RoomState
  <2>2. Counted(Closed(rm, "closing"))
    BY <2>1, FS_EmptySet
  <2>3. rooms' = [rooms EXCEPT ![r] = Closed(rm, "closing")]
    BY <1>4 DEF CloseRoom
  <2> HIDE DEF Counted
  <2>4. QED
    BY <1>1, <2>2, <2>3
<1>5. ASSUME NEW c \in Conn, NEW r \in Room, NEW kind \in Kinds, CreateRoom(c, r, kind)
      PROVE  WatchersCounted'
  <2> DEFINE rm == [status |-> "registered", kind |-> kind, spectators |-> {}, host |-> 0,
                    seats |-> [Empty EXCEPT ![0] = c, ![1] = IF kind = "ai" THEN AI ELSE Free]]
  <2>1. Counted(rm)
    BY FS_EmptySet
  <2>2. rooms' = [rooms EXCEPT ![r] = rm]
    BY <1>5 DEF CreateRoom
  <2> HIDE DEF Counted, rm
  <2>3. QED
    BY <1>1, <2>1, <2>2
<1> HIDE DEF Counted
<1>6. ASSUME NEW c \in Conn, JoinRoom(c) PROVE WatchersCounted'
  BY <1>1, <1>2, <1>6, <1>same DEF JoinRoom, Commit, Refuse, TypeInv, TargetsARoom
<1>7. ASSUME NEW c \in Conn, LeaveRoom(c) PROVE WatchersCounted'
  <2>1. target[c] \in Room /\ Leave(rooms[target[c]], c) \in RoomState
    BY <1>7, LeaveType DEF LeaveRoom, Commit, TypeInv, TypeOK, TargetsARoom
  <2>2. QED
    BY <1>1, <1>3, <1>4, <1>7, <1>same, <2>1 DEF LeaveRoom
<1>8. ASSUME NEW c \in Conn, DisbandRoom(c) PROVE WatchersCounted'
  <2>1. target[c] \in Room /\ Vacate(rooms[target[c]], c) \in RoomState
    BY <1>8, VacateType DEF DisbandRoom, Commit, TypeInv, TypeOK, TargetsARoom
  <2>2. QED
    BY <1>4, <1>8, <1>same, <2>1 DEF DisbandRoom
<1>9. ASSUME NEW c \in Conn, KickMember(c) PROVE WatchersCounted'
  BY <1>1, <1>2, <1>9, <1>same DEF KickMember, Commit, Refuse, TypeInv, TargetsARoom
<1>10. ASSUME NEW c \in Conn, ResumeRoom(c) PROVE WatchersCounted'
  BY <1>1, <1>2, <1>10, <1>same
     DEF ResumeRoom, TypeInv, HoldsPointToRooms, WantsAToken, Wanting, Carrying
<1>11. ASSUME NEW t \in Conn, ReleaseSeat(t) PROVE WatchersCounted'
  <2>1. lease[t].room \in Room
    BY <1>11 DEF ReleaseSeat, TypeInv, HoldsPointToRooms
  <2>2. /\ Leave(rooms[lease[t].room], t) \in RoomState
        /\ ExpireDisconnected(rooms[lease[t].room], t) \in RoomState
    BY <2>1, LeaveType DEF TypeInv, TypeOK
  <2>3. QED
    BY <1>1, <1>3, <1>4, <1>11, <1>same, <2>1, <2>2 DEF ReleaseSeat
<1>12. ASSUME NEW r \in Room, PurgeHolds(r) PROVE WatchersCounted'
  <2>1. \A q \in Room : rooms'[q].spectators = rooms[q].spectators
    BY <1>12 DEF PurgeHolds, TypeInv, TypeOK, RoomState
  <2>2. QED
    BY <2>1 DEF WatchersCounted
<1>13. ASSUME NEW c \in Conn, BindAccount(c) \/ DropHold(c) \/ Logout(c) \/ PassDeadline(c)
       PROVE  UNCHANGED rooms
  BY <1>13 DEF BindAccount, DropHold, Logout, PassDeadline
<1>14. QED
  BY <1>5, <1>6, <1>7, <1>8, <1>9, <1>10, <1>11, <1>12, <1>13, <1>same, PlaceStep

\* In every behaviour both invariants hold in every state.
LeaseInv == IInv /\ RoleInv /\ WindowInv

LEMMA LeasesAreKept == Spec => []LeaseInv
<1>1. Init => WindowInv
  <2>1. Init => WatchersCounted
    <3>1. Init => \A r \in Room : rooms[r].spectators = {}
      BY DEF Init
    <3>2. QED
      BY <3>1, FS_EmptySet DEF WatchersCounted
  <2>2. Init => ExpiresLate /\ WindowsAreRetired
    BY DEF Init, ExpiresLate, WindowsAreRetired
  <2>3. QED
    BY <2>1, <2>2 DEF WindowInv
<1>2. IInv /\ IInv' /\ WindowInv /\ [Next]_vars => WindowInv'
  BY ExpiresLateStep, WindowsAreRetiredStep, WatchersCountedStep DEF WindowInv, IInv
<1>3. LeaseInv <=> IInv /\ RoleInv /\ WindowInv
  BY DEF LeaseInv
<1>4. QED
  BY <1>1, <1>2, <1>3, SessionsAndHolds, RolesAreKept, PTL DEF Spec

(***************************************************************************)
(* The place of a session in one room                                      *)
(***************************************************************************)
PlaceIn(rm, c) ==
  IF rm.status # "registered" THEN "out"
  ELSE IF Seated(rm, c) THEN "player"
  ELSE IF c \in rm.spectators THEN "spectator" ELSE "out"

\* Members have a place, and nobody else.
LEMMA MembersArePlaced ==
  ASSUME NEW rm, NEW c
  PROVE  /\ PlaceIn(rm, c) # "out" <=> rm.status = "registered" /\ Member(rm, c)
         /\ PlaceIn(rm, c) = "player" <=> rm.status = "registered" /\ Seated(rm, c)
         /\ PlaceIn(rm, c) \in {"out", "player", "spectator"}
BY DEF PlaceIn, Member

\* Removing somebody takes that place away and no other.
LEMMA VacatePlaces ==
  ASSUME NEW rm \in RoomState, NEW c \in Conn, NEW x \in Conn
  PROVE  PlaceIn(Vacate(rm, c), x) = IF x = c THEN "out" ELSE PlaceIn(rm, x)
<1>1. /\ Seated(Vacate(rm, c), x) <=> x # c /\ Seated(rm, x)
      /\ x \in Vacate(rm, c).spectators <=> x # c /\ x \in rm.spectators
      /\ Vacate(rm, c).status = rm.status
  BY ConnAssumption DEF Vacate, Seated, RoomState, Free
<1>2. QED
  BY <1>1 DEF PlaceIn

\* Passing the host role on moves nobody.
LEMMA TransferHostPlaces ==
  ASSUME NEW rm \in RoomState, NEW x \in Conn
  PROVE  PlaceIn(TransferHost(rm), x) = PlaceIn(rm, x)
<1>1. /\ TransferHost(rm).seats = rm.seats /\ TransferHost(rm).spectators = rm.spectators
      /\ TransferHost(rm).status = rm.status
  BY DEF TransferHost, RoomState
<1>2. QED
  BY <1>1 DEF PlaceIn, Seated

\* Leaving and expiring take away that one place.
LEMMA LeavePlaces ==
  ASSUME NEW rm \in RoomState, NEW c \in Conn, NEW x \in Conn
  PROVE  /\ PlaceIn(Leave(rm, c), x) = IF x = c THEN "out" ELSE PlaceIn(rm, x)
         /\ PlaceIn(ExpireDisconnected(rm, c), x) = IF x = c THEN "out" ELSE PlaceIn(rm, x)
BY VacateType, VacatePlaces, TransferHostPlaces DEF Leave, ExpireDisconnected

\* A joining session gets a place next to the others.
LEMMA JoinPlaces ==
  ASSUME NEW rm \in RoomState, NEW c \in Conn, rm.status = "registered", ~Member(rm, c),
         NEW x \in Conn
  PROVE  /\ Occupied(rm) # Seat =>
              PlaceIn(Join(rm, c), x) = IF x = c THEN "player" ELSE PlaceIn(rm, x)
         /\ PlaceIn(Watch(rm, c), x) = IF x = c THEN "spectator" ELSE PlaceIn(rm, x)
<1>1. ASSUME Occupied(rm) # Seat
      PROVE  PlaceIn(Join(rm, c), x) = IF x = c THEN "player" ELSE PlaceIn(rm, x)
  <2> DEFINE seat == Lowest(Seat \ Occupied(rm))
  <2>1. seat \in Seat /\ rm.seats[seat] = NoConn
    <3>1. Seat \ Occupied(rm) # {} /\ Seat \ Occupied(rm) \in SUBSET Seat
      BY <1>1 DEF Occupied
    <3>2. seat \in Seat \ Occupied(rm)
      BY <3>1, LowestIsMember
    <3>3. QED
      BY <3>2 DEF Occupied, Free
  <2>2. /\ Join(rm, c).seats = [rm.seats EXCEPT ![seat] = c]
        /\ Join(rm, c).spectators = rm.spectators /\ Join(rm, c).status = rm.status
    BY DEF Join, RoomState
  <2> HIDE DEF seat
  <2>3. Seated(Join(rm, c), x) <=> x = c \/ Seated(rm, x)
    BY <2>1, <2>2, ConnAssumption DEF Seated, RoomState
  <2>4. QED
    BY <2>2, <2>3 DEF PlaceIn
<1>2. PlaceIn(Watch(rm, c), x) = IF x = c THEN "spectator" ELSE PlaceIn(rm, x)
  <2>1. /\ Watch(rm, c).seats = rm.seats /\ Watch(rm, c).status = rm.status
        /\ Watch(rm, c).spectators = rm.spectators \cup {c}
    BY DEF Watch, RoomState
  <2>2. QED
    BY <2>1 DEF PlaceIn, Seated, Member
<1>3. QED
  BY <1>1, <1>2

\* A successor gets the place of the session it replaces.
LEMMA ReconnectPlaces ==
  ASSUME NEW rm \in RoomState, NEW old \in Conn, NEW new \in Conn, old # new,
         ~Member(rm, new), NEW x \in Conn
  PROVE  PlaceIn(Reconnect(rm, old, new), x) =
           IF x = new THEN PlaceIn(rm, old) ELSE IF x = old THEN "out" ELSE PlaceIn(rm, x)
<1>1. /\ \A s \in Seat : Reconnect(rm, old, new).seats[s] =
                           IF rm.seats[s] = old THEN new ELSE rm.seats[s]
      /\ Reconnect(rm, old, new).spectators =
           IF old \in rm.spectators THEN (rm.spectators \ {old}) \cup {new} ELSE rm.spectators
      /\ Reconnect(rm, old, new).status = rm.status
  BY DEF Reconnect, RoomState
<1>2. Seated(Reconnect(rm, old, new), x) <=>
        IF x = new THEN Seated(rm, old) ELSE x # old /\ Seated(rm, x)
  BY <1>1 DEF Seated, Member
<1>3. x \in Reconnect(rm, old, new).spectators <=>
        IF x = new THEN old \in rm.spectators ELSE x # old /\ x \in rm.spectators
  BY <1>1 DEF Member
<1>4. QED
  BY <1>1, <1>2, <1>3 DEF PlaceIn

(***************************************************************************)
(* What a step on one room does to all places                              *)
(***************************************************************************)
\* The place in any room, before and after.
LEMMA PlacesOf ==
  ASSUME NEW r \in Room, NEW c \in Conn
  PROVE  PlaceOf(r, c) = PlaceIn(rooms[r], c) /\ PlaceOf(r, c)' = PlaceIn(rooms'[r], c)
BY DEF PlaceOf, PlaceIn, Registered

LEMMA Placed ==
  ASSUME NEW r \in Room, NEW c \in Conn
  PROVE  PlaceOf(r, c) # "out" <=> Registered(r) /\ Member(rooms[r], c)
BY PlacesOf, MembersArePlaced DEF Registered

\* A step that rewrites one room changes the places in that room only.
LEMMA OtherPlaces ==
  ASSUME TypeOK, NEW r \in Room, NEW rm, rooms' = [rooms EXCEPT ![r] = rm],
         NEW q \in Room, NEW x \in Conn
  PROVE  PlaceOf(q, x)' = IF q = r THEN PlaceIn(rm, x) ELSE PlaceOf(q, x)
BY PlacesOf DEF TypeOK

Role == [r \in Room |-> [c \in Conn |-> PlaceOf(r, c)]]

\* If one place changes, the promise says so.
LEMMA PutsOne ==
  ASSUME NEW r \in Room, NEW c \in Conn, NEW k,
         \A q \in Room, x \in Conn :
           PlaceOf(q, x)' = IF q = r /\ x = c THEN k ELSE PlaceOf(q, x)
  PROVE  Promise!Put(r, c, k)
BY DEF Promise!Put

\* ... and likewise when a successor takes a place over.
LEMMA TakesOver ==
  ASSUME NEW r \in Room, NEW t \in Conn, NEW c \in Conn, t # c,
         \A q \in Room, x \in Conn :
           PlaceOf(q, x)' = IF q = r /\ x = c THEN PlaceOf(r, t)
                            ELSE IF q = r /\ x = t THEN "out" ELSE PlaceOf(q, x),
         PlaceOf(r, t) # "out", t \in AwayMembers, \A q \in Room : PlaceOf(q, c) = "out",
         AwayMembers' = AwayMembers \ {t}, due' = due
  PROVE  Promise!Return(r, t, c)
<1>1. Promise!In(r, t) /\ ~Promise!Placed(c)
  BY DEF Promise!In, Promise!Placed
<1>2. Promise!Forget(t)
  BY DEF Promise!Forget
<1>3. Role' = [Role EXCEPT ![r][t] = "out", ![r][c] = Role[r][t]]
  <2> DEFINE row == [Role[r] EXCEPT ![t] = "out", ![c] = Role[r][t]]
  <2>1. \A x \in Conn : row[x] = PlaceOf(r, x)' /\ DOMAIN row = Conn
    BY DEF Role
  <2>2. row = [x \in Conn |-> PlaceOf(r, x)']
    BY <2>1
  <2>3. Role' = [Role EXCEPT ![r] = [x \in Conn |-> PlaceOf(r, x)']]
    BY DEF Role
  <2>4. QED
    BY <2>2, <2>3
<1>4. QED
  BY <1>1, <1>2, <1>3 DEF Promise!Return, Role

\* A step that changes no place, nobody's presence and no deadline.
LEMMA Unseen ==
  ASSUME UNCHANGED <<rooms, bound, due>>
  PROVE  UNCHANGED Promise!vars
<1>1. \A q \in Room, x \in Conn : PlaceOf(q, x)' = PlaceOf(q, x)
  BY PlacesOf
<1>2. AwayMembers' = AwayMembers
  BY <1>1 DEF AwayMembers
<1>3. QED
  BY <1>1, <1>2 DEF Promise!vars

\* A member is away iff its session is not there: it is suspended.
LEMMA AwayIsSuspended ==
  ASSUME IInv, NEW c \in Conn, NEW r \in Room, PlaceOf(r, c) # "out"
  PROVE  /\ c \in AwayMembers <=> bound[c] = NoRoom
         /\ bound[c] = NoRoom => Suspended(c)
         /\ bound[c] # NoRoom => bound[c] = r
         /\ \A q \in Room : PlaceOf(q, c) # "out" => q = r
BY Placed, MemberBound, OneRoom DEF AwayMembers

\* A working session without a room has no place and is not away.
LEMMA NotPlaced ==
  ASSUME IInv, NEW c \in Conn, ~Suspended(c), bound[c] = NoRoom
  PROVE  c \notin AwayMembers /\ \A r \in Room : PlaceOf(r, c) = "out"
BY Placed, RoomlessIsNoMember DEF AwayMembers

(***************************************************************************)
(* Leaving                                                                 *)
(***************************************************************************)
\* Somebody loses one place and its binding: everybody else is where it was.
LEMMA LosesPlace ==
  ASSUME IInv, NEW r \in Room, NEW x \in Conn, NEW rm,
         PlaceOf(r, x) # "out",
         \A y \in Conn : PlaceIn(rm, y) = IF y = x THEN "out" ELSE PlaceOf(r, y),
         rooms' = [rooms EXCEPT ![r] = rm], bound' = [bound EXCEPT ![x] = NoRoom], due' = due
  PROVE  /\ Promise!Put(r, x, "out")
         /\ AwayMembers' = AwayMembers \ {x}
         /\ Promise!Forget(x)
<1> USE DEF IInv, TypeInv, TypeOK
<1>1. \A q \in Room, y \in Conn :
        PlaceOf(q, y)' = IF q = r /\ y = x THEN "out" ELSE PlaceOf(q, y)
  BY OtherPlaces
<1>2. Promise!Put(r, x, "out")
  BY <1>1, PutsOne
<1>3. \A q \in Room : PlaceOf(q, x)' = "out"
  BY <1>1, AwayIsSuspended
<1>4. AwayMembers' = AwayMembers \ {x}
  BY <1>1, <1>3 DEF AwayMembers
<1>5. Promise!Forget(x)
  BY <1>4 DEF Promise!Forget
<1>6. QED
  BY <1>2, <1>4, <1>5

\* A room closes by the departure of x, who is there or whose time is over.
LEMMA ClosesRoom ==
  ASSUME IInv, NEW r \in Room, NEW x \in Conn, NEW rm \in RoomState,
         PlaceOf(r, x) # "out", bound[x] = NoRoom => x \in due,
         \A y \in Conn : Member(rm, y) <=> y # x /\ Member(rooms[r], y),
         CloseRoom(r, rm, x), due' = due
  PROVE  Promise!Close(r)
<1> USE DEF IInv, TypeInv, TypeOK
<1>1. Closed(rm, "closing").status = "closing"
  BY DEF Closed, RoomState
<1>2. \A q \in Room, y \in Conn : PlaceOf(q, y)' = IF q = r THEN "out" ELSE PlaceOf(q, y)
  <2>1. PICK z : z = Closed(rm, "closing")
    OBVIOUS
  <2>2. \A y \in Conn : PlaceIn(z, y) = "out"
    BY <1>1, <2>1 DEF PlaceIn
  <2>3. rooms' = [rooms EXCEPT ![r] = z]
    BY <2>1 DEF CloseRoom
  <2>4. ASSUME NEW q \in Room, NEW y \in Conn
        PROVE  PlaceOf(q, y)' = IF q = r THEN PlaceIn(z, y) ELSE PlaceOf(q, y)
    BY <2>3, OtherPlaces
  <2>5. QED
    BY <2>2, <2>4
<1>3. \A y \in Conn : bound'[y] = IF y = x \/ Member(rm, y) THEN NoRoom ELSE bound[y]
  BY DEF CloseRoom
<1>4. \A y \in Conn : Registered(r) /\ (Member(rooms[r], y) <=> PlaceOf(r, y) # "out")
  BY Placed
<1>5. \A y \in Conn : y \in AwayMembers' <=> y \in AwayMembers /\ PlaceOf(r, y) = "out"
  <2>1. ASSUME NEW y \in Conn, PlaceOf(r, y) # "out" PROVE y \notin AwayMembers'
    BY <1>2, <2>1, AwayIsSuspended DEF AwayMembers
  <2>2. ASSUME NEW y \in Conn, PlaceOf(r, y) = "out" PROVE y \in AwayMembers' <=> y \in AwayMembers
    <3>1. bound'[y] = bound[y]
      BY <1>3, <1>4, <2>2
    <3>2. QED
      BY <1>2, <2>2, <3>1 DEF AwayMembers
  <2>3. QED
    BY <2>1, <2>2
<1>6. x \in AwayMembers => x \in due
  BY DEF AwayMembers
<1>7. AwayMembers' = {y \in AwayMembers : PlaceOf(r, y) = "out"}
  BY <1>5 DEF AwayMembers
<1>8. \E c \in Conn : Promise!In(r, c) /\ (c \in AwayMembers => c \in AwayMembers \cap due)
  BY <1>6 DEF Promise!In
<1>9. \A c \in Conn : Role'[r][c] = "out"
  BY <1>2 DEF Role
<1>10. Role' = [Role EXCEPT ![r] = [c \in Conn |-> "out"]]
  BY <1>2 DEF Role
<1>11. /\ AwayMembers' = {c \in AwayMembers : ~Promise!In(r, c)}
       /\ (AwayMembers \cap due)' = {c \in AwayMembers \cap due : ~Promise!In(r, c)}
  BY <1>7 DEF Promise!In, AwayMembers
<1>12. QED
  BY <1>8, <1>9, <1>10, <1>11 DEF Promise!Close, Role

\* A hold left behind for a member makes it away, within its window.
LEMMA BecomesAway ==
  ASSUME LeaseInv, NEW d \in Conn, NEW t \in Conn, Leaves(d, t), UNCHANGED <<rooms, due>>
  PROVE  Promise!Next
<1> USE DEF LeaseInv, IInv, TypeInv, TypeOK, WindowInv
<1> DEFINE r == target[d]
<1>1. /\ r \in Room /\ ~Suspended(t) /\ bound[t] = r /\ bound'[t] = NoRoom
      /\ bound' = [bound EXCEPT ![t] = NoRoom]
  BY LeftByAMember DEF Leaves, Hold
<1>2. PlaceOf(r, t) # "out"
  BY <1>1, Placed DEF Leaves
<1>3. \A q \in Room, x \in Conn : PlaceOf(q, x)' = PlaceOf(q, x)
  BY PlacesOf
<1> HIDE DEF r
<1>4. t \notin AwayMembers /\ t \notin due
  <2>1. t \notin AwayMembers
    BY <1>1, RoomAssumption DEF AwayMembers
  <2>2. t \notin due
    BY <1>1, RoomAssumption DEF WindowsAreRetired
  <2>3. QED
    BY <2>1, <2>2
<1>5. AwayMembers' = AwayMembers \cup {t}
  BY <1>1, <1>2, <1>3 DEF AwayMembers
<1>6. UNCHANGED Role
  BY <1>3 DEF Role
<1>7. Promise!Lose(t)
  BY <1>4, <1>5, <1>6 DEF Promise!Lose, Role
<1>8. Promise!In(r, t)
  BY <1>1, <1>2 DEF Promise!In
<1>9. Promise!Depart(t)
  BY <1>1, <1>7, <1>8 DEF Promise!Depart
<1>10. QED
  BY <1>4, <1>9 DEF Promise!Next

\* Losing a connection, signing out and moving the account are such steps, or
\* the session had no place any more.
LEMMA HoldsKeepPromise ==
  ASSUME LeaseInv, NEW c \in Conn, BindAccount(c) \/ DropHold(c) \/ Logout(c)
  PROVE  Promise!Next \/ UNCHANGED Promise!vars
<1> USE DEF LeaseInv, IInv, TypeInv, TypeOK, holdVars
<1>1. UNCHANGED rooms
  BY DEF BindAccount, DropHold, Logout
<1>2. ASSUME NEW s \in Conn, NEW r \in Room, target[c] = r, Hold(s, r), bound[s] \in {r, NoRoom},
             \/ pc[c] \in Binding /\ s = current[acct[c]]
             \/ pc[c] \in {"dropping", "signingOut"} /\ s = c
      PROVE  Promise!Next \/ UNCHANGED Promise!vars
  <2>1. UNCHANGED due
    BY <1>2 DEF Hold
  <2>2. CASE Registered(r) /\ Member(rooms[r], s)
    <3>1. Leaves(c, s)
      BY <1>2, <2>2 DEF Leaves
    <3>2. QED
      BY <1>1, <2>1, <3>1, BecomesAway
  <2>3. CASE ~(Registered(r) /\ Member(rooms[r], s))
    <3>1. bound[s] = NoRoom
      BY <1>2, <2>3, RoomAssumption DEF BoundIsMember
    <3>2. UNCHANGED bound
      BY <1>2, <3>1 DEF Hold
    <3>3. QED
      BY <1>1, <2>1, <3>2, Unseen
  <2>4. QED
    BY <2>2, <2>3
<1>3. CASE UNCHANGED bound /\ UNCHANGED due
  BY <1>1, <1>3, Unseen
<1>4. CASE BindAccount(c) /\ target[c] # NoRoom
  <2>1. /\ pc[c] \in Binding /\ current[acct[c]] \in Conn \ {c} /\ target[c] \in Room
        /\ Hold(current[acct[c]], target[c])
    BY <1>4 DEF BindAccount, Binding, AccountLocked
  <2>2. bound[current[acct[c]]] \in {target[c], NoRoom}
    BY <2>1 DEF BoundWhereExpected
  <2>3. QED
    BY <1>2, <2>1, <2>2
<1>5. CASE DropHold(c)
  <2>1. pc[c] = "dropping" /\ target[c] \in Room /\ Hold(c, target[c])
    BY <1>5 DEF DropHold, TargetsARoom
  <2>2. bound[c] \in {target[c], NoRoom}
    BY <2>1 DEF BoundWhereExpected, Leaving
  <2>3. QED
    BY <1>2, <2>1, <2>2
<1>6. CASE Logout(c) /\ target[c] # NoRoom
  <2>1. pc[c] = "signingOut" /\ target[c] \in Room /\ Hold(c, target[c])
    BY <1>6 DEF Logout
  <2>2. bound[c] \in {target[c], NoRoom}
    BY <2>1 DEF BoundWhereExpected, Leaving
  <2>3. QED
    BY <1>2, <2>1, <2>2
<1>7. CASE (BindAccount(c) \/ Logout(c)) /\ target[c] = NoRoom
  BY <1>3, <1>7 DEF BindAccount, Logout
<1>8. QED
  BY <1>4, <1>5, <1>6, <1>7

\* Leaving is quitting, or closes the room.
LEMMA LeaveKeepsPromise ==
  ASSUME LeaseInv, NEW c \in Conn, LeaveRoom(c)
  PROVE  Promise!Next \/ UNCHANGED Promise!vars
<1> USE DEF LeaseInv, IInv, TypeInv, TypeOK
<1> DEFINE r == target[c]  left == Leave(rooms[r], c)
<1>1. /\ r \in Room /\ rooms[r] \in RoomState /\ UNCHANGED due
      /\ pc[c] = "leaving" /\ ~Suspended(c)
  BY ActiveNotSuspended DEF TargetsARoom, LeaveRoom, Commit
<1>2. CASE ~Registered(r) \/ ~Member(rooms[r], c)
  BY <1>1, <1>2, Unseen DEF LeaveRoom
<1>3. CASE Registered(r) /\ Member(rooms[r], c)
  <2>1. PlaceOf(r, c) # "out" /\ bound[c] # NoRoom /\ c \notin AwayMembers
    BY <1>1, <1>3, Placed, AwayIsSuspended
  <2>2. left \in RoomState
    BY <1>1, LeaveType
  <2>3. /\ \A y \in Conn : PlaceIn(left, y) = IF y = c THEN "out" ELSE PlaceOf(r, y)
        /\ \A y \in Conn : Member(left, y) <=> y # c /\ Member(rooms[r], y)
    BY <1>1, LeavePlaces, LeaveMembers, PlacesOf
  <2>4. \/ rooms' = [rooms EXCEPT ![r] = left] /\ bound' = [bound EXCEPT ![c] = NoRoom]
        \/ CloseRoom(r, left, c)
    BY <1>3 DEF LeaveRoom
  <2> HIDE DEF r, left
  <2>5. CASE CloseRoom(r, left, c)
    <3>1. Promise!Close(r)
      BY <1>1, <2>1, <2>2, <2>3, <2>5, ClosesRoom
    <3>2. QED
      BY <1>1, <3>1 DEF Promise!Next
  <2>6. CASE rooms' = [rooms EXCEPT ![r] = left] /\ bound' = [bound EXCEPT ![c] = NoRoom]
    <3>1. Promise!Put(r, c, "out") /\ AwayMembers' = AwayMembers \ {c} /\ Promise!Forget(c)
      BY <1>1, <2>1, <2>3, <2>6, LosesPlace
    <3>2. Promise!Quit(r, c)
      BY <2>1, <3>1 DEF Promise!Quit, Promise!Forget
    <3>3. Promise!In(r, c)
      BY <1>1, <2>1 DEF Promise!In
    <3>4. Promise!Depart(c)
      BY <1>1, <3>2, <3>3 DEF Promise!Depart
    <3>5. QED
      BY <2>1, <3>4 DEF Promise!Next
  <2>7. QED
    BY <2>4, <2>5, <2>6
<1>4. QED
  BY <1>2, <1>3

\* Disbanding closes the room.
LEMMA DisbandKeepsPromise ==
  ASSUME LeaseInv, NEW c \in Conn, DisbandRoom(c)
  PROVE  Promise!Next \/ UNCHANGED Promise!vars
<1> USE DEF LeaseInv, IInv, TypeInv, TypeOK
<1> DEFINE r == target[c]  left == Vacate(rooms[r], c)
<1>1. /\ r \in Room /\ rooms[r] \in RoomState /\ UNCHANGED due
      /\ pc[c] = "disbanding" /\ ~Suspended(c)
  BY ActiveNotSuspended DEF TargetsARoom, DisbandRoom, Commit
<1>2. CASE ~(Registered(r) /\ IsHost(rooms[r], c))
  BY <1>1, <1>2, Unseen DEF DisbandRoom
<1>3. CASE Registered(r) /\ IsHost(rooms[r], c)
  <2>1. PlaceOf(r, c) # "out" /\ bound[c] # NoRoom
    BY <1>1, <1>3, Placed, AwayIsSuspended DEF IsHost, Member, Seated
  <2>2. left \in RoomState /\ CloseRoom(r, left, c)
    BY <1>1, <1>3, VacateType DEF DisbandRoom
  <2>3. \A y \in Conn : Member(left, y) <=> y # c /\ Member(rooms[r], y)
    BY <1>1, VacateMembers
  <2> HIDE DEF r, left
  <2>4. Promise!Close(r)
    BY <1>1, <2>1, <2>2, <2>3, ClosesRoom
  <2>5. QED
    BY <1>1, <2>4 DEF Promise!Next
<1>4. QED
  BY <1>2, <1>3

\* The host, who is present, removes somebody else.
LEMMA KickKeepsPromise ==
  ASSUME LeaseInv, NEW c \in Conn, KickMember(c)
  PROVE  Promise!Next \/ UNCHANGED Promise!vars
<1> USE DEF LeaseInv, IInv, TypeInv, TypeOK
<1> DEFINE r == target[c]
<1>1. /\ r \in Room /\ rooms[r] \in RoomState /\ UNCHANGED due
      /\ pc[c] = "kicking" /\ ~Suspended(c)
  BY ActiveNotSuspended DEF TargetsARoom, KickMember, Commit
<1>2. CASE UNCHANGED <<rooms, bound>>
  BY <1>1, <1>2, Unseen
<1>3. CASE ~UNCHANGED <<rooms, bound>>
  <2>1. PICK d \in Conn \ {c} : /\ Registered(r) /\ IsHost(rooms[r], c) /\ Member(rooms[r], d)
                                /\ rooms' = [rooms EXCEPT ![r] = Vacate(rooms[r], d)]
                                /\ bound' = [bound EXCEPT ![d] = NoRoom]
    BY <1>3 DEF KickMember, Refuse
  <2> DEFINE left == Vacate(rooms[r], d)
  <2>2. PlaceOf(r, c) = "player" /\ PlaceOf(r, d) # "out"
    BY <1>1, <2>1, Placed, PlacesOf, MembersArePlaced DEF IsHost, Seated, Registered
  <2>3. c \notin AwayMembers
    BY <1>1, <2>2, AwayIsSuspended
  <2>4. \A y \in Conn : PlaceIn(left, y) = IF y = d THEN "out" ELSE PlaceOf(r, y)
    BY <1>1, VacatePlaces, PlacesOf
  <2>5. rooms' = [rooms EXCEPT ![r] = left]
    BY <2>1
  <2> HIDE DEF r, left
  <2>6. Promise!Put(r, d, "out") /\ Promise!Forget(d)
    BY <1>1, <2>1, <2>2, <2>4, <2>5, LosesPlace
  <2>7. Promise!In(r, c) /\ Promise!Expel(r, c, d)
    BY <1>1, <2>1, <2>2, <2>6 DEF Promise!In, Promise!Expel
  <2>8. Promise!Depart(c)
    BY <1>1, <2>1, <2>7 DEF Promise!Depart
  <2>9. QED
    BY <2>3, <2>8 DEF Promise!Next
<1>4. QED
  BY <1>2, <1>3

\* Only a place whose window has ended is released; it may take the room along.
LEMMA ReleaseKeepsPromise ==
  ASSUME LeaseInv, NEW t \in Conn, ReleaseSeat(t)
  PROVE  Promise!Next \/ UNCHANGED Promise!vars
<1> USE DEF LeaseInv, IInv, TypeInv, TypeOK
<1> DEFINE r == lease[t].room
           left == IF rooms[r].kind = "engine" /\ rooms[r].seats[0] = t
                   THEN Leave(rooms[r], t) ELSE ExpireDisconnected(rooms[r], t)
<1>1. /\ r \in Room /\ rooms[r] \in RoomState /\ t \in expiring /\ UNCHANGED due
      /\ t \in due /\ Suspended(t) /\ bound[t] = NoRoom
  BY SuspendedIsUnbound DEF HoldsPointToRooms, ReleaseSeat, WindowInv, ExpiresLate, Suspended
<1>2. CASE ~Registered(r) \/ ~Member(rooms[r], t)
  BY <1>1, <1>2, Unseen DEF ReleaseSeat
<1>3. CASE Registered(r) /\ Member(rooms[r], t)
  <2>1. PlaceOf(r, t) # "out"
    BY <1>1, <1>3, Placed
  <2>0. t \in AwayMembers
    BY <1>1, <2>1, AwayIsSuspended
  <2>2. left \in RoomState
    BY <1>1, LeaveType
  <2>3. /\ \A y \in Conn : PlaceIn(left, y) = IF y = t THEN "out" ELSE PlaceOf(r, y)
        /\ \A y \in Conn : Member(left, y) <=> y # t /\ Member(rooms[r], y)
    BY <1>1, LeavePlaces, LeaveMembers, PlacesOf
  <2>4. bound = [bound EXCEPT ![t] = NoRoom]
    BY <1>1
  <2>5. \/ rooms' = [rooms EXCEPT ![r] = left] /\ bound' = [bound EXCEPT ![t] = NoRoom]
        \/ CloseRoom(r, left, t)
    BY <1>3, <2>4 DEF ReleaseSeat
  <2> HIDE DEF r, left
  <2>6. CASE CloseRoom(r, left, t)
    <3>1. Promise!Close(r)
      BY <1>1, <2>1, <2>2, <2>3, <2>6, ClosesRoom
    <3>2. QED
      BY <1>1, <3>1 DEF Promise!Next
  <2>7. CASE rooms' = [rooms EXCEPT ![r] = left] /\ bound' = [bound EXCEPT ![t] = NoRoom]
    <3>1. Promise!Put(r, t, "out") /\ Promise!Forget(t)
      BY <1>1, <2>1, <2>3, <2>7, LosesPlace
    <3>2. Promise!Vacate(r, t)
      BY <1>1, <2>0, <2>1, <3>1 DEF Promise!Vacate, Promise!In
    <3>3. Promise!Reserved(t)
      BY <1>1, <3>2 DEF Promise!Reserved
    <3>4. QED
      BY <2>0, <3>3 DEF Promise!Next
  <2>8. QED
    BY <2>5, <2>6, <2>7
<1>4. QED
  BY <1>2, <1>3

(***************************************************************************)
(* Entering                                                                *)
(***************************************************************************)
\* Somebody without a place gets one, in a room that exists or is opened.
LEMMA GetsPlace ==
  ASSUME LeaseInv, NEW r \in Room, NEW c \in Conn, NEW rm, NEW k,
         ~Suspended(c), bound[c] = NoRoom,
         \A y \in Conn : PlaceIn(rm, y) = IF y = c THEN k ELSE PlaceOf(r, y),
         rooms' = [rooms EXCEPT ![r] = rm], bound' = [bound EXCEPT ![c] = r], due' = due
  PROVE  /\ Promise!Put(r, c, k)
         /\ AwayMembers' = AwayMembers /\ c \notin AwayMembers
         /\ ~Promise!Placed(c)
<1> USE RoomAssumption DEF LeaseInv, IInv, TypeInv, TypeOK
<1>1. \A q \in Room, y \in Conn : PlaceOf(q, y)' = IF q = r /\ y = c THEN k ELSE PlaceOf(q, y)
  BY OtherPlaces
<1>2. Promise!Put(r, c, k)
  BY <1>1, PutsOne
<1>3. c \notin AwayMembers /\ \A q \in Room : PlaceOf(q, c) = "out"
  BY NotPlaced
<1>4. ~Promise!Placed(c)
  BY <1>3 DEF Promise!Placed, Promise!In
<1>5. AwayMembers' = AwayMembers
  <2>1. bound'[c] # NoRoom /\ \A y \in Conn \ {c} : bound'[y] = bound[y]
    OBVIOUS
  <2>2. \A y \in Conn : y \in AwayMembers' <=> y \in AwayMembers
    BY <1>1, <1>3, <2>1 DEF AwayMembers
  <2>3. QED
    BY <2>2 DEF AwayMembers
<1>6. QED
  BY <1>2, <1>3, <1>4, <1>5

\* The creator opens an empty room.
LEMMA CreateKeepsPromise ==
  ASSUME LeaseInv, NEW c \in Conn, NEW r \in Room, NEW kind \in Kinds, CreateRoom(c, r, kind)
  PROVE  Promise!Next
<1> DEFINE rm == [status |-> "registered", kind |-> kind, spectators |-> {}, host |-> 0,
                  seats |-> [Empty EXCEPT ![0] = c, ![1] = IF kind = "ai" THEN AI ELSE Free]]
<1>1. 0 \in Seat /\ 1 \in Seat /\ 0 # 1
  BY SeatAssumption DEF Seat
<1>2. ~Suspended(c) /\ bound[c] = NoRoom
  BY ActiveNotSuspended DEF CreateRoom, Authorised, MayEnter, LeaseInv
<1>3. \A y \in Conn : PlaceOf(r, y) = "out"
  BY DEF CreateRoom, PlaceOf, Registered
<1>4. \A y \in Conn : PlaceIn(rm, y) = IF y = c THEN "player" ELSE PlaceOf(r, y)
  <2>1. Empty \in [Seat -> {Free}]
    BY DEF Empty
  <2>2. /\ rm.spectators = {} /\ rm.seats[0] = c /\ rm.status = "registered"
        /\ \A s \in Seat \ {0} : rm.seats[s] \in {AI, Free}
    BY <1>1, <2>1
  <2>3. \A y \in Conn : Seated(rm, y) <=> y = c
    BY <1>1, <2>2, ConnAssumption DEF Seated, Free
  <2> HIDE DEF rm
  <2>4. QED
    BY <1>3, <2>2, <2>3 DEF PlaceIn
<1>5. /\ rooms' = [rooms EXCEPT ![r] = rm] /\ bound' = [bound EXCEPT ![c] = r]
      /\ UNCHANGED due
  BY DEF CreateRoom, holdVars
<1> HIDE DEF rm
<1>6. /\ Promise!Put(r, c, "player")
      /\ AwayMembers' = AwayMembers /\ c \notin AwayMembers /\ ~Promise!Placed(c)
  BY <1>2, <1>4, <1>5, GetsPlace
<1>7. Promise!Open(r, c)
  BY <1>3, <1>5, <1>6 DEF Promise!Open, Promise!In
<1>8. Promise!Arrive(c)
  BY <1>6, <1>7 DEF Promise!Arrive
<1>9. QED
  BY <1>6, <1>8 DEF Promise!Next

\* SeatLease counts as this module does.
LEMMA SameCount ==
  ASSUME NEW S
  PROVE  Promise!Cardinality(S) = Cardinality(S)
BY Zenon DEF Promise!Cardinality, Cardinality

\* A room with a free seat has fewer players than seats.
LEMMA SeatsSuffice ==
  ASSUME NEW rm \in RoomState, Occupied(rm) # Seat
  PROVE  Cardinality({y \in Conn : Seated(rm, y)}) < MaxSeats
<1> DEFINE players == {y \in Conn : Seated(rm, y)}
           f == [s \in Humans(rm) |-> rm.seats[s]]
<1>1. IsFiniteSet(Seat) /\ Cardinality(Seat) = MaxSeats
  <2>1. MaxSeats - 1 \in Int /\ 0 \in Int /\ ~(0 > MaxSeats - 1)
    BY SeatAssumption
  <2>2. QED
    BY <2>1, FS_Interval, SeatAssumption DEF Seat
<1>2. Humans(rm) \subseteq Seat /\ Humans(rm) # Seat
  BY ConnAssumption DEF Humans, Occupied, Free
<1>3. IsFiniteSet(Humans(rm)) /\ Cardinality(Humans(rm)) < MaxSeats
  <2>1. /\ IsFiniteSet(Humans(rm)) /\ Cardinality(Humans(rm)) <= MaxSeats
        /\ Cardinality(Humans(rm)) # MaxSeats
    BY <1>1, <1>2, FS_Subset
  <2>2. QED
    BY <2>1, FS_CardinalityType, SeatAssumption
<1>4. f \in Surjection(Humans(rm), players)
  BY DEF Surjection, Humans, Seated
<1> HIDE DEF f, players
<1>5. IsFiniteSet(players) /\ Cardinality(players) <= Cardinality(Humans(rm))
  BY <1>3, <1>4, FS_Surjection
<1>6. QED
  BY <1>3, <1>5, FS_CardinalityType, SeatAssumption DEF players

\* A joining session enters a room that has space for it.
LEMMA JoinKeepsPromise ==
  ASSUME LeaseInv, NEW c \in Conn, JoinRoom(c)
  PROVE  Promise!Next \/ UNCHANGED Promise!vars
<1> USE DEF LeaseInv, IInv, TypeInv, TypeOK
<1> DEFINE r == target[c]
<1>1. /\ r \in Room /\ rooms[r] \in RoomState /\ UNCHANGED due
      /\ ~Suspended(c) /\ bound[c] = NoRoom
  BY ActiveNotSuspended DEF TargetsARoom, JoinRoom, Commit, BoundWhereExpected, Roomless
<1>2. CASE UNCHANGED <<rooms, bound>>
  BY <1>1, <1>2, Unseen
<1>3. CASE ~UNCHANGED <<rooms, bound>>
  <2>1. Registered(r) /\ ~Member(rooms[r], c) /\ bound' = [bound EXCEPT ![c] = r]
    BY <1>3 DEF JoinRoom, Refuse
  <2>2. \/ Occupied(rooms[r]) # Seat /\ rooms' = [rooms EXCEPT ![r] = Join(rooms[r], c)]
        \/ /\ Cardinality(rooms[r].spectators) < MaxSpectators
           /\ rooms' = [rooms EXCEPT ![r] = Watch(rooms[r], c)]
    BY <1>3 DEF JoinRoom, Refuse
  <2>3. PICK d \in Conn : Promise!In(r, d)
    <3>1. PICK d \in Conn : Member(rooms[r], d)
      BY <1>1, <2>1 DEF RoleInv, RoomsWellKept, WellKept, Inhabited
    <3>2. PlaceOf(r, d) # "out"
      BY <1>1, <2>1, <3>1, Placed
    <3>3. QED
      BY <1>1, <3>2 DEF Promise!In
  <2>4. ASSUME NEW rm, NEW k \in {"player", "spectator"}, rooms' = [rooms EXCEPT ![r] = rm],
               \A y \in Conn : PlaceIn(rm, y) = IF y = c THEN k ELSE PlaceIn(rooms[r], y),
               Promise!Fits(r, k)
        PROVE  Promise!Next
    <3> HIDE DEF r
    <3>1. \A y \in Conn : PlaceIn(rm, y) = IF y = c THEN k ELSE PlaceOf(r, y)
      BY <1>1, <2>4, PlacesOf
    <3>2. /\ Promise!Put(r, c, k)
          /\ AwayMembers' = AwayMembers /\ c \notin AwayMembers /\ ~Promise!Placed(c)
      BY <1>1, <2>1, <2>4, <3>1, GetsPlace
    <3>3. Promise!Enter(r, c, k)
      BY <1>1, <2>3, <2>4, <3>2 DEF Promise!Enter
    <3>4. Promise!Arrive(c)
      BY <1>1, <2>4, <3>2, <3>3 DEF Promise!Arrive, Promise!Roles
    <3>5. QED
      BY <3>2, <3>4 DEF Promise!Next
  <2>5. \A k : Promise!Having(r, k) = {y \in Conn : PlaceOf(r, y) = k}
    BY <1>1 DEF Promise!Having
  <2>6. ASSUME Occupied(rooms[r]) # Seat PROVE Promise!Fits(r, "player")
    <3>1. Promise!Having(r, "player") = {y \in Conn : Seated(rooms[r], y)}
      BY <1>1, <2>1, <2>5, PlacesOf, MembersArePlaced DEF Registered
    <3>2. QED
      BY <1>1, <2>6, <3>1, SeatsSuffice, SameCount DEF Promise!Fits
  <2>7. ASSUME Cardinality(rooms[r].spectators) < MaxSpectators PROVE Promise!Fits(r, "spectator")
    <3>1. Promise!Having(r, "spectator") \subseteq rooms[r].spectators
      BY <1>1, <2>5, PlacesOf DEF PlaceIn
    <3>2. IsFiniteSet(rooms[r].spectators)
      BY <1>1 DEF WindowInv, WatchersCounted
    <3>3. /\ Cardinality(Promise!Having(r, "spectator")) \in Nat
          /\ Cardinality(rooms[r].spectators) \in Nat
          /\ Cardinality(Promise!Having(r, "spectator")) <= Cardinality(rooms[r].spectators)
      BY <3>1, <3>2, FS_Subset, FS_CardinalityType
    <3>4. QED
      BY <2>7, <3>3, SameCount, SeatAssumption DEF Promise!Fits
  <2>8. /\ \A y \in Conn : PlaceIn(Watch(rooms[r], c), y) =
                             IF y = c THEN "spectator" ELSE PlaceIn(rooms[r], y)
        /\ Occupied(rooms[r]) # Seat => \A y \in Conn :
             PlaceIn(Join(rooms[r], c), y) = IF y = c THEN "player" ELSE PlaceIn(rooms[r], y)
    BY <1>1, <2>1, JoinPlaces DEF Registered
  <2> HIDE DEF r
  <2>9. QED
    BY <2>2, <2>4, <2>6, <2>7, <2>8
<1>4. QED
  BY <1>2, <1>3

(***************************************************************************)
(* Returning, and the end of a window                                      *)
(***************************************************************************)
\* A successor takes over the place of the session whose token it spent.
LEMMA ResumeKeepsPromise ==
  ASSUME LeaseInv, NEW c \in Conn, ResumeRoom(c)
  PROVE  Promise!Next \/ UNCHANGED Promise!vars
<1> USE DEF LeaseInv, IInv, TypeInv, TypeOK
<1>0. PICK t : t = want[c]
  OBVIOUS
<1> DEFINE r == lease[t].room  rm == Reconnect(rooms[r], t, c)
<1>1. t \in Conn /\ r \in Room /\ rooms[r] \in RoomState /\ Carries(c, t) /\ UNCHANGED due
  BY <1>0 DEF WantsAToken, Wanting, Carrying, HoldsPointToRooms, Carries, ResumeRoom, holdVars
<1>2. ~Suspended(c) /\ bound[c] = NoRoom
  BY ActiveNotSuspended DEF ResumeRoom, BoundWhereExpected, Roomless, Wanting, Carrying
<1>3. bound[t] = NoRoom /\ t # c
  BY <1>1, <1>2, SuspendedIsUnbound DEF Suspended
<1>4. CASE UNCHANGED <<rooms, bound>>
  BY <1>1, <1>4, Unseen
<1>5. CASE ~UNCHANGED <<rooms, bound>>
  <2>1. /\ Registered(r) /\ Member(rooms[r], t)
        /\ rooms' = [rooms EXCEPT ![r] = rm] /\ bound' = [bound EXCEPT ![c] = r]
    BY <1>0, <1>5 DEF ResumeRoom
  <2>2. c \notin AwayMembers /\ \A q \in Room : PlaceOf(q, c) = "out"
    BY <1>2, NotPlaced
  <2>3. ~Member(rooms[r], c)
    BY <1>1, <2>1, <2>2, Placed
  <2>4. \A y \in Conn : PlaceIn(rm, y) = IF y = c THEN PlaceIn(rooms[r], t)
                                         ELSE IF y = t THEN "out" ELSE PlaceIn(rooms[r], y)
    BY <1>1, <1>3, <2>3, ReconnectPlaces
  <2>5. PlaceOf(r, t) # "out" /\ t \in AwayMembers
    BY <1>1, <1>3, <2>1, Placed, AwayIsSuspended
  <2>6. rooms' = [rooms EXCEPT ![r] = rm] /\ bound' = [bound EXCEPT ![c] = r]
    BY <2>1
  <2> HIDE DEF r, rm
  <2>7. ASSUME NEW q \in Room, NEW y \in Conn
        PROVE  PlaceOf(q, y)' = IF q = r /\ y = c THEN PlaceOf(r, t)
                                ELSE IF q = r /\ y = t THEN "out" ELSE PlaceOf(q, y)
    BY <1>1, <2>4, <2>6, OtherPlaces, PlacesOf
  <2>8. AwayMembers' = AwayMembers \ {t}
    <3>0. \A q \in Room : PlaceOf(q, t) # "out" => q = r
      BY <1>1, <2>5, AwayIsSuspended
    <3>1. \A q \in Room : PlaceOf(q, t)' = "out"
      BY <1>1, <1>3, <2>7, <3>0
    <3>2. bound'[c] # NoRoom /\ \A y \in Conn \ {c} : bound'[y] = bound[y]
      BY <1>1, <2>6, RoomAssumption
    <3>3. t \notin AwayMembers' /\ c \notin AwayMembers'
      <4>1. \A y \in AwayMembers' : bound'[y] = NoRoom /\ \E q \in Room : PlaceOf(q, y)' # "out"
        BY DEF AwayMembers
      <4>2. QED
        BY <3>1, <3>2, <4>1
    <3>4. ASSUME NEW y \in Conn \ {c, t} PROVE y \in AwayMembers' <=> y \in AwayMembers
      <4>1. bound'[y] = bound[y] /\ \A q \in Room : PlaceOf(q, y)' = PlaceOf(q, y)
        BY <2>7, <3>2
      <4>2. QED
        BY <4>1 DEF AwayMembers
    <3>5. \A y \in Conn : y \in AwayMembers' <=> y \in AwayMembers \ {t}
      BY <2>2, <3>3, <3>4
    <3>6. QED
      BY <3>5 DEF AwayMembers
  <2>9. Promise!Return(r, t, c)
    BY <1>1, <1>3, <2>2, <2>5, <2>7, <2>8, TakesOver
  <2>10. Promise!Reserved(t)
    BY <1>1, <2>9 DEF Promise!Reserved
  <2>11. QED
    BY <2>5, <2>10 DEF Promise!Next
<1>6. QED
  BY <1>4, <1>5

\* The end of a window is the end of a reservation, if the place is still kept.
LEMMA DeadlineKeepsPromise ==
  ASSUME NEW t \in Conn, PassDeadline(t)
  PROVE  Promise!Next \/ UNCHANGED Promise!vars
<1>1. AwayMembers' = AwayMembers /\ UNCHANGED Role
  <2>1. \A q \in Room, x \in Conn : PlaceOf(q, x)' = PlaceOf(q, x)
    BY PlacesOf DEF PassDeadline
  <2>2. QED
    BY <2>1 DEF AwayMembers, Role, PassDeadline
<1>2. CASE t \in AwayMembers
  <2>1. Promise!Lapse(t)
    BY <1>1, <1>2 DEF Promise!Lapse, PassDeadline, Role
  <2>2. QED
    BY <1>2, <2>1 DEF Promise!Next, Promise!Reserved
<1>3. CASE t \notin AwayMembers
  BY <1>1, <1>3 DEF Promise!vars, PassDeadline, Role
<1>4. QED
  BY <1>2, <1>3

\* Dropping the holds of a room that is gone takes nothing from anybody.
LEMMA PurgeKeepsPromise ==
  ASSUME LeaseInv, NEW r \in Room, PurgeHolds(r)
  PROVE  UNCHANGED Promise!vars
<1> USE DEF LeaseInv, IInv, TypeInv, TypeOK
<1>1. PICK rm : rm = [rooms[r] EXCEPT !.status = "removed"]
  OBVIOUS
<1>2. rooms' = [rooms EXCEPT ![r] = rm] /\ UNCHANGED <<bound, due>>
  BY <1>1 DEF PurgeHolds
<1>3. rm.status = "removed" /\ rooms[r].status = "closing"
  BY <1>1 DEF RoomState, PurgeHolds
<1>4. ASSUME NEW q \in Room, NEW x \in Conn
      PROVE  PlaceOf(q, x)' = PlaceOf(q, x)
  BY <1>2, <1>3, OtherPlaces, PlacesOf DEF PlaceIn
<1>5. AwayMembers' = AwayMembers /\ UNCHANGED Role
  BY <1>2, <1>4 DEF AwayMembers, Role
<1>6. QED
  BY <1>2, <1>5 DEF Promise!vars, Role

\* Nobody has a place in a hub that has just started.
LEMMA StartsEmpty == Init => Promise!Init
<1> SUFFICES ASSUME Init PROVE Promise!Init
  OBVIOUS
<1>1. \A q \in Room, x \in Conn : PlaceOf(q, x) = "out"
  BY DEF Init, PlaceOf, Registered
<1>2. QED
  BY <1>1 DEF Promise!Init, AwayMembers

\* Sessions, holds, tokens, timers and accounts implement the seats a room
\* promises: every step of the hub is a step of SeatLease, or changes nothing
\* that SeatLease speaks about.
THEOREM SeatsArePromised == Spec => KeepsSeatPromise
<1>1. LeaseInv /\ [Next]_vars => [Promise!Next]_(Promise!vars)
  <2>1. SUFFICES ASSUME LeaseInv, [Next]_vars
                 PROVE  Promise!Next \/ UNCHANGED Promise!vars
    OBVIOUS
  <2>2. CASE UNCHANGED <<rooms, bound, due>>
    BY <2>2, Unseen
  <2>3. CASE \E t \in Conn : PassDeadline(t) \/ ReleaseSeat(t)
    BY <2>1, <2>3, DeadlineKeepsPromise, ReleaseKeepsPromise
  <2>4. CASE \E c \in Conn, r \in Room, kind \in Kinds : CreateRoom(c, r, kind)
    BY <2>1, <2>4, CreateKeepsPromise
  <2>5. CASE \E c \in Conn : BindAccount(c) \/ DropHold(c) \/ Logout(c)
    BY <2>1, <2>5, HoldsKeepPromise
  <2>6. CASE \E c \in Conn :
               JoinRoom(c) \/ LeaveRoom(c) \/ DisbandRoom(c) \/ KickMember(c) \/ ResumeRoom(c)
    BY <2>1, <2>6, JoinKeepsPromise, LeaveKeepsPromise, DisbandKeepsPromise, KickKeepsPromise,
       ResumeKeepsPromise
  <2>7. CASE \E r \in Room : PurgeHolds(r)
    BY <2>1, <2>7, PurgeKeepsPromise
  <2>8. QED
    BY <2>1, <2>2, <2>3, <2>4, <2>5, <2>6, <2>7, PlaceStep
<1>2. QED
  BY <1>1, LeasesAreKept, StartsEmpty, PTL DEF Spec, KeepsSeatPromise, Promise!Spec

=============================================================================
