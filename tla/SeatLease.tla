----------------------------- MODULE SeatLease -----------------------------
(***************************************************************************)
(* What a room promises to the people in it, without sessions, locks,      *)
(* tokens or timers.  A person has a place in a room as a player or a      *)
(* spectator.  Losing the connection leaves the place reserved until its   *)
(* window ends; within the window a successor may take it over in the same *)
(* role, and nobody but a player who is present may take it away.          *)
(***************************************************************************)
EXTENDS Naturals, FiniteSets

CONSTANTS Conn, Room,
          Players,     \* most players of a room
          Watchers     \* most spectators of a room

VARIABLES
  role,  \* Room -> Conn -> the place of this connection, or "out"
  away,  \* connections that are gone and whose place is reserved
  late   \* reserved places whose window has ended

vars == <<role, away, late>>

Roles == {"player", "spectator"}

In(r, c)   == role[r][c] # "out"
Placed(c)  == \E r \in Room : In(r, c)
Having(r, k)  == {c \in Conn : role[r][c] = k}
Fits(r, k) == Cardinality(Having(r, k)) < (IF k = "player" THEN Players ELSE Watchers)

\* (The first conjunct follows from the second; it is quick to refute.)
Put(r, c, k) == role'[r][c] = k /\ role' = [role EXCEPT ![r][c] = k]

\* The reservation of t ends.
Forget(t) == away' = away \ {t} /\ late' = late \ {t}

Init ==
  /\ role = [r \in Room |-> [c \in Conn |-> "out"]]
  /\ away = {} /\ late = {}

\* Somebody without a place opens an empty room or enters one that has space.
Open(r, c) ==
  /\ \A d \in Conn : ~In(r, d)
  /\ Put(r, c, "player") /\ UNCHANGED <<away, late>>

Enter(r, c, k) ==
  /\ Fits(r, k) /\ \E d \in Conn : In(r, d)
  /\ Put(r, c, k) /\ UNCHANGED <<away, late>>

Quit(r, c) == Put(r, c, "out") /\ UNCHANGED <<away, late>>

\* The connection is lost; the place stays.
Lose(c) == c \in away' /\ away' = away \cup {c} /\ UNCHANGED <<role, late>>

\* The window of a reserved place ends.
Lapse(t) == t \in away \ late /\ late' = late \cup {t} /\ UNCHANGED <<role, away>>

\* A successor takes the place over, in the same role.
Return(r, t, c) ==
  /\ In(r, t) /\ t \in away /\ ~Placed(c)
  /\ role' = [role EXCEPT ![r][t] = "out", ![r][c] = role[r][t]]
  /\ Forget(t)

\* Only a place whose window has ended is released.
Vacate(r, t) == In(r, t) /\ t \in late /\ Put(r, t, "out") /\ Forget(t)

\* A player who is present may remove somebody else.
Expel(r, host, d) ==
  /\ role[r][host] = "player" /\ d # host /\ In(r, d)
  /\ Put(r, d, "out") /\ Forget(d)

\* A room is closed by the departure of somebody who is there, or by the end
\* of somebody's window: never while everybody is away and may still return.
Close(r) ==
  /\ \E c \in Conn : In(r, c) /\ (c \in away => c \in late)
  /\ \A c \in Conn : role'[r][c] = "out"
  /\ role' = [role EXCEPT ![r] = [c \in Conn |-> "out"]]
  /\ away' = {c \in away : ~In(r, c)}
  /\ late' = {c \in late : ~In(r, c)}

\* What may happen to the reserved place of t.
Reserved(t) ==
  \/ Lapse(t)
  \/ \E r \in Room : Vacate(r, t) \/ \E c \in Conn : Return(r, t, c)

\* What somebody without a place may do.
Arrive(c) ==
  ~Placed(c) /\ \E r \in Room : Open(r, c) \/ \E k \in Roles : Enter(r, c, k)

\* What somebody who is there may do.
Depart(c) ==
  \E r \in Room : In(r, c) /\ (Lose(c) \/ Quit(r, c) \/ \E d \in Conn : Expel(r, c, d))

Next ==
  \/ \E c \in Conn \ away : Arrive(c) \/ Depart(c)
  \/ \E t \in away : Reserved(t)
  \/ \E r \in Room : Close(r)

Spec == Init /\ [][Next]_vars
=============================================================================
