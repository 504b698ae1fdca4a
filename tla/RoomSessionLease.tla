------------------------- MODULE RoomSessionLease --------------------------
(* RoomSession implements SeatLease: the refinement mapping. *)
EXTENDS RoomSession

\* The place of c in room r; a room that left the registry has none.
PlaceOf(r, c) ==
  IF ~Registered(r) THEN "out"
  ELSE IF Seated(rooms[r], c) THEN "player"
  ELSE IF c \in rooms[r].spectators THEN "spectator" ELSE "out"

\* Members without a live session: their place is a hold, wherever it is.
AwayMembers == {c \in Conn : bound[c] = NoRoom /\ \E r \in Room : PlaceOf(r, c) # "out"}

Promise == INSTANCE SeatLease WITH
  role <- [r \in Room |-> [c \in Conn |-> PlaceOf(r, c)]],
  away <- AwayMembers,
  late <- AwayMembers \cap due,
  Players <- MaxSeats, Watchers <- MaxSpectators

\* Everything sessions, holds, accounts, timers and the host do to the places
\* of a room is a step of the promise: a place lost with its connection is kept
\* for its window, returned in the same role and to one successor, and a room
\* in which everybody may still return is not closed.
KeepsSeatPromise == Promise!Spec
=============================================================================
