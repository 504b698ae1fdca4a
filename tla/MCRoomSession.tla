--------------------------- MODULE MCRoomSession ---------------------------
(* Instances of RoomSession for TLC: connections and rooms are interchangeable. *)
EXTENDS RoomSessionLease, TLC

Symmetry == Permutations(Conn) \cup Permutations(Room)
=============================================================================
