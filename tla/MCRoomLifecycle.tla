-------------------------- MODULE MCRoomLifecycle --------------------------
(* RoomLifecycle for TLC: the runs' bounds are in their .cfg files, and deck *)
(* lists are interchangeable.                                                *)
EXTENDS RoomLifecycle, TLC

ListSymmetry == Permutations(Lists)
=============================================================================
