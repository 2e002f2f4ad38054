--------------------------- MODULE MCRoomSchedule ---------------------------
(* The room schedule on a small programme.                                 *)
EXTENDS RoomSchedule, TLC

Instants == 0..2
Symmetry == Permutations(Sessions) \cup Permutations(Rooms)
=============================================================================
