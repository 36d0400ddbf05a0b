------------------------- MODULE MCSignalingServer -------------------------
(* Symmetry of room names for the safety runs of SignalingServer. *)
EXTENDS SignalingServer, TLC

MCSymmetry == Permutations(RoomIds)

=============================================================================
