-------------------------- MODULE MCRoomSupervisor --------------------------
(* Small instances of RoomSupervisor for TLC. *)
EXTENDS RoomSupervisor
=============================================================================
