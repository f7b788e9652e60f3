--------------------------- MODULE MCSyncSchedule ---------------------------
(* Instances of SyncSchedule for TLC: two dates of two readings. *)
EXTENDS SyncSchedule

MCIds == 1 .. 2
=============================================================================
