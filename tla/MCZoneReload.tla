---------------------------- MODULE MCZoneReload ----------------------------
(* Small instance of ZoneReload for TLC: two zones, two tasks. *)
EXTENDS ZoneReload, TLC

CONSTANTS z1, z2, t1, t2

OneZone == <<z1>>
TwoZones == <<z1, z2>>
=============================================================================
