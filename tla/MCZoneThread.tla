----------------------------- MODULE MCZoneThread -----------------------------
(***************************************************************************)
(* ZoneThread for TLC: winter, summer and winter again, and two restarts.   *)
(***************************************************************************)
EXTENDS ZoneThread

MCSaves == <<FALSE, TRUE, FALSE>>
=============================================================================
