--------------------------- MODULE MCSensorClient ---------------------------
(* The sensor client for TLC; the .cfg files give it its bounds. *)
EXTENDS SensorClient
=============================================================================
