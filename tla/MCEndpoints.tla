---------------------------- MODULE MCEndpoints ----------------------------
(* The two ends of the telemetry connection for TLC, the collector process  *)
(* and the sensor client.  They share no state, so a behaviour is one of    *)
(* either: a part takes steps while the other has not begun, and the states *)
(* of the two add up instead of multiplying.  No fair action of a part is   *)
(* enabled before it has begun.                                             *)
EXTENDS MCCollectorProcess, SensorClient

endpointVars == <<processVars, clientVars>>

CollectorIdle == main = "start"
ClientIdle == Fresh(start, 1) /\ ~disposed

EndpointsInit == ProcessInit /\ ClientInit

EndpointsNext ==
    \/ ClientIdle /\ ProcessNext /\ UNCHANGED clientVars
    \/ CollectorIdle /\ ClientNext /\ UNCHANGED processVars

EndpointsSpec ==
    /\ EndpointsInit /\ [][EndpointsNext]_endpointVars
    /\ ProcessFairness /\ \A s \in Streams : WF_processVars(EndStream(s))
    /\ ClientFairness
=============================================================================
