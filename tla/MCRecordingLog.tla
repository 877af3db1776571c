--------------------------- MODULE MCRecordingLog ---------------------------
(* The recording for TLC: headers of two bytes, payloads of one or two      *)
(* bytes, and one event over the payload limit.                             *)
EXTENDS RecordingLog

MCEvents == {"a", "b", "huge"}
MCPayloadSize == [e \in MCEvents |-> CASE e = "a" -> 1 [] e = "b" -> 2 [] e = "huge" -> 3]
=============================================================================
