---------------------------- MODULE MCQueuedSink ----------------------------
(* The queued sink for TLC. *)
EXTENDS QueuedSink
=============================================================================
