--------------------------- MODULE MCBoundedQueue ---------------------------
(* The bounded queue for TLC: two producers, two consumers, one closer. *)
EXTENDS BoundedQueue
=============================================================================
