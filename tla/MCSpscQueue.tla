----------------------------- MODULE MCSpscQueue -----------------------------
(* Two slots and eight counter values: the counters wrap every fourth time *)
(* around the ring.                                                        *)
EXTENDS SpscQueue
=============================================================================
