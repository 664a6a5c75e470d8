------------------------ MODULE MCConnectionTracker ------------------------
(* Three flows are enough for one to lie between two others in the list.   *)
EXTENDS ConnectionTracker
=============================================================================
