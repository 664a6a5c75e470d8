------------------------------ MODULE FlowAudit ------------------------------
(***************************************************************************)
(* FlowWorker with a history variable that remembers, for each tracked     *)
(* flow, what really went by since the flow was created: what an observer  *)
(* who can tell the two directions apart would know.  The worker cannot:   *)
(* its flows are bidirectional tuples.  With it the claims of the code's   *)
(* comments about a flow's past become invariants.                         *)
(***************************************************************************)
EXTENDS FlowWorker

CONSTANT Side  (* the two ends of a connection, or the one that sends      *)

VARIABLE seen

auditVars == <<state, idle, lruList, conn, loopCounter, seen>>

(* The bytes of each end that were inspected, up to the first signature.   *)
NothingSeen == [side \in Side |-> <<>>]

(* One end sent a whole signature.                                         *)
Carried(streams) ==
  \E side \in Side, signature \in Signature : OccursIn(signature, streams[side])

Observed(streams, c, side, payload) ==
  IF ShouldBypass(c) \/ Carried(streams) THEN streams
  ELSE [streams EXCEPT ![side] = @ \o payload.bytes]

AuditInit ==
  /\ FlowInit
  /\ seen = [t \in Tuple |-> NothingSeen]

AuditedPacket(t, flags, side, payload) ==
  /\ TrackedPacket(t, flags, payload)
  /\ seen' = [seen EXCEPT ![t] = Observed(@, conn[t], side, payload)]

AuditedCollect ==
  /\ Collect
  /\ seen' = [t \in Tuple |-> IF Tracked(t)' THEN seen[t] ELSE NothingSeen]

AuditNext ==
  \/ \E t \in Tuple, flags \in FlagSets, side \in Side, payload \in Payload :
       AuditedPacket(t, flags, side, payload)
  \/ Yield /\ UNCHANGED seen
  \/ AuditedCollect
  \/ Tick /\ UNCHANGED <<conn, loopCounter, seen>>

AuditSpec == AuditInit /\ [][AuditNext]_auditVars
-----------------------------------------------------------------------------
(* dpi_engine.cpp:46-47 ("we guarantee that fragmented malware (even       *)
(* 1-byte packets) is caught by the state machine"): a flow in which one   *)
(* end sent a whole signature, in however many segments, is flagged.  It   *)
(* speaks of bytes that were inspected: those that come after the flow was *)
(* bypassed (fast_path.h:27) are not among them.                           *)
FragmentsCaught ==
  \A t \in Tuple : Carried(seen[t]) => conn[t].isMalicious

(* A flow is flagged only if its inspected bytes contained a signature.    *)
NoFalseAlarm ==
  \A t \in Tuple : conn[t].isMalicious => Carried(seen[t])
=============================================================================
