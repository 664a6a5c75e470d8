----------------------------- MODULE FlowWorker -----------------------------
(***************************************************************************)
(* What one worker does with the packets of its queue: the body of the     *)
(* loop of worker_node (src/main.cpp), which joins the ConnectionTracker,  *)
(* the FastPath (fast_path.h), the signature scan of DpiEngine, and the    *)
(* collector that runs every GcInterval iterations.                        *)
(*                                                                         *)
(* All of this is private to the worker, so one iteration of the loop is   *)
(* one step; the run of the collector that ends some iterations is a step  *)
(* of its own, with which the loop then continues.                         *)
(*                                                                         *)
(* Data.  ac_state is a node of the automaton, named as in Signatures: the *)
(* bytes it remembers.  PatternMatcher shows that search moves it as it is *)
(* moved here, and reports what is reported here.  The protocol decoders   *)
(* that inspect_payload calls only write log lines; what their recognisers *)
(* say of a payload is part of it (looks).                                 *)
(***************************************************************************)
EXTENDS ConnectionTracker, Signatures

CONSTANTS
  FlagSets,         (* the sets of TCP flags that packets have             *)
  Payload,          (* the payloads packets have                           *)
  DnsTuple,         (* the tuples with port 53 at one end                  *)
  Signature,        (* the signatures of threats.rules                     *)
  BypassThreshold,  (* FastPath::BYPASS_THRESHOLD, 10 in the code          *)
  GcInterval        (* 100000 in the code                                  *)

Byte == 0 .. 255

ASSUME FlowWorkerAssumption ==
  /\ FlagSets \subseteq SUBSET Flag
  /\ \A payload \in Payload :
       payload.bytes \in Seq(Byte) /\ payload.looks \in {"HTTP", "TLS", "DNS", "OTHER"}
  /\ DnsTuple \subseteq Tuple
  /\ Signature \subseteq Seq(Byte) \ {<<>>}
  /\ BypassThreshold \in Nat \ {0}
  /\ GcInterval \in Nat \ {0}

VARIABLES
  conn,         (* the part of each tracked flow's Connection used here    *)
  loopCounter   (* loop_counter                                            *)

flowVars == <<state, idle, lruList, conn, loopCounter>>

Connection ==
  [packetCount : 0 .. BypassThreshold + 1, isBypassed : BOOLEAN,
   isMalicious : BOOLEAN, acState : Beginnings(Signature),
   l7Protocol : {"UNKNOWN", "HTTP", "TLS", "DNS"}]

NewConnection ==
  [packetCount |-> 0, isBypassed |-> FALSE, isMalicious |-> FALSE, acState |-> Root,
   l7Protocol |-> "UNKNOWN"]

FlowTypeOK ==
  /\ TrackerTypeOK
  /\ conn \in [Tuple -> Connection]
  /\ loopCounter \in 0 .. GcInterval

FlowInit ==
  /\ TrackerInit
  /\ conn = [t \in Tuple |-> NewConnection]
  /\ loopCounter = 0
-----------------------------------------------------------------------------
(* FastPath::should_bypass                                                 *)

(* faulty: goes on counting after the flow was bypassed *)
CountedForever(c) ==
  IF c.isMalicious THEN c
  ELSE [c EXCEPT !.packetCount = @ + 1,
                 !.isBypassed = @ \/ c.packetCount + 1 > BypassThreshold]

(* faulty: trusts a flow that was flagged *)
CountedThoughMalicious(c) ==
  IF c.isBypassed THEN c
  ELSE [c EXCEPT !.packetCount = @ + 1,
                 !.isBypassed = c.packetCount + 1 > BypassThreshold]

(* What it leaves in the connection ...                                    *)
Counted(c) ==
  IF c.isBypassed \/ c.isMalicious THEN c
  ELSE [c EXCEPT !.packetCount = @ + 1,
                 !.isBypassed = c.packetCount + 1 > BypassThreshold]

(* ... which is also what it returns.                                      *)
ShouldBypass(c) == Counted(c).isBypassed
-----------------------------------------------------------------------------
(* DpiEngine::inspect_payload: PatternMatcher::search, from the node that  *)
(* the last payload of the flow led to.                                    *)

ScanByte(node, byte) == LongestEnding(Append(node, byte), Beginnings(Signature))

(* The node that each of the bytes leads to.                               *)
Nodes(node, bytes) ==
  LET after[i \in 0 .. Len(bytes)] ==
        IF i = 0 THEN node ELSE ScanByte(after[i - 1], bytes[i])
  IN after

LastNode(node, bytes) == Nodes(node, bytes)[Len(bytes)]

(* Some byte of a payload leads to a node at which a signature ends.       *)
Hit(node, bytes) ==
  \E i \in 1 .. Len(bytes), s \in Signature : EndsWith(Nodes(node, bytes)[i], s)

(* l7_protocol after a payload that is not empty.  What was identified as  *)
(* HTTP stays HTTP, and only HTTP takes precedence over TLS.               *)
Identified(l7, t, payload) ==
  IF "HTTP" \in {l7, payload.looks} THEN "HTTP"
  ELSE IF "TLS" \in {l7, payload.looks} THEN "TLS"
  ELSE IF t \in DnsTuple /\ payload.looks = "DNS" THEN "DNS"
  ELSE l7

(* faulty: a clean payload clears the flow *)
InspectedAfresh(c, t, payload) ==
  IF payload.bytes = <<>> THEN c
  ELSE [c EXCEPT !.acState = LastNode(@, payload.bytes),
                 !.isMalicious = Hit(c.acState, payload.bytes),
                 !.l7Protocol = Identified(@, t, payload)]

(* faulty: every payload is scanned by itself *)
InspectedAlone(c, t, payload) ==
  IF payload.bytes = <<>> THEN c
  ELSE [c EXCEPT !.isMalicious = @ \/ Hit(Root, payload.bytes),
                 !.l7Protocol = Identified(@, t, payload)]

(* An empty payload is not inspected.                                      *)
Inspected(c, t, payload) ==
  IF payload.bytes = <<>> THEN c
  ELSE [c EXCEPT !.acState = LastNode(@, payload.bytes),
                 !.isMalicious = @ \/ Hit(c.acState, payload.bytes),
                 !.l7Protocol = Identified(@, t, payload)]
-----------------------------------------------------------------------------
(* An iteration that reaches its end counts ...                            *)
IterationEnds == loopCounter' = loopCounter + 1

(* ... and when the counter reaches the interval, the collector runs.      *)
LoopReady == loopCounter < GcInterval

(* A packet of a tracked flow, or the SYN that starts one.  The fast path  *)
(* returns to the head of the loop at once.                                *)
TrackedPacket(t, flags, payload) ==
  /\ LoopReady
  /\ NewFlow(t, flags) \/ KnownFlow(t, flags)
  /\ IF ShouldBypass(conn[t])
     THEN /\ conn' = [conn EXCEPT ![t] = Counted(@)]
          /\ UNCHANGED loopCounter
     ELSE /\ conn' = [conn EXCEPT ![t] = Inspected(Counted(@), t, payload)]
          /\ IterationEnds

(* A packet of no tracked flow (UDP, or TCP without a SYN): it is scanned  *)
(* by itself, and a hit is only logged.                                    *)
UntrackedPacket ==
  /\ LoopReady
  /\ IterationEnds
  /\ UNCHANGED <<trackerVars, conn>>

(* The queue is empty.                                                     *)
Yield ==
  /\ LoopReady
  /\ IterationEnds
  /\ UNCHANGED <<trackerVars, conn>>

(* faulty: what is known of a flow outlives it *)
CollectKeeping ==
  /\ loopCounter = GcInterval
  /\ EvictStaleSessions
  /\ loopCounter' = 0
  /\ UNCHANGED conn

Collect ==
  /\ loopCounter = GcInterval
  /\ EvictStaleSessions
  /\ conn' = [t \in Tuple |-> IF Tracked(t)' THEN conn[t] ELSE NewConnection]
  /\ loopCounter' = 0

Loop ==
  \/ \E t \in Tuple, flags \in FlagSets, payload \in Payload : TrackedPacket(t, flags, payload)
  \/ UntrackedPacket
  \/ Yield
  \/ Collect

FlowNext ==
  \/ Loop
  \/ Tick /\ UNCHANGED <<conn, loopCounter>>

(* The worker's loop never stops and time passes.  Which packets come, if  *)
(* any, is up to the network.                                              *)
FlowFairness ==
  /\ WF_flowVars(Loop)
  /\ WF_flowVars(Tick /\ UNCHANGED <<conn, loopCounter>>)

FlowSpec == FlowInit /\ [][FlowNext]_flowVars /\ FlowFairness
-----------------------------------------------------------------------------
(* fast_path.h:21 ("If it was flagged as malware, NEVER bypass it") and    *)
(* main.cpp:86: a flow in which a signature was found stays inspected.     *)
NeverBypassMalicious ==
  \A t \in Tuple : ~(conn[t].isBypassed /\ conn[t].isMalicious)

(* Nothing that the worker found out about a flow is lost while the flow   *)
(* is tracked: not the malware, not the bypass with all that it freezes,   *)
(* and not that its protocol is known (connection.h:48, "Persist the L7    *)
(* Protocol") or is HTTP, which is the last word.  Nothing of it is left   *)
(* once the flow was evicted.  (A SYN on a flow that is CLOSED but still   *)
(* tracked starts nothing new: its verdicts last, as                       *)
(* connection_tracker.cpp:44-81 has it.)                                   *)
VerdictsLast ==
  [][\A t \in Tuple :
       /\ Tracked(t) /\ Tracked(t)' =>
            /\ conn[t].isMalicious => conn[t]'.isMalicious
            /\ conn[t].isBypassed => conn[t]' = conn[t]
            /\ conn[t].l7Protocol = "HTTP" => conn[t]'.l7Protocol = "HTTP"
            /\ conn[t].l7Protocol # "UNKNOWN" => conn[t]'.l7Protocol # "UNKNOWN"
       /\ ~Tracked(t) => conn[t] = NewConnection]_flowVars

(* What holds of connection_tracker.cpp:125 ("Because the list is          *)
(* chronological, if the oldest flow hasn't timed out, NOTHING has."): a   *)
(* flow that timed out outlives a run of the collector only behind a flow  *)
(* that was silent for at least as long and has not timed out itself,      *)
(* since its state allows it more time.  A collector that looks only at    *)
(* the back of the list can promise this because every packet moves its    *)
(* flow to the front.                                                      *)
ExpiredOnlyIfHidden ==
  [][Collect =>
       \A t \in Tuple : Expired(t)' =>
         \E u \in Tuple : /\ Tracked(u)' /\ ~Expired(u)'
                         /\ idle[u]' >= idle[t]']_flowVars

(* main.cpp:103-105 ("This increments whether we processed a packet OR     *)
(* yielded. It guarantees cleanup even during complete network silence!"): *)
(* a flow that went silent is eventually forgotten.                        *)
CleanupGuaranteed == SilentFlowsForgotten

(* It is, if the worker's queue is empty again and again.                  *)
CleanupWhenIdle == []<><<Yield>>_flowVars => SilentFlowsForgotten
=============================================================================
