-------------------------- MODULE FlowWorkerProofs --------------------------
(***************************************************************************)
(* Proofs about FlowWorker and FlowAudit for any flows, payloads and       *)
(* signatures, any threshold of the fast path and any interval of the      *)
(* collector.                                                              *)
(***************************************************************************)
EXTENDS FlowAudit, ConnectionTrackerProofs, DataLemmas

(* The nodes that the bytes of a payload lead to are nodes, and each is    *)
(* where its byte leads from the one before.                               *)
LEMMA NodesFits ==
  ASSUME NEW node \in Beginnings(Signature), NEW bytes \in Seq(Byte)
  PROVE  /\ Nodes(node, bytes) \in [0 .. Len(bytes) -> Beginnings(Signature)]
         /\ Nodes(node, bytes)[0] = node
         /\ \A i \in 1 .. Len(bytes) :
              Nodes(node, bytes)[i] = ScanByte(Nodes(node, bytes)[i - 1], bytes[i])
<1> DEFINE S == 0 .. Len(bytes)
           V == Beginnings(Signature)
           H(f) == [i \in S |-> IF i = 0 THEN node ELSE ScanByte(f[i - 1], bytes[i])]
           G == [f \in [S -> V] |-> H(f)]
           size == [i \in S |-> i]
<1>1. Len(bytes) \in Nat /\ \A i \in 1 .. Len(bytes) : bytes[i] \in Byte
  BY LenProperties, ElementOfSeq
<1>2. V \subseteq Seq(Byte) /\ Root \in V
  BY BeginningsFacts, FlowWorkerAssumption
<1>3. ASSUME NEW n \in V, NEW b \in Byte PROVE ScanByte(n, b) \in V
  <2>1. Append(n, b) \in Seq(Byte)
    BY <1>2, AppendProperties
  <2> QED
    BY <1>2, <2>1, LongestEndingFacts DEF ScanByte, IsLongest
<1>4. \A f \in [S -> V] : H(f) \in [S -> V]
  BY <1>1, <1>3
<1>5. size \in [S -> Nat]
  BY <1>1
<1>6. \A f, g \in [S -> V], i \in S :
        (\A j \in S : size[j] < size[i] => f[j] = g[j]) => H(f)[i] = H(g)[i]
  BY <1>1
<1> HIDE DEF V
<1>7. Recursive(G, S, V, size)
  BY <1>4, <1>5, <1>6 DEF Recursive
<1>8. PICK f0 \in [S -> V] : TRUE
  <2>1. [i \in S |-> node] \in [S -> V]
    BY DEF V
  <2> QED
    BY <2>1
<1>9. \E f \in [S -> V] : f = G[f]
  <2> HIDE DEF G, size, S
  <2> QED BY <1>7, <1>8, RecursionFits
<1>10. PICK f \in [S -> V] : f = H(f)
  BY <1>9
<1>11. Nodes(node, bytes) = CHOOSE g : g = H(g)
  BY DEF Nodes
<1>12. Nodes(node, bytes) = H(Nodes(node, bytes))
  BY <1>10, <1>11
<1> DEFINE after == Nodes(node, bytes)
<1> HIDE DEF after
<1>13. /\ after = [i \in S |-> after[i]]
       /\ after[0] = node
       /\ \A i \in 1 .. Len(bytes) : after[i] = ScanByte(after[i - 1], bytes[i])
  BY <1>1, <1>12 DEF after
<1>14. Nat \subseteq {n \in Nat : n \in S => after[n] \in V}
  <2> DEFINE P == {n \in Nat : n \in S => after[n] \in V}
  <2>1. 0 \in P
    BY <1>13 DEF V
  <2>2. ASSUME NEW n \in Nat, n \in P, n + 1 \in S PROVE after[n + 1] \in V
    <3>1. n \in S /\ n + 1 \in 1 .. Len(bytes) /\ (n + 1) - 1 = n
      BY <1>1, <2>2
    <3>2. after[n + 1] = ScanByte(after[n], bytes[n + 1])
      BY <1>13, <3>1
    <3> QED
      BY <1>1, <1>3, <2>2, <3>1, <3>2
  <2>3. \A n \in Nat : n \in P => n + 1 \in P
    BY <2>2
  <2> HIDE DEF P
  <2>4. Nat \subseteq P
    BY <2>1, <2>3, NumberInduction
  <2> QED
    BY <2>4 DEF P
<1>15. after \in [S -> V]
  BY <1>1, <1>13, <1>14
<1> QED
  BY <1>13, <1>15 DEF after, V
-----------------------------------------------------------------------------
(* A flow is counted as long as it is not bypassed.                        *)
WellFormed(c) ==
  /\ c \in Connection
  /\ c.isBypassed \/ c.packetCount <= BypassThreshold

OneVerdict(c) == ~(c.isBypassed /\ c.isMalicious)

FlowInv ==
  /\ loopCounter \in 0 .. GcInterval
  /\ conn = [t \in Tuple |-> conn[t]]
  /\ \A t \in Tuple : WellFormed(conn[t]) /\ OneVerdict(conn[t])
  /\ \A t \in Tuple : ~Tracked(t) => conn[t] = NewConnection

(* The fast path does not touch a flow that has its verdict, and never     *)
(* anything but the count and the bypass flag.                             *)
LEMMA CountedFacts ==
  ASSUME NEW c, WellFormed(c), OneVerdict(c)
  PROVE  /\ WellFormed(Counted(c)) /\ OneVerdict(Counted(c))
         /\ c.isBypassed \/ c.isMalicious => Counted(c) = c
         /\ Counted(c).isMalicious = c.isMalicious
         /\ Counted(c).l7Protocol = c.l7Protocol
         /\ Counted(c).acState = c.acState
<1>1. BypassThreshold \in Nat
  BY FlowWorkerAssumption
<1>2. CASE c.isBypassed \/ c.isMalicious
  BY <1>2 DEF Counted
<1>3. CASE ~(c.isBypassed \/ c.isMalicious)
  <2>1. Counted(c) = [packetCount |-> c.packetCount + 1,
                      isBypassed |-> c.packetCount + 1 > BypassThreshold,
                      isMalicious |-> c.isMalicious, acState |-> c.acState,
                      l7Protocol |-> c.l7Protocol]
    BY <1>3 DEF Counted, WellFormed, Connection
  <2>2. c.packetCount + 1 \in 0 .. BypassThreshold + 1
    BY <1>1, <1>3 DEF WellFormed, Connection
  <2>3. c.packetCount + 1 > BypassThreshold \/ c.packetCount + 1 <= BypassThreshold
    BY <1>1, <2>2
  <2>4. Counted(c) \in Connection
    BY <1>3, <2>1, <2>2 DEF WellFormed, Connection
  <2>5. /\ Counted(c).packetCount = c.packetCount + 1
        /\ Counted(c).isBypassed = (c.packetCount + 1 > BypassThreshold)
        /\ Counted(c).isMalicious = c.isMalicious
        /\ Counted(c).l7Protocol = c.l7Protocol
        /\ Counted(c).acState = c.acState
    BY <2>1
  <2>6. WellFormed(Counted(c))
    BY <2>3, <2>4, <2>5 DEF WellFormed
  <2> QED BY <1>3, <2>5, <2>6 DEF OneVerdict
<1> QED BY <1>2, <1>3

(* Inspection only ever adds to what is known of a flow.                   *)
LEMMA InspectedFacts ==
  ASSUME NEW c, WellFormed(c), ~c.isBypassed, NEW t \in Tuple, NEW payload \in Payload
  PROVE  /\ WellFormed(Inspected(c, t, payload))
         /\ ~Inspected(c, t, payload).isBypassed
         /\ c.isMalicious => Inspected(c, t, payload).isMalicious
         /\ c.l7Protocol = "HTTP" => Inspected(c, t, payload).l7Protocol = "HTTP"
         /\ c.l7Protocol # "UNKNOWN" => Inspected(c, t, payload).l7Protocol # "UNKNOWN"
<1>1. CASE payload.bytes = <<>>
  BY <1>1 DEF Inspected
<1>2. CASE payload.bytes # <<>>
  <2> DEFINE node == LastNode(c.acState, payload.bytes)
             hit == Hit(c.acState, payload.bytes)
             l7 == Identified(c.l7Protocol, t, payload)
  <2>1. Inspected(c, t, payload) =
          [packetCount |-> c.packetCount, isBypassed |-> c.isBypassed,
           isMalicious |-> c.isMalicious \/ hit, acState |-> node, l7Protocol |-> l7]
    BY <1>2 DEF Inspected, WellFormed, Connection
  <2>2. /\ c.l7Protocol = "HTTP" => l7 = "HTTP"
        /\ c.l7Protocol # "UNKNOWN" => l7 # "UNKNOWN"
        /\ l7 \in {"UNKNOWN", "HTTP", "TLS", "DNS"}
    BY DEF Identified, WellFormed, Connection
  <2>3. node \in Beginnings(Signature)
    <3>1. c.acState \in Beginnings(Signature) /\ payload.bytes \in Seq(Byte)
      BY FlowWorkerAssumption DEF WellFormed, Connection
    <3>2. Len(payload.bytes) \in 0 .. Len(payload.bytes)
      BY <3>1, LenProperties
    <3> QED BY <3>1, <3>2, NodesFits DEF LastNode
  <2>4. hit \in BOOLEAN
    BY DEF Hit
  <2> HIDE DEF node, hit, l7
  <2> QED BY <2>1, <2>2, <2>3, <2>4 DEF WellFormed, Connection
<1> QED BY <1>1, <1>2
-----------------------------------------------------------------------------
(* Which flows the steps of the tracker begin and end.                     *)

(* A packet begins at most its own flow.                                   *)
LEMMA PacketTracks ==
  ASSUME TrackerInv, NEW t \in Tuple, NEW flags, NewFlow(t, flags) \/ KnownFlow(t, flags)
  PROVE  \A u \in Tuple : Tracked(u)' <=> Tracked(u) \/ u = t
<1>1. state \in [Tuple -> TcpState \cup {"NONE"}]
  BY DEF TrackerInv, TrackerTypeOK
<1>2. CASE NewFlow(t, flags)
  BY <1>1, <1>2 DEF NewFlow, Tracked
<1>3. CASE KnownFlow(t, flags)
  <2>1. Tracked(t) /\ state' = [state EXCEPT ![t] = NextState(state[t], flags)]
    BY <1>3 DEF KnownFlow
  <2>2. NextState(state[t], flags) # "NONE"
    BY <2>1 DEF NextState, Tracked
  <2> QED BY <1>1, <2>1, <2>2 DEF Tracked
<1> QED BY <1>2, <1>3

(* The collector begins no flow.                                           *)
LEMMA CollectTracks ==
  ASSUME TrackerInv, EvictStaleSessions
  PROVE  \A u \in Tuple : Tracked(u)' => Tracked(u)
BY EvictFacts DEF Tracked

(* The collector and the packets, as the worker calls them, keep the       *)
(* tracker in order.                                                       *)
LEMMA FlowTrackerStep ==
  ASSUME TrackerInv, [FlowNext]_flowVars
  PROVE  TrackerInv'
<1>1. CASE UNCHANGED trackerVars
  BY <1>1, TrackerStutter
<1>2. ASSUME NEW t \in Tuple, NEW flags \in FlagSets, NEW payload \in Payload,
             TrackedPacket(t, flags, payload)
      PROVE  TrackerInv'
  <2>1. flags \in SUBSET Flag
    BY FlowWorkerAssumption
  <2> QED BY <1>2, <2>1, NewFlowStep, KnownFlowStep DEF TrackedPacket
<1>3. CASE Collect
  BY <1>3, EvictStep DEF Collect
<1>4. CASE Tick
  BY <1>4, TickStep
<1>5. (UNCHANGED flowVars \/ UntrackedPacket \/ Yield) => UNCHANGED trackerVars
  BY DEF flowVars, trackerVars, UntrackedPacket, Yield
<1> QED BY <1>1, <1>2, <1>3, <1>4, <1>5 DEF FlowNext, Loop
-----------------------------------------------------------------------------
(* What a packet leaves in its flow's connection.                          *)
After(t, payload) ==
  IF ShouldBypass(conn[t]) THEN Counted(conn[t])
  ELSE Inspected(Counted(conn[t]), t, payload)

(* A packet changes the connection of its own flow only, keeps it well     *)
(* formed, and keeps what is known of it.                                  *)
LEMMA PacketFacts ==
  ASSUME TrackerInv, FlowInv, NEW t \in Tuple, NEW flags, NEW payload \in Payload,
         TrackedPacket(t, flags, payload)
  PROVE  /\ conn' = [conn EXCEPT ![t] = After(t, payload)]
         /\ \A u \in Tuple : Tracked(u)' <=> Tracked(u) \/ u = t
         /\ WellFormed(After(t, payload)) /\ OneVerdict(After(t, payload))
         /\ conn[t].isBypassed => After(t, payload) = conn[t]
         /\ conn[t].isMalicious => After(t, payload).isMalicious
         /\ conn[t].l7Protocol = "HTTP" => After(t, payload).l7Protocol = "HTTP"
         /\ conn[t].l7Protocol # "UNKNOWN" => After(t, payload).l7Protocol # "UNKNOWN"
<1> DEFINE c == conn[t]
<1>1. WellFormed(c) /\ OneVerdict(c)
  BY DEF FlowInv
<1>2. /\ WellFormed(Counted(c)) /\ OneVerdict(Counted(c))
      /\ c.isBypassed \/ c.isMalicious => Counted(c) = c
      /\ Counted(c).isMalicious = c.isMalicious
      /\ Counted(c).l7Protocol = c.l7Protocol
  BY <1>1, CountedFacts
<1>3. conn' = [conn EXCEPT ![t] = After(t, payload)]
  BY DEF TrackedPacket, After
<1>4. \A u \in Tuple : Tracked(u)' <=> Tracked(u) \/ u = t
  BY PacketTracks DEF TrackedPacket
<1> HIDE DEF c
<1>5. CASE Counted(c).isBypassed
  <2>1. After(t, payload) = Counted(c)
    BY <1>5 DEF After, ShouldBypass, c
  <2> QED BY <1>1, <1>2, <1>3, <1>4, <2>1 DEF c
<1>6. CASE ~Counted(c).isBypassed
  <2>1. After(t, payload) = Inspected(Counted(c), t, payload)
    BY <1>6 DEF After, ShouldBypass, c
  <2>2. ~c.isBypassed
    BY <1>2, <1>6
  <2> QED BY <1>2, <1>3, <1>4, <1>6, <2>1, <2>2, InspectedFacts DEF c, OneVerdict
<1> QED BY <1>5, <1>6

(* Every other step leaves the connection of a flow that stays tracked     *)
(* alone and clears the others.                                            *)
LEMMA OtherStepFacts ==
  ASSUME TrackerInv, FlowInv, UntrackedPacket \/ Yield \/ Collect
                              \/ (Tick /\ UNCHANGED <<conn, loopCounter>>)
                              \/ UNCHANGED flowVars
  PROVE  /\ conn' = [t \in Tuple |-> conn'[t]]
         /\ \A t \in Tuple : Tracked(t)' => Tracked(t)
         /\ \A t \in Tuple : conn'[t] = IF Tracked(t)' THEN conn[t] ELSE NewConnection
<1>1. CASE Collect
  <2>1. \A t \in Tuple : Tracked(t)' => Tracked(t)
    BY <1>1, CollectTracks DEF Collect
  <2> QED BY <1>1, <2>1 DEF Collect
<1>2. CASE UNCHANGED <<state, conn>>
  BY <1>2 DEF FlowInv, Tracked
<1>3. UntrackedPacket \/ Yield \/ UNCHANGED flowVars => UNCHANGED <<state, conn>>
  BY DEF UntrackedPacket, Yield, trackerVars, flowVars
<1>4. Tick /\ UNCHANGED <<conn, loopCounter>> => UNCHANGED <<state, conn>>
  BY DEF Tick
<1> QED BY <1>1, <1>2, <1>3, <1>4

(* A new connection has no verdict.                                        *)
LEMMA NewConnectionFacts == WellFormed(NewConnection) /\ OneVerdict(NewConnection)
<1>1. BypassThreshold \in Nat /\ Signature \subseteq Seq(Byte)
  BY FlowWorkerAssumption
<1>2. Root \in Beginnings(Signature)
  BY <1>1, BeginningsFacts
<1> QED BY <1>1, <1>2 DEF WellFormed, OneVerdict, NewConnection, Connection

(* What the connections of the worker's flows have in common.              *)
LEMMA CounterStep ==
  ASSUME FlowInv, [FlowNext]_flowVars
  PROVE  (loopCounter \in 0 .. GcInterval)'
<1>1. GcInterval \in Nat
  BY FlowWorkerAssumption
<1>2. loopCounter' \in {loopCounter, 0} \/ (LoopReady /\ IterationEnds)
  BY DEF FlowNext, Loop, TrackedPacket, UntrackedPacket, Yield, Collect, flowVars
<1> QED BY <1>1, <1>2 DEF FlowInv, LoopReady, IterationEnds

LEMMA FlowStep ==
  ASSUME TrackerInv, FlowInv, [FlowNext]_flowVars
  PROVE  FlowInv'
<1>1. ASSUME NEW t \in Tuple, NEW flags \in FlagSets, NEW payload \in Payload,
             TrackedPacket(t, flags, payload)
      PROVE  FlowInv'
  <2>1. /\ conn' = [conn EXCEPT ![t] = After(t, payload)]
        /\ \A u \in Tuple : Tracked(u)' <=> Tracked(u) \/ u = t
        /\ WellFormed(After(t, payload)) /\ OneVerdict(After(t, payload))
    BY <1>1, PacketFacts
  <2>2. /\ conn' = [u \in Tuple |-> conn'[u]]
        /\ \A u \in Tuple : conn'[u] = IF u = t THEN After(t, payload) ELSE conn[u]
    BY <2>1 DEF FlowInv
  <2>3. \A u \in Tuple : WellFormed(conn'[u]) /\ OneVerdict(conn'[u])
    BY <2>1, <2>2 DEF FlowInv
  <2>4. \A u \in Tuple : ~Tracked(u)' => conn'[u] = NewConnection
    BY <2>1, <2>2 DEF FlowInv
  <2> QED BY <2>2, <2>3, <2>4, CounterStep DEF FlowInv, WellFormed, OneVerdict
<1>2. ASSUME UntrackedPacket \/ Yield \/ Collect
             \/ (Tick /\ UNCHANGED <<conn, loopCounter>>) \/ UNCHANGED flowVars
      PROVE  FlowInv'
  <2>1. /\ conn' = [t \in Tuple |-> conn'[t]]
        /\ \A t \in Tuple : conn'[t] = IF Tracked(t)' THEN conn[t] ELSE NewConnection
    BY <1>2, OtherStepFacts
  <2>2. \A t \in Tuple : WellFormed(conn'[t]) /\ OneVerdict(conn'[t])
    BY <2>1, NewConnectionFacts DEF FlowInv
  <2> QED BY <2>1, <2>2, CounterStep DEF FlowInv, WellFormed, OneVerdict
<1> QED BY <1>1, <1>2 DEF FlowNext, Loop

LEMMA FlowStart == FlowInit => TrackerInv /\ FlowInv
<1>1. GcInterval \in Nat
  BY FlowWorkerAssumption
<1> QED BY <1>1, NewConnectionFacts, TrackerStart DEF FlowInit, FlowInv

LEMMA FlowInvariant == FlowSpec => [](TrackerInv /\ FlowInv)
<1>1. TrackerInv /\ FlowInv /\ [FlowNext]_flowVars => TrackerInv' /\ FlowInv'
  BY FlowTrackerStep, FlowStep
<1> QED BY <1>1, FlowStart, PTL DEF FlowSpec

(* Every flow's connection, and the table of flows, is one that the code's *)
(* types and thresholds allow.                                             *)
THEOREM FlowTypes == FlowSpec => []FlowTypeOK
<1>1. TrackerInv /\ FlowInv => FlowTypeOK
  BY DEF TrackerInv, FlowInv, FlowTypeOK, WellFormed
<1> QED BY <1>1, FlowInvariant, PTL
-----------------------------------------------------------------------------
(* However its packets and the collector alternate, a worker never takes   *)
(* the fast path for a flow in which it found a signature.                 *)
THEOREM MalwareNeverBypassed == FlowSpec => []NeverBypassMalicious
<1>1. TrackerInv /\ FlowInv => NeverBypassMalicious
  BY DEF FlowInv, NeverBypassMalicious, OneVerdict
<1> QED BY <1>1, FlowInvariant, PTL

(* A verdict about a flow is kept for as long as the flow is tracked, and  *)
(* a flow that uses the tuple after an eviction starts without one.        *)
THEOREM VerdictsKept == FlowSpec => VerdictsLast
<1>1. TrackerInv /\ FlowInv /\ [FlowNext]_flowVars
        => [\A t \in Tuple :
              /\ Tracked(t) /\ Tracked(t)' =>
                   /\ conn[t].isMalicious => conn[t]'.isMalicious
                   /\ conn[t].isBypassed => conn[t]' = conn[t]
                   /\ conn[t].l7Protocol = "HTTP" => conn[t]'.l7Protocol = "HTTP"
                   /\ conn[t].l7Protocol # "UNKNOWN" => conn[t]'.l7Protocol # "UNKNOWN"
              /\ ~Tracked(t) => conn[t] = NewConnection]_flowVars
  <2> SUFFICES ASSUME TrackerInv, FlowInv, FlowNext, NEW u \in Tuple
               PROVE  /\ Tracked(u) /\ Tracked(u)' =>
                           /\ conn[u].isMalicious => conn[u]'.isMalicious
                           /\ conn[u].isBypassed => conn[u]' = conn[u]
                           /\ conn[u].l7Protocol = "HTTP" => conn[u]'.l7Protocol = "HTTP"
                           /\ conn[u].l7Protocol # "UNKNOWN" => conn[u]'.l7Protocol # "UNKNOWN"
                      /\ ~Tracked(u) => conn[u] = NewConnection
    OBVIOUS
  <2>1. ~Tracked(u) => conn[u] = NewConnection
    BY DEF FlowInv
  <2>2. ASSUME NEW t \in Tuple, NEW flags \in FlagSets, NEW payload \in Payload,
               TrackedPacket(t, flags, payload)
        PROVE  /\ conn[u].isMalicious => conn[u]'.isMalicious
               /\ conn[u].isBypassed => conn[u]' = conn[u]
               /\ conn[u].l7Protocol = "HTTP" => conn[u]'.l7Protocol = "HTTP"
               /\ conn[u].l7Protocol # "UNKNOWN" => conn[u]'.l7Protocol # "UNKNOWN"
    BY <2>2, PacketFacts DEF FlowInv
  <2>3. CASE ~ \E t \in Tuple, flags \in FlagSets, payload \in Payload :
                 TrackedPacket(t, flags, payload)
    BY <2>1, <2>3, OtherStepFacts DEF FlowNext, Loop
  <2> QED BY <2>1, <2>2, <2>3
<1> QED BY <1>1, FlowInvariant, PTL DEF FlowSpec, VerdictsLast

(* A flow that timed out outlives a run of the collector only behind one   *)
(* that was silent for at least as long and may stay longer.               *)
THEOREM LateOnlyIfHidden == FlowSpec => ExpiredOnlyIfHidden
<1>1. TrackerInv /\ [FlowNext]_flowVars
        => [Collect =>
              \A t \in Tuple : Expired(t)' =>
                \E u \in Tuple : /\ Tracked(u)' /\ ~Expired(u)'
                                /\ idle[u]' >= idle[t]']_flowVars
  <2> SUFFICES ASSUME TrackerInv, Collect, NEW t \in Tuple, Expired(t)'
               PROVE  \E u \in Tuple : /\ Tracked(u)' /\ ~Expired(u)'
                                       /\ idle[u]' >= idle[t]'
    OBVIOUS
  <2>1. EvictStaleSessions /\ Tracked(t)'
    BY DEF Collect, Expired
  <2> QED BY <2>1, EvictLeaves
<1> QED BY <1>1, FlowInvariant, PTL DEF FlowSpec, ExpiredOnlyIfHidden
-----------------------------------------------------------------------------
(* FlowAudit.  Scanning goes on with a text where the node remembers it.   *)
LEMMA NodesRemember ==
  ASSUME NEW w \in Seq(Byte), NEW bytes \in Seq(Byte)
  PROVE  \A i \in 0 .. Len(bytes) :
           Nodes(LongestEnding(w, Beginnings(Signature)), bytes)[i]
             = LongestEnding(w \o SubSeq(bytes, 1, i), Beginnings(Signature))
<1> DEFINE V == Beginnings(Signature)
           node == LongestEnding(w, V)
           after == Nodes(node, bytes)
           Right(i) == after[i] = LongestEnding(w \o SubSeq(bytes, 1, i), V)
           P == {i \in Nat : i \in 0 .. Len(bytes) => Right(i)}
<1>1. V \subseteq Seq(Byte) /\ Root \in V /\ PrefixClosed(V, Byte)
  BY BeginningsFacts, FlowWorkerAssumption
<1>2. node \in V
  BY <1>1, LongestEndingFacts DEF IsLongest
<1> HIDE DEF node
<1>3. /\ after[0] = node
      /\ \A i \in 1 .. Len(bytes) : after[i] = ScanByte(after[i - 1], bytes[i])
  BY <1>2, NodesFits
<1> HIDE DEF after, V
<1>4. Right(0)
  <2>1. SubSeq(bytes, 1, 0) = <<>> /\ w \o <<>> = w
    BY SubSeqEmpty, ConcatEmptySeq
  <2> QED BY <1>3, <2>1 DEF node
<1>5. ASSUME NEW i \in Nat, i \in P, i + 1 \in 0 .. Len(bytes) PROVE Right(i + 1)
  <2>1. /\ i + 1 \in 1 .. Len(bytes) /\ (i + 1) - 1 = i /\ i \in 0 .. Len(bytes)
    <3>1. Len(bytes) \in Nat
      BY LenProperties
    <3> QED BY <1>5, <3>1
  <2>2. after[i + 1] = ScanByte(after[i], bytes[i + 1])
    BY <1>3, <2>1
  <2>3. after[i] = LongestEnding(w \o SubSeq(bytes, 1, i), V)
    BY <1>5, <2>1
  <2>4. /\ bytes[i + 1] \in Byte /\ w \o SubSeq(bytes, 1, i) \in Seq(Byte)
        /\ w \o SubSeq(bytes, 1, i + 1)
             = Append(w \o SubSeq(bytes, 1, i), bytes[i + 1])
    BY <2>1, NextByte
  <2> DEFINE u == w \o SubSeq(bytes, 1, i)
             b == bytes[i + 1]
  <2>5. after[i + 1] = LongestEnding(Append(LongestEnding(u, V), b), V)
    BY <2>2, <2>3 DEF ScanByte, V
  <2>6. u \in Seq(Byte) /\ b \in Byte
    BY <2>4
  <2> HIDE DEF u, b
  <2>7. LongestEnding(Append(u, b), V) = LongestEnding(Append(LongestEnding(u, V), b), V)
    BY <1>1, <2>6, LongestEndingOfAppend
  <2> QED BY <2>4, <2>5, <2>7 DEF u, b
<1>6. 0 \in P /\ \A i \in Nat : i \in P => i + 1 \in P
  BY <1>4, <1>5
<1> HIDE DEF P
<1>7. Nat \subseteq P
  BY <1>6, NumberInduction
<1> HIDE DEF Right
<1>8. \A i \in 0 .. Len(bytes) : Right(i)
  BY <1>7 DEF P
<1> QED BY <1>8 DEF Right, after, node, V

(* So a payload hits exactly if a signature ends in it, and where it began *)
(* does not matter.                                                        *)
LEMMA HitFacts ==
  ASSUME NEW w \in Seq(Byte), NEW bytes \in Seq(Byte), NEW node,
         node = LongestEnding(w, Beginnings(Signature))
  PROVE  /\ LastNode(node, bytes) = LongestEnding(w \o bytes, Beginnings(Signature))
         /\ \A s \in Signature :
              OccursIn(s, w \o bytes)
                <=> OccursIn(s, w) \/ \E i \in 1 .. Len(bytes) : EndsWith(Nodes(node, bytes)[i], s)
<1> DEFINE V == Beginnings(Signature)
<1>1. V \subseteq Seq(Byte) /\ Root \in V /\ Signature \subseteq V
  BY BeginningsFacts, FlowWorkerAssumption
<1> HIDE DEF V
<1>2. \A i \in 0 .. Len(bytes) :
        Nodes(node, bytes)[i] = LongestEnding(w \o SubSeq(bytes, 1, i), V)
  BY NodesRemember DEF V
<1>3. Len(bytes) \in 0 .. Len(bytes) /\ SubSeq(bytes, 1, Len(bytes)) = bytes
  BY LenProperties, SubSeqFull
<1>4. ASSUME NEW s \in Signature, NEW i \in 1 .. Len(bytes)
      PROVE  EndsWith(w \o SubSeq(bytes, 1, i), s) <=> EndsWith(Nodes(node, bytes)[i], s)
  <2>1. i \in 0 .. Len(bytes)
    OBVIOUS
  <2>2. w \o SubSeq(bytes, 1, i) \in Seq(Byte)
    BY <2>1, FirstBytes, ConcatProperties
  <2>3. s \in V
    BY <1>1
  <2> DEFINE u == w \o SubSeq(bytes, 1, i)
  <2>4. Nodes(node, bytes)[i] = LongestEnding(u, V)
    BY <1>2, <2>1
  <2> HIDE DEF u
  <2>5. EndsWith(u, s) <=> EndsWith(LongestEnding(u, V), s)
    BY <1>1, <2>2, <2>3, SameEndings DEF u
  <2> QED BY <2>4, <2>5 DEF u
<1>5. LastNode(node, bytes) = LongestEnding(w \o bytes, V)
  BY <1>2, <1>3 DEF LastNode
<1>6. \A s \in Signature :
        OccursIn(s, w \o bytes)
          <=> OccursIn(s, w) \/ \E i \in 1 .. Len(bytes) : EndsWith(Nodes(node, bytes)[i], s)
  BY <1>4, OccursInConcat
<1> QED BY <1>5, <1>6 DEF V

(* What the audit of one flow says: the flow is flagged exactly if an end  *)
(* sent a signature, and until then the node remembers what each end sent. *)
Audited(c, streams) ==
  /\ streams \in [Side -> Seq(Byte)]
  /\ c.isMalicious <=> Carried(streams)
  /\ ~c.isMalicious =>
       \A side \in Side : c.acState = LongestEnding(streams[side], Beginnings(Signature))

AuditInv ==
  /\ seen = [t \in Tuple |-> seen[t]]
  /\ \A t \in Tuple : Audited(conn[t], seen[t])

LEMMA AuditedAtFirst == Audited(NewConnection, NothingSeen)
<1>1. <<>> \in Seq(Byte) /\ Len(<<>>) = 0
  BY EmptySeq
<1>2. NothingSeen \in [Side -> Seq(Byte)] /\ \A side \in Side : NothingSeen[side] = <<>>
  BY <1>1 DEF NothingSeen
<1>3. ASSUME NEW s \in Signature PROVE ~OccursIn(s, <<>>)
  <2>1. s \in Seq(Byte) /\ s # <<>>
    BY FlowWorkerAssumption
  <2>2. Len(s) \in Nat /\ Len(s) # 0
    BY <2>1, LenProperties, EmptySeq
  <2>3. SubSeq(<<>>, 1, 0) = <<>>
    BY SubSeqEmpty
  <2>4. ~EndsWith(<<>>, s)
    BY <1>1, <2>2 DEF EndsWith
  <2>5. 0 .. Len(<<>>) = {0}
    BY <1>1
  <2> QED BY <2>3, <2>4, <2>5 DEF OccursIn
<1>4. ~Carried(NothingSeen)
  BY <1>2, <1>3 DEF Carried
<1>5. Root = LongestEnding(<<>>, Beginnings(Signature))
  <2> DEFINE V == Beginnings(Signature)
  <2>1. V \subseteq Seq(Byte) /\ Root \in V
    BY BeginningsFacts, FlowWorkerAssumption
  <2>2. IsLongest(<<>>, V, Root)
    <3>1. EndsWith(<<>>, Root)
      BY <1>1, EndsWithItself
    <3>2. \A m \in V : EndsWith(<<>>, m) => Len(m) <= Len(Root)
      BY DEF EndsWith, Root
    <3> QED BY <2>1, <3>1, <3>2 DEF IsLongest
  <2> HIDE DEF V
  <2>3. LongestEnding(<<>>, V) = Root
    BY <1>1, <2>1, <2>2, LongestEndingUnique
  <2> QED BY <2>3 DEF V
<1> QED BY <1>2, <1>4, <1>5 DEF Audited, NewConnection

(* A payload that is inspected keeps it so, as long as only one end sends. *)
LEMMA AuditedPayload ==
  ASSUME \A x, y \in Side : x = y, NEW c, WellFormed(c), NEW streams, Audited(c, streams),
         ~Carried(streams), NEW t \in Tuple, NEW payload \in Payload, payload.bytes # <<>>,
         NEW side \in Side
  PROVE  Audited(Inspected(c, t, payload), [streams EXCEPT ![side] = @ \o payload.bytes])
<1> DEFINE V == Beginnings(Signature)
           bytes == payload.bytes
           w == streams[side]
           after == [streams EXCEPT ![side] = @ \o bytes]
           d == Inspected(c, t, payload)
<1>1. bytes \in Seq(Byte)
  BY FlowWorkerAssumption
<1>2. w \in Seq(Byte) /\ c.acState = LongestEnding(w, V) /\ ~c.isMalicious
  BY DEF Audited
<1> HIDE DEF bytes
<1>3. w \o bytes \in Seq(Byte)
  BY <1>1, <1>2, ConcatProperties
<1>4. after \in [Side -> Seq(Byte)] /\ after[side] = w \o bytes
  BY <1>3 DEF Audited
<1> HIDE DEF w, after
<1>5. /\ LastNode(c.acState, bytes) = LongestEnding(w \o bytes, V)
      /\ \A s \in Signature :
           OccursIn(s, w \o bytes)
             <=> OccursIn(s, w) \/ \E i \in 1 .. Len(bytes) : EndsWith(Nodes(c.acState, bytes)[i], s)
  BY <1>1, <1>2, HitFacts
<1>6. Hit(c.acState, bytes) <=> Carried(after)
  <2>1. \A s \in Signature : ~OccursIn(s, w)
    BY DEF Carried, w
  <2>2. Carried(after) <=> \E s \in Signature : OccursIn(s, w \o bytes)
    BY <1>4 DEF Carried
  <2> QED BY <1>5, <2>1, <2>2 DEF Hit
<1>7. /\ d.acState = LastNode(c.acState, bytes)
      /\ d.isMalicious <=> c.isMalicious \/ Hit(c.acState, bytes)
  BY DEF Inspected, WellFormed, Connection, bytes
<1> HIDE DEF d, V
<1>8. \A x \in Side : after[x] = w \o bytes
  BY <1>4
<1>9. Audited(d, after)
  BY <1>2, <1>4, <1>5, <1>6, <1>7, <1>8 DEF Audited, V
<1> QED BY <1>9 DEF d, after, bytes

(* The steps of the audit are steps of the worker.                         *)
LEMMA AuditStepIsFlowStep == [AuditNext]_auditVars => [FlowNext]_flowVars
BY DEF AuditNext, AuditedPacket, AuditedCollect, FlowNext, Loop, auditVars, flowVars

LEMMA AuditStep ==
  ASSUME \A x, y \in Side : x = y, TrackerInv, FlowInv, AuditInv, [AuditNext]_auditVars
  PROVE  AuditInv'
<1>1. ASSUME NEW t \in Tuple, NEW flags \in FlagSets, NEW side \in Side, NEW payload \in Payload,
             AuditedPacket(t, flags, side, payload)
      PROVE  AuditInv'
  <2> DEFINE c == conn[t]
             streams == Observed(seen[t], c, side, payload)
  <2>1. WellFormed(c) /\ OneVerdict(c) /\ Audited(c, seen[t])
    BY DEF FlowInv, AuditInv
  <2>2. /\ conn' = [conn EXCEPT ![t] = After(t, payload)]
        /\ seen' = [seen EXCEPT ![t] = streams]
    BY <1>1, PacketFacts DEF AuditedPacket
  <2>3. /\ WellFormed(Counted(c)) /\ Counted(c).isMalicious = c.isMalicious
        /\ Counted(c).acState = c.acState
    BY <2>1, CountedFacts
  <2>4. Audited(Counted(c), seen[t])
    BY <2>1, <2>3 DEF Audited
  <2>5. Audited(After(t, payload), streams)
    <3>1. CASE ShouldBypass(c)
      BY <2>4, <3>1 DEF After, Observed
    <3>2. CASE ~ShouldBypass(c) /\ payload.bytes = <<>>
      <4>1. After(t, payload) = Counted(c)
        BY <3>2 DEF After, Inspected
      <4>2. streams = seen[t]
        <5>1. seen[t] \in [Side -> Seq(Byte)]
          BY <2>1 DEF Audited
        <5>2. seen[t][side] \o <<>> = seen[t][side]
          BY <5>1, ConcatEmptySeq
        <5> QED BY <3>2, <5>1, <5>2 DEF Observed
      <4> QED BY <2>4, <4>1, <4>2
    <3>3. CASE ~ShouldBypass(c) /\ payload.bytes # <<>> /\ Carried(seen[t])
      <4>1. After(t, payload) = Inspected(Counted(c), t, payload) /\ streams = seen[t]
        BY <3>3 DEF After, Observed
      <4>2. Counted(c).isMalicious /\ ~Counted(c).isBypassed
        BY <2>1, <2>3, <3>3 DEF Audited, ShouldBypass
      <4>3. Inspected(Counted(c), t, payload).isMalicious
        BY <2>3, <4>2, InspectedFacts
      <4> QED BY <2>1, <3>3, <4>1, <4>3 DEF Audited
    <3>4. CASE ~ShouldBypass(c) /\ payload.bytes # <<>> /\ ~Carried(seen[t])
      <4>1. /\ After(t, payload) = Inspected(Counted(c), t, payload)
            /\ streams = [seen[t] EXCEPT ![side] = @ \o payload.bytes]
        BY <3>4 DEF After, Observed
      <4> DEFINE e == Counted(c)
      <4>2. WellFormed(e) /\ Audited(e, seen[t])
        BY <2>3, <2>4
      <4> HIDE DEF e, c
      <4>3. Audited(Inspected(e, t, payload), [seen[t] EXCEPT ![side] = @ \o payload.bytes])
        BY <3>4, <4>2, AuditedPayload
      <4> QED BY <4>1, <4>3 DEF e
    <3> QED BY <3>1, <3>2, <3>3, <3>4
  <2> HIDE DEF c, streams
  <2> QED BY <2>2, <2>5 DEF FlowInv, AuditInv
<1>2. CASE AuditedCollect
  <2>1. /\ conn' = [t \in Tuple |-> IF Tracked(t)' THEN conn[t] ELSE NewConnection]
        /\ seen' = [t \in Tuple |-> IF Tracked(t)' THEN seen[t] ELSE NothingSeen]
    BY <1>2 DEF AuditedCollect, Collect
  <2> QED BY <2>1, AuditedAtFirst DEF AuditInv
<1>3. CASE UNCHANGED <<conn, seen>>
  BY <1>3 DEF AuditInv
<1>4. Yield /\ UNCHANGED seen => UNCHANGED <<conn, seen>>
  BY DEF Yield
<1> QED BY <1>1, <1>2, <1>3, <1>4 DEF AuditNext, auditVars

LEMMA AuditInvariant ==
  ASSUME \A x, y \in Side : x = y
  PROVE  AuditSpec => []AuditInv
<1>1. AuditInit => TrackerInv /\ FlowInv /\ AuditInv
  BY FlowStart, AuditedAtFirst DEF AuditInit, FlowInit, AuditInv
<1>2. TrackerInv /\ FlowInv /\ AuditInv /\ [AuditNext]_auditVars
        => TrackerInv' /\ FlowInv' /\ AuditInv'
  BY AuditStepIsFlowStep, FlowTrackerStep, FlowStep, AuditStep
<1> QED BY <1>1, <1>2, PTL DEF AuditSpec

(* However a signature is cut into segments, and whatever else is sent     *)
(* before, between and after them, a flow of which one end's bytes are     *)
(* inspected is flagged when they are complete ...                         *)
THEOREM FragmentedSignaturesCaught ==
  ASSUME \A x, y \in Side : x = y
  PROVE  AuditSpec => []FragmentsCaught
<1>1. AuditInv => FragmentsCaught
  BY DEF AuditInv, Audited, FragmentsCaught
<1> QED BY <1>1, AuditInvariant, PTL

(* ... and a flow of whose bytes none are a signature's is not.            *)
THEOREM FlaggedForASignature ==
  ASSUME \A x, y \in Side : x = y
  PROVE  AuditSpec => []NoFalseAlarm
<1>1. AuditInv => NoFalseAlarm
  BY DEF AuditInv, Audited, NoFalseAlarm
<1> QED BY <1>1, AuditInvariant, PTL
=============================================================================
