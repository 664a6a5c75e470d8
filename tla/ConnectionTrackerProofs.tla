---------------------- MODULE ConnectionTrackerProofs ----------------------
(***************************************************************************)
(* Proofs about ConnectionTracker for any set of flows and any timeouts in *)
(* the order of the code's.                                                *)
(***************************************************************************)
EXTENDS ConnectionTracker, SequenceTheorems, TLAPS

USE TimeoutAssumption

TrackerInv == TrackerTypeOK /\ LruMatchesTable /\ LruChronological

(* The order of the timeouts.                                              *)
LEMMA TimeoutOrder ==
  /\ ClosedGrace \in Nat /\ HandshakeTimeout \in Nat /\ IdleTimeout \in Nat
  /\ \A s : Timeout(s) \in Nat /\ Timeout(s) <= IdleTimeout
BY DEF Timeout

(* The recency list is a sequence without repetition of exactly the        *)
(* tracked flows.                                                          *)
LEMMA ListFacts ==
  ASSUME TrackerInv
  PROVE  /\ Len(lruList) \in Nat /\ DOMAIN lruList = 1 .. Len(lruList)
         /\ \A i \in 1 .. Len(lruList) : lruList[i] \in Tuple /\ Tracked(lruList[i])
         /\ idle \in [Tuple -> Nat]
<1>1. lruList \in Seq(Tuple)
  BY DEF TrackerInv, TrackerTypeOK
<1>2. Len(lruList) \in Nat /\ DOMAIN lruList = 1 .. Len(lruList)
  BY <1>1, LenProperties
<1>3. \A i \in 1 .. Len(lruList) : lruList[i] \in Tuple
  BY <1>1, ElementOfSeq
<1>4. idle \in [Tuple -> Nat]
  BY TimeoutOrder DEF TrackerInv, TrackerTypeOK
<1> QED BY <1>2, <1>3, <1>4 DEF TrackerInv, LruMatchesTable

(* A new flow goes to the front of the list.                               *)
LEMMA NewFlowStep ==
  ASSUME TrackerInv, NEW t \in Tuple, NEW flags \in SUBSET Flag, NewFlow(t, flags)
  PROVE  TrackerInv'
<1> DEFINE n == Len(lruList)
<1>1. /\ state' = [state EXCEPT ![t] = "SYN_SENT"] /\ ~Tracked(t)
      /\ idle' = [idle EXCEPT ![t] = 0]
      /\ lruList' = <<t>> \o lruList
  BY DEF NewFlow
<1>2. /\ n \in Nat /\ DOMAIN lruList = 1 .. n
      /\ \A i \in 1 .. n : lruList[i] \in Tuple /\ Tracked(lruList[i])
      /\ idle \in [Tuple -> Nat]
      /\ lruList \in Seq(Tuple)
  BY ListFacts DEF TrackerInv, TrackerTypeOK
<1>3. /\ lruList' \in Seq(Tuple) /\ DOMAIN lruList' = 1 .. n + 1
      /\ lruList'[1] = t
      /\ \A i \in 1 .. n + 1 : i # 1 => i - 1 \in 1 .. n /\ lruList'[i] = lruList[i - 1]
  <2>1. <<t>> \in Seq(Tuple) /\ Len(<<t>>) = 1 /\ <<t>>[1] = t
    OBVIOUS
  <2> QED BY <1>1, <1>2, <2>1, ConcatProperties, LenProperties
<1>4. TrackerTypeOK'
  BY <1>1, <1>3, TimeoutOrder DEF TrackerInv, TrackerTypeOK, TcpState
<1>5. \A u \in Tuple : Tracked(u)' <=> Tracked(u) \/ u = t
  BY <1>1 DEF TrackerInv, TrackerTypeOK, Tracked
<1>6. \A i \in 1 .. n : lruList[i] # t
  BY <1>1, <1>2
<1>7. LruMatchesTable'
  <2>1. \A i, j \in DOMAIN lruList' : lruList'[i] = lruList'[j] => i = j
    <3> SUFFICES ASSUME NEW i \in 1 .. n + 1, NEW j \in 1 .. n + 1, lruList'[i] = lruList'[j]
                 PROVE  i = j
      BY <1>3
    <3>1. CASE i # 1 /\ j # 1
      <4>1. lruList[i - 1] = lruList[j - 1] /\ i - 1 \in 1 .. n /\ j - 1 \in 1 .. n
        BY <1>3, <3>1
      <4>2. i - 1 = j - 1
        BY <1>2, <4>1 DEF TrackerInv, LruMatchesTable
      <4> QED BY <1>2, <4>2
    <3>2. CASE i = 1 \/ j = 1
      BY <1>3, <1>6, <3>2
    <3> QED BY <3>1, <3>2
  <2>2. ASSUME NEW u \in Tuple
        PROVE  Tracked(u)' <=> \E i \in DOMAIN lruList' : lruList'[i] = u
    <3>1. \A i \in 1 .. n : i + 1 \in 1 .. n + 1 /\ i + 1 # 1 /\ (i + 1) - 1 = i
      BY <1>2
    <3>2. \A i \in 1 .. n : lruList'[i + 1] = lruList[i]
      BY <1>3, <3>1
    <3>3. 1 \in 1 .. n + 1
      BY <1>2
    <3>4. Tracked(u) <=> \E i \in 1 .. n : lruList[i] = u
      BY <1>2 DEF TrackerInv, LruMatchesTable
    <3>5. ASSUME Tracked(u)' PROVE \E i \in 1 .. n + 1 : lruList'[i] = u
      BY <1>3, <1>5, <3>1, <3>2, <3>3, <3>4, <3>5
    <3>6. ASSUME NEW i \in 1 .. n + 1, lruList'[i] = u PROVE Tracked(u)'
      <4>1. CASE i = 1
        BY <1>3, <1>5, <3>6, <4>1
      <4>2. CASE i # 1
        BY <1>2, <1>3, <1>5, <3>6, <4>2
      <4> QED BY <4>1, <4>2
    <3> QED BY <1>3, <3>5, <3>6
  <2> QED BY <2>1, <2>2 DEF LruMatchesTable
<1>8. LruChronological'
  <2> SUFFICES ASSUME NEW i \in 1 .. n + 1, NEW j \in 1 .. n + 1, i < j
               PROVE  idle'[lruList'[i]] <= idle'[lruList'[j]]
    BY <1>3 DEF LruChronological
  <2>1. j # 1 /\ j - 1 \in 1 .. n /\ lruList'[j] = lruList[j - 1]
    BY <1>2, <1>3
  <2>2. idle'[lruList'[j]] = idle[lruList[j - 1]] /\ lruList[j - 1] \in Tuple
    BY <1>1, <1>2, <1>6, <2>1
  <2>3. CASE i = 1
    BY <1>1, <1>2, <1>3, <2>2, <2>3
  <2>4. CASE i # 1
    <3>1. i - 1 \in 1 .. n /\ lruList'[i] = lruList[i - 1] /\ i - 1 < j - 1
      <4>1. i - 1 \in 1 .. n /\ lruList'[i] = lruList[i - 1]
        BY <1>3, <2>4
      <4>2. i - 1 < j - 1
        BY <1>2
      <4> QED BY <4>1, <4>2
    <3>2. idle'[lruList'[i]] = idle[lruList[i - 1]]
      BY <1>1, <1>2, <1>6, <3>1
    <3> QED BY <1>2, <2>1, <2>2, <3>1, <3>2 DEF TrackerInv, LruChronological
  <2> QED BY <2>3, <2>4
<1> QED BY <1>4, <1>7, <1>8 DEF TrackerInv

(* A packet of a known flow moves it to the front of the list.             *)
LEMMA KnownFlowStep ==
  ASSUME TrackerInv, NEW t \in Tuple, NEW flags \in SUBSET Flag, KnownFlow(t, flags)
  PROVE  TrackerInv'
<1> DEFINE n == Len(lruList)
<1>1. /\ state' = [state EXCEPT ![t] = NextState(state[t], flags)] /\ Tracked(t)
      /\ idle' = [idle EXCEPT ![t] = 0]
  BY DEF KnownFlow
<1>2. /\ n \in Nat /\ DOMAIN lruList = 1 .. n
      /\ \A i \in 1 .. n : lruList[i] \in Tuple /\ Tracked(lruList[i])
      /\ idle \in [Tuple -> Nat]
      /\ lruList \in Seq(Tuple)
  BY ListFacts DEF TrackerInv, TrackerTypeOK
<1>3. PICK k \in 1 .. n : lruList[k] = t /\ lruList' = MoveToFront(lruList, k)
  BY <1>2 DEF KnownFlow
<1>4. /\ DOMAIN lruList' = 1 .. n
      /\ lruList'[1] = t
      /\ \A i \in 1 .. n : i # 1 /\ i <= k => i - 1 \in 1 .. n /\ lruList'[i] = lruList[i - 1]
      /\ \A i \in 1 .. n : i > k => lruList'[i] = lruList[i]
  BY <1>2, <1>3 DEF MoveToFront
<1>5. lruList' \in Seq(Tuple)
  <2>1. \A i \in 1 .. n : lruList'[i] \in Tuple
    BY <1>2, <1>3, <1>4
  <2>2. lruList' \in [1 .. n -> Tuple]
    BY <1>3, <2>1 DEF MoveToFront
  <2>3. n \in Nat
    BY <1>2
  <2> HIDE DEF n
  <2> QED BY <2>2, <2>3, SeqDef
<1>6. NextState(state[t], flags) \in TcpState
  <2>1. state[t] \in TcpState
    BY <1>1 DEF TrackerInv, TrackerTypeOK, Tracked
  <2> QED BY <2>1 DEF NextState, TcpState
<1>6a. "NONE" \notin TcpState
  BY DEF TcpState
<1>7. TrackerTypeOK'
  BY <1>1, <1>5, <1>6, TimeoutOrder DEF TrackerInv, TrackerTypeOK
<1>8. \A u \in Tuple : Tracked(u)' <=> Tracked(u)
  BY <1>1, <1>6, <1>6a DEF TrackerInv, TrackerTypeOK, Tracked
<1>9. \A i \in 1 .. n : i # k => lruList[i] # t
  BY <1>2, <1>3 DEF TrackerInv, LruMatchesTable
(* Where an element of the new list was in the old one, and conversely.    *)
<1> DEFINE From(i) == IF i = 1 THEN k ELSE IF i <= k THEN i - 1 ELSE i
           To(i) == IF i = k THEN 1 ELSE IF i < k THEN i + 1 ELSE i
<1>10. ASSUME NEW i \in 1 .. n
       PROVE  From(i) \in 1 .. n /\ lruList'[i] = lruList[From(i)]
  <2>1. CASE i = 1
    BY <1>3, <1>4, <2>1
  <2>2. CASE i # 1 /\ i <= k
    BY <1>4, <2>2
  <2>3. CASE i # 1 /\ i > k
    BY <1>4, <2>3
  <2> QED BY <1>2, <2>1, <2>2, <2>3
<1>11. \A i \in 1 .. n : To(i) \in 1 .. n /\ From(To(i)) = i
  BY <1>2, <1>3
<1>12. \A i, j \in 1 .. n : From(i) = From(j) => i = j
  BY <1>2, <1>3
<1>13. \A i, j \in 1 .. n : i < j /\ i # 1 => From(i) < From(j) /\ From(i) # k /\ From(j) # k
  BY <1>2, <1>3
<1>14. \A i \in 1 .. n : i # 1 => From(i) # k
  BY <1>2, <1>3
<1> HIDE DEF From, To
<1>15. LruMatchesTable'
  <2>1. ASSUME NEW i \in 1 .. n, NEW j \in 1 .. n, lruList'[i] = lruList'[j]
        PROVE  i = j
    <3>1. From(i) = From(j)
      BY <1>2, <1>10, <2>1 DEF TrackerInv, LruMatchesTable
    <3> QED BY <1>12, <3>1
  <2>2. ASSUME NEW u \in Tuple
        PROVE  Tracked(u)' <=> \E i \in 1 .. n : lruList'[i] = u
    <3>1. \A i \in 1 .. n : lruList'[To(i)] = lruList[i]
      BY <1>10, <1>11
    <3>2. Tracked(u) <=> \E i \in 1 .. n : lruList[i] = u
      BY <1>2 DEF TrackerInv, LruMatchesTable
    <3> QED BY <1>8, <1>10, <1>11, <3>1, <3>2
  <2> QED BY <1>4, <2>1, <2>2 DEF LruMatchesTable
<1>16. LruChronological'
  <2> SUFFICES ASSUME NEW i \in 1 .. n, NEW j \in 1 .. n, i < j
               PROVE  idle'[lruList'[i]] <= idle'[lruList'[j]]
    BY <1>4 DEF LruChronological
  <2>1. CASE i = 1
    <3>1. idle'[lruList'[i]] = 0
      BY <1>1, <1>2, <1>4, <2>1
    <3>2. lruList'[j] \in Tuple /\ idle' \in [Tuple -> Nat]
      BY <1>1, <1>2, <1>10
    <3> QED BY <3>1, <3>2
  <2>2. CASE i # 1
    <3>1. j # 1
      BY <1>2
    <3>2. From(i) < From(j) /\ From(i) # k /\ From(j) # k
          /\ From(i) \in 1 .. n /\ From(j) \in 1 .. n
      BY <1>10, <1>13, <2>2
    <3>3. /\ idle'[lruList'[i]] = idle[lruList[From(i)]]
          /\ idle'[lruList'[j]] = idle[lruList[From(j)]]
      BY <1>1, <1>2, <1>9, <1>10, <3>2
    <3> QED BY <1>2, <3>2, <3>3 DEF TrackerInv, LruChronological
  <2> QED BY <2>1, <2>2
<1> QED BY <1>7, <1>15, <1>16 DEF TrackerInv

(* The collector removes a tail of the list, and exactly its flows.        *)
LEMMA EvictFacts ==
  ASSUME TrackerInv, EvictStaleSessions
  PROVE  \E n \in 0 .. Len(lruList) :
           /\ lruList' = SubSeq(lruList, 1, n)
           /\ n # 0 => ~Expired(lruList[n])
           /\ \A i \in n + 1 .. Len(lruList) : Expired(lruList[i])
           /\ \A t \in Tuple : IF \E i \in n + 1 .. Len(lruList) : lruList[i] = t
                               THEN state'[t] = "NONE" /\ idle'[t] = 0
                               ELSE state'[t] = state[t] /\ idle'[t] = idle[t]
           /\ DOMAIN state' = Tuple /\ DOMAIN idle' = Tuple
<1>1. PICK n \in 0 .. Len(lruList) :
        LET evicted == {lruList[i] : i \in n + 1 .. Len(lruList)}
        IN  /\ \A t \in evicted : ~Tracked(t) \/ Expired(t)
            /\ n # 0 => Tracked(lruList[n]) /\ ~Expired(lruList[n])
            /\ lruList' = SubSeq(lruList, 1, n)
            /\ state' = [t \in Tuple |-> IF t \in evicted THEN "NONE" ELSE state[t]]
            /\ idle' = [t \in Tuple |-> IF t \in evicted THEN 0 ELSE idle[t]]
  BY DEF EvictStaleSessions
<1>2. \A i \in n + 1 .. Len(lruList) : Expired(lruList[i])
  <2> SUFFICES ASSUME NEW i \in n + 1 .. Len(lruList) PROVE Expired(lruList[i])
    OBVIOUS
  <2>1. i \in 1 .. Len(lruList)
    BY ListFacts
  <2> QED BY <1>1, <2>1, ListFacts
<1> QED BY <1>1, <1>2

(* A run of the collector leaves table and list in agreement.              *)
LEMMA EvictStep ==
  ASSUME TrackerInv, EvictStaleSessions
  PROVE  TrackerInv'
<1>1. PICK n \in 0 .. Len(lruList) :
           /\ lruList' = SubSeq(lruList, 1, n)
           /\ n # 0 => ~Expired(lruList[n])
           /\ \A i \in n + 1 .. Len(lruList) : Expired(lruList[i])
           /\ \A t \in Tuple : IF \E i \in n + 1 .. Len(lruList) : lruList[i] = t
                               THEN state'[t] = "NONE" /\ idle'[t] = 0
                               ELSE state'[t] = state[t] /\ idle'[t] = idle[t]
           /\ DOMAIN state' = Tuple /\ DOMAIN idle' = Tuple
  BY EvictFacts
<1>2. /\ Len(lruList) \in Nat /\ DOMAIN lruList = 1 .. Len(lruList)
      /\ \A i \in 1 .. Len(lruList) : lruList[i] \in Tuple /\ Tracked(lruList[i])
      /\ idle \in [Tuple -> Nat]
  BY ListFacts
<1>3. /\ lruList' \in Seq(Tuple) /\ DOMAIN lruList' = 1 .. n
      /\ \A i \in 1 .. n : lruList'[i] = lruList[i]
  BY <1>1, <1>2, SubSeqProperties, LenProperties
<1>4. \A i \in 1 .. n, j \in n + 1 .. Len(lruList) : lruList[i] # lruList[j]
  BY <1>2 DEF TrackerInv, LruMatchesTable
<1>5. \A i \in 1 .. n : idle'[lruList[i]] = idle[lruList[i]] /\ state'[lruList[i]] = state[lruList[i]]
  BY <1>1, <1>2, <1>4
<1>6. TrackerTypeOK'
  <2>1. \A t \in Tuple : state'[t] \in TcpState \cup {"NONE"} /\ idle'[t] \in 0 .. IdleTimeout + 1
    BY <1>1, TimeoutOrder DEF TrackerInv, TrackerTypeOK
  <2>2. /\ state' = [t \in Tuple |-> state'[t]] /\ idle' = [t \in Tuple |-> idle'[t]]
    BY DEF EvictStaleSessions
  <2>3. state' \in [Tuple -> TcpState \cup {"NONE"}] /\ idle' \in [Tuple -> 0 .. IdleTimeout + 1]
    BY <2>1, <2>2
  <2> QED BY <1>3, <2>3 DEF TrackerTypeOK
<1>7. LruMatchesTable'
  <2>1. \A i, j \in DOMAIN lruList' : lruList'[i] = lruList'[j] => i = j
    BY <1>2, <1>3 DEF TrackerInv, LruMatchesTable
  <2>2. ASSUME NEW t \in Tuple
        PROVE  Tracked(t)' <=> \E i \in 1 .. n : lruList'[i] = t
    <3>1. Tracked(t) <=> \E i \in 1 .. Len(lruList) : lruList[i] = t
      BY <1>2 DEF TrackerInv, LruMatchesTable
    <3>2. \A i : i \in 1 .. Len(lruList) <=> i \in 1 .. n \/ i \in n + 1 .. Len(lruList)
      BY <1>2
    <3> QED BY <1>1, <1>3, <1>4, <3>1, <3>2 DEF Tracked
  <2> QED BY <1>3, <2>1, <2>2 DEF LruMatchesTable
<1>8. LruChronological'
  BY <1>2, <1>3, <1>5 DEF TrackerInv, LruChronological
<1> QED BY <1>6, <1>7, <1>8 DEF TrackerInv

(* The flows grow old together.                                            *)
LEMMA TickStep ==
  ASSUME TrackerInv, Tick
  PROVE  TrackerInv'
<1>1. /\ UNCHANGED <<state, lruList>>
      /\ idle' = [t \in Tuple |-> IF Tracked(t) /\ idle[t] <= IdleTimeout
                                  THEN idle[t] + 1 ELSE idle[t]]
  BY DEF Tick
<1>2. TrackerTypeOK'
  BY <1>1, TimeoutOrder DEF TrackerInv, TrackerTypeOK
<1>3. LruMatchesTable'
  BY <1>1 DEF TrackerInv, LruMatchesTable, Tracked
<1>4. LruChronological'
  <2> SUFFICES ASSUME NEW i \in DOMAIN lruList, NEW j \in DOMAIN lruList, i < j
               PROVE  idle'[lruList[i]] <= idle'[lruList[j]]
    BY <1>1 DEF LruChronological
  <2>1. /\ lruList[i] \in Tuple /\ Tracked(lruList[i])
        /\ lruList[j] \in Tuple /\ Tracked(lruList[j])
    BY ListFacts
  <2>2. /\ idle[lruList[i]] <= idle[lruList[j]]
        /\ idle[lruList[i]] \in 0 .. IdleTimeout + 1 /\ idle[lruList[j]] \in 0 .. IdleTimeout + 1
    BY <2>1 DEF TrackerInv, LruChronological, TrackerTypeOK
  <2> QED BY <1>1, <2>1, <2>2, TimeoutOrder
<1> QED BY <1>2, <1>3, <1>4 DEF TrackerInv

(* The empty tracker is in order.                                          *)
LEMMA TrackerStart == TrackerInit => TrackerInv
<1> SUFFICES ASSUME TrackerInit PROVE TrackerInv
  OBVIOUS
<1>1. lruList \in Seq(Tuple) /\ DOMAIN lruList = {}
  BY EmptySeq, LenProperties DEF TrackerInit
<1>2. TrackerTypeOK
  BY <1>1, TimeoutOrder DEF TrackerInit, TrackerTypeOK
<1> QED BY <1>1, <1>2 DEF TrackerInit, TrackerInv, LruMatchesTable, LruChronological, Tracked

(* A step that is none of the tracker's.                                   *)
LEMMA TrackerStutter ==
  ASSUME TrackerInv, UNCHANGED trackerVars
  PROVE  TrackerInv'
BY DEF trackerVars, TrackerInv, TrackerTypeOK, LruMatchesTable, LruChronological, Tracked

(* The three invariants of the tracker, which need one another.            *)
LEMMA TrackerInvariant == TrackerSpec => []TrackerInv
<1>1. TrackerInv /\ [TrackerNext]_trackerVars => TrackerInv'
  <2> SUFFICES ASSUME TrackerInv, [TrackerNext]_trackerVars PROVE TrackerInv'
    OBVIOUS
  <2>1. ASSUME NEW t \in Tuple, NEW flags \in SUBSET Flag, ProcessTcpPacket(t, flags)
        PROVE  TrackerInv'
    BY <2>1, TrackerStutter, NewFlowStep, KnownFlowStep DEF ProcessTcpPacket, IgnorePacket
  <2> QED BY <2>1, TrackerStutter, EvictStep, TickStep DEF TrackerNext
<1> QED BY <1>1, TrackerStart, PTL DEF TrackerSpec

(* The tracker's state is well typed.                                      *)
THEOREM TrackerTypeCorrect == TrackerSpec => []TrackerTypeOK
BY TrackerInvariant, PTL DEF TrackerInv

(* The flow table and the recency list never disagree.                     *)
THEOREM TableAndListAgree == TrackerSpec => []LruMatchesTable
BY TrackerInvariant, PTL DEF TrackerInv

(* The recency list is in the order of the flows' last packets.            *)
THEOREM ListInOrder == TrackerSpec => []LruChronological
BY TrackerInvariant, PTL DEF TrackerInv

(* Whatever the collector leaves, the flow at the back of the list has not *)
(* timed out, and no other flow was silent for longer.                     *)
LEMMA EvictLeaves ==
  ASSUME TrackerInv, EvictStaleSessions, NEW t \in Tuple, Tracked(t)'
  PROVE  /\ idle'[t] = idle[t]
         /\ \E u \in Tuple : Tracked(u)' /\ ~Expired(u)' /\ idle'[u] >= idle'[t]
<1>1. PICK n \in 0 .. Len(lruList) :
         /\ lruList' = SubSeq(lruList, 1, n)
         /\ n # 0 => ~Expired(lruList[n])
         /\ \A i \in n + 1 .. Len(lruList) : Expired(lruList[i])
         /\ \A u \in Tuple : IF \E i \in n + 1 .. Len(lruList) : lruList[i] = u
                             THEN state'[u] = "NONE" /\ idle'[u] = 0
                             ELSE state'[u] = state[u] /\ idle'[u] = idle[u]
         /\ DOMAIN state' = Tuple /\ DOMAIN idle' = Tuple
  BY EvictFacts
<1>2. /\ Len(lruList) \in Nat /\ DOMAIN lruList = 1 .. Len(lruList)
      /\ \A i \in 1 .. Len(lruList) : lruList[i] \in Tuple /\ Tracked(lruList[i])
      /\ idle \in [Tuple -> Nat]
  BY ListFacts
<1>3. /\ Tracked(t) /\ idle'[t] = idle[t]
      /\ ~ \E i \in n + 1 .. Len(lruList) : lruList[i] = t
  BY <1>1 DEF Tracked
<1>4. PICK i \in 1 .. n : lruList[i] = t
  <2>1. PICK i \in 1 .. Len(lruList) : lruList[i] = t
    BY <1>2, <1>3 DEF TrackerInv, LruMatchesTable
  <2> QED BY <1>2, <1>3, <2>1
<1>5. n \in 1 .. Len(lruList)
  BY <1>1, <1>2, <1>4
<1>6. PICK u \in Tuple : u = lruList[n] /\ Tracked(u) /\ ~Expired(u)
  BY <1>1, <1>2, <1>5
<1>7. idle[t] <= idle[u]
  <2>1. CASE i = n
    BY <1>2, <1>4, <1>6, <2>1
  <2>2. CASE i # n
    <3>1. i \in DOMAIN lruList /\ n \in DOMAIN lruList /\ i < n
      BY <1>2, <1>5, <2>2
    <3> QED BY <1>4, <1>6, <3>1 DEF TrackerInv, LruChronological
  <2> QED BY <2>1, <2>2
<1>8. ASSUME NEW j \in n + 1 .. Len(lruList)
      PROVE  lruList[j] # u
  <2>1. j \in DOMAIN lruList /\ n \in DOMAIN lruList /\ j # n
    BY <1>2, <1>5
  <2> QED BY <1>6, <2>1 DEF TrackerInv, LruMatchesTable
<1>9. state'[u] = state[u] /\ idle'[u] = idle[u]
  BY <1>1, <1>8
<1>10. Tracked(u)' /\ ~Expired(u)'
  BY <1>6, <1>9 DEF Tracked, Expired
<1>11. idle'[u] >= idle'[t]
  BY <1>2, <1>3, <1>7, <1>9
<1> QED BY <1>3, <1>10, <1>11

(* The collector removes every flow that was idle for longer than the      *)
(* longest timeout: an expired flow further back cannot hide behind it.    *)
THEOREM CollectorNeverStuck == TrackerSpec => LongIdleCollected
<1>1. TrackerInv /\ [TrackerNext]_trackerVars
        => [EvictStaleSessions =>
              \A t \in Tuple : Tracked(t)' => idle[t] <= IdleTimeout]_trackerVars
  <2> SUFFICES ASSUME TrackerInv, EvictStaleSessions, NEW t \in Tuple, Tracked(t)'
               PROVE  idle[t] <= IdleTimeout
    OBVIOUS
  <2>1. /\ idle'[t] = idle[t]
        /\ \E u \in Tuple : Tracked(u)' /\ ~Expired(u)' /\ idle'[u] >= idle'[t]
    BY EvictLeaves
  <2>2. PICK u \in Tuple : Tracked(u)' /\ ~Expired(u)' /\ idle'[u] >= idle'[t]
    BY <2>1
  <2>3. idle \in [Tuple -> Nat] /\ idle' \in [Tuple -> Nat]
    BY EvictStep, TimeoutOrder DEF TrackerInv, TrackerTypeOK
  <2>4. idle'[u] <= IdleTimeout
    BY <2>2, <2>3, TimeoutOrder DEF Expired
  <2> QED BY <2>1, <2>2, <2>3, <2>4, TimeoutOrder
<1> QED BY <1>1, TrackerInvariant, PTL DEF TrackerSpec, LongIdleCollected
=============================================================================
