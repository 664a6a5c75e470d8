--------------------------- MODULE PipelineProofs ---------------------------
(***************************************************************************)
(* Proofs about Pipeline for any number of workers, slots and packets, any *)
(* queue capacity and any assignment of flows to workers, with interrupts  *)
(* and failing thread creation or without.                                 *)
(***************************************************************************)
EXTENDS PipelineAudit, SequenceTheorems, TLAPS

USE PipelineAssumption

(* What main's packet is at each of its control points, and that a worker  *)
(* has a packet exactly while it is busy.                                  *)
ControlInv ==
  /\ mainPc \in {"acquireTest", "acquire", "copy", "dispatchTest", "dispatch",
                 "rollback"} <=> parsed # NoPacket
  /\ mainPc \in {"acquireTest", "acquire"} => parsed.slot = NoSlot
  /\ mainPc = "copy" => parsed.slot \in Slots
  /\ \A w \in Workers : workerPc[w] = "busy" <=> packet[w] # NoPacket

(* The slots of packets are numbers of the pool.                           *)
LEMMA PacketFields ==
  ASSUME NEW p \in Packet
  PROVE  /\ p.number \in 1 .. MaxPackets /\ p.flow \in Flows
         /\ p.slot \in Slots \cup {NoSlot} /\ p # NoPacket
<1>1. p # NoPacket
  OBVIOUS
<1>2. p.number \in 1 .. MaxPackets /\ p.flow \in Flows /\ p.slot \in Slots \cup {NoSlot}
  BY DEF Packet
<1> QED BY <1>1, <1>2

(* Releasing a slot keeps the pool well typed.                             *)
LEMMA ReleaseType ==
  ASSUME NEW slot, freeSlots \in Seq(Slots), isFree \in [Slots -> BOOLEAN],
         ReleaseSlot(slot)
  PROVE  freeSlots' \in Seq(Slots) /\ isFree' \in [Slots -> BOOLEAN]
<1>1. CASE slot \in Slots /\ ~isFree[slot]
  <2>1. /\ freeSlots' = Append(freeSlots, slot)
        /\ isFree' = [isFree EXCEPT ![slot] = TRUE]
    BY <1>1 DEF ReleaseSlot
  <2>2. freeSlots' \in Seq(Slots)
    BY <1>1, <2>1, AppendProperties
  <2> QED BY <2>1, <2>2
<1>2. CASE ~(slot \in Slots /\ ~isFree[slot])
  BY <1>2 DEF ReleaseSlot
<1> QED BY <1>1, <1>2

(* Types, and what the program counters say of the threads' variables.     *)
LEMMA TypeInvariant == Spec => [](TypeOK /\ ControlInv)
<1>1. Init => TypeOK /\ ControlInv
  <2> SUFFICES ASSUME Init PROVE TypeOK /\ ControlInv
    OBVIOUS
  <2>1. freeSlots \in [1 .. NumSlots -> Slots]
    BY DEF Init, Slots
  <2>2. freeSlots \in Seq(Slots)
    BY <2>1, SeqDef
  <2>3. <<>> \in Seq(Packet)
    BY EmptySeq
  <2>4. ControlInv
    BY DEF Init, ControlInv
  <2>5. TypeOK
    BY <2>2, <2>3 DEF Init, TypeOK
  <2> QED BY <2>4, <2>5
<1>2. TypeOK /\ ControlInv /\ [Next]_vars => TypeOK' /\ ControlInv'
  <2> SUFFICES ASSUME TypeOK, ControlInv, [Next]_vars
               PROVE  TypeOK' /\ ControlInv'
    OBVIOUS
  <2> USE DEF TypeOK, ControlInv, Goto, poolVars, workerVars, mainVars
  <2>1. ASSUME NEW w \in Workers, Spawn(w) PROVE TypeOK' /\ ControlInv'
    <3>1. workerPc[w] = "unborn" /\ parsed = NoPacket
      BY <2>1 DEF Spawn, Workers
    <3>2. /\ workerPc' = [workerPc EXCEPT ![w] = "loop"]
          /\ mainPc' \in {"open", "spawn"} /\ parsed' = parsed
          /\ UNCHANGED <<keepRunning, count, freeSlots, isFree, slotData, queues, packet>>
      BY <2>1 DEF Spawn
    <3> QED BY <3>1, <3>2
  <2>2. CASE SpawnFail
    BY <2>2 DEF SpawnFail
  <2>3. CASE Open
    BY <2>3 DEF Open
  <2>4. ASSUME NEW flow \in Flows, NEW hasPayload \in BOOLEAN, Read(flow, hasPayload)
        PROVE  TypeOK' /\ ControlInv'
    <3>1. parsed' \in Packet /\ parsed' # NoPacket /\ parsed'.slot = NoSlot
      BY <2>4, PacketFields DEF Read, Packet
    <3>2. count' \in 0 .. MaxPackets
      BY <2>4 DEF Read
    <3> QED BY <2>4, <3>1, <3>2 DEF Read
  <2>5. CASE EndOfCapture
    BY <2>5 DEF EndOfCapture
  <2>6. CASE AcquireTest
    BY <2>6 DEF AcquireTest
  <2>7. CASE Acquire
    <3>1. /\ freeSlots' \in Seq(Slots) /\ isFree' \in [Slots -> BOOLEAN]
          /\ Head(freeSlots) \in Slots
      BY <2>7, HeadTailProperties DEF Acquire, AcquireSlot
    <3>2. parsed' \in Packet /\ parsed' # NoPacket /\ parsed'.slot \in Slots
      BY <2>7, <3>1, PacketFields DEF Acquire, Packet
    <3> QED BY <2>7, <3>1, <3>2 DEF Acquire
  <2>8. CASE Exhausted
    BY <2>8 DEF Exhausted
  <2>9. CASE Copy
    <3>1. slotData' \in [Slots -> 0 .. MaxPackets]
      BY <2>9, PacketFields DEF Copy
    <3> QED BY <2>9, <3>1 DEF Copy
  <2>10. CASE DispatchTest
    BY <2>10 DEF DispatchTest
  <2>11. CASE Dispatch
    <3>1. parsed \in Packet
      BY <2>11 DEF Dispatch
    <3>2. Append(queues[WorkerOf[parsed.flow]], parsed) \in Seq(Packet)
      BY <3>1, PacketFields, AppendProperties
    <3> QED BY <2>11, <3>2 DEF Dispatch
  <2>12. CASE QueueFull
    BY <2>12 DEF QueueFull
  <2>13. CASE Rollback
    BY <2>13, ReleaseType DEF Rollback
  <2>14. CASE Stop
    BY <2>14 DEF Stop
  <2>15. CASE Join
    BY <2>15 DEF Join
  <2>16. ASSUME NEW w \in Workers, LoopTest(w) PROVE TypeOK' /\ ControlInv'
    BY <2>16 DEF LoopTest
  <2>17. ASSUME NEW w \in Workers, Take(w) PROVE TypeOK' /\ ControlInv'
    <3>1. Head(queues[w]) \in Packet /\ Tail(queues[w]) \in Seq(Packet)
      BY <2>17, HeadTailProperties DEF Take
    <3>2. Head(queues[w]) # NoPacket
      BY <3>1
    <3> QED BY <2>17, <3>1, <3>2 DEF Take
  <2>18. ASSUME NEW w \in Workers, Miss(w) PROVE TypeOK' /\ ControlInv'
    BY <2>18 DEF Miss
  <2>19. ASSUME NEW w \in Workers, Leave(w) PROVE TypeOK' /\ ControlInv'
    BY <2>19 DEF Leave
  <2>20. ASSUME NEW w \in Workers, StopTest(w) PROVE TypeOK' /\ ControlInv'
    BY <2>20 DEF StopTest
  <2>21. ASSUME NEW w \in Workers, Finish(w) PROVE TypeOK' /\ ControlInv'
    BY <2>21, ReleaseType DEF Finish
  <2>22. CASE Interrupt
    BY <2>22 DEF Interrupt
  <2>23. CASE UNCHANGED vars
    BY <2>23 DEF vars
  <2> QED
    BY <2>1, <2>2, <2>3, <2>4, <2>5, <2>6, <2>7, <2>8, <2>9, <2>10, <2>11, <2>12,
       <2>13, <2>14, <2>15, <2>16, <2>17, <2>18, <2>19, <2>20, <2>21, <2>22, <2>23
       DEF Next, Main, Worker, Terminated
<1> QED BY <1>1, <1>2, PTL DEF Spec

(* The pipeline's state is well typed for all sizes.                       *)
THEOREM TypeCorrect == Spec => []TypeOK
BY TypeInvariant, PTL
-----------------------------------------------------------------------------
(* The pool and its flags agree, and no slot is free twice.                *)
PoolInv ==
  /\ \A i, j \in DOMAIN freeSlots : freeSlots[i] = freeSlots[j] => i = j
  /\ \A s \in Slots : isFree[s] <=> \E i \in DOMAIN freeSlots : freeSlots[i] = s

(* Who has borrowed slot s.                                                *)
MainHas(s) == parsed # NoPacket /\ parsed.slot = s
QueueHas(w, i, s) == i \in DOMAIN queues[w] /\ queues[w][i].slot = s
WorkerHas(w, s) == packet[w] # NoPacket /\ packet[w].slot = s

(* A slot is free or it is borrowed, and it has at most one borrower.      *)
BorrowInv(s) ==
  /\ ~isFree[s] <=> \/ MainHas(s)
                    \/ \E w \in Workers : WorkerHas(w, s) \/ \E i \in Nat : QueueHas(w, i, s)
  /\ MainHas(s) => \A w \in Workers : ~WorkerHas(w, s) /\ \A i \in Nat : ~QueueHas(w, i, s)
  /\ \A v, w \in Workers :
       WorkerHas(v, s) => (WorkerHas(w, s) => v = w) /\ \A i \in Nat : ~QueueHas(w, i, s)
  /\ \A v, w \in Workers : \A i, j \in Nat :
       QueueHas(v, i, s) /\ QueueHas(w, j, s) => v = w /\ i = j

OwnershipInv == PoolInv /\ \A s \in Slots : BorrowInv(s)

(* Taking the first free slot.                                             *)
LEMMA AcquirePool ==
  ASSUME TypeOK, PoolInv, AcquireSlot
  PROVE  /\ PoolInv'
         /\ Head(freeSlots) \in Slots /\ isFree[Head(freeSlots)]
         /\ isFree' = [isFree EXCEPT ![Head(freeSlots)] = FALSE]
<1> DEFINE h == Head(freeSlots)
           n == Len(freeSlots)
<1>1. /\ freeSlots \in Seq(Slots) /\ freeSlots # <<>>
      /\ isFree \in [Slots -> BOOLEAN]
      /\ freeSlots' = Tail(freeSlots)
      /\ isFree' = [isFree EXCEPT ![h] = FALSE]
  BY DEF TypeOK, AcquireSlot
<1>2. /\ n \in Nat \ {0} /\ DOMAIN freeSlots = 1 .. n
      /\ h = freeSlots[1] /\ h \in Slots
      /\ \A i \in 1 .. n : freeSlots[i] \in Slots
  BY <1>1, LenProperties, EmptySeq, ElementOfSeq, HeadTailProperties
<1>3. /\ DOMAIN freeSlots' = 1 .. n - 1
      /\ \A i \in 1 .. n - 1 : freeSlots'[i] = freeSlots[i + 1]
  BY <1>1, <1>2, HeadTailProperties, LenProperties
<1>4. isFree[h]
  BY <1>2 DEF PoolInv
<1>5. \A i, j \in DOMAIN freeSlots' : freeSlots'[i] = freeSlots'[j] => i = j
  <2> SUFFICES ASSUME NEW i \in 1 .. n - 1, NEW j \in 1 .. n - 1,
                      freeSlots[i + 1] = freeSlots[j + 1]
               PROVE  i = j
    BY <1>3
  <2>1. i + 1 \in DOMAIN freeSlots /\ j + 1 \in DOMAIN freeSlots
    BY <1>2
  <2> QED BY <1>2, <2>1 DEF PoolInv
<1>6. ASSUME NEW s \in Slots
      PROVE  isFree'[s] <=> \E i \in DOMAIN freeSlots' : freeSlots'[i] = s
  <2>1. CASE s = h
    <3>1. ~isFree'[s]
      BY <1>1, <1>2, <2>1
    <3>2. ASSUME NEW i \in 1 .. n - 1 PROVE freeSlots'[i] # s
      <4>1. i + 1 \in DOMAIN freeSlots /\ 1 \in DOMAIN freeSlots /\ i + 1 # 1
        BY <1>2
      <4>2. freeSlots[i + 1] # freeSlots[1]
        BY <4>1 DEF PoolInv
      <4> QED BY <1>2, <1>3, <2>1, <4>2
    <3> QED BY <1>3, <3>1, <3>2
  <2>2. CASE s # h
    <3>1. isFree'[s] = isFree[s]
      BY <1>1, <1>2, <2>2
    <3>2. ASSUME NEW i \in DOMAIN freeSlots, freeSlots[i] = s
          PROVE  i - 1 \in DOMAIN freeSlots' /\ freeSlots'[i - 1] = s
      <4>1. i # 1 /\ i \in 1 .. n
        BY <1>2, <2>2, <3>2
      <4>2. i - 1 \in 1 .. n - 1 /\ (i - 1) + 1 = i
        BY <1>2, <4>1
      <4> QED BY <1>3, <3>2, <4>2
    <3>3. ASSUME NEW i \in DOMAIN freeSlots', freeSlots'[i] = s
          PROVE  i + 1 \in DOMAIN freeSlots /\ freeSlots[i + 1] = s
      BY <1>2, <1>3, <3>3
    <3> QED BY <3>1, <3>2, <3>3 DEF PoolInv
  <2> QED BY <2>1, <2>2
<1> QED BY <1>1, <1>2, <1>4, <1>5, <1>6 DEF PoolInv

(* Giving back a borrowed slot, or none.                                   *)
LEMMA ReleasePool ==
  ASSUME NEW slot, TypeOK, PoolInv, ReleaseSlot(slot)
  PROVE  /\ PoolInv'
         /\ \A s \in Slots : isFree'[s] <=> isFree[s] \/ s = slot
<1> DEFINE n == Len(freeSlots)
<1>1. freeSlots \in Seq(Slots) /\ isFree \in [Slots -> BOOLEAN]
  BY DEF TypeOK
<1>2. n \in Nat /\ DOMAIN freeSlots = 1 .. n
  BY <1>1, LenProperties
<1>3. CASE slot \in Slots /\ ~isFree[slot]
  <2>1. /\ freeSlots' = Append(freeSlots, slot)
        /\ isFree' = [isFree EXCEPT ![slot] = TRUE]
    BY <1>3 DEF ReleaseSlot
  <2>2. /\ DOMAIN freeSlots' = 1 .. n + 1
        /\ \A i \in 1 .. n : freeSlots'[i] = freeSlots[i]
        /\ freeSlots'[n + 1] = slot
    BY <1>1, <1>2, <1>3, <2>1, AppendProperties, LenProperties
  <2>3. \A s \in Slots : isFree'[s] <=> isFree[s] \/ s = slot
    BY <1>1, <1>3, <2>1
  <2>4. \A i \in 1 .. n : freeSlots[i] # slot
    BY <1>2, <1>3 DEF PoolInv
  <2>5. \A i, j \in DOMAIN freeSlots' : freeSlots'[i] = freeSlots'[j] => i = j
    <3> SUFFICES ASSUME NEW i \in 1 .. n + 1, NEW j \in 1 .. n + 1,
                        freeSlots'[i] = freeSlots'[j]
                 PROVE  i = j
      BY <2>2
    <3>1. CASE i \in 1 .. n /\ j \in 1 .. n
      BY <1>2, <2>2, <3>1 DEF PoolInv
    <3>2. CASE i = n + 1 \/ j = n + 1
      BY <1>2, <2>2, <2>4, <3>2
    <3> QED BY <1>2, <3>1, <3>2
  <2>6. ASSUME NEW s \in Slots
        PROVE  isFree'[s] <=> \E i \in DOMAIN freeSlots' : freeSlots'[i] = s
    <3>1. (\E i \in DOMAIN freeSlots' : freeSlots'[i] = s)
            <=> (\E i \in DOMAIN freeSlots : freeSlots[i] = s) \/ s = slot
      <4>1. \A i : i \in 1 .. n + 1 <=> i \in 1 .. n \/ i = n + 1
        BY <1>2
      <4> QED BY <1>2, <2>2, <4>1
    <3> QED BY <2>3, <3>1 DEF PoolInv
  <2> QED BY <2>3, <2>5, <2>6 DEF PoolInv
<1>4. CASE slot \notin Slots \/ isFree[slot]
  <2>1. UNCHANGED <<freeSlots, isFree>>
    BY <1>4 DEF ReleaseSlot
  <2> QED BY <1>4, <2>1 DEF PoolInv
<1> QED BY <1>3, <1>4

(* A slot is never shared, leaked or freed twice.                          *)
LEMMA OwnershipInvariant == Spec => []OwnershipInv
<1>1. Init => OwnershipInv
  <2> SUFFICES ASSUME Init PROVE OwnershipInv
    OBVIOUS
  <2>1. DOMAIN freeSlots = 1 .. NumSlots /\ \A i \in 1 .. NumSlots : freeSlots[i] = i - 1
    BY DEF Init
  <2>2. \A s \in Slots : s + 1 \in 1 .. NumSlots /\ freeSlots[s + 1] = s
    BY <2>1 DEF Slots
  <2>3. PoolInv
    <3>1. \A i, j \in DOMAIN freeSlots : freeSlots[i] = freeSlots[j] => i = j
      BY <2>1
    <3>2. \A s \in Slots : isFree[s]
      BY DEF Init
    <3>3. \A s \in Slots : \E i \in DOMAIN freeSlots : freeSlots[i] = s
      BY <2>1, <2>2
    <3> QED BY <3>1, <3>2, <3>3 DEF PoolInv
  <2>4. ASSUME NEW s \in Slots PROVE BorrowInv(s)
    <3>1. isFree[s] /\ ~MainHas(s)
      BY DEF Init, MainHas
    <3>2. \A w \in Workers : ~WorkerHas(w, s) /\ \A i \in Nat : ~QueueHas(w, i, s)
      BY DEF Init, WorkerHas, QueueHas
    <3> QED BY <3>1, <3>2 DEF BorrowInv
  <2> QED BY <2>3, <2>4 DEF OwnershipInv
<1>2. TypeOK /\ ControlInv /\ OwnershipInv /\ [Next]_vars => OwnershipInv'
  <2> SUFFICES ASSUME TypeOK, ControlInv, OwnershipInv, [Next]_vars
               PROVE  OwnershipInv'
    OBVIOUS
  <2> USE DEF OwnershipInv, poolVars, workerVars, mainVars
  <2>same. ASSUME UNCHANGED <<freeSlots, isFree, queues, packet>>,
                  \A s \in Slots : MainHas(s)' <=> MainHas(s)
           PROVE  OwnershipInv'
    <3>1. PoolInv'
      BY <2>same DEF PoolInv
    <3>2. \A w \in Workers, s \in Slots, i \in Nat :
            (WorkerHas(w, s)' <=> WorkerHas(w, s)) /\ (QueueHas(w, i, s)' <=> QueueHas(w, i, s))
      BY <2>same DEF WorkerHas, QueueHas
    <3>3. ASSUME NEW s \in Slots PROVE BorrowInv(s)'
      BY <2>same, <3>2 DEF BorrowInv
    <3> QED BY <3>1, <3>3
  <2>1. CASE Acquire
    <3> DEFINE h == Head(freeSlots)
    <3>1. /\ PoolInv' /\ h \in Slots /\ isFree[h]
          /\ isFree' = [isFree EXCEPT ![h] = FALSE]
      BY <2>1, AcquirePool DEF Acquire
    <3>2. /\ parsed # NoPacket /\ parsed.slot = NoSlot /\ parsed \in Packet
          /\ parsed' = [parsed EXCEPT !.slot = h]
          /\ UNCHANGED <<queues, packet>>
      BY <2>1 DEF Acquire, ControlInv, TypeOK
    <3>3. parsed'.slot = h /\ parsed' # NoPacket
      BY <3>1, <3>2, PacketFields DEF Packet
    <3>4. ASSUME NEW s \in Slots PROVE BorrowInv(s)'
      <4>1. MainHas(s)' <=> s = h
        BY <3>3 DEF MainHas
      <4>2. ~MainHas(s)
        BY <3>2 DEF MainHas
      <4>3. \A w \in Workers, i \in Nat :
              (WorkerHas(w, s)' <=> WorkerHas(w, s)) /\ (QueueHas(w, i, s)' <=> QueueHas(w, i, s))
        BY <3>2 DEF WorkerHas, QueueHas
      <4>4. isFree'[s] <=> isFree[s] /\ s # h
        BY <3>1 DEF TypeOK
      <4> QED BY <3>1, <4>1, <4>2, <4>3, <4>4 DEF BorrowInv
    <3> QED BY <3>1, <3>4
  <2>2. CASE Dispatch
    <3> DEFINE v == WorkerOf[parsed.flow]
               n == Len(queues[v])
    <3>1. /\ parsed \in Packet /\ v \in Workers /\ n \in Nat
          /\ queues' = [queues EXCEPT ![v] = Append(@, parsed)]
          /\ parsed' = NoPacket
          /\ UNCHANGED <<freeSlots, isFree, packet>>
      BY <2>2, PacketFields, LenProperties DEF Dispatch, ControlInv, TypeOK
    <3>2. ASSUME NEW s \in Slots, NEW w \in Workers, NEW i \in Nat
          PROVE  QueueHas(w, i, s)' <=> QueueHas(w, i, s) \/ (w = v /\ i = n + 1 /\ MainHas(s))
      <4>1. CASE w = v
        <5>1. /\ queues'[v] = Append(queues[v], parsed)
              /\ queues[v] \in Seq(Packet)
          BY <3>1 DEF TypeOK
        <5>2. /\ DOMAIN queues'[v] = 1 .. n + 1
              /\ DOMAIN queues[v] = 1 .. n
              /\ \A k \in 1 .. n : queues'[v][k] = queues[v][k]
              /\ queues'[v][n + 1] = parsed
          BY <3>1, <5>1, AppendProperties, LenProperties
        <5>3. MainHas(s) <=> parsed.slot = s
          BY <3>1, PacketFields DEF MainHas
        <5>4. /\ i \in 1 .. n + 1 <=> i \in 1 .. n \/ i = n + 1
              /\ n + 1 \notin 1 .. n
          BY <3>1
        <5> QED BY <4>1, <5>2, <5>3, <5>4 DEF QueueHas
      <4>2. CASE w # v
        BY <3>1, <4>2 DEF QueueHas, TypeOK
      <4> QED BY <4>1, <4>2
    <3>3. PoolInv'
      BY <3>1 DEF PoolInv
    <3>4. ASSUME NEW s \in Slots PROVE BorrowInv(s)'
      <4>1. ~MainHas(s)'
        BY <3>1 DEF MainHas
      <4>2. \A w \in Workers : WorkerHas(w, s)' <=> WorkerHas(w, s)
        BY <3>1 DEF WorkerHas
      <4>3. n + 1 \in Nat /\ isFree'[s] = isFree[s]
        BY <3>1
      <4> QED BY <3>1, <3>2, <4>1, <4>2, <4>3 DEF BorrowInv
    <3> QED BY <3>3, <3>4
  <2>3. CASE Rollback
    <3>1. /\ PoolInv'
          /\ \A s \in Slots : isFree'[s] <=> isFree[s] \/ MainHas(s)
          /\ parsed' = NoPacket /\ UNCHANGED <<queues, packet>>
      <4>1. ReleaseSlot(parsed.slot) /\ parsed # NoPacket
        BY <2>3 DEF Rollback, ControlInv
      <4> QED BY <2>3, <4>1, ReleasePool DEF Rollback, MainHas
    <3>2. ASSUME NEW s \in Slots PROVE BorrowInv(s)'
      <4>1. ~MainHas(s)'
        BY <3>1 DEF MainHas
      <4>2. \A w \in Workers, i \in Nat :
              (WorkerHas(w, s)' <=> WorkerHas(w, s)) /\ (QueueHas(w, i, s)' <=> QueueHas(w, i, s))
        BY <3>1 DEF WorkerHas, QueueHas
      <4> QED BY <3>1, <4>1, <4>2 DEF BorrowInv
    <3> QED BY <3>1, <3>2
  <2>4. ASSUME NEW v \in Workers, Take(v) PROVE OwnershipInv'
    <3> DEFINE q == queues[v]
               n == Len(q)
    <3>1. /\ packet[v] = NoPacket
          /\ packet' = [packet EXCEPT ![v] = Head(q)]
          /\ queues' = [queues EXCEPT ![v] = Tail(q)]
          /\ UNCHANGED <<freeSlots, isFree, parsed>>
          /\ q \in Seq(Packet) /\ q # <<>>
      BY <2>4 DEF Take, ControlInv, TypeOK
    <3>2. /\ n \in Nat \ {0} /\ DOMAIN q = 1 .. n
          /\ Head(q) = q[1] /\ Head(q) \in Packet
          /\ DOMAIN Tail(q) = 1 .. n - 1
          /\ \A i \in 1 .. n - 1 : Tail(q)[i] = q[i + 1]
      BY <3>1, LenProperties, EmptySeq, HeadTailProperties
    <3>3. ASSUME NEW s \in Slots, NEW w \in Workers
          PROVE  /\ WorkerHas(w, s)' <=> WorkerHas(w, s) \/ (w = v /\ QueueHas(v, 1, s))
                 /\ w = v => ~WorkerHas(w, s)
      <4>1. CASE w = v
        <5>1. packet'[w] = q[1] /\ q[1] # NoPacket /\ 1 \in DOMAIN q
          BY <3>1, <3>2, <4>1, PacketFields DEF TypeOK
        <5> QED BY <3>1, <4>1, <5>1 DEF WorkerHas, QueueHas
      <4>2. CASE w # v
        BY <3>1, <4>2 DEF WorkerHas, TypeOK
      <4> QED BY <4>1, <4>2
    <3>4. ASSUME NEW s \in Slots, NEW w \in Workers, NEW i \in Nat
          PROVE  QueueHas(w, i, s)' <=> IF w = v THEN i # 0 /\ QueueHas(w, i + 1, s)
                                                 ELSE QueueHas(w, i, s)
      <4>1. CASE w = v
        <5>1. queues'[w] = Tail(q)
          BY <3>1, <4>1 DEF TypeOK
        <5>2. i \in 1 .. n - 1 <=> i # 0 /\ i + 1 \in 1 .. n
          BY <3>2
        <5> QED BY <3>2, <4>1, <5>1, <5>2 DEF QueueHas
      <4>2. CASE w # v
        BY <3>1, <4>2 DEF QueueHas, TypeOK
      <4> QED BY <4>1, <4>2
    <3>5. PoolInv'
      BY <3>1 DEF PoolInv
    <3>6. ASSUME NEW s \in Slots PROVE BorrowInv(s)'
      <4>1. (MainHas(s)' <=> MainHas(s)) /\ isFree'[s] = isFree[s]
        BY <3>1 DEF MainHas
      <4>2. ASSUME NEW w \in Workers PROVE ~QueueHas(w, 0, s)
        <5>1. queues[w] \in Seq(Packet)
          BY DEF TypeOK
        <5>2. DOMAIN queues[w] = 1 .. Len(queues[w]) /\ Len(queues[w]) \in Nat
          BY <5>1, LenProperties
        <5> QED BY <5>2 DEF QueueHas
      <4>3. \A i \in Nat : i # 0 => i = 1 \/ \E j \in Nat : j # 0 /\ i = j + 1
        <5>1. \A i \in Nat : i # 0 /\ i # 1 => i - 1 \in Nat /\ i - 1 # 0 /\ i = (i - 1) + 1
          OBVIOUS
        <5> QED BY <5>1
      <4>4. BorrowInv(s)
        OBVIOUS
      <4>5. (\E w \in Workers : WorkerHas(w, s)' \/ \E i \in Nat : QueueHas(w, i, s)')
              <=> (\E w \in Workers : WorkerHas(w, s) \/ \E i \in Nat : QueueHas(w, i, s))
        <5>1. ASSUME NEW w \in Workers, NEW i \in Nat, QueueHas(w, i, s)
              PROVE  WorkerHas(w, s)' \/ \E j \in Nat : QueueHas(w, j, s)'
          BY <3>3, <3>4, <4>2, <4>3, <5>1
        <5>2. \A i \in Nat : i + 1 \in Nat
          OBVIOUS
        <5> QED BY <3>3, <3>4, <5>1, <5>2
      <4>6. MainHas(s)' => \A w \in Workers : ~WorkerHas(w, s)' /\ \A i \in Nat : ~QueueHas(w, i, s)'
        <5>1. \A i \in Nat : i + 1 \in Nat
          OBVIOUS
        <5> QED BY <3>3, <3>4, <4>1, <4>4, <5>1 DEF BorrowInv
      <4>7. ASSUME NEW u \in Workers, NEW w \in Workers, WorkerHas(u, s)'
            PROVE  (WorkerHas(w, s)' => u = w) /\ \A i \in Nat : ~QueueHas(w, i, s)'
        <5>1. \A i \in Nat : i + 1 \in Nat /\ (i # 0 => i + 1 # 1)
          OBVIOUS
        <5> QED BY <3>3, <3>4, <4>4, <4>7, <5>1 DEF BorrowInv
      <4>8. ASSUME NEW u \in Workers, NEW w \in Workers, NEW i \in Nat, NEW j \in Nat,
                   QueueHas(u, i, s)', QueueHas(w, j, s)'
            PROVE  u = w /\ i = j
        <5>1. i + 1 \in Nat /\ j + 1 \in Nat /\ (i + 1 = j + 1 => i = j)
          OBVIOUS
        <5> QED BY <3>4, <4>4, <4>8, <5>1 DEF BorrowInv
      <4> QED BY <4>1, <4>4, <4>5, <4>6, <4>7, <4>8 DEF BorrowInv
    <3> QED BY <3>5, <3>6
  <2>5. ASSUME NEW v \in Workers, Finish(v) PROVE OwnershipInv'
    <3>1. packet[v] # NoPacket
      BY <2>5 DEF Finish, ControlInv
    <3>2. /\ PoolInv'
          /\ \A s \in Slots : isFree'[s] <=> isFree[s] \/ WorkerHas(v, s)
      BY <2>5, <3>1, ReleasePool DEF Finish, WorkerHas
    <3>3. packet' = [packet EXCEPT ![v] = NoPacket] /\ UNCHANGED <<parsed, queues>>
      BY <2>5 DEF Finish
    <3>4. ASSUME NEW s \in Slots PROVE BorrowInv(s)'
      <4>1. \A w \in Workers : WorkerHas(w, s)' <=> WorkerHas(w, s) /\ w # v
        BY <3>3 DEF WorkerHas, TypeOK
      <4>2. \A w \in Workers, i \in Nat : QueueHas(w, i, s)' <=> QueueHas(w, i, s)
        BY <3>3 DEF QueueHas
      <4>3. MainHas(s)' <=> MainHas(s)
        BY <3>3 DEF MainHas
      <4> QED BY <3>2, <4>1, <4>2, <4>3 DEF BorrowInv
    <3> QED BY <3>2, <3>4
  <2>6. ASSUME NEW flow \in Flows, NEW hasPayload \in BOOLEAN, Read(flow, hasPayload)
        PROVE  OwnershipInv'
    <3>1. \A s \in Slots : ~MainHas(s) /\ ~MainHas(s)'
      BY <2>6 DEF Read, MainHas, ControlInv
    <3> QED BY <2>6, <2>same, <3>1 DEF Read
  <2>7. CASE UNCHANGED <<freeSlots, isFree, queues, packet, parsed>>
    BY <2>7, <2>same DEF MainHas
  <2> QED
    BY <2>1, <2>2, <2>3, <2>4, <2>5, <2>6, <2>7
       DEF Next, Main, Worker, Terminated, Interrupt, vars, Spawn, SpawnFail, Open,
           EndOfCapture, AcquireTest, Exhausted, Copy, DispatchTest, QueueFull,
           Stop, Join, LoopTest, Miss, Leave, StopTest
<1> QED BY <1>1, <1>2, TypeInvariant, PTL DEF Spec

(* Every slot of the pool has exactly one owner at every moment: it is in  *)
(* the free list, in main's hands, in one queued packet or with one worker.*)
THEOREM SlotOwnership == Spec => []OneOwner
<1>1. TypeOK /\ OwnershipInv => OneOwner
  <2> SUFFICES ASSUME TypeOK, OwnershipInv, NEW s \in Slots
               PROVE  /\ \E owner \in OwnersOf(s) : OwnersOf(s) = {owner}
                      /\ isFree[s] <=> \E i \in DOMAIN freeSlots : freeSlots[i] = s
    BY DEF OneOwner
  <2>0. BorrowInv(s) /\ PoolInv
    BY DEF OwnershipInv
  <2> DEFINE Queues == UNION {InQueue(w, s) : w \in Workers}
  <2>1. OwnersOf(s) = InPool(s) \cup WithMain(s) \cup Queues \cup WithWorker(s)
    BY DEF OwnersOf
  <2>2. isFree[s] <=> \E i \in DOMAIN freeSlots : freeSlots[i] = s
    BY <2>0 DEF PoolInv
  <2>3. InPool(s) # {} <=> isFree[s]
    BY <2>2 DEF InPool
  <2>4. WithMain(s) = IF MainHas(s) THEN {<<"main", 0>>} ELSE {}
    BY DEF WithMain, MainHas
  <2>5. \A o : o \in Queues <=> \E w \in Workers, i \in Nat : QueueHas(w, i, s) /\ o = <<"queue", w, i>>
    <3>1. \A w \in Workers : DOMAIN queues[w] \subseteq Nat
      BY LenProperties DEF TypeOK
    <3>2. \A w \in Workers : \A o : o \in InQueue(w, s) <=> \E i \in Nat : QueueHas(w, i, s) /\ o = <<"queue", w, i>>
      BY <3>1 DEF InQueue, QueueHas
    <3> QED BY <3>2
  <2>6. \A o : o \in WithWorker(s) <=> \E w \in Workers : WorkerHas(w, s) /\ o = <<"worker", w>>
    BY DEF WithWorker, WorkerHas
  <2> HIDE DEF Queues
  <2>7. CASE isFree[s]
    <3>1. PICK i \in DOMAIN freeSlots : freeSlots[i] = s
      BY <2>2, <2>7
    <3>2. InPool(s) = {<<"pool", i>>}
      BY <2>0, <3>1 DEF PoolInv, InPool
    <3>3. WithMain(s) = {} /\ Queues = {} /\ WithWorker(s) = {}
      BY <2>0, <2>4, <2>5, <2>6, <2>7 DEF BorrowInv
    <3> QED BY <2>1, <2>2, <3>2, <3>3
  <2>8. CASE MainHas(s)
    <3>1. InPool(s) = {} /\ Queues = {} /\ WithWorker(s) = {}
      BY <2>0, <2>3, <2>5, <2>6, <2>8 DEF BorrowInv
    <3> QED BY <2>1, <2>2, <2>4, <2>8, <3>1
  <2>9. ASSUME NEW w \in Workers, WorkerHas(w, s)
        PROVE  \E owner \in OwnersOf(s) : OwnersOf(s) = {owner}
    <3>1. InPool(s) = {} /\ WithMain(s) = {} /\ Queues = {}
      BY <2>0, <2>3, <2>4, <2>5, <2>9 DEF BorrowInv
    <3>2. WithWorker(s) = {<<"worker", w>>}
      BY <2>0, <2>6, <2>9 DEF BorrowInv
    <3> QED BY <2>1, <3>1, <3>2
  <2>10. ASSUME NEW w \in Workers, NEW i \in Nat, QueueHas(w, i, s)
         PROVE  \E owner \in OwnersOf(s) : OwnersOf(s) = {owner}
    <3>1. InPool(s) = {} /\ WithMain(s) = {} /\ WithWorker(s) = {}
      BY <2>0, <2>3, <2>4, <2>6, <2>10 DEF BorrowInv
    <3>2. \A o : o \in Queues <=> o = <<"queue", w, i>>
      BY <2>0, <2>5, <2>10 DEF BorrowInv
    <3>3. Queues = {<<"queue", w, i>>}
      BY <3>2
    <3> QED BY <2>1, <3>1, <3>3
  <2> QED BY <2>0, <2>2, <2>7, <2>8, <2>9, <2>10 DEF BorrowInv
<1> QED BY <1>1, TypeInvariant, OwnershipInvariant, PTL
-----------------------------------------------------------------------------
(* The buffer of a borrowed slot holds the bytes of the packet that has    *)
(* it, from the moment main has copied them.                               *)
DataInv(s) ==
  /\ MainHas(s) /\ mainPc \in {"dispatchTest", "dispatch", "rollback"}
       => slotData[s] = parsed.number
  /\ \A w \in Workers, i \in Nat : QueueHas(w, i, s) => slotData[s] = queues[w][i].number
  /\ \A w \in Workers : WorkerHas(w, s) => slotData[s] = packet[w].number

(* While a packet is queued or with a worker, nobody overwrites its bytes. *)
THEOREM PayloadSafety == Spec => []PayloadIntact
<1> DEFINE Inv == \A s \in Slots : DataInv(s)
<1>1. Init => Inv
  BY DEF Init, DataInv, MainHas, QueueHas, WorkerHas
<1>2. TypeOK /\ ControlInv /\ OwnershipInv /\ Inv /\ [Next]_vars => Inv'
  <2> SUFFICES ASSUME TypeOK, ControlInv, OwnershipInv, [Next]_vars,
                      NEW s \in Slots, DataInv(s)
               PROVE  DataInv(s)'
    OBVIOUS
  <2> USE DEF DataInv, poolVars, workerVars, mainVars
  <2>0. BorrowInv(s)
    BY DEF OwnershipInv
  <2>1. CASE Copy
    <3>1. /\ parsed.slot \in Slots /\ parsed # NoPacket /\ parsed.slot \in DOMAIN slotData
          /\ slotData' = [slotData EXCEPT ![parsed.slot] = parsed.number]
          /\ UNCHANGED <<parsed, queues, packet>> /\ mainPc = "copy"
      BY <2>1 DEF Copy, ControlInv, TypeOK
    <3>2. slotData'[s] = IF MainHas(s) THEN parsed.number ELSE slotData[s]
      BY <3>1 DEF MainHas, TypeOK
    <3>3. (MainHas(s) => parsed'.number = parsed.number)
          /\ \A w \in Workers, i \in Nat :
               (WorkerHas(w, s)' <=> WorkerHas(w, s)) /\ (QueueHas(w, i, s)' <=> QueueHas(w, i, s))
      BY <3>1 DEF WorkerHas, QueueHas
    <3>4. MainHas(s)' <=> MainHas(s)
      BY <3>1 DEF MainHas
    <3>5. CASE MainHas(s)
      BY <2>0, <3>1, <3>2, <3>3, <3>4, <3>5 DEF BorrowInv
    <3>6. CASE ~MainHas(s)
      BY <3>1, <3>2, <3>3, <3>4, <3>6
    <3> QED BY <3>5, <3>6
  <2>2. CASE Acquire
    <3>1. UNCHANGED <<slotData, queues, packet>> /\ mainPc' = "copy"
      BY <2>2 DEF Acquire, Goto
    <3> QED BY <3>1 DEF QueueHas, WorkerHas
  <2>3. CASE Dispatch
    <3> DEFINE v == WorkerOf[parsed.flow]
               n == Len(queues[v])
    <3>1. /\ parsed \in Packet /\ v \in Workers /\ n \in Nat
          /\ queues' = [queues EXCEPT ![v] = Append(@, parsed)]
          /\ mainPc = "dispatch" /\ mainPc' = "read"
          /\ UNCHANGED <<slotData, packet>>
      BY <2>3, PacketFields, LenProperties DEF Dispatch, ControlInv, TypeOK, Goto
    <3>2. ASSUME NEW w \in Workers, NEW i \in Nat, QueueHas(w, i, s)'
          PROVE  slotData[s] = queues'[w][i].number
      <4>1. CASE w = v
        <5>1. /\ queues'[v] = Append(queues[v], parsed)
              /\ queues[v] \in Seq(Packet)
          BY <3>1 DEF TypeOK
        <5>2. /\ DOMAIN queues'[v] = 1 .. n + 1
              /\ DOMAIN queues[v] = 1 .. n
              /\ \A k \in 1 .. n : queues'[v][k] = queues[v][k]
              /\ queues'[v][n + 1] = parsed
          BY <3>1, <5>1, AppendProperties, LenProperties
        <5>3. i \in 1 .. n \/ i = n + 1
          BY <3>1, <3>2, <4>1, <5>2 DEF QueueHas
        <5>4. CASE i \in 1 .. n
          <6>1. QueueHas(v, i, s)
            BY <3>2, <4>1, <5>2, <5>4 DEF QueueHas
          <6> QED BY <3>1, <4>1, <5>2, <5>4, <6>1
        <5>5. CASE i = n + 1
          BY <3>1, <3>2, <4>1, <5>2, <5>5, PacketFields DEF QueueHas, MainHas
        <5> QED BY <5>3, <5>4, <5>5
      <4>2. CASE w # v
        BY <3>1, <3>2, <4>2 DEF QueueHas, TypeOK
      <4> QED BY <4>1, <4>2
    <3>3. \A w \in Workers : WorkerHas(w, s)' <=> WorkerHas(w, s)
      BY <3>1 DEF WorkerHas
    <3> QED BY <3>1, <3>2, <3>3
  <2>4. ASSUME NEW v \in Workers, Take(v) PROVE DataInv(s)'
    <3> DEFINE q == queues[v]
               n == Len(q)
    <3>1. /\ packet' = [packet EXCEPT ![v] = Head(q)]
          /\ queues' = [queues EXCEPT ![v] = Tail(q)]
          /\ UNCHANGED <<slotData, parsed, mainPc>>
          /\ q \in Seq(Packet) /\ q # <<>>
      BY <2>4 DEF Take, TypeOK
    <3>2. /\ n \in Nat \ {0} /\ DOMAIN q = 1 .. n
          /\ Head(q) = q[1]
          /\ DOMAIN Tail(q) = 1 .. n - 1
          /\ \A i \in 1 .. n - 1 : Tail(q)[i] = q[i + 1]
      BY <3>1, LenProperties, EmptySeq, HeadTailProperties
    <3>3. ASSUME NEW w \in Workers, WorkerHas(w, s)'
          PROVE  slotData[s] = packet'[w].number
      <4>1. CASE w = v
        <5>1. packet'[w] = q[1] /\ 1 \in DOMAIN q
          BY <3>1, <3>2, <4>1 DEF TypeOK
        <5>2. QueueHas(v, 1, s)
          BY <3>3, <4>1, <5>1 DEF WorkerHas, QueueHas
        <5> QED BY <5>1, <5>2
      <4>2. CASE w # v
        BY <3>1, <3>3, <4>2 DEF WorkerHas, TypeOK
      <4> QED BY <4>1, <4>2
    <3>4. ASSUME NEW w \in Workers, NEW i \in Nat, QueueHas(w, i, s)'
          PROVE  slotData[s] = queues'[w][i].number
      <4>1. CASE w = v
        <5>1. queues'[w] = Tail(q)
          BY <3>1, <4>1 DEF TypeOK
        <5>2. i \in 1 .. n - 1 /\ i + 1 \in 1 .. n /\ i + 1 \in Nat
          BY <3>2, <3>4, <5>1 DEF QueueHas
        <5>3. QueueHas(v, i + 1, s)
          BY <3>2, <3>4, <5>1, <5>2 DEF QueueHas
        <5> QED BY <3>2, <5>1, <5>2, <5>3
      <4>2. CASE w # v
        BY <3>1, <3>4, <4>2 DEF QueueHas, TypeOK
      <4> QED BY <4>1, <4>2
    <3> QED BY <3>1, <3>3, <3>4 DEF MainHas
  <2>5. CASE Rollback
    <3>1. UNCHANGED <<slotData, queues, packet>> /\ mainPc' = "read"
      BY <2>5 DEF Rollback, Goto
    <3> QED BY <3>1 DEF QueueHas, WorkerHas
  <2>6. ASSUME NEW v \in Workers, Finish(v) PROVE DataInv(s)'
    <3>1. /\ UNCHANGED <<slotData, queues, parsed, mainPc>>
          /\ packet' = [packet EXCEPT ![v] = NoPacket]
      BY <2>6 DEF Finish
    <3>2. \A w \in Workers : WorkerHas(w, s)' => w # v /\ WorkerHas(w, s)
      BY <3>1 DEF WorkerHas, TypeOK
    <3> QED BY <3>1, <3>2 DEF QueueHas, MainHas, TypeOK
  <2>7. ASSUME NEW flow \in Flows, NEW hasPayload \in BOOLEAN, Read(flow, hasPayload)
        PROVE  DataInv(s)'
    <3>1. UNCHANGED <<slotData, queues, packet>> /\ parsed'.slot = NoSlot
      BY <2>7 DEF Read
    <3> QED BY <3>1 DEF QueueHas, WorkerHas, MainHas
  <2>8. CASE AcquireTest
    <3>1. UNCHANGED <<slotData, queues, packet>> /\ parsed'.slot = NoSlot
      BY <2>8 DEF AcquireTest, ControlInv
    <3> QED BY <3>1 DEF QueueHas, WorkerHas, MainHas
  <2>9. CASE /\ UNCHANGED <<slotData, queues, packet, parsed>>
             /\ mainPc' \in {"dispatchTest", "dispatch", "rollback"}
                  => mainPc \in {"dispatchTest", "dispatch", "rollback"}
    BY <2>9 DEF QueueHas, WorkerHas, MainHas
  <2> QED
    BY <2>1, <2>2, <2>3, <2>4, <2>5, <2>6, <2>7, <2>8, <2>9
       DEF Next, Main, Worker, Terminated, Interrupt, vars, Spawn, SpawnFail, Open,
           EndOfCapture, Exhausted, DispatchTest, QueueFull, Goto,
           Stop, Join, LoopTest, Miss, Leave, StopTest
<1>3. TypeOK /\ Inv => PayloadIntact
  <2> SUFFICES ASSUME TypeOK, Inv, NEW w \in Workers
               PROVE  /\ \A i \in DOMAIN queues[w] :
                           queues[w][i].slot # NoSlot
                             => slotData[queues[w][i].slot] = queues[w][i].number
                      /\ packet[w] # NoPacket /\ packet[w].slot # NoSlot
                           => slotData[packet[w].slot] = packet[w].number
    BY DEF PayloadIntact
  <2>1. ASSUME NEW i \in DOMAIN queues[w], queues[w][i].slot # NoSlot
        PROVE  slotData[queues[w][i].slot] = queues[w][i].number
    <3>1. i \in Nat /\ queues[w][i] \in Packet
      BY LenProperties, ElementOfSeq DEF TypeOK
    <3>2. queues[w][i].slot \in Slots
      BY <2>1, <3>1, PacketFields
    <3> QED BY <3>1, <3>2 DEF DataInv, QueueHas
  <2>2. ASSUME packet[w] # NoPacket, packet[w].slot # NoSlot
        PROVE  slotData[packet[w].slot] = packet[w].number
    <3>1. packet[w] \in Packet
      BY <2>2 DEF TypeOK
    <3>2. packet[w].slot \in Slots
      BY <2>2, <3>1, PacketFields
    <3> QED BY <2>2, <3>2 DEF DataInv, WorkerHas
  <2> QED BY <2>1, <2>2
<1> QED BY <1>1, <1>2, <1>3, TypeInvariant, OwnershipInvariant, PTL DEF Spec
-----------------------------------------------------------------------------
(* Packets are numbered in the order of the capture.  A packet that main   *)
(* has read and not yet dispatched has the highest number.                 *)
Dispatched == IF parsed = NoPacket THEN count ELSE count - 1

Routed(p, w) == WorkerOf[p.flow] = w /\ p.number <= Dispatched

OrderInv ==
  /\ parsed # NoPacket => parsed.number = count
  /\ \A w \in Workers :
       /\ \A i \in DOMAIN queues[w] : Routed(queues[w][i], w)
       /\ \A i, j \in DOMAIN queues[w] : i < j => queues[w][i].number < queues[w][j].number
       /\ packet[w] # NoPacket =>
            /\ Routed(packet[w], w)
            /\ \A i \in DOMAIN queues[w] : packet[w].number < queues[w][i].number

LEMMA QueueFacts ==
  ASSUME TypeOK, NEW w \in Workers
  PROVE  /\ queues[w] \in Seq(Packet) /\ Len(queues[w]) \in Nat
         /\ DOMAIN queues[w] = 1 .. Len(queues[w])
         /\ \A i \in DOMAIN queues[w] : queues[w][i] \in Packet /\ queues[w][i].number \in Nat
<1>1. queues[w] \in Seq(Packet)
  BY DEF TypeOK
<1>2. \A i \in DOMAIN queues[w] : queues[w][i] \in Packet
  BY <1>1, LenProperties, ElementOfSeq
<1> QED
  BY <1>1, <1>2, LenProperties, PacketFields

LEMMA OrderInvariant == Spec => []OrderInv
<1>1. Init => OrderInv
  BY DEF Init, OrderInv
<1>2. TypeOK /\ ControlInv /\ OrderInv /\ [Next]_vars => OrderInv'
  <2> SUFFICES ASSUME TypeOK, ControlInv, OrderInv, [Next]_vars
               PROVE  OrderInv'
    OBVIOUS
  <2> USE DEF poolVars, workerVars, mainVars
  <2>0. count \in Nat /\ Dispatched \in Int /\ Dispatched <= count
    BY DEF TypeOK, Dispatched
  <2>same. ASSUME UNCHANGED <<queues, packet>>, Dispatched' = Dispatched,
                  parsed' # NoPacket => parsed'.number = count'
           PROVE  OrderInv'
    BY <2>same DEF OrderInv, Routed
  <2>1. ASSUME NEW flow \in Flows, NEW hasPayload \in BOOLEAN, Read(flow, hasPayload)
        PROVE  OrderInv'
    <3>1. parsed = NoPacket /\ count' = count + 1 /\ parsed' # NoPacket /\ parsed'.number = count'
      <4>1. parsed' \in Packet
        BY <2>1 DEF Read, Packet, TypeOK
      <4> QED
        BY <2>1, <4>1, PacketFields DEF Read, ControlInv
    <3>2. Dispatched' = Dispatched
      BY <2>0, <3>1 DEF Dispatched
    <3> QED
      BY <2>1, <2>same, <3>1, <3>2 DEF Read
  <2>2. CASE Acquire
    <3>1. /\ parsed \in Packet /\ parsed' = [parsed EXCEPT !.slot = Head(freeSlots)]
          /\ UNCHANGED <<queues, packet, count>>
      BY <2>2 DEF Acquire, ControlInv, TypeOK
    <3>2. Head(freeSlots) \in Slots
      BY <2>2, HeadTailProperties DEF Acquire, AcquireSlot, TypeOK
    <3>3. parsed' \in Packet /\ parsed'.number = parsed.number
      BY <3>1, <3>2 DEF Packet
    <3>4. Dispatched' = Dispatched
      BY <3>1, <3>3, PacketFields DEF Dispatched
    <3> QED
      BY <2>same, <3>1, <3>3, <3>4, PacketFields DEF OrderInv
  <2>3. CASE Dispatch
    <3> DEFINE v == WorkerOf[parsed.flow]
               n == Len(queues[v])
    <3>1. /\ parsed \in Packet /\ parsed # NoPacket /\ v \in Workers
          /\ queues' = [queues EXCEPT ![v] = Append(@, parsed)]
          /\ parsed' = NoPacket
          /\ UNCHANGED <<packet, count>>
      BY <2>3, PacketFields DEF Dispatch, ControlInv, TypeOK
    <3>2. /\ parsed.number = count /\ Dispatched = count - 1 /\ Dispatched' = count
      BY <3>1 DEF OrderInv, Dispatched
    <3>3. /\ n \in Nat /\ DOMAIN queues[v] = 1 .. n
          /\ queues'[v] = Append(queues[v], parsed)
          /\ DOMAIN queues'[v] = 1 .. n + 1
          /\ \A i \in 1 .. n : queues'[v][i] = queues[v][i]
          /\ queues'[v][n + 1] = parsed
      BY <3>1, QueueFacts, AppendProperties, LenProperties DEF TypeOK
    <3>4. ASSUME NEW w \in Workers
          PROVE  /\ \A i \in DOMAIN queues[w] : queues[w][i].number \in Nat /\ queues[w][i].number < count
                 /\ packet[w] # NoPacket => packet[w].number \in Nat /\ packet[w].number < count
      BY <2>0, <3>2, QueueFacts, PacketFields DEF OrderInv, Routed, TypeOK
    <3>5. ASSUME NEW w \in Workers
          PROVE  /\ \A i \in DOMAIN queues'[w] : Routed(queues[w][i], w)'
                 /\ \A i, j \in DOMAIN queues'[w] : i < j => queues'[w][i].number < queues'[w][j].number
                 /\ packet'[w] # NoPacket =>
                      /\ Routed(packet[w], w)'
                      /\ \A i \in DOMAIN queues'[w] : packet'[w].number < queues'[w][i].number
      <4>1. CASE w = v
        <5>1. ASSUME NEW i \in DOMAIN queues'[v]
              PROVE  i \in 1 .. n \/ i = n + 1
          BY <3>3
        <5>2. \A i \in DOMAIN queues'[w] : Routed(queues[w][i], w)'
          BY <2>0, <3>1, <3>2, <3>3, <3>4, <4>1, <5>1 DEF OrderInv, Routed
        <5>3. \A i, j \in DOMAIN queues'[w] : i < j => queues'[w][i].number < queues'[w][j].number
          <6> SUFFICES ASSUME NEW i \in DOMAIN queues'[v], NEW j \in DOMAIN queues'[v], i < j
                       PROVE  queues'[v][i].number < queues'[v][j].number
            BY <4>1
          <6>1. i \in 1 .. n
            BY <3>3, <5>1
          <6>2. CASE j \in 1 .. n
            BY <3>1, <3>3, <6>1, <6>2 DEF OrderInv
          <6>3. CASE j = n + 1
            BY <3>1, <3>2, <3>3, <3>4, <6>1, <6>3
          <6> QED
            BY <5>1, <6>2, <6>3
        <5>4. packet'[w] # NoPacket =>
                /\ Routed(packet[w], w)'
                /\ \A i \in DOMAIN queues'[w] : packet'[w].number < queues'[w][i].number
          <6> SUFFICES ASSUME packet[v] # NoPacket
                       PROVE  /\ Routed(packet[w], w)'
                              /\ \A i \in DOMAIN queues'[v] : packet[v].number < queues'[v][i].number
            BY <3>1, <4>1
          <6>1. /\ WorkerOf[packet[v].flow] = v
                /\ \A i \in 1 .. n : packet[v].number < queues[v][i].number
            BY <3>1, <3>3 DEF OrderInv, Routed
          <6>2. packet[v].number \in Nat /\ packet[v].number < count
            BY <3>1, <3>4
          <6>3. Routed(packet[w], w)'
            BY <2>0, <3>1, <3>2, <4>1, <6>1, <6>2 DEF Routed
          <6>4. ASSUME NEW i \in DOMAIN queues'[v]
                PROVE  packet[v].number < queues'[v][i].number
            <7>1. CASE i \in 1 .. n
              BY <3>3, <6>1, <7>1
            <7>2. CASE i = n + 1
              BY <3>2, <3>3, <6>2, <7>2
            <7> QED
              BY <5>1, <7>1, <7>2
          <6> QED
            BY <6>3, <6>4
        <5> QED
          BY <5>2, <5>3, <5>4
      <4>2. CASE w # v
        <5>1. queues'[w] = queues[w] /\ packet'[w] = packet[w]
          BY <3>1, <4>2 DEF TypeOK
        <5> QED
          BY <2>0, <3>2, <3>4, <5>1 DEF OrderInv, Routed
      <4> QED
        BY <4>1, <4>2
    <3> QED
      BY <3>1, <3>5 DEF OrderInv
  <2>4. ASSUME NEW v \in Workers, Take(v) PROVE OrderInv'
    <3> DEFINE q == queues[v]
               n == Len(q)
    <3>1. /\ packet' = [packet EXCEPT ![v] = Head(q)]
          /\ queues' = [queues EXCEPT ![v] = Tail(q)]
          /\ UNCHANGED <<parsed, count>>
          /\ q \in Seq(Packet) /\ q # <<>>
      BY <2>4 DEF Take, TypeOK
    <3>2. /\ n \in Nat \ {0} /\ DOMAIN q = 1 .. n
          /\ Head(q) = q[1]
          /\ DOMAIN Tail(q) = 1 .. n - 1
          /\ \A i \in 1 .. n - 1 : Tail(q)[i] = q[i + 1]
      BY <3>1, LenProperties, EmptySeq, HeadTailProperties
    <3>3. Dispatched' = Dispatched
      BY <3>1 DEF Dispatched
    <3>4. ASSUME NEW w \in Workers
          PROVE  /\ \A i \in DOMAIN queues'[w] : Routed(queues[w][i], w)'
                 /\ \A i, j \in DOMAIN queues'[w] : i < j => queues'[w][i].number < queues'[w][j].number
                 /\ packet'[w] # NoPacket =>
                      /\ Routed(packet[w], w)'
                      /\ \A i \in DOMAIN queues'[w] : packet'[w].number < queues'[w][i].number
      <4>1. CASE w = v
        <5>1. queues'[w] = Tail(q) /\ packet'[w] = q[1] /\ 1 \in 1 .. n
          BY <3>1, <3>2, <4>1 DEF TypeOK
        <5>2. \A i \in 1 .. n - 1 : i + 1 \in 1 .. n /\ 1 < i + 1
          BY <3>2
        <5>3. \A i \in 1 .. n : Routed(q[i], v)
          BY <3>2 DEF OrderInv
        <5>4. \A i, j \in 1 .. n : i < j => q[i].number < q[j].number
          BY <3>2 DEF OrderInv
        <5>5. \A i, j \in 1 .. n - 1 : i < j => i + 1 < j + 1
          BY <3>2
        <5> QED
          <6>1. \A i \in DOMAIN queues'[w] : Routed(queues[w][i], w)'
            BY <3>2, <3>3, <4>1, <5>1, <5>2, <5>3 DEF Routed
          <6>2. \A i, j \in DOMAIN queues'[w] : i < j => queues'[w][i].number < queues'[w][j].number
            BY <3>2, <5>1, <5>2, <5>4, <5>5
          <6>3. Routed(packet[w], w)'
            BY <3>2, <3>3, <4>1, <5>1, <5>3 DEF Routed
          <6>4. \A i \in DOMAIN queues'[w] : packet'[w].number < queues'[w][i].number
            BY <3>2, <5>1, <5>2, <5>4
          <6> QED
            BY <6>1, <6>2, <6>3, <6>4
      <4>2. CASE w # v
        <5>1. queues'[w] = queues[w] /\ packet'[w] = packet[w]
          BY <3>1, <4>2 DEF TypeOK
        <5> QED
          BY <3>3, <5>1 DEF OrderInv, Routed
      <4> QED
        BY <4>1, <4>2
    <3> QED
      BY <3>1, <3>4 DEF OrderInv
  <2>5. ASSUME NEW v \in Workers, Finish(v) PROVE OrderInv'
    <3>1. /\ UNCHANGED <<queues, parsed, count>>
          /\ packet' = [packet EXCEPT ![v] = NoPacket]
      BY <2>5 DEF Finish
    <3>2. \A w \in Workers : packet'[w] # NoPacket => packet'[w] = packet[w]
      BY <3>1 DEF TypeOK
    <3>3. Dispatched' = Dispatched
      BY <3>1 DEF Dispatched
    <3> QED
      BY <3>1, <3>2, <3>3 DEF OrderInv, Routed
  <2>6. CASE Rollback
    <3>1. parsed # NoPacket /\ parsed' = NoPacket /\ UNCHANGED <<queues, packet, count>>
      BY <2>6 DEF Rollback, ControlInv
    <3>2. Dispatched <= Dispatched' /\ Dispatched' \in Int
      BY <2>0, <3>1 DEF Dispatched
    <3>3. \A w \in Workers :
            /\ \A i \in DOMAIN queues[w] : queues[w][i].number \in Nat
            /\ packet[w] # NoPacket => packet[w].number \in Nat
      BY QueueFacts, PacketFields DEF TypeOK
    <3> QED
      BY <2>0, <3>1, <3>2, <3>3 DEF OrderInv, Routed
  <2>7. CASE UNCHANGED <<queues, packet, parsed, count>>
    BY <2>7, <2>same DEF Dispatched, OrderInv
  <2> QED
    BY <2>1, <2>2, <2>3, <2>4, <2>5, <2>6, <2>7
       DEF Next, Main, Worker, Terminated, Interrupt, vars, Spawn, SpawnFail, Open,
           EndOfCapture, AcquireTest, Exhausted, Copy, DispatchTest, QueueFull,
           Stop, Join, LoopTest, Miss, Leave, StopTest
<1> QED BY <1>1, <1>2, TypeInvariant, PTL DEF Spec

(* A flow's packets are with one worker and in the order of the capture.   *)
THEOREM FlowsInOrder == Spec => []FlowOrder
<1>1. TypeOK /\ OrderInv => FlowOrder
  <2> SUFFICES ASSUME TypeOK, OrderInv PROVE FlowOrder
    OBVIOUS
  <2>1. ASSUME NEW w \in Workers
        PROVE  /\ \A i \in DOMAIN InFlight(w) :
                    WorkerOf[InFlight(w)[i].flow] = w /\ InFlight(w)[i].number \in Nat /\ i \in Nat
               /\ \A i, j \in DOMAIN InFlight(w) :
                    i < j => InFlight(w)[i].number < InFlight(w)[j].number
    <3> DEFINE q == queues[w]
               n == Len(q)
    <3>1. /\ q \in Seq(Packet) /\ n \in Nat /\ DOMAIN q = 1 .. n
          /\ \A i \in 1 .. n : q[i].number \in Nat /\ WorkerOf[q[i].flow] = w
          /\ \A i, j \in 1 .. n : i < j => q[i].number < q[j].number
      BY QueueFacts DEF OrderInv, Routed
    <3>2. CASE packet[w] = NoPacket
      <4>1. InFlight(w) = q
        BY <3>1, <3>2, ConcatEmptySeq DEF InFlight
      <4> QED
        BY <3>1, <4>1
    <3>3. CASE packet[w] # NoPacket
      <4> DEFINE p == packet[w]
      <4>1. /\ p \in Packet /\ p.number \in Nat /\ WorkerOf[p.flow] = w
            /\ \A i \in 1 .. n : p.number < q[i].number
        BY <3>1, <3>3, PacketFields DEF TypeOK, OrderInv, Routed
      <4>2. InFlight(w) = <<p>> \o q
        BY <3>3 DEF InFlight
      <4>3. <<p>> \in Seq(Packet) /\ Len(<<p>>) = 1 /\ <<p>>[1] = p
        BY <4>1
      <4>4. /\ DOMAIN InFlight(w) = 1 .. n + 1
            /\ InFlight(w)[1] = p
            /\ \A i \in 2 .. n + 1 : InFlight(w)[i] = q[i - 1] /\ i - 1 \in 1 .. n
        BY <3>1, <4>2, <4>3, ConcatProperties
      <4> HIDE DEF p, q, n
      <4>5. \A i \in DOMAIN InFlight(w) : i \in Nat /\ (i = 1 \/ i \in 2 .. n + 1)
        BY <3>1, <4>4
      <4>6. \A i, j \in DOMAIN InFlight(w) : i < j => j \in 2 .. n + 1 /\ (i \in 2 .. n + 1 => i - 1 < j - 1)
        BY <3>1, <4>4
      <4>7. ASSUME NEW i \in DOMAIN InFlight(w)
            PROVE  WorkerOf[InFlight(w)[i].flow] = w /\ InFlight(w)[i].number \in Nat /\ i \in Nat
        <5>1. CASE i = 1
          BY <4>1, <4>4, <5>1
        <5>2. CASE i \in 2 .. n + 1
          BY <3>1, <4>4, <5>2
        <5> QED
          BY <4>5, <5>1, <5>2
      <4>8. ASSUME NEW i \in DOMAIN InFlight(w), NEW j \in DOMAIN InFlight(w), i < j
            PROVE  InFlight(w)[i].number < InFlight(w)[j].number
        <5>1. InFlight(w)[j] = q[j - 1] /\ j - 1 \in 1 .. n
          BY <4>4, <4>6, <4>8
        <5>2. CASE i = 1
          BY <4>1, <4>4, <5>1, <5>2
        <5>3. CASE i \in 2 .. n + 1
          <6>1. InFlight(w)[i] = q[i - 1] /\ i - 1 \in 1 .. n /\ i - 1 < j - 1
            BY <4>4, <4>6, <4>8, <5>3
          <6> QED
            BY <3>1, <5>1, <6>1
        <5> QED
          BY <4>5, <5>2, <5>3
      <4> QED
        BY <4>7, <4>8
    <3> QED
      BY <3>2, <3>3
  <2> SUFFICES ASSUME NEW v \in Workers, NEW w \in Workers,
                      NEW i \in DOMAIN InFlight(v), NEW j \in DOMAIN InFlight(w),
                      InFlight(v)[i].flow = InFlight(w)[j].flow
               PROVE  v = w /\ (i < j <=> InFlight(v)[i].number < InFlight(w)[j].number)
    BY DEF FlowOrder
  <2>2. v = w
    BY <2>1
  <2>3. i \in Nat /\ j \in Nat /\ InFlight(v)[i].number \in Nat /\ InFlight(w)[j].number \in Nat
    BY <2>1
  <2>4. i < j \/ i = j \/ j < i
    BY <2>3
  <2>5. /\ i < j => InFlight(w)[i].number < InFlight(w)[j].number
        /\ j < i => InFlight(w)[j].number < InFlight(w)[i].number
    BY <2>1, <2>2
  <2> QED
    BY <2>2, <2>3, <2>4, <2>5
<1> QED BY <1>1, TypeInvariant, OrderInvariant, PTL
-----------------------------------------------------------------------------
(* PipelineAudit.  The account only observes.                              *)
LEMMA AuditIsSpec == AuditSpec => Spec
<1>1. AuditInit => Init
  BY DEF AuditInit
<1>2. [AuditNext]_auditVars => [Next]_vars
  BY DEF AuditNext, auditVars, vars
<1> QED BY <1>1, <1>2, PTL DEF AuditSpec, Spec

(* Who holds packet n.                                                     *)
MainHolds(n) == parsed # NoPacket /\ parsed.number = n
QueueHolds(w, i, n) == i \in DOMAIN queues[w] /\ queues[w][i].number = n
WorkerHolds(w, n) == packet[w] # NoPacket /\ packet[w].number = n

(* A packet that was read and not settled is held once, and no other is.   *)
HeldInv(n) ==
  /\ n \in 1 .. count /\ n \notin finished /\ n \notin dropped
       <=> \/ MainHolds(n)
           \/ \E w \in Workers : WorkerHolds(w, n) \/ \E i \in Nat : QueueHolds(w, i, n)
  /\ MainHolds(n) => \A w \in Workers : ~WorkerHolds(w, n) /\ \A i \in Nat : ~QueueHolds(w, i, n)
  /\ \A v, w \in Workers :
       WorkerHolds(v, n) => (WorkerHolds(w, n) => v = w) /\ \A i \in Nat : ~QueueHolds(w, i, n)
  /\ \A v, w \in Workers : \A i, j \in Nat :
       QueueHolds(v, i, n) /\ QueueHolds(w, j, n) => v = w /\ i = j

(* No packet is settled twice or before it was read, and main gives one up *)
(* only when the flag is down, after which it reads no other.              *)
SettledInv ==
  /\ finished \subseteq 1 .. count /\ finished \cap dropped = {}
  /\ dropped # {} => ~keepRunning /\ dropped = {count} /\ count # 0 /\ parsed = NoPacket
  /\ mainPc = "rollback" => ~keepRunning

AccountInv == SettledInv /\ \A n \in Nat : HeldInv(n)

(* A step that settles nothing.                                            *)
LEMMA NothingSettled ==
  ASSUME AuditNext, \A w \in Workers : workerPc[w] = "busy" => workerPc'[w] = "busy",
         mainPc = "rollback" => mainPc' = "rollback"
  PROVE  finished' = finished /\ dropped' = dropped
<1>1. LeaveFrom("busy") = {}
  BY DEF LeaveFrom
<1>2. {packet[w].number : w \in LeaveFrom("busy")} = {}
  BY <1>1
<1> QED BY <1>2 DEF AuditNext

LEMMA AccountAtFirst == AuditInit => AccountInv
<1> SUFFICES ASSUME AuditInit PROVE AccountInv
  OBVIOUS
<1>1. SettledInv
  BY DEF AuditInit, Init, SettledInv
<1>2. ASSUME NEW n \in Nat PROVE HeldInv(n)
  <2>1. ~MainHolds(n) /\ n \notin 1 .. count
    BY DEF AuditInit, Init, MainHolds
  <2>2. \A w \in Workers : ~WorkerHolds(w, n) /\ \A i \in Nat : ~QueueHolds(w, i, n)
    BY DEF AuditInit, Init, WorkerHolds, QueueHolds
  <2> QED BY <2>1, <2>2 DEF HeldInv
<1> QED BY <1>1, <1>2 DEF AccountInv

(* A worker settles the packet it holds.                                   *)
LEMMA AccountFinish ==
  ASSUME TypeOK, ControlInv, OrderInv, AccountInv, AuditNext, NEW v \in Workers, Finish(v)
  PROVE  AccountInv'
<1> USE DEF mainVars
<1>1. /\ packet[v] # NoPacket /\ packet[v] \in Packet
      /\ packet' = [packet EXCEPT ![v] = NoPacket]
      /\ UNCHANGED <<queues, parsed, count, keepRunning, mainPc>>
  BY DEF Finish, ControlInv, TypeOK
<1>2. finished' = finished \cup {packet[v].number} /\ dropped' = dropped
  <2>1. LeaveFrom("busy") = {v}
    BY DEF LeaveFrom, Finish, TypeOK
  <2>2. {packet[w].number : w \in LeaveFrom("busy")} = {packet[v].number}
    BY <2>1
  <2>3. dropped' = dropped
    BY <1>1 DEF AuditNext
  <2> QED BY <2>2, <2>3 DEF AuditNext
<1>3. packet[v].number \in Nat /\ WorkerHolds(v, packet[v].number)
  BY <1>1, PacketFields DEF WorkerHolds
<1>4. packet[v].number \in 1 .. count /\ packet[v].number \notin finished
      /\ packet[v].number \notin dropped
  BY <1>3 DEF AccountInv, HeldInv
<1>5. SettledInv'
  BY <1>1, <1>2, <1>4 DEF AccountInv, SettledInv
<1>6. ASSUME NEW n \in Nat PROVE HeldInv(n)'
  <2>1. \A w \in Workers : WorkerHolds(w, n)' <=> WorkerHolds(w, n) /\ w # v
    BY <1>1 DEF WorkerHolds, TypeOK
  <2>2. \A w \in Workers, i \in Nat : QueueHolds(w, i, n)' <=> QueueHolds(w, i, n)
    BY <1>1 DEF QueueHolds
  <2>3. MainHolds(n)' <=> MainHolds(n)
    BY <1>1 DEF MainHolds
  <2>4. n \in finished' <=> n \in finished \/ WorkerHolds(v, n)
    BY <1>1, <1>2 DEF WorkerHolds
  <2>5. HeldInv(n)
    BY DEF AccountInv
  <2> QED BY <1>1, <1>2, <2>1, <2>2, <2>3, <2>4, <2>5 DEF HeldInv
<1> QED BY <1>5, <1>6 DEF AccountInv

(* main gives up the packet in its hands.                                  *)
LEMMA AccountRollback ==
  ASSUME TypeOK, ControlInv, OrderInv, AccountInv, AuditNext, Rollback
  PROVE  AccountInv'
<1> USE DEF workerVars, Goto
<1>1. /\ parsed # NoPacket /\ parsed.number = count /\ parsed \in Packet
      /\ parsed' = NoPacket /\ ~keepRunning
      /\ UNCHANGED <<queues, packet, workerPc, count, keepRunning>>
      /\ mainPc = "rollback" /\ mainPc' = "read"
  BY DEF Rollback, ControlInv, OrderInv, AccountInv, SettledInv, TypeOK
<1>2. finished' = finished /\ dropped' = dropped \cup {count}
  <2>1. {packet[w].number : w \in LeaveFrom("busy")} = {}
    BY <1>1 DEF LeaveFrom
  <2> QED BY <1>1, <2>1 DEF AuditNext
<1>3. dropped = {} /\ MainHolds(count) /\ count \in Nat \ {0}
  BY <1>1, PacketFields DEF AccountInv, SettledInv, MainHolds, TypeOK
<1>4. count \notin finished
  BY <1>3 DEF AccountInv, HeldInv
<1>5. SettledInv'
  BY <1>1, <1>2, <1>3, <1>4 DEF AccountInv, SettledInv
<1>6. ASSUME NEW n \in Nat PROVE HeldInv(n)'
  <2>1. ~MainHolds(n)' /\ (MainHolds(n) <=> n = count)
    BY <1>1 DEF MainHolds
  <2>2. \A w \in Workers, i \in Nat :
          (WorkerHolds(w, n)' <=> WorkerHolds(w, n)) /\ (QueueHolds(w, i, n)' <=> QueueHolds(w, i, n))
    BY <1>1 DEF WorkerHolds, QueueHolds
  <2>3. HeldInv(n)
    BY DEF AccountInv
  <2> QED BY <1>1, <1>2, <1>3, <2>1, <2>2, <2>3 DEF HeldInv
<1> QED BY <1>5, <1>6 DEF AccountInv

(* main reads the next packet.                                             *)
LEMMA AccountRead ==
  ASSUME TypeOK, ControlInv, AccountInv, finished' = finished, dropped' = dropped,
         NEW flow \in Flows, NEW hasPayload \in BOOLEAN, Read(flow, hasPayload)
  PROVE  AccountInv'
<1> USE DEF workerVars, Goto
<1>1. /\ parsed = NoPacket /\ count' = count + 1 /\ count \in Nat
      /\ keepRunning /\ UNCHANGED <<queues, packet, keepRunning>>
      /\ mainPc' # "rollback"
  BY DEF Read, ControlInv, TypeOK
<1>2. parsed' # NoPacket /\ parsed'.number = count + 1
  <2>1. parsed' \in Packet
    BY DEF Read, Packet, TypeOK
  <2> QED BY <2>1, PacketFields DEF Read
<1>3. dropped = {}
  BY <1>1 DEF AccountInv, SettledInv
<1>4. SettledInv'
  <2>1. finished \subseteq 1 .. count + 1
    BY <1>1 DEF AccountInv, SettledInv
  <2> QED BY <1>1, <1>3, <2>1 DEF AccountInv, SettledInv
<1>5. ASSUME NEW n \in Nat PROVE HeldInv(n)'
  <2>1. ~MainHolds(n) /\ (MainHolds(n)' <=> n = count + 1)
    BY <1>1, <1>2 DEF MainHolds
  <2>2. \A w \in Workers, i \in Nat :
          (WorkerHolds(w, n)' <=> WorkerHolds(w, n)) /\ (QueueHolds(w, i, n)' <=> QueueHolds(w, i, n))
    BY <1>1 DEF WorkerHolds, QueueHolds
  <2>3. HeldInv(n) /\ finished \subseteq 1 .. count
    BY DEF AccountInv, SettledInv
  <2>4. /\ n \in 1 .. count + 1 <=> n \in 1 .. count \/ n = count + 1
        /\ count + 1 \notin 1 .. count
    BY <1>1
  <2> QED BY <1>1, <1>3, <2>1, <2>2, <2>3, <2>4 DEF HeldInv
<1> QED BY <1>4, <1>5 DEF AccountInv

(* main hands a packet over to a queue.                                    *)
LEMMA AccountDispatch ==
  ASSUME TypeOK, ControlInv, AccountInv, finished' = finished, dropped' = dropped, Dispatch
  PROVE  AccountInv'
<1> USE DEF workerVars, Goto
<1> DEFINE v == WorkerOf[parsed.flow]
           m == Len(queues[v])
<1>1. /\ parsed \in Packet /\ v \in Workers /\ m \in Nat
      /\ queues' = [queues EXCEPT ![v] = Append(@, parsed)]
      /\ parsed' = NoPacket /\ mainPc' # "rollback"
      /\ UNCHANGED <<packet, count, keepRunning>>
  BY PacketFields, LenProperties DEF Dispatch, ControlInv, TypeOK
<1>2. /\ DOMAIN queues'[v] = 1 .. m + 1 /\ DOMAIN queues[v] = 1 .. m
      /\ \A k \in 1 .. m : queues'[v][k] = queues[v][k]
      /\ queues'[v][m + 1] = parsed
  <2>1. queues'[v] = Append(queues[v], parsed) /\ queues[v] \in Seq(Packet)
    BY <1>1 DEF TypeOK
  <2> QED BY <1>1, <2>1, AppendProperties, LenProperties
<1>3. ASSUME NEW n \in Nat, NEW w \in Workers, NEW i \in Nat
      PROVE  QueueHolds(w, i, n)' <=> QueueHolds(w, i, n) \/ (w = v /\ i = m + 1 /\ MainHolds(n))
  <2>1. CASE w = v
    <3>1. MainHolds(n) <=> parsed.number = n
      BY <1>1, PacketFields DEF MainHolds
    <3>2. /\ i \in 1 .. m + 1 <=> i \in 1 .. m \/ i = m + 1
          /\ m + 1 \notin 1 .. m
      BY <1>1
    <3> QED BY <1>2, <2>1, <3>1, <3>2 DEF QueueHolds
  <2>2. CASE w # v
    BY <1>1, <2>2 DEF QueueHolds, TypeOK
  <2> QED BY <2>1, <2>2
<1>4. SettledInv'
  BY <1>1 DEF AccountInv, SettledInv
<1>5. ASSUME NEW n \in Nat PROVE HeldInv(n)'
  <2>1. ~MainHolds(n)'
    BY <1>1 DEF MainHolds
  <2>2. \A w \in Workers : WorkerHolds(w, n)' <=> WorkerHolds(w, n)
    BY <1>1 DEF WorkerHolds
  <2>3. HeldInv(n) /\ m + 1 \in Nat
    BY <1>1 DEF AccountInv
  <2> QED BY <1>1, <1>3, <2>1, <2>2, <2>3 DEF HeldInv
<1> QED BY <1>4, <1>5 DEF AccountInv

(* A worker takes the first packet of its queue.                           *)
LEMMA AccountTake ==
  ASSUME TypeOK, ControlInv, AccountInv, finished' = finished, dropped' = dropped,
         NEW v \in Workers, Take(v)
  PROVE  AccountInv'
<1> USE DEF mainVars
<1> DEFINE q == queues[v]
           m == Len(q)
<1>1. /\ packet[v] = NoPacket
      /\ packet' = [packet EXCEPT ![v] = Head(q)]
      /\ queues' = [queues EXCEPT ![v] = Tail(q)]
      /\ UNCHANGED <<parsed, count, keepRunning, mainPc>>
      /\ q \in Seq(Packet) /\ q # <<>>
  BY DEF Take, ControlInv, TypeOK
<1>2. /\ m \in Nat \ {0} /\ DOMAIN q = 1 .. m
      /\ Head(q) = q[1] /\ Head(q) \in Packet
      /\ DOMAIN Tail(q) = 1 .. m - 1
      /\ \A i \in 1 .. m - 1 : Tail(q)[i] = q[i + 1]
  BY <1>1, LenProperties, EmptySeq, HeadTailProperties
<1>3. ASSUME NEW n \in Nat, NEW w \in Workers
      PROVE  /\ WorkerHolds(w, n)' <=> WorkerHolds(w, n) \/ (w = v /\ QueueHolds(v, 1, n))
             /\ w = v => ~WorkerHolds(w, n)
  <2>1. CASE w = v
    <3>1. packet'[w] = q[1] /\ q[1] # NoPacket /\ 1 \in DOMAIN q
      BY <1>1, <1>2, <2>1, PacketFields DEF TypeOK
    <3> QED BY <1>1, <2>1, <3>1 DEF WorkerHolds, QueueHolds
  <2>2. CASE w # v
    BY <1>1, <2>2 DEF WorkerHolds, TypeOK
  <2> QED BY <2>1, <2>2
<1>4. ASSUME NEW n \in Nat, NEW w \in Workers, NEW i \in Nat
      PROVE  QueueHolds(w, i, n)' <=> IF w = v THEN i # 0 /\ QueueHolds(w, i + 1, n)
                                              ELSE QueueHolds(w, i, n)
  <2>1. CASE w = v
    <3>1. queues'[w] = Tail(q)
      BY <1>1, <2>1 DEF TypeOK
    <3>2. i \in 1 .. m - 1 <=> i # 0 /\ i + 1 \in 1 .. m
      BY <1>2
    <3> QED BY <1>2, <2>1, <3>1, <3>2 DEF QueueHolds
  <2>2. CASE w # v
    BY <1>1, <2>2 DEF QueueHolds, TypeOK
  <2> QED BY <2>1, <2>2
<1>5. SettledInv'
  BY <1>1 DEF AccountInv, SettledInv
<1>6. ASSUME NEW n \in Nat PROVE HeldInv(n)'
  <2>1. MainHolds(n)' <=> MainHolds(n)
    BY <1>1 DEF MainHolds
  <2>2. ASSUME NEW w \in Workers PROVE ~QueueHolds(w, 0, n)
    <3>1. DOMAIN queues[w] = 1 .. Len(queues[w]) /\ Len(queues[w]) \in Nat
      BY QueueFacts
    <3> QED BY <3>1 DEF QueueHolds
  <2>3. \A i \in Nat : i # 0 => i = 1 \/ \E j \in Nat : j # 0 /\ i = j + 1
    <3>1. \A i \in Nat : i # 0 /\ i # 1 => i - 1 \in Nat /\ i - 1 # 0 /\ i = (i - 1) + 1
      OBVIOUS
    <3> QED BY <3>1
  <2>4. HeldInv(n)
    BY DEF AccountInv
  <2>5. (\E w \in Workers : WorkerHolds(w, n)' \/ \E i \in Nat : QueueHolds(w, i, n)')
          <=> (\E w \in Workers : WorkerHolds(w, n) \/ \E i \in Nat : QueueHolds(w, i, n))
    <3>1. ASSUME NEW w \in Workers, NEW i \in Nat, QueueHolds(w, i, n)
          PROVE  WorkerHolds(w, n)' \/ \E j \in Nat : QueueHolds(w, j, n)'
      <4>1. CASE w # v
        BY <1>4, <3>1, <4>1
      <4>2. CASE w = v /\ i = 1
        BY <1>3, <3>1, <4>2
      <4>3. CASE w = v /\ i # 1
        <5>1. PICK j \in Nat : j # 0 /\ i = j + 1
          BY <2>2, <2>3, <3>1, <4>3
        <5> QED BY <1>4, <3>1, <4>3, <5>1
      <4> QED BY <4>1, <4>2, <4>3
    <3>2. \A i \in Nat : i + 1 \in Nat
      OBVIOUS
    <3> QED BY <1>3, <1>4, <3>1, <3>2
  <2>6. MainHolds(n)' => \A w \in Workers : ~WorkerHolds(w, n)' /\ \A i \in Nat : ~QueueHolds(w, i, n)'
    <3>1. \A i \in Nat : i + 1 \in Nat
      OBVIOUS
    <3> QED BY <1>3, <1>4, <2>1, <2>4, <3>1 DEF HeldInv
  <2>7. ASSUME NEW u \in Workers, NEW w \in Workers, WorkerHolds(u, n)'
        PROVE  (WorkerHolds(w, n)' => u = w) /\ \A i \in Nat : ~QueueHolds(w, i, n)'
    <3>1. \A i \in Nat : i + 1 \in Nat /\ (i # 0 => i + 1 # 1)
      OBVIOUS
    <3> QED BY <1>3, <1>4, <2>4, <2>7, <3>1 DEF HeldInv
  <2>8. ASSUME NEW u \in Workers, NEW w \in Workers, NEW i \in Nat, NEW j \in Nat,
               QueueHolds(u, i, n)', QueueHolds(w, j, n)'
        PROVE  u = w /\ i = j
    <3>1. i + 1 \in Nat /\ j + 1 \in Nat /\ (i + 1 = j + 1 => i = j)
      OBVIOUS
    <3> QED BY <1>4, <2>4, <2>8, <3>1 DEF HeldInv
  <2> QED BY <1>1, <2>1, <2>4, <2>5, <2>6, <2>7, <2>8 DEF HeldInv
<1> QED BY <1>5, <1>6 DEF AccountInv

(* A step that leaves the packets where they are.                          *)
LEMMA AccountSame ==
  ASSUME AccountInv, UNCHANGED <<finished, dropped, queues, packet, count>>,
         keepRunning' => keepRunning, mainPc' = "rollback" => ~keepRunning',
         parsed' = parsed \/ /\ parsed # NoPacket /\ parsed' # NoPacket
                             /\ parsed'.number = parsed.number
  PROVE  AccountInv'
<1>1. SettledInv'
  BY DEF AccountInv, SettledInv
<1>2. ASSUME NEW n \in Nat PROVE HeldInv(n)'
  <2>1. MainHolds(n)' <=> MainHolds(n)
    BY DEF MainHolds
  <2>2. \A w \in Workers, i \in Nat :
          (WorkerHolds(w, n)' <=> WorkerHolds(w, n)) /\ (QueueHolds(w, i, n)' <=> QueueHolds(w, i, n))
    BY DEF WorkerHolds, QueueHolds
  <2>3. HeldInv(n)
    BY DEF AccountInv
  <2> QED BY <2>1, <2>2, <2>3 DEF HeldInv
<1> QED BY <1>1, <1>2 DEF AccountInv

LEMMA AccountStep ==
  ASSUME TypeOK, ControlInv, OrderInv, AccountInv, [AuditNext]_auditVars
  PROVE  AccountInv'
<1> USE DEF poolVars, workerVars, mainVars, Goto
<1>1. CASE UNCHANGED auditVars
  BY <1>1 DEF auditVars, AccountInv, SettledInv, HeldInv, MainHolds, WorkerHolds, QueueHolds
<1>2. ASSUME NEW v \in Workers, AuditNext, Finish(v) PROVE AccountInv'
  BY <1>2, AccountFinish
<1>3. CASE AuditNext /\ Rollback
  BY <1>3, AccountRollback
<1>4. ASSUME AuditNext, NEW flow \in Flows, NEW hasPayload \in BOOLEAN, Read(flow, hasPayload)
      PROVE  AccountInv'
  <2>1. finished' = finished /\ dropped' = dropped
    BY <1>4, NothingSettled DEF Read
  <2> QED BY <1>4, <2>1, AccountRead
<1>5. CASE AuditNext /\ Dispatch
  <2>1. finished' = finished /\ dropped' = dropped
    BY <1>5, NothingSettled DEF Dispatch
  <2> QED BY <1>5, <2>1, AccountDispatch
<1>6. ASSUME NEW v \in Workers, AuditNext, Take(v) PROVE AccountInv'
  <2>1. finished' = finished /\ dropped' = dropped
    BY <1>6, NothingSettled DEF Take, TypeOK
  <2> QED BY <1>6, <2>1, AccountTake
<1>7. CASE AuditNext /\ Acquire
  <2>1. finished' = finished /\ dropped' = dropped
    BY <1>7, NothingSettled DEF Acquire
  <2>2. parsed # NoPacket /\ parsed \in Packet /\ parsed' = [parsed EXCEPT !.slot = Head(freeSlots)]
    BY <1>7 DEF Acquire, ControlInv, TypeOK
  <2>3. Head(freeSlots) \in Slots
    BY <1>7, HeadTailProperties DEF Acquire, AcquireSlot, TypeOK
  <2>4. parsed' \in Packet /\ parsed'.number = parsed.number
    BY <2>2, <2>3 DEF Packet
  <2>5. parsed' # NoPacket
    BY <2>4, PacketFields
  <2> QED BY <1>7, <2>1, <2>2, <2>4, <2>5, AccountSame DEF Acquire
<1>8. ASSUME NEW v \in Workers, AuditNext,
             Spawn(v) \/ LoopTest(v) \/ Miss(v) \/ Leave(v) \/ StopTest(v)
      PROVE  AccountInv'
  <2>1. /\ UNCHANGED <<queues, packet, count, parsed, keepRunning>>
        /\ mainPc' = "rollback" <=> mainPc = "rollback"
        /\ workerPc[v] # "busy"
        /\ \A w \in Workers : w # v => workerPc'[w] = workerPc[w]
    <3>1. CASE Spawn(v)
      <4>1. workerPc[v] = "unborn" /\ mainPc = "spawn" /\ mainPc' \in {"open", "spawn"}
        BY <3>1 DEF Spawn, Workers
      <4> QED BY <3>1, <4>1 DEF Spawn, TypeOK
    <3>2. CASE LoopTest(v) \/ Miss(v) \/ Leave(v) \/ StopTest(v)
      BY <3>2 DEF LoopTest, Miss, Leave, StopTest, TypeOK
    <3> QED BY <1>8, <3>1, <3>2
  <2>2. finished' = finished /\ dropped' = dropped
    BY <1>8, <2>1, NothingSettled, TypeOK DEF TypeOK
  <2> QED BY <2>1, <2>2, AccountSame DEF AccountInv, SettledInv
<1>9. CASE /\ AuditNext
           /\ \/ SpawnFail \/ Open \/ EndOfCapture \/ AcquireTest \/ Exhausted \/ Copy
              \/ DispatchTest \/ QueueFull \/ Stop \/ Join \/ Interrupt \/ Terminated
  <2>1. /\ UNCHANGED <<queues, packet, count, parsed, workerPc>>
        /\ keepRunning' => keepRunning
        /\ mainPc = "rollback" => mainPc' = "rollback"
        /\ mainPc' = "rollback" => ~keepRunning' \/ mainPc = "rollback"
    BY <1>9 DEF SpawnFail, Open, EndOfCapture, AcquireTest, Exhausted, Copy, DispatchTest,
                QueueFull, Stop, Join, Interrupt, Terminated, vars
  <2>2. finished' = finished /\ dropped' = dropped
    BY <1>9, <2>1, NothingSettled
  <2>3. mainPc' = "rollback" => ~keepRunning'
    BY <2>1 DEF AccountInv, SettledInv, TypeOK
  <2> QED BY <2>1, <2>2, <2>3, AccountSame
<1> QED
  BY <1>1, <1>2, <1>3, <1>4, <1>5, <1>6, <1>7, <1>8, <1>9 DEF AuditNext, Next, Main, Worker

LEMMA AccountInvariant == AuditSpec => [](TypeOK /\ ControlInv /\ OrderInv /\ AccountInv)
<1>1. AuditSpec => [](TypeOK /\ ControlInv) /\ []OrderInv
  BY AuditIsSpec, TypeInvariant, OrderInvariant, PTL
<1>2. TypeOK /\ ControlInv /\ OrderInv /\ AccountInv /\ [AuditNext]_auditVars => AccountInv'
  BY AccountStep
<1> QED BY <1>1, <1>2, AccountAtFirst, PTL DEF AuditSpec

(* However full pool and queues are and whenever CTRL+C comes, no packet   *)
(* is lost on its way through the threads or handled twice, and main gives *)
(* up none but the one in its hands.                                       *)
THEOREM PacketsAccountedFor == AuditSpec => []EveryPacketOnce
<1>1. TypeOK /\ AccountInv => EveryPacketOnce
  <2> SUFFICES ASSUME TypeOK, AccountInv PROVE EveryPacketOnce
    OBVIOUS
  <2>1. dropped # {} => ~keepRunning /\ dropped = {count}
    BY DEF AccountInv, SettledInv
  <2> SUFFICES ASSUME NEW n \in 1 .. count
               PROVE  \E place \in PlacesOf(n) : PlacesOf(n) = {place}
    BY <2>1 DEF EveryPacketOnce
  <2>2. HeldInv(n) /\ SettledInv
    BY DEF AccountInv, TypeOK
  <2> DEFINE Queues == UNION {AtQueue(w, n) : w \in Workers}
  <2>3. PlacesOf(n) = AtMain(n) \cup Queues \cup AtWorker(n) \cup Settled(n)
    BY DEF PlacesOf
  <2>4. AtMain(n) = IF MainHolds(n) THEN {<<"main", 0>>} ELSE {}
    BY DEF AtMain, MainHolds
  <2>5. \A o : o \in Queues <=> \E w \in Workers, i \in Nat : QueueHolds(w, i, n) /\ o = <<"queue", w, i>>
    <3>1. \A w \in Workers : DOMAIN queues[w] \subseteq Nat
      BY LenProperties DEF TypeOK
    <3>2. \A w \in Workers : \A o : o \in AtQueue(w, n) <=> \E i \in Nat : QueueHolds(w, i, n) /\ o = <<"queue", w, i>>
      BY <3>1 DEF AtQueue, QueueHolds
    <3> QED BY <3>2
  <2>6. \A o : o \in AtWorker(n) <=> \E w \in Workers : WorkerHolds(w, n) /\ o = <<"worker", w>>
    BY DEF AtWorker, WorkerHolds
  <2>7. \A o : o \in Settled(n) <=> \/ (n \in finished /\ o = <<"finished", 0>>)
                                     \/ (n \in dropped /\ o = <<"dropped", 0>>)
    <3>1. finished \cap {n} = (IF n \in finished THEN {n} ELSE {})
          /\ dropped \cap {n} = (IF n \in dropped THEN {n} ELSE {})
      OBVIOUS
    <3> QED BY <3>1 DEF Settled
  <2> HIDE DEF Queues
  <2>8. CASE n \in finished \/ n \in dropped
    <3>1. AtMain(n) = {} /\ Queues = {} /\ AtWorker(n) = {}
      BY <2>2, <2>4, <2>5, <2>6, <2>8 DEF HeldInv
    <3>2. \E o : Settled(n) = {o}
      <4>1. n \in finished => n \notin dropped
        BY <2>2 DEF SettledInv
      <4>2. CASE n \in finished
        <5>1. \A o : o \in Settled(n) <=> o = <<"finished", 0>>
          BY <2>7, <4>1, <4>2
        <5>2. Settled(n) = {<<"finished", 0>>}
          BY <5>1
        <5> QED BY <5>2
      <4>3. CASE n \notin finished
        <5>1. \A o : o \in Settled(n) <=> o = <<"dropped", 0>>
          BY <2>7, <2>8, <4>3
        <5>2. Settled(n) = {<<"dropped", 0>>}
          BY <5>1
        <5> QED BY <5>2
      <4> QED BY <4>2, <4>3
    <3> QED BY <2>3, <3>1, <3>2
  <2>9. CASE MainHolds(n)
    <3>1. Settled(n) = {} /\ Queues = {} /\ AtWorker(n) = {}
      BY <2>2, <2>5, <2>6, <2>7, <2>9 DEF HeldInv
    <3> QED BY <2>3, <2>4, <2>9, <3>1
  <2>10. ASSUME NEW w \in Workers, WorkerHolds(w, n)
         PROVE  \E place \in PlacesOf(n) : PlacesOf(n) = {place}
    <3>1. Settled(n) = {} /\ AtMain(n) = {} /\ Queues = {}
      BY <2>2, <2>4, <2>5, <2>7, <2>10 DEF HeldInv
    <3>2. AtWorker(n) = {<<"worker", w>>}
      BY <2>2, <2>6, <2>10 DEF HeldInv
    <3> QED BY <2>3, <3>1, <3>2
  <2>11. ASSUME NEW w \in Workers, NEW i \in Nat, QueueHolds(w, i, n)
         PROVE  \E place \in PlacesOf(n) : PlacesOf(n) = {place}
    <3>1. Settled(n) = {} /\ AtMain(n) = {} /\ AtWorker(n) = {}
      BY <2>2, <2>4, <2>6, <2>7, <2>11 DEF HeldInv
    <3>2. \A o : o \in Queues <=> o = <<"queue", w, i>>
      BY <2>2, <2>5, <2>11 DEF HeldInv
    <3>3. Queues = {<<"queue", w, i>>}
      BY <3>2
    <3> QED BY <2>3, <3>1, <3>3
  <2> QED BY <2>2, <2>8, <2>9, <2>10, <2>11 DEF HeldInv
<1> QED BY <1>1, AccountInvariant, PTL
-----------------------------------------------------------------------------
(* Shutdown.  The flag, once cleared, stays so; a worker that began a turn *)
(* when nothing was pushed any more stops looking only at an empty queue;  *)
(* and main is not done before every worker has left.                      *)
TurnedInv ==
  /\ turned # {} => mainPc \in {"drain", "join", "done"}
  /\ \A w \in Workers :
       /\ workerPc[w] \in {"empty", "exited"} => ~keepRunning
       /\ w \in turned /\ workerPc[w] \in {"check", "exited"} => queues[w] = <<>>
       /\ mainPc = "done" => workerPc[w] = "exited"

LEMMA TurnedStep ==
  ASSUME TypeOK, TurnedInv, [AuditNext]_auditVars
  PROVE  TurnedInv'
<1> USE DEF poolVars, workerVars, mainVars, Goto
<1>1. CASE UNCHANGED auditVars
  BY <1>1 DEF auditVars, TurnedInv
<1>2. ASSUME AuditNext, NEW v \in Workers, LoopTest(v), ~Ended PROVE TurnedInv'
  <2>1. /\ workerPc' = [workerPc EXCEPT ![v] = IF keepRunning THEN "pop" ELSE "empty"]
        /\ UNCHANGED <<queues, mainPc, keepRunning>>
    BY <1>2 DEF LoopTest
  <2>2. turned' # {} => turned # {} \/ Draining
    BY <1>2 DEF AuditNext
  <2>3. \A w \in Workers : w # v => (w \in turned' <=> w \in turned)
    BY <1>2, <2>1 DEF AuditNext, LeaveFrom, TypeOK
  <2> QED BY <1>2, <2>1, <2>2, <2>3 DEF TurnedInv, TypeOK, Draining, Ended
<1>3. ASSUME AuditNext, LeaveFrom("loop") = {} PROVE turned' = turned
  BY <1>3 DEF AuditNext
<1>4. ASSUME AuditNext, NEW v \in Workers, ~Ended,
             Take(v) \/ Miss(v) \/ Leave(v) \/ StopTest(v) \/ Finish(v)
      PROVE  TurnedInv'
  <2>1. /\ UNCHANGED <<mainPc, keepRunning>>
        /\ \A w \in Workers : w # v => workerPc'[w] = workerPc[w] /\ queues'[w] = queues[w]
        /\ workerPc[v] # "loop"
    BY <1>4 DEF Take, Miss, Leave, StopTest, Finish, TypeOK
  <2>2. turned' = turned
    BY <1>3, <1>4, <2>1 DEF LeaveFrom
  <2>3. /\ workerPc'[v] \in {"empty", "exited"} => ~keepRunning
        /\ v \in turned /\ workerPc'[v] \in {"check", "exited"} => queues'[v] = <<>>
    <3>1. CASE Take(v)
      BY <3>1 DEF Take, TypeOK
    <3>2. CASE Finish(v)
      BY <3>2 DEF Finish, TypeOK
    <3>3. CASE Miss(v)
      BY <1>4, <3>3 DEF Miss, SeesNothing, TurnedInv, TypeOK, Ended
    <3>4. CASE Leave(v)
      BY <1>4, <3>4 DEF Leave, SeesNothing, TurnedInv, TypeOK, Ended
    <3>5. CASE StopTest(v)
      BY <3>5 DEF StopTest, TurnedInv, TypeOK
    <3> QED BY <1>4, <3>1, <3>2, <3>3, <3>4, <3>5
  <2>4. mainPc # "done"
    BY <1>4 DEF Ended
  <2> QED BY <2>1, <2>2, <2>3, <2>4 DEF TurnedInv
<1>5. ASSUME AuditNext, NEW v \in Workers, Spawn(v) PROVE TurnedInv'
  <2>1. /\ workerPc' = [workerPc EXCEPT ![v] = "loop"]
        /\ mainPc = "spawn" /\ mainPc' \in {"open", "spawn"}
        /\ UNCHANGED <<keepRunning, queues>> /\ workerPc[v] = "unborn"
    BY <1>5 DEF Spawn, Workers
  <2>2. turned' = turned /\ turned = {}
    BY <1>3, <1>5, <2>1 DEF LeaveFrom, TurnedInv, TypeOK
  <2> QED BY <2>1, <2>2 DEF TurnedInv, TypeOK
<1>6. CASE AuditNext /\ Dispatch
  <2>1. UNCHANGED <<keepRunning, workerPc>> /\ mainPc = "dispatch" /\ mainPc' = "read"
    BY <1>6 DEF Dispatch
  <2>2. turned' = turned /\ turned = {}
    BY <1>3, <1>6, <2>1 DEF LeaveFrom, TurnedInv
  <2> QED BY <2>1, <2>2 DEF TurnedInv
<1>7. CASE AuditNext /\ (Main \/ Interrupt \/ Terminated)
           /\ ~Dispatch /\ ~ \E v \in Workers : Spawn(v)
  <2>1. /\ UNCHANGED <<queues, workerPc>>
        /\ keepRunning' => keepRunning
        /\ mainPc \in {"drain", "join", "done"} => mainPc' \in {"drain", "join", "done"}
        /\ mainPc' = "done" /\ mainPc # "done" => \A w \in Workers : workerPc[w] = "exited"
    BY <1>7 DEF Main, SpawnFail, Open, Read, EndOfCapture, AcquireTest, Acquire, Exhausted, Copy,
                DispatchTest, QueueFull, Rollback, Stop, Join, Interrupt, Terminated, vars
  <2>2. turned' = turned
    BY <1>3, <1>7, <2>1 DEF LeaveFrom
  <2> QED BY <2>1, <2>2 DEF TurnedInv
<1> QED
  BY <1>1, <1>2, <1>4, <1>5, <1>6, <1>7 DEF AuditNext, Next, Main, Worker

LEMMA TurnedInvariant == AuditSpec => []TurnedInv
<1>1. AuditInit => TurnedInv
  BY DEF AuditInit, Init, TurnedInv
<1>2. TypeOK /\ TurnedInv /\ [AuditNext]_auditVars => TurnedInv'
  BY TurnedStep
<1> QED BY <1>1, <1>2, AuditIsSpec, TypeInvariant, PTL DEF AuditSpec

(* A worker that tests the condition of its loop at least once after main  *)
(* left its own leaves nothing behind, whenever CTRL+C comes.              *)
THEOREM ExitIsSafe == AuditSpec => []ExitSafeAfterTurn
<1>1. TurnedInv => ExitSafeAfterTurn
  BY DEF TurnedInv, ExitSafeAfterTurn
<1> QED BY <1>1, TurnedInvariant, PTL

(* At the end, what was not inspected was given up after CTRL+C, or waits  *)
(* for a worker that left within the turn it was in when main stopped.     *)
THEOREM NothingIsLost == AuditSpec => []NothingLost
<1>1. TypeOK /\ ControlInv /\ AccountInv /\ TurnedInv => NothingLost
  <2> SUFFICES ASSUME TypeOK, ControlInv, AccountInv, TurnedInv, mainPc = "done",
                      NEW n \in 1 .. count, n \notin finished, n \notin dropped
               PROVE  \E w \in Workers \ turned : AtQueue(w, n) # {}
    BY DEF NothingLost
  <2>1. ~MainHolds(n) /\ \A w \in Workers : workerPc[w] = "exited" /\ ~WorkerHolds(w, n)
    BY DEF ControlInv, TurnedInv, MainHolds, WorkerHolds
  <2>2. HeldInv(n)
    BY DEF AccountInv, TypeOK
  <2>3. PICK w \in Workers, i \in Nat : QueueHolds(w, i, n)
    BY <2>1, <2>2 DEF HeldInv
  <2>4. i \in DOMAIN queues[w] /\ <<"queue", w, i>> \in AtQueue(w, n)
    BY <2>3 DEF QueueHolds, AtQueue
  <2>5. queues[w] # <<>>
    BY <2>4
  <2>6. w \notin turned
    BY <2>1, <2>5 DEF TurnedInv
  <2> QED BY <2>4, <2>6
<1> QED BY <1>1, AccountInvariant, TurnedInvariant, PTL
=============================================================================
