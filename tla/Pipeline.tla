------------------------------ MODULE Pipeline ------------------------------
(***************************************************************************)
(* The threads of src/main.cpp: the ingestion thread (main), one worker    *)
(* thread per element of Workers (worker_node), the payload buffers they   *)
(* share (PacketMemoryPool), the queue of each worker (LoadBalancer), and  *)
(* the flag keep_running, which a SIGINT may clear at any moment.          *)
(*                                                                         *)
(* Granularity.  Every access to something another thread writes is a step *)
(* of its own: each load of keep_running, each call of the pool (under its *)
(* mutex), each push and pop, and the copy into a payload buffer.          *)
(*                                                                         *)
(* The queues.  SpscQueue shows that a push and a pop that succeed are     *)
(* those of a FIFO queue, and that a pop or an empty() may report nothing  *)
(* although an item was pushed: the worker's view of head_ may be old.     *)
(* Miss and Leave allow for that.  (A push that fails on an old view of    *)
(* tail_ is tried again and is not told from one that came later.)         *)
(*                                                                         *)
(* Data.  A packet is its position in the capture file, its flow (the      *)
(* bidirectional 5-tuple) and its pool slot.  What a worker does with a    *)
(* packet, other than giving back its slot, is private to that worker and  *)
(* is the subject of ConnectionTracker and FlowWorker.                     *)
(***************************************************************************)
EXTENDS Integers, Sequences

CONSTANTS
  NumWorkers,     (* num_workers                                           *)
  NumSlots,       (* 65536 in the code: the capacity of the memory pool    *)
  QueueCapacity,  (* 8192 in the code: the capacity of each queue          *)
  Flows,          (* the bidirectional 5-tuples in the capture             *)
  WorkerOf,       (* the flow's hash modulo the number of workers          *)
  NoSlot,         (* ParsedPacket::NO_PAYLOAD                              *)
  NoPacket,       (* a ParsedPacket variable that holds no packet          *)
  MaxPackets,     (* bound: the number of packets in the capture           *)
  Interrupts,     (* whether the user may press CTRL+C                     *)
  SpawnFails      (* whether the system may run out of threads             *)

Workers == 0 .. NumWorkers - 1
Slots == 0 .. NumSlots - 1

Packet == [number : 1 .. MaxPackets, flow : Flows, slot : Slots \cup {NoSlot}]

ASSUME PipelineAssumption ==
  /\ NumWorkers \in Nat \ {0}
  /\ NumSlots \in Nat \ {0}
  /\ QueueCapacity \in Nat \ {0}
  /\ WorkerOf \in [Flows -> Workers]
  /\ NoSlot \notin Slots
  /\ NoPacket \notin Packet
  /\ MaxPackets \in Nat

ASSUME SwitchAssumption == {Interrupts, SpawnFails} \subseteq BOOLEAN

VARIABLES
  keepRunning,  (* keep_running                                            *)
  mainPc,       (* where the ingestion thread is                           *)
  parsed,       (* its packet: parsed                                      *)
  count,        (* packets read from the capture so far                    *)
  freeSlots,    (* PacketMemoryPool::free_slots                            *)
  isFree,       (* PacketMemoryPool::is_free                               *)
  slotData,     (* PacketMemoryPool::pool: whose payload each slot has     *)
  queues,       (* LoadBalancer::worker_queues_                            *)
  workerPc,     (* where each worker is in worker_node                     *)
  packet        (* each worker's packet                                    *)

poolVars == <<freeSlots, isFree, slotData>>
workerVars == <<workerPc, packet>>
mainVars == <<mainPc, parsed, count>>
vars == <<keepRunning, mainPc, parsed, count, freeSlots, isFree, slotData,
          queues, workerPc, packet>>

TypeOK ==
  /\ keepRunning \in BOOLEAN
  /\ mainPc \in {"spawn", "open", "read", "acquireTest", "acquire", "copy",
                 "dispatchTest", "dispatch", "rollback", "drain", "join",
                 "done", "failed", "aborted"}
  /\ parsed \in Packet \cup {NoPacket}
  /\ count \in 0 .. MaxPackets
  /\ freeSlots \in Seq(Slots)
  /\ isFree \in [Slots -> BOOLEAN]
  /\ slotData \in [Slots -> 0 .. MaxPackets]
  /\ queues \in [Workers -> Seq(Packet)]
  /\ workerPc \in [Workers -> {"unborn", "loop", "pop", "empty", "busy",
                               "check", "exited"}]
  /\ packet \in [Workers -> Packet \cup {NoPacket}]

Init ==
  /\ keepRunning = TRUE
  /\ mainPc = "spawn"
  /\ parsed = NoPacket
  /\ count = 0
  /\ freeSlots = [i \in 1 .. NumSlots |-> i - 1]
  /\ isFree = [s \in Slots |-> TRUE]
  /\ slotData = [s \in Slots |-> 0]
  /\ queues = [w \in Workers |-> <<>>]
  /\ workerPc = [w \in Workers |-> "unborn"]
  /\ packet = [w \in Workers |-> NoPacket]
-----------------------------------------------------------------------------
(* PacketMemoryPool                                                        *)

AcquireSlot ==
  /\ freeSlots # <<>>
  /\ freeSlots' = Tail(freeSlots)
  /\ isFree' = [isFree EXCEPT ![Head(freeSlots)] = FALSE]

(* faulty: does not look whether there is a slot to release *)
ReleaseUnchecked(slot) ==
  /\ freeSlots' = Append(freeSlots, slot)
  /\ isFree' = [isFree EXCEPT ![slot] = TRUE]

(* A slot that is already free is not freed again.                         *)
ReleaseSlot(slot) ==
  IF slot \in Slots /\ ~isFree[slot]
  THEN /\ freeSlots' = Append(freeSlots, slot)
       /\ isFree' = [isFree EXCEPT ![slot] = TRUE]
  ELSE UNCHANGED <<freeSlots, isFree>>
-----------------------------------------------------------------------------
(* main                                                                    *)

Goto(pc) == mainPc' = pc

(* workers.emplace_back(worker_node, ...), in the order of their numbers.  *)
Spawn(w) ==
  /\ mainPc = "spawn"
  /\ \A v \in Workers : workerPc[v] = "unborn" <=> v >= w
  /\ workerPc' = [workerPc EXCEPT ![w] = "loop"]
  /\ Goto(IF w = NumWorkers - 1 THEN "open" ELSE "spawn")
  /\ UNCHANGED <<keepRunning, parsed, count, poolVars, queues, packet>>

(* std::thread throws.  The exception unwinds the vector of threads: if it *)
(* holds one that is still joinable, its destructor ends the process;      *)
(* otherwise the handler is reached and main returns 1.                    *)
SpawnFail ==
  /\ SpawnFails
  /\ mainPc = "spawn"
  /\ Goto(IF \A w \in Workers : workerPc[w] = "unborn" THEN "failed" ELSE "aborted")
  /\ UNCHANGED <<keepRunning, parsed, count, poolVars, queues, workerVars>>

Open ==
  /\ mainPc = "open"
  /\ \/ Goto("read") /\ UNCHANGED keepRunning
     \/ Goto("drain") /\ keepRunning' = FALSE
  /\ UNCHANGED <<parsed, count, poolVars, queues, workerVars>>

(* keep_running is set, and the next packet of the file parses.  One that  *)
(* does not parse is dropped before it touches anything shared.            *)
Read(flow, hasPayload) ==
  /\ mainPc = "read"
  /\ keepRunning
  /\ count < MaxPackets
  /\ count' = count + 1
  /\ parsed' = [number |-> count + 1, flow |-> flow, slot |-> NoSlot]
  /\ Goto(IF hasPayload THEN "acquireTest" ELSE "dispatchTest")
  /\ UNCHANGED <<keepRunning, poolVars, queues, workerVars>>

(* keep_running is cleared, or the file has no further packet.             *)
EndOfCapture ==
  /\ mainPc = "read"
  /\ Goto("drain")
  /\ UNCHANGED <<keepRunning, parsed, count, poolVars, queues, workerVars>>

(* The loop that waits for a free slot.                                    *)
AcquireTest ==
  /\ mainPc = "acquireTest"
  /\ Goto(IF keepRunning THEN "acquire" ELSE "dispatchTest")
  /\ UNCHANGED <<keepRunning, parsed, count, poolVars, queues, workerVars>>

Acquire ==
  /\ mainPc = "acquire"
  /\ AcquireSlot
  /\ parsed' = [parsed EXCEPT !.slot = Head(freeSlots)]
  /\ Goto("copy")
  /\ UNCHANGED <<keepRunning, count, slotData, queues, workerVars>>

Exhausted ==
  /\ mainPc = "acquire"
  /\ freeSlots = <<>>
  /\ Goto("acquireTest")
  /\ UNCHANGED <<keepRunning, parsed, count, poolVars, queues, workerVars>>

Copy ==
  /\ mainPc = "copy"
  /\ slotData' = [slotData EXCEPT ![parsed.slot] = parsed.number]
  /\ Goto("dispatchTest")
  /\ UNCHANGED <<keepRunning, parsed, count, freeSlots, isFree, queues, workerVars>>

(* The loop that waits for room in the queue.                              *)
DispatchTest ==
  /\ mainPc = "dispatchTest"
  /\ Goto(IF keepRunning THEN "dispatch" ELSE "rollback")
  /\ UNCHANGED <<keepRunning, parsed, count, poolVars, queues, workerVars>>

(* faulty: gives back the slot although the packet was dispatched *)
DispatchThenRelease ==
  /\ mainPc = "dispatch"
  /\ Len(queues[WorkerOf[parsed.flow]]) < QueueCapacity
  /\ queues' = [queues EXCEPT ![WorkerOf[parsed.flow]] = Append(@, parsed)]
  /\ ReleaseSlot(parsed.slot)
  /\ parsed' = NoPacket
  /\ Goto("read")
  /\ UNCHANGED <<keepRunning, count, slotData, workerVars>>

(* faulty: gives the packet to any worker that has room *)
DispatchAnywhere ==
  /\ mainPc = "dispatch"
  /\ \E w \in Workers :
       /\ Len(queues[w]) < QueueCapacity
       /\ queues' = [queues EXCEPT ![w] = Append(@, parsed)]
  /\ parsed' = NoPacket
  /\ Goto("read")
  /\ UNCHANGED <<keepRunning, count, poolVars, workerVars>>

Dispatch ==
  /\ mainPc = "dispatch"
  /\ Len(queues[WorkerOf[parsed.flow]]) < QueueCapacity
  /\ queues' = [queues EXCEPT ![WorkerOf[parsed.flow]] = Append(@, parsed)]
  /\ parsed' = NoPacket
  /\ Goto("read")
  /\ UNCHANGED <<keepRunning, count, poolVars, workerVars>>

(* faulty: rolls back although it will try again *)
QueueFullRollback ==
  /\ mainPc = "dispatch"
  /\ Len(queues[WorkerOf[parsed.flow]]) >= QueueCapacity
  /\ ReleaseSlot(parsed.slot)
  /\ Goto("dispatchTest")
  /\ UNCHANGED <<keepRunning, parsed, count, slotData, queues, workerVars>>

(* faulty: does not try again *)
QueueFullGiveUp ==
  /\ mainPc = "dispatch"
  /\ Len(queues[WorkerOf[parsed.flow]]) >= QueueCapacity
  /\ ReleaseSlot(parsed.slot)
  /\ parsed' = NoPacket
  /\ Goto("read")
  /\ UNCHANGED <<keepRunning, count, slotData, queues, workerVars>>

QueueFull ==
  /\ mainPc = "dispatch"
  /\ Len(queues[WorkerOf[parsed.flow]]) >= QueueCapacity
  /\ Goto("dispatchTest")
  /\ UNCHANGED <<keepRunning, parsed, count, poolVars, queues, workerVars>>

Rollback ==
  /\ mainPc = "rollback"
  /\ ReleaseSlot(parsed.slot)
  /\ parsed' = NoPacket
  /\ Goto("read")
  /\ UNCHANGED <<keepRunning, count, slotData, queues, workerVars>>

(* The second of sleep may end before the workers have done anything in    *)
(* it: how much they get done is up to the system.                         *)

(* faulty: does not tell the workers *)
StopSilently ==
  /\ mainPc = "drain"
  /\ Goto("join")
  /\ UNCHANGED <<keepRunning, parsed, count, poolVars, queues, workerVars>>

Stop ==
  /\ mainPc = "drain"
  /\ keepRunning' = FALSE
  /\ Goto("join")
  /\ UNCHANGED <<parsed, count, poolVars, queues, workerVars>>

Join ==
  /\ mainPc = "join"
  /\ \A w \in Workers : workerPc[w] = "exited"
  /\ Goto("done")
  /\ UNCHANGED <<keepRunning, parsed, count, poolVars, queues, workerVars>>

Main ==
  \/ \E w \in Workers : Spawn(w)
  \/ SpawnFail
  \/ Open
  \/ \E flow \in Flows, hasPayload \in BOOLEAN : Read(flow, hasPayload)
  \/ EndOfCapture
  \/ AcquireTest \/ Acquire \/ Exhausted \/ Copy
  \/ DispatchTest \/ Dispatch \/ QueueFull \/ Rollback
  \/ Stop \/ Join
-----------------------------------------------------------------------------
(* worker_node                                                             *)

Ended == mainPc \in {"done", "failed", "aborted"}

(* faulty: while (keep_running), whatever the queue holds *)
LoopTestFlagOnly(w) ==
  /\ workerPc[w] = "loop"
  /\ workerPc' = [workerPc EXCEPT ![w] = IF keepRunning THEN "pop" ELSE "exited"]
  /\ UNCHANGED <<packet, keepRunning, mainVars, poolVars, queues>>

(* while (keep_running || ...                                              *)
LoopTest(w) ==
  /\ workerPc[w] = "loop"
  /\ workerPc' = [workerPc EXCEPT ![w] = IF keepRunning THEN "pop" ELSE "empty"]
  /\ UNCHANGED <<packet, keepRunning, mainVars, poolVars, queues>>

(* The queue was seen to have a packet, and pop takes it.  Nobody else     *)
(* takes from this queue: a pop after a successful test cannot fail.       *)
Take(w) ==
  /\ workerPc[w] \in {"pop", "empty"}
  /\ queues[w] # <<>>
  /\ packet' = [packet EXCEPT ![w] = Head(queues[w])]
  /\ queues' = [queues EXCEPT ![w] = Tail(@)]
  /\ workerPc' = [workerPc EXCEPT ![w] = "busy"]
  /\ UNCHANGED <<keepRunning, mainVars, poolVars>>

(* The worker sees nothing in its queue: it is empty, or what was pushed   *)
(* is not visible to it yet.  The second of sleep outlasts any such delay. *)
SeesNothing(w) ==
  mainPc \in {"drain", "join"} => queues[w] = <<>>

(* pop returns false.                                                      *)
Miss(w) ==
  /\ workerPc[w] = "pop"
  /\ SeesNothing(w)
  /\ workerPc' = [workerPc EXCEPT ![w] = "check"]
  /\ UNCHANGED <<packet, keepRunning, mainVars, poolVars, queues>>

(* ... || !my_queue->empty()) fails.                                       *)
Leave(w) ==
  /\ workerPc[w] = "empty"
  /\ SeesNothing(w)
  /\ workerPc' = [workerPc EXCEPT ![w] = "exited"]
  /\ UNCHANGED <<packet, keepRunning, mainVars, poolVars, queues>>

(* faulty: leaves as soon as the queue is empty *)
StopUntested(w) ==
  /\ workerPc[w] = "check"
  /\ workerPc' = [workerPc EXCEPT ![w] = "exited"]
  /\ UNCHANGED <<packet, keepRunning, mainVars, poolVars, queues>>

(* else if (!keep_running) break;                                          *)
StopTest(w) ==
  /\ workerPc[w] = "check"
  /\ workerPc' = [workerPc EXCEPT ![w] = IF keepRunning THEN "loop" ELSE "exited"]
  /\ UNCHANGED <<packet, keepRunning, mainVars, poolVars, queues>>

(* The packet is inspected, or bypassed; both give back its slot.  The     *)
(* worker's variable keeps its old value until the next pop, unused.       *)
Finish(w) ==
  /\ workerPc[w] = "busy"
  /\ ReleaseSlot(packet[w].slot)
  /\ packet' = [packet EXCEPT ![w] = NoPacket]
  /\ workerPc' = [workerPc EXCEPT ![w] = "loop"]
  /\ UNCHANGED <<keepRunning, mainVars, slotData, queues>>

Worker(w) ==
  /\ ~Ended
  /\ \/ LoopTest(w)
     \/ Take(w)
     \/ Miss(w)
     \/ Leave(w)
     \/ StopTest(w)
     \/ Finish(w)
-----------------------------------------------------------------------------
(* signal_handler, on whichever thread the system runs it.                 *)
Interrupt ==
  /\ Interrupts
  /\ ~Ended
  /\ keepRunning
  /\ keepRunning' = FALSE
  /\ UNCHANGED <<mainVars, poolVars, queues, workerVars>>

Terminated ==
  /\ Ended
  /\ UNCHANGED vars

Next ==
  \/ Main
  \/ \E w \in Workers : Worker(w)
  \/ Interrupt
  \/ Terminated

(* The system schedules every thread, and a pushed item does not stay      *)
(* invisible for ever.  Nothing makes a user press CTRL+C.                 *)
Fairness ==
  /\ WF_vars(Main)
  /\ \A w \in Workers : WF_vars(Worker(w)) /\ SF_vars(~Ended /\ Take(w))

Spec == Init /\ [][Next]_vars /\ Fairness
-----------------------------------------------------------------------------
(* Who has a slot: the pool, main, a queued packet, or a worker's packet.  *)
InPool(s) == {<<"pool", i>> : i \in {i \in DOMAIN freeSlots : freeSlots[i] = s}}
WithMain(s) == {<<"main", 0>> : m \in {m \in {parsed} \ {NoPacket} : m.slot = s}}
InQueue(w, s) ==
  {<<"queue", w, i>> : i \in {i \in DOMAIN queues[w] : queues[w][i].slot = s}}
WithWorker(s) ==
  {<<"worker", w>> : w \in {w \in Workers : packet[w] # NoPacket /\ packet[w].slot = s}}

OwnersOf(s) ==
  InPool(s) \cup WithMain(s) \cup (UNION {InQueue(w, s) : w \in Workers}) \cup WithWorker(s)

(* memory_pool.h and the borrow/release protocol of main and the workers:  *)
(* every slot has exactly one owner at every moment (none is leaked, freed *)
(* twice or shared), and is_free agrees with free_slots.                   *)
OneOwner ==
  \A s \in Slots :
    /\ \E owner \in OwnersOf(s) : OwnersOf(s) = {owner}
    /\ isFree[s] <=> \E i \in DOMAIN freeSlots : freeSlots[i] = s

(* main.cpp:84 reads through payload_ptr while the ingestion thread copies *)
(* into other slots: a dispatched packet's slot holds that packet's bytes  *)
(* until its worker gives it back.                                         *)
PayloadIntact ==
  \A w \in Workers :
    /\ \A i \in DOMAIN queues[w] :
         queues[w][i].slot # NoSlot => slotData[queues[w][i].slot] = queues[w][i].number
    /\ packet[w] # NoPacket /\ packet[w].slot # NoSlot
         => slotData[packet[w].slot] = packet[w].number

(* Flow-aware routing (load_balancer.h:37): a worker has the packets of a  *)
(* flow in the order of the capture, and no other worker has any of them.  *)
InFlight(w) == (IF packet[w] = NoPacket THEN <<>> ELSE <<packet[w]>>) \o queues[w]

FlowOrder ==
  \A v, w \in Workers :
    \A i \in DOMAIN InFlight(v), j \in DOMAIN InFlight(w) :
      InFlight(v)[i].flow = InFlight(w)[j].flow
        => v = w /\ (i < j <=> InFlight(v)[i].number < InFlight(w)[j].number)

(* main.cpp:95-96 ("Queue is empty AND main thread said stop. Safe to      *)
(* exit."): a worker that has left leaves no packet behind.  PipelineAudit *)
(* says which workers this holds of.                                       *)
ExitSafe ==
  \A w \in Workers : workerPc[w] = "exited" => queues[w] = <<>>

(* Whatever happens (an exhausted pool, a full queue, CTRL+C at any time)  *)
(* the process ends: no thread spins for ever.                             *)
Terminates == <>Ended
=============================================================================
