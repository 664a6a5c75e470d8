---------------------------- MODULE PipelineAudit ----------------------------
(***************************************************************************)
(* Pipeline with an account of its packets, those without payload (and     *)
(* therefore without a slot) included: which were inspected or bypassed,   *)
(* which main gave up, and which workers looked at keep_running again      *)
(* after main had stopped dispatching.  The account only observes.         *)
(***************************************************************************)
EXTENDS Pipeline

VARIABLES
  finished,  (* the numbers of the packets that a worker is done with      *)
  dropped,   (* the numbers of those that main could not dispatch          *)
  turned     (* the workers that began a turn of their loop after main had *)
             (* left its own                                               *)

auditVars ==
  <<keepRunning, mainPc, parsed, count, freeSlots, isFree, slotData, queues,
    workerPc, packet, finished, dropped, turned>>

AuditInit ==
  /\ Init
  /\ finished = {}
  /\ dropped = {}
  /\ turned = {}

(* The workers that leave one of their program counters in this step.      *)
LeaveFrom(pc) == {w \in Workers : workerPc[w] = pc /\ workerPc'[w] # pc}

(* main does not read or dispatch any more: it sleeps, or waits to join.   *)
Draining == mainPc \in {"drain", "join"}

AuditNext ==
  /\ Next
  /\ finished' = finished \cup {packet[w].number : w \in LeaveFrom("busy")}
  /\ dropped' = IF mainPc = "rollback" /\ mainPc' # "rollback"
                THEN dropped \cup {parsed.number} ELSE dropped
  /\ turned' = IF Draining THEN turned \cup LeaveFrom("loop") ELSE turned

AuditSpec == AuditInit /\ [][AuditNext]_auditVars /\ Fairness
-----------------------------------------------------------------------------
(* Where packet n is: with main, in a queue, with a worker, or done with.  *)
AtMain(n) == {<<"main", 0>> : p \in {p \in {parsed} \ {NoPacket} : p.number = n}}
AtQueue(w, n) ==
  {<<"queue", w, i>> : i \in {i \in DOMAIN queues[w] : queues[w][i].number = n}}
AtWorker(n) ==
  {<<"worker", w>> : w \in {w \in Workers : packet[w] # NoPacket /\ packet[w].number = n}}
Settled(n) ==
  {<<"finished", 0>> : m \in finished \cap {n}} \cup {<<"dropped", 0>> : m \in dropped \cap {n}}

PlacesOf(n) ==
  AtMain(n) \cup (UNION {AtQueue(w, n) : w \in Workers}) \cup AtWorker(n) \cup Settled(n)

(* The retry loops of main (main.cpp:207 and :233) and its rollback: every *)
(* packet read, with or without payload, is in one place at every moment,  *)
(* so none is lost, dispatched twice or handled twice however full pool    *)
(* and queues are.  Only after CTRL+C is a packet given up, and only the   *)
(* last one.                                                               *)
EveryPacketOnce ==
  /\ \A n \in 1 .. count : \E place \in PlacesOf(n) : PlacesOf(n) = {place}
  /\ dropped # {} => ~keepRunning /\ dropped = {count}

(* What is true of main.cpp:96 ("Safe to exit."): no worker leaves while   *)
(* the flag is set, and one that tests the condition of its loop even once *)
(* after main left its own leaves an empty queue, whenever CTRL+C comes.   *)
(* (By then it sees what main pushed last: SeesNothing.)                   *)
ExitSafeAfterTurn ==
  \A w \in Workers : workerPc[w] = "exited" =>
    /\ ~keepRunning
    /\ w \in turned => queues[w] = <<>>

(* At the end every packet was inspected or bypassed, but for the one that *)
(* main gave up after CTRL+C and those that wait in the queue of a worker  *)
(* which did not get as far as its next turn before it left.               *)
NothingLost ==
  mainPc = "done" =>
    \A n \in 1 .. count :
      \/ n \in finished \cup dropped
      \/ \E w \in Workers \ turned : AtQueue(w, n) # {}
=============================================================================
