-------------------------- MODULE ConnectionTracker --------------------------
(***************************************************************************)
(* The class ConnectionTracker (src/connection_tracker.cpp): the table of  *)
(* the TCP flows one worker follows, a small TCP state machine for each,   *)
(* and the list of the flows from the most to the least recently seen,     *)
(* from whose back evict_stale_sessions removes flows that timed out.      *)
(* Only the worker that owns the tracker calls it, one call at a time.     *)
(*                                                                         *)
(* Time.  Instead of last_seen, idle is the number of whole seconds since  *)
(* the flow was last seen, which is all evict_stale_sessions looks at.  It *)
(* stops counting once it exceeds every timeout.                           *)
(***************************************************************************)
EXTENDS Integers, Sequences

CONSTANTS
  Tuple,             (* the canonical 5-tuples                             *)
  ClosedGrace,       (* 5 in the code: how long a CLOSED flow is kept      *)
  HandshakeTimeout,  (* 10: how long a SYN_SENT or SYN_RCVD flow is kept   *)
  IdleTimeout        (* 300: how long any other flow is kept               *)

ASSUME TimeoutAssumption ==
  /\ {ClosedGrace, HandshakeTimeout, IdleTimeout} \subseteq Nat
  /\ ClosedGrace < HandshakeTimeout
  /\ HandshakeTimeout < IdleTimeout

VARIABLES
  state,    (* flow_table: the state of each tracked flow, or NONE         *)
  idle,     (* seconds since each tracked flow's last_seen                 *)
  lruList   (* lru_list                                                    *)

trackerVars == <<state, idle, lruList>>

(* The code never assigns FIN_WAIT, and no flow is ever left UNKNOWN.      *)
TcpState == {"SYN_SENT", "SYN_RCVD", "ESTABLISHED", "CLOSED"}
Flag == {"SYN", "ACK", "FIN", "RST"}

Tracked(t) == state[t] # "NONE"

TrackerTypeOK ==
  /\ state \in [Tuple -> TcpState \cup {"NONE"}]
  /\ idle \in [Tuple -> 0 .. IdleTimeout + 1]
  /\ lruList \in Seq(Tuple)

TrackerInit ==
  /\ state = [t \in Tuple |-> "NONE"]
  /\ idle = [t \in Tuple |-> 0]
  /\ lruList = <<>>
-----------------------------------------------------------------------------
(* process_tcp_packet                                                      *)

(* faulty: the old element stays in the list *)
PushFrontAgain(seq, k) == <<seq[k]>> \o seq

(* faulty: the element stays where it is *)
LeaveInPlace(seq, k) == seq

(* lru_list.splice: the element at position k becomes the first.           *)
MoveToFront(seq, k) ==
  [i \in 1 .. Len(seq) |-> IF i = 1 THEN seq[k]
                           ELSE IF i <= k THEN seq[i - 1] ELSE seq[i]]

(* faulty: a FIN leads to a state that nothing leaves *)
NextStateFinWait(s, flags) ==
  IF s = "SYN_SENT" /\ {"SYN", "ACK"} \subseteq flags THEN "SYN_RCVD"
  ELSE IF s = "SYN_RCVD" /\ "ACK" \in flags THEN "ESTABLISHED"
  ELSE IF "RST" \in flags THEN "CLOSED"
  ELSE IF "FIN" \in flags THEN "FIN_WAIT"
  ELSE s

(* The state after a packet with these flags.                              *)
NextState(s, flags) ==
  IF s = "SYN_SENT" /\ {"SYN", "ACK"} \subseteq flags THEN "SYN_RCVD"
  ELSE IF s = "SYN_RCVD" /\ "ACK" \in flags THEN "ESTABLISHED"
  ELSE IF {"FIN", "RST"} \cap flags # {} THEN "CLOSED"
  ELSE s

(* A SYN of an unknown flow starts it ...                                  *)
NewFlow(t, flags) ==
  /\ ~Tracked(t)
  /\ "SYN" \in flags /\ "ACK" \notin flags
  /\ state' = [state EXCEPT ![t] = "SYN_SENT"]
  /\ idle' = [idle EXCEPT ![t] = 0]
  /\ lruList' = <<t>> \o lruList

(* ... and any other packet of an unknown flow is not tracked (nullptr).   *)
IgnorePacket(t, flags) ==
  /\ ~Tracked(t)
  /\ "SYN" \notin flags \/ "ACK" \in flags
  /\ UNCHANGED trackerVars

KnownFlow(t, flags) ==
  /\ Tracked(t)
  /\ state' = [state EXCEPT ![t] = NextState(@, flags)]
  /\ idle' = [idle EXCEPT ![t] = 0]
  /\ \E k \in DOMAIN lruList :
       /\ lruList[k] = t
       /\ lruList' = MoveToFront(lruList, k)

ProcessTcpPacket(t, flags) ==
  \/ NewFlow(t, flags)
  \/ IgnorePacket(t, flags)
  \/ KnownFlow(t, flags)
-----------------------------------------------------------------------------
(* evict_stale_sessions                                                    *)

Timeout(s) ==
  CASE s = "CLOSED" -> ClosedGrace
    [] s \in {"SYN_SENT", "SYN_RCVD"} -> HandshakeTimeout
    [] OTHER -> IdleTimeout

(* faulty: no rule for established flows, and no rule for all others *)
ExpiredUnlessOpen(t) ==
  Tracked(t) /\ state[t] # "ESTABLISHED" /\ idle[t] > Timeout(state[t])

(* should_evict, for a flow of the table.                                  *)
Expired(t) == Tracked(t) /\ idle[t] > Timeout(state[t])

(* Flows are removed from the back of the list until one has not expired.  *)
(* A tuple of the list that the table does not know is removed, too.       *)
EvictStaleSessions ==
  \E n \in 0 .. Len(lruList) :
    LET evicted == {lruList[i] : i \in n + 1 .. Len(lruList)}
    IN  /\ \A t \in evicted : ~Tracked(t) \/ Expired(t)
        /\ n # 0 => Tracked(lruList[n]) /\ ~Expired(lruList[n])
        /\ lruList' = SubSeq(lruList, 1, n)
        /\ state' = [t \in Tuple |-> IF t \in evicted THEN "NONE" ELSE state[t]]
        /\ idle' = [t \in Tuple |-> IF t \in evicted THEN 0 ELSE idle[t]]
-----------------------------------------------------------------------------
(* A second passes.                                                        *)
Tick ==
  /\ idle' = [t \in Tuple |-> IF Tracked(t) /\ idle[t] <= IdleTimeout
                              THEN idle[t] + 1 ELSE idle[t]]
  /\ UNCHANGED <<state, lruList>>

TrackerNext ==
  \/ \E t \in Tuple, flags \in SUBSET Flag : ProcessTcpPacket(t, flags)
  \/ EvictStaleSessions
  \/ Tick

(* Time passes, and the worker's loop runs the collector again and again   *)
(* (FlowWorker shows on what that depends).  No packet need ever come.     *)
TrackerSpec ==
  /\ TrackerInit
  /\ [][TrackerNext]_trackerVars
  /\ WF_trackerVars(Tick)
  /\ WF_trackerVars(EvictStaleSessions)
-----------------------------------------------------------------------------
(* connection_tracker.h:16 and :24: the table and the list always have the *)
(* same flows, each of them once.  Otherwise a saved iterator would dangle *)
(* or a flow would never be collected.                                     *)
LruMatchesTable ==
  /\ \A i, j \in DOMAIN lruList : lruList[i] = lruList[j] => i = j
  /\ \A t \in Tuple : Tracked(t) <=> \E i \in DOMAIN lruList : lruList[i] = t

(* "Front = Newest flows, Back = Oldest flows" (connection_tracker.h:23):  *)
(* the collector looks at the back only.                                   *)
LruChronological ==
  \A i, j \in DOMAIN lruList : i < j => idle[lruList[i]] <= idle[lruList[j]]

(* connection_tracker.cpp:121 ("This guarantees the O(1) loop NEVER gets   *)
(* permanently stuck!"): no flow that was idle for longer than the longest *)
(* timeout outlives a run of the collector, whatever lies behind it.       *)
LongIdleCollected ==
  [][EvictStaleSessions =>
       \A t \in Tuple : Tracked(t)' => idle[t] <= IdleTimeout]_trackerVars

(* A flow that stops sending is eventually forgotten.                      *)
SilentFlowsForgotten ==
  \A t \in Tuple : []<>(~Tracked(t) \/ idle[t] = 0)
=============================================================================
