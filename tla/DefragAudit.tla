----------------------------- MODULE DefragAudit -----------------------------
(***************************************************************************)
(* IpDefragmenter with a history of the fragments that arrived: who sent   *)
(* them, which places of the datagram they fill, and how long ago the      *)
(* first one came.  The history is kept from the calls and the limits that *)
(* ip_defragmenter.h names, not from the buffers.  A sender cuts its       *)
(* datagram into fragments as it likes, as long as offsets are whole       *)
(* units, and may send any of them again, cut in another way; some senders *)
(* do not play by these rules.                                             *)
(***************************************************************************)
EXTENDS IpDefragmenter

CONSTANT Length  (* the lengths of the senders' datagrams                  *)

ASSUME AuditAssumption ==
  /\ \A f \in Fragment : f.source \in DOMAIN Length
  /\ "forged" \notin DOMAIN Length
  /\ \A s \in DOMAIN Length : Length[s] \in Nat

VARIABLES
  arrived,  (* the places of each datagram that its fragments filled,      *)
  sources,  (* their senders,                                              *)
  elapsed,  (* and the seconds since the first of them                     *)
  handed    (* who sent the fragments of what this step hands over         *)

history == <<arrived, sources, elapsed>>
auditVars == <<buffers, out, arrived, sources, elapsed, handed>>

AuditInit ==
  /\ DefragInit
  /\ arrived = [k \in FragmentKey |-> {}]
  /\ sources = [k \in FragmentKey |-> {}]
  /\ elapsed = [k \in FragmentKey |-> 0]
  /\ handed = {}

(* A fragment that its sender's datagram really can be cut into.           *)
Honest(f) ==
  /\ End(f) <= Length[f.source]
  /\ f.more = (End(f) < Length[f.source])

Contributor(f) == IF Honest(f) THEN f.source ELSE "forged"

Opened == {k \in FragmentKey : arrived[k] # {}}

(* A fragment with bytes, of a datagram that is not too large, is taken if *)
(* its datagram is open or one more may be (ip_defragmenter.h:46-48).      *)
Counts(f) ==
  /\ f.length # 0
  /\ End(f) <= MaxDatagramSize
  /\ f.key \in Opened \/ Cardinality(Opened) < MaxConcurrentDatagrams

Recorded(f) ==
  /\ arrived' = [arrived EXCEPT ![f.key] = @ \cup Span(f)]
  /\ sources' = [sources EXCEPT ![f.key] = @ \cup {Contributor(f)}]
  /\ UNCHANGED elapsed

Closed(K) ==
  /\ arrived' = [k \in FragmentKey |-> IF k \in K THEN {} ELSE arrived[k]]
  /\ sources' = [k \in FragmentKey |-> IF k \in K THEN {} ELSE sources[k]]
  /\ elapsed' = [k \in FragmentKey |-> IF k \in K THEN 0 ELSE elapsed[k]]

(* A datagram is closed by the call that hands it over, ...                *)
AuditedFragment(f) ==
  /\ ProcessFragment(f)
  /\ \/ /\ out' # NoDatagram
        /\ handed' = sources[f.key] \cup {Contributor(f)}
        /\ Closed({f.key})
     \/ /\ out' = NoDatagram
        /\ handed' = {}
        /\ IF Counts(f) THEN Recorded(f) ELSE UNCHANGED history

(* ... or by a run over the table after the timeout.                       *)
AuditedEviction ==
  /\ EvictStaleFragments
  /\ handed' = {}
  /\ Closed({k \in FragmentKey : elapsed[k] > FragmentTimeout})

AuditedTick ==
  /\ Tick
  /\ handed' = {}
  /\ elapsed' = [k \in FragmentKey |->
                   IF k \in Opened THEN Min({elapsed[k] + 1, FragmentTimeout + 1}) ELSE 0]
  /\ UNCHANGED <<arrived, sources>>

AuditNext ==
  \/ \E f \in Fragment : AuditedFragment(f)
  \/ AuditedEviction
  \/ AuditedTick

AuditSpec ==
  /\ AuditInit
  /\ [][AuditNext]_auditVars
  /\ WF_auditVars(AuditedEviction)
  /\ WF_auditVars(AuditedTick)
-----------------------------------------------------------------------------
(* ip_defragmenter.h:58-60: what is handed over is a datagram that was     *)
(* sent, whole and unchanged, if only fragments of it went into the        *)
(* buffer: in any order, some of them twice or overlapping, and after any  *)
(* fragments that were refused.                                            *)
DeliveredAsSent ==
  \A s \in DOMAIN Length :
    handed = {s} => out = [i \in 0 .. Length[s] - 1 |-> <<s, i>>]

(* ip_defragmenter.h:47, :57-60: once every byte of a sender's datagram    *)
(* has arrived it has been handed over, if no more than the timeout passed *)
(* since the first one was taken: whatever the order, the repetitions and  *)
(* the cuts, whichever other datagrams filled the table meanwhile, and     *)
(* whenever evict_stale_fragments ran.  So nothing that was taken is       *)
(* forgotten in between, and no fragment waits for one more.               *)
HandedOverWhenWhole ==
  \A k \in FragmentKey, s \in DOMAIN Length :
    sources[k] = {s} => ~(0 .. Length[s] - 1 \subseteq arrived[k])
=============================================================================
