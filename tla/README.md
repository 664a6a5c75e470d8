# A TLA+ model of NetHex

NetHex is a deep packet inspection engine in C++. One ingestion thread reads a
capture file, parses each packet and hands it to one of several worker threads;
each worker follows the TCP flows it is given, scans their payloads for
signatures and stops inspecting flows it has come to trust. This directory has
TLA+ modules for the parts of the engine that keep state and interact, TLC runs
that check them on small instances, and proofs for any instance.

## 1. The system

| Part (source) | State | Operations | Talks to |
|---|---|---|---|
| `LockFreeQueue` (`include/thread_safe_queue.h`) | `buffer_`, atomic `head_`, `tail_` | `push` (ingestion thread only), `pop` (one worker only), `empty` | the two threads that share it, through two atomics only |
| `PacketMemoryPool` (`include/memory_pool.h`) | payload buffers, `free_slots`, `is_free`, a mutex | `acquire_slot`, `release_slot` | ingestion thread borrows, workers (and a failed dispatch) give back |
| `LoadBalancer` (`include/load_balancer.h`) | one queue per worker | `dispatch`, `get_queue` | `LockFreeQueue` |
| ingestion thread (`main`, `src/main.cpp`) | the current packet | spawn, open, read, acquire, copy, dispatch, roll back, stop, join | pool, load balancer, `keep_running` |
| worker thread (`worker_node`, `src/main.cpp`) | the current packet, `loop_counter`, its own tracker and engine | pop, track, bypass or inspect, release, collect | queue, pool, `keep_running` |
| SIGINT handler (`src/main.cpp`) | `keep_running` | clear it | all threads |
| `ConnectionTracker` (`src/connection_tracker.cpp`) | `flow_table`, `lru_list` | `process_tcp_packet`, `evict_stale_sessions` | called by its worker |
| `FastPath` (`include/fast_path.h`) | `packet_count`, `is_bypassed` of a flow | `should_bypass` | called by the worker |
| `DpiEngine` (`src/dpi_engine.cpp`) | `ac_state`, `l7_protocol` of a flow | `inspect_payload` | `PatternMatcher`, the decoders |
| `RuleManager` (`src/rule_manager.cpp`) | - | `load_rules` | reads the rule file, fills the `PatternMatcher` |
| `PatternMatcher` (`src/pattern_matcher.cpp`) | trie, failure links and signatures of each node; `ac_state` of a flow while it scans | `add_pattern`, `build_machine`, `search` | called by `RuleManager` and `DpiEngine` |
| five-tuple (`include/five_tuple.h`) | - | `create_bidirectional_tuple` | main (routing) and workers (lookup) |
| `IpDefragmenter` (`src/ip_defragmenter.cpp`) | `buffers_`: for each datagram its bytes, a bitmap, the length once known, its age | `process_fragment`, `evict_stale_fragments` | nobody at this commit |
| `PcapFileReader` (`src/pcap_reader.cpp`) | file position, one packet buffer that is used again and again | `open`, `read_next_packet`, `close` | main |
| `PacketParser` (`src/packet_parser.cpp`) | main's `offset` and `packet_len` | `parse_ethernet`, `parse_ipv4`, `parse_tcp`, `parse_udp` | main |
| `SniExtractor` (`src/sni_extractor.cpp`) | `offset`, `ext_end` of one call | `extract_sni` | `DpiEngine` |
| `DnsParser` (`src/dns_parser.cpp`) | `offset`; `cursor`, `jumps`, `post_name_offset` of one name | `extract_queries`, `decode_name` | `DpiEngine` |
| `XxHashFunctor`, `Logger`, `platform.h` | - | hashing, log output, thread pinning | - |

What is hard about it: two lock-free threads per queue; payload memory that
changes hands between threads by number; retry loops that a signal may end at
any point; a shutdown in which main and the workers signal each other through
one flag; a collector that looks only at one end of a list; verdicts about a
flow that must neither be lost nor survive the flow; segments of two directions
that share one scanner state; fragments that contradict each other; lengths in
packets that contradict each other and the bytes that are there; names that
point back into the message. `PROJECT.json` lists these hazards line by line
with the properties that would catch each of them.

What makes each part correct:

* the queue is a bounded FIFO queue and has no data race;
* every payload slot has exactly one owner, and holds its owner's bytes;
* all packets of a flow go to one worker, in the order of the capture;
* every packet is in one place until a worker is done with it, and the process
  ends, whatever fills up and whenever CTRL+C comes;
* the tracker's table and list agree and are in order, which is what the
  collector's look at one end of the list rests on, and no flow is kept for ever;
* a flow that was flagged is never bypassed, verdicts last as long as the flow;
* after every byte the scanner reports the signatures that end there, however
  they overlap, and one end's signature is found however it is cut into segments;
* what the defragmenter hands over are bytes that were sent, in their places; it
  hands a datagram over as soon as all of it has arrived, and nothing occupies
  its table for ever;
* parsers read bytes of the packet at hand and no others, the payload is what
  the headers say it is, and every decoder comes to an end;
* the tuple stands for the connection, in both directions, and for no other.

## 2. Modules

**`FifoQueue`** is the abstract specification of the queue: `Push` appends if
there is room, `Pop` takes the head. It is what the users of the queue rely on.

**`SpscQueue`** is `LockFreeQueue`. `push` is `PushLoad` (the acquire load of
`tail_`), then `PushReject`, or `PushBeginWrite`, `PushEndWrite` (the copy into
`buffer_`) and `PushPublish` (the release store of `head_`); `pop` likewise. An
acquire load may return any value the counter had since the value the thread
saw last (`VisibleSince`), so the model covers what the memory order allows and
not just sequential consistency. The release stores are what entitles the model
to show an item as complete to a thread that sees the new counter. A slot holds
`Junk` while it is being written: a torn or early read would be seen. The
counters live in `0 .. IndexSpace - 1`, as a `size_t` does in 0 .. 2^64-1.
`Contents` maps the ring to the queue of `FifoQueue`, and `ImplementsFifo`
says that every behaviour of the ring is one of the abstract queue.

**`Pipeline`** is `main`, `worker_node`, the pool, the queues and the signal.
`mainPc` and `workerPc` name the lines the threads are at; every access to what
another thread writes is a step. `Spawn`/`SpawnFail` are the loop at
main.cpp:154, `Open` 160-162, `Read`/`EndOfCapture` the loop head at 172,
`AcquireTest`, `Acquire`, `Exhausted`, `Copy` 207-221, `DispatchTest`,
`Dispatch`, `QueueFull` 233-235, `Rollback` 239-241, `Stop` 249-252, `Join`
255-259. In the worker, `LoopTest` and `Leave` are line 51, `Take` and `Miss`
line 52, `StopTest` line 95, `Finish` lines 68-70 or 92-94. The queues are the
FIFO queues that `SpscQueue` implements; what remains of the memory model is
that a pop or an `empty()` may miss a push (`SeesNothing`), though not for as
long as the second that main sleeps.

**`PipelineAudit`** adds an account that only observes: the packets a worker is
done with (`finished`), those main gave up (`dropped`), and the workers that
tested the condition of their loop after main had left its own (`turned`). A
packet without payload has no slot, so `OneOwner` cannot see it; the account
follows every packet. `turned` says for which workers the comment at main.cpp:96
is true.

**`ConnectionTracker`** is the class of that name: `NewFlow`, `IgnorePacket` and
`KnownFlow` are the three ways through `process_tcp_packet`,
`EvictStaleSessions` one whole run of the collector, `Tick` a second of time.
`idle` counts the seconds since `last_seen`, up to one more than the longest
timeout, beyond which the code makes no difference.

**`FlowWorker`** extends `ConnectionTracker` by what a worker's iteration does:
`Counted`/`ShouldBypass` are `should_bypass`; `ScanByte`, `Nodes`, `LastNode` and
`Hit` are `PatternMatcher::search` for any set of signatures, with the node defined as
the longest ending of the text that begins a signature; `Identified` is the
choice of protocol and `Inspected` all of `inspect_payload`. `TrackedPacket`,
`UntrackedPacket` and `Yield` are an iteration with a packet of a flow, another
packet, or none; `Collect` is the run of the collector at the end of every
`GcInterval`-th full iteration. An iteration is private to its worker, so it is
one step.

**`FlowAudit`** adds a history variable to `FlowWorker`: what an observer who
can tell the two ends of a connection apart has seen of each flow. The claims
of the code's comments about a flow's past are invariants there.

**`Signatures`** says what it means that a text ends with a signature or
contains it. **`PatternMatcher`** is the automaton that is built for it:
`ReadLine` is a turn of the loop in `load_rules` with the `add_pattern` it may
lead to, `StartBuild`, `Link` and `Built` are the breadth-first loop of
`build_machine` one node at a time, `ScanByte` a byte in `search`, `NextFlow` a
new flow with `ac_state` 0. A node is named by the bytes that lead to it; the
code numbers nodes in order of creation, which nothing depends on. What
`FlowWorker` takes as the definition of a scan is a theorem about it
(`SearchIsScanByte`). The loops that follow links, collect children and scan
bytes are recursive functions, about which proofs are possible.

**`Reassembly`** is the abstract specification of the defragmenter: pieces of a
datagram arrive as partial functions from places to bytes, and the datagram is
handed over when its end is known and nothing before it is missing. It has no
buffers, so no byte that nobody sent. **`IpDefragmenter`** is the class:
`ProcessFragment` with its early returns (`Refused`), the growing buffer, the
copy and the bitmap (`Stored`), the test for completeness (`Complete`) and the
trimming of what an earlier fragment left behind the end (`Trimmed`);
`EvictStaleFragments` a run of the collector; `Tick` a second. A byte is known
by its datagram and its place in it; what `resize` appends is `Zero`.
`Reassembles` is the refinement: the bytes that are marked are the pieces.
**`DefragAudit`** adds a history of the fragments that arrived for each key:
their places, their senders and the time since the first (`arrived`, `sources`,
`elapsed`). It is kept from the calls and the documented limits, not from the
buffers, so that it can be held against them: what is handed over is what was
sent (`DeliveredAsSent`), and it is handed over once all of it has arrived
(`HandedOverWhenWhole`). `Overlay` has the one operator these modules
share, a function laid over another.

**`Capture`** is the way from the capture file to the payload: `Open`,
`ReadNextPacket` and `StopReading` are `PcapFileReader`; `ParseEthernet`,
`SkipVlanTag`, `ParseIPv4`, `ParseTcp` and `ParseUdp` are `PacketParser`, with
the lengths that headers claim chosen freely when they are read; `CopyPayload`
and `Dispatch` are the rest of main's loop. `skew` is how far the reader is from
the start of the next record; `claimed` is a history variable with what the
headers say.

**`SniExtractor`** and **`DnsParser`** are the two decoders of payloads, with one
step for each field, or byte, that decides how they go on. Bytes are chosen
freely when they are read. `DnsParser` keeps them, because a pointer can lead
back to them; its reference definition `Questions` decodes the same bytes by
recursion on the format (`NameFrom`, `QuestionsFrom`), and `WellFormed` says
which messages have the questions that their header promises. **`PacketPath`** joins `Capture`, `FiveTuple` and the two
decoders: an envelope with tuple and payload length passes from one to the
other, one packet at a time. What happens to it in between, in the pool and the
queues, is the subject of `Pipeline` (`PayloadIntact`).

**`FiveTuple`** is `create_bidirectional_tuple` and the definition of a
connection it is compared with.

**`DataLemmas`** and the modules named `...Proofs` hold lemmas, theorems and the
inductive invariants (section 4).

`MC*.tla` give the constants that a `.cfg` cannot write. Definitions marked
`faulty` are variants of the definition below them with a plausible bug; no
specification uses them. They show that the properties can fail.

## 3. Runs

| Run | What it asks | Result |
|---|---|---|
| `spsc` | `NoDataRace`, `StaleViewsAreSafe`, `ImplementsFifo` of the ring buffer | hold |
| `pipeline` | `OneOwner`, `PayloadIntact`, `FlowOrder`, `EveryPacketOnce`, `ExitSafeAfterTurn`, `NothingLost`, `Terminates` with CTRL+C, failing thread creation, full pool and queues | hold |
| `pipeline_slow` | `ExitSafe`: no worker at all leaves a packet behind | violated, finding 1 |
| `tracker` | `LruMatchesTable`, `LruChronological`, `LongIdleCollected`, `SilentFlowsForgotten` | hold |
| `flow_worker` | `NeverBypassMalicious`, `VerdictsLast`, `ExpiredOnlyIfHidden`, `CleanupWhenIdle` | hold |
| `flow_busy` | `CleanupGuaranteed` | violated, finding 2 |
| `flow_audit_one_way` | `FragmentsCaught`, `NoFalseAlarm` when one end sends | hold |
| `audit_fragments` | `FragmentsCaught` when both ends send | violated, finding 3 |
| `pattern_matcher` | `LinksToLongestEnding`, `RemembersLongestEnding`, `AlertsExact` from the rule file to the scan | hold |
| `defragmenter` | `Reassembles`, `DeliveredAsSent`, `HandedOverWhenWhole`, `SlotsComeBack` | hold |
| `packet_path` | `ReadsCaptured`, `PayloadIsData`, `TupleIdentifiesConnection`, `SniReadsInside`, `SniAdvances`, `DnsReadsInside`, `DnsEnds`, `QuestionsAsEncoded` | hold |
| `dns_malformed` | `MalformedYieldsNothing` | violated, finding 4 |

Each module's type invariant is checked along with them. No run of its own is
needed for `FiveTuple`, `SniExtractor` and `DnsParser`: `packet_path` takes them
through all their inputs.

### What the violations show

1. main.cpp:95-96 takes an empty queue and a cleared flag for the end, but reads
   them in that order: a worker that is preempted in between for longer than
   main's second of sleep leaves with a packet in its queue. The worker's pop
   (line 52) fails; main pushes, sleeps and clears the flag; the worker reads it
   and breaks. `ExitSafeAfterTurn` is what holds: a worker that tests the
   condition of its loop even once after main has left its own leaves nothing.
2. main.cpp:103-105 says that the counter guarantees cleanup. The fast path's
   `continue` (line 71) skips the counter, so with a steady stream of bypassed
   packets the collector never runs. What does hold is `CleanupWhenIdle`.
3. dpi_engine.cpp:46-47 guarantees to catch fragmented signatures. A flow has
   one `ac_state` for both directions, and a payload of the other end between
   two segments moves it off the match.
4. dns_parser.h:17-18 promises an empty result for a malformed message;
   `extract_queries` leaves its loop with `break` (lines 94 and 97) and returns
   the questions before the malformed one. Of well-formed messages all questions
   are returned (`QuestionsAsEncoded`).

### Seen while modelling

Present in the models, without a run of their own:

* connection_tracker.cpp:125 says that nothing has timed out if the oldest flow
  has not. The timeouts depend on the state: an ESTABLISHED flow at the back
  (300 s) hides CLOSED and half-open flows that expired (5 s, 10 s). What does
  hold is that nothing else hides a flow (`ExpiredOnlyIfHidden`) and that
  nothing outlives the longest timeout (`LongIdleCollected`).
* connection.h:15 says that a RST terminates a flow. A RST that carries ACK, in
  state SYN_RCVD, is taken for the last step of the handshake
  (connection_tracker.cpp:66) and makes the flow ESTABLISHED. A single FIN makes
  a flow CLOSED where the same line speaks of two, and FIN_WAIT is never
  assigned. A SYN on a tracked CLOSED flow does not start a new one.
* Packets without payload count towards `BYPASS_THRESHOLD`. A TLS flow becomes
  an HTTP flow if a later payload begins with `GET `, and `l7_protocol` has a
  value 3 (DNS) that connection.h:49 does not list.
* main.cpp:138 wraps initialization in a try block "for absolute safety". If the
  second or a later worker thread cannot be created (line 155), the exception
  destroys the vector of line 153, whose threads are joinable, and
  `std::terminate` ends the process before a handler is reached.
* packet_parser.h:9 says that `parse_ethernet` returns false for what is not
  IPv4; it returns true, and main tests the EtherType itself.
* main.cpp:182 calls `parse_ipv4` with six arguments where packet_parser.h
  declares nine, so the two do not compile together, and nothing uses
  `IpDefragmenter`, although packet_parser.h:16-17 gives the task to the caller.
  `Capture` models the header's `parse_ipv4`, called from where main calls it.
* The server name that `extract_sni` returns may run past its own extension into
  the next (never past the payload). The length field of the UDP header is not
  looked at.
* The scanner sees inspected payloads only. After `BYPASS_THRESHOLD` packets of a
  flow nothing is inspected, so the "even 1-byte packets" of dpi_engine.cpp:46
  ends there; `FragmentsCaught` speaks of inspected bytes.
* After a datagram was handed over, late duplicates of its fragments open a
  buffer again; until the collector runs it takes fragments of the next datagram
  with the same key. `DeliveredAsSent` is about datagrams to which only their
  own fragments contributed.

### Bounds, and why they are enough

* `spsc`: 2 slots, counters modulo 8, two items. The counters go round the ring
  four times before they wrap, so every position of the counters relative to
  each other, to the ring and to the wrap occurs. The proofs cover all sizes.
* `pipeline`: 2 workers, 3 flows of which two share a worker, 2 slots, queues of
  2, 3 packets. The pool is exhausted with a packet still to come; a queue fills
  with packets that have no payload; 3 packets suffice for a slot to be reused
  while an older packet is with a worker, and for one to be given up while others
  wait and are inspected. `pipeline_slow` needs one packet. `MaxPackets` bounds
  the capture.
* `tracker`: 3 flows, so that one lies between two others in the list; timeouts
  1, 2, 3 in place of 5, 10, 300: only their order matters.
* `flow_worker`: 2 flows, threshold 2, a signature of 2 bytes, collector after
  every full iteration; `flow_busy` has the collector after every second one.
  The threshold lets a signature span two inspected packets and the flow be
  bypassed after.
* `flow_audit_one_way`, `audit_fragments`: one flow, one or two ends, two
  signatures that overlap themselves and each other (1211 and 212), threshold 4:
  a signature may come in up to four segments, with a failed match before it or,
  from the other end, another payload in between.
* `pattern_matcher`: an alphabet of two bytes, where signatures overlap most;
  every rule file of up to `MaxRules` = 3 signatures out of all that have up to
  three bytes and four of four bytes, including the same one twice, with lines
  that are not rules; every text of `MaxScanned` = 6 bytes.
* `defragmenter`: datagrams of at most 7 bytes with offsets in units of 2, so
  that, as in the code, the largest datagram is not a whole number of units. One
  sender's datagram in every cut, a later one with the same key, a stranger's
  fragments that contradict them, three keys for a table of two, a timeout of 1
  second. The proofs cover all fragments and limits.
* `packet_path`: captured lengths on both sides of the end of every header, two
  longer than the buffer of 120; header lengths that are too small, as they
  should be and too large; a slot of 60 that cuts payloads off; payloads for the
  decoders on both sides of every bound they check. `MaxJumps` is 2, so that a
  cycle of pointers, a chain of exactly the limit and one beyond it fit into 25
  bytes. Bytes of names are 0, labels that fit and do not fit, one that is too
  long and pointers; longer chains and messages differ in nothing but length.
  Three addresses and three ports: below, equal, above.

### Fairness

`Pipeline`: weak fairness of main and of each worker, since the system schedules
every thread; strong fairness of `Take`, since a pushed item does not stay
invisible to its consumer for ever (stores become visible in finite time) even
though each single load may miss it. No fairness of `Interrupt`: nobody has to
press CTRL+C. `ConnectionTracker`: time passes and the collector is called again
and again; `FlowWorker` shows on what the latter depends. `FlowWorker`: the
worker's loop goes on and time passes; which packets come is up to the network.
`IpDefragmenter`: time passes, and the caller calls `evict_stale_fragments`
again and again, as ip_defragmenter.h:70 asks of it; no fragment has to arrive.
`PacketPath`: a decoder that was called runs on; whether the file has another
packet is open. `SpscQueue` has no liveness property: `push` and `pop` have no
loops.

## 4. Proofs

TLAPS checks all of the following for every value of the constants that
satisfies the modules' named assumptions.

**`SpscQueueProofs`**, from `QueueAssumption` (the capacity divides the number of
counter values): `TypeCorrect`, `RaceFreedom`, `StaleViewSafety` and
`Refinement`. `NoDataRace` is not inductive: it follows from `IndexInv`, which
bounds how far what each thread has seen may lag behind (the producer's view of
`tail_` never makes it believe in more room than `Capacity - Used`, the
consumer's view of `head_` never in more items than `Used`). Contents need
`BufferInv`: published slots hold items. The first half of the module is the
arithmetic of counters modulo `IndexSpace`.

**`PipelineProofs`**, from `PipelineAssumption`: `TypeCorrect`, `SlotOwnership`
(`OneOwner`), `PayloadSafety` (`PayloadIntact`) and `FlowsInOrder` (`FlowOrder`).
`OneOwner` alone is not inductive: `release_slot` is harmless only because
whoever calls it has the slot and nobody else does. `OwnershipInv` says for every
slot that it is in the free list once and with nobody, or not in it and with
exactly one of main, a queue position and a worker. `ControlInv` ties the program
counters to the packets. `OrderInv` strengthens `FlowOrder`: main's packet is the
newest, every queue is sorted by number, the packet a worker holds is older than
its queue, and each is where `WorkerOf` routes it. The
other three are about `PipelineAudit` and assume neither that main's sleep is
long enough nor that nobody presses CTRL+C: `PacketsAccountedFor`
(`EveryPacketOnce`), by `AccountInv`, which says of every number that was
read that one of main, the queues, the workers and the settled packets has it; `ExitIsSafe` (`ExitSafeAfterTurn`), by `TurnedInv`, which
follows a worker from the turn it began after main's last dispatch to the empty
queue it leaves; and `NothingIsLost` (`NothingLost`), from both. Finding 1 is what
can happen to a worker that did not begin such a turn.

**`ConnectionTrackerProofs`**, from `TimeoutAssumption` (the order of the
timeouts): `TrackerTypeCorrect`, `TableAndListAgree`, `ListInOrder`,
`CollectorNeverStuck`. The three state invariants are
inductive only together (`TrackerInv`). What a run of the collector leaves
(`EvictLeaves`) follows from the order of the list: a flow that has not expired
is at the back, and everything in front of it is younger.

**`DataLemmas`** has what the proofs about data share. The library's induction
theorems take an operator as a parameter, which the provers cannot instantiate,
so induction is stated over sets: `LeastNumber` (from the library's minimum of a
well-founded order), `NumberInduction` and `MeasureInduction`. From these follows
`RecursionFits`: if the value of a recursive definition at a place depends only
on values at places of a smaller measure, there is a function that fits the
definition everywhere; each recursive function of the models is unfolded by
giving its measure. The rest is about texts: when a text ends with a signature,
how a byte extends the longest ending that is a node of a trie
(`LongestEndingOfAppend`), and what the beginnings of signatures are.

**`FlowWorkerProofs`**, on top of these and of `FlowWorkerAssumption`:
`MalwareNeverBypassed`, `VerdictsKept`, `LateOnlyIfHidden`
(`ExpiredOnlyIfHidden`), `FlowTypes`,
`FragmentedSignaturesCaught`, `FlaggedForASignature`. The worker's calls keep
`TrackerInv` (`FlowTrackerInvariant`), and `FlowInv` adds that a tuple that is not
tracked has a fresh connection and that no connection has both verdicts. These
use nothing about the scanner. The two theorems about signatures are
about `FlowAudit`: the inductive invariant says that `ac_state` is the longest
ending of the text that was inspected and begins a signature, and that the flow
is flagged exactly if a signature occurs in that text; a signature that begins
in one segment and ends in a later one is found because the ending that is
remembered is at least as long as its beginning (`OccursInConcat`). Both assume
that `Side` has one element, that only one end of each connection sends. That is
the code's limit and not the proof's: finding 3 is what happens with two.

**`PatternMatcherProofs`**, from `MatcherAssumption` (an alphabet that is not
empty, lines over it): `LinksAreLongest`, `ScanRemembers`, `ReportsAreExact` and
`SearchIsScanByte`. The invariants of the runs are not inductive: while the
search is at some level, links and reports of the nodes behind the queue are not
computed yet. `Reached` is the set of the nodes that have been linked: those
with no node of the queue on the way to them. `MatcherInv` says that the trie is
the set of all beginnings of the signatures; that the queue holds reached nodes,
each once, in order of length and no two lengths more than one apart; that
reached nodes have the right links and the others none; and how often each
signature is reported at each node. `FollowFindsLongest` shows, by induction on
the length of a node, that the failure links of shorter nodes lead to the
longest ending (`FollowUnfolds` gives the measure: every link shortens).
`ReachedGrows` and `LinkStep` are the step of the breadth-first search.
`SearchIsScanByte` is the bridge to `FlowWorker`: for every node of a finished
machine `search` moves as `ScanByte` says, and a node has reports exactly if a
signature ends there.

**`IpDefragmenterProofs`**, from `DefragAssumption` and `AuditAssumption`:
`DefragTypeCorrect`, `Refinement` (`Reassembles`), `DatagramsFaithful`
(`DeliveredAsSent`) and `WholeIsHandedOver` (`HandedOverWhenWhole`). `DefragInv` says that buffer, bitmap and
length agree: the buffer has the places 0 .. size - 1 with the marked ones
among them, what is not marked is zero, and the end lies inside. `Refinement`
maps a buffer to the bytes that are marked (`View`) and shows that storing a
fragment, completing a datagram and forgetting some are steps of `Reassembly`.
For the last two, `AuditInv` adds that a buffer only one sender contributed to
holds that sender's bytes, none behind the sender's end, and knows that end once
its last byte is in (`From`); and that the history agrees with the table, in
which no datagram is whole (`Recalled`). The history decides by itself which
fragments to count; `OpenedIsTable` shows that it counts those that are not
refused. The module lays functions over each other with `Overlay`'s `Over`: the
operators `:>` and `@@` of the module TLC have no definition the prover can expand.

**`PacketPathProofs`**, from the assumptions of `FiveTuple`, `Capture`,
`SniExtractor`, `DnsParser` and `PacketPath` (lengths are natural numbers, bytes
are 0 .. 255): `TupleFaithful`, `ConnectionIdentified`, `CapturedBytesOnly`,
`PayloadsFaithful`, `SniInBounds`, `DnsInBounds`, `DomainsAsEncoded`,
`MalformedKeepsPrefix`, `ExtensionsEnd` and `NoPointerLoop`. `ReadsCaptured` is not inductive;
`CaptureInv` adds that main's `packet_len` is never more than what was captured
and, once the IP header was read, that `offset` and `packet_len` agree with what
the headers claim. `SniInv` adds that the block of extensions ends inside the
payload, `DnsInv` that offsets are natural numbers and kept bytes are bytes.
`QuestionsAsEncoded` speaks of a message that was read, and only in part. Its
strengthening, `QuestionsInv`, speaks of every message that agrees with the
bytes read so far (`Completes`): the questions the reference definition finds in
it are those found already, then the name that is being decoded with what
`NameFrom` finds from the cursor on, then those behind it (`Explained`). Each
step is one unfolding of the reference definition, which needs its measure: a
jump lowers the number of jumps left, a label the bytes that follow
(`Decreases`). `MalformedKeepsPrefix` is what this says of every message in the
end, `DomainsAsEncoded` what is left of it for well-formed ones. `NoPointerLoop` is the part of `DnsEnds` that does not depend on
fairness: every step leaves fewer questions, jumps or bytes to go.
`PathInv` joins the parts: an envelope is under way only while both decoders are
idle. What the theorems say is for every length, content and limit, and so for
the 65535 bytes, 16 jumps and 64 questions of the code.

Only model-checked: `Terminates`, `SilentFlowsForgotten`, `CleanupWhenIdle`,
`SlotsComeBack` and `DnsEnds`. Liveness under fairness needs ENABLED, which is
out of the prover's reach. Every invariant and action property of the passing
runs is also a theorem; what the four violated runs say is false.

## 5. Not modelled, and what is left

Not modelled because there is nothing to check: log output (`parse_http`,
`sanitize_for_log` and `print_hex_dump` do nothing else), thread pinning, byte
order functions of the system, the hash function (a constant, `WorkerOf`), build
files. Of the rule file only what `load_rules` makes of a line is modelled, of
the capture file's header only whether it is accepted. `total_bytes`,
`total_packets` and `first_seen` of a connection are written and never read.
The iterator `lru_it` that a flow saves is not
modelled: a flow's place in the list is found by its tuple, so the runs show that
table and list agree, and not that the iterator stays valid. `close` releases the
file. Nothing of the program survives a crash, so there is
no recovery to model.

Modules, in the order they were planned; all are done:

1. `SpscQueue`, `Pipeline`: the threads and what they share.
2. `ConnectionTracker`, `FlowWorker`, `FlowAudit`, `FiveTuple`: what a worker
   does with a flow.
3. `Signatures`, `PatternMatcher`: the automaton against the definition of a match.
4. `Reassembly`, `IpDefragmenter`, `DefragAudit`: the defragmenter against an
   abstract datagram.
5. `Capture`, `SniExtractor`, `DnsParser`, `PacketPath`: bytes that anyone can
   have written.
6. `PipelineAudit`: what becomes of every packet.
7. Proofs: `FlowOrder`; the account of the packets and the end; the parsers;
   the defragmenter; the automaton; the scan of a flow; the questions of a DNS
   message.

Left: `Pipeline` takes the queue from its abstract specification and `PacketPath`
the payload from `Pipeline`; that each stands for the other is argued in section
2 and not stated as one refinement. `IpDefragmenter` inside main's loop, once the
source calls it.
