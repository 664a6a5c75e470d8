--------------------------- MODULE PatternMatcher ---------------------------
(***************************************************************************)
(* PatternMatcher (src/pattern_matcher.cpp) from the rule file to the scan *)
(* of a flow: RuleManager::load_rules adds the signatures one by one, the  *)
(* constructor of DpiEngine then lets build_machine compute the failure    *)
(* links breadth first, and search follows them through the bytes of one   *)
(* flow after another.                                                     *)
(***************************************************************************)
EXTENDS Signatures, FiniteSets, Functions

CONSTANTS
  NumBytes,   (* 256 in the code                                           *)
  Line,       (* the lines a rule file can have                            *)
  MaxRules,   (* bound: signatures in the file                             *)
  MaxScanned  (* bound: bytes of a flow                                    *)

Byte == 0 .. NumBytes - 1

ASSUME MatcherAssumption ==
  /\ NumBytes \in Nat \ {0}
  /\ \A line \in Line : line.comment \in BOOLEAN /\ line.quoted \in BOOLEAN
                        /\ line.content \in Seq(Byte)

VARIABLES
  phase,    (* "load", "build" or "scan"                                   *)
  trie,     (* the nodes                                                   *)
  fail,     (* fail_link of each node                                      *)
  matched,  (* matched_patterns of each node                               *)
  queue,    (* q of build_machine                                          *)
  node,     (* current_state of the flow being scanned                     *)
  loaded,   (* history: the signatures of the file                         *)
  text      (* history: the bytes of the flow                              *)

machine == <<trie, fail, matched>>
vars == <<phase, trie, fail, matched, queue, node, loaded, text>>

Init ==
  /\ phase = "load"
  /\ trie = {Root}
  /\ fail = [n \in {Root} |-> Root]
  /\ matched = [n \in {Root} |-> <<>>]
  /\ queue = <<>>
  /\ node = Root
  /\ loaded = <<>>
  /\ text = <<>>
-----------------------------------------------------------------------------
(* Comment lines are skipped whatever they contain; other lines count only *)
(* if they have a content:"..." that is closed and not empty.              *)
IsRule(line) == ~line.comment /\ line.quoted /\ line.content # <<>>

AddPattern(s) ==
  /\ trie' = trie \cup Beginnings({s})
  /\ fail' = [n \in trie' |-> Root]
  /\ matched' = [n \in trie' |->
                   (IF n \in trie THEN matched[n] ELSE <<>>)
                     \o (IF n = s THEN <<s>> ELSE <<>>)]

ReadLine(line) ==
  /\ phase = "load"
  /\ Len(loaded) < MaxRules
  /\ IF IsRule(line)
     THEN AddPattern(line.content) /\ loaded' = Append(loaded, line.content)
     ELSE UNCHANGED <<machine, loaded>>
  /\ UNCHANGED <<phase, queue, node, text>>
-----------------------------------------------------------------------------
(* The children of a node, in the order of their bytes.                    *)
ChildrenOf(n) ==
  LET upTo[i \in 0 .. NumBytes] ==
        IF i = 0 THEN <<>>
        ELSE upTo[i - 1] \o (IF Append(n, i - 1) \in trie THEN <<Append(n, i - 1)>> ELSE <<>>)
  IN upTo[NumBytes]

(* children[byte] of a node once the root's missing ones lead back to it.  *)
HasChild(n, byte) == n = Root \/ Append(n, byte) \in trie
Child(n, byte) == IF Append(n, byte) \in trie THEN Append(n, byte) ELSE Root

(* faulty: gives up instead of following the failure links *)
FollowNone(from, byte) ==
  IF HasChild(from, byte) THEN Child(from, byte) ELSE Root

(* Along the failure links to a node that has a child for the byte, and on *)
(* to that child: the loops at pattern_matcher.cpp:54-59 and 79-85.        *)
Follow(from, byte) ==
  LET follow[n \in trie] ==
        IF HasChild(n, byte) THEN Child(n, byte) ELSE follow[fail[n]]
  IN follow[from]

(* The file has no more lines, or could not be opened.                     *)
StartBuild ==
  /\ phase = "load"
  /\ phase' = "build"
  /\ queue' = ChildrenOf(Root)
  /\ UNCHANGED <<machine, node, loaded, text>>

(* faulty: a node reports only the signature that leads to it *)
LinkWithoutMerging ==
  /\ phase = "build" /\ queue # <<>>
  /\ LET current == Head(queue)
         children == Range(ChildrenOf(current))
     IN /\ queue' = Tail(queue) \o ChildrenOf(current)
        /\ fail' = [n \in trie |-> IF n \in children THEN Follow(fail[current], n[Len(n)])
                                                     ELSE fail[n]]
        /\ UNCHANGED <<phase, trie, matched, node, loaded, text>>

(* The children of the next node get their failure links, and with them    *)
(* the signatures that end where theirs do.                                *)
Link ==
  /\ phase = "build" /\ queue # <<>>
  /\ LET current == Head(queue)
         children == Range(ChildrenOf(current))
     IN /\ queue' = Tail(queue) \o ChildrenOf(current)
        /\ fail' = [n \in trie |-> IF n \in children THEN Follow(fail[current], n[Len(n)])
                                                     ELSE fail[n]]
        /\ matched' = [n \in trie |-> IF n \in children THEN matched[n] \o matched[fail'[n]]
                                                        ELSE matched[n]]
  /\ UNCHANGED <<phase, trie, node, loaded, text>>

Built ==
  /\ phase = "build" /\ queue = <<>>
  /\ phase' = "scan"
  /\ UNCHANGED <<machine, queue, node, loaded, text>>
-----------------------------------------------------------------------------
(* faulty: starts again at the root when a match fails *)
ScanByteAfresh(byte) ==
  /\ phase = "scan"
  /\ Len(text) < MaxScanned
  /\ node' = IF HasChild(node, byte) THEN Child(node, byte) ELSE Child(Root, byte)
  /\ text' = Append(text, byte)
  /\ UNCHANGED <<phase, machine, queue, loaded>>

(* One byte of a payload; the next payload of the flow goes on at node.    *)
ScanByte(byte) ==
  /\ phase = "scan"
  /\ Len(text) < MaxScanned
  /\ node' = Follow(node, byte)
  /\ text' = Append(text, byte)
  /\ UNCHANGED <<phase, machine, queue, loaded>>

(* Another flow: its ac_state is 0.                                        *)
NextFlow ==
  /\ phase = "scan"
  /\ node' = Root
  /\ text' = <<>>
  /\ UNCHANGED <<phase, machine, queue, loaded>>

Next ==
  \/ \E line \in Line : ReadLine(line)
  \/ StartBuild
  \/ Link
  \/ Built
  \/ \E byte \in Byte : ScanByte(byte)
  \/ NextFlow

Spec == Init /\ [][Next]_vars
-----------------------------------------------------------------------------
(* The nodes that build_machine has linked so far.                         *)
Linked ==
  IF phase = "scan" THEN trie \ {Root} ELSE Range(queue)

(* pattern_matcher.h:15 ("Where to jump if a match fails"): nothing of a   *)
(* failed match is given up that another signature could begin with.       *)
LinksToLongestEnding ==
  \A n \in Linked : fail[n] = LongestEnding(Tail(n), trie)

(* search keeps as much of the flow's last bytes as begins a signature, in *)
(* however many payloads they came.                                        *)
RemembersLongestEnding ==
  phase = "scan" => node = LongestEnding(text, trie)

Count(s, list) == Cardinality({i \in DOMAIN list : list[i] = s})

(* pattern_matcher.cpp:63 ("matching "eval" also matches "val""): after    *)
(* every byte search reports the signatures that end there, all of them    *)
(* and no others, each as often as the rule file has it.                   *)
AlertsExact ==
  phase = "scan" =>
    \A s \in Range(loaded) \cup Range(matched[node]) :
      Count(s, matched[node]) = IF EndsWith(text, s) THEN Count(s, loaded) ELSE 0
=============================================================================
