------------------------------- MODULE PktIds -------------------------------
(***************************************************************************)
(* The packet identifier allocator of src/src/pktids.rs: a linked list of  *)
(* ranges of free identifiers, kept in a Vec whose vacated slots are used  *)
(* again.                                                                  *)
(*                                                                         *)
(* Slot 0 of the Vec is a sentinel that stays Node::Vacant and ends the    *)
(* list, so slot i >= 1 of the Vec is ranges[i] here and 0 is never in     *)
(* DOMAIN ranges.  A range may be empty (lo > hi): the code keeps the last *)
(* node in the list when its identifiers are used up, and lets its lower   *)
(* bound grow at every refused call.                                       *)
(*                                                                         *)
(* Bounds are u16.  Their arithmetic panics on overflow in a build with    *)
(* overflow checks (debug) and wraps in one without (release); the         *)
(* constant OverflowChecks chooses the build.                              *)
(***************************************************************************)
EXTENDS Naturals, Sequences

CONSTANTS
  MaxId,            \* the argument of new_with_max
  U16Max,           \* u16::MAX, smaller in the instances that TLC checks
  OverflowChecks    \* TRUE: overflow panics; FALSE: overflow wraps

ASSUME PktIdsAssumption ==
  /\ U16Max \in Nat \ {0}
  /\ MaxId \in 1 .. U16Max
  /\ OverflowChecks \in BOOLEAN

VARIABLES
  start,            \* slot of the first node of the list
  ranges,           \* the Vec of nodes, without its slot 0
  out,              \* what the last next_id returned, 0 for None
  held,             \* history: identifiers handed out and not yet returned
  overflowed        \* some u16 operation has overflowed

vars == <<start, ranges, out, held, overflowed>>

Ids == 1 .. MaxId
U16 == 0 .. U16Max

Node == [taken : BOOLEAN, lo : U16, hi : U16, next : Nat]

Vacant == [taken |-> FALSE, lo |-> 0, hi |-> 0, next |-> 0]

Taken(lo, hi, next) == [taken |-> TRUE, lo |-> lo, hi |-> hi, next |-> next]

\* `lo + 1` and `hi + 1` on a u16, and `lo - 1`.
Inc(n) == IF n = U16Max THEN 0 ELSE n + 1
Dec(n) == IF n = 0 THEN U16Max ELSE n - 1

IsTaken(i) == i \in DOMAIN ranges /\ ranges[i].taken

Slots == {i \in DOMAIN ranges : ranges[i].taken}

Init ==
  /\ ranges = <<Taken(1, MaxId, 0)>>
  /\ start = 1
  /\ out = 0
  /\ held = {}
  /\ overflowed = FALSE

\* The thread has panicked: the allocator is gone with its event loop.
Panicked == OverflowChecks /\ overflowed

-----------------------------------------------------------------------------
(* next_id *)

First == ranges[start]

\* The first range has more than one identifier left: take its lower bound.
TakeLowerBound ==
  /\ First.lo < First.hi
  /\ ranges' = [ranges EXCEPT ![start].lo = First.lo + 1]
  /\ out' = First.lo
  /\ UNCHANGED <<start, overflowed>>

\* The range is used up and has a successor: vacate its slot and move on.
TakeLastOfRange ==
  /\ First.lo >= First.hi
  /\ IsTaken(First.next)
  /\ ranges' = [ranges EXCEPT ![start] = Vacant]
  /\ start' = First.next
  /\ out' = First.lo
  /\ UNCHANGED overflowed

\* Only one range is left and it is used up, so that its lower bound, which
\* stands at u16::MAX, overflows.
NextIdOverflows ==
  /\ First.lo >= First.hi
  /\ ~IsTaken(First.next)
  /\ First.lo = U16Max

\* A bug: the test for an empty range is left out of the last node.
TakeLastOfListBlindly ==
  /\ First.lo >= First.hi
  /\ ~IsTaken(First.next)
  /\ ~(OverflowChecks /\ NextIdOverflows)
  /\ ranges' = [ranges EXCEPT ![start].lo = Inc(First.lo)]
  /\ out' = First.lo
  /\ overflowed' = (overflowed \/ NextIdOverflows)
  /\ UNCHANGED start

\* The only range left: keep it, empty.  It hands out its last identifier if
\* it still has one, and None at every later call.
TakeLastOfList ==
  /\ First.lo >= First.hi
  /\ ~IsTaken(First.next)
  /\ ~(OverflowChecks /\ NextIdOverflows)
  /\ ranges' = [ranges EXCEPT ![start].lo = Inc(First.lo)]
  /\ out' = IF First.lo = First.hi THEN First.lo ELSE 0
  /\ overflowed' = (overflowed \/ NextIdOverflows)
  /\ UNCHANGED start

NextId ==
  /\ ~Panicked
  /\ TakeLowerBound \/ TakeLastOfRange \/ TakeLastOfList
  /\ held' = held \cup ({out'} \ {0})

\* next_id panics in a build with overflow checks, and returns nothing.
NextIdPanics ==
  /\ ~Panicked
  /\ OverflowChecks
  /\ NextIdOverflows
  /\ overflowed' = TRUE
  /\ UNCHANGED <<start, ranges, out, held>>
-----------------------------------------------------------------------------
(* return_id *)

\* The nodes that do not begin above id.
Below(id) == {i \in Slots : ranges[i].lo <= id}

\* A set of slots that the walk along the list cannot leave.
Closed(S, id) ==
  /\ start \in Below(id) => start \in S
  /\ \A i \in S : ranges[i].next \in Below(id) => ranges[i].next \in S

\* The nodes the while loop steps over: the list up to the first node that
\* begins above id.
Passed(id) ==
  {i \in Below(id) : \A S \in SUBSET Below(id) : Closed(S, id) => i \in S}

\* prev_idx when the loop ends, 0 for None, and next_idx.
PrevIdx(id) ==
  IF Passed(id) = {} THEN 0
  ELSE CHOOSE i \in Passed(id) : ranges[i].next \notin Below(id)

NextIdx(id) == IF PrevIdx(id) = 0 THEN start ELSE ranges[PrevIdx(id)].next

\* maybe_extend_prev_node and maybe_extend_next_node would return true.
ExtendsPrev(id) == PrevIdx(id) # 0 /\ Inc(ranges[PrevIdx(id)].hi) = id
ExtendsNext(id) == IsTaken(NextIdx(id)) /\ Dec(ranges[NextIdx(id)].lo) = id

\* A bug: a range is extended past an identifier that is in use.
GrowPrevTooFar(id) ==
  /\ ExtendsPrev(id)
  /\ ranges' = [ranges EXCEPT ![PrevIdx(id)].hi = IF id = MaxId THEN id ELSE id + 1]
  /\ UNCHANGED start

GrowPrev(id) ==
  /\ ExtendsPrev(id)
  /\ ranges' = [ranges EXCEPT ![PrevIdx(id)].hi = id]
  /\ UNCHANGED start

\* A bug: the range keeps only the identifier it was extended by.
GrowNextForgetsRange(id) ==
  /\ ~ExtendsPrev(id)
  /\ ExtendsNext(id)
  /\ ranges' = [ranges EXCEPT ![NextIdx(id)].lo = id, ![NextIdx(id)].hi = id]
  /\ UNCHANGED start

GrowNext(id) ==
  /\ ~ExtendsPrev(id)
  /\ ExtendsNext(id)
  /\ ranges' = [ranges EXCEPT ![NextIdx(id)].lo = id]
  /\ UNCHANGED start

\* A bug: vacated slots are never used again.
FreeSlotAlwaysPushes == Len(ranges) + 1

\* The first vacant slot, or the one that a push adds.
FreeSlot ==
  CHOOSE v \in 1 .. Len(ranges) + 1 :
    /\ v \notin Slots
    /\ \A u \in 1 .. Len(ranges) : u \notin Slots => v <= u

\* The Vec after `ranges[v] = node`, v being FreeSlot.
Put(v, node) ==
  IF v > Len(ranges) THEN Append(ranges, node)
                     ELSE [ranges EXCEPT ![v] = node]

\* A bug: a node inserted before the head does not become the head.
InsertNodeKeepsHead(id) ==
  LET v == FreeSlot
      p == PrevIdx(id)
      with == Put(v, Taken(id, id, NextIdx(id)))
  IN  /\ ~ExtendsPrev(id)
      /\ ~ExtendsNext(id)
      /\ ranges' = IF p = 0 THEN with ELSE [with EXCEPT ![p].next = v]
      /\ UNCHANGED start

InsertNode(id) ==
  LET v == FreeSlot
      p == PrevIdx(id)
      with == Put(v, Taken(id, id, NextIdx(id)))
  IN  /\ ~ExtendsPrev(id)
      /\ ~ExtendsNext(id)
      /\ ranges' = IF p = 0 THEN with ELSE [with EXCEPT ![p].next = v]
      /\ start' = IF p = 0 THEN v ELSE start

\* `range.end() + 1` or `range.start() - 1` overflows.
ReturnIdOverflows(id) ==
  \/ PrevIdx(id) # 0 /\ ranges[PrevIdx(id)].hi = U16Max
  \/ ~ExtendsPrev(id) /\ IsTaken(NextIdx(id)) /\ ranges[NextIdx(id)].lo = 0

\* The event loop returns the identifier of a request that was acknowledged:
\* one it was given and has not returned.  (Where an overflow would panic the
\* successor state is Panicked, and what it holds besides is never read.)
ReturnId(id) ==
  /\ ~Panicked
  /\ id \in held
  /\ GrowPrev(id) \/ GrowNext(id) \/ InsertNode(id)
  /\ held' = held \ {id}
  /\ overflowed' = (overflowed \/ ReturnIdOverflows(id))
  /\ UNCHANGED out

Next == NextId \/ NextIdPanics \/ \E id \in Ids : ReturnId(id)

Spec == Init /\ [][Next]_vars
-----------------------------------------------------------------------------
\* Every variable has its type, and the first node of the list is in use.
TypeOK ==
  /\ ranges \in Seq(Node)
  /\ start \in Slots
  /\ out \in U16
  /\ held \in SUBSET Ids

\* The identifiers that the list holds.
FreeIds == {id \in Ids : \E i \in Slots : ranges[i].lo <= id /\ id <= ranges[i].hi}

\* Every node is a range within 1..=max, the last one ends at max, and only the
\* last one may be empty.
RangesOK ==
  \A i \in Slots :
    /\ ranges[i].lo >= 1
    /\ ranges[i].hi <= MaxId
    /\ ranges[i].next = 0 => ranges[i].hi = MaxId
    /\ ranges[i].lo > ranges[i].hi => ranges[i].next = 0

\* The list starts at the least range and links every range to the next one
\* above it, so that the walk of return_id meets every node, in order.
LinksOK ==
  /\ \A j \in Slots : ranges[start].lo <= ranges[j].lo
  /\ \A i \in Slots :
       IF ranges[i].next \in Slots
       THEN /\ ranges[i].lo < ranges[ranges[i].next].lo
            /\ \A j \in Slots : \/ ranges[j].lo <= ranges[i].lo
                                \/ ranges[ranges[i].next].lo <= ranges[j].lo
       ELSE /\ ranges[i].next = 0
            /\ \A j \in Slots : ranges[j].lo <= ranges[i].lo

\* No two nodes share an identifier.
DisjointOK ==
  \A i, j \in Slots :
    i # j => \/ ranges[i].lo < ranges[j].lo /\ ranges[i].hi < ranges[j].lo
             \/ ranges[j].lo < ranges[i].lo /\ ranges[j].hi < ranges[i].lo

\* Every identifier is either in the list or in use, and never both.
PartitionOK == held = Ids \ FreeIds

\* Until some arithmetic overflows, return_id loses no identifier and next_id
\* duplicates none, whatever the order in which the acknowledgements return
\* them and however they split and join the ranges.
Partition == ~overflowed => PartitionOK

\* The shape of the list that the code relies on and never checks.  It is what
\* makes Partition inductive: an unsorted list, an empty range in its middle
\* or a node off the list would lead return_id to the wrong neighbours.
IInv ==
  /\ overflowed \in BOOLEAN
  /\ ~overflowed => TypeOK /\ RangesOK /\ LinksOK /\ DisjointOK /\ PartitionOK

\* Vacated slots are used again: the Vec never has more nodes than there are
\* identifiers, however long the client runs.
VecBounded == ~overflowed => Len(ranges) <= MaxId

\* next_id never hands out an identifier that is still in use.
NoDoubleIssue == [][NextId /\ ~overflowed' => out' \notin held]_vars

Pool == INSTANCE IdPool WITH free <- FreeIds

\* With overflow checks the list of ranges behaves as a set of identifiers:
\* next_id takes the least one that is free and says None exactly when there
\* is none, return_id puts one back.
ImplementsPool == Pool!PoolSpec

\* The test fetch_ids_exhausted (pktids.rs:218-227) says that next_id returns
\* None, every time, when all identifiers are in use.
ExhaustedMeansNone == [][NextId /\ held = Ids => out' = 0]_vars
=============================================================================
