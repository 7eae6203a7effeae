---------------------------- MODULE PktIdsProofs ----------------------------
(***************************************************************************)
(* For every number of identifiers: the list of ranges keeps its shape,    *)
(* holds exactly the identifiers that are not in use, and behaves as the   *)
(* pool of IdPool.  And what remains of that when a broker acknowledges    *)
(* what it was not asked: ranges may then overlap and need not be sorted.  *)
(***************************************************************************)
EXTENDS PktIdsStray, DataLemmas, FiniteSetTheorems, TLAPS

-----------------------------------------------------------------------------
(* The walk of return_id.                                                  *)

\* What IInv says of a state without an overflow.
Shape == TypeOK /\ RangesOK /\ LinksOK /\ DisjointOK /\ PartitionOK

\* The nodes in use have their types; slot 0, the sentinel, is not among them.
LEMMA SlotFacts ==
  ASSUME TypeOK
  PROVE  /\ Slots \subseteq DOMAIN ranges
         /\ DOMAIN ranges = 1 .. Len(ranges) /\ Len(ranges) \in Nat
         /\ 0 \notin Slots
         /\ \A i \in Slots : /\ i \in Nat
                             /\ ranges[i] \in Node
                             /\ ranges[i].lo \in Nat /\ ranges[i].lo <= U16Max
                             /\ ranges[i].hi \in Nat /\ ranges[i].hi <= U16Max
                             /\ ranges[i].next \in Nat
                             /\ ranges[i].taken
<1>1. ranges \in Seq(Node) BY DEF TypeOK
<1>2. DOMAIN ranges = 1 .. Len(ranges) /\ Len(ranges) \in Nat BY <1>1
<1>3. \A i \in DOMAIN ranges : ranges[i] \in Node BY <1>1
<1>4. QED BY <1>2, <1>3, PktIdsAssumption DEF Slots, Node, U16

\* The nodes that the walk passes are closed under the links that lead to nodes
\* beginning at id or below.
LEMMA PassedFacts ==
  ASSUME NEW id
  PROVE  /\ Passed(id) \subseteq Below(id)
         /\ start \in Below(id) => start \in Passed(id)
         /\ start \notin Below(id) => Passed(id) = {}
         /\ \A i \in Passed(id) :
              ranges[i].next \in Below(id) => ranges[i].next \in Passed(id)
<1>1. Passed(id) \subseteq Below(id) BY DEF Passed
<1>2. start \in Below(id) => start \in Passed(id) BY DEF Passed, Closed
<1>3. start \notin Below(id) => Passed(id) = {}
  <2>1. start \notin Below(id) => Closed({}, id) BY DEF Closed
  <2>2. QED BY <2>1 DEF Passed
<1>4. ASSUME NEW i \in Passed(id), ranges[i].next \in Below(id)
      PROVE  ranges[i].next \in Passed(id)
  <2>1. ASSUME NEW S \in SUBSET Below(id), Closed(S, id)
        PROVE  ranges[i].next \in S
    <3>1. i \in S BY <2>1 DEF Passed
    <3>2. QED BY <3>1, <2>1, <1>4 DEF Closed
  <2>2. QED BY <2>1, <1>4 DEF Passed
<1>5. QED BY <1>1, <1>2, <1>3, <1>4

\* Where the walk for an identifier in use ends: between a range that lies
\* wholly below it, if there is one, and a range that begins above it.  So
\* there is always a next node, and it is never the sentinel.
LEMMA WalkEnds ==
  ASSUME Shape, NEW id \in held
  PROVE  /\ id \in Ids
         /\ NextIdx(id) \in Slots
         /\ id < ranges[NextIdx(id)].lo
         /\ PrevIdx(id) = 0 => NextIdx(id) = start
         /\ PrevIdx(id) # 0 => /\ PrevIdx(id) \in Slots
                               /\ ranges[PrevIdx(id)].lo <= ranges[PrevIdx(id)].hi
                               /\ ranges[PrevIdx(id)].hi < id
                               /\ ranges[PrevIdx(id)].next = NextIdx(id)
<1> USE DEF Shape
<1>1. id \in Ids /\ id \in Nat /\ id >= 1 /\ id <= MaxId /\ MaxId \in Nat
  BY PktIdsAssumption DEF TypeOK, Ids
<1>2. id \notin FreeIds BY DEF PartitionOK
<1>3. \A i \in Below(id) : i \in Slots /\ ranges[i].lo <= id BY DEF Below
<1>4. \A i \in Below(id) : ranges[i].hi < id
  BY <1>1, <1>2, <1>3, SlotFacts DEF FreeIds
<1>5. CASE start \notin Below(id)
  <2>1. PrevIdx(id) = 0 /\ NextIdx(id) = start
    BY <1>5, PassedFacts DEF PrevIdx, NextIdx
  <2>2. start \in Slots BY DEF TypeOK
  <2>3. id < ranges[start].lo BY <1>1, <1>5, <2>2, SlotFacts DEF Below
  <2>4. QED BY <1>1, <2>1, <2>2, <2>3
<1>6. CASE start \in Below(id)
  <2> DEFINE L == {ranges[i].lo : i \in Passed(id)}
  <2>1. Passed(id) \subseteq Below(id) /\ start \in Passed(id)
    BY <1>6, PassedFacts
  <2>2. L \in SUBSET Nat /\ L # {} /\ \A k \in L : k <= id
    BY <2>1, <1>3, SlotFacts
  <2>3. \E m \in L : \A k \in L : k <= m
    <3> HIDE DEF L
    <3> QED BY <2>2, <1>1, GreatestNat
  <2>4. PICK g \in Passed(id) : \A i \in Passed(id) : ranges[i].lo <= ranges[g].lo
    BY <2>3
  <2>5. ranges[g].next \notin Below(id)
    <3>1. SUFFICES ASSUME ranges[g].next \in Below(id) PROVE FALSE
      OBVIOUS
    <3>2. ranges[g].next \in Passed(id) BY <3>1, PassedFacts
    <3>3. g \in Slots /\ ranges[g].next \in Slots BY <2>1, <3>1, <1>3
    <3>4. ranges[g].lo < ranges[ranges[g].next].lo BY <3>3 DEF LinksOK
    <3>5. QED BY <3>2, <3>3, <3>4, <2>4, SlotFacts
  <2> DEFINE p == PrevIdx(id)
  <2>6. p \in Passed(id) /\ ranges[p].next \notin Below(id)
    BY <2>1, <2>5 DEF PrevIdx
  <2>7. p \in Slots /\ p # 0 /\ p \in Below(id) BY <2>1, <2>6, <1>3, SlotFacts
  <2>8. NextIdx(id) = ranges[p].next BY <2>7 DEF NextIdx
  <2>9. ranges[p].hi < id /\ ranges[p].hi # MaxId
    BY <2>7, <1>1, <1>4, SlotFacts
  <2>10. ranges[p].next # 0 BY <2>7, <2>9 DEF RangesOK
  <2>11. ranges[p].next \in Slots BY <2>7, <2>10 DEF LinksOK
  <2>12. id < ranges[ranges[p].next].lo
    BY <2>6, <2>11, <1>1, SlotFacts DEF Below
  <2>13. ranges[p].lo <= ranges[p].hi BY <2>7, <2>10, SlotFacts DEF RangesOK
  <2>14. QED
    <3> HIDE DEF p
    <3> QED BY <1>1, <2>7, <2>8, <2>9, <2>11, <2>12, <2>13 DEF p
<1>7. QED BY <1>5, <1>6

-----------------------------------------------------------------------------
(* The invariant: initially, and after every step.                         *)

\* The first node begins, and ends, below every other one.
LEMMA StartIsFirst ==
  ASSUME Shape
  PROVE  /\ start \in Slots
         /\ \A j \in Slots \ {start} : /\ ranges[start].lo < ranges[j].lo
                                       /\ ranges[start].hi < ranges[j].lo
<1>1. start \in Slots BY DEF Shape, TypeOK
<1>2. ASSUME NEW j \in Slots, j # start
      PROVE  ranges[start].lo < ranges[j].lo /\ ranges[start].hi < ranges[j].lo
  <2>1. ranges[start].lo <= ranges[j].lo BY DEF Shape, LinksOK
  <2>2. \/ ranges[start].lo < ranges[j].lo /\ ranges[start].hi < ranges[j].lo
        \/ ranges[j].lo < ranges[start].lo
    BY <1>1, <1>2 DEF Shape, DisjointOK
  <2>3. QED BY <1>1, <2>1, <2>2, SlotFacts DEF Shape
<1>3. QED BY <1>1, <1>2

\* The initial state has the invariant.
LEMMA InitIInv == Init => IInv
<1> SUFFICES ASSUME Init PROVE IInv OBVIOUS
<1> USE PktIdsAssumption
<1>1. /\ ranges = <<Taken(1, MaxId, 0)>> /\ start = 1 /\ out = 0 /\ held = {}
      /\ overflowed = FALSE
  BY DEF Init
<1>2. Taken(1, MaxId, 0) \in Node BY DEF Taken, Node, U16
<1>3. ranges \in Seq(Node) /\ DOMAIN ranges = {1} BY <1>1, <1>2
<1>4. /\ ranges[1].taken /\ ranges[1].lo = 1 /\ ranges[1].hi = MaxId
      /\ ranges[1].next = 0
  BY <1>1 DEF Taken
<1>5. Slots = {1} BY <1>3, <1>4 DEF Slots
<1>6. TypeOK BY <1>1, <1>3, <1>5 DEF TypeOK, U16
<1>7. RangesOK BY <1>4, <1>5 DEF RangesOK
<1>8. LinksOK BY <1>1, <1>4, <1>5 DEF LinksOK
<1>9. DisjointOK BY <1>5 DEF DisjointOK
<1>10. PartitionOK BY <1>1, <1>4, <1>5 DEF PartitionOK, FreeIds, Ids
<1>11. QED BY <1>1, <1>6, <1>7, <1>8, <1>9, <1>10 DEF IInv

\* next_id takes the lower bound of the first range.
LEMMA TakeLowerBoundStep ==
  ASSUME Shape, TakeLowerBound, held' = held \cup ({out'} \ {0})
  PROVE  Shape' /\ FreeIds' = FreeIds \ {out'} /\ out' \in FreeIds
<1> USE PktIdsAssumption
<1> DEFINE lo == ranges[start].lo
<1>1. /\ lo < ranges[start].hi /\ out' = lo /\ start' = start
      /\ ranges' = [ranges EXCEPT ![start].lo = lo + 1]
  BY DEF TakeLowerBound, First
<1>2. start \in Slots
      /\ \A j \in Slots \ {start} : lo < ranges[j].lo
  BY StartIsFirst
<1>3. TypeOK BY DEF Shape
<1>4. /\ DOMAIN ranges' = DOMAIN ranges
      /\ \A i \in DOMAIN ranges :
           /\ ranges'[i].lo = IF i = start THEN lo + 1 ELSE ranges[i].lo
           /\ ranges'[i].hi = ranges[i].hi
           /\ ranges'[i].next = ranges[i].next
           /\ ranges'[i].taken = ranges[i].taken
  BY <1>1, <1>2, <1>3, SlotFacts DEF Node, TypeOK
<1>5. Slots' = Slots BY <1>4 DEF Slots
<1>6. lo \in 1 .. MaxId /\ lo + 1 \in U16
  BY <1>1, <1>2, <1>3, SlotFacts DEF Shape, RangesOK, U16
<1>7. out' \in FreeIds BY <1>1, <1>2, <1>3, <1>6, SlotFacts DEF FreeIds, Ids
<1>8. FreeIds' = FreeIds \ {lo}
  <2>1. ASSUME NEW i \in Ids
        PROVE  i \in FreeIds' <=> i \in FreeIds /\ i # lo
    BY <1>1, <1>2, <1>3, <1>4, <1>5, <1>6, SlotFacts DEF FreeIds, Ids
  <2>2. QED BY <2>1 DEF FreeIds
<1>9. TypeOK'
  <2>1. [ranges[start] EXCEPT !.lo = lo + 1] \in Node
    BY <1>2, <1>3, <1>6, SlotFacts DEF Node
  <2>2. ranges' \in Seq(Node) BY <1>1, <1>2, <1>3, <2>1, SlotFacts DEF TypeOK
  <2>3. QED BY <2>2, <1>1, <1>2, <1>3, <1>5, <1>6 DEF TypeOK, U16, Ids
<1>10. RangesOK'
  BY <1>1, <1>2, <1>3, <1>4, <1>5, SlotFacts DEF Shape, RangesOK
<1>11. LinksOK'
  <2>1. \A j \in Slots : ranges'[start].lo <= ranges'[j].lo
    BY <1>1, <1>2, <1>3, <1>4, SlotFacts
  <2>2. ASSUME NEW i \in Slots
        PROVE  IF ranges[i].next \in Slots
               THEN /\ ranges'[i].lo < ranges'[ranges[i].next].lo
                    /\ \A j \in Slots : \/ ranges'[j].lo <= ranges'[i].lo
                                        \/ ranges'[ranges[i].next].lo <= ranges'[j].lo
               ELSE /\ ranges[i].next = 0
                    /\ \A j \in Slots : ranges'[j].lo <= ranges'[i].lo
    <3>1. CASE ranges[i].next \in Slots
      <4> DEFINE n == ranges[i].next
      <4>1. /\ ranges[i].lo < ranges[n].lo
            /\ \A j \in Slots : ranges[j].lo <= ranges[i].lo \/ ranges[n].lo <= ranges[j].lo
        BY <3>1 DEF Shape, LinksOK
      <4>2. n # start BY <1>2, <1>3, <3>1, <4>1, SlotFacts
      <4>3. ranges'[n].lo = ranges[n].lo BY <1>3, <1>4, <3>1, <4>2, SlotFacts
      <4>4. lo + 1 <= ranges[n].lo BY <1>2, <1>3, <3>1, <4>2, SlotFacts
      <4> HIDE DEF n
      <4>5. \A j \in Slots : \/ ranges'[j].lo <= ranges'[i].lo
                             \/ ranges[n].lo <= ranges'[j].lo
        BY <1>2, <1>3, <1>4, <4>1, SlotFacts
      <4>6. ranges'[i].lo < ranges[n].lo
        <5>1. CASE i = start
          <6>1. ranges[start].hi < ranges[n].lo
            BY StartIsFirst, <3>1, <4>2 DEF n
          <6>2. n \in Slots BY <3>1 DEF n
          <6>3. QED BY <5>1, <6>1, <6>2, <1>1, <1>2, <1>3, <1>4, SlotFacts
        <5>2. CASE i # start BY <5>2, <1>3, <1>4, <4>1, SlotFacts
        <5>3. QED BY <5>1, <5>2
      <4>7. QED BY <3>1, <4>3, <4>5, <4>6 DEF n
    <3>2. CASE ranges[i].next \notin Slots
      <4>1. ranges[i].next = 0 /\ \A j \in Slots : ranges[j].lo <= ranges[i].lo
        BY <3>2 DEF Shape, LinksOK
      <4>2. QED BY <3>2, <4>1, <1>2, <1>3, <1>4, SlotFacts
    <3>3. QED BY <3>1, <3>2
  <2>3. \A i \in Slots : ranges'[i].next = ranges[i].next BY <1>3, <1>4, SlotFacts
  <2>4. QED BY <1>1, <1>5, <2>1, <2>2, <2>3 DEF LinksOK
<1>12. DisjointOK'
  BY <1>1, <1>2, <1>3, <1>4, <1>5, SlotFacts DEF Shape, DisjointOK
<1>13. PartitionOK'
  BY <1>1, <1>6, <1>7, <1>8 DEF Shape, PartitionOK, FreeIds
<1>14. QED BY <1>1, <1>7, <1>8, <1>9, <1>10, <1>11, <1>12, <1>13 DEF Shape

\* next_id takes the last identifier of the first range and vacates its slot.
LEMMA TakeLastOfRangeStep ==
  ASSUME Shape, TakeLastOfRange, held' = held \cup ({out'} \ {0})
  PROVE  Shape' /\ FreeIds' = FreeIds \ {out'} /\ out' \in FreeIds
<1> USE PktIdsAssumption
<1> DEFINE lo == ranges[start].lo
           n == ranges[start].next
<1>1. /\ lo >= ranges[start].hi /\ out' = lo /\ start' = n
      /\ ranges' = [ranges EXCEPT ![start] = Vacant]
      /\ n \in Slots
  BY DEF TakeLastOfRange, First, IsTaken, Slots
<1>2. start \in Slots
      /\ \A j \in Slots \ {start} : lo < ranges[j].lo
  BY StartIsFirst
<1>3. TypeOK BY DEF Shape
<1>4. lo = ranges[start].hi /\ lo \in 1 .. MaxId
  BY <1>1, <1>2, <1>3, SlotFacts DEF Shape, RangesOK
<1>5. lo < ranges[n].lo /\ n # start
  BY <1>1, <1>2, <1>3, SlotFacts DEF Shape, LinksOK
<1>6. /\ DOMAIN ranges' = DOMAIN ranges
      /\ ranges'[start] = Vacant
      /\ \A i \in DOMAIN ranges \ {start} : ranges'[i] = ranges[i]
  BY <1>1, <1>2, <1>3, SlotFacts
<1>7. Slots' = Slots \ {start} BY <1>6 DEF Slots, Vacant
<1>8. \A i \in Slots : ranges[i].next # start
  BY <1>2, <1>3, SlotFacts DEF Shape, LinksOK
<1>9. out' \in FreeIds BY <1>1, <1>2, <1>3, <1>4, SlotFacts DEF FreeIds, Ids
<1>10. FreeIds' = FreeIds \ {lo}
  <2>1. ASSUME NEW i \in Ids
        PROVE  i \in FreeIds' <=> i \in FreeIds /\ i # lo
    BY <1>2, <1>3, <1>4, <1>6, <1>7, SlotFacts DEF FreeIds, Ids
  <2>2. QED BY <2>1 DEF FreeIds
<1>11. TypeOK'
  <2>1. Vacant \in Node BY DEF Vacant, Node, U16
  <2>2. ranges' \in Seq(Node) BY <1>1, <1>3, <2>1, SlotFacts DEF TypeOK
  <2>3. start' \in Slots' BY <1>1, <1>5, <1>7
  <2>4. out' \in U16 BY <1>1, <1>4 DEF U16
  <2>5. held' \in SUBSET Ids BY <1>1, <1>3, <1>4 DEF TypeOK, Ids
  <2>6. QED BY <2>2, <2>3, <2>4, <2>5 DEF TypeOK
<1>12. RangesOK' BY <1>6, <1>7, <1>3, SlotFacts DEF Shape, RangesOK
<1>13. LinksOK'
  <2>1. ASSUME NEW j \in Slots' PROVE ranges'[n].lo <= ranges'[j].lo
    <3>1. j \in Slots /\ j # start BY <1>7
    <3>2. ranges[j].lo <= lo \/ ranges[n].lo <= ranges[j].lo
      BY <3>1, <1>1, <1>2 DEF Shape, LinksOK
    <3>3. lo \in Nat /\ ranges[j].lo \in Nat BY <3>1, <1>2, <1>3, SlotFacts
    <3>4. ranges[n].lo <= ranges[j].lo
      <4> HIDE DEF n, lo
      <4> QED BY <3>1, <3>2, <3>3, <1>2
    <3>5. ranges'[n].lo = ranges[n].lo /\ ranges'[j].lo = ranges[j].lo
      BY <3>1, <1>1, <1>3, <1>5, <1>6, SlotFacts
    <3>6. QED BY <3>4, <3>5
  <2>2. \A i \in Slots' : ranges'[i] = ranges[i] /\ i \in Slots
    BY <1>3, <1>6, <1>7, SlotFacts
  <2>3. QED BY <2>1, <2>2, <1>1, <1>7, <1>8 DEF Shape, LinksOK
<1>14. DisjointOK' BY <1>3, <1>6, <1>7, SlotFacts DEF Shape, DisjointOK
<1>15. PartitionOK' BY <1>1, <1>4, <1>9, <1>10 DEF Shape, PartitionOK, FreeIds
<1>16. QED BY <1>1, <1>9, <1>10, <1>11, <1>12, <1>13, <1>14, <1>15 DEF Shape

\* next_id takes the last identifier of the only range, or finds it empty and
\* returns None.
LEMMA TakeLastOfListStep ==
  ASSUME Shape, TakeLastOfList, ~overflowed', held' = held \cup ({out'} \ {0})
  PROVE  /\ Shape'
         /\ \/ out' \in FreeIds /\ FreeIds' = FreeIds \ {out'}
            \/ out' = 0 /\ FreeIds = {} /\ FreeIds' = {}
<1> USE PktIdsAssumption
<1> DEFINE lo == ranges[start].lo
<1>1. /\ lo >= ranges[start].hi
      /\ ranges[start].next \notin Slots
      /\ ranges' = [ranges EXCEPT ![start].lo = Inc(lo)]
      /\ out' = IF lo = ranges[start].hi THEN lo ELSE 0
      /\ start' = start
      /\ ~NextIdOverflows
  BY DEF TakeLastOfList, First, IsTaken, Slots
<1>2. start \in Slots
      /\ \A j \in Slots \ {start} : lo < ranges[j].lo
  BY StartIsFirst
<1>3. TypeOK BY DEF Shape
<1>4. Slots = {start} /\ ranges[start].next = 0 /\ ranges[start].hi = MaxId
  BY <1>1, <1>2, <1>3, SlotFacts DEF Shape, LinksOK, RangesOK
<1>5. lo # U16Max BY <1>1 DEF NextIdOverflows, First, IsTaken, Slots
<1>6. lo \in U16 /\ lo >= 1 /\ Inc(lo) = lo + 1 /\ Inc(lo) \in U16
  BY <1>2, <1>3, <1>5, SlotFacts DEF Shape, RangesOK, Inc, U16
<1>7. /\ DOMAIN ranges' = DOMAIN ranges
      /\ ranges'[start].lo = lo + 1
      /\ ranges'[start].hi = ranges[start].hi
      /\ ranges'[start].next = ranges[start].next
      /\ \A i \in DOMAIN ranges : ranges'[i].taken = ranges[i].taken
  BY <1>1, <1>2, <1>3, <1>6, SlotFacts DEF Node, TypeOK
<1>8. Slots' = Slots BY <1>7 DEF Slots
<1>9. FreeIds = {i \in Ids : lo <= i /\ i <= MaxId} BY <1>4 DEF FreeIds
<1>10. FreeIds' = {i \in Ids : lo + 1 <= i /\ i <= MaxId}
  BY <1>4, <1>7, <1>8 DEF FreeIds
<1>11. \/ out' \in FreeIds /\ FreeIds' = FreeIds \ {out'} /\ out' # 0
       \/ out' = 0 /\ FreeIds = {} /\ FreeIds' = {}
  <2>1. CASE lo = MaxId
    BY <2>1, <1>1, <1>4, <1>6, <1>9, <1>10 DEF Ids
  <2>2. CASE lo > MaxId
    BY <2>2, <1>1, <1>4, <1>6, <1>9, <1>10 DEF Ids, U16
  <2>3. QED BY <2>1, <2>2, <1>1, <1>4, <1>6 DEF U16
<1>12. TypeOK'
  <2>1. [ranges[start] EXCEPT !.lo = Inc(lo)] \in Node
    BY <1>2, <1>3, <1>6, SlotFacts DEF Node
  <2>2. ranges' \in Seq(Node) BY <1>1, <1>2, <1>3, <2>1, SlotFacts DEF TypeOK
  <2>3. out' \in U16 /\ held' \in SUBSET Ids
    BY <1>1, <1>3, <1>6, <1>11 DEF TypeOK, U16, FreeIds
  <2>4. QED BY <2>2, <2>3, <1>1, <1>2, <1>8 DEF TypeOK
<1>13. RangesOK' BY <1>4, <1>6, <1>7, <1>8 DEF RangesOK, U16
<1>14. LinksOK' BY <1>1, <1>4, <1>6, <1>7, <1>8 DEF LinksOK, U16
<1>15. DisjointOK' BY <1>4, <1>8 DEF DisjointOK
<1>16. PartitionOK'
  BY <1>11 DEF Shape, PartitionOK, FreeIds
<1>17. QED BY <1>11, <1>12, <1>13, <1>14, <1>15, <1>16 DEF Shape

\* Where the other nodes lie: below the node that the walk ended at or above
\* the next one.
LEMMA Neighbours ==
  ASSUME Shape, NEW id \in held
  PROVE  LET p == PrevIdx(id)
             n == NextIdx(id)
         IN  \A j \in Slots :
               \/ p # 0 /\ j = p
               \/ /\ p # 0
                  /\ ranges[j].lo < ranges[p].lo /\ ranges[j].hi < ranges[p].lo
                  /\ ranges[j].lo < id /\ ranges[j].hi < id
               \/ j = n
               \/ /\ ranges[n].lo < ranges[j].lo /\ ranges[n].hi < ranges[j].lo
                  /\ id < ranges[j].lo
<1> DEFINE p == PrevIdx(id)
           n == NextIdx(id)
<1>1. /\ id \in Ids /\ id \in Nat
      /\ n \in Slots /\ id < ranges[n].lo
      /\ p = 0 => n = start
      /\ p # 0 => /\ p \in Slots
                  /\ ranges[p].lo <= ranges[p].hi /\ ranges[p].hi < id
                  /\ ranges[p].next = n
  BY WalkEnds, PktIdsAssumption DEF Ids
<1> HIDE DEF p, n
<1>2. TypeOK BY DEF Shape
<1> SUFFICES ASSUME NEW j \in Slots, j # n, ~(p # 0 /\ j = p)
             PROVE  \/ /\ p # 0
                       /\ ranges[j].lo < ranges[p].lo /\ ranges[j].hi < ranges[p].lo
                       /\ ranges[j].lo < id /\ ranges[j].hi < id
                    \/ /\ ranges[n].lo < ranges[j].lo /\ ranges[n].hi < ranges[j].lo
                       /\ id < ranges[j].lo
  BY DEF p, n
<1>3. \/ ranges[n].lo < ranges[j].lo /\ ranges[n].hi < ranges[j].lo
      \/ ranges[j].lo < ranges[n].lo
  BY <1>1 DEF Shape, DisjointOK
<1>4. CASE ranges[n].lo < ranges[j].lo /\ ranges[n].hi < ranges[j].lo
  BY <1>1, <1>2, <1>4, SlotFacts
<1>5. CASE ranges[j].lo < ranges[n].lo
  <2>1. p # 0 BY <1>1, <1>2, <1>5, StartIsFirst, SlotFacts
  <2>2. ranges[j].lo <= ranges[p].lo
    <3>1. p \in Slots /\ ranges[p].next = n /\ n \in Slots BY <1>1, <2>1
    <3>2. ranges[j].lo <= ranges[p].lo \/ ranges[n].lo <= ranges[j].lo
      BY <3>1 DEF Shape, LinksOK
    <3>3. ranges[j].lo \in Nat /\ ranges[n].lo \in Nat BY <1>2, <3>1, SlotFacts
    <3>4. QED BY <1>5, <3>2, <3>3
  <2>3. ranges[j].lo < ranges[p].lo /\ ranges[j].hi < ranges[p].lo
    <3>1. \/ ranges[j].lo < ranges[p].lo /\ ranges[j].hi < ranges[p].lo
          \/ ranges[p].lo < ranges[j].lo
      BY <1>1, <2>1 DEF Shape, DisjointOK
    <3>2. ranges[j].lo \in Nat /\ ranges[p].lo \in Nat BY <1>1, <1>2, <2>1, SlotFacts
    <3>3. QED BY <2>2, <3>1, <3>2
  <2>4. QED BY <1>1, <1>2, <2>1, <2>3, SlotFacts
<1>6. QED BY <1>3, <1>4, <1>5

\* return_id extends the range below.
LEMMA GrowPrevStep ==
  ASSUME Shape, NEW id \in held, GrowPrev(id), held' = held \ {id}, out' = out
  PROVE  Shape' /\ FreeIds' = FreeIds \cup {id}
<1> USE PktIdsAssumption
<1> DEFINE p == PrevIdx(id)
           n == NextIdx(id)
<1>1. /\ p # 0 /\ Inc(ranges[p].hi) = id /\ start' = start
      /\ ranges' = [ranges EXCEPT ![p].hi = id]
  BY DEF GrowPrev, ExtendsPrev
<1>2. /\ id \in Ids /\ id \in 1 .. MaxId
      /\ n \in Slots /\ id < ranges[n].lo
      /\ p \in Slots
      /\ ranges[p].lo <= ranges[p].hi /\ ranges[p].hi < id
      /\ ranges[p].next = n
  BY <1>1, WalkEnds DEF Ids
<1>3. \A j \in Slots \ {p} :
        \/ ranges[j].lo < ranges[p].lo /\ ranges[j].hi < ranges[p].lo
        \/ id < ranges[j].lo
  BY <1>1, <1>2, Neighbours
<1> HIDE DEF p, n
<1>4. TypeOK BY DEF Shape
<1>5. ranges[p].hi + 1 = id BY <1>1, <1>2, <1>4, SlotFacts DEF Inc
<1>6. /\ DOMAIN ranges' = DOMAIN ranges
      /\ \A i \in DOMAIN ranges :
           /\ ranges'[i].lo = ranges[i].lo
           /\ ranges'[i].hi = IF i = p THEN id ELSE ranges[i].hi
           /\ ranges'[i].next = ranges[i].next
           /\ ranges'[i].taken = ranges[i].taken
  BY <1>1, <1>2, <1>4, SlotFacts DEF Node, TypeOK
<1>7. Slots' = Slots BY <1>6 DEF Slots
<1>8. FreeIds' = FreeIds \cup {id}
  <2>1. ASSUME NEW i \in Ids
        PROVE  i \in FreeIds' <=> i \in FreeIds \/ i = id
    <3>1. i \in Nat BY DEF Ids
    <3>2. \A k \in Slots \ {p} : ranges'[k].lo = ranges[k].lo /\ ranges'[k].hi = ranges[k].hi
      BY <1>4, <1>6, SlotFacts
    <3>3. ranges'[p].lo = ranges[p].lo /\ ranges'[p].hi = id
      BY <1>2, <1>4, <1>6, SlotFacts
    <3>4. ranges'[p].lo <= i /\ i <= ranges'[p].hi
          <=> i = id \/ (ranges[p].lo <= i /\ i <= ranges[p].hi)
      BY <1>2, <1>4, <1>5, <3>1, <3>3, SlotFacts
    <3>5. (\E k \in Slots : ranges'[k].lo <= i /\ i <= ranges'[k].hi)
          <=> i = id \/ \E k \in Slots : ranges[k].lo <= i /\ i <= ranges[k].hi
      BY <1>2, <3>2, <3>4
    <3>6. QED BY <1>7, <3>5 DEF FreeIds
  <2>2. QED BY <2>1, <1>2 DEF FreeIds
<1>9. TypeOK'
  <2>1. [ranges[p] EXCEPT !.hi = id] \in Node
    BY <1>2, <1>4, SlotFacts DEF Node, U16
  <2>2. ranges' \in Seq(Node) BY <1>1, <1>2, <1>4, <2>1, SlotFacts DEF TypeOK
  <2>3. QED BY <2>2, <1>1, <1>4, <1>7 DEF TypeOK
<1>10. RangesOK'
  <2>1. ASSUME NEW i \in Slots
        PROVE  /\ ranges'[i].lo >= 1 /\ ranges'[i].hi <= MaxId
               /\ ranges'[i].next = 0 => ranges'[i].hi = MaxId
               /\ ranges'[i].lo > ranges'[i].hi => ranges'[i].next = 0
    <3>1. /\ ranges[i].lo >= 1 /\ ranges[i].hi <= MaxId
          /\ ranges[i].next = 0 => ranges[i].hi = MaxId
          /\ ranges[i].lo > ranges[i].hi => ranges[i].next = 0
      BY DEF Shape, RangesOK
    <3>2. /\ ranges'[i].lo = ranges[i].lo /\ ranges'[i].next = ranges[i].next
          /\ ranges'[i].hi = IF i = p THEN id ELSE ranges[i].hi
      BY <1>4, <1>6, SlotFacts
    <3>3. CASE i = p
      <4>1. ranges[p].next # 0 BY <1>2, <1>4, SlotFacts
      <4>2. ranges[p].lo <= id BY <1>2, <1>4, SlotFacts
      <4>3. ranges[p].lo \in Nat BY <1>2, <1>4, SlotFacts
      <4>4. QED BY <1>2, <3>1, <3>2, <3>3, <4>1, <4>2, <4>3
    <3>4. CASE i # p BY <3>1, <3>2, <3>4
    <3>5. QED BY <3>3, <3>4
  <2>2. QED BY <2>1, <1>7 DEF RangesOK
<1>11. LinksOK'
  BY <1>1, <1>4, <1>6, <1>7, SlotFacts DEF Shape, LinksOK
<1>12. DisjointOK'
  <2>1. ASSUME NEW i \in Slots, NEW j \in Slots, i # j
        PROVE  \/ ranges'[i].lo < ranges'[j].lo /\ ranges'[i].hi < ranges'[j].lo
               \/ ranges'[j].lo < ranges'[i].lo /\ ranges'[j].hi < ranges'[i].lo
    <3>1. CASE i = p
      BY <3>1, <2>1, <1>2, <1>3, <1>4, <1>6, SlotFacts
    <3>2. CASE j = p
      BY <3>2, <2>1, <1>2, <1>3, <1>4, <1>6, SlotFacts
    <3>3. CASE i # p /\ j # p
      BY <3>3, <2>1, <1>4, <1>6, SlotFacts DEF Shape, DisjointOK
    <3>4. QED BY <3>1, <3>2, <3>3
  <2>2. QED BY <2>1, <1>7 DEF DisjointOK
<1>13. PartitionOK' BY <1>2, <1>8 DEF Shape, PartitionOK, FreeIds
<1>14. QED BY <1>8, <1>9, <1>10, <1>11, <1>12, <1>13 DEF Shape

\* return_id extends the range above.
LEMMA GrowNextStep ==
  ASSUME Shape, NEW id \in held, GrowNext(id), held' = held \ {id}, out' = out
  PROVE  Shape' /\ FreeIds' = FreeIds \cup {id}
<1> USE PktIdsAssumption
<1> DEFINE p == PrevIdx(id)
           n == NextIdx(id)
<1>1. /\ IsTaken(n) /\ Dec(ranges[n].lo) = id /\ start' = start
      /\ ranges' = [ranges EXCEPT ![n].lo = id]
  BY DEF GrowNext, ExtendsNext
<1>2. /\ id \in Ids /\ id \in 1 .. MaxId
      /\ n \in Slots /\ id < ranges[n].lo
      /\ p = 0 => n = start
  BY WalkEnds DEF Ids
<1>3. \A j \in Slots \ {n} :
        \/ p # 0 /\ ranges[j].lo < id /\ ranges[j].hi < id
        \/ ranges[n].lo < ranges[j].lo /\ ranges[n].hi < ranges[j].lo
  <2>1. TypeOK BY DEF Shape
  <2>2. p # 0 => p \in Slots /\ ranges[p].lo <= ranges[p].hi /\ ranges[p].hi < id
    BY WalkEnds
  <2>3. p # 0 => ranges[p].lo < id BY <1>2, <2>1, <2>2, SlotFacts
  <2>4. QED BY <2>2, <2>3, Neighbours
<1> HIDE DEF p, n
<1>4. TypeOK BY DEF Shape
<1>5. ranges[n].lo = id + 1
  BY <1>1, <1>2, <1>4, SlotFacts DEF Dec, Shape, RangesOK
<1>6. /\ DOMAIN ranges' = DOMAIN ranges
      /\ \A i \in DOMAIN ranges :
           /\ ranges'[i].lo = IF i = n THEN id ELSE ranges[i].lo
           /\ ranges'[i].hi = ranges[i].hi
           /\ ranges'[i].next = ranges[i].next
           /\ ranges'[i].taken = ranges[i].taken
  BY <1>1, <1>2, <1>4, SlotFacts DEF Node, TypeOK
<1>7. Slots' = Slots BY <1>6 DEF Slots
<1>8. id <= ranges[n].hi
  BY <1>2, <1>4, <1>5, SlotFacts DEF Shape, RangesOK
<1>9. FreeIds' = FreeIds \cup {id}
  <2>1. ASSUME NEW i \in Ids
        PROVE  i \in FreeIds' <=> i \in FreeIds \/ i = id
    <3>1. i \in Nat BY DEF Ids
    <3>2. \A k \in Slots \ {n} : ranges'[k].lo = ranges[k].lo /\ ranges'[k].hi = ranges[k].hi
      BY <1>4, <1>6, SlotFacts
    <3>3. ranges'[n].lo = id /\ ranges'[n].hi = ranges[n].hi
      BY <1>2, <1>4, <1>6, SlotFacts
    <3>4. ranges'[n].lo <= i /\ i <= ranges'[n].hi
          <=> i = id \/ (ranges[n].lo <= i /\ i <= ranges[n].hi)
      BY <1>2, <1>4, <1>5, <1>8, <3>1, <3>3, SlotFacts
    <3>5. (\E k \in Slots : ranges'[k].lo <= i /\ i <= ranges'[k].hi)
          <=> i = id \/ \E k \in Slots : ranges[k].lo <= i /\ i <= ranges[k].hi
      BY <1>2, <3>2, <3>4
    <3>6. QED BY <1>7, <3>5 DEF FreeIds
  <2>2. QED BY <2>1, <1>2 DEF FreeIds
<1>10. TypeOK'
  <2>1. [ranges[n] EXCEPT !.lo = id] \in Node
    BY <1>2, <1>4, SlotFacts DEF Node, U16
  <2>2. ranges' \in Seq(Node) BY <1>1, <1>2, <1>4, <2>1, SlotFacts DEF TypeOK
  <2>3. QED BY <2>2, <1>1, <1>4, <1>7 DEF TypeOK
<1>11. RangesOK'
  BY <1>2, <1>4, <1>6, <1>7, <1>8, SlotFacts DEF Shape, RangesOK
<1>12. LinksOK'
  <2>1. \A j \in Slots : ranges'[start].lo <= ranges'[j].lo
    BY <1>2, <1>3, <1>4, <1>5, <1>6, StartIsFirst, SlotFacts
  <2>2. ASSUME NEW i \in Slots
        PROVE  IF ranges[i].next \in Slots
               THEN /\ ranges'[i].lo < ranges'[ranges[i].next].lo
                    /\ \A j \in Slots : \/ ranges'[j].lo <= ranges'[i].lo
                                        \/ ranges'[ranges[i].next].lo <= ranges'[j].lo
               ELSE /\ ranges[i].next = 0
                    /\ \A j \in Slots : ranges'[j].lo <= ranges'[i].lo
    <3>1. CASE ranges[i].next \in Slots
      <4> DEFINE m == ranges[i].next
      <4>1. /\ m \in Slots
            /\ ranges[i].lo < ranges[m].lo
            /\ \A j \in Slots : ranges[j].lo <= ranges[i].lo \/ ranges[m].lo <= ranges[j].lo
        BY <3>1 DEF Shape, LinksOK
      <4> HIDE DEF m
      <4> DEFINE Near(k) == /\ ranges[k].lo \in Nat
                            /\ ranges'[k].lo = IF k = n THEN id ELSE ranges[k].lo
                            /\ k # n => ranges[k].lo < id \/ ranges[n].lo < ranges[k].lo
      <4>2. ASSUME NEW k \in Slots PROVE Near(k)
        BY <1>3, <1>4, <1>6, SlotFacts
      <4>3. Near(i) /\ Near(m) /\ id \in Nat BY <1>2, <4>1, <4>2
      <4>4. ranges'[i].lo < ranges'[m].lo BY <4>1, <4>3, <1>5
      <4>5. ASSUME NEW j \in Slots
            PROVE  ranges'[j].lo <= ranges'[i].lo \/ ranges'[m].lo <= ranges'[j].lo
        <5>1. ranges[j].lo <= ranges[i].lo \/ ranges[m].lo <= ranges[j].lo BY <4>1
        <5>2. Near(j) BY <4>2
        <5>3. CASE i # n /\ j = n BY <5>1, <5>3, <5>2, <4>1, <4>3, <1>5
        <5>4. CASE i = n BY <5>1, <5>4, <5>2, <4>1, <4>3, <1>5
        <5>5. CASE i # n /\ j # n BY <5>1, <5>5, <5>2, <4>1, <4>3, <1>5
        <5>6. QED BY <5>3, <5>4, <5>5
      <4>6. QED BY <3>1, <4>4, <4>5 DEF m
    <3>2. CASE ranges[i].next \notin Slots
      <4>1. ranges[i].next = 0 /\ \A j \in Slots : ranges[j].lo <= ranges[i].lo
        BY <3>2 DEF Shape, LinksOK
      <4>2. /\ ranges'[i].lo = IF i = n THEN id ELSE ranges[i].lo
            /\ i # n => ranges[i].lo < id \/ ranges[n].lo < ranges[i].lo
            /\ ranges[i].lo \in Nat /\ id \in Nat
        BY <1>2, <1>3, <1>4, <1>6, SlotFacts
      <4>3. ASSUME NEW j \in Slots PROVE ranges'[j].lo <= ranges'[i].lo
        <5>1. /\ ranges[j].lo <= ranges[i].lo /\ ranges[n].lo <= ranges[i].lo
              /\ ranges[j].lo \in Nat
              /\ ranges'[j].lo = IF j = n THEN id ELSE ranges[j].lo
              /\ j # n => ranges[j].lo < id \/ ranges[n].lo < ranges[j].lo
          BY <4>1, <1>2, <1>3, <1>4, <1>6, SlotFacts
        <5>2. CASE i = n BY <5>1, <5>2, <4>2, <1>5
        <5>3. CASE i # n BY <5>1, <5>3, <4>2, <1>5
        <5>4. QED BY <5>2, <5>3
      <4>4. QED BY <3>2, <4>1, <4>3
    <3>3. QED BY <3>1, <3>2
  <2>3. \A i \in Slots : ranges'[i].next = ranges[i].next BY <1>4, <1>6, SlotFacts
  <2>4. QED BY <1>1, <1>7, <2>1, <2>2, <2>3 DEF LinksOK
<1>13. DisjointOK'
  <2>1. ASSUME NEW i \in Slots, NEW j \in Slots, i # j
        PROVE  \/ ranges'[i].lo < ranges'[j].lo /\ ranges'[i].hi < ranges'[j].lo
               \/ ranges'[j].lo < ranges'[i].lo /\ ranges'[j].hi < ranges'[i].lo
    <3>1. CASE i = n
      BY <3>1, <2>1, <1>2, <1>3, <1>4, <1>5, <1>6, SlotFacts
    <3>2. CASE j = n
      BY <3>2, <2>1, <1>2, <1>3, <1>4, <1>5, <1>6, SlotFacts
    <3>3. CASE i # n /\ j # n
      BY <3>3, <2>1, <1>4, <1>6, SlotFacts DEF Shape, DisjointOK
    <3>4. QED BY <3>1, <3>2, <3>3
  <2>2. QED BY <2>1, <1>7 DEF DisjointOK
<1>14. PartitionOK' BY <1>2, <1>9 DEF Shape, PartitionOK, FreeIds
<1>15. QED BY <1>9, <1>10, <1>11, <1>12, <1>13, <1>14 DEF Shape

\* There is a slot for the new node, and no node in use loses its own.
LEMMA FreeSlotFacts ==
  ASSUME TypeOK
  PROVE  /\ FreeSlot \in 1 .. Len(ranges) + 1
         /\ FreeSlot \notin Slots
         /\ \A u \in 1 .. Len(ranges) : u \notin Slots => FreeSlot <= u
<1> DEFINE V == {v \in 1 .. Len(ranges) + 1 : v \notin Slots}
<1>1. Len(ranges) \in Nat /\ Slots \subseteq 1 .. Len(ranges) BY SlotFacts
<1>2. V \in SUBSET Nat /\ Len(ranges) + 1 \in V BY <1>1
<1>3. \E v \in V : \A u \in V : v <= u
  <2> HIDE DEF V
  <2> QED BY <1>2, LeastNat
<1>4. \E v \in 1 .. Len(ranges) + 1 :
        /\ v \notin Slots
        /\ \A u \in 1 .. Len(ranges) : u \notin Slots => v <= u
  BY <1>1, <1>3
<1>5. QED BY <1>4 DEF FreeSlot

\* Writing a node into a slot of the Vec, or pushing it.
LEMMA PutFacts ==
  ASSUME TypeOK, NEW v \in 1 .. Len(ranges) + 1, NEW node \in Node
  PROVE  /\ Put(v, node) \in Seq(Node)
         /\ DOMAIN Put(v, node) = DOMAIN ranges \cup {v}
         /\ Put(v, node)[v] = node
         /\ \A i \in DOMAIN ranges \ {v} : Put(v, node)[i] = ranges[i]
<1>1. /\ ranges \in Seq(Node) /\ Len(ranges) \in Nat
      /\ DOMAIN ranges = 1 .. Len(ranges)
  BY SlotFacts DEF TypeOK
<1>2. CASE v > Len(ranges)
  <2>1. v = Len(ranges) + 1 BY <1>1, <1>2
  <2>2. Put(v, node) = Append(ranges, node) BY <1>2 DEF Put
  <2>3. /\ Append(ranges, node) \in Seq(Node)
        /\ Len(Append(ranges, node)) = Len(ranges) + 1
        /\ Append(ranges, node)[Len(ranges) + 1] = node
        /\ \A i \in 1 .. Len(ranges) : Append(ranges, node)[i] = ranges[i]
    BY <1>1
  <2>4. DOMAIN Append(ranges, node) = DOMAIN ranges \cup {v}
    BY <1>1, <2>1, <2>3
  <2>5. \A i \in DOMAIN ranges \ {v} : Append(ranges, node)[i] = ranges[i]
    BY <1>1, <2>3
  <2>6. Append(ranges, node)[v] = node BY <2>1, <2>3
  <2>7. QED BY <2>2, <2>3, <2>4, <2>5, <2>6, Zenon
<1>3. CASE v <= Len(ranges)
  <2>1. ~(v > Len(ranges)) /\ v \in DOMAIN ranges BY <1>1, <1>3
  <2>2. Put(v, node) = [ranges EXCEPT ![v] = node] BY <2>1, Zenon DEF Put
  <2>3. QED BY <1>1, <2>1, <2>2
<1>4. QED BY <1>1, <1>2, <1>3

\* Insertion adds one node, of one identifier, and links it in.
LEMMA InsertsNode ==
  ASSUME TypeOK, NEW id \in Ids, InsertNode(id), NextIdx(id) \in Slots,
         PrevIdx(id) # 0 => PrevIdx(id) \in Slots
  PROVE  /\ FreeSlot \notin Slots /\ FreeSlot \in Nat /\ FreeSlot # 0
         /\ ranges' \in Seq(Node)
         /\ start' = IF PrevIdx(id) = 0 THEN FreeSlot ELSE start
         /\ \A i \in Slots :
              /\ ranges'[i].lo = ranges[i].lo /\ ranges'[i].hi = ranges[i].hi
              /\ ranges'[i].next = IF PrevIdx(id) # 0 /\ i = PrevIdx(id)
                                   THEN FreeSlot ELSE ranges[i].next
         /\ /\ ranges'[FreeSlot].lo = id /\ ranges'[FreeSlot].hi = id
            /\ ranges'[FreeSlot].next = NextIdx(id)
         /\ Slots' = Slots \cup {FreeSlot}
<1> USE PktIdsAssumption
<1> DEFINE p == PrevIdx(id)
           n == NextIdx(id)
           v == FreeSlot
           node == Taken(id, id, n)
           vec == Put(v, node)
<1>1. /\ ranges' = IF p = 0 THEN vec ELSE [vec EXCEPT ![p].next = v]
      /\ start' = IF p = 0 THEN v ELSE start
  BY DEF InsertNode
<1>2. TypeOK OBVIOUS
<1>3. /\ id \in 1 .. MaxId /\ id \in U16 /\ n \in Slots /\ n \in Nat
      /\ p # 0 => p \in Slots
  BY <1>2, SlotFacts DEF Ids, U16
<1>5. v \in 1 .. Len(ranges) + 1 /\ v \notin Slots /\ v \in Nat /\ v # 0
  BY <1>2, FreeSlotFacts, SlotFacts
<1>6. /\ node \in Node /\ node.lo = id /\ node.hi = id /\ node.next = n
      /\ node.taken
  BY <1>3 DEF Taken, Node
<1>7. /\ vec \in Seq(Node)
      /\ DOMAIN vec = DOMAIN ranges \cup {v}
      /\ vec[v] = node
      /\ \A i \in DOMAIN ranges \ {v} : vec[i] = ranges[i]
  <2> HIDE DEF v, node
  <2> QED BY <1>2, <1>5, <1>6, PutFacts
<1> HIDE DEF p, n, v, node, vec
<1>8. /\ ranges' \in Seq(Node)
      /\ DOMAIN ranges' = DOMAIN ranges \cup {v}
      /\ \A i \in DOMAIN vec :
           /\ ranges'[i].lo = vec[i].lo /\ ranges'[i].hi = vec[i].hi
           /\ ranges'[i].taken = vec[i].taken
           /\ ranges'[i].next = IF p # 0 /\ i = p THEN v ELSE vec[i].next
  <2>1. CASE p = 0 BY <2>1, <1>1, <1>7
  <2>2. CASE p # 0
    <3>1. ranges' = [vec EXCEPT ![p].next = v] BY <2>2, <1>1
    <3>2. p \in DOMAIN vec BY <2>2, <1>2, <1>3, <1>7, SlotFacts
    <3>3. \A i \in DOMAIN vec : vec[i] \in Node
      <4>1. vec \in Seq(Node) BY <1>7
      <4>2. QED BY <4>1
    <3>4. [vec[p] EXCEPT !.next = v] \in Node BY <3>2, <3>3, <1>5 DEF Node
    <3>5. ranges' = [vec EXCEPT ![p] = [vec[p] EXCEPT !.next = v]] BY <3>1
    <3>6. ranges' \in Seq(Node) /\ DOMAIN ranges' = DOMAIN vec
      <4>1. vec \in Seq(Node) BY <1>7
      <4>2. QED BY <4>1, <3>2, <3>4, <3>5
    <3>7. /\ ranges'[p] = [vec[p] EXCEPT !.next = v]
          /\ \A i \in DOMAIN vec \ {p} : ranges'[i] = vec[i]
      BY <3>2, <3>5
    <3>8. /\ ranges'[p].lo = vec[p].lo /\ ranges'[p].hi = vec[p].hi
          /\ ranges'[p].taken = vec[p].taken /\ ranges'[p].next = v
      BY <3>2, <3>3, <3>7 DEF Node
    <3>9. QED BY <2>2, <3>6, <3>7, <3>8, <1>7
  <2>3. QED BY <2>1, <2>2
<1>9. \A i \in Slots :
        /\ ranges'[i].lo = ranges[i].lo /\ ranges'[i].hi = ranges[i].hi
        /\ ranges'[i].next = IF p # 0 /\ i = p THEN v ELSE ranges[i].next
  BY <1>2, <1>5, <1>7, <1>8, SlotFacts
<1>10. /\ ranges'[v].lo = id /\ ranges'[v].hi = id /\ ranges'[v].next = n
  BY <1>3, <1>5, <1>6, <1>7, <1>8
<1>11. Slots' = Slots \cup {v} BY <1>5, <1>6, <1>7, <1>8 DEF Slots
<1>12. QED BY <1>1, <1>5, <1>8, <1>9, <1>10, <1>11 DEF p, n, v

\* return_id inserts a node between the two.
LEMMA InsertNodeStep ==
  ASSUME Shape, NEW id \in held, InsertNode(id), held' = held \ {id}, out' = out
  PROVE  Shape' /\ FreeIds' = FreeIds \cup {id}
<1> USE PktIdsAssumption
<1> DEFINE p == PrevIdx(id)
           n == NextIdx(id)
           v == FreeSlot
<1>2. TypeOK BY DEF Shape
<1>3. /\ id \in Ids /\ id \in 1 .. MaxId
      /\ n \in Slots /\ id < ranges[n].lo /\ n \in Nat
      /\ p = 0 => n = start
      /\ p # 0 => /\ p \in Slots
                  /\ ranges[p].lo <= ranges[p].hi /\ ranges[p].hi < id
                  /\ ranges[p].next = n
  BY <1>2, WalkEnds, SlotFacts DEF Ids
<1>4. \A j \in Slots :
        \/ p # 0 /\ j = p
        \/ /\ p # 0
           /\ ranges[j].lo < ranges[p].lo /\ ranges[j].hi < ranges[p].lo
           /\ ranges[j].lo < id /\ ranges[j].hi < id
        \/ j = n
        \/ /\ ranges[n].lo < ranges[j].lo /\ ranges[n].hi < ranges[j].lo
           /\ id < ranges[j].lo
  BY Neighbours
<1>5. \A j \in Slots : \/ p # 0 /\ ranges[j].lo < id
                       \/ id < ranges[j].lo /\ ranges[n].lo <= ranges[j].lo
  BY <1>2, <1>3, <1>4, SlotFacts
<1>6. v \notin Slots /\ v \in Nat /\ v # 0 BY <1>2, <1>3, InsertsNode
<1>7. start' = IF p = 0 THEN v ELSE start BY <1>2, <1>3, InsertsNode
<1>8. ranges' \in Seq(Node) BY <1>2, <1>3, InsertsNode
<1>9. \A i \in Slots :
        /\ ranges'[i].lo = ranges[i].lo /\ ranges'[i].hi = ranges[i].hi
        /\ ranges'[i].next = IF p # 0 /\ i = p THEN v ELSE ranges[i].next
  BY <1>2, <1>3, InsertsNode
<1>10. /\ ranges'[v].lo = id /\ ranges'[v].hi = id /\ ranges'[v].next = n
  BY <1>2, <1>3, InsertsNode
<1>11. Slots' = Slots \cup {v} BY <1>2, <1>3, InsertsNode
<1> HIDE DEF p, n, v
<1>12. FreeIds' = FreeIds \cup {id}
  <2>1. ASSUME NEW i \in Ids
        PROVE  i \in FreeIds' <=> i \in FreeIds \/ i = id
    <3>1. i \in Nat BY DEF Ids
    <3>2. ranges'[v].lo <= i /\ i <= ranges'[v].hi <=> i = id
      BY <1>3, <1>10, <3>1
    <3>3. (\E k \in Slots \cup {v} : ranges'[k].lo <= i /\ i <= ranges'[k].hi)
          <=> i = id \/ \E k \in Slots : ranges[k].lo <= i /\ i <= ranges[k].hi
      BY <1>9, <3>2
    <3>4. QED BY <1>11, <3>3 DEF FreeIds
  <2>2. QED BY <2>1, <1>3 DEF FreeIds
<1>13. TypeOK'
  <2>1. start' \in Slots' BY <1>7, <1>2, <1>11 DEF TypeOK
  <2>2. QED BY <2>1, <1>2, <1>8 DEF TypeOK
<1>14. RangesOK'
  <2>1. ASSUME NEW i \in Slots
        PROVE  /\ ranges'[i].lo >= 1 /\ ranges'[i].hi <= MaxId
               /\ ranges'[i].next = 0 => ranges'[i].hi = MaxId
               /\ ranges'[i].lo > ranges'[i].hi => ranges'[i].next = 0
    <3>1. /\ ranges[i].lo >= 1 /\ ranges[i].hi <= MaxId
          /\ ranges[i].next = 0 => ranges[i].hi = MaxId
          /\ ranges[i].lo > ranges[i].hi => ranges[i].next = 0
      BY DEF Shape, RangesOK
    <3>2. p # 0 => ranges[p].lo <= ranges[p].hi BY <1>3
    <3>3. ranges[i].lo \in Nat /\ ranges[i].hi \in Nat BY <1>2, SlotFacts
    <3>4. CASE p # 0 /\ i = p BY <3>1, <3>2, <3>3, <3>4, <1>3, <1>6, <1>9
    <3>5. CASE ~(p # 0 /\ i = p) BY <3>1, <3>5, <1>9
    <3>6. QED BY <3>4, <3>5
  <2>2. /\ ranges'[v].lo >= 1 /\ ranges'[v].hi <= MaxId
        /\ ranges'[v].next # 0
        /\ ~(ranges'[v].lo > ranges'[v].hi)
    <3>1. n # 0 BY <1>2, <1>3, SlotFacts
    <3>2. QED BY <3>1, <1>3, <1>10
  <2>3. QED BY <2>1, <2>2, <1>11 DEF RangesOK
<1>15. LinksOK'
  <2>1. \A j \in Slots' : ranges'[start'].lo <= ranges'[j].lo
    <3>1. CASE p = 0
      <4>1. start' = v /\ ranges'[v].lo = id BY <3>1, <1>7, <1>10
      <4>2. \A j \in Slots : id < ranges'[j].lo BY <3>1, <1>5, <1>9
      <4>3. \A j \in Slots : ranges'[j].lo \in Nat BY <1>2, <1>9, SlotFacts
      <4>4. id \in Nat BY <1>3
      <4>5. \A j \in Slots \cup {v} : id <= ranges'[j].lo
        BY <4>1, <4>2, <4>3, <4>4
      <4>6. QED BY <4>1, <4>5, <1>11
    <3>2. CASE p # 0
      <4>1. start' = start /\ start \in Slots BY <3>2, <1>7, StartIsFirst
      <4>2. ranges'[start].lo = ranges[start].lo BY <4>1, <1>9
      <4>3. \A j \in Slots : ranges[start].lo <= ranges[j].lo
        BY DEF Shape, LinksOK
      <4>4. ranges[start].lo <= id
        <5>1. ranges[start].lo <= ranges[p].lo BY <3>2, <4>3, <1>3
        <5>2. ranges[p].lo <= ranges[p].hi /\ ranges[p].hi < id
          BY <3>2, <1>3
        <5>3. /\ ranges[start].lo \in Nat /\ ranges[p].lo \in Nat
              /\ ranges[p].hi \in Nat /\ id \in Nat
          <6>1. p \in Slots /\ start \in Slots /\ id \in Nat
            BY <3>2, <4>1, <1>3
          <6>2. QED BY <6>1, <1>2, SlotFacts
        <5>4. QED BY <5>1, <5>2, <5>3
      <4>5. \A j \in Slots \cup {v} : ranges[start].lo <= ranges'[j].lo
        BY <4>3, <4>4, <1>9, <1>10
      <4>6. QED BY <4>1, <4>2, <4>5, <1>11
    <3>3. QED BY <3>1, <3>2
  <2>2. ASSUME NEW i \in Slots'
        PROVE  IF ranges'[i].next \in Slots'
               THEN /\ ranges'[i].lo < ranges'[ranges'[i].next].lo
                    /\ \A j \in Slots' : \/ ranges'[j].lo <= ranges'[i].lo
                                         \/ ranges'[ranges'[i].next].lo <= ranges'[j].lo
               ELSE /\ ranges'[i].next = 0
                    /\ \A j \in Slots' : ranges'[j].lo <= ranges'[i].lo
    <3>1. CASE i = v
      <4>1. ranges'[i].next = n /\ ranges'[i].lo = id BY <3>1, <1>10
      <4>2. n \in Slots' /\ ranges'[n].lo = ranges[n].lo BY <1>3, <1>9, <1>11
      <4>3. \A j \in Slots : ranges[j].lo <= id \/ ranges[n].lo <= ranges[j].lo
        <5>1. \A j \in Slots : ranges[j].lo \in Nat /\ id \in Nat
          BY <1>2, <1>3, SlotFacts
        <5>2. QED BY <1>5, <5>1
      <4>4. \A j \in Slots \cup {v} :
              ranges'[j].lo <= id \/ ranges[n].lo <= ranges'[j].lo
        <5>1. id <= id BY <1>3
        <5>2. QED BY <4>3, <5>1, <1>9, <1>10
      <4>5. QED BY <4>1, <4>2, <4>4, <1>3, <1>11
    <3>2. CASE p # 0 /\ i = p
      <4>1. p \in Slots /\ ranges[p].lo \in Nat /\ ranges[p].hi \in Nat /\ id \in Nat
        <5>1. p \in Slots /\ id \in Nat BY <3>2, <1>3
        <5>2. QED BY <5>1, <1>2, SlotFacts
      <4>2. /\ ranges'[i].next = v /\ ranges'[i].lo = ranges[p].lo
            /\ v \in Slots' /\ ranges'[v].lo = id
        BY <3>2, <4>1, <1>9, <1>10, <1>11
      <4>3. ranges[p].lo < id BY <3>2, <4>1, <1>3
      <4>4. \A j \in Slots : ranges[j].lo <= ranges[p].lo \/ id <= ranges[j].lo
        <5>1. \A j \in Slots : ranges[j].lo \in Nat BY <1>2, SlotFacts
        <5>2. QED BY <4>1, <5>1, <1>3, <1>4
      <4>5. \A j \in Slots \cup {v} :
              ranges'[j].lo <= ranges[p].lo \/ id <= ranges'[j].lo
        BY <4>1, <4>4, <1>9, <1>10
      <4>6. QED BY <4>2, <4>3, <4>5, <1>11
    <3>3. CASE i # v /\ ~(p # 0 /\ i = p) /\ ranges[i].next \in Slots
      <4> DEFINE m == ranges[i].next
      <4>1. /\ i \in Slots /\ m \in Slots /\ ranges'[i].next = m
            /\ ranges[i].lo < ranges[m].lo
            /\ \A j \in Slots : ranges[j].lo <= ranges[i].lo \/ ranges[m].lo <= ranges[j].lo
        BY <3>3, <1>9, <1>11 DEF Shape, LinksOK
      <4> HIDE DEF m
      <4>2. id <= ranges[i].lo \/ ranges[m].lo <= id
        <5>1. CASE id < ranges[i].lo BY <5>1, <4>1, <1>2, <1>3, SlotFacts
        <5>2. CASE ~(id < ranges[i].lo)
          <6>1. i # n BY <5>2, <1>3
          <6>2. p # 0 /\ ranges[i].lo < ranges[p].lo
            BY <4>1, <5>2, <6>1, <3>3, <1>4
          <6>3. p \in Slots /\ ranges[p].lo <= ranges[p].hi /\ ranges[p].hi < id
            BY <6>2, <1>3
          <6>4. /\ ranges[p].lo \in Nat /\ ranges[p].hi \in Nat
                /\ ranges[i].lo \in Nat /\ ranges[m].lo \in Nat /\ id \in Nat
            BY <4>1, <6>3, <1>2, <1>3, SlotFacts
          <6>5. ranges[p].lo <= ranges[i].lo \/ ranges[m].lo <= ranges[p].lo
            BY <4>1, <6>3
          <6>6. QED BY <6>2, <6>3, <6>4, <6>5
        <5>3. QED BY <5>1, <5>2
      <4>3. \A j \in Slots' : \/ ranges'[j].lo <= ranges'[i].lo
                              \/ ranges'[m].lo <= ranges'[j].lo
        BY <4>1, <4>2, <1>9, <1>10, <1>11
      <4>4. QED BY <4>1, <4>3, <1>9, <1>11
    <3>4. CASE i # v /\ ~(p # 0 /\ i = p) /\ ranges[i].next \notin Slots
      <4>1. /\ i \in Slots /\ ranges'[i].next = 0 /\ 0 \notin Slots'
            /\ \A j \in Slots : ranges[j].lo <= ranges[i].lo
        BY <3>4, <1>2, <1>6, <1>9, <1>11, SlotFacts DEF Shape, LinksOK
      <4>2. id <= ranges[i].lo
        BY <4>1, <1>2, <1>3, SlotFacts
      <4>3. QED BY <4>1, <4>2, <1>9, <1>10, <1>11
    <3>5. QED BY <3>1, <3>2, <3>3, <3>4
  <2>3. QED BY <2>1, <2>2 DEF LinksOK
<1>16. DisjointOK'
  <2>1. \A j \in Slots : \/ ranges[j].lo < id /\ ranges[j].hi < id
                         \/ id < ranges[j].lo
    BY <1>2, <1>3, <1>4, SlotFacts
  <2>2. ASSUME NEW i \in Slots', NEW j \in Slots', i # j
        PROVE  \/ ranges'[i].lo < ranges'[j].lo /\ ranges'[i].hi < ranges'[j].lo
               \/ ranges'[j].lo < ranges'[i].lo /\ ranges'[j].hi < ranges'[i].lo
    <3>1. CASE i = v
      <4>1. j \in Slots BY <3>1, <2>2, <1>11
      <4>2. QED BY <3>1, <4>1, <2>1, <1>9, <1>10
    <3>2. CASE j = v
      <4>1. i \in Slots BY <3>2, <2>2, <1>11
      <4>2. QED BY <3>2, <4>1, <2>1, <1>9, <1>10
    <3>3. CASE i # v /\ j # v
      BY <3>3, <2>2, <1>9, <1>11 DEF Shape, DisjointOK
    <3>4. QED BY <3>1, <3>2, <3>3
  <2>3. QED BY <2>2 DEF DisjointOK
<1>17. PartitionOK' BY <1>3, <1>12 DEF Shape, PartitionOK, FreeIds
<1>18. QED BY <1>12, <1>13, <1>14, <1>15, <1>16, <1>17 DEF Shape

-----------------------------------------------------------------------------
(* Each call as a whole.                                                   *)

\* As long as nothing overflows, next_id takes an identifier out of the list or
\* finds none there, and keeps the shape of the list.
LEMMA NextIdStep ==
  ASSUME Shape, NextId, ~overflowed'
  PROVE  /\ Shape'
         /\ \/ out' \in FreeIds /\ FreeIds' = FreeIds \ {out'}
            \/ out' = 0 /\ FreeIds = {} /\ FreeIds' = {}
<1>1. held' = held \cup ({out'} \ {0}) BY DEF NextId
<1>2. CASE TakeLowerBound BY <1>1, <1>2, TakeLowerBoundStep
<1>3. CASE TakeLastOfRange BY <1>1, <1>3, TakeLastOfRangeStep
<1>4. CASE TakeLastOfList BY <1>1, <1>4, TakeLastOfListStep
<1>5. QED BY <1>2, <1>3, <1>4 DEF NextId

\* return_id adds its identifier to the list and keeps its shape.
LEMMA ReturnIdStep ==
  ASSUME Shape, NEW id \in Ids, ReturnId(id)
  PROVE  /\ Shape'
         /\ id \notin FreeIds
         /\ FreeIds' = FreeIds \cup {id}
         /\ out' = out
<1>1. id \in held /\ held' = held \ {id} /\ out' = out BY DEF ReturnId
<1>2. id \notin FreeIds BY <1>1 DEF Shape, PartitionOK
<1>3. CASE GrowPrev(id) BY <1>1, <1>2, <1>3, GrowPrevStep
<1>4. CASE GrowNext(id) BY <1>1, <1>2, <1>4, GrowNextStep
<1>5. CASE InsertNode(id) BY <1>1, <1>2, <1>5, InsertNodeStep
<1>6. QED BY <1>3, <1>4, <1>5 DEF ReturnId

\* The arithmetic of return_id never overflows: the range below an identifier
\* in use ends below u16::MAX and no range begins at 0.
LEMMA ReturnIdNeverOverflows ==
  ASSUME Shape, NEW id \in held
  PROVE  ~ReturnIdOverflows(id)
<1> USE PktIdsAssumption
<1>1. TypeOK /\ RangesOK BY DEF Shape
<1>2. /\ id \in 1 .. MaxId
      /\ NextIdx(id) \in Slots
      /\ PrevIdx(id) # 0 => /\ PrevIdx(id) \in Slots
                            /\ ranges[PrevIdx(id)].hi < id
  BY WalkEnds DEF Ids
<1>3. PrevIdx(id) # 0 => ranges[PrevIdx(id)].hi # U16Max
  BY <1>1, <1>2, SlotFacts
<1>4. ranges[NextIdx(id)].lo # 0 BY <1>1, <1>2, SlotFacts DEF RangesOK
<1>5. QED BY <1>3, <1>4 DEF ReturnIdOverflows

\* An overflow is never forgotten.
LEMMA OverflowStays ==
  ASSUME overflowed \in BOOLEAN, [Next]_vars
  PROVE  overflowed' \in BOOLEAN /\ (overflowed => overflowed')
<1>1. CASE NextId
  <2>1. CASE TakeLowerBound BY <2>1 DEF TakeLowerBound
  <2>2. CASE TakeLastOfRange BY <2>2 DEF TakeLastOfRange
  <2>3. CASE TakeLastOfList
    <3>1. overflowed' = (overflowed \/ NextIdOverflows)
      BY <2>3 DEF TakeLastOfList
    <3>2. QED BY <3>1, Zenon
  <2>4. QED BY <1>1, <2>1, <2>2, <2>3 DEF NextId
<1>2. CASE NextIdPanics BY <1>2 DEF NextIdPanics
<1>3. ASSUME NEW id \in Ids, ReturnId(id)
      PROVE  overflowed' \in BOOLEAN /\ (overflowed => overflowed')
  <2>1. overflowed' = (overflowed \/ ReturnIdOverflows(id))
    BY <1>3 DEF ReturnId
  <2>2. QED BY <2>1, Zenon
<1>4. CASE UNCHANGED vars BY <1>4 DEF vars
<1>5. QED BY <1>1, <1>2, <1>3, <1>4 DEF Next

\* Every step keeps the invariant.
LEMMA NextIInv == IInv /\ [Next]_vars => IInv'
<1> SUFFICES ASSUME IInv, [Next]_vars PROVE IInv' OBVIOUS
<1>1. /\ overflowed \in BOOLEAN /\ overflowed' \in BOOLEAN
      /\ overflowed => overflowed'
  BY OverflowStays DEF IInv
<1>2. SUFFICES ASSUME ~overflowed' PROVE Shape'
  BY <1>1 DEF IInv, Shape
<1>3. Shape BY <1>1, <1>2 DEF IInv, Shape
<1>4. CASE NextId BY <1>2, <1>3, <1>4, NextIdStep
<1>5. CASE NextIdPanics BY <1>2, <1>5 DEF NextIdPanics
<1>6. ASSUME NEW id \in Ids, ReturnId(id) PROVE Shape'
  BY <1>3, <1>6, ReturnIdStep
<1>7. CASE UNCHANGED vars
  BY <1>3, <1>7 DEF vars, Shape, TypeOK, RangesOK, LinksOK, DisjointOK,
                    PartitionOK, FreeIds, Slots
<1>8. QED BY <1>4, <1>5, <1>6, <1>7 DEF Next

-----------------------------------------------------------------------------
(* The theorems.                                                           *)

\* In every reachable state of next_id and return_id, for any max and in both
\* builds, the list is well formed until some arithmetic overflows.
THEOREM InductiveInvariant == Spec => []IInv
<1>1. QED BY InitIInv, NextIInv, PTL DEF Spec

\* No identifier is lost and none is free and in use at once: pktids.rs:35-203
\* keeps, in the list, exactly what the event loop does not hold.
THEOREM PartitionHolds == Spec => []Partition
<1>1. IInv => Partition BY DEF IInv, Partition
<1>2. QED BY <1>1, InductiveInvariant, PTL

\* next_id never returns an identifier of a request that is still open.
THEOREM NoDoubleIssueHolds == Spec => NoDoubleIssue
<1>1. IInv /\ [Next]_vars => [NextId /\ ~overflowed' => out' \notin held]_vars
  <2> SUFFICES ASSUME IInv, [Next]_vars, NextId, ~overflowed'
               PROVE  out' \notin held
    OBVIOUS
  <2>1. Shape BY OverflowStays DEF IInv, Shape
  <2>2. out' \in FreeIds \/ out' = 0 BY <2>1, NextIdStep
  <2>3. held = Ids \ FreeIds BY <2>1 DEF Shape, PartitionOK
  <2>4. 0 \notin Ids BY DEF Ids
  <2>5. QED BY <2>2, <2>3, <2>4
<1>2. QED BY <1>1, InductiveInvariant, PTL DEF Spec, NoDoubleIssue

-----------------------------------------------------------------------------
(* The Vec does not grow for ever.                                         *)

\* When u16::MAX is the largest identifier no range in use is empty, so that the
\* lower bounds of the nodes are free identifiers.
LEMMA LowerBoundsFree ==
  ASSUME MaxId = U16Max, Shape
  PROVE  \A i \in Slots : ranges[i].lo \in FreeIds
<1> USE PktIdsAssumption
<1> SUFFICES ASSUME NEW i \in Slots PROVE ranges[i].lo \in FreeIds OBVIOUS
<1>1. TypeOK /\ RangesOK BY DEF Shape
<1>2. /\ ranges[i].lo \in Nat /\ ranges[i].hi \in Nat
      /\ ranges[i].lo <= MaxId /\ ranges[i].lo >= 1
  BY <1>1, SlotFacts DEF RangesOK
<1>3. ranges[i].lo <= ranges[i].hi
  <2>1. CASE ranges[i].next = 0
    <3>1. ranges[i].hi = MaxId BY <1>1, <2>1 DEF RangesOK
    <3>2. QED BY <3>1, <1>2
  <2>2. CASE ranges[i].next # 0
    <3>1. ~(ranges[i].lo > ranges[i].hi) BY <1>1, <2>2 DEF RangesOK
    <3>2. QED BY <3>1, <1>2
  <2>3. QED BY <2>1, <2>2
<1>4. ranges[i].lo \in Ids /\ ranges[i].lo <= ranges[i].lo BY <1>2 DEF Ids
<1>5. QED BY <1>3, <1>4 DEF FreeIds

\* A node is pushed only when every slot is in use, and then, one identifier
\* being in use and the ranges being disjoint, there are fewer slots than
\* identifiers.
LEMMA PushFits ==
  ASSUME MaxId = U16Max, Shape, NEW id \in held, FreeSlot > Len(ranges)
  PROVE  Len(ranges) + 1 <= MaxId
<1> USE PktIdsAssumption
<1> DEFINE len == Len(ranges)
           f == [i \in 1 .. len |-> ranges[i].lo]
<1>1. TypeOK BY DEF Shape
<1>2. len \in Nat /\ MaxId \in Nat /\ Slots \subseteq 1 .. len BY <1>1, SlotFacts
<1>3. Slots = 1 .. len
  <2>1. ASSUME NEW u \in 1 .. len, u \notin Slots PROVE FALSE
    <3>1. FreeSlot <= u /\ FreeSlot \in 1 .. len + 1 BY <1>1, <2>1, FreeSlotFacts
    <3>2. QED BY <1>2, <3>1
  <2>2. QED BY <1>2, <2>1
<1>4. id \in Ids /\ FreeIds \subseteq Ids \ {id}
  BY <1>1 DEF Shape, PartitionOK, FreeIds, TypeOK
<1>5. \A i \in 1 .. len : ranges[i].lo \in Ids \ {id}
  BY <1>3, <1>4, LowerBoundsFree
<1>6. \A i, j \in 1 .. len : ranges[i].lo = ranges[j].lo => i = j
  BY <1>1, <1>3, SlotFacts DEF Shape, DisjointOK
<1>7. f \in Injection(1 .. len, Ids \ {id})
  <2>1. f \in [1 .. len -> Ids \ {id}] BY <1>5
  <2>2. \A i, j \in 1 .. len : f[i] = f[j] => i = j BY <1>6
  <2> HIDE DEF f, len
  <2>3. QED BY <2>1, <2>2 DEF Injection, IsInjective
<1>8. /\ IsFiniteSet(Ids) /\ Cardinality(Ids) = MaxId
      /\ IsFiniteSet(1 .. len) /\ Cardinality(1 .. len) = len
  <2>1. ASSUME NEW k \in Nat
        PROVE  IsFiniteSet(1 .. k) /\ Cardinality(1 .. k) = k
    <3>1. 1 \in Int /\ k \in Int /\ (1 > k <=> k = 0) /\ k - 1 + 1 = k OBVIOUS
    <3>2. IsFiniteSet(1 .. k)
          /\ Cardinality(1 .. k) = IF 1 > k THEN 0 ELSE k - 1 + 1
      BY <3>1, FS_Interval, Zenon
    <3>3. QED BY <3>1, <3>2
  <2> HIDE DEF len
  <2>2. QED BY <1>2, <2>1 DEF Ids
<1>9. IsFiniteSet(Ids \ {id}) /\ Cardinality(Ids \ {id}) = MaxId - 1
  BY <1>4, <1>8, FS_RemoveElement
<1>10. Cardinality(1 .. len) <= Cardinality(Ids \ {id})
  <2> HIDE DEF f, len
  <2>1. QED BY <1>7, <1>9, FS_Injection
<1>11. QED BY <1>2, <1>8, <1>9, <1>10

\* The production allocator (max = u16::MAX, pktids.rs:19-21) never has more
\* nodes than identifiers: slots that next_id vacates are used again.
THEOREM VecStaysBounded ==
  ASSUME MaxId = U16Max
  PROVE  Spec => []VecBounded
<1> USE PktIdsAssumption
<1>1. Init => VecBounded
  <2> SUFFICES ASSUME Init PROVE Len(ranges) <= MaxId BY DEF VecBounded
  <2>1. Len(ranges) = 1 BY DEF Init
  <2>2. QED BY <2>1
<1>2. IInv /\ VecBounded /\ [Next]_vars => VecBounded'
  <2> SUFFICES ASSUME IInv, VecBounded, [Next]_vars, ~overflowed'
               PROVE  Len(ranges') <= MaxId
    BY DEF VecBounded
  <2>1. Shape /\ TypeOK BY OverflowStays DEF IInv, Shape
  <2>2. Len(ranges) <= MaxId BY OverflowStays DEF IInv, VecBounded
  <2>3. \A i \in DOMAIN ranges, n \in Node :
          Len([ranges EXCEPT ![i] = n]) = Len(ranges)
    BY <2>1 DEF TypeOK
  <2>4. CASE UNCHANGED ranges BY <2>2, <2>4
  <2>5. CASE Len(ranges') = Len(ranges) BY <2>2, <2>5
  <2>6. CASE NextId
    <3>1. Len(ranges') = Len(ranges)
      BY <2>1, <2>6 DEF NextId, TakeLowerBound, TakeLastOfRange, TakeLastOfList, TypeOK
    <3>2. QED BY <3>1, <2>5
  <2>7. ASSUME NEW id \in Ids, ReturnId(id) PROVE Len(ranges') <= MaxId
    <3>1. CASE GrowPrev(id)
      <4>1. Len(ranges') = Len(ranges) BY <2>1, <3>1 DEF GrowPrev, TypeOK
      <4>2. QED BY <4>1, <2>5
    <3>2. CASE GrowNext(id)
      <4>1. Len(ranges') = Len(ranges) BY <2>1, <3>2 DEF GrowNext, TypeOK
      <4>2. QED BY <4>1, <2>5
    <3>3. CASE InsertNode(id)
      <4> DEFINE with == Put(FreeSlot, Taken(id, id, NextIdx(id)))
      <4>1. ranges' = with \/ ranges' = [with EXCEPT ![PrevIdx(id)].next = FreeSlot]
        BY <3>3 DEF InsertNode
      <4>2. CASE FreeSlot > Len(ranges)
        <5>1. Len(ranges) + 1 <= MaxId BY <2>1, <2>7, <4>2, PushFits DEF ReturnId
        <5>2. with = Append(ranges, Taken(id, id, NextIdx(id))) BY <4>2 DEF Put
        <5>3. Len(ranges') = Len(ranges) + 1 BY <2>1, <4>1, <5>2 DEF TypeOK
        <5>4. QED BY <5>1, <5>3
      <4>3. CASE ~(FreeSlot > Len(ranges))
        <5>1. with = [ranges EXCEPT ![FreeSlot] = Taken(id, id, NextIdx(id))]
          BY <4>3 DEF Put
        <5>2. Len(ranges') = Len(ranges) BY <2>1, <4>1, <5>1 DEF TypeOK
        <5>3. QED BY <5>2, <2>5
      <4>4. QED BY <4>2, <4>3
    <3>4. QED BY <2>7, <3>1, <3>2, <3>3 DEF ReturnId
  <2>8. CASE NextIdPanics BY <2>4, <2>8 DEF NextIdPanics
  <2>9. CASE UNCHANGED vars BY <2>4, <2>9 DEF vars
  <2>10. QED BY <2>6, <2>7, <2>8, <2>9 DEF Next
<1>3. QED BY <1>1, <1>2, InductiveInvariant, PTL DEF Spec

-----------------------------------------------------------------------------
(* The list of ranges implements the pool.                                 *)

\* What next_id returns is the least identifier in the list.
LEMMA TakesLeast ==
  ASSUME Shape, NextId, out' \in FreeIds
  PROVE  \A i \in FreeIds : out' <= i
<1>1. out' = ranges[start].lo
  <2>1. 0 \notin Ids BY DEF Ids
  <2>2. out' # 0 BY <2>1 DEF FreeIds
  <2>3. QED
    BY <2>2 DEF NextId, TakeLowerBound, TakeLastOfRange, TakeLastOfList, First
<1>2. ASSUME NEW i \in FreeIds PROVE ranges[start].lo <= i
  <2>1. PICK j \in Slots : ranges[j].lo <= i BY DEF FreeIds
  <2>2. ranges[start].lo <= ranges[j].lo BY DEF Shape, LinksOK
  <2>3. start \in Slots /\ TypeOK /\ i \in Nat
    BY StartIsFirst DEF Shape, FreeIds, Ids
  <2>4. QED BY <2>1, <2>2, <2>3, SlotFacts
<1>3. QED BY <1>1, <1>2

\* A step without an overflow is a step of the pool.
LEMMA StepImplementsPool ==
  ASSUME Shape, ~overflowed', [Next]_vars
  PROVE  [Pool!PoolNext]_<<FreeIds, out>>
<1>1. CASE NextId
  <2>1. CASE out' \in FreeIds
    <3>1. FreeIds' = FreeIds \ {out'}
      BY <1>1, <2>1, NextIdStep
    <3>2. \A i \in FreeIds : out' <= i BY <1>1, <2>1, TakesLeast
    <3>3. FreeIds \subseteq Nat BY DEF FreeIds, Ids
    <3>4. \A i \in FreeIds : (\A j \in FreeIds : i <= j) => i = out'
      BY <2>1, <3>2, <3>3
    <3>5. out' = Pool!Lowest(FreeIds) BY <2>1, <3>2, <3>4 DEF Pool!Lowest
    <3>6. Pool!Grant BY <2>1, <3>1, <3>5 DEF Pool!Grant
    <3>7. QED BY <3>6 DEF Pool!PoolNext, Pool!TakeId
  <2>2. CASE out' \notin FreeIds
    <3>1. out' = 0 /\ FreeIds = {} /\ FreeIds' = {}
      BY <1>1, <2>2, NextIdStep
    <3>2. Pool!Refuse BY <3>1 DEF Pool!Refuse
    <3>3. QED BY <3>2 DEF Pool!PoolNext, Pool!TakeId
  <2>3. QED BY <2>1, <2>2
<1>2. CASE NextIdPanics BY <1>2 DEF NextIdPanics
<1>3. ASSUME NEW id \in Ids, ReturnId(id) PROVE Pool!PoolNext
  <2>1. Pool!GiveId(id) BY <1>3, ReturnIdStep DEF Pool!GiveId
  <2>2. QED BY <2>1 DEF Pool!PoolNext, Pool!Ids, Ids
<1>4. CASE UNCHANGED vars
  BY <1>4 DEF vars, FreeIds, Slots
<1>5. QED BY <1>1, <1>2, <1>3, <1>4 DEF Next

\* With overflow checks the allocator is a pool of identifiers that hands out
\* the lowest and refuses only when it is empty, up to the call that panics.
THEOREM Refinement ==
  ASSUME OverflowChecks = TRUE
  PROVE  Spec => ImplementsPool
<1>1. Init => Pool!PoolInit
  <2> SUFFICES ASSUME Init PROVE FreeIds = Ids /\ out = 0
    BY DEF Pool!PoolInit, Pool!Ids, Ids
  <2>1. FreeIds = Ids \ held /\ held = {} /\ out = 0
    <3>1. PartitionOK BY InitIInv DEF IInv, Init
    <3>2. QED BY <3>1 DEF PartitionOK, Init, FreeIds
  <2>2. QED BY <2>1
<1>2. IInv /\ [Next]_vars => [Pool!PoolNext]_<<FreeIds, out>>
  <2> SUFFICES ASSUME IInv, [Next]_vars
               PROVE  [Pool!PoolNext]_<<FreeIds, out>>
    OBVIOUS
  <2>1. overflowed \in BOOLEAN /\ overflowed' \in BOOLEAN
    BY OverflowStays DEF IInv
  <2>2. CASE overflowed
    <3>1. UNCHANGED vars
      BY <2>2 DEF Next, NextId, NextIdPanics, ReturnId, Panicked
    <3>2. QED BY <3>1 DEF vars, FreeIds, Slots
  <2>3. CASE ~overflowed /\ overflowed'
    <3>1. Shape BY <2>3 DEF IInv, Shape
    <3>2. CASE NextIdPanics
      BY <3>2 DEF NextIdPanics, FreeIds, Slots
    <3>3. CASE NextId
      BY <2>3, <3>3 DEF NextId, TakeLowerBound, TakeLastOfRange, TakeLastOfList
    <3>4. ASSUME NEW id \in Ids, ReturnId(id) PROVE FALSE
      <4>1. ~ReturnIdOverflows(id) BY <3>1, <3>4, ReturnIdNeverOverflows DEF ReturnId
      <4>2. overflowed' = (overflowed \/ ReturnIdOverflows(id)) BY <3>4 DEF ReturnId
      <4>3. QED BY <4>1, <4>2, <2>3, Zenon
    <3>5. CASE UNCHANGED vars BY <2>3, <3>5 DEF vars
    <3>6. QED BY <3>2, <3>3, <3>4, <3>5 DEF Next
  <2>4. CASE ~overflowed'
    <3>1. Shape BY <2>4, OverflowStays DEF IInv, Shape
    <3>2. QED BY <3>1, <2>4, StepImplementsPool
  <2>5. QED BY <2>1, <2>2, <2>3, <2>4
<1>3. QED
  BY <1>1, <1>2, InductiveInvariant, PTL
  DEF Spec, ImplementsPool, Pool!PoolSpec, Pool!poolVars
-----------------------------------------------------------------------------
(* Stray acknowledgements.                                                 *)

\* Node i is in use and its range has the identifier k.
Holds(i, k) == i \in Slots /\ ranges[i].lo <= k /\ k <= ranges[i].hi

\* No range is empty, and one without a successor ends at max.
FullOK ==
  \A i \in Slots :
    /\ 1 <= ranges[i].lo
    /\ ranges[i].lo <= ranges[i].hi
    /\ ranges[i].next = 0 => ranges[i].hi = MaxId

\* The nodes are linked as a list, in whatever order: none leads to the head,
\* no two lead to the same node, and none to itself on whatever way.
ChainOK ==
  /\ \A i \in Slots : ranges[i].next \in (Slots \cup {0}) \ {start}
  /\ \A i, j \in Slots :
       ranges[i].next = ranges[j].next /\ ranges[i].next # 0 => i = j
  /\ \E rank \in [Slots -> Nat] :
       \A i \in Slots : ranges[i].next # 0 => rank[ranges[i].next] < rank[i]

\* What is not in use is in the list, and only identifiers that have strayed
\* are in both, or in the list twice.
DamageOK ==
  /\ Ids \ held \subseteq FreeIds
  /\ held \cap FreeIds \subseteq strayed
  /\ \A k \in Ids : \A i, j \in Slots :
       Holds(i, k) /\ Holds(j, k) => i = j \/ k \in strayed

StrayShape == TypeOK /\ FullOK /\ ChainOK /\ DamageOK

\* Several requests hold an identifier only if it has strayed.
DoubledOK ==
  /\ doubled \in [Ids -> Nat]
  /\ \A id \in Ids : doubled[id] > 0 => id \in held /\ id \in strayed

\* The inductive invariant of the allocator with stray acknowledgements.
StrayInv ==
  /\ overflowed \in BOOLEAN
  /\ strayed \subseteq Ids
  /\ ~overflowed => StrayShape /\ DoubledOK

\* Initially one range holds all identifiers.
LEMMA StrayInitInv == StrayInit => StrayInv
<1> SUFFICES ASSUME StrayInit PROVE StrayInv OBVIOUS
<1>1. overflowed = FALSE /\ strayed = {} /\ ranges = <<Taken(1, MaxId, 0)>> /\ start = 1
  BY DEF StrayInit, Init
<1>2. TypeOK /\ PartitionOK BY <1>1, InitIInv DEF StrayInit, IInv
<1>3. /\ Slots = {1} /\ ranges[1].next = 0
      /\ ranges[1].lo = 1 /\ ranges[1].hi = MaxId
  BY <1>1 DEF Slots, Taken
<1>4. FullOK BY <1>3, PktIdsAssumption DEF FullOK
<1>5. ChainOK
  <2>1. \E rank \in [Slots -> Nat] :
          \A i \in Slots : ranges[i].next # 0 => rank[ranges[i].next] < rank[i]
    <3>1. [i \in Slots |-> 0] \in [Slots -> Nat] OBVIOUS
    <3>2. \A i \in Slots : ranges[i].next = 0 BY <1>3
    <3>3. QED BY <3>1, <3>2, Zenon
  <2>2. QED BY <1>1, <1>3, <2>1 DEF ChainOK
<1>6. DamageOK
  <2>1. held = {} BY DEF StrayInit, Init
  <2>2. QED BY <1>2, <1>3, <2>1 DEF PartitionOK, DamageOK
<1>7. DoubledOK BY DEF StrayInit, DoubledOK
<1>8. QED BY <1>1, <1>2, <1>4, <1>5, <1>6, <1>7 DEF StrayInv, StrayShape

\* One identifier leaves the first range, for a request.
LEMMA TakesOne ==
  ASSUME DamageOK, start \in Slots, Slots' \subseteq Slots,
         NEW id \in Ids, Holds(start, id),
         \A k \in Ids : \A i \in Slots :
           Holds(i, k)' <=> Holds(i, k) /\ ~(i = start /\ k = id),
         held' = held \cup {id}, strayed' = strayed
  PROVE  DamageOK'
<1>1. FreeIds = {k \in Ids : \E i \in Slots : Holds(i, k)} BY DEF FreeIds, Holds
<1>2. FreeIds' = {k \in Ids : \E i \in Slots : Holds(i, k)'}
  <2>1. FreeIds' = {k \in Ids : \E i \in Slots' : Holds(i, k)'}
    BY DEF FreeIds, Holds
  <2>2. \A k, i : Holds(i, k)' => i \in Slots' BY DEF Holds
  <2>3. QED BY <2>1, <2>2
<1>3. ASSUME NEW k \in Ids \ held' PROVE k \in FreeIds'
  <2>1. k \in FreeIds /\ k # id BY <1>3 DEF DamageOK
  <2>2. QED BY <1>1, <1>2, <2>1
<1>4. ASSUME NEW k \in held' \cap FreeIds' PROVE k \in strayed'
  <2>1. PICK i \in Slots : Holds(i, k) /\ ~(i = start /\ k = id) BY <1>4, <1>2
  <2>2. k \in Ids /\ k \in FreeIds BY <1>1, <1>2, <1>4, <2>1
  <2>3. QED BY <1>4, <2>1, <2>2 DEF DamageOK
<1>5. \A k \in Ids : \A i, j \in Slots' :
        Holds(i, k)' /\ Holds(j, k)' => i = j \/ k \in strayed'
  BY DEF DamageOK
<1>6. QED BY <1>3, <1>4, <1>5 DEF DamageOK

\* One identifier enters one range, because its request has ended or because a
\* stray acknowledgement named it.
LEMMA ReturnsOne ==
  ASSUME DamageOK, NEW id \in Ids, NEW g \in Slots', Slots \subseteq Slots',
         \A k \in Ids : \A i \in Slots' :
           Holds(i, k)' <=> Holds(i, k) \/ (i = g /\ k = id),
         \/ id \in held /\ held' = held \ {id} /\ strayed' = strayed
         \/ held' = held /\ strayed' = strayed \cup {id}
  PROVE  DamageOK'
<1>1. FreeIds = {k \in Ids : \E i \in Slots' : Holds(i, k)} BY DEF FreeIds, Holds
<1>2. FreeIds' = {k \in Ids : \E i \in Slots' : Holds(i, k)'} BY DEF FreeIds, Holds
<1>3. FreeIds' = FreeIds \cup {id} BY <1>1, <1>2
<1>4. Ids \ held' \subseteq FreeIds' BY <1>3 DEF DamageOK
<1>5. held' \cap FreeIds' \subseteq strayed' BY <1>3 DEF DamageOK
<1>6. ASSUME NEW k \in Ids, NEW i \in Slots', NEW j \in Slots',
             Holds(i, k)', Holds(j, k)', i # j
      PROVE  k \in strayed'
  <2>1. CASE Holds(i, k) /\ Holds(j, k)
    <3>1. i \in Slots /\ j \in Slots BY <2>1 DEF Holds
    <3>2. QED BY <2>1, <3>1, <1>6 DEF DamageOK
  <2>2. CASE k = id /\ (Holds(i, k) \/ Holds(j, k))
    <3>1. k \in FreeIds BY <2>2, <1>1
    <3>2. QED BY <2>2, <3>1 DEF DamageOK
  <2>3. QED BY <1>6, <2>1, <2>2
<1>7. QED BY <1>4, <1>5, <1>6 DEF DamageOK

\* Bounds may change as long as the links do not.
LEMMA SameLinks ==
  ASSUME ChainOK, Slots' = Slots, start' = start,
         \A i \in Slots : ranges'[i].next = ranges[i].next
  PROVE  ChainOK'
<1>1. \A i \in Slots' : ranges'[i].next \in (Slots' \cup {0}) \ {start'}
  BY DEF ChainOK
<1>2. \A i, j \in Slots' :
        ranges'[i].next = ranges'[j].next /\ ranges'[i].next # 0 => i = j
  BY DEF ChainOK
<1>3. PICK rank \in [Slots -> Nat] :
        \A i \in Slots : ranges[i].next # 0 => rank[ranges[i].next] < rank[i]
  BY DEF ChainOK
<1>4. \E r \in [Slots' -> Nat] :
        \A i \in Slots' : ranges'[i].next # 0 => r[ranges'[i].next] < r[i]
  BY <1>3
<1>5. QED BY <1>1, <1>2, <1>4 DEF ChainOK

\* next_id takes the lower bound of the first range.
LEMMA StrayTakesBound ==
  ASSUME StrayShape, TakeLowerBound, held' = held \cup ({out'} \ {0}),
         strayed' = strayed, MaxId = U16Max
  PROVE  StrayShape'
<1> USE PktIdsAssumption
<1> DEFINE lo == ranges[start].lo
<1>1. /\ lo < ranges[start].hi /\ out' = lo /\ start' = start
      /\ ranges' = [ranges EXCEPT ![start].lo = lo + 1]
  BY DEF TakeLowerBound, First
<1>2. TypeOK /\ start \in Slots BY DEF StrayShape, TypeOK
<1>3. /\ DOMAIN ranges' = DOMAIN ranges
      /\ \A i \in DOMAIN ranges :
           /\ ranges'[i].lo = IF i = start THEN lo + 1 ELSE ranges[i].lo
           /\ ranges'[i].hi = ranges[i].hi
           /\ ranges'[i].next = ranges[i].next
           /\ ranges'[i].taken = ranges[i].taken
  BY <1>1, <1>2, SlotFacts DEF Node, TypeOK
<1>4. Slots' = Slots BY <1>3 DEF Slots
<1>5. lo \in Ids /\ lo + 1 \in U16 /\ lo # 0
  BY <1>1, <1>2, SlotFacts DEF StrayShape, FullOK, U16, Ids
<1>6. TypeOK'
  <2>1. [ranges[start] EXCEPT !.lo = lo + 1] \in Node
    BY <1>2, <1>5, SlotFacts DEF Node
  <2>2. ranges' \in Seq(Node) BY <1>1, <1>2, <2>1, SlotFacts DEF TypeOK
  <2>3. QED BY <2>2, <1>1, <1>2, <1>4, <1>5 DEF TypeOK, U16, Ids
<1>7. FullOK' BY <1>1, <1>2, <1>3, <1>4, SlotFacts DEF StrayShape, FullOK
<1>8. ChainOK'
  <2>1. \A i \in Slots : ranges'[i].next = ranges[i].next BY <1>2, <1>3, SlotFacts
  <2>2. QED BY <2>1, <1>1, <1>4, SameLinks DEF StrayShape
<1>9. Holds(start, lo) BY <1>1, <1>2, SlotFacts DEF Holds
<1>10. \A k \in Ids : \A i \in Slots :
         Holds(i, k)' <=> Holds(i, k) /\ ~(i = start /\ k = lo)
  BY <1>1, <1>2, <1>3, <1>4, <1>5, SlotFacts DEF Holds, Ids
<1>11. held' = held \cup {lo} BY <1>1, <1>5
<1> HIDE DEF lo
<1>12. DamageOK'
  BY <1>2, <1>4, <1>5, <1>9, <1>10, <1>11, TakesOne DEF StrayShape
<1>13. QED BY <1>1, <1>6, <1>7, <1>8, <1>12 DEF StrayShape

\* next_id takes the last identifier of the first range and vacates its slot.
LEMMA StrayTakesRange ==
  ASSUME StrayShape, TakeLastOfRange, held' = held \cup ({out'} \ {0}),
         strayed' = strayed, MaxId = U16Max
  PROVE  StrayShape'
<1> USE PktIdsAssumption
<1> DEFINE lo == ranges[start].lo
           n == ranges[start].next
<1>1. /\ lo >= ranges[start].hi /\ out' = lo /\ start' = n
      /\ ranges' = [ranges EXCEPT ![start] = Vacant]
      /\ n \in Slots
  BY DEF TakeLastOfRange, First, IsTaken, Slots
<1>2. TypeOK /\ start \in Slots BY DEF StrayShape, TypeOK
<1>3. lo = ranges[start].hi /\ lo \in Ids /\ lo # 0
  BY <1>1, <1>2, SlotFacts DEF StrayShape, FullOK, Ids
<1>4. n # start /\ n # 0
  BY <1>1, <1>2, SlotFacts DEF StrayShape, ChainOK
<1>5. /\ DOMAIN ranges' = DOMAIN ranges
      /\ ranges'[start] = Vacant
      /\ \A i \in DOMAIN ranges \ {start} : ranges'[i] = ranges[i]
  BY <1>1, <1>2, SlotFacts
<1>6. Slots' = Slots \ {start} BY <1>5 DEF Slots, Vacant
<1>7. \A i \in Slots' : i \in Slots /\ ranges'[i] = ranges[i]
  BY <1>2, <1>5, <1>6, SlotFacts
<1>8. TypeOK'
  <2>1. Vacant \in Node BY DEF Vacant, Node, U16
  <2>2. ranges' \in Seq(Node) BY <1>1, <1>2, <2>1, SlotFacts DEF TypeOK
  <2>3. start' \in Slots' BY <1>1, <1>4, <1>6
  <2>4. out' \in U16 BY <1>1, <1>3 DEF U16, Ids
  <2>5. held' \in SUBSET Ids BY <1>1, <1>2, <1>3 DEF TypeOK
  <2>6. QED BY <2>2, <2>3, <2>4, <2>5 DEF TypeOK
<1>9. FullOK' BY <1>7 DEF StrayShape, FullOK
<1>10. ChainOK'
  <2>1. \A i \in Slots' : ranges'[i].next \in (Slots' \cup {0}) \ {start'}
    <3>1. SUFFICES ASSUME NEW i \in Slots'
                   PROVE  ranges[i].next \in (Slots' \cup {0}) \ {n}
      BY <1>1, <1>7
    <3>2. i \in Slots /\ i # start BY <1>6
    <3>3. ranges[i].next \in (Slots \cup {0}) \ {start}
      BY <3>2 DEF StrayShape, ChainOK
    <3>4. ranges[i].next # n BY <3>2, <1>2, <1>4 DEF StrayShape, ChainOK
    <3>5. QED BY <3>3, <3>4, <1>6
  <2>2. \A i, j \in Slots' :
          ranges'[i].next = ranges'[j].next /\ ranges'[i].next # 0 => i = j
    BY <1>7 DEF StrayShape, ChainOK
  <2>3. PICK rank \in [Slots -> Nat] :
          \A i \in Slots : ranges[i].next # 0 => rank[ranges[i].next] < rank[i]
    BY DEF StrayShape, ChainOK
  <2> DEFINE r == [i \in Slots' |-> rank[i]]
  <2>4. r \in [Slots' -> Nat] BY <1>6
  <2>5. \A i \in Slots' : ranges'[i].next # 0 => r[ranges'[i].next] < r[i]
    <3>1. SUFFICES ASSUME NEW i \in Slots', ranges'[i].next # 0
                   PROVE  r[ranges'[i].next] < r[i]
      OBVIOUS
    <3>2. ranges'[i].next \in Slots' BY <3>1, <2>1
    <3>3. rank[ranges'[i].next] < rank[i] BY <3>1, <1>7, <2>3
    <3>4. QED BY <3>2, <3>3
  <2> HIDE DEF r
  <2>6. QED BY <2>1, <2>2, <2>4, <2>5 DEF ChainOK
<1>11. Holds(start, lo) BY <1>2, <1>3, SlotFacts DEF Holds
<1>12. \A k \in Ids : \A i \in Slots :
         Holds(i, k)' <=> Holds(i, k) /\ ~(i = start /\ k = lo)
  <2>1. SUFFICES ASSUME NEW k \in Ids, NEW i \in Slots
                 PROVE  Holds(i, k)' <=> Holds(i, k) /\ ~(i = start /\ k = lo)
    OBVIOUS
  <2>2. CASE i = start
    <3>1. ~ Holds(i, k)' BY <2>2, <1>6 DEF Holds
    <3>2. Holds(i, k) => k = lo BY <2>2, <1>2, <1>3, SlotFacts DEF Holds, Ids
    <3>3. QED BY <2>2, <3>1, <3>2
  <2>3. CASE i # start
    <3>1. Holds(i, k)' <=> Holds(i, k) BY <2>3, <1>6, <1>7 DEF Holds
    <3>2. QED BY <2>3, <3>1
  <2>4. QED BY <2>2, <2>3
<1>13. held' = held \cup {lo} BY <1>1, <1>3
<1> HIDE DEF lo
<1>14. DamageOK'
  <2>1. Slots' \subseteq Slots BY <1>6
  <2>2. QED BY <2>1, <1>2, <1>3, <1>11, <1>12, <1>13, TakesOne DEF StrayShape
<1>15. QED BY <1>1, <1>8, <1>9, <1>10, <1>14 DEF StrayShape

\* Where next_id finds the list down to its last identifier, which is the
\* greatest, it overflows.
LEMMA StrayLastOverflows ==
  ASSUME StrayShape, TakeLastOfList, MaxId = U16Max
  PROVE  overflowed'
<1>1. TypeOK /\ start \in Slots BY DEF StrayShape, TypeOK
<1>2. ranges[start].lo >= ranges[start].hi /\ ~IsTaken(ranges[start].next)
  BY DEF TakeLastOfList, First
<1>3. ranges[start].next = 0
  BY <1>1, <1>2, SlotFacts DEF StrayShape, ChainOK, IsTaken, Slots
<1>4. ranges[start].hi = U16Max /\ ranges[start].lo <= ranges[start].hi
  BY <1>1, <1>3 DEF StrayShape, FullOK
<1>5. ranges[start].lo = U16Max BY <1>1, <1>2, <1>4, SlotFacts, PktIdsAssumption
<1>6. NextIdOverflows BY <1>2, <1>5 DEF NextIdOverflows, First
<1>7. QED BY <1>6 DEF TakeLastOfList

\* The walk of return_id ends on the way along any such list, at a node that is
\* no sentinel: one range without a successor ends at u16::MAX, and the
\* identifier above it would have overflowed.
LEMMA StrayWalkEnds ==
  ASSUME StrayShape, NEW id \in Ids, ~ReturnIdOverflows(id), MaxId = U16Max
  PROVE  /\ NextIdx(id) \in Slots
         /\ PrevIdx(id) = 0 => NextIdx(id) = start
         /\ PrevIdx(id) # 0 => /\ PrevIdx(id) \in Slots
                               /\ ranges[PrevIdx(id)].next = NextIdx(id)
<1>1. TypeOK /\ start \in Slots BY DEF StrayShape, TypeOK
<1>2. Passed(id) \subseteq Slots BY PassedFacts DEF Below
<1>3. CASE Passed(id) = {}
  BY <1>1, <1>3 DEF PrevIdx, NextIdx
<1>4. CASE Passed(id) # {}
  <2>1. PICK rank \in [Slots -> Nat] :
          \A i \in Slots : ranges[i].next # 0 => rank[ranges[i].next] < rank[i]
    BY DEF StrayShape, ChainOK
  <2> DEFINE R == {rank[i] : i \in Passed(id)}
  <2>2. R \in SUBSET Nat /\ R # {} BY <1>2, <1>4, <2>1
  <2>3. \E m \in R : \A k \in R : m <= k
    <3> HIDE DEF R
    <3> QED BY <2>2, LeastNat
  <2>4. PICK g \in Passed(id) : \A i \in Passed(id) : rank[g] <= rank[i] BY <2>3
  <2>5. ranges[g].next \notin Below(id)
    <3>1. SUFFICES ASSUME ranges[g].next \in Below(id) PROVE FALSE OBVIOUS
    <3>2. ranges[g].next \in Passed(id) BY <3>1, PassedFacts
    <3>3. g \in Slots /\ ranges[g].next \in Slots /\ ranges[g].next # 0
      BY <1>1, <1>2, <3>2, SlotFacts
    <3>4. rank[ranges[g].next] < rank[g] BY <2>1, <3>3
    <3>5. rank[g] \in Nat /\ rank[ranges[g].next] \in Nat BY <2>1, <3>3
    <3>6. QED BY <2>4, <3>2, <3>4, <3>5
  <2> DEFINE p == PrevIdx(id)
  <2>6. p \in Passed(id) BY <1>4, <2>5 DEF PrevIdx
  <2>7. p \in Slots /\ p # 0 BY <1>1, <1>2, <2>6, SlotFacts
  <2>8. NextIdx(id) = ranges[p].next BY <2>7 DEF NextIdx
  <2>9. ranges[p].hi # U16Max BY <2>7 DEF ReturnIdOverflows
  <2>10. ranges[p].next \in Slots
    BY <2>7, <2>9 DEF StrayShape, ChainOK, FullOK
  <2>11. QED BY <2>7, <2>8, <2>10
<1>5. QED BY <1>3, <1>4

\* return_id extends the range before or the range after.
LEMMA StrayGrows ==
  ASSUME StrayShape, NEW id \in Ids, ~ReturnIdOverflows(id), MaxId = U16Max,
         GrowPrev(id) \/ GrowNext(id), out' = out,
         \/ id \in held /\ held' = held \ {id} /\ strayed' = strayed
         \/ held' = held /\ strayed' = strayed \cup {id}
  PROVE  StrayShape'
<1> USE PktIdsAssumption
<1> DEFINE p == PrevIdx(id)
           n == NextIdx(id)
<1>1. TypeOK /\ id \in Nat /\ 1 <= id /\ id <= U16Max
  BY DEF StrayShape, Ids
<1>2. /\ n \in Slots
      /\ p # 0 => p \in Slots /\ ranges[p].next = n
  BY StrayWalkEnds
<1>3. \E g \in Slots :
        /\ start' = start
        /\ \/ ranges' = [ranges EXCEPT ![g].hi = id] /\ id = ranges[g].hi + 1
              /\ ranges[g].next # 0
           \/ ranges' = [ranges EXCEPT ![g].lo = id] /\ ranges[g].lo = id + 1
  <2>1. CASE GrowPrev(id)
    <3>1. /\ p # 0 /\ Inc(ranges[p].hi) = id /\ start' = start
          /\ ranges' = [ranges EXCEPT ![p].hi = id]
      BY <2>1 DEF GrowPrev, ExtendsPrev
    <3> HIDE DEF p, n
    <3>2. p \in Slots /\ ranges[p].next # 0 BY <1>1, <1>2, <3>1, SlotFacts
    <3>3. id = ranges[p].hi + 1 BY <1>1, <3>1 DEF Inc
    <3>4. QED BY <3>1, <3>2, <3>3
  <2>2. CASE GrowNext(id)
    <3>1. /\ Dec(ranges[n].lo) = id /\ start' = start
          /\ ranges' = [ranges EXCEPT ![n].lo = id]
      BY <2>2 DEF GrowNext, ExtendsNext
    <3> HIDE DEF p, n
    <3>2. ranges[n].lo = id + 1
      BY <1>1, <1>2, <3>1, SlotFacts DEF Dec, StrayShape, FullOK
    <3>3. QED BY <1>2, <3>1, <3>2
  <2>3. QED BY <2>1, <2>2
<1> HIDE DEF p, n
<1>4. PICK g \in Slots :
        /\ start' = start
        /\ \/ ranges' = [ranges EXCEPT ![g].hi = id] /\ id = ranges[g].hi + 1
              /\ ranges[g].next # 0
           \/ ranges' = [ranges EXCEPT ![g].lo = id] /\ ranges[g].lo = id + 1
  BY <1>3
<1>5. /\ DOMAIN ranges' = DOMAIN ranges
      /\ \A i \in DOMAIN ranges \ {g} : ranges'[i] = ranges[i]
      /\ ranges'[g].next = ranges[g].next /\ ranges'[g].taken
      /\ \/ /\ ranges'[g].hi = id /\ id = ranges[g].hi + 1 /\ ranges[g].next # 0
            /\ ranges'[g].lo = ranges[g].lo
         \/ /\ ranges'[g].lo = id /\ ranges[g].lo = id + 1
            /\ ranges'[g].hi = ranges[g].hi
      /\ ranges'[g] \in Node
  BY <1>1, <1>4, SlotFacts DEF Node, U16
<1>6. Slots' = Slots BY <1>5, <1>1, SlotFacts DEF Slots
<1>7. \A i \in Slots \ {g} : ranges'[i] = ranges[i] BY <1>1, <1>5, SlotFacts
<1>8. TypeOK'
  <2>1. ranges' \in Seq(Node)
    <3>1. ranges \in Seq(Node) /\ g \in DOMAIN ranges /\ ranges'[g] \in Node
      BY <1>1, <1>5, SlotFacts DEF TypeOK
    <3>2. ranges' = [ranges EXCEPT ![g] = ranges'[g]] BY <1>4, <3>1
    <3>3. QED BY <3>1, <3>2
  <2>2. QED BY <2>1, <1>1, <1>4, <1>6 DEF TypeOK
<1>9. FullOK'
  <2>1. ASSUME NEW i \in Slots
        PROVE  /\ 1 <= ranges'[i].lo /\ ranges'[i].lo <= ranges'[i].hi
               /\ ranges'[i].next = 0 => ranges'[i].hi = MaxId
    <3>1. /\ 1 <= ranges[i].lo /\ ranges[i].lo <= ranges[i].hi
          /\ ranges[i].next = 0 => ranges[i].hi = MaxId
      BY DEF StrayShape, FullOK
    <3>2. CASE i = g BY <3>1, <3>2, <1>1, <1>5, SlotFacts
    <3>3. CASE i # g BY <3>1, <3>3, <1>7
    <3>4. QED BY <3>2, <3>3
  <2>2. QED BY <2>1, <1>6 DEF FullOK
<1>10. ChainOK'
  <2>1. \A i \in Slots : ranges'[i].next = ranges[i].next BY <1>5, <1>7
  <2>2. QED BY <2>1, <1>4, <1>6, SameLinks DEF StrayShape
<1>11. \A k \in Ids : \A i \in Slots' :
         Holds(i, k)' <=> Holds(i, k) \/ (i = g /\ k = id)
  <2>1. SUFFICES ASSUME NEW k \in Ids, NEW i \in Slots
                 PROVE  Holds(i, k)' <=> Holds(i, k) \/ (i = g /\ k = id)
    BY <1>6
  <2>2. CASE i = g
    <3>1. ranges[g].lo <= ranges[g].hi BY DEF StrayShape, FullOK
    <3>2. ranges'[g].lo <= k /\ k <= ranges'[g].hi
          <=> k = id \/ (ranges[g].lo <= k /\ k <= ranges[g].hi)
      <4>1. ranges[g].lo \in Nat /\ ranges[g].hi \in Nat /\ k \in Nat
        BY <1>1, SlotFacts DEF Ids
      <4>2. \/ ranges'[g].hi = ranges[g].hi + 1 /\ id = ranges[g].hi + 1
               /\ ranges'[g].lo = ranges[g].lo
            \/ ranges'[g].lo = id /\ ranges[g].lo = id + 1
               /\ ranges'[g].hi = ranges[g].hi
        BY <1>5
      <4>3. QED BY <3>1, <4>1, <4>2, <1>1
    <3>3. QED BY <2>2, <3>2, <1>6 DEF Holds
  <2>3. CASE i # g BY <2>3, <1>6, <1>7 DEF Holds
  <2>4. QED BY <2>2, <2>3
<1>12. DamageOK'
  BY <1>6, <1>11, ReturnsOne DEF StrayShape
<1>13. QED BY <1>8, <1>9, <1>10, <1>12 DEF StrayShape

\* return_id inserts a node.  Its rank lies between that of the node before,
\* whose successor it becomes, and that of the node after.
LEMMA StrayInserts ==
  ASSUME StrayShape, NEW id \in Ids, ~ReturnIdOverflows(id), MaxId = U16Max,
         InsertNode(id), out' = out,
         \/ id \in held /\ held' = held \ {id} /\ strayed' = strayed
         \/ held' = held /\ strayed' = strayed \cup {id}
  PROVE  StrayShape'
<1> DEFINE p == PrevIdx(id)
           n == NextIdx(id)
           v == FreeSlot
<1>1. TypeOK /\ start \in Slots /\ id \in Nat /\ 1 <= id
  BY DEF StrayShape, TypeOK, Ids
<1>2. /\ n \in Slots
      /\ p = 0 => n = start
      /\ p # 0 => p \in Slots /\ ranges[p].next = n
  BY StrayWalkEnds
<1>3. v \notin Slots /\ v \in Nat /\ v # 0 BY <1>1, <1>2, InsertsNode
<1>4. start' = IF p = 0 THEN v ELSE start BY <1>1, <1>2, InsertsNode
<1>5. ranges' \in Seq(Node) BY <1>1, <1>2, InsertsNode
<1>6. \A i \in Slots :
        /\ ranges'[i].lo = ranges[i].lo /\ ranges'[i].hi = ranges[i].hi
        /\ ranges'[i].next = IF p # 0 /\ i = p THEN v ELSE ranges[i].next
  BY <1>1, <1>2, InsertsNode
<1>7. /\ ranges'[v].lo = id /\ ranges'[v].hi = id /\ ranges'[v].next = n
  BY <1>1, <1>2, InsertsNode
<1>8. Slots' = Slots \cup {v} BY <1>1, <1>2, InsertsNode
<1> HIDE DEF p, n, v
<1>9. TypeOK' BY <1>1, <1>4, <1>5, <1>8 DEF TypeOK
<1>10. n # 0 /\ n # v /\ 0 \notin Slots BY <1>1, <1>2, <1>3, SlotFacts
<1>11. FullOK'
  <2>1. ASSUME NEW i \in Slots
        PROVE  /\ 1 <= ranges'[i].lo /\ ranges'[i].lo <= ranges'[i].hi
               /\ ranges'[i].next = 0 => ranges'[i].hi = MaxId
    BY <1>3, <1>6 DEF StrayShape, FullOK
  <2>2. /\ 1 <= ranges'[v].lo /\ ranges'[v].lo <= ranges'[v].hi
        /\ ranges'[v].next # 0
    BY <1>1, <1>7, <1>10
  <2>3. QED BY <2>1, <2>2, <1>8 DEF FullOK
<1>12. ChainOK'
  <2>1. /\ \A i \in Slots : ranges[i].next \in (Slots \cup {0}) \ {start}
        /\ \A i, j \in Slots :
             ranges[i].next = ranges[j].next /\ ranges[i].next # 0 => i = j
    BY DEF StrayShape, ChainOK
  <2>2. \A i \in Slots' : ranges'[i].next \in (Slots' \cup {0}) \ {start'}
    <3>1. ASSUME NEW i \in Slots
          PROVE  ranges'[i].next \in (Slots' \cup {0}) \ {start'}
      BY <2>1, <1>1, <1>3, <1>4, <1>6, <1>8
    <3>2. ranges'[v].next \in (Slots' \cup {0}) \ {start'}
      BY <2>1, <1>2, <1>4, <1>7, <1>8, <1>10
    <3>3. QED BY <3>1, <3>2, <1>8
  <2>3. \A i, j \in Slots' :
          ranges'[i].next = ranges'[j].next /\ ranges'[i].next # 0 => i = j
    <3>1. ASSUME NEW i \in Slots, NEW j \in Slots,
                 ranges'[i].next = ranges'[j].next, ranges'[i].next # 0
          PROVE  i = j
      BY <3>1, <2>1, <1>3, <1>6, <1>10
    <3>2. ASSUME NEW i \in Slots PROVE ranges'[i].next # n
      BY <2>1, <1>2, <1>6, <1>10
    <3>3. QED BY <3>1, <3>2, <1>7, <1>8
  <2>4. PICK rank \in [Slots -> Nat] :
          \A i \in Slots : ranges[i].next # 0 => rank[ranges[i].next] < rank[i]
    BY DEF StrayShape, ChainOK
  <2> DEFINE r == [i \in Slots' |-> IF i = v THEN 2 * rank[n] + 2 ELSE 2 * rank[i] + 1]
  <2>5. \A i \in Slots : rank[i] \in Nat BY <2>4
  <2>6. /\ r \in [Slots' -> Nat]
        /\ r[v] = 2 * rank[n] + 2
        /\ \A i \in Slots : r[i] = 2 * rank[i] + 1
    BY <2>5, <1>2, <1>3, <1>8
  <2> HIDE DEF r
  <2>7. ASSUME NEW i \in Slots, ranges'[i].next # 0
        PROVE  r[ranges'[i].next] < r[i]
    <3>1. CASE p # 0 /\ i = p
      <4>1. ranges'[i].next = v /\ rank[n] < rank[i]
        BY <3>1, <2>4, <1>2, <1>6, <1>10
      <4>2. QED BY <4>1, <2>5, <2>6, <1>2
    <3>2. CASE ~(p # 0 /\ i = p)
      <4>1. /\ ranges'[i].next = ranges[i].next
            /\ ranges[i].next \in Slots
        BY <3>2, <2>1, <2>7, <1>6
      <4>2. rank[ranges[i].next] < rank[i] BY <4>1, <2>4, <2>7
      <4>3. QED BY <4>1, <4>2, <2>5, <2>6
    <3>3. QED BY <3>1, <3>2
  <2>8. r[ranges'[v].next] < r[v] BY <2>5, <2>6, <1>2, <1>7
  <2>9. \E s \in [Slots' -> Nat] :
          \A i \in Slots' : ranges'[i].next # 0 => s[ranges'[i].next] < s[i]
    BY <2>6, <2>7, <2>8, <1>8
  <2>10. QED BY <2>2, <2>3, <2>9 DEF ChainOK
<1>13. \A k \in Ids : \A i \in Slots' :
         Holds(i, k)' <=> Holds(i, k) \/ (i = v /\ k = id)
  <2>1. SUFFICES ASSUME NEW k \in Ids, NEW i \in Slots'
                 PROVE  Holds(i, k)' <=> Holds(i, k) \/ (i = v /\ k = id)
    OBVIOUS
  <2>2. CASE i = v
    <3>1. Holds(i, k)' <=> k = id BY <2>2, <1>1, <1>7, <1>8 DEF Holds, Ids
    <3>2. ~ Holds(i, k) BY <2>2, <1>3 DEF Holds
    <3>3. QED BY <2>2, <3>1, <3>2
  <2>3. CASE i # v BY <2>3, <1>6, <1>8 DEF Holds
  <2>4. QED BY <2>2, <2>3
<1>14. DamageOK'
  <2>1. v \in Slots' /\ Slots \subseteq Slots' BY <1>8
  <2>2. QED BY <2>1, <1>13, ReturnsOne DEF StrayShape
<1>15. QED BY <1>9, <1>11, <1>12, <1>14 DEF StrayShape

\* next_id issues an identifier of the first range, so that it is in use only if
\* it has strayed.
LEMMA IssuesStrayed ==
  ASSUME MaxId = U16Max, StrayInv, NextId, ~overflowed'
  PROVE  out' \in held => out' \in strayed
<1>1. StrayShape
  BY DEF StrayInv, NextId, TakeLowerBound, TakeLastOfRange, TakeLastOfList
<1>2. TypeOK /\ start \in Slots BY <1>1 DEF StrayShape, TypeOK
<1>3. out' = ranges[start].lo
  BY <1>1, StrayLastOverflows DEF NextId, TakeLowerBound, TakeLastOfRange, First
<1>4. ranges[start].lo <= ranges[start].hi BY <1>1, <1>2 DEF StrayShape, FullOK
<1>5. out' \in held => out' \in FreeIds
  BY <1>2, <1>3, <1>4, SlotFacts DEF TypeOK, FreeIds
<1>6. QED BY <1>1, <1>5 DEF StrayShape, DamageOK

\* An acknowledgement, asked for or not, keeps the invariant.
LEMMA StrayReturns ==
  ASSUME MaxId = U16Max, StrayInv, NEW id \in Ids,
         ReturnLast(id) \/ ReturnOneOf(id) \/ StrayReturn(id)
  PROVE  StrayInv'
<1>1. /\ GrowPrev(id) \/ GrowNext(id) \/ InsertNode(id)
      /\ overflowed' = (overflowed \/ ReturnIdOverflows(id))
      /\ out' = out
  BY DEF ReturnLast, ReturnId, ReturnOneOf, StrayReturn, Return
<1>2. overflowed' \in BOOLEAN /\ strayed' \subseteq Ids
  <2>1. overflowed' \in BOOLEAN BY <1>1, Zenon DEF StrayInv
  <2>2. strayed' = strayed \/ strayed' = strayed \cup {id}
    BY DEF ReturnLast, ReturnOneOf, StrayReturn
  <2>3. strayed' \subseteq Ids BY <2>2 DEF StrayInv
  <2>4. QED BY <2>1, <2>3
<1>3. ASSUME ~overflowed' PROVE StrayShape' /\ DoubledOK'
  <2>1. ~overflowed /\ ~ReturnIdOverflows(id) BY <1>1, <1>3
  <2>2. StrayShape /\ DoubledOK BY <2>1 DEF StrayInv
  <2>3. /\ out' = out
        /\ \/ id \in held /\ held' = held \ {id} /\ strayed' = strayed
           \/ held' = held /\ strayed' = strayed \cup {id}
    <3>1. CASE ReturnLast(id) BY <1>1, <3>1 DEF ReturnLast, ReturnId
    <3>2. CASE ReturnOneOf(id)
      <4>1. held' = held /\ strayed' = strayed /\ doubled[id] > 0
        BY <3>2 DEF ReturnOneOf
      <4>2. id \in strayed BY <2>2, <4>1 DEF DoubledOK
      <4>3. QED BY <1>1, <4>1, <4>2
    <3>3. CASE StrayReturn(id) BY <1>1, <3>3 DEF StrayReturn
    <3>4. QED BY <3>1, <3>2, <3>3
  <2>4. StrayShape'
    <3>1. CASE GrowPrev(id) \/ GrowNext(id)
      BY <2>1, <2>2, <2>3, <3>1, StrayGrows, Zenon
    <3>2. CASE InsertNode(id)
      BY <2>1, <2>2, <2>3, <3>2, StrayInserts, Zenon
    <3>3. QED BY <1>1, <3>1, <3>2
  <2>5. DoubledOK'
    <3>1. CASE ReturnLast(id)
      <4>1. /\ doubled[id] = 0 /\ doubled' = doubled
            /\ strayed' = strayed /\ held' = held \ {id}
        BY <3>1 DEF ReturnLast, ReturnId
      <4>2. QED BY <2>2, <4>1 DEF DoubledOK
    <3>2. CASE ReturnOneOf(id)
      <4>1. /\ doubled[id] > 0 /\ doubled' = [doubled EXCEPT ![id] = @ - 1]
            /\ strayed' = strayed /\ held' = held
        BY <3>2 DEF ReturnOneOf
      <4>2. QED BY <2>2, <4>1 DEF DoubledOK
    <3>3. CASE StrayReturn(id)
      BY <2>2, <3>3 DEF StrayReturn, DoubledOK
    <3>4. QED BY <3>1, <3>2, <3>3
  <2>6. QED BY <2>4, <2>5
<1>4. QED BY <1>2, <1>3 DEF StrayInv

\* So does a request that is given an identifier.
LEMMA StrayIssues ==
  ASSUME MaxId = U16Max, StrayInv, Issue
  PROVE  StrayInv'
<1>1. /\ NextId /\ strayed' = strayed
      /\ doubled' = IF out' \in held THEN [doubled EXCEPT ![out'] = @ + 1] ELSE doubled
  BY DEF Issue
<1>2. TakeLowerBound \/ TakeLastOfRange \/ TakeLastOfList BY <1>1 DEF NextId
<1>3. overflowed' \in BOOLEAN /\ (overflowed => overflowed')
  BY <1>2, Zenon DEF StrayInv, TakeLowerBound, TakeLastOfRange, TakeLastOfList
<1>4. ASSUME ~overflowed' PROVE StrayShape' /\ DoubledOK'
  <2>1. StrayShape /\ DoubledOK /\ held' = held \cup ({out'} \ {0})
    BY <1>1, <1>3, <1>4 DEF StrayInv, NextId
  <2>2. StrayShape'
    BY <1>1, <1>2, <1>4, <2>1, StrayTakesBound, StrayTakesRange, StrayLastOverflows
  <2>3. out' \in held => out' \in strayed BY <1>1, <1>4, IssuesStrayed
  <2>4. held \subseteq held' /\ 0 \notin held BY <2>1 DEF StrayShape, TypeOK, Ids
  <2>5. DoubledOK'
    <3>1. CASE out' \in held
      BY <1>1, <2>1, <2>3, <2>4, <3>1 DEF DoubledOK, StrayShape, TypeOK
    <3>2. CASE out' \notin held BY <1>1, <2>1, <2>4, <3>2 DEF DoubledOK
    <3>3. QED BY <3>1, <3>2
  <2>6. QED BY <2>2, <2>5
<1>5. QED BY <1>1, <1>3, <1>4 DEF StrayInv

\* And so does every step.
LEMMA StrayNextInv ==
  ASSUME MaxId = U16Max, StrayInv, [StrayNext]_strayVars
  PROVE  StrayInv'
<1>1. CASE UNCHANGED strayVars
  <2>1. UNCHANGED <<start, ranges, out, held, overflowed, strayed, doubled>>
    BY <1>1 DEF strayVars, vars
  <2>2. QED BY <2>1 DEF StrayInv, StrayShape, TypeOK, FullOK, ChainOK, DamageOK,
                        DoubledOK, Slots, FreeIds, Holds
<1>2. CASE Issue BY <1>2, StrayIssues
<1>3. CASE NextIdPanics /\ UNCHANGED <<strays, strayed, doubled>>
  <2>1. overflowed' = TRUE /\ strayed' = strayed BY <1>3 DEF NextIdPanics
  <2>2. QED BY <2>1 DEF StrayInv
<1>4. ASSUME NEW id \in Ids, ReturnLast(id) \/ ReturnOneOf(id) \/ StrayReturn(id)
      PROVE  StrayInv'
  BY <1>4, StrayReturns
<1>5. QED BY <1>1, <1>2, <1>3, <1>4 DEF StrayNext

\* The invariant holds whatever the broker acknowledges, however often, and however
\* many requests hold one identifier.  It also says that the
\* list never becomes a cycle, so that the walk of return_id ends.
THEOREM StrayInvariant ==
  ASSUME MaxId = U16Max
  PROVE  StraySpec => []StrayInv
<1>1. StrayInv /\ [StrayNext]_strayVars => StrayInv' BY StrayNextInv
<1>2. QED BY <1>1, StrayInitInv, PTL DEF StraySpec

\* No acknowledgement, asked for or not, costs an identifier.  PktIds::new makes
\* MaxId = U16Max; below it, an identifier returned beyond the last range could
\* be lost.
THEOREM NothingIsLost ==
  ASSUME MaxId = U16Max
  PROVE  StraySpec => []NothingLost
<1>1. StrayInv => NothingLost BY DEF StrayInv, StrayShape, DamageOK, NothingLost
<1>2. QED BY <1>1, StrayInvariant, PTL

\* A stray acknowledgement endangers its own identifier and no other.
THEOREM DamageIsContained ==
  ASSUME MaxId = U16Max
  PROVE  StraySpec => DamageContained
<1>1. StrayInv /\ [StrayNext]_strayVars
      => [NextId /\ ~overflowed' /\ out' \in held => out' \in strayed]_strayVars
  BY IssuesStrayed
<1>2. QED BY <1>1, StrayInvariant, PTL DEF StraySpec, DamageContained
=============================================================================
