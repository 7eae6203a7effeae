------------------------------- MODULE IdPool -------------------------------
(***************************************************************************)
(* What the allocator of MQTT packet identifiers promises to the event     *)
(* loop: it keeps the set of identifiers that are not in use, always hands *)
(* out the lowest of them, refuses only when none is left, and takes back  *)
(* an identifier that is in use.  How the identifiers are stored is left   *)
(* to PktIds, which implements this specification.                         *)
(***************************************************************************)
EXTENDS Naturals

CONSTANT MaxId     \* the largest identifier (PktIds::new: u16::MAX)

VARIABLES
  free,            \* the identifiers not in use
  out              \* what the last next_id returned: an identifier, 0 for None

poolVars == <<free, out>>

Ids == 1 .. MaxId

PoolTypeOK ==
  /\ free \in SUBSET Ids
  /\ out \in 0 .. MaxId

Lowest(S) == CHOOSE i \in S : \A j \in S : i <= j

PoolInit ==
  /\ free = Ids
  /\ out = 0

\* next_id finds an identifier: the lowest one leaves the pool.
Grant ==
  /\ free # {}
  /\ out' = Lowest(free)
  /\ free' = free \ {out'}

\* next_id returns None: every identifier is in use.
Refuse ==
  /\ free = {}
  /\ out' = 0
  /\ UNCHANGED free

TakeId == Grant \/ Refuse

\* return_id of an identifier that is in use.
GiveId(id) ==
  /\ id \notin free
  /\ free' = free \cup {id}
  /\ UNCHANGED out

PoolNext == TakeId \/ \E id \in Ids : GiveId(id)

PoolSpec == PoolInit /\ [][PoolNext]_poolVars
=============================================================================
