----------------------------- MODULE PktIdsStray -----------------------------
(***************************************************************************)
(* The allocator with a broker that acknowledges what it was not asked, or *)
(* acknowledges again and again.  The event loop (src/src/lib.rs) gives    *)
(* return_id the identifier of every SubAck, UnsubAck and PubAck: that of  *)
(* a PubAck it knows no publish for, too, after a warning.                 *)
(*                                                                         *)
(* An identifier returned while its request goes on may be issued again,   *)
(* so that several requests hold it and each of them is acknowledged.      *)
(***************************************************************************)
EXTENDS PktIds

CONSTANT MaxStrays     \* bound on the acknowledgements that nobody asked for

ASSUME StrayAssumption == MaxStrays \in Nat

VARIABLES
  strays,              \* how many such acknowledgements there were
  strayed,             \* history: the identifiers that they had
  doubled              \* requests that hold an identifier besides the first

strayVars == <<vars, strays, strayed, doubled>>

StrayInit ==
  /\ Init
  /\ strays = 0
  /\ strayed = {}
  /\ doubled = [id \in Ids |-> 0]

\* A request is given an identifier, which another may hold already.
Issue ==
  /\ NextId
  /\ doubled' = IF out' \in held THEN [doubled EXCEPT ![out'] = @ + 1] ELSE doubled
  /\ UNCHANGED <<strays, strayed>>

\* The call of return_id, whatever made the broker send the acknowledgement.
Return(id) ==
  /\ GrowPrev(id) \/ GrowNext(id) \/ InsertNode(id)
  /\ overflowed' = (overflowed \/ ReturnIdOverflows(id))
  /\ UNCHANGED out

\* The only request that holds id is acknowledged.
ReturnLast(id) ==
  /\ doubled[id] = 0
  /\ ReturnId(id)
  /\ UNCHANGED <<strays, strayed, doubled>>

\* One of several is: the others go on.
ReturnOneOf(id) ==
  /\ ~Panicked
  /\ doubled[id] > 0
  /\ Return(id)
  /\ doubled' = [doubled EXCEPT ![id] = @ - 1]
  /\ UNCHANGED <<held, strays, strayed>>

\* A stray acknowledgement: its identifier may be free, or that of a request,
\* which goes on, and may have strayed before.
StrayReturn(id) ==
  /\ ~Panicked
  /\ strays < MaxStrays
  /\ Return(id)
  /\ strays' = strays + 1
  /\ strayed' = strayed \cup {id}
  /\ UNCHANGED <<held, doubled>>

StrayNext ==
  \/ Issue
  \/ NextIdPanics /\ UNCHANGED <<strays, strayed, doubled>>
  \/ \E id \in Ids : ReturnLast(id) \/ ReturnOneOf(id) \/ StrayReturn(id)

StraySpec == StrayInit /\ [][StrayNext]_strayVars

-----------------------------------------------------------------------------
\* Stray acknowledgements cost no identifier: one that no request holds is
\* still in the list and will be found by next_id.
NothingLost == ~overflowed => Ids \ held \subseteq FreeIds

\* An identifier that is in use is issued again only if a stray acknowledgement
\* had returned that very identifier: the others are safe from it, however often
\* it strays and however many requests then hold it, and whatever the overlapping
\* ranges do to the list.
DamageContained == [][NextId /\ ~overflowed' /\ out' \in held => out' \in strayed]_strayVars
=============================================================================
