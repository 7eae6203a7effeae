-------------------------------- MODULE Mpsc --------------------------------
(***************************************************************************)
(* futures::channel::mpsc with a bounded buffer, the channel between the   *)
(* Clients and the event loop and between the event loop and its user.     *)
(* The library is not part of the repository: this is what the code relies *)
(* on.                                                                     *)
(*                                                                         *)
(* A send that makes the queue longer than the buffer parks its sender,    *)
(* whose next send must wait (or fail: try_send); every receive unparks    *)
(* the sender that was parked first.  So each sender has a slot of its own *)
(* beyond the buffer.                                                      *)
(***************************************************************************)
EXTENDS Naturals, Sequences

CONSTANT Buffer        \* the argument of channel()

VARIABLES
  queue,               \* the messages in the channel
  parked               \* the parked senders, first parked first

Parked(s) == \E i \in DOMAIN parked : parked[i] = s

\* start_send and try_send of a sender that is not parked.
Send(s, m) ==
  /\ ~Parked(s)
  /\ queue' = Append(queue, m)
  /\ parked' = IF Len(queue) >= Buffer THEN Append(parked, s) ELSE parked

\* The receiver takes a message.
Receive ==
  /\ queue # <<>>
  /\ queue' = Tail(queue)
  /\ parked' = IF parked = <<>> THEN <<>> ELSE Tail(parked)

\* The receiver is dropped, with the messages it did not take.
Close ==
  /\ queue' = <<>>
  /\ parked' = <<>>
=============================================================================
