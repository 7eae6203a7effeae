------------------------------ MODULE MCFraming ------------------------------
(***************************************************************************)
(* Framing for TLC.  With Base = 2 and TypeUnit = 1 a first byte is its     *)
(* packet's type: 0 is invalid, 1 is known to parse_pkt but not parsed, 3   *)
(* is a Publish.                                                           *)
(***************************************************************************)
EXTENDS Framing

\* The lengths of the bodies take one, two and five bytes (the last overflows),
\* and the body <<3, 0, 3>> is made of the frame of an empty Publish.
MCPackets ==
  {Pkt(3, <<>>), Pkt(3, <<3>>), Pkt(3, <<3, 0, 3>>), Pkt(3, <<2>>),
   Pkt(0, <<3>>), Pkt(1, <<3>>), Pkt(3, [i \in 1 .. 17 |-> 3])}
==============================================================================
