------------------------------- MODULE Framing -------------------------------
(***************************************************************************)
(* From the bytes of the connection to packets: MqttCodec::decode          *)
(* (src/src/mqtt_codec.rs) and parse_pkt (src/src/protocol/mod.rs), driven *)
(* by tokio's FramedRead, which is external.  The broker writes packets,   *)
(* the connection delivers their bytes in pieces of any size and may end   *)
(* inside a packet, and the event loop may leave mqtt_read.next() for      *)
(* another branch of its select! between two pieces.                       *)
(*                                                                         *)
(* A packet is its first byte and the bytes after its remaining length.    *)
(* What each packet type makes of the latter is left out, but for the      *)
(* bodies that it rejects.  The broker may be wrong: it may write a type   *)
(* that does not exist, a malformed body or a body that is too long.       *)
(***************************************************************************)
EXTENDS Vbi

CONSTANTS
  TypeUnit,      \* a first byte b has packet type b \div TypeUnit (code: 16)
  Packets,       \* packets that the broker sends
  BadBytes,      \* a body that begins with one of these is malformed
  MaxPkts        \* bound on the packets that the broker sends

ASSUME FramingAssumption ==
  /\ TypeUnit \in Nat \ {0}
  /\ BadBytes \subseteq Byte
  /\ \A p \in Packets : p \in [first : Byte, body : Seq(Byte)]
  /\ MaxPkts \in Nat

VARIABLES
  sent,          \* packets that the broker has written
  wire,          \* their bytes on the way
  closed,        \* the broker's end of the connection is closed
  src,           \* the BytesMut that FramedRead fills and decode consumes
  reading,       \* FramedRead waits for bytes (else it calls decode)
  decoded,       \* packets that mqtt_read.next() has yielded
  ended          \* how the stream has ended: "eof", "err", "panic", or "no"

netVars == <<sent, wire, closed>>
vars == <<netVars, src, reading, decoded, ended>>

Pkt(first, body) == [first |-> first, body |-> body]

Malformed(p) == p.body # <<>> /\ Head(p.body) \in BadBytes

\* PacketType::try_from, which knows every type but 0, and those that parse_pkt
\* has an arm for.
TypeOf(b) == b \div TypeUnit
ParsedTypes == {2, 3, 4, 9, 11, 13, 14}

\* The bytes of a packet, as the broker writes it.
Frame(p) == <<p.first>> \o EncodeVbi[Len(p.body)] \o p.body

Init ==
  /\ sent = <<>> /\ wire = <<>> /\ closed = FALSE
  /\ src = <<>> /\ reading = TRUE /\ decoded = <<>> /\ ended = "no"

-----------------------------------------------------------------------------
(* The broker and the connection (external), while the client has it open. *)

Send(p) ==
  /\ ~closed /\ ended = "no"
  /\ Len(sent) < MaxPkts
  /\ sent' = Append(sent, p)
  /\ wire' = wire \o Frame(p)
  /\ UNCHANGED <<closed, src, reading, decoded, ended>>

\* The connection is closed after k of the bytes on the way.
Close(k) ==
  /\ ~closed /\ ended = "no"
  /\ closed' = TRUE
  /\ wire' = SubSeq(wire, 1, k)
  /\ UNCHANGED <<sent, src, reading, decoded, ended>>

-----------------------------------------------------------------------------
(* FramedRead (external).                                                  *)

\* The connection has k bytes.
ReadBytes(k) ==
  /\ ended = "no" /\ reading
  /\ k <= Len(wire)
  /\ src' = src \o SubSeq(wire, 1, k)
  /\ wire' = SubSeq(wire, k + 1, Len(wire))
  /\ reading' = FALSE
  /\ UNCHANGED <<sent, closed, decoded, ended>>

\* The connection has ended.  Bytes that are left make no packet: an error.
ReadEof ==
  /\ ended = "no" /\ reading
  /\ closed /\ wire = <<>>
  /\ ended' = IF src = <<>> THEN "eof" ELSE "err"
  /\ UNCHANGED <<netVars, src, reading, decoded>>

\* A bug: the bytes read so far belong to the future of next(), and go with it.
OtherBranchDropsBytes ==
  /\ ended = "no" /\ reading
  /\ src' = <<>>
  /\ UNCHANGED <<netVars, reading, decoded, ended>>

\* Another branch of the select! is taken: the future of mqtt_read.next() is
\* dropped, mqtt_read and the bytes in its buffer are not.
OtherBranch ==
  /\ ended = "no" /\ reading
  /\ UNCHANGED vars

-----------------------------------------------------------------------------
(* MqttCodec::decode.                                                      *)

Length == DecodeVbi(Tail(src))

\* total_pkt_len
TotalLen == 1 + Length.len + Length.value

\* A bug: a byte beyond the packet is waited for.
OutcomeWaitsForNext ==
  CASE Len(src) < 2 -> "more"
    [] Len(src) >= 2 /\ TypeOf(Head(src)) = 0 -> "error"
    [] OTHER -> IF Length.result = "ok" /\ Len(src) <= TotalLen THEN "more"
                ELSE IF Length.result = "ok" THEN "packet"
                ELSE Length.result

\* A bug: a length that has not arrived as a whole is an error.
OutcomeRefusesPartialLength ==
  CASE Len(src) < 2 -> "more"
    [] Len(src) >= 2 /\ TypeOf(Head(src)) = 0 -> "error"
    [] OTHER -> IF Length.result = "ok" /\ Len(src) < TotalLen THEN "more"
                ELSE IF Length.result = "ok" THEN "packet"
                ELSE "error"

\* What decode finds in src: a whole packet, or why not.
Outcome ==
  CASE Len(src) < 2 -> "more"
    [] Len(src) >= 2 /\ TypeOf(Head(src)) = 0 -> "error"
    [] OTHER -> IF Length.result = "ok" /\ Len(src) < TotalLen THEN "more"
                ELSE IF Length.result = "ok" THEN "packet"
                ELSE Length.result

\* A bug: the length is taken to be of one byte.
PktDataAfterOneByte == Pkt(Head(src), SubSeq(src, 3, TotalLen))

\* The packet that parse_pkt is given.
PktData == Pkt(Head(src), SubSeq(src, 2 + Length.len, TotalLen))

Readable(p) == TypeOf(p.first) \in ParsedTypes /\ ~Malformed(p)

Decoding == ended = "no" /\ ~reading

\* Ok(None)
NeedMore ==
  /\ Decoding
  /\ Outcome = "more"
  /\ reading' = TRUE
  /\ UNCHANGED <<netVars, src, decoded, ended>>

\* A bug: after a packet the connection is read before the rest of the buffer.
YieldThenRead ==
  /\ Decoding
  /\ Outcome = "packet"
  /\ Readable(PktData)
  /\ decoded' = Append(decoded, PktData)
  /\ src' = SubSeq(src, TotalLen + 1, Len(src))
  /\ reading' = TRUE
  /\ UNCHANGED <<netVars, ended>>

\* Ok(Some(packet)): its bytes leave the buffer, which is decoded again.
Yield ==
  /\ Decoding
  /\ Outcome = "packet"
  /\ Readable(PktData)
  /\ decoded' = Append(decoded, PktData)
  /\ src' = SubSeq(src, TotalLen + 1, Len(src))
  /\ UNCHANGED <<netVars, reading, ended>>

\* Err(_), at which the event loop ends: a wrong type or length leaves the
\* packet in the buffer, a malformed body does not.
Reject ==
  /\ Decoding
  /\ \/ Outcome = "error" /\ UNCHANGED src
     \/ /\ Outcome = "packet"
        /\ TypeOf(PktData.first) \in ParsedTypes /\ Malformed(PktData)
        /\ src' = SubSeq(src, TotalLen + 1, Len(src))
  /\ ended' = "err"
  /\ UNCHANGED <<netVars, reading, decoded>>

\* An overflow in the length, parse_pkt's unimplemented!, and a malformed body
\* that is sliced beyond its end.
Panic ==
  /\ Decoding
  /\ \/ Outcome = "panic"
     \/ Outcome = "packet" /\ ~Readable(PktData)
  /\ ended' = "panic"
  /\ UNCHANGED <<netVars, src, reading, decoded>>

Decode == NeedMore \/ Yield \/ Reject \/ Panic

-----------------------------------------------------------------------------
\* The task that reads.
Read == (\E k \in 1 .. Len(wire) : ReadBytes(k)) \/ ReadEof \/ Decode

Next ==
  \/ \E p \in Packets : Send(p)
  \/ \E k \in 0 .. Len(wire) : Close(k)
  \/ Read
  \/ OtherBranch

\* The executor polls the task when the connection has bytes for it or ends.
Spec == Init /\ [][Next]_vars /\ WF_vars(Read)

-----------------------------------------------------------------------------
TypeOK ==
  /\ sent \in Seq(Packets) /\ Len(sent) <= MaxPkts
  /\ wire \in Seq(Byte) /\ src \in Seq(Byte)
  /\ closed \in BOOLEAN /\ reading \in BOOLEAN
  /\ decoded \in Seq(Packets)
  /\ ended \in {"no", "eof", "err", "panic"}

\* The packets that were written and not yielded, and their bytes.
Pending == SubSeq(sent, Len(decoded) + 1, Len(sent))
PendingBytes == FlattenSeq([i \in DOMAIN Pending |-> Frame(Pending[i])])

\* The packets that next() yields are those that were written, in their order,
\* and the buffer always begins where the next of them begins: no byte is lost,
\* read twice or taken for a part of another packet, however the connection
\* cuts the stream and whenever select! drops the read.
FramesIntact ==
  /\ IsPrefix(decoded, sent)
  /\ ended = "no" => IF closed THEN IsPrefix(src \o wire, PendingBytes)
                               ELSE src \o wire = PendingBytes

\* The task never waits for bytes while the buffer holds a whole packet: the
\* packet would wait for the one after it, maybe for ever.
NoPacketWaits ==
  ended = "no" /\ reading /\ Pending # <<>> => Len(src) < Len(Frame(Head(Pending)))

\* A length of more than four bytes (mqtt_codec.rs:15-17).
TooLong(p) == Len(p.body) > MaxVbi

\* The stream ends cleanly only between two packets, with an error only inside
\* a packet or at one that is wrong, and with a panic only at a malformed packet,
\* one of a type that parse_pkt does not know, or a length that overflows.
EndIsExact ==
  LET p == Head(Pending) IN
    /\ ended = "eof" => closed /\ src = <<>>
    /\ ended = "err" =>
         \/ closed /\ src # <<>> /\ IsStrictPrefix(src, Frame(p))
         \/ Pending # <<>> /\ (Malformed(p) \/ TypeOf(p.first) = 0 \/ TooLong(p))
    /\ ended = "panic" =>
         Pending # <<>> /\ (~Readable(p) \/ TooLong(p))

\* Every packet that was written is yielded, unless the stream ends.
PacketsYielded ==
  \A k \in 1 .. MaxPkts :
    Len(sent) >= k ~> Len(decoded) >= k \/ ended # "no"
==============================================================================
