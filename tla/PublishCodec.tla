---------------------------- MODULE PublishCodec -----------------------------
(***************************************************************************)
(* The bytes of a Publish packet, written and read by                      *)
(* src/src/protocol/publish.rs with the properties of properties.rs and    *)
(* the strings and identifiers of mod.rs.  The same bytes are read from a  *)
(* broker and written to it.                                               *)
(*                                                                         *)
(* A decoder yields Parsed(value, bytes consumed) or Failed(...): "more"   *)
(* is ConvertError::NotEnoughBytes, "error" any other ConvertError and     *)
(* "panic" a slice beyond its end.  A string is its bytes; those below     *)
(* Base are characters of their own, the others never are valid UTF-8.     *)
(***************************************************************************)
EXTENDS Vbi

ByteSize == 2 * Base
U16Size == ByteSize * ByteSize

Utf8(s) == \A i \in DOMAIN s : s[i] < Base

\* to_be_bytes of a u16 and of a u32, which `as` has cut to them.
U16Bytes(n) == <<(n \div ByteSize) % ByteSize, n % ByteSize>>
U32Bytes(n) == U16Bytes(n \div U16Size) \o U16Bytes(n)

\* The bytes from offset n (0 is the first) on.
From(bytes, n) == SubSeq(bytes, n + 1, Len(bytes))

\* The `?` operator: goes on with what was parsed, or fails as it failed.
Then(parsed, Continue(_)) ==
  IF parsed.result = "ok" THEN Continue(parsed) ELSE parsed

-----------------------------------------------------------------------------
(* Strings, byte vectors and packet identifiers (mod.rs).                  *)

\* The length, as a u16, and the bytes.
EncodeBytes(s) == U16Bytes(Len(s)) \o s

\* The u16, and the u32, that the bytes begin with.
FirstU16(bytes) == bytes[1] * ByteSize + bytes[2]
FirstU32(bytes) == FirstU16(bytes) * U16Size + FirstU16(From(bytes, 2))

DecodeString(bytes) ==
  CASE Len(bytes) < 2 -> Failed("more")
    [] Len(bytes) >= 2 /\ Len(bytes) < FirstU16(bytes) + 2 -> Failed("more")
    [] OTHER ->
         LET s == SubSeq(bytes, 3, FirstU16(bytes) + 2)
         IN  IF Utf8(s) THEN Parsed(s, Len(s) + 2) ELSE Failed("error")

DecodeVec(bytes) ==
  CASE Len(bytes) < 2 -> Failed("more")
    [] Len(bytes) >= 2 /\ Len(bytes) < FirstU16(bytes) + 2 -> Failed("panic")
    [] OTHER -> Parsed(SubSeq(bytes, 3, FirstU16(bytes) + 2), FirstU16(bytes) + 2)

DecodePktId(bytes) ==
  CASE Len(bytes) < 2 -> Failed("more")
    [] Len(bytes) >= 2 /\ FirstU16(bytes) = 0 -> Failed("error")
    [] OTHER -> Parsed(FirstU16(bytes), 2)

-----------------------------------------------------------------------------
(* Properties (properties.rs).                                             *)

Property(id, value) == [id |-> id, value |-> value]

PayloadFormatId(n) == Property(1, n)
MessageExpiryInterval(n) == Property(2, n)
ResponseTopic(s) == Property(8, s)
CorrelationData(b) == Property(9, b)
UserProperty(k, v) == Property(38, <<k, v>>)

EncodeProperty(p) ==
  <<p.id>> \o CASE p.id = 1 -> <<p.value>>
                [] p.id = 2 -> U32Bytes(p.value)
                [] p.id \in {8, 9} -> EncodeBytes(p.value)
                [] p.id = 38 -> EncodeBytes(p.value[1]) \o EncodeBytes(p.value[2])

\* A property whose value Decode reads from the bytes after its identifier.
DecodeWithId(bytes, Decode(_)) ==
  Then(Decode(Tail(bytes)), LAMBDA v : Parsed(Property(Head(bytes), v.value), v.len + 1))

DecodeTwoStrings(bytes) ==
  Then(DecodeString(bytes), LAMBDA k :
    Then(DecodeString(From(bytes, k.len)), LAMBDA v :
      Parsed(<<k.value, v.value>>, k.len + v.len)))

\* A MessageExpiryInterval takes five bytes, and four are reported.
DecodeProperty(bytes) ==
  CASE Head(bytes) = 1 ->
         IF Len(bytes) < 2 THEN Failed("panic") ELSE Parsed(PayloadFormatId(bytes[2]), 2)
    [] Head(bytes) = 2 ->
         IF Len(bytes) < 5 THEN Failed("more")
         ELSE Parsed(MessageExpiryInterval(FirstU32(Tail(bytes))), 4)
    [] Head(bytes) = 8 -> DecodeWithId(bytes, DecodeString)
    [] Head(bytes) = 9 -> DecodeWithId(bytes, DecodeVec)
    [] Head(bytes) = 38 -> DecodeWithId(bytes, DecodeTwoStrings)
    [] OTHER -> Failed("error")

EncodeProperties(props) ==
  LET bytes == FlattenSeq([i \in DOMAIN props |-> EncodeProperty(props[i])])
  IN  EncodeVbi[Len(bytes)] \o bytes

\* The while loop over the bytes of a list of properties.
PropertiesIn[bytes \in Seq(Nat)] ==
  IF bytes = <<>> THEN Parsed(<<>>, 0)
  ELSE Then(DecodeProperty(bytes), LAMBDA p :
         Then(PropertiesIn[From(bytes, p.len)], LAMBDA ps :
           Parsed(<<p.value>> \o ps.value, p.len + ps.len)))

DecodeProperties(bytes) ==
  Then(DecodeVbi(bytes), LAMBDA n :
    IF Len(bytes) < n.len + n.value THEN Failed("panic")
    ELSE Then(PropertiesIn[SubSeq(bytes, n.len + 1, n.len + n.value)], LAMBDA ps :
           Parsed(ps.value, n.len + n.value)))

-----------------------------------------------------------------------------
(* Publish (publish.rs) and PublishBuilder (client.rs).                    *)

\* from_bytes or from_str (text), with_property for each property of extra.
PublishBuilder(topic, text, payload, extra) ==
  [topic |-> topic, text |-> text, payload |-> payload,
   properties |-> <<PayloadFormatId(IF text THEN 1 ELSE 0)>> \o extra]

\* at_most_once, at_least_once, exactly_once.  (No identifier is 0.)
NewPublish(b, qos, retain, pktid) ==
  [topic |-> b.topic, text |-> b.text, payload |-> b.payload,
   properties |-> b.properties, dup |-> FALSE, qos |-> qos, retain |-> retain,
   pktid |-> pktid]

Bit(b, n) == IF b THEN n ELSE 0

\* The packet type Publish is 3.
FirstByte(p) == 3 * 16 + Bit(p.dup, 8) + 2 * p.qos + Bit(p.retain, 1)

EncodeBody(p) ==
  EncodeBytes(p.topic)
    \o (IF p.qos > 0 THEN U16Bytes(p.pktid) ELSE <<>>)
    \o EncodeProperties(p.properties) \o p.payload

EncodePublish(p) == <<FirstByte(p)>> \o EncodeVbi[Len(EncodeBody(p))] \o EncodeBody(p)

\* A bug: the payload goes on to the end of the buffer.
DecodePayloadToTheEnd(bytes, read, remaining, properties) ==
  LET text == \E i \in DOMAIN properties : properties[i] = PayloadFormatId(1)
      payload == From(bytes, read)
  IN  CASE remaining < read -> Failed("panic")
        [] remaining >= read /\ text /\ ~Utf8(payload) -> Failed("error")
        [] OTHER -> Parsed([text |-> text, bytes |-> payload], Len(payload))

\* The payload is what is left of the remaining length when the variable header
\* has been read, text if a property says so.  (The subtraction underflows, and
\* the slice would end before it begins, if the header is longer than that.)
DecodePayload(bytes, read, remaining, properties) ==
  LET text == \E i \in DOMAIN properties : properties[i] = PayloadFormatId(1)
      payload == SubSeq(bytes, read + 1, remaining)
  IN  CASE remaining < read -> Failed("panic")
        [] remaining >= read /\ text /\ ~Utf8(payload) -> Failed("error")
        [] OTHER -> Parsed([text |-> text, bytes |-> payload], Len(payload))

\* The topic, the identifier, the properties and the payload.
DecodeBody(bytes, remaining, flags) ==
  Then(DecodeString(bytes), LAMBDA topic :
    Then(IF flags.qos > 0 THEN DecodePktId(From(bytes, topic.len)) ELSE Parsed(0, 0), LAMBDA id :
      Then(DecodeProperties(From(bytes, topic.len + id.len)), LAMBDA props :
        Then(DecodePayload(bytes, topic.len + id.len + props.len, remaining, props.value),
          LAMBDA payload :
            Parsed([topic |-> topic.value, text |-> payload.value.text,
                    payload |-> payload.value.bytes, properties |-> props.value,
                    dup |-> flags.dup, qos |-> flags.qos, retain |-> flags.retain,
                    pktid |-> id.value],
                   topic.len + id.len + props.len + payload.len)))))

\* PublishFlags::try_from
Flags(b) == [dup |-> (b \div 8) % 2 = 1, qos |-> (b \div 2) % 4, retain |-> b % 2 = 1]

\* The first byte is skipped and the remaining length compared with the bytes
\* that there are.  The body is what follows the length.
WithBody(bytes, Body(_, _)) ==
  Then(DecodeVbi(Tail(bytes)), LAMBDA n :
    IF Len(bytes) < 1 + n.len + n.value THEN Failed("more")
    ELSE Then(Body(From(bytes, 1 + n.len), n.value), LAMBDA pkt :
           Parsed(pkt.value, 1 + n.len + pkt.len)))

\* QoS::try_from refuses 3.
DecodePublish(bytes) ==
  CASE bytes = <<>> -> Failed("more")
    [] bytes # <<>> /\ Flags(Head(bytes)).qos = 3 -> Failed("error")
    [] OTHER -> WithBody(bytes, LAMBDA body, len : DecodeBody(body, len, Flags(Head(bytes))))
==============================================================================
