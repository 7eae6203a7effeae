------------------------------ MODULE AckCodec -------------------------------
(***************************************************************************)
(* The bytes of the packets that only the broker sends: Connack, SubAck,   *)
(* UnsubAck, PubAck (whose encoder nothing reaches) and PingResp, with     *)
(* Disconnect, which both sides send; and parse_pkt, which chooses the     *)
(* decoder.  The bytes are real ones only if Base is 128.                  *)
(***************************************************************************)
EXTENDS PublishCodec

\* connack.rs, suback.rs, unsuback.rs and disconnect.rs each have a copy of the
\* code for their properties, and all copies do the same.
ReasonString(s) == Property(31, s)

\* Nothing sends the property SessionExpiryInterval, which Disconnect has too.
EncodeAckProperty(p) ==
  <<p.id>> \o IF p.id = 31 THEN EncodeBytes(p.value)
              ELSE EncodeBytes(p.value[1]) \o EncodeBytes(p.value[2])

EncodeAckProperties(props) ==
  LET bytes == FlattenSeq([i \in DOMAIN props |-> EncodeAckProperty(props[i])])
  IN  EncodeVbi[Len(bytes)] \o bytes

DecodeAckProperty(bytes) ==
  CASE Head(bytes) = 31 -> DecodeWithId(bytes, DecodeString)
    [] Head(bytes) = 38 -> DecodeWithId(bytes, DecodeTwoStrings)
    [] OTHER -> Failed("error")

\* The while loop over the bytes of a list.
AckPropertiesIn[bytes \in Seq(Nat)] ==
  IF bytes = <<>> THEN Parsed(<<>>, 0)
  ELSE Then(DecodeAckProperty(bytes), LAMBDA p :
         Then(AckPropertiesIn[From(bytes, p.len)], LAMBDA ps :
           Parsed(<<p.value>> \o ps.value, p.len + ps.len)))

DecodeAckProperties(bytes) ==
  Then(DecodeVbi(bytes), LAMBDA n :
    IF Len(bytes) < n.len + n.value THEN Failed("panic")
    ELSE Then(AckPropertiesIn[SubSeq(bytes, n.len + 1, n.len + n.value)], LAMBDA ps :
           Parsed(ps.value, n.len + n.value)))

-----------------------------------------------------------------------------
(* What the decoders share, besides WithBody.                              *)

\* `bytes[0].try_into()`, where only these codes are known.
DecodeCode(bytes, codes) ==
  CASE bytes = <<>> -> Failed("panic")
    [] bytes # <<>> /\ Head(bytes) \notin codes -> Failed("error")
    [] OTHER -> Parsed(Head(bytes), 1)

-----------------------------------------------------------------------------
(* Connack.                                                                *)

Connack(session_present, reason, properties) ==
  [type |-> "connack", session_present |-> session_present, reason |-> reason,
   properties |-> properties]

ConnackReasons ==
  {0} \cup 128 .. 138 \cup {140, 144, 149, 151} \cup 153 .. 157 \cup {159}

DecodeConnack(bytes) ==
  WithBody(bytes, LAMBDA body, len :
    Then(DecodeCode(body, {0, 1}), LAMBDA flags :
      Then(DecodeCode(From(body, 1), ConnackReasons), LAMBDA reason :
        Then(DecodeAckProperties(From(body, 2)), LAMBDA props :
          Parsed(Connack(flags.value = 1, reason.value, props.value), 2 + props.len)))))

-----------------------------------------------------------------------------
(* SubAck and UnsubAck: one reason, as the client asks for one topic.      *)

Ack(type, pktid, reason, properties) ==
  [type |-> type, pktid |-> pktid, reason |-> reason, properties |-> properties]

SubAckReasons == {0, 1, 2, 128, 131, 135, 143, 145, 151, 158, 161, 162}

UnsubAckReasons == {0, 17, 128, 131, 135, 143, 145}

DecodeSubAck(bytes) ==
  WithBody(bytes, LAMBDA body, len :
    Then(DecodePktId(body), LAMBDA id :
      Then(DecodeAckProperties(From(body, 2)), LAMBDA props :
        Then(DecodeCode(From(body, 2 + props.len), SubAckReasons), LAMBDA reason :
          Parsed(Ack("suback", id.value, reason.value, props.value), 3 + props.len)))))

DecodeUnsubAck(bytes) ==
  WithBody(bytes, LAMBDA body, len :
    Then(DecodePktId(body), LAMBDA id :
      Then(DecodeAckProperties(From(body, 2)), LAMBDA props :
        Then(DecodeCode(From(body, 2 + props.len), UnsubAckReasons), LAMBDA reason :
          Parsed(Ack("unsuback", id.value, reason.value, props.value), 3 + props.len)))))

-----------------------------------------------------------------------------
(* PubAck.                                                                 *)

PubAckReasons == {0, 16, 128, 131, 135, 144, 145, 151, 153}

\* PubackProperties: the last reason string, if there is one, and all the user
\* properties.
PubAckProperties(props) ==
  LET Values(id) == LET ps == SelectSeq(props, LAMBDA p : p.id = id)
                    IN  [i \in DOMAIN ps |-> ps[i].value]
      reasons == Values(31)
  IN  [reason_string |-> IF reasons = <<>> THEN <<>> ELSE <<Last(reasons)>>,
       user_properties |-> Values(38)]

\* The while loop over the bytes of the list, which ends when there is no byte
\* at the next offset: one byte further than the property goes.
PubAckPropertiesIn[bytes \in Seq(Nat)] ==
  IF bytes = <<>> THEN Failed("more")
  ELSE Then(DecodeAckProperty(bytes), LAMBDA p :
         IF Len(bytes) < p.len + 1 THEN Parsed(<<p.value>>, p.len)
         ELSE Then(PubAckPropertiesIn[From(bytes, p.len + 1)], LAMBDA ps :
                Parsed(<<p.value>> \o ps.value, p.len + 1 + ps.len)))

\* A list that is longer than the packet is read as an empty one.
DecodePubAckProperties(bytes) ==
  Then(DecodeVbi(bytes), LAMBDA n :
    IF n.value = 0 \/ Len(bytes) < n.len + n.value
    THEN Parsed(PubAckProperties(<<>>), n.len + n.value)
    ELSE Then(PubAckPropertiesIn[SubSeq(bytes, n.len + 1, n.len + n.value)], LAMBDA ps :
           Parsed(PubAckProperties(ps.value), n.len + n.value)))

\* A bug: the short form without a reason is forgotten.
DecodePubAckWithReason(bytes) ==
  WithBody(bytes, LAMBDA body, len :
    Then(DecodePktId(body), LAMBDA id :
      Then(DecodeCode(From(body, 2), PubAckReasons), LAMBDA reason :
        Then(IF len < 4 THEN Parsed(PubAckProperties(<<>>), 0)
             ELSE DecodePubAckProperties(From(body, 2 + reason.len)), LAMBDA props :
          Parsed(Ack("puback", id.value, reason.value, props.value),
                 2 + reason.len + props.len)))))

DecodePubAck(bytes) ==
  WithBody(bytes, LAMBDA body, len :
    Then(DecodePktId(body), LAMBDA id :
      Then(IF len = 2 THEN Parsed(0, 0)
           ELSE DecodeCode(From(body, 2), PubAckReasons), LAMBDA reason :
        Then(IF len < 4 THEN Parsed(PubAckProperties(<<>>), 0)
             ELSE DecodePubAckProperties(From(body, 2 + reason.len)), LAMBDA props :
          Parsed(Ack("puback", id.value, reason.value, props.value),
                 2 + reason.len + props.len)))))

\* Puback::new and its encoding, which has no length of properties.
NewPubAck(pktid) == Ack("puback", pktid, 0, PubAckProperties(<<>>))

EncodePubAck(p) == <<4 * 16, 3>> \o U16Bytes(p.pktid) \o <<p.reason>>

-----------------------------------------------------------------------------
(* Disconnect, PingResp.                                                   *)

Disconnect(reason, properties) ==
  [type |-> "disconnect", reason |-> reason, properties |-> properties]

DisconnectReasons ==
  {0, 4} \cup 128 .. 131 \cup {135, 137, 139} \cup 141 .. 144 \cup 147 .. 162

DecodeDisconnect(bytes) ==
  WithBody(bytes, LAMBDA body, len :
    Then(IF len = 0 THEN Parsed(0, 0) ELSE DecodeCode(body, DisconnectReasons), LAMBDA reason :
      Then(IF len < 4 THEN Parsed(<<>>, 0)
           ELSE DecodeAckProperties(From(body, reason.len)), LAMBDA props :
        Parsed(Disconnect(reason.value, props.value), reason.len + props.len))))

\* The reason is not written: a reader takes the length of the properties, 0,
\* for the reason Normal.
EncodeDisconnect(p) ==
  LET props == EncodeAckProperties(p.properties)
  IN  <<14 * 16>> \o EncodeVbi[Len(props)] \o props

PingResp == [type |-> "pingresp"]

\* A bug: the length is not looked at.
DecodePingRespAtOnce(bytes) == Parsed(PingResp, 2)

DecodePingResp(bytes) ==
  IF Len(bytes) < 2 THEN Failed("more") ELSE Parsed(PingResp, 2)

-----------------------------------------------------------------------------
(* parse_pkt (mod.rs).                                                     *)

\* The decoder for the packet type of the first byte.
DecoderFor(bytes) ==
  LET type == Head(bytes) \div 16 IN
  CASE type = 2 -> DecodeConnack(bytes)
    [] type = 3 -> DecodePublish(bytes)
    [] type = 4 -> DecodePubAck(bytes)
    [] type = 9 -> DecodeSubAck(bytes)
    [] type = 11 -> DecodeUnsubAck(bytes)
    [] type = 13 -> DecodePingResp(bytes)
    [] type = 14 -> DecodeDisconnect(bytes)
    [] type = 0 -> Failed("error")
    [] OTHER -> Failed("panic")

\* The packet is expected to be whole: that a decoder wants more is an error.
ParsePkt(bytes) ==
  LET parsed == DecoderFor(bytes)
  IN  IF parsed.result = "more" THEN Failed("error") ELSE parsed
==============================================================================
