---------------------------- MODULE RequestCodec -----------------------------
(***************************************************************************)
(* The bytes of the packets that only the client sends: Connect,           *)
(* Subscribe, Unsubscribe and PingReq.  The bytes are real ones only if    *)
(* Base is 128.                                                            *)
(***************************************************************************)
EXTENDS PublishCodec

\* The first byte, the length of the body and the body.
Framed(first, body) == <<first>> \o EncodeVbi[Len(body)] \o body

\* "MQTT"
ProtocolName == <<77, 81, 84, 84>>

Connect(client_id, keep_alive) ==
  [type |-> "connect", client_id |-> client_id, keep_alive |-> keep_alive]

\* The protocol and its version, clean_start, the keep alive, no properties.
EncodeConnect(p) ==
  Framed(1 * 16,
    EncodeBytes(ProtocolName) \o <<5, 2>> \o U16Bytes(p.keep_alive) \o <<0>>
      \o EncodeBytes(p.client_id))

Subscribe(topic, pktid, qos) ==
  [type |-> "subscribe", topic |-> topic, pktid |-> pktid, qos |-> qos,
   no_local |-> FALSE, retain_as_published |-> FALSE]

SubscribeOptions(p) == p.qos + Bit(p.no_local, 4) + Bit(p.retain_as_published, 8)

\* A bug: the options are written before their topic.
EncodeSubscribeOptionsFirst(p) ==
  Framed(8 * 16 + 2,
    U16Bytes(p.pktid) \o <<0>> \o <<SubscribeOptions(p)>> \o EncodeBytes(p.topic))

EncodeSubscribe(p) ==
  Framed(8 * 16 + 2,
    U16Bytes(p.pktid) \o <<0>> \o EncodeBytes(p.topic) \o <<SubscribeOptions(p)>>)

Unsubscribe(topics, pktid) ==
  [type |-> "unsubscribe", topics |-> topics, pktid |-> pktid]

EncodeUnsubscribe(p) ==
  Framed(10 * 16 + 2,
    U16Bytes(p.pktid) \o <<0>>
      \o FlattenSeq([i \in DOMAIN p.topics |-> EncodeBytes(p.topics[i])]))

PingReq == [type |-> "pingreq"]

EncodePingReq == <<12 * 16, 0>>

\* Packet::convert_to_mqtt for these packets.
EncodeRequest(p) ==
  CASE p.type = "connect" -> EncodeConnect(p)
    [] p.type = "subscribe" -> EncodeSubscribe(p)
    [] p.type = "unsubscribe" -> EncodeUnsubscribe(p)
    [] p.type = "pingreq" -> EncodePingReq

-----------------------------------------------------------------------------
(* How a broker reads them (external), by the layout of MQTT v5.           *)

\* The topics that fill the rest of an Unsubscribe.
Topics[bytes \in Seq(Nat)] ==
  IF bytes = <<>> THEN Parsed(<<>>, 0)
  ELSE Then(DecodeString(bytes), LAMBDA t :
         Then(Topics[From(bytes, t.len)], LAMBDA ts :
           Parsed(<<t.value>> \o ts.value, t.len + ts.len)))

\* Protocol, version, flags, keep alive and properties, then the client's name.
ReadConnect(body) ==
  Then(DecodeString(body), LAMBDA name :
    Then(DecodeProperties(From(body, name.len + 4)), LAMBDA props :
      Then(DecodeString(From(body, name.len + 4 + props.len)), LAMBDA id :
        IF name.value = ProtocolName /\ body[name.len + 1] = 5
        THEN Parsed(Connect(id.value, FirstU16(From(body, name.len + 2))),
                    name.len + 4 + props.len + id.len)
        ELSE Failed("error"))))

ReadSubscribe(body) ==
  Then(DecodePktId(body), LAMBDA id :
    Then(DecodeProperties(From(body, 2)), LAMBDA props :
      Then(DecodeString(From(body, 2 + props.len)), LAMBDA topic :
        Parsed(Subscribe(topic.value, id.value, body[3 + props.len + topic.len] % 4),
               3 + props.len + topic.len))))

ReadUnsubscribe(body) ==
  Then(DecodePktId(body), LAMBDA id :
    Then(DecodeProperties(From(body, 2)), LAMBDA props :
      Then(Topics[From(body, 2 + props.len)], LAMBDA topics :
        Parsed(Unsubscribe(topics.value, id.value), 2 + props.len + topics.len))))

\* The length must be that of the body, and the body all used.
ReadRequest(bytes) ==
  LET n == DecodeVbi(Tail(bytes))
      body == From(bytes, 1 + n.len)
      p == CASE Head(bytes) = 16 -> ReadConnect(body)
             [] Head(bytes) = 130 -> ReadSubscribe(body)
             [] Head(bytes) = 162 -> ReadUnsubscribe(body)
             [] Head(bytes) = 192 -> Parsed(PingReq, 0)
             [] OTHER -> Failed("error")
  IN  IF n.value = Len(body) /\ p.len = Len(body) THEN p ELSE Failed("error")
==============================================================================
