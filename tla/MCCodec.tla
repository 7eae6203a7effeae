------------------------------- MODULE MCCodec -------------------------------
(***************************************************************************)
(* The codec modules for TLC: numbers of every encoded length, publishes   *)
(* with every flag, identifiers of one and two bytes, texts and bytes, and *)
(* lists of properties, all that a broker may answer, and the requests of  *)
(* the client.  A state is one input.                                      *)
(***************************************************************************)
EXTENDS AckCodec, RequestCodec

CONSTANTS
  Properties,       \* the properties that a list may have
  MaxProperties     \* how many of them

\* Numbers around the least and the largest of each encoded length.
Numbers == {n \in UNION {Base ^ k - 3 .. Base ^ k + 3 : k \in 1 .. MaxVbiLen} : n >= 0}

\* What may follow a number in the buffer.
Rests == BoundedSeq({0, 1, Base - 1, Base, ByteSize - 1}, 3)

PktIdSamples == {1, ByteSize - 1, ByteSize, U16Size - 1}

\* What the Clients publish.
Built ==
  {NewPublish(PublishBuilder(topic, pt[1], pt[2], extra), q[1], retain, q[2]) :
     topic \in {<<>>, <<3>>},
     pt \in {<<TRUE, <<>>>>, <<TRUE, <<2>>>>, <<FALSE, <<ByteSize - 1>>>>,
             <<FALSE, [i \in 1 .. Base |-> i]>>},
     extra \in BoundedSeq(Properties, MaxProperties),
     q \in {<<0, 0>>} \cup ({1, 2} \X PktIdSamples),
     retain \in BOOLEAN}

\* A topic of the largest length that its two bytes can hold.
LongestTopic == [i \in 1 .. U16Size - 1 |-> 3]

APublish == NewPublish(PublishBuilder(<<3>>, TRUE, <<2>>, <<>>), 0, FALSE, 0)

\* A broker also sends packets again, and some with no property at all.
Publishes ==
  Built \cup {[p EXCEPT !.dup = TRUE] : p \in Built}
        \cup {[p EXCEPT !.properties = Tail(@), !.text = FALSE] : p \in Built}
        \cup {[APublish EXCEPT !.topic = LongestTopic]}

\* Values for Properties: all kinds but the expiry interval, and that one.
MCProperties ==
  {ResponseTopic(<<>>), ResponseTopic(<<3, 2>>), CorrelationData(<<ByteSize - 1>>),
   CorrelationData(<<>>), UserProperty(<<>>, <<2>>), UserProperty(<<3>>, <<>>)}

MCExpiry == {MessageExpiryInterval(7)}

\* The properties of an acknowledgement: none, each kind, and two.
AckProperties ==
  BoundedSeq({ReasonString(<<>>), ReasonString(<<3, 2>>), UserProperty(<<>>, <<2>>)}, 2)

\* The acknowledgements of a broker.  (PubAckProperties splits the list.)
Acks ==
  {Connack(s, r, ps) : s \in BOOLEAN, r \in ConnackReasons, ps \in AckProperties}
  \cup {Ack("suback", id, r, ps) :
          id \in PktIdSamples, r \in SubAckReasons, ps \in AckProperties}
  \cup {Ack("unsuback", id, r, ps) :
          id \in PktIdSamples, r \in UnsubAckReasons, ps \in AckProperties}
  \cup {Ack("puback", id, r, ps) :
          id \in PktIdSamples, r \in PubAckReasons, ps \in AckProperties}
  \cup {Disconnect(r, ps) : r \in DisconnectReasons, ps \in AckProperties}

Requests ==
  {Connect(id, k) : id \in {<<>>, <<3, 2>>}, k \in {0, 8, ByteSize, U16Size - 1}}
  \cup {Subscribe(t, id, q) : t \in {<<>>, <<3>>}, id \in PktIdSamples, q \in 0 .. 2}
  \cup {Unsubscribe(ts, id) :
          ts \in {<<<<3>>>>, <<<<>>>>, <<<<3>>, <<2, 3>>>>}, id \in PktIdSamples}
  \cup {PingReq, Subscribe(LongestTopic, 1, 1)}

VARIABLES n, rest, publish, ack, request

vars == <<n, rest, publish, ack, request>>

Init ==
  \/ /\ n \in Numbers /\ rest \in Rests
     /\ publish = APublish /\ ack = PingResp /\ request = PingReq
  \/ /\ publish \in Publishes /\ rest \in {<<>>, <<1, 0>>}
     /\ n = 0 /\ ack = PingResp /\ request = PingReq
  \/ /\ ack \in Acks
     /\ n = 0 /\ rest = <<>> /\ publish = APublish /\ request = PingReq
  \/ /\ request \in Requests
     /\ n = 0 /\ rest = <<>> /\ publish = APublish /\ ack = PingResp

Next == UNCHANGED vars

Spec == Init /\ [][Next]_vars

\* A length that a packet may have (mqtt_codec.rs:15-18) is read back from the
\* bytes that encode it, whatever follows them, and exactly those are consumed.
RoundTrip ==
  n <= MaxVbi => DecodeVbi(EncodeVbi[n] \o rest) = Parsed(n, Len(EncodeVbi[n]))

\* As long as a byte of it is missing the decoder asks for more, and never takes
\* a length for a shorter one.
NeedsEveryByte ==
  n <= MaxVbi =>
    \A k \in 0 .. Len(EncodeVbi[n]) - 1 :
      DecodeVbi(SubSeq(EncodeVbi[n], 1, k)) = Failed("more")

\* A length beyond the largest, which the encoder writes in five bytes, is
\* refused by the decoder: it neither waits for more bytes nor reads another
\* length.
TooLongIsRefused ==
  n > MaxVbi => DecodeVbi(EncodeVbi[n] \o rest).result \in {"error", "panic"}

\* A publish is read back as it was written, with the boundaries between topic,
\* identifier, properties and payload where they were, and ends where the length
\* that was written for it says, whatever follows it.
PublishRoundTrip ==
  LET bytes == EncodePublish(publish)
  IN  DecodePublish(bytes \o rest) = Parsed(publish, Len(bytes))

\* How a broker writes an acknowledgement (external), by the layout of MQTT v5,
\* in full or in a short form: no properties, neither reason nor properties.
BrokerBody(a, form) ==
  LET props == IF form = "full" THEN EncodeAckProperties(a.properties) ELSE <<>>
      reason == IF form = "bare" THEN <<>> ELSE <<a.reason>>
  IN  CASE a.type = "connack" -> <<Bit(a.session_present, 1)>> \o reason \o props
        [] a.type \in {"suback", "unsuback"} -> U16Bytes(a.pktid) \o props \o reason
        [] a.type = "puback" -> U16Bytes(a.pktid) \o reason \o props
        [] a.type = "disconnect" -> reason \o props
        [] OTHER -> <<>>

FirstByteOf == [connack |-> 32, puback |-> 64, suback |-> 144, unsuback |-> 176,
                pingresp |-> 208, disconnect |-> 224]

BrokerWrites(a, form) == Framed(FirstByteOf[a.type], BrokerBody(a, form))

\* The forms in which a broker may write it.  (The reason 0 may be left out.)
Forms(a) ==
  {"full"} \cup
    IF a.type \notin {"puback", "disconnect"} THEN {}
    ELSE (IF a.properties = <<>> THEN {"noprops"} ELSE {}) \cup
         (IF a.properties = <<>> /\ a.reason = 0 THEN {"bare"} ELSE {})

\* The packet that the client should make of it.
Meant(a) ==
  IF a.type = "puback" THEN [a EXCEPT !.properties = PubAckProperties(@)] ELSE a

\* A PubAck with more properties than its decoder can read: puback.rs:196 skips the
\* first byte of the second.
TooManyProperties(a) == a.type = "puback" /\ Len(a.properties) > 1

\* An acknowledgement, a Disconnect or a PingResp means to the client what it
\* meant to the broker: identifier, reason and every property, in the full and
\* in the short forms.  (A PubAck with two properties, which the client cannot read, is the
\* exception.)
AckRoundTrip ==
  ~TooManyProperties(ack) =>
    \A form \in Forms(ack) :
      LET bytes == BrokerWrites(ack, form)
      IN  ParsePkt(bytes) \in {Parsed(Meant(ack), k) : k \in 1 .. Len(bytes)}

\* Of an acknowledgement that is cut short the decoders ask for the rest: none
\* reads past the end, fails or takes a short form for a full one.
NeedsWholeAck ==
  LET bytes == BrokerWrites(ack, "full")
  IN  \A k \in 1 .. Len(bytes) - 1 : DecoderFor(SubSeq(bytes, 1, k)) = Failed("more")

\* What the client sends besides publishes is read by a broker as it was meant,
\* up to the longest topic, and each packet has the length that it states.  So
\* do the PubAck and the Disconnect that the client makes.
RequestRoundTrip ==
  LET bytes == EncodeRequest(request)
  IN  /\ ReadRequest(bytes).result = "ok" /\ ReadRequest(bytes).value = request
      /\ \A id \in PktIdSamples :
           ParsePkt(EncodePubAck(NewPubAck(id))) = Parsed(NewPubAck(id), 5)
      /\ ParsePkt(EncodeDisconnect(Disconnect(0, <<>>))).value = Disconnect(0, <<>>)
==============================================================================
