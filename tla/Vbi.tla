--------------------------------- MODULE Vbi ---------------------------------
(***************************************************************************)
(* The Variable Byte Integer of MQTT (src/src/protocol/mod.rs), which      *)
(* holds the remaining length of every packet: seven bits in a byte, least *)
(* significant first, the eighth bit set in every byte but the last.       *)
(***************************************************************************)
EXTENDS Naturals, SequencesExt

CONSTANTS
  Base,             \* values of a byte without its continuation bit (code: 128)
  U32Max,           \* u32::MAX, smaller in the instances that TLC checks
  OverflowChecks    \* TRUE: overflow panics; FALSE: overflow wraps

ASSUME VbiAssumption ==
  /\ Base \in Nat /\ Base > 1
  /\ U32Max \in Nat /\ U32Max >= Base * Base * Base * Base
  /\ OverflowChecks \in BOOLEAN

Byte == 0 .. 2 * Base - 1

\* The continuation bit.
More(b) == b >= Base

MaxVbiLen == 4
MaxVbi == Base * Base * Base * Base - 1

\* convert_to_mqtt, which is given any u32.
EncodeVbi[n \in Nat] ==
  IF n < Base THEN <<n>> ELSE <<(n % Base) + Base>> \o EncodeVbi[n \div Base]

\* A bug: the most significant byte is taken to come first.
ValueBigEndian(bytes) == FoldLeft(LAMBDA high, b : (b % Base) + Base * high, 0, bytes)

\* The value after the loop has added these bytes, five at most, the least
\* significant first.
Value(bytes) ==
  LET digit(i) == IF i <= Len(bytes) THEN bytes[i] % Base ELSE 0
  IN  digit(1) + Base * (digit(2) + Base * (digit(3) + Base * (digit(4) + Base * digit(5))))

\* A bug: a first byte is read as the whole number, continued or not.
VbiLenIsOne(bytes) == IF bytes = <<>> THEN 0 ELSE 1

\* Number of bytes up to the first without a continuation bit, 0 if all have it.
VbiLen(bytes) == SelectInSeq(bytes, LAMBDA b : ~More(b))

Parsed(value, len) == [result |-> "ok", value |-> value, len |-> len]
Failed(result) == [result |-> result, value |-> 0, len |-> 0]

\* A bug: the loop looks at its limit too late, and takes a fifth byte.
DecodeVbiTakesFive(bytes) ==
  CASE VbiLen(bytes) \in 1 .. MaxVbiLen + 1 ->
         Parsed(Value(SubSeq(bytes, 1, VbiLen(bytes))), VbiLen(bytes))
    [] VbiLen(bytes) = 0 /\ Len(bytes) <= MaxVbiLen -> Failed("more")
    [] OTHER -> Failed("error")

\* convert_from_mqtt.  The fifth byte is added before the multiplier is found
\* to be too large.
DecodeVbi(bytes) ==
  CASE VbiLen(bytes) \in 1 .. MaxVbiLen ->
         Parsed(Value(SubSeq(bytes, 1, VbiLen(bytes))), VbiLen(bytes))
    [] VbiLen(bytes) = 0 /\ Len(bytes) <= MaxVbiLen -> Failed("more")
    [] OTHER ->
         IF OverflowChecks /\ Value(SubSeq(bytes, 1, MaxVbiLen + 1)) > U32Max
         THEN Failed("panic") ELSE Failed("error")
==============================================================================
