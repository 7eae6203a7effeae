\* Bytes are those of the code.  U32Max, the largest number of TLC, stands for
\* u32::MAX: no encoded number of the run lies between the two.
SPECIFICATION Spec
CONSTANTS
  Base = 128
  U32Max = 2147483647
  OverflowChecks = TRUE
  Properties <- MCProperties
  MaxProperties = 2
INVARIANTS
  RoundTrip
  NeedsEveryByte
  TooLongIsRefused
  PublishRoundTrip
  AckRoundTrip
  NeedsWholeAck
  RequestRoundTrip
