\* Bytes are those of the code.  U32Max, the largest number of TLC, stands for
\* u32::MAX: no encoded number of the run lies between the two.
\* The only property besides the format indicator is the expiry interval.
SPECIFICATION Spec
CONSTANTS
  Base = 128
  U32Max = 2147483647
  OverflowChecks = TRUE
  Properties <- MCExpiry
  MaxProperties = 1
INVARIANTS
  PublishRoundTrip
