\* new_with_max below u16::MAX, as the tests call it: refused calls let the
\* lower bound of the last range grow before it overflows.  The event loop dies
\* with the panic: the model may stop there.
SPECIFICATION Spec
CONSTANTS
  MaxId = 6
  U16Max = 8
  OverflowChecks = TRUE
INVARIANTS
  IInv
  Partition
  VecBounded
PROPERTIES
  NoDoubleIssue
  ImplementsPool
CHECK_DEADLOCK FALSE
