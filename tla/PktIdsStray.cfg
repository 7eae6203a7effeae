\* PktIds::new in a build with overflow checks, and three acknowledgements
\* that nobody asked for, of one identifier or of several.  Any of them may make
\* return_id panic: the model may stop.
SPECIFICATION StraySpec
CONSTANTS
  MaxId = 4
  U16Max = 4
  OverflowChecks = TRUE
  MaxStrays = 3
INVARIANTS
  NothingLost
PROPERTIES
  DamageContained
CHECK_DEADLOCK FALSE
