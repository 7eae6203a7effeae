\* PktIds::new in a build without overflow checks.
SPECIFICATION Spec
CONSTANTS
  MaxId = 3
  U16Max = 3
  OverflowChecks = FALSE
PROPERTIES
  ExhaustedMeansNone
