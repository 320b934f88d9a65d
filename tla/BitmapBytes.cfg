SPECIFICATION Spec
CONSTANT Used <- Corners
INVARIANTS
  LookupRight
  TwoLevelsAgree
PROPERTY
  ImplementsReadyTable
