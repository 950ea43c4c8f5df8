SPECIFICATION Spec
CONSTANT Top = 7
INVARIANTS
  Normal
  Queries
PROPERTY
  IsASet
CHECK_DEADLOCK FALSE
