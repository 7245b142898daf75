CONSTANTS
  Connective <- AllConnectives
  Domain <- Domains
  MaxArity = 3
SPECIFICATION TableSpec
INVARIANTS
  EveryTupleOnce
  SublogicAgrees
CHECK_DEADLOCK FALSE
