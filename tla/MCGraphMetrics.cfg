\* All lists of four snapshots of two nodes, and lists of larger graphs.
SPECIFICATION Spec
CONSTANTS
  Inputs <- MCInputs
  MaxPathNodes = 5
INVARIANTS
  TypeOK
  ComponentsRight
  DistancesShortest
  RowsConsistent
  ConvergenceMeaningful
