\* All percentages, two periods.
SPECIFICATION Spec
CONSTANTS
  InvalidPcts <- MCAllPcts
  DropPcts <- MCSomePcts
  MaxPublishes = 200
INVARIANTS
  TypeOK
  MarkedExactly
  MarkedEvenly
  IgnoredEvenly
