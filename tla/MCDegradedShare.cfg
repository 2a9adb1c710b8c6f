\* The documented setting, 50 and 50, over one period.
SPECIFICATION Spec
CONSTANTS
  InvalidPcts <- MCDocumented
  DropPcts <- MCDocumented
  MaxPublishes = 100
INVARIANT IgnoredShare
