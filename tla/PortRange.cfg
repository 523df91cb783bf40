\* Four ports in a word of sixteen values: First > 0 lets a release underflow,
\* Last < U16 leaves values above the range.
CONSTANTS
  First = 3
  Last = 7
  U16 = 11
SPECIFICATION Spec
INVARIANTS
  TypeOK
  Exclusive
  NothingLost
  CrashOnlyAtBoundary
PROPERTY ImplementsPool
