CONSTANTS
  Words = 2
  WordBits = 2
  MaxSeq = 11
  Sessions = {0, 7}
SPECIFICATION Spec
INVARIANTS NoReplay RingIsTruthful
PROPERTY ImplementsFilter
