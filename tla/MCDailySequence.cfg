SPECIFICATION SequenceSpec
CONSTANT Requests = {r1, r2, r3}
CHECK_DEADLOCK FALSE
INVARIANTS
  NumbersAreGapless
