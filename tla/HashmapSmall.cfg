\* References of two bytes stand for those of four: TLC's integers have 32 bits.
CONSTANTS
  Inputs <- MCInputs
  Hash <- MCHash
  RefBytes = 2
  InitCapacity = 2
  OutsideRefs <- MCOutsideRefs
SPECIFICATION Spec
INVARIANT Frequencies
