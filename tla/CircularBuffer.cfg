\* A buffer of four slots; popped slots go back to None.
SPECIFICATION Spec
CONSTANTS
  Capacity = 4
  Item = {a, b, c}
  Vacant = None
  ClearsOnPop = TRUE
  BitAnd <- MCBitAnd
INVARIANTS
  RingConsistent
  FreedSlotsVacant
PROPERTY
  FifoSpec
