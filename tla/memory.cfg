CONSTANTS
  Modulus = 16
  Powers <- PowersOfWord
  MaxCapacity = 3
  MaxViews = 2
  Indices <- SmallAndMax
SPECIFICATION MemorySpec
INVARIANTS
  ViewsInBounds
  LayoutFits
PROPERTIES
  RangesKept
  InitKept
CHECK_DEADLOCK FALSE
