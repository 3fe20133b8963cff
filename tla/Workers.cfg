SPECIFICATION WorkersSpec
CONSTANTS
  i1 = i1
  i2 = i2
  Items <- TwoItems
  Priorities <- TwoPriorities
  Capacity = 3
  MaxSeq = 4
  Samples <- ShortAndLong
  MaxSamples = 2
INVARIANTS
  TypeOK
  AveragesAmongSamples
PROPERTIES
  ServesInOrder
