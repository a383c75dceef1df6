\* Three addresses from two sources, two new buckets of two positions.
SPECIFICATION Spec
CONSTANTS
  a1 = a1  a2 = a2  a3 = a3  s1 = s1  s2 = s2
  Addr = {a1, a2, a3}
  Source = {s1, s2}
  NewBucketOf <- MCNewBucketOf
  NewPosition <- MCNewPosition
  TriedSlot <- MCTriedSlot
  NewBucketCount = 2
  BucketSize = 2
  PerAddress = 2
  GetAddrPct = 50
  MaxId = 4
INVARIANTS Check RestartKeepsTables
PROPERTY TriedStaysKnown
