\* Two transactions, two contents, two blocks; leveldb may refuse one batch.
SPECIFICATION Spec
CONSTANTS
  Txid = {t1, t2}
  Coins = {c1, c2}
  Pruned = Pruned
  Absent = Absent
  NoEntry = NoEntry
  NoModifier = NoModifier
  Block = {b1, b2}
  NullHash = NullHash
  MaxWriteFailures = 1
SYMMETRY Perms
PROPERTY StoreSpec
INVARIANTS
  FlagsOK
