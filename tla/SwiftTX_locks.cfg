SPECIFICATION Spec
CONSTANTS
  t1 = t1
  t2 = t2
  i1 = i1
  i2 = i2
  Tx = {t1, t2}
  Input = {i1, i2}
  Ins <- MCIns
  Masternode = {m1, m2}
  Me = {m2}
  Required = 2
  NoTx = NoTx
  NoLock = NoLock
INVARIANTS OneVotePerMasternode RequestNotShadowed
