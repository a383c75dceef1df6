CONSTANTS
  m1 = m1  m2 = m2  m3 = m3  m4 = m4  p = p  q = q  s = s  d = d  a = a  b = b
  me = me  peer = peer
  Node = {me, peer}
  SporkSigner = me
  SporkValue = {0, 9}
  SporkDefault = 9
  MaxClock = 2
  MaxSigned = 2
  Masternode = {m1, m2, m3, m4}
  Me = me
  Self = m1
  Payee = {p, q, s, d}
  LevelOf <- MCLevelOf
  Level = {1, 2}
  Deprecated = 3
  Label = {a, b}
  Main = a
  Score <- MCScore
  Child <- MCChild
  Young = {m2}
  Unstable = {m2}
  Message <- MCMessage
  Reward <- MCReward
  SignaturesRequired = 2
  SignaturesTotal = 3
  Ahead = 1
  MaxAhead = 2
  Past = 0
  Limit = 0
  RankDepth = 1
  Start = 5
  Settled = 4
  MaxHeight = 7
  VoteHeight = {6, 7}
  Budgets <- MCBudgets
SPECIFICATION FairSpec
VIEW UsedFile
INVARIANTS NoDoubleVote VotesAreVoters OnePayeeEnforced OwnBlockAccepted
PROPERTY SporksConverge
CHECK_DEADLOCK FALSE
