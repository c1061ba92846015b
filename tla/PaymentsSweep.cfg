SPECIFICATION Spec
CONSTANTS
  o1 = o1
  s1 = s1
  s2 = s2
  Orders <- MCOrders
  Shares <- MCShares
  ShareOf <- MCShareOf
  Txns = {t1, t2}
  Workers = {w1, w2}
  Crashes = FALSE
  NoPayable = NoPayable
  NoTxn = NoTxn
SYMMETRY Symmetry
PROPERTY SweepSparesConfirmed
CHECK_DEADLOCK FALSE
