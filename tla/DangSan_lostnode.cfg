CONSTANTS
  STATICLOG_ENTRIES = 1
  STATICLOG_LOOKBACK = 1
  HASHTABLE_INITSIZE = 4
  HASHTABLE_GROWFACTOR = 4
  HASHTABLE_MAXLOADFRAC = 2
  HASHTABLE_SKIP = 13
  t1 = t1  t2 = t2  t3 = t3  o1 = o1  o2 = o2
  NoObj = NoObj
  Threads <- MCThreads3
  Objects = {o1}
  Locs <- MCLocsDistinct
  MaxNodes = 5
  FaultLocs = {}
SPECIFICATION Spec
INVARIANT NoLostNode
