CONSTANTS
  STATICLOG_ENTRIES = 2
  STATICLOG_LOOKBACK = 2
  HASHTABLE_INITSIZE = 8
  HASHTABLE_GROWFACTOR = 4
  HASHTABLE_MAXLOADFRAC = 2
  HASHTABLE_SKIP = 13
  Addrs <- MCAddrsSharedBlock
  Tid = 1
SPECIFICATION Spec
INVARIANT LogComplete
CHECK_DEADLOCK FALSE
