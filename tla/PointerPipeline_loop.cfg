\* Every loop context, the ones the loop pass deletes calls in included.
CONSTANTS
  STATICLOG_ENTRIES = 1
  STATICLOG_LOOKBACK = 1
  HASHTABLE_INITSIZE = 4
  HASHTABLE_GROWFACTOR = 4
  HASHTABLE_MAXLOADFRAC = 3
  HASHTABLE_SKIP = 13
  PtrLocs = {1, 2, 3}
  Offsets = {"pos"}
  Vectorized = FALSE
  Contexts <- MCAllContexts
  Tid = 1
SPECIFICATION Spec
INVARIANT StoredPointersRegistered
