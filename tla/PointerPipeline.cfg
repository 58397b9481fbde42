\* Three heap slots in distinct blocks; a one-entry static log and a
\* four-slot first table, so three slots reach promotion and growth.
CONSTANTS
  STATICLOG_ENTRIES = 1
  STATICLOG_LOOKBACK = 1
  HASHTABLE_INITSIZE = 4
  HASHTABLE_GROWFACTOR = 4
  HASHTABLE_MAXLOADFRAC = 3
  HASHTABLE_SKIP = 13
  PtrLocs = {1, 2, 3}
  Offsets = {"pos"}
  Vectorized = FALSE
  Contexts <- MCKeptContexts
  Tid = 1
SPECIFICATION Spec
INVARIANT StoredPointersRegistered
INVARIANT LogComplete
INVARIANT HashTableSound
