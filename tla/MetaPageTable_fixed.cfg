CONSTANTS
  PAGESHIFT = 3
  SYSTEM_PAGESIZE = 8
  METADATABYTES = 2
  FIXEDSHIFT = 1
  FIXEDCOMPRESSION = TRUE
  GLOBALALIGN = 1
  STACKALIGN = 2
  STACKALIGN_LARGE = 3
  NPAGES = 6
  METASPACE = 87
  StackEnd = 29
  RLIMIT = 11
  t1 = t1
  t2 = t2
  GlobalImage <- MCGlobalImage
  Threads <- MCThreads
  Stacks <- MCStacks
  Spans <- MCSpans
  HeapObjects <- MCHeapObjects
SPECIFICATION Spec
INVARIANT MetaRoundTrip
