\* Clients also split the spans they hold (MetadataPageHeap::Split).
\* Two alignment classes, arenas of 6 pages (3 data pages, 2 for class 0),
\* room for three arenas; a forced coalescing every 4 pages of growth.
CONSTANTS
  ARENAPAGES = 6
  Classes = {0, 1}
  MAXARENAS = 3
  INTERVALPAGES = 4
  Requests = {1, 2, 3, 4}
  ENSURE_MAY_FAIL = FALSE
SPECIFICATION SpecSplit
\* A request above METADATAOFFSET >> kPageShift aborts the process.
CHECK_DEADLOCK FALSE
INVARIANT ClassIsolation
