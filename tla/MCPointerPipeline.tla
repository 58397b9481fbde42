------------------------- MODULE MCPointerPipeline -------------------------
EXTENDS PointerPipeline

Ctx(lp, fr, b, d, x) ==
  [loop |-> lp, callsfree |-> fr, base |-> b, dominates |-> d, exit |-> x]

\* Stores outside loops, and loops in which the loop pass keeps every call:
\* one that calls free, one whose exit block starts with a PHI, one where
\* the address does not dominate the exits, and one with several exits.
MCKeptContexts ==
  { Ctx(FALSE, FALSE, "inst", TRUE, "unique"),
    Ctx(TRUE, TRUE, "inst", TRUE, "unique"),
    Ctx(TRUE, FALSE, "inst", TRUE, "phi"),
    Ctx(TRUE, FALSE, "inst", FALSE, "unique"),
    Ctx(TRUE, FALSE, "gep", TRUE, "multiple") }

\* Every loop context.
MCAllContexts == LoopContexts

=============================================================================
