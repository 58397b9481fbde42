--------------------------- MODULE MCMetaPageTable ---------------------------
(***************************************************************************)
(* A six-page address space of 8-byte pages, 2-byte slots:                 *)
(*   pages 0-1  the static image [2, 13)                                   *)
(*   pages 2-3  the initial stack [18, 29)                                 *)
(*   pages 4-5  unsafe stacks and one heap span, which may reuse the       *)
(*              pages of a stack that was freed                            *)
(***************************************************************************)
EXTENDS MetaPageTable

CONSTANTS t1, t2

MCThreads == {t1, t2}
MCGlobalImage == [start |-> 2, end |-> 13]
MCStacks == {[addr |-> 32, size |-> 8, islarge |-> FALSE],
             [addr |-> 32, size |-> 16, islarge |-> TRUE],
             [addr |-> 40, size |-> 8, islarge |-> FALSE]}
MCSpans == {[addr |-> 40, size |-> 8, align |-> 1]}
\* o1 and o3 overlap: they are two allocations of the same bytes
MCHeapObjects == {[id |-> 1, addr |-> 40, size |-> 3],
                  [id |-> 2, addr |-> 44, size |-> 2],
                  [id |-> 3, addr |-> 42, size |-> 2]}
=============================================================================
