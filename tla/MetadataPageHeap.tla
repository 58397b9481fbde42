--------------------------- MODULE MetadataPageHeap ---------------------------
(***************************************************************************)
(* The metadata arena allocator of METAlloc's tcmalloc                     *)
(* (src/gperftools-metalloc/src/metadata_page_heap.cc, .h).               *)
(*                                                                         *)
(* MetadataPageHeap keeps one CoarsePageHeap list_[ac] per alignment class *)
(* ac.  A heap grows by whole arenas of ARENAPAGES pages; the first half   *)
(* of an arena holds data pages, the second half (from METADATAOFFSET)     *)
(* their metadata, and the last word of the arena the class's alignment    *)
(* bits.  The page heap underneath (PageHeap: free lists, Carve, Delete,   *)
(* ReleaseAtLeastNPages) is tcmalloc's and is not part of src/: it is      *)
(* modelled from its contract (spec 4.3) and marked so.                    *)
(*                                                                         *)
(* A span is [start, len, loc, heap, ac]: loc is "normal" (free,           *)
(* committed), "returned" (free, unmapped) or "inuse"; heap is the index   *)
(* of the list_ that records it; ac is span->alignmentclass.  Lengths are  *)
(* in pages; byte statistics are kept in pages.                            *)
(***************************************************************************)
EXTENDS Integers, FiniteSets, FiniteSetsExt

CONSTANTS
  ARENAPAGES,        \* ARENASIZE >> kPageShift
  Classes,           \* alignment classes 0 .. kNumAlignmentClasses-1
  MAXARENAS,         \* arenas the address space holds (SystemAlloc fails after)
  INTERVALPAGES,     \* kForcedCoalesceInterval >> kPageShift
  Requests,          \* page counts New is called with
  ENSURE_MAY_FAIL    \* pagemap_.Ensure may fail to allocate

METADATAOFFSETPAGES == ARENAPAGES \div 2

\* Sizemap::AlignmentBitsForAlignment(ac): class 0 is 8-byte aligned.
AlignmentBits(ac) == 3 + ac

ASSUME /\ ARENAPAGES % 2 = 0 /\ ARENAPAGES >= 4
       /\ 0 \in Classes /\ Classes \subseteq Nat
       /\ Requests \subseteq Nat \ {0}

Slots == 0..(MAXARENAS - 1)
None == -1

VARIABLES
  arena,      \* [Slots -> Classes \cup {None}]: which class mapped the arena
  spans,      \* set of span records
  system,     \* [Classes -> Nat]: stats_.system_bytes in pages
  committed,  \* [Classes -> Nat]: stats_.committed_bytes in pages
  crashed     \* Log(kCrash) was reached

vars == <<arena, spans, system, committed, crashed>>

ArenaStart(k) == k * ARENAPAGES
ArenaOf(p) == p \div ARENAPAGES

\* The pages of an arena of class ac GrowHeap hands to the page heap.
AvailableDataPages_noguard(ac) == ARENAPAGES \div 2
AvailableDataPages(ac) == IF ac = 0 THEN ARENAPAGES \div 2 - 1 ELSE ARENAPAGES \div 2

Heap(ac) == {s \in spans : s.heap = ac}
PagesIn(S) == FoldSet(LAMBDA s, acc : s.len + acc, 0, S)
free_pages(ac) == PagesIn({s \in Heap(ac) : s.loc = "normal"})
unmapped_pages(ac) == PagesIn({s \in Heap(ac) : s.loc = "returned"})

(***************************************************************************)
(* PageHeap, modelled from its contract (tcmalloc, not under src/).        *)
(***************************************************************************)
Adjacent(a, b) == a.start + a.len = b.start

\* MergeIntoFreeList: a free span merges with the free neighbours of the
\* same kind in the same heap (normal and returned spans never merge).
RECURSIVE Coalesce(_, _)
Coalesce(S, x) ==
  LET nb == {s \in S : s # x /\ s.heap = x.heap /\ s.loc = x.loc
                       /\ (Adjacent(s, x) \/ Adjacent(x, s))}
  IN  IF nb = {} THEN S
      ELSE LET s == CHOOSE s \in nb : TRUE
               m == [x EXCEPT !.start = IF s.start < x.start THEN s.start ELSE x.start,
                              !.len = x.len + s.len]
           IN  Coalesce((S \ {s, x}) \cup {m}, m)

\* PageHeap::Delete of span sp into heap h.
PageHeapDelete(S, sp, h) ==
  LET x == [sp EXCEPT !.loc = "normal", !.heap = h]
  IN  Coalesce((S \ {sp}) \cup {x}, x)

\* ReleaseSpan: each span of R is decommitted and becomes returned.
RECURSIVE ReleaseSpans(_, _)
ReleaseSpans(S, R) ==
  IF R = {} THEN S
  ELSE LET s == CHOOSE s \in R : TRUE
           x == [s EXCEPT !.loc = "returned"]
       IN  ReleaseSpans(Coalesce((S \ {s}) \cup {x}, x), R \ {s})

NormalIn(S, ac) == {s \in S : s.heap = ac /\ s.loc = "normal"}

\* SearchFreeAndLargeLists(n) in heap state S: the smallest free span of at
\* least n pages, normal before returned; the free lists are LIFO, so any of
\* the spans of that length and kind may be the one found.
Candidates(S, ac, n) ==
  LET fit == {s \in S : s.heap = ac /\ s.loc # "inuse" /\ s.len >= n}
      best == {s \in fit : \A t \in fit : s.len <= t.len}
      normal == {s \in best : s.loc = "normal"}
  IN  IF normal # {} THEN normal ELSE best

\* Mutation: a zero-page remainder is put back when the span fits exactly.
Carve_always(S, sp, n) ==
  LET used == [sp EXCEPT !.len = n, !.loc = "inuse"]
      rest == [sp EXCEPT !.start = sp.start + n, !.len = sp.len - n]
  IN  (S \ {sp}) \cup {used} \cup {rest}

\* Carve: the first n pages are handed out, the rest stays free of the same
\* kind.
Carve(S, sp, n) ==
  LET used == [sp EXCEPT !.len = n, !.loc = "inuse"]
      rest == [sp EXCEPT !.start = sp.start + n, !.len = sp.len - n]
  IN  (S \ {sp}) \cup {used} \cup (IF sp.len > n THEN {rest} ELSE {})

(***************************************************************************)
(* MetadataPageHeap::New (metadata_page_heap.cc:51-106) and                *)
(* CoarsePageHeap::GrowHeap (126-178).                                     *)
(***************************************************************************)
\* The byte test free + unmapped >= system / 4 of New, in pages: the page
\* size is a multiple of 4, so system_bytes / 4 is exact.
FragmentationGuard(ac, n) ==
  /\ free_pages(ac) # 0 /\ unmapped_pages(ac) # 0
  /\ 4 * (free_pages(ac) + unmapped_pages(ac)) >= system[ac]
  /\ system[ac] \div INTERVALPAGES # (system[ac] + n) \div INTERVALPAGES

\* The heap state after the forced release of New, when the guard holds.
AfterGuard(ac, n) ==
  IF FragmentationGuard(ac, n) THEN ReleaseSpans(spans, NormalIn(spans, ac)) ELSE spans
Released(ac, n) == IF FragmentationGuard(ac, n) THEN free_pages(ac) ELSE 0

\* The search succeeds on S: the span is carved, returned pages handed out
\* are committed again (CommitSpan), and the caller registers the span's
\* class (RegisterSizeClass: span->alignmentclass = ac).  c is the class's
\* committed page count before the search.
Hand(S, ac, n, c) ==
  \E sp \in Candidates(S, ac, n) :
     /\ spans' = {IF s.start = sp.start /\ s.loc = "inuse" THEN [s EXCEPT !.ac = ac] ELSE s
                  : s \in Carve(S, sp, n)}
     /\ committed' = [committed EXCEPT ![ac] = c + (IF sp.loc = "returned" THEN n ELSE 0)]

\* stats_.committed_bytes += available_data_pages << kPageShift
GrowCommitted_missing(c, avail) == c
GrowCommitted(c, avail) == c + avail

\* The first search finds a span.
NewFound(n, ac) ==
  /\ ~crashed /\ n <= METADATAOFFSETPAGES
  /\ Candidates(spans, ac, n) # {}
  /\ Hand(spans, ac, n, committed[ac])
  /\ UNCHANGED <<arena, system, crashed>>

\* The guard holds, everything free is released, and the second search
\* finds a span.
NewAfterRelease(n, ac) ==
  /\ ~crashed /\ n <= METADATAOFFSETPAGES
  /\ Candidates(spans, ac, n) = {} /\ FragmentationGuard(ac, n)
  /\ Candidates(AfterGuard(ac, n), ac, n) # {}
  /\ Hand(AfterGuard(ac, n), ac, n, committed[ac] - Released(ac, n))
  /\ UNCHANGED <<arena, system, crashed>>

FreeSlots == {k \in Slots : arena[k] = None}

\* GrowHeap maps the lowest free arena, stamps its class, grows the stats,
\* and Delete()s the data pages into the heap; New searches once more.
NewGrow(n, ac) ==
  /\ ~crashed /\ n <= METADATAOFFSETPAGES
  /\ Candidates(spans, ac, n) = {} /\ Candidates(AfterGuard(ac, n), ac, n) = {}
  /\ FreeSlots # {}
  /\ LET k == Min(FreeSlots)
         avail == AvailableDataPages(ac)
         new == [start |-> ArenaStart(k), len |-> avail, loc |-> "inuse", heap |-> ac, ac |-> ac]
         S == PageHeapDelete(AfterGuard(ac, n) \cup {new}, new, ac)
         c == GrowCommitted(committed[ac] - Released(ac, n), avail)
     IN  /\ arena' = [arena EXCEPT ![k] = ac]
         /\ system' = [system EXCEPT ![ac] = @ + avail]
         /\ \/ Candidates(S, ac, n) # {} /\ Hand(S, ac, n, c)
            \/ /\ Candidates(S, ac, n) = {}
               /\ spans' = S
               /\ committed' = [committed EXCEPT ![ac] = c]
  /\ UNCHANGED crashed

\* GrowHeap fails and New returns NULL (errno = ENOMEM): TCMalloc_SystemAlloc
\* finds no room, or the arena is mapped and the stats grown but
\* pagemap_.Ensure fails and no span is made of it.
NewNoMemory(n, ac) ==
  /\ ~crashed /\ n <= METADATAOFFSETPAGES
  /\ Candidates(spans, ac, n) = {} /\ Candidates(AfterGuard(ac, n), ac, n) = {}
  /\ spans' = AfterGuard(ac, n)
  /\ \/ /\ FreeSlots = {}
        /\ committed' = [committed EXCEPT ![ac] = @ - Released(ac, n)]
        /\ UNCHANGED <<arena, system>>
     \/ /\ ENSURE_MAY_FAIL /\ FreeSlots # {}
        /\ arena' = [arena EXCEPT ![Min(FreeSlots)] = ac]
        /\ system' = [system EXCEPT ![ac] = @ + AvailableDataPages(ac)]
        /\ committed' = [committed EXCEPT ![ac] =
                           GrowCommitted(@ - Released(ac, n), AvailableDataPages(ac))]
  /\ UNCHANGED crashed

\* n > METADATAOFFSET >> kPageShift: Log(kCrash, ...) aborts the process.
NewTooLarge(n, ac) ==
  /\ ~crashed /\ n > METADATAOFFSETPAGES
  /\ crashed' = TRUE
  /\ UNCHANGED <<arena, spans, system, committed>>

New(n, ac) ==
  \/ NewFound(n, ac) \/ NewAfterRelease(n, ac) \/ NewGrow(n, ac)
  \/ NewNoMemory(n, ac) \/ NewTooLarge(n, ac)

\* MetadataPageHeap::Delete: the span goes back to list_[span->alignmentclass].
\* Mutation: every span goes back to list_[0].
Delete_first(sp) ==
  /\ ~crashed /\ sp \in spans /\ sp.loc = "inuse"
  /\ spans' = PageHeapDelete(spans, sp, 0)
  /\ UNCHANGED <<arena, system, committed, crashed>>

Delete(sp) ==
  /\ ~crashed /\ sp \in spans /\ sp.loc = "inuse"
  /\ spans' = PageHeapDelete(spans, sp, sp.ac)
  /\ UNCHANGED <<arena, system, committed, crashed>>

\* MetadataPageHeap::ReleaseAtLeastNPages(1): every class releases one of
\* its normal free spans, if it has one.
ReleaseAtLeastNPages ==
  /\ ~crashed
  /\ \E R \in SUBSET {s \in spans : s.loc = "normal"} :
       /\ R # {}
       /\ \A ac \in Classes :
            Cardinality({s \in R : s.heap = ac}) = IF NormalIn(spans, ac) = {} THEN 0 ELSE 1
       /\ spans' = ReleaseSpans(spans, R)
       /\ committed' = [ac \in Classes |-> committed[ac] - PagesIn({s \in R : s.heap = ac})]
  /\ UNCHANGED <<arena, system, crashed>>

\* MetadataPageHeap::Split: list_[0].Split records the remainder, a new
\* span whose alignmentclass is zero, in list_[0].
Split(sp, n) ==
  /\ ~crashed /\ sp \in spans /\ sp.loc = "inuse" /\ 0 < n /\ n < sp.len
  /\ spans' = (spans \ {sp}) \cup {[sp EXCEPT !.len = n],
                                    [start |-> sp.start + n, len |-> sp.len - n,
                                     loc |-> "inuse", heap |-> 0, ac |-> 0]}
  /\ UNCHANGED <<arena, system, committed, crashed>>

Init ==
  /\ arena = [k \in Slots |-> None]
  /\ spans = {}
  /\ system = [ac \in Classes |-> 0]
  /\ committed = [ac \in Classes |-> 0]
  /\ crashed = FALSE

Next ==
  \/ \E n \in Requests, ac \in Classes : New(n, ac)
  \/ \E sp \in spans : Delete(sp)
  \/ ReleaseAtLeastNPages

Spec == Init /\ [][Next]_vars

(***************************************************************************)
(* Properties.                                                             *)
(***************************************************************************)
Locs == {"normal", "returned", "inuse"}
SpanType == [start : Nat, len : Nat \ {0}, loc : Locs, heap : Classes, ac : Classes]

TypeOK ==
  /\ arena \in [Slots -> Classes \cup {None}]
  /\ spans \subseteq SpanType
  /\ system \in [Classes -> Nat] /\ committed \in [Classes -> Int]
  /\ crashed \in BOOLEAN

\* Each alignment class owns its heap: every span list_[ac] records, free or
\* in use, lies in the data half of one arena that class ac mapped, so
\* pages are never handed out for a class whose metadata granularity
\* differs from the arena's stamp (Delete by span->alignmentclass, Split).
ClassIsolation ==
  \A s \in spans :
     LET k == ArenaOf(s.start)
     IN  /\ k \in Slots /\ arena[k] = s.heap
         /\ s.start + s.len <= ArenaStart(k) + METADATAOFFSETPAGES

\* The page accounting of each class matches its spans: the ASSERT of
\* GrowHeap (unmapped + committed = system) holds after every step, and
\* every page counted in system_bytes belongs to a span of the heap.
StatsConsistent ==
  \A ac \in Classes :
     /\ unmapped_pages(ac) + committed[ac] = system[ac]
     /\ system[ac] = PagesIn(Heap(ac))

\* The same heap, whose clients also split spans they hold.
NextSplit == Next \/ \E sp \in spans, n \in Requests : Split(sp, n)

SpecSplit == Init /\ [][NextSplit]_vars

=============================================================================
