---------------------------- MODULE MetaPageTable ----------------------------
(***************************************************************************)
(* The metadata page table of METAlloc and its accessors                   *)
(* (src/metapagetable/metapagetable.c, defaulthooks.c,                     *)
(* src/staticlib/metaset.c, metaget.c, metadata_init.h, globalinit.c,      *)
(* stackinit.c).                                                           *)
(*                                                                         *)
(* In the indexed mode (FLAGS_METALLOC_FIXEDCOMPRESSION false) pageTable  *)
(* holds one entry per METALLOC_PAGESIZE page: (metabase << 8) | shift,    *)
(* here the record [base, align]; the slot of address a is                 *)
(*   base + ((a - page*PAGESIZE) >> align) * METADATABYTES.                *)
(* The metadata bytes are mmapped regions (allocate_metadata).  In the     *)
(* fixed mode the page table memory itself is the flat metadata array      *)
(* (flat), indexed by a / METALLOC_FIXEDSIZE.                              *)
(*                                                                         *)
(* Memory is modelled byte by byte so that two accessors that disagree on  *)
(* an offset are told apart: a byte is [v, k], byte k of the word v; a     *)
(* word is read back as v only if its bytes are v's bytes 0..W-1 in order. *)
(* Heap objects carry their id as metadata (the log head dang_init_heapobj *)
(* stores); 0 is "no metadata".                                            *)
(***************************************************************************)
EXTENDS Integers, FiniteSets, FiniteSetsExt

CONSTANTS
  PAGESHIFT,          \* METALLOC_PAGESHIFT (12)
  SYSTEM_PAGESIZE,    \* OS page size used to round metadata mappings
  METADATABYTES,      \* FLAGS_METALLOC_METADATABYTES, the slot width W (8)
  FIXEDSHIFT,         \* METALLOC_FIXEDSHIFT (3)
  FIXEDCOMPRESSION,   \* FLAGS_METALLOC_FIXEDCOMPRESSION
  GLOBALALIGN,        \* GLOBALALIGN (3)
  STACKALIGN,         \* STACKALIGN (6)
  STACKALIGN_LARGE,   \* STACKALIGN_LARGE (12)
  NPAGES,             \* pages of the modelled address space
  METASPACE,          \* bytes of the modelled mmap area for metadata
  GlobalImage,        \* [start, end] of the static image (dli_fbase, &_end)
  StackEnd, RLIMIT,   \* %rsp at startup and RLIMIT_STACK
  Threads,            \* threads created with an unsafe stack
  Stacks,             \* candidate unsafe stacks [addr, size, islarge]
  Spans,              \* candidate heap spans [addr, size, align]
  HeapObjects         \* candidate heap objects [id, addr, size]

PAGESIZE == 2^PAGESHIFT
FIXEDSIZE == 2^FIXEDSHIFT
W == METADATABYTES
Addrs == 0..(NPAGES * PAGESIZE - 1)
Pages == 0..(NPAGES - 1)
MetaBytes == 1..METASPACE
FlatBytes == 0..(((NPAGES * PAGESIZE) \div FIXEDSIZE) * W + W - 1)
Ids == {o.id : o \in HeapObjects}

ASSUME /\ W \in Nat \ {0} /\ SYSTEM_PAGESIZE \in Nat \ {0}
       /\ \A o \in HeapObjects : o.id \in Nat \ {0} /\ o.size > 0
       \* tcmalloc places objects of a span on its granule (alignment class)
       /\ \A o \in HeapObjects : \E s \in Spans :
             s.addr <= o.addr /\ o.addr + o.size <= s.addr + s.size
             /\ o.addr % 2^s.align = 0

ZeroEntry == [base |-> 0, align |-> 0]
ZeroByte == [v |-> 0, k |-> 0]
NoOwner == [start |-> -1, size |-> 0]
Fault == -1         \* the access faults (unmapped metadata)
Garbage == -2       \* the bytes read are not one word that was written

RoundUp(x, a) == ((x + a - 1) \div a) * a
Encode(v, i) == IF v = 0 THEN ZeroByte ELSE [v |-> v, k |-> i]

VARIABLES
  pageTable,        \* [Pages -> entry], indexed mode
  flat,             \* [FlatBytes -> byte], fixed mode
  metamem,          \* [MetaBytes -> byte], mmapped metadata
  metaowner,        \* [MetaBytes -> [start, size] of the range it describes]
  initialized,      \* static int initialized of initialize_global_metadata
  aborted,          \* the process has exited or faulted
  dang_global,      \* [start, size]: dang_global_start, dang_global_size
  dang_stack,       \* [Threads -> [start, size]]: the __thread stack range
  stacks,           \* [Threads -> Stacks \cup {NoStack}]
  spans,            \* heap spans published by the allocator
  live              \* live heap objects

vars == <<pageTable, flat, metamem, metaowner, initialized, aborted,
          dang_global, dang_stack, stacks, spans, live>>

NoStack == [addr |-> -1, size |-> 0, islarge |-> FALSE]

\* The memory the accessors work on, threaded through the helpers below.
Mem == [pt |-> pageTable, flat |-> flat, mem |-> metamem, own |-> metaowner,
        abort |-> aborted, ret |-> 0]

SetMem(R) == /\ pageTable' = R.pt /\ flat' = R.flat /\ metamem' = R.mem
             /\ metaowner' = R.own /\ aborted' = R.abort

Abort(M) == [M EXCEPT !.abort = TRUE]

\* Read the W-byte word at b of a byte array m whose mapped part is ok.
ReadWord(m, ok, b) ==
  IF \E i \in 0..W-1 : b + i \notin ok THEN Fault
  ELSE IF \A i \in 0..W-1 : m[b + i].v = 0 THEN 0
  ELSE IF \A i \in 0..W-1 : m[b + i] = [v |-> m[b].v, k |-> i] THEN m[b].v
  ELSE Garbage

Mapped(M) == {x \in MetaBytes : M.own[x] # NoOwner}

(***************************************************************************)
(* metapagetable.c                                                         *)
(***************************************************************************)
MetadataSize(size, alignment) ==
  RoundUp((size * W) \div 2^alignment, SYSTEM_PAGESIZE)

\* mmap(NULL, ...) of fresh zeroed pages; the model maps the lowest free
\* page-aligned range, M.ret is its address.  MAP_FAILED: exit(-1).
allocate_metadata(M, size, alignment, range) ==
  LET msz == MetadataSize(size, alignment)
      fits(b) == \A x \in b..(b + msz - 1) : x \in MetaBytes /\ M.own[x] = NoOwner
      cands == {b \in MetaBytes : b % SYSTEM_PAGESIZE = 0 /\ fits(b)}
  IN  IF msz = 0 \/ cands = {} THEN Abort(M)
      ELSE LET b == Min(cands)
               r == b..(b + msz - 1)
           IN  [M EXCEPT !.own = [x \in MetaBytes |-> IF x \in r THEN range ELSE @[x]],
                         !.mem = [x \in MetaBytes |-> IF x \in r THEN ZeroByte ELSE @[x]],
                         !.ret = b]

set_metapagetable_entries(M, ptr, size, metaptr, alignment) ==
  IF size % PAGESIZE # 0 THEN Abort(M)
  ELSE LET page == ptr \div PAGESIZE
           count == size \div PAGESIZE
           Entry(i) == [base |-> IF metaptr = 0 THEN 0
                                 ELSE metaptr + ((i * PAGESIZE) \div 2^alignment) * W,
                        align |-> alignment]
       IN  [M EXCEPT !.pt = [p \in Pages |-> IF p - page \in 0..(count - 1)
                                             THEN Entry(p - page) ELSE @[p]]]

\* Mutation: the page count stops one page short.
deallocate_metadata_short(M, ptr, size, alignment) ==
  LET index == ptr \div PAGESIZE
      metadata == M.pt[index].base
      indexEnd == (ptr + size) \div PAGESIZE - 1
      r == metadata..(metadata + MetadataSize(size, alignment) - 1)
  IN  [M EXCEPT !.pt = [p \in Pages |-> IF index <= p /\ p < indexEnd THEN ZeroEntry ELSE @[p]],
                !.own = [x \in MetaBytes |-> IF x \in r THEN NoOwner ELSE @[x]]]

deallocate_metadata(M, ptr, size, alignment) ==
  LET index == ptr \div PAGESIZE
      metadata == M.pt[index].base
      indexEnd == (ptr + size) \div PAGESIZE
      r == metadata..(metadata + MetadataSize(size, alignment) - 1)
  IN  [M EXCEPT !.pt = [p \in Pages |-> IF index <= p /\ p < indexEnd THEN ZeroEntry ELSE @[p]],
                !.own = [x \in MetaBytes |-> IF x \in r THEN NoOwner ELSE @[x]]]

(***************************************************************************)
(* metaset.c, metaget.c, defaulthooks.c                                    *)
(***************************************************************************)
SlotOf(entry, ptr, alignment) ==
  entry.base + ((ptr - (ptr \div PAGESIZE) * PAGESIZE) \div 2^alignment) * W

\* The loop of CREATE_METASET / CREATE_METASET_ALIGNMENT: metasize words
\* from the slot of ptr; a write to unmapped metadata is a SIGSEGV.
\* Mutation: the slot count is rounded down.
MetasetWords_floor(M, ptr, count, value, alignment, entry) ==
  LET metaptr == SlotOf(entry, ptr, alignment)
      r == metaptr..(metaptr + (count \div 2^alignment) * W - 1)
  IN  IF r \ Mapped(M) # {} THEN Abort(M)
      ELSE [M EXCEPT !.mem = [x \in MetaBytes |->
                         IF x \in r THEN Encode(value, (x - metaptr) % W) ELSE @[x]]]

MetasetWords(M, ptr, count, value, alignment, entry) ==
  LET metaptr == SlotOf(entry, ptr, alignment)
      metasize == (count + 2^alignment - 1) \div 2^alignment
      r == metaptr..(metaptr + metasize * W - 1)
  IN  IF r \ Mapped(M) # {} THEN Abort(M)
      ELSE [M EXCEPT !.mem = [x \in MetaBytes |->
                         IF x \in r THEN Encode(value, (x - metaptr) % W) ELSE @[x]]]

metaset_8(M, ptrInt, count, value) ==
  LET entry == M.pt[ptrInt \div PAGESIZE]
  IN  MetasetWords(M, ptrInt, count, value, entry.align, entry)

metaset_fixed_8(M, ptrInt, count, value) ==
  LET metaptr == (ptrInt \div FIXEDSIZE) * W
      metasize == (count + FIXEDSIZE - 1) \div FIXEDSIZE
      r == metaptr..(metaptr + metasize * W - 1)
  IN  [M EXCEPT !.flat = [x \in FlatBytes |->
                     IF x \in r THEN Encode(value, (x - metaptr) % W) ELSE @[x]]]

metaget_8(M, ptrInt) ==
  LET entry == M.pt[ptrInt \div PAGESIZE]
  IN  IF entry = ZeroEntry THEN 0
      ELSE ReadWord(M.mem, Mapped(M), SlotOf(entry, ptrInt, entry.align))

metaget_fixed_8(M, ptrInt) ==
  ReadWord(M.flat, FlatBytes, ptrInt \div FIXEDSIZE)

\* set_metadata with value 0 (default_alloc_hook), non-deep metadata.
set_metadata(M, ptr, size) ==
  IF ~FIXEDCOMPRESSION
  THEN LET entry == M.pt[ptr \div PAGESIZE]
       IN  MetasetWords(M, ptr, size, 0, entry.align, entry)
  ELSE LET metaptr == ptr \div FIXEDSIZE
           r == metaptr..(metaptr + ((size + FIXEDSIZE - 1) \div FIXEDSIZE) * W - 1)
       IN  [M EXCEPT !.flat = [x \in FlatBytes |-> IF x \in r THEN ZeroByte ELSE @[x]]]

MetaSet(M, ptr, count, value) ==
  IF FIXEDCOMPRESSION THEN metaset_fixed_8(M, ptr, count, value)
  ELSE metaset_8(M, ptr, count, value)

MetaGet(M, ptr) ==
  IF FIXEDCOMPRESSION THEN metaget_fixed_8(M, ptr) ELSE metaget_8(M, ptr)

(***************************************************************************)
(* Bootstrap: metadata_init.h, globalinit.c                                *)
(***************************************************************************)
initialize_metadata(M, start, end) ==
  IF start > end THEN Abort(M)
  ELSE LET aligned_start == start - (start % PAGESIZE)
           aligned_size == RoundUp(end - aligned_start, PAGESIZE)
           range == [start |-> aligned_start, size |-> aligned_size]
           A == allocate_metadata(M, aligned_size, GLOBALALIGN, range)
       IN  IF A.abort THEN A
           ELSE set_metapagetable_entries(A, aligned_start, aligned_size, A.ret, GLOBALALIGN)

\* The constructor, run once before main.  In the non-deep build the
\* metaset GlobalTracker would append for each global is commented out.
initialize_global_metadata ==
  /\ ~initialized /\ ~aborted
  /\ initialized' = TRUE
  /\ IF ~FIXEDCOMPRESSION
     THEN LET G == initialize_metadata(Mem, GlobalImage.start, GlobalImage.end)
              S == initialize_metadata(G, StackEnd - RLIMIT, StackEnd)
          IN  /\ SetMem(IF G.abort THEN G ELSE S)
              /\ dang_global' = [start |-> GlobalImage.start,
                                 size |-> GlobalImage.end - GlobalImage.start]
     ELSE UNCHANGED <<pageTable, flat, metamem, metaowner, aborted, dang_global>>
  /\ UNCHANGED <<dang_stack, stacks, spans, live>>

(***************************************************************************)
(* Unsafe stacks: stackinit.c, called when a thread's stack is created and *)
(* destroyed.  The runtime maps the stack, so it overlaps no other range.  *)
(***************************************************************************)
StackAlign(s) == IF s.islarge THEN STACKALIGN_LARGE ELSE STACKALIGN

Overlaps(a, b) == a.addr < b.addr + b.size /\ b.addr < a.addr + a.size

InUseRanges ==
  {stacks[t] : t \in {u \in Threads : stacks[u] # NoStack}} \cup spans

unsafe_stack_alloc_meta(t, s) ==
  /\ initialized /\ ~aborted /\ stacks[t] = NoStack
  /\ \A r \in InUseRanges : ~Overlaps(r, s)
  /\ dang_stack' = [dang_stack EXCEPT ![t] = [start |-> s.addr, size |-> s.size]]
  /\ stacks' = [stacks EXCEPT ![t] = s]
  /\ IF ~FIXEDCOMPRESSION
     THEN LET A == allocate_metadata(Mem, s.size, StackAlign(s),
                                     [start |-> s.addr, size |-> s.size])
          IN  SetMem(IF A.abort THEN A
                     ELSE set_metapagetable_entries(A, s.addr, s.size, A.ret, StackAlign(s)))
     ELSE UNCHANGED <<pageTable, flat, metamem, metaowner, aborted>>
  /\ UNCHANGED <<initialized, dang_global, spans, live>>

unsafe_stack_free_meta(t) ==
  /\ ~aborted /\ stacks[t] # NoStack
  /\ stacks' = [stacks EXCEPT ![t] = NoStack]
  /\ IF ~FIXEDCOMPRESSION
     THEN SetMem(deallocate_metadata(Mem, stacks[t].addr, stacks[t].size, StackAlign(stacks[t])))
     ELSE UNCHANGED <<pageTable, flat, metamem, metaowner, aborted>>
  /\ UNCHANGED <<initialized, dang_global, dang_stack, spans, live>>

(***************************************************************************)
(* Heap.  The allocator (tcmalloc, outside src/) publishes a span's page   *)
(* table entries before it hands out objects of it; on malloc it calls     *)
(* default_alloc_hook (zero the object's metadata) and then the post-hook  *)
(* dang_init_heapobj, whose metaset_8 stores the log head; on free the     *)
(* pre-hook dang_freeptr does metaset_8(obj, size, 0).                     *)
(***************************************************************************)
PublishSpan(s) ==
  /\ initialized /\ ~aborted /\ s \notin spans
  /\ \A r \in InUseRanges : ~Overlaps(r, s)
  /\ spans' = spans \cup {s}
  /\ IF ~FIXEDCOMPRESSION
     THEN LET A == allocate_metadata(Mem, s.size, s.align, [start |-> s.addr, size |-> s.size])
          IN  SetMem(IF A.abort THEN A
                     ELSE set_metapagetable_entries(A, s.addr, s.size, A.ret, s.align))
     ELSE UNCHANGED <<pageTable, flat, metamem, metaowner, aborted>>
  /\ UNCHANGED <<initialized, dang_global, dang_stack, stacks, live>>

InSpan(o) == \E s \in spans : s.addr <= o.addr /\ o.addr + o.size <= s.addr + s.size

HeapAlloc(o) ==
  /\ ~aborted /\ o \notin live /\ InSpan(o)
  /\ \A q \in live : ~Overlaps(q, o)
  /\ live' = live \cup {o}
  /\ SetMem(MetaSet(set_metadata(Mem, o.addr, o.size), o.addr, o.size, o.id))
  /\ UNCHANGED <<initialized, dang_global, dang_stack, stacks, spans>>

HeapFree(o) ==
  /\ ~aborted /\ o \in live
  /\ live' = live \ {o}
  /\ SetMem(MetaSet(Mem, o.addr, o.size, 0))
  /\ UNCHANGED <<initialized, dang_global, dang_stack, stacks, spans>>

Init ==
  /\ pageTable = [p \in Pages |-> ZeroEntry]
  /\ flat = [x \in FlatBytes |-> ZeroByte]
  /\ metamem = [x \in MetaBytes |-> ZeroByte]
  /\ metaowner = [x \in MetaBytes |-> NoOwner]
  /\ initialized = FALSE /\ aborted = FALSE
  /\ dang_global = [start |-> 0, size |-> 0]
  /\ dang_stack = [t \in Threads |-> [start |-> 0, size |-> 0]]
  /\ stacks = [t \in Threads |-> NoStack]
  /\ spans = {} /\ live = {}

Next ==
  \/ initialize_global_metadata
  \/ \E t \in Threads, s \in Stacks : unsafe_stack_alloc_meta(t, s)
  \/ \E t \in Threads : unsafe_stack_free_meta(t)
  \/ \E s \in Spans : PublishSpan(s)
  \/ \E o \in HeapObjects : HeapAlloc(o) \/ HeapFree(o)

Spec == Init /\ [][Next]_vars

(***************************************************************************)
(* Properties                                                              *)
(***************************************************************************)
TypeOK ==
  /\ pageTable \in [Pages -> [base : Nat, align : Nat]]
  /\ live \subseteq HeapObjects /\ spans \subseteq Spans
  /\ aborted \in BOOLEAN /\ initialized \in BOOLEAN

\* Every page with a non-zero entry (publish, clear: set_/deallocate_
\* metadata) has its whole metadata mapped, and mapped for a range that
\* covers this page: a stale entry after a stack is freed, or an entry
\* into another region's metadata, breaks it.  Nothing faults: the process
\* never aborts.
EntriesBacked ==
  /\ ~aborted
  /\ \A p \in Pages : pageTable[p] # ZeroEntry =>
        \A o \in 0..(PAGESIZE - 1) :
          LET b == SlotOf(pageTable[p], p * PAGESIZE + o, pageTable[p].align)
          IN  \A x \in b..(b + W - 1) :
                /\ x \in MetaBytes
                /\ metaowner[x].start <= p * PAGESIZE
                /\ p * PAGESIZE < metaowner[x].start + metaowner[x].size

\* metaget_8 of every byte of a live heap object returns what the last
\* metaset_8 for that object stored (dang_init_heapobj), and of every byte
\* of a freed object returns 0 (dang_freeptr) unless its granule is shared
\* with a live object: the set and get arithmetic agree, and one object's
\* metaset never reaches into the slots of a neighbour.
Granule(a) ==
  IF FIXEDCOMPRESSION THEN a \div FIXEDSIZE
  ELSE a \div 2^(CHOOSE s \in Spans : a - s.addr \in 0..(s.size - 1)).align

Covers(o, a) == Granule(a) \in Granule(o.addr)..Granule(o.addr + o.size - 1)

Expected(a) ==
  IF \E o \in live : Covers(o, a) THEN (CHOOSE o \in live : Covers(o, a)).id ELSE 0

MetaRoundTrip ==
  \A o \in HeapObjects : \A a \in o.addr..(o.addr + o.size - 1) :
     InSpan(o) => MetaGet(Mem, a) = Expected(a)

=============================================================================
