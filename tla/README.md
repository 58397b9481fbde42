# TLA+ models of DangSan

DangSan (`src/`) finds dangling pointers. The compiler pass
(`src/llvm-plugins/PointerTracker.cpp`) puts a call to
`inlinedang_registerptr(location, value)` next to every store of a pointer.
The runtime (`src/staticlib/Dangling/dang_san.c`) then logs that *location*
against the object the stored value points into. When the object is freed,
`dang_freeptr` walks every location logged for it. Each one that still points
into the object is overwritten with `ptr | DANG_NULL`, a non-canonical address,
so a later dereference faults.

## The parts of the system and how they interact

| part | source | role |
|---|---|---|
| Log engine | `dang_san.c`, `dang_san.h`, `dsan_atomics.h`, `dsan_common.h` | Each heap object has a lock-free singly-linked list of log nodes (`dang_objlog_t`), one per thread that stored a pointer to it. Only the owning thread writes a node. Nodes are appended with an atomic exchange on the tail's `next_log`. |
| Log node storage | `dang_san.c:83-411` | A node holds a static log of 12 compressed entries. Each 64-bit entry packs up to 3 addresses that share bits 8..47. A lookback over the last 4 entries skips duplicates. A full static log is promoted to an open-addressed hash table, which grows by ×4 when half full. |
| Free sweep | `dang_san.c:460-562` | Walks the nodes and probes each location under a `sigsetjmp`/SIGSEGV guard. If the value still points into the object, a single CAS tags it. Then the node is freed. |
| Metadata page table | `src/metapagetable/`, `src/staticlib/metaset.c`, `metaget.c` | Maps any address to an 8-byte slot holding the object's list head (`metaset_8` / `metaget_8`). |
| Metadata arena allocator | `src/gperftools-metalloc/src/metadata_page_heap.cc` | Supplies the pages that hold the metadata. |
| Bootstrap | `globalinit.c`, `stackinit.c` | Creates metadata for globals and stacks at startup. |
| LLVM passes | `src/llvm-plugins/*` | Compile-time instrumentation. `PointerTracker` decides which stores get a call to `inlinedang_registerptr`, which logs the stored-to slot in the object's log. `FreeSentryLoop` (`PointerLoopTracker.cpp`) may then erase such calls inside loops. `ByvalHandler` and `StackTracker` prepare the stack objects: unsafe byval arguments are copied into allocas, safe allocas are hoisted, unsafe ones are recreated or merged, and each unsafe alloca gets a `MetaData_` object and the alignment of the unsafe stack whose metadata `stackinit.c` maps. Both use the `SafetyManager` analysis of `Utils.cpp`. |

At run time the interaction is as follows:
- The allocator post-hook `dang_init_heapobj` publishes a first node for the allocating thread through the metadata slot.
- Any thread's `dang_register` finds or appends its own node and inserts the location.
- The free pre-hook `dang_freeptr` clears the slot, sweeps every node, and frees them.

## Modules

| module | models | state ↔ code |
|---|---|---|
| `DangLog` | log node storage: `dang_compress_*`, `dang_match_log_entry`, `dang_add_log_partial`, `dang_register_log`, `dang_hashptr`, `dang_add_hashtable`, `dang_alloc_hashtable`, `dang_grow_hashtable`, `dang_register_hashtable`, the insertion half of `dang_register`, and what `dang_nullifyptrs_*` visit | pure operators over a node record `[tid, next, count, size, log, ht]`; see the details below |
| `DangLogThread` | one thread registering locations into its own node | `node` is the `dang_objlog_t`; `registered` is the set of locations passed to `dang_register` |
| `MCDangLogThread` | address sets for TLC | |
| `DangSan` | the concurrent runtime: `dang_init_heapobj`, `inlinedang_registerptr`, `dang_register` (list walk, append, insert), the instrumented store, `dang_freeptr` (per-location probe and CAS, node free) | see the details below |
| `MCDangSan` | model values and location sets for TLC | |
| `MetaPageTable` | the metadata page table (`metapagetable.c`), the accessors `metaset_8`, `metaset_fixed_8`, `metaget_8`, `metaget_fixed_8`, `set_metadata` (`defaulthooks.c`), and bootstrap (`initialize_global_metadata`, `initialize_metadata`, `unsafe_stack_alloc_meta`, `unsafe_stack_free_meta`) | see the details below |
| `MCMetaPageTable` | the address layout for TLC: globals, two threads' stacks, one heap span and three objects | |
| `AbstractDangSan` | what the runtime promises: a store, a register and a tag are atomic, and a free ends only when no location still holds an untagged pointer to the object | `mem` and `status`, as in `DangSan` |
| `PointerTracker` | the `PointerTracker` pass's per-store decision (`runOnFunction`'s filters, `isPointerOperand`, `isStackPointer`, `isGlobalPointer`, `isSameLoadStore`, `getBoundedAddr`, `instrumentStore`) composed with `inlinedang_registerptr` at run time | see the details below |
| `PointerPipeline` | the composition of the `PointerTracker` decision, the `FreeSentryLoop` pass's `runOnLoop` (`LoopDeleted`), `inlinedang_registerptr` and the log node of `DangLog` for one thread and one heap object | `mem` as in `PointerTracker`; `node` is the thread's `dang_objlog_t`; `registered` is the set of slots passed to `dang_register`. A step `Store(S, c)` is one store `S` in loop context `c` with its call, if the passes left one |
| `MCPointerPipeline` | the loop contexts for TLC | |
| `MetadataPageHeap` | the metadata arena allocator: `MetadataPageHeap::New`, `Delete`, `RegisterSizeClass`, `Split`, `ReleaseAtLeastNPages`, `CoarsePageHeap::GrowHeap` | see the details below |

Details of the `DangLog` representation:
- The entry fields `v/has2/b2/has3/b3` are the bit fields of the 64-bit word.
- `ht` maps `0..size-1` to addresses, with 0 for an empty slot.

Details of the `DangSan` state:
- `mem` holds the pointer locations. Each value is Null or `[obj, tag]`, and `tag` is the `DANG_NULL` bit.
- `meta` is the object's metadata slot.
- `nodes` and `allocd` are the malloc'd log nodes.
- `status` is the object's lifetime.
- `threadglobal_id` and `threadlocal_id` are the id counters.
- `th[t]` is the thread's program counter and locals. Each pc is one atomic step of the code:
  - `walk` is the `while (log)` loop;
  - `xchg` is the `dang_atomic_cmpxchng` in `dang_alloc_threadlog`;
  - `link` is the plain store `new->next_log = old`;
  - `insert` is the `RegisterInNode` part;
  - `store` is the instrumented store itself;
  - `sweep` and `cas` are the read and the CAS in `dang_nullifyptr`.
- `segv_handler` is the process-wide SIGSEGV disposition (`dfl` or `dang`). `th[t].sa_old` is the `sa_old` that `dang_freeptr` saved when it installed `dang_segv_handler` (line 551). The last node step restores it (line 561).
- `FaultLocs` are the locations whose page faults when probed. `ProbeFault` models the `sigsetjmp` guard at lines 471-474: with the handler installed the probe is skipped; with `SIG_DFL` the process dies, and `crashed` is set. The value of a faulted location stays in `mem`, because the page's contents are not modelled. The page is unmapped, so the program can no longer read that value: `FreedNotDangling` covers only `Locs \ FaultLocs`, and the refinement maps a faulted location to `Null`.

The node's own content is updated in one step, because only its owner thread
touches it while the object lives.

The data is abstracted as follows:
- Addresses are naturals of the form `block*256 + offset`. This keeps the compression prefix (bits 8..47) and the low byte that the code compares.
- The static log and the hash table are scaled down by constants. In `DangSan` they are 1 entry, lookback 1, and a table of 4. In `DangLogThread` they are 2 entries, lookback 2, and a table of 8. In `PointerPipeline` they are 1 entry, lookback 1, a table of 4 and a load fraction of 3, so the third slot triggers a growth to 16. At these sizes every path runs: promotion, growth, dedup and partial match.
- One object is modelled per lifetime.

Details of the `MetaPageTable` state:
- `pageTable` maps each page to the entry `(metaptr << 8) | align`, kept as the record `[base, align]`.
- `metamem` and `metaowner` are the mmapped metadata, byte by byte. A byte is `[v, k]`: byte `k` of the word whose value is `v`. `metaowner` records the range that each mmap was made for. A read that is not one whole word gives `Garbage`, and a read of unmapped bytes gives `Fault`.
- `flat` is the fixed-compression table, which is the page table itself indexed by `ptr / FIXEDSIZE`.
- `MetaSet` and `MetaGet` are the accessors a client of spec §8's metadata API calls in the build's mode: `metaset_8`/`metaget_8` when indexed, `metaset_fixed_8`/`metaget_fixed_8` when fixed. They are modelled from the spec. In indexed mode they are exactly what `dang_san.c` calls (`metaset_8` at lines 549 and 594, `metaget_8` at 451 and 542). In fixed mode they are not: `dang_san.c` calls the indexed accessors in either mode, and nothing in `src/` calls `metaget_fixed_*`. The fixed-mode run therefore checks the exported fixed accessor pair against §8, not the heap path of `dang_san.c`.
- `stacks`, `spans` and `live` are the stacks, heap spans and objects that exist.
- `mmap(NULL, ...)` is modelled as the lowest free page-aligned range of `1..METASPACE`. `exit(-1)` sets `aborted`.
- Heap spans are published by tcmalloc, which is outside `src/`. `PublishSpan` models this from the spec: it allocates the metadata and sets the entries.
- On `malloc`, `HeapAlloc` runs `default_alloc_hook` (zero the slots) and then the `metaset` of `dang_init_heapobj`. On `free`, `HeapFree` runs `dang_freeptr`'s `metaset(obj, size, 0)`.
- In `MCMetaPageTable`, pages are 8 bytes and slots are 2 bytes. Globals have granule 2, stacks 4 or 8 (large), and the heap span 2. One stack is 16 bytes (two pages), so freeing it clears more than one entry. One object has size 3, which is not a multiple of its granule.

Details of the `MetadataPageHeap` state:
- `arena[k]` is the class that mapped arena slot `k`, if any.
- `spans` holds records `[start, len, loc, heap, ac]`:
  - `loc` is normal, returned or in use;
  - `heap` is the `list_` that records the span;
  - `ac` is `span->alignmentclass`.
- `system` and `committed` are `stats_.system_bytes` and `stats_.committed_bytes`, counted in pages.
- The tcmalloc `PageHeap` underneath is outside `src/`. Its search, carve, coalescing and release are modelled from their contract. Search takes the smallest fitting span, normal before returned, with any order among ties. Normal and returned spans never merge.
- `New` has one action per path:
  - `NewFound`: the first search finds a span;
  - `NewAfterRelease`: the fragmentation guard fires, everything is released, and the second search finds a span;
  - `NewGrow`: `GrowHeap` succeeds, and the last search either finds a span or does not;
  - `NewNoMemory`: `SystemAlloc` fails, or `Ensure` fails;
  - `NewTooLarge`: `Log(kCrash)`.
- The caller's `RegisterSizeClass` with the requested class is part of a successful `New`.
- `ReleaseAtLeastNPages(1)` releases one normal span per class.

Details of the `PointerTracker` model:
- An IR value is a record: `op` is the instruction kind (`malloc`, `alloca`, `global`, `null`, `func`, a constant-memory load `cload`, `load`, `bitcast`, `ptrtoint`, `gep`, `select`), `ty` its type, and the other fields its operands. Values are enumerated up to one derived instruction over the leaves and loads.
- An address is a slot seen as `T**`, as `i64*` (a bitcast), or as `<2 x T*>*` (a vector access of two adjacent slots). `isPointerOperand`'s look through one bitcast is the `IsCast` case.
- The pass's decision `Instrumented(S)` depends only on the store's operands, so it is an operator rather than a step.
- `mem` maps each slot to the region its pointer lies in: in the object (`H`), below it (`Hout`, the GCC `malloc() - c` idiom), stack, global, function or null. `registered` is the set of slots in the object's log.
- A step `Store(S)` executes one store and the call the pass inserted for it. The call goes just before the store, because the iterator meant to point past the store is never advanced (`PointerTracker.cpp:181-183`). Both use the same evaluation of the operands, so the order does not change what is logged. `Outcomes` pairs the stored value with the `obj_addr` that `getBoundedAddr` passes, and `registerptr` logs the slot only when `obj_addr` is in the object.

Details of the `PointerPipeline` model:
- `PT == INSTANCE PointerTracker` supplies the store set, `Instrumented`, `Outcomes`, `Write` and `registerptr`. `EXTENDS DangLog` supplies `RegisterInNode`.
- The loop pass sees a call only through a loop context record: whether the store is in a loop, whether that loop or a direct subloop calls free or makes an indirect call (`loopcallcheck`), the base of the slot address (non-GEP instruction, GEP, argument), whether it dominates the exits, and the exit (unique, starting with a PHI, several).
- `CastOperand` is the value `runOnLoop` checks: the operand of the `ptrtoint` that `instrumentStore` built from `ptr_addr` (`PointerTracker.cpp:286`). A store through an `i64*` view of the slot has a bitcast instruction there, so it counts as a non-GEP instruction even when the slot is a struct field.
- `HAT` returns FALSE before its walk (`PointerLoopTracker.cpp:187`), so the address-taken analysis is dead code and does not appear.
- Slot `l` lies at `256*l + 8`, so no two slots share a compression block.

Details of the `SafetyManager` and `StackTracker` models:
- `SafetyManager` holds operators only. A stack object is described by the set of terminal uses of its address: loads, stores, mem intrinsics, a stored address, a return, calls, lifetime markers, `va_arg`. An access carries the offset that SCEV computes relative to the object. The code's walk through bitcasts, GEPs and PHIs is flattened into that set.
- `IsAccessSafe` follows `ConstantRange` containment: a negative offset is a huge unsigned value, an empty access is always safe, and an object of size 0 contains no access.
- `SafeUse` is the switch of `IsSafeStackAlloca`. `UnsafeSideEffect` is the switch of `AccumulateUnsafeSideEffects`. They are written separately because the code has two walks. One difference: a lifetime marker is skipped by the first and recorded by the second.
- `StackTracker` runs `ByvalHandler` and then `StackTracker::runOnFunction` over one function. Its input is chosen in `Init`: two allocas, each static or dynamic, with a type, count, explicit alignment and one use; a pointer argument, byval or not; and whether `-mergedstack` is given.
- Each loop of the code is one action: `ByvalCopy`/`ByvalKeep`, `MoveSafeStatics`, `CollectUnsafeStatics`, `RecreateUnsafeStatics`/`MergeAllocas`/`NothingToMerge`, `EraseOld`, `Instrument`.
- `entry` is the function's allocas in order. `replaceAllUsesWith` moves the use set to the new alloca. `home` follows each original object to the alloca that holds its uses, and `origUses` keeps its uses from before the passes.
- `MergeAllocas` computes the offsets with `FoldLeft` over `LayoutStep`, which is `RoundUpToAlignment`, then the size (0 becomes 1).
- `GetInitPosition` is modelled up to the side-effect set it starts from. Its dominator and loop walk is not modelled.

The model assumes a race-free client program, which the runtime relies on:
- A pointer is stored only to a live object.
- The object is not freed while a thread is inside a register or store for it (`InUse`).

## Runs

| run | cfg | expect | checks |
|---|---|---|---|
| `pipeline` | `PointerPipeline.cfg` | pass | All well-typed stores into 3 heap slots, with positive GEP offsets and no vector stores. The stores run outside loops and in five loop contexts the loop pass keeps calls in: a loop that calls free, one whose exit starts with a PHI, an address that does not dominate the exits, and a GEP address with several exits. `StoredPointersRegistered`: every slot holding a pointer into the object is in the object's log node. The in-place `p = p + k` skip is sound only because every earlier store into that slot was logged. `LogComplete`: the node holds exactly the slots passed to `dang_register`, through re-registration dedup, promotion and growth. `HashTableSound`: once promoted, `count` equals the number of distinct stored locations and stays below `size`, so the probe loop terminates. 2254 states. |
| `pipeline_loop` | `PointerPipeline_loop.cfg` | violation | `StoredPointersRegistered` over every loop context. |
| `danglog_shared_block` | `DangLogThread_shared.cfg` | violation | `LogComplete` with two locations in one block. |
| `dangsan_safety` | `DangSan_safety.cfg` | pass | With 2 threads, 1 object, 2 locations in different blocks (the first one's page faults when probed) and up to 4 nodes, it checks 3 properties. `TypeOK` is the type invariant. `FreedNotDangling`: after the free returns, no readable location holds an untagged pointer to the object, although the owner may store into a location between the sweep's probe and its CAS. `AbstractSpec`: `DangSan` implements `AbstractDangSan` under a mapping that keeps `status` and reads a faulted location as `Null`. Every internal step (walk, exchange, link, probe, node free) is a stutter, and a CAS is the abstract `Tag`, which tags only a value still pointing into the freed object. A CAS that blindly wrote the tag over a newer store breaks it. |
| `dangsan_signal` | `DangSan_signal.cfg` | violation | `ProbeFaultRecovered`: no guarded probe ever kills the process. Two threads free-register on 2 objects and one location whose page faults. |
| `dangsan_lost_node` | `DangSan_lostnode.cfg` | violation | `NoLostNode` with 3 threads. |
| `metapagetable` | `MetaPageTable.cfg` | pass | Indexed mode. `EntriesBacked`: every non-zero page entry points at metadata that is mapped for a range covering that page, and nothing aborts; this holds across stack frees and reuse of their metadata. `MetaRoundTrip`: for every byte of every object, `metaget_8` returns the id of the live object covering that byte's granule, or 0. |
| `metapagetable_fixed` | `MetaPageTable_fixed.cfg` | violation | `MetaRoundTrip` in fixed-compression mode. |
| `stacktracker` | `StackTracker.cfg` | pass | Every function of two allocas and one argument over the `MCStackTracker` sets: zero-sized and i32 types, counts 1 and 2, alignments 0 and 16, static or dynamic, and one use each; with and without `-mergedstack`. `MergedLayoutSound`: the merged parts are pairwise disjoint with distinct starts, inside the array, and aligned both at their offset and through the array's final alignment. `InitPositionDefined`: for every interesting static alloca, the side-effect set `GetInitPosition` reads `begin()` of is non-empty. `EscapingObjectsTracked`: every alloca or byval argument whose address is stored or returned ends in an alloca with a `MetaData_` object and at least 64-byte alignment. Deadlock is not checked, because the pass returns. |
| `pageheap` | `MetadataPageHeap.cfg` | pass | There are 2 classes, arenas of 6 pages, 3 arena slots, requests of 1-4 pages, and a forced coalesce every 4 pages. `TypeOK`. `ClassIsolation`: every span of `list_[ac]` lies in the data half of an arena that class `ac` mapped. `StatsConsistent`: for each class, unmapped + committed = system (the `ASSERT` of `GrowHeap`), and system equals the pages of the class's spans. Deadlock is not checked, because the crash path stops the process. |
| `pageheap_ensure_fail` | `MetadataPageHeap_ensure.cfg` | violation | `StatsConsistent` when `pagemap_.Ensure` may fail. |
| `pageheap_split` | `MetadataPageHeap_split.cfg` | violation | `ClassIsolation` when clients also call `Split`. |

Why the bounds of the passing runs are enough:
- With one object, the allocating thread owns the first node and the second thread appends one node behind it. So the list has one appender, a register races the owner's store, and a sweep races an overwrite. Two appenders racing on one list need 3 threads. That case is the violation run `dangsan_lost_node`, which is why `NoLostNode` is not a property of the passing run.
- Two locations let one thread's store overwrite a location the sweep has already read.
- The passing runs keep their locations in distinct 256-byte blocks. With locations that share a block, finding 1 below breaks the log; that is the violation run `danglog_shared_block`.

Why the bounds of `stacktracker` are enough:
- Two allocas are the smallest case in which merging, layout and overlap can go wrong. The zero-sized type exercises the size-0-to-1 rule. Counts of 2 and alignment 16 exercise padding.
- The loads 4 bytes past and 4 bytes before an object are in bounds of a merged array but not of the object alone. This reaches the hazard at `StackTracker.cpp:238`.
- The x86_fp80 byval pointee has a store size (10) below its size (16), so the memcpy copies less than the alloca holds.

Why the bounds of `metapagetable` and `pageheap` are enough:
- The layout in `MCMetaPageTable` reaches every path of the page-table code:
  - a multi-page free;
  - the reuse of freed metadata by the next mmap;
  - a metaset whose count is not a multiple of the granule;
  - two objects that share a granule.
- The `pageheap` bounds reach every path of `New`. A request of 3 pages for class 0 grows an arena and still finds nothing, because class 0 has one data page fewer. A request of 4 pages crashes. A third arena exhausts the slots. The guard fires once a class has both free and returned pages and its growth crosses a 4-page boundary.

Refinement:
- `DangSan` defines `Abs == INSTANCE AbstractDangSan WITH ...`. The mapping passes `Objects`, `Locs`, `NoObj` and `status` unchanged and maps `mem` to `AbsMem`, which reads a location of `FaultLocs` as `Null`: its page is gone. The run `dangsan_safety` checks `Abs!Spec` as a property.
- A store step is `Store` or `StoreNull`, the sweep's CAS is `Tag`, the free's start and end are `FreeStart` and `FreeEnd`, and allocation is `Alloc`. `FreeEnd` is only enabled when no location is dangling, so the refinement also states that the free never returns early.
- The abstract `Tag` only tags a value that points into the object being freed. The mutant that drops the sweep's range test breaks the refinement.

Fairness and liveness:
- No run checks a liveness property, and `Spec` assumes no fairness.
- The runtime has no lock and no retry loop. The list walk of `dang_register` ends at the list's tail, and the sweep of `dang_freeptr` walks a list that no thread extends while the free runs (the client is race-free, and the metadata is cleared first), with one CAS and no retry per location. Every call therefore ends once its thread is scheduled. That follows from the code's shape, so a liveness property would show nothing.

Two hazards of `PointerTracker` are shown by configuration, not by a separate run. Each violates `StoredPointersRegistered` when its constant is changed in `PointerPipeline.cfg`:
- With `Vectorized = TRUE`, TLC needs 2 stores: a `<2 x T*>` copy of two pointer fields reaches `instrumentVectorStore` (`PointerTracker.cpp:221-225`), which inserts no call.
- With negative offsets, TLC needs 3 stores: `x = malloc() - c` is logged through `getBoundedAddr`. The copy `y = x` is not logged, because its `obj_addr` lies below the object. Then `y = y + c` is skipped by `isSameLoadStore`, and `y` points into the object without being in its log.

## Findings

1. **Partial matches are never stored** (`dang_san.c:284-299`, run `danglog_shared_block`).
   - `dang_add_log_partial` computes `dang_compress_add2/add3(value, ptr)` and discards the result. It then writes `log[index] = value` unchanged.
   - A second location whose bits 8..47 match one of the last lookback entries is therefore never logged. This is typically another pointer field of the same struct.
   - The sweep never nullifies it. The trace takes 2 registrations: 264, then 272.
2. **A node appended behind a half-linked node is lost** (`dang_san.c:170-175`, run `dangsan_lost_node`). The steps are:
   1. `dang_alloc_threadlog` makes the new node reachable by exchanging it into `prev->next_log`. Only afterwards does it store the old value (NULL) into `new->next_log`.
   2. A third thread walks to the new node and exchanges its own node into `new->next_log`.
   3. The delayed store then overwrites that link.

   The third thread's node, and every location it holds, is unreachable from the object's list: it is never swept and never freed. The trace takes 10 steps with 3 threads.
3. **The fixed-mode getter reads the wrong slot** (`metaget.c:75`, run `metapagetable_fixed`).
   - `metaget_fixed_<size>` reads at `pageTable + pos`.
   - `metaset_fixed_<size>` (`metaset.c:106`) writes at `pageTable + pos*size`.
   - `set_metadata`'s fixed branch (`defaulthooks.c:33`) also writes at `pos`.
   - With 2-byte slots, the getter reads from a different offset than the setter wrote to, as soon as the slot index is above 0. TLC shows this after one allocation. Spec §8 asks for the round trip in both modes.
4. **A failed `pagemap_.Ensure` leaves an arena counted but unusable** (`metadata_page_heap.cc:146-176`, run `pageheap_ensure_fail`).
   - `GrowHeap` adds the data pages to `system_bytes` and `committed_bytes` before `Ensure`. On failure it returns false, and the arena stays mapped (see the TODO at line 175).
   - The inflated `system_bytes` also feeds the fragmentation guard of every later `New` of that class.
5. **`Split` always uses class 0's heap** (`metadata_page_heap.h:127`, run `pageheap_split`).
   - The remainder of a split class-1 span is recorded in `list_[0]`, with `alignmentclass` 0.
   - Deleting that remainder puts pages of a class-1 arena into class 0's free lists. This contradicts spec §4.3's independent per-class heaps.
   - Whether tcmalloc's caller (`do_memalign`, outside `src/`) ever splits a metadata-heap span is not visible in `src/`.

6. **Concurrent frees race on the SIGSEGV disposition** (`dang_san.c:551, 561`, run `dangsan_signal`).
   - Each `dang_freeptr` installs `dang_segv_handler` with `sigaction` and saves the old disposition. The last node step restores it.
   - Thread A installs (saving `SIG_DFL`), thread B installs (saving `dang`), A finishes and restores `SIG_DFL` while B still sweeps. B's probe of a faulting location then kills the process.
   - Spec §5 lists the handler race as accepted, and §4.4 says a guarded probe fault is recovered. The trace shows its effect is a crash of a free that the guard should have recovered, not just a stale handler. TLC finds it in 11 states.

7. **The loop pass deletes registrations it should move** (`PointerLoopTracker.cpp:426`, run `pipeline_loop`).
   - `runOnLoop` erases the `inlinedang_registerptr` call of a store in a loop that has no free and no indirect call, when the slot address is a non-GEP instruction whose block dominates the loop's unique exit.
   - The call that should replace it in the exit block is built up to its arguments, but `B.CreateCall` is commented out. The comments at lines 370 and 423-425 and the `FreeSentryLoopStat` text say the call is moved out of the loop.
   - The heap pointer stored in the loop is never logged, and a free does not nullify it. TLC needs one store. Spec §6 says every pointer-typed store is registered. This applies only when `FreeSentryLoop` is in the pass pipeline, which the build outside `src/` decides.

## Not modelled (yet)

- The `malloc_flag` and `free_flag` one-shot suppression flags and the allocator hooks. Each flag is set right before the one allocator call whose hook consumes it, and the dispatch of the hooks is tcmalloc code outside `src/`.
- `dang_san.c`'s heap hooks in a fixed-compression build, where they would call the indexed `metaset_8`/`metaget_8` on the flat table.
- `DangSan` keeps the metadata slot abstract as `meta`. `MetaPageTable` models the page table and its accessors separately, and the two are not composed.
- The deep, base and fast accessor variants (`metaget_deep`, `metaget_base`, `metaset_fast`). The runtime never calls them.
- The statistics and diagnostic calls of `MetadataPageHeap` (`GetNextRange`, `Get*SpanStats`, `Check*`) and its size-class cache. These change no heap state.
- The stack-frame skip in `dang_nullifyptr` (`dang_san.c:466`). Locations in the model are heap cells.
- The LLVM passes `GlobalTracker`, `FreeSentry` and `CustomInliner`. `FreeSentry.cpp` is the older store pass, and it calls FreeSentry's runtime, not this one. `GlobalTracker` emits nothing in non-deep mode (its `metaset` call is commented out). In deep mode it calls `dang_init_object`, which `src/` does not define. `CustomInliner` only decides what to inline. Also not modelled is the pass order: whether `CustomInliner` inlines `inlinedang_registerptr` before `FreeSentryLoop` runs. Of `Utils.cpp`, the function- and module-level side-effect accumulators, which no pass in `src/` calls, and of `StackTracker` the dominator walk of `GetInitPosition` and `doInitialization`. Also `PointerTracker`'s function-level skips: `ISMETADATAFUNC`, three named functions, and stores tagged `PointerTrackerInstrument`.
- The statistics counters, `nothp`, and the string helpers in `compat.c`. These are diagnostics and code without shared state.
