----------------------------- MODULE StackTracker -----------------------------
(***************************************************************************)
(* The two stack passes over one function, in the order the pipeline runs  *)
(* them: ByvalHandler (src/llvm-plugins/ByvalHandler.cpp) copies every     *)
(* unsafe byval argument into a fresh alloca, then StackTracker            *)
(* (src/llvm-plugins/StackTracker.cpp) runs its runOnFunction loops:       *)
(*   move   hoist the safe static allocas to the top of the entry block;   *)
(*   collect  gather the unsafe static allocas (oldStaticAllocas);         *)
(*   replace  recreate them at the top, or merge them into one i8 array    *)
(*            (MergeAllocas) when -mergedstack is given;                   *)
(*   erase  delete the replaced allocas;                                   *)
(*   instrument  for every alloca still unsafe: a zeroed MetaData_ object, *)
(*            the insertion point (GetInitPosition for static ones) and    *)
(*            the alignment of the stack it is placed on.                  *)
(* Each loop is one action.  The function's allocas and its byval argument *)
(* are chosen in Init; replaceAllUsesWith moves the use set.               *)
(***************************************************************************)
EXTENDS SafetyManager, Sequences, SequencesExt

CONSTANTS Types,                \* [alloc, store, pref]: getTypeAllocSize, getTypeStoreSize, getPrefTypeAlignment
          Counts,               \* constant array sizes of an alloca
          Aligns,               \* explicit alignments of an alloca (0: none)
          Uses,                 \* the uses an object may have
          NAllocas,             \* allocas of the function
          ArgTypes,             \* pointee types of the byval argument
          UseLargeStack,        \* -uselargestack (declared outside src/)
          LargeStackThreshold

ASSUME /\ Uses \subseteq [k : UseKinds, lo : Int, len : Nat]
       /\ NAllocas \in Nat /\ UseLargeStack \in BOOLEAN

STACKALIGN == 6           \* metadata.h
STACKALIGN_LARGE == 12
DeepMetadata == TRUE      \* METALLOC_DEEPMETADATA, cl::init(true)

I8 == [alloc |-> 1, store |-> 1, pref |-> 1]

(* An alloca: static when it is in the entry block with a constant count;  *)
(* any other alloca has a non-constant count.                              *)
Decls == {d \in [ty : Types, n : Counts, align : Aligns, static : BOOLEAN,
                 uses : {{u} : u \in Uses}] :
            d.static \/ (d.n = 1 /\ d.align = 0)}
Objs == 0..NAllocas       \* 0 is the argument, 1..NAllocas the allocas

VARIABLES MergedStack,    \* -mergedstack
          arg,            \* the pointer argument: [ty, byval, uses]
          entry,          \* the function's allocas in program order
          pc,
          toRemove,       \* allocasToRemove
          oldStatic,      \* oldStaticAllocas (ids, in order)
          staticSet,      \* staticAllocas
          merged,         \* id of the merged alloca, 0 if none
          parts,          \* the merge layout: [id, off, size, align]
          initSE,         \* static id -> SideEffects read by GetInitPosition
          meta,           \* allocas given a MetaData_ object
          nextId,
          home,           \* object -> id of the alloca now holding its uses
          origUses        \* object -> its uses before the passes

vars == <<MergedStack, arg, entry, pc, toRemove, oldStatic, staticSet, merged,
          parts, initSE, meta, nextId, home, origUses>>

MaxOf(a, b) == IF a >= b THEN a ELSE b
Ids(s) == {s[i].id : i \in DOMAIN s}

(* GetStaticAllocaAllocationSize: 0 when the count is not a constant.      *)
GetStaticAllocaAllocationSize(a) == IF a.static THEN a.ty.alloc * a.n ELSE 0

(* GetByvalArgumentSize: the store size of the pointee, 0 if not byval.    *)
GetByvalArgumentSize(x) == IF x.byval THEN x.ty.store ELSE 0

Unsafe(a) == ~IsSafeStackAlloca(a.uses, GetStaticAllocaAllocationSize(a))

(* An alloca with no explicit alignment gets its type's.                   *)
EffAlign(a) == IF a.align = 0 THEN a.ty.pref ELSE a.align

(* A copy of alloca a under a new id that takes over all of a's uses.      *)
Recreate(a, id) == [a EXCEPT !.id = id]
Cleared(a) == [a EXCEPT !.uses = {}]

Init ==
  /\ MergedStack \in BOOLEAN
  /\ arg \in {[ty |-> t, byval |-> FALSE, uses |-> {}] : t \in ArgTypes}
             \cup {[ty |-> t, byval |-> TRUE, uses |-> {u}] : t \in ArgTypes, u \in Uses}
  /\ \E d \in [1..NAllocas -> Decls] :
       entry = [i \in 1..NAllocas |-> [id |-> i, ty |-> d[i].ty, n |-> d[i].n,
                                       align |-> d[i].align, static |-> d[i].static,
                                       uses |-> d[i].uses]]
  /\ pc = "byval"
  /\ toRemove = {} /\ oldStatic = <<>> /\ staticSet = {} /\ merged = 0
  /\ parts = {} /\ initSE = <<>> /\ meta = {}
  /\ nextId = NAllocas + 1
  /\ home = [o \in Objs |-> o]
  /\ origUses = [o \in Objs |-> IF o = 0 THEN arg.uses ELSE entry[o].uses]

-----------------------------------------------------------------------------
\* Mutant: replaceAllUsesWith is left out; the copy only gets the memcpy.
ByvalCopy_norauw ==
  LET Size == GetByvalArgumentSize(arg)
      NewAlloca == [id |-> nextId, ty |-> arg.ty, n |-> 1, align |-> 0, static |-> TRUE,
                    uses |-> {[k |-> "mem", lo |-> 0, len |-> Size]}]
  IN /\ pc = "byval"
     /\ arg.byval /\ ~IsSafeStackAlloca(arg.uses, Size)
     /\ entry' = <<NewAlloca>> \o entry
     /\ arg' = [arg EXCEPT !.uses = @ \cup {[k |-> "memsrc", lo |-> 0, len |-> Size]}]
     /\ nextId' = nextId + 1
     /\ pc' = "move"
     /\ UNCHANGED <<MergedStack, toRemove, oldStatic, staticSet, merged, parts, initSE,
                    meta, home, origUses>>

(* ByvalHandler::runOnFunction.  An unsafe byval argument gets a new       *)
(* alloca at the first insertion point, takes over all the argument's     *)
(* uses, and is filled by memcpy(Dst, Src, Size); Src is a cast of the    *)
(* argument made after replaceAllUsesWith, so it is the argument's only   *)
(* use left.                                                               *)
ByvalCopy ==
  LET Size == GetByvalArgumentSize(arg)
      NewAlloca == [id |-> nextId, ty |-> arg.ty, n |-> 1, align |-> 0, static |-> TRUE,
                    uses |-> arg.uses \cup {[k |-> "mem", lo |-> 0, len |-> Size]}]
  IN /\ pc = "byval"
     /\ arg.byval /\ ~IsSafeStackAlloca(arg.uses, Size)
     /\ entry' = <<NewAlloca>> \o entry
     /\ arg' = [arg EXCEPT !.uses = {[k |-> "memsrc", lo |-> 0, len |-> Size]}]
     /\ home' = [home EXCEPT ![0] = nextId]
     /\ nextId' = nextId + 1
     /\ pc' = "move"
     /\ UNCHANGED <<MergedStack, toRemove, oldStatic, staticSet, merged, parts, initSE,
                    meta, origUses>>

ByvalKeep ==
  /\ pc = "byval"
  /\ ~(arg.byval /\ ~IsSafeStackAlloca(arg.uses, GetByvalArgumentSize(arg)))
  /\ pc' = "move"
  /\ UNCHANGED <<MergedStack, arg, entry, toRemove, oldStatic, staticSet, merged, parts,
                 initSE, meta, nextId, home, origUses>>

-----------------------------------------------------------------------------
(* Renumber the objects whose uses moved: f maps old alloca ids to new.   *)
Rehome(h, f) == [o \in Objs |-> IF h[o] \in DOMAIN f THEN f[h[o]] ELSE h[o]]

IsSafeStatic(a) == a.static /\ ~Unsafe(a)
IsUnsafeStatic(a) == a.static /\ Unsafe(a)

(* The first loop of runOnFunction: every safe static alloca of the entry  *)
(* block is recreated at the top and queued in allocasToRemove.            *)
MoveSafeStatics ==
  LET S == SelectSeq(entry, IsSafeStatic)
      copies == [j \in 1..Len(S) |-> Recreate(S[j], nextId + j - 1)]
      moved == [x \in Ids(S) |-> nextId - 1 + CHOOSE j \in 1..Len(S) : S[j].id = x]
  IN /\ pc = "move"
     /\ entry' = copies \o [i \in DOMAIN entry |->
                              IF IsSafeStatic(entry[i]) THEN Cleared(entry[i]) ELSE entry[i]]
     /\ toRemove' = Ids(S)
     /\ home' = Rehome(home, moved)
     /\ nextId' = nextId + Len(S)
     /\ pc' = "collect"
     /\ UNCHANGED <<MergedStack, arg, oldStatic, staticSet, merged, parts, initSE, meta,
                    origUses>>

(* The second loop: the unsafe static allocas, in block order.             *)
CollectUnsafeStatics ==
  /\ pc = "collect"
  /\ oldStatic' = [j \in 1..Len(SelectSeq(entry, IsUnsafeStatic)) |->
                     SelectSeq(entry, IsUnsafeStatic)[j].id]
  /\ pc' = "replace"
  /\ UNCHANGED <<MergedStack, arg, entry, toRemove, staticSet, merged, parts, initSE, meta,
                 nextId, home, origUses>>

Old == [j \in 1..Len(oldStatic) |-> CHOOSE a \in Range(entry) : a.id = oldStatic[j]]

(* Without -mergedstack every unsafe static alloca is recreated at the top *)
(* with its type, count and alignment, and put in staticAllocas.           *)
RecreateUnsafeStatics ==
  LET copies == [j \in 1..Len(Old) |-> Recreate(Old[j], nextId + j - 1)]
      moved == [x \in Range(oldStatic) |-> nextId - 1 + CHOOSE j \in 1..Len(Old) : Old[j].id = x]
  IN /\ pc = "replace"
     /\ ~MergedStack
     /\ entry' = copies \o [i \in DOMAIN entry |->
                              IF entry[i].id \in Range(oldStatic) THEN Cleared(entry[i])
                              ELSE entry[i]]
     /\ staticSet' = Ids(copies)
     /\ home' = Rehome(home, moved)
     /\ nextId' = nextId + Len(Old)
     /\ pc' = "erase"
     /\ UNCHANGED <<MergedStack, arg, toRemove, oldStatic, merged, parts, initSE, meta,
                    origUses>>

(* LLVM RoundUpToAlignment.                                                *)
RoundUpToAlignment(Value, Align) == ((Value + Align - 1) \div Align) * Align

PartAlign(a) == MaxOf(a.ty.pref, a.align)

(* Mutant: zero-sized objects keep size 0.                                 *)
PartSize_zero(a) == a.ty.alloc * a.n

PartSize(a) == IF a.ty.alloc * a.n = 0 THEN 1 ELSE a.ty.alloc * a.n

(* The offset loop: align the stack top, record the start, add the size.   *)
LayoutStep(acc, a) ==
  LET o == RoundUpToAlignment(acc.top, PartAlign(a))
  IN [offs |-> Append(acc.offs, o), top |-> o + PartSize(a)]

Layout(s) == FoldLeft(LayoutStep, [offs |-> <<>>, top |-> 0], s)

ShiftUse(u, off) == IF u.k \in AccessKinds THEN [u EXCEPT !.lo = u.lo + off] ELSE u

(* MergeAllocas: one i8 array of staticOffset bytes aligned to the largest *)
(* alignment; each old alloca is replaced by a GEP at its offset, so its  *)
(* accesses are now at offset + lo of the merged object.                   *)
MergeAllocas ==
  LET L == Layout(Old)
      newAI == [id |-> nextId, ty |-> I8, n |-> L.top,
                align |-> Max({PartAlign(Old[j]) : j \in 1..Len(Old)}), static |-> TRUE,
                uses |-> UNION {{ShiftUse(u, L.offs[j]) : u \in Old[j].uses} : j \in 1..Len(Old)}]
  IN /\ pc = "replace"
     /\ MergedStack /\ Len(oldStatic) > 0
     /\ entry' = <<newAI>> \o [i \in DOMAIN entry |->
                                 IF entry[i].id \in Range(oldStatic) THEN Cleared(entry[i])
                                 ELSE entry[i]]
     /\ staticSet' = {nextId}
     /\ merged' = nextId
     /\ parts' = {[id |-> Old[j].id, off |-> L.offs[j], size |-> Old[j].ty.alloc * Old[j].n,
                   align |-> PartAlign(Old[j])] : j \in 1..Len(Old)}
     /\ home' = [o \in Objs |-> IF home[o] \in Range(oldStatic) THEN nextId ELSE home[o]]
     /\ nextId' = nextId + 1
     /\ pc' = "erase"
     /\ UNCHANGED <<MergedStack, arg, toRemove, oldStatic, initSE, meta, origUses>>

NothingToMerge ==
  /\ pc = "replace"
  /\ MergedStack /\ Len(oldStatic) = 0
  /\ pc' = "erase"
  /\ UNCHANGED <<MergedStack, arg, entry, toRemove, oldStatic, staticSet, merged, parts,
                 initSE, meta, nextId, home, origUses>>

Kept(a) == a.id \notin toRemove \cup Range(oldStatic)

(* eraseFromParent on allocasToRemove and oldStaticAllocas.                *)
EraseOld ==
  /\ pc = "erase"
  /\ entry' = SelectSeq(entry, Kept)
  /\ pc' = "instrument"
  /\ UNCHANGED <<MergedStack, arg, toRemove, oldStatic, staticSet, merged, parts, initSE,
                 meta, nextId, home, origUses>>

(* The alignment an interesting alloca leaves with: 1 << STACKALIGN, or    *)
(* 1 << STACKALIGN_LARGE for a large static one.                           *)
StackAlign(a) ==
  LET a1 == MaxOf(a.align, 2^STACKALIGN)
  IN IF UseLargeStack /\ a.id \in staticSet
        /\ GetStaticAllocaAllocationSize(a) >= LargeStackThreshold
     THEN MaxOf(a1, 2^STACKALIGN_LARGE) ELSE a1

(* GetInitPosition: the unsafe side effects of the alloca, whose nearest   *)
(* common dominator, hoisted out of loops, is where its MetaData_ object   *)
(* is initialised.  The dominator walk is not modelled; the set it starts  *)
(* from, with the read of its first element, is.                           *)
GetInitPosition(a) == AccumulateUnsafeSideEffects(a.uses, GetStaticAllocaAllocationSize(a))

(* The last loops over interestingAllocas: every alloca of the function    *)
(* that is still unsafe.  A static one is initialised at                   *)
(* GetInitPosition, which dereferences SideEffects.begin().                *)
Instrument ==
  LET interesting == {a \in Range(entry) : Unsafe(a)}
  IN /\ pc = "instrument"
     /\ meta' = IF DeepMetadata THEN {a.id : a \in interesting} ELSE {}
     /\ initSE' = [x \in {a.id : a \in {b \in interesting : b.id \in staticSet}} |->
                     GetInitPosition(CHOOSE b \in interesting : b.id = x)]
     /\ entry' = [i \in DOMAIN entry |->
                    IF entry[i] \in interesting THEN [entry[i] EXCEPT !.align = StackAlign(entry[i])]
                    ELSE entry[i]]
     /\ pc' = "done"
     /\ UNCHANGED <<MergedStack, arg, toRemove, oldStatic, staticSet, merged, parts, nextId,
                    home, origUses>>

Next ==
  \/ ByvalCopy \/ ByvalKeep
  \/ MoveSafeStatics \/ CollectUnsafeStatics
  \/ RecreateUnsafeStatics \/ MergeAllocas \/ NothingToMerge
  \/ EraseOld \/ Instrument

Spec == Init /\ [][Next]_vars

-----------------------------------------------------------------------------
(* MergeAllocas lays the unsafe static allocas out in one array.  Once     *)
(* the pass is done, every part lies inside the array, starts at an offset *)
(* that is a multiple of its alignment, and the array's final alignment is *)
(* a multiple of that alignment too; distinct parts have distinct start    *)
(* addresses (a zero-sized one included) and do not overlap.               *)
MergedLayoutSound ==
  pc = "done" /\ merged # 0 =>
    LET m == CHOOSE a \in Range(entry) : a.id = merged
    IN /\ \A p \in parts : /\ p.off % p.align = 0
                           /\ EffAlign(m) % p.align = 0
                           /\ p.off + p.size <= m.n
       /\ \A p, q \in parts : p.id # q.id =>
             /\ p.off # q.off
             /\ p.off + p.size <= q.off \/ q.off + q.size <= p.off

(* GetInitPosition reads *SideEffects.begin() for every interesting static *)
(* alloca: the unsafe side effects AccumulateUnsafeSideEffects collects   *)
(* for it are never empty, although the analysis that made it interesting *)
(* (IsSafeStackAlloca) is a separate walk.                                 *)
InitPositionDefined == \A x \in DOMAIN initSE : initSE[x] # {}

(* A stack object whose address escapes (stored, returned, or passed to a  *)
(* capturing call), whether a local alloca or a byval argument, ends up   *)
(* after both passes in an alloca that has its MetaData_ object and at    *)
(* least the 1 << STACKALIGN alignment of the unsafe stack.                *)
Escapes(us) == \E u \in us : u.k \in {"storeptr", "ret", "callcap"}

EscapingObjectsTracked ==
  pc = "done" =>
    \A o \in Objs :
      (o # 0 \/ arg.byval) /\ Escapes(origUses[o]) =>
        \E a \in Range(entry) : /\ a.id = home[o]
                                /\ a.id \in meta
                                /\ EffAlign(a) >= 2^STACKALIGN

=============================================================================
