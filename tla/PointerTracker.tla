---------------------------- MODULE PointerTracker ----------------------------
(***************************************************************************)
(* The PointerTracker LLVM pass (src/llvm-plugins/PointerTracker.cpp)      *)
(* walks every store of a function and decides, from the store's operands *)
(* alone, whether to insert inlinedang_registerptr(ptr_addr, obj_addr)     *)
(* next to it (just before it: the iterator meant to point past the store *)
(* is never advanced, PointerTracker.cpp:181-183).  The decision is a pure function of the store, so it is       *)
(* modelled as operators over a small IR: a value is a record whose op is  *)
(* the instruction kind and whose fields are its operands.  The program    *)
(* that runs the instrumented code is a sequence of such stores over a few *)
(* memory slots; a step executes one store and the call the pass inserted *)
(* for it.  The object whose pointers are tracked is one heap object.    *)
(*                                                                         *)
(* A slot's content is abstracted to the region its pointer lies in:       *)
(*   "H"    inside the heap object,                                        *)
(*   "Hout" derived from the object but below it (GCC's `malloc() - c`),   *)
(*   "S", "G", "F", "N"   stack, global, function, null.                   *)
(***************************************************************************)
EXTENDS Naturals, FiniteSets

CONSTANTS PtrLocs,     \* heap slots of pointer type (T *)
          Offsets,     \* GEP index kinds the program uses: "pos", "neg", "subzero"
          Vectorized   \* whether stores of <2 x T*> vectors occur

ASSUME /\ PtrLocs \subseteq Nat
       /\ Offsets \subseteq {"pos", "neg", "subzero"}
       /\ Vectorized \in BOOLEAN

Locs == PtrLocs
SlotTy(l) == "ptr"

(* An address operand: slot `loc` seen through a pointer to `as`.  It is a *)
(* bitcast of the slot's own address when `as` differs from the slot type: *)
(* "i64" reads the slot as a uintptr_t, "vec" as a <2 x T*> of two slots. *)
Addrs ==
  {[loc |-> l, as |-> a] : l \in Locs, a \in {"ptr", "i64"}}
  \cup IF Vectorized
       THEN {[loc |-> l, as |-> "vec"] : l \in {k \in PtrLocs : k + 1 \in PtrLocs}}
       ELSE {}
IsCast(A) == A.as # SlotTy(A.loc)

(* The IR values a stored operand can be, up to one derived instruction.   *)
Leaves ==
  {[op |-> o, ty |-> "ptr"] : o \in {"malloc", "alloca", "global", "null", "cload"}}
  \cup {[op |-> "func", ty |-> "fptr"]}
Loads == {[op |-> "load", ty |-> A.as, addr |-> A] : A \in Addrs}
PtrBase == {v \in Leaves \cup Loads : v.ty = "ptr"}
Derived ==
  {[op |-> "bitcast", ty |-> "ptr", arg |-> v] : v \in PtrBase}
  \cup {[op |-> "ptrtoint", ty |-> "i64", arg |-> v] : v \in PtrBase}
  \cup {[op |-> "gep", ty |-> "ptr", arg |-> v, idx |-> i] : v \in PtrBase, i \in Offsets}
  \cup {[op |-> "select", ty |-> "ptr", t |-> a, f |-> b] : a, b \in PtrBase}
Values == Leaves \cup Loads \cup Derived

(* A well-typed store: the value's type is the address's pointee type.     *)
Fits(A, v) == v.ty = A.as \/ (v.ty = "fptr" /\ A.as = "ptr")
Stores == {S \in [addr : Addrs, val : Values] : Fits(S.addr, S.val)}

-----------------------------------------------------------------------------
(* The pass's predicates.                                                  *)

RECURSIVE isStackPointer(_)
isStackPointer(V) ==
  CASE V.op = "alloca" -> TRUE
    [] V.op \in {"bitcast", "ptrtoint", "gep"} -> isStackPointer(V.arg)
    [] OTHER -> FALSE

RECURSIVE StripPointerCasts(_)
StripPointerCasts(V) == IF V.op = "bitcast" THEN StripPointerCasts(V.arg) ELSE V

(* Mutant: a select counts as global when either arm is.                 *)
RECURSIVE isGlobalPointer_either(_)
isGlobalPointer_either(V0) ==
  LET V == StripPointerCasts(V0) IN
  CASE V.op \in {"global", "func", "cload"} -> TRUE
    [] V.op \in {"ptrtoint", "gep"} -> isGlobalPointer_either(V.arg)
    [] V.op = "select" -> isGlobalPointer_either(V.t) \/ isGlobalPointer_either(V.f)
    [] OTHER -> FALSE

(* A function is a GlobalValue; "cload" is a load from constant memory.    *)
RECURSIVE isGlobalPointer(_)
isGlobalPointer(V0) ==
  LET V == StripPointerCasts(V0) IN
  CASE V.op \in {"global", "func", "cload"} -> TRUE
    [] V.op \in {"ptrtoint", "gep"} -> isGlobalPointer(V.arg)
    [] V.op = "select" -> isGlobalPointer(V.t) /\ isGlobalPointer(V.f)
    [] OTHER -> FALSE

isDoublePointer(A) == A.as = "ptr"

(* A load is a pointer operand when its address, or the operand of the     *)
(* bitcast that produced its address, has type T**.                        *)
isPointerOperand(V) ==
  \/ V.ty \in {"ptr", "fptr"}
  \/ V.op = "ptrtoint"
  \/ /\ V.op = "load"
     /\ \/ isDoublePointer(V.addr)
        \/ IsCast(V.addr) /\ SlotTy(V.addr.loc) = "ptr"

isSameLoadStore(ptr_addr, V) ==
  V.op = "gep" /\ V.arg.op = "load" /\ V.arg.addr = ptr_addr

getBoundedAddr(V) ==
  IF V.op = "gep" /\ V.idx \in {"neg", "subzero"} THEN V.arg ELSE V

(* runOnFunction's filter chain and instrumentStore: TRUE when a call to   *)
(* inlinedang_registerptr follows the store.  A vector store passes every  *)
(* filter and reaches instrumentVectorStore, which inserts nothing.        *)
Instrumented(S) ==
  /\ isPointerOperand(S.val)
  /\ ~isStackPointer(S.val)
  /\ S.val.ty # "fptr"
  /\ ~isGlobalPointer(S.val)
  /\ ~isSameLoadStore(S.addr, S.val)
  /\ S.val.op # "null"
  /\ S.val.ty # "vec"

-----------------------------------------------------------------------------
(* What the instrumented program does at run time.                         *)

VARIABLES mem,         \* slot -> region of the pointer it holds
          registered   \* slots in the heap object's log

vars == <<mem, registered>>

Regions == {"H", "Hout", "S", "G", "F", "N"}

(* A GEP keeps a pointer in its region; a negative index moves a heap      *)
(* pointer below the object, and a positive one may move it back in.       *)
Shift(r, i) ==
  CASE r \notin {"H", "Hout"} -> {r}
    [] i = "pos" -> IF r = "Hout" THEN {"H", "Hout"} ELSE {"H"}
    [] OTHER -> {"Hout"}

RECURSIVE Eval(_, _)
Eval(V, m) ==
  CASE V.op = "malloc" -> {"H"}
    [] V.op = "alloca" -> {"S"}
    [] V.op \in {"global", "cload"} -> {"G"}
    [] V.op = "func" -> {"F"}
    [] V.op = "null" -> {"N"}
    [] V.op = "load" -> {m[V.addr.loc]}
    [] V.op \in {"bitcast", "ptrtoint"} -> Eval(V.arg, m)
    [] V.op = "gep" -> UNION {Shift(r, V.idx) : r \in Eval(V.arg, m)}
    [] V.op = "select" -> Eval(V.t, m) \cup Eval(V.f, m)

(* The pairs <<stored value, value passed as obj_addr>> one execution of   *)
(* the store can produce; both come from the same evaluation of operands.  *)
Outcomes(V, m) ==
  IF getBoundedAddr(V) = V
  THEN {<<r, r>> : r \in Eval(V, m)}
  ELSE UNION {{<<s, r>> : s \in Shift(r, V.idx)} : r \in Eval(V.arg, m)}

(* inlinedang_registerptr logs the slot only when obj_addr is non-null,    *)
(* not on the stack or in the globals, and has metadata of a live heap     *)
(* object; an address below the object has none.                           *)
registerptr(r) == r = "H"

Init ==
  /\ mem = [l \in Locs |-> "N"]
  /\ registered = {}

(* The memory after store S, whose operand evaluated to o[1].  A vector    *)
(* store copies two adjacent slots.                                        *)
Write(S, o) ==
  IF S.val.ty = "vec"
  THEN [mem EXCEPT ![S.addr.loc] = mem[S.val.addr.loc],
                   ![S.addr.loc + 1] = mem[S.val.addr.loc + 1]]
  ELSE [mem EXCEPT ![S.addr.loc] = o[1]]

(* One store of the instrumented program and the call the pass put next    *)
(* to it.  Both take their operands from the same evaluation, so the call  *)
(* being just before the store does not change what it registers.          *)
Store(S) ==
  \E o \in Outcomes(S.val, mem) :
    /\ mem' = Write(S, o)
    /\ registered' = IF Instrumented(S) /\ registerptr(o[2])
                     THEN registered \cup {S.addr.loc}
                     ELSE registered

Next == \E S \in Stores : Store(S)

Spec == Init /\ [][Next]_vars

-----------------------------------------------------------------------------
TypeOK ==
  /\ mem \in [Locs -> Regions]
  /\ registered \subseteq Locs

(* The call-site contract the free sweep relies on: every pointer slot     *)
(* that holds a pointer into the heap object is in the object's log, so    *)
(* dang_freeptr visits it.  A store the pass skips (stack, global, null,   *)
(* function pointer, or `p = p + k` on the slot it loaded) must never be   *)
(* the last writer of such a pointer to an unlogged slot.                  *)
StoredPointersRegistered ==
  \A l \in PtrLocs : mem[l] = "H" => l \in registered

=============================================================================
