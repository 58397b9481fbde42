---------------------------- MODULE SafetyManager ----------------------------
(***************************************************************************)
(* The static safety analysis of src/llvm-plugins/Utils.cpp, shared by the *)
(* StackTracker and ByvalHandler passes.  A stack object (an alloca or a   *)
(* byval argument) is described by the uses of its address.  The code     *)
(* walks the def-use graph from the object through bitcasts, GEPs and PHIs *)
(* (the `default` case of both walks) and classifies every memory access, *)
(* store, return and call it reaches.  The walk is abstracted to the set   *)
(* of those terminal uses; an access carries the offset range that SCEV    *)
(* computes for it relative to the object, so the chain of derived values *)
(* that produced the address is not kept.                                  *)
(*                                                                         *)
(* A use is a record [k, lo, len]:                                         *)
(*   "load", "store"  access of len bytes at offset lo (the object is the  *)
(*                    pointer operand of the store)                        *)
(*   "mem"            memset/memcpy/memmove with the object as destination *)
(*                    and constant length len at offset lo                 *)
(*   "memsrc"         a mem intrinsic reading from the object              *)
(*   "memvar"         a mem intrinsic writing it with a non-constant length*)
(*   "storeptr"       the object's address is the value stored             *)
(*   "ret"            the address is returned                              *)
(*   "callsafe"       passed to a nocapture readnone argument              *)
(*   "callcap"        passed to any other call argument                    *)
(*   "lifetime"       llvm.lifetime.start/end                              *)
(*   "vaarg"          va_arg from the pointer                              *)
(***************************************************************************)
EXTENDS Integers

AccessKinds == {"load", "store", "mem"}
UseKinds == AccessKinds \cup {"memsrc", "memvar", "storeptr", "ret", "callsafe",
                              "callcap", "lifetime", "vaarg"}

(* IsAccessSafe: AllocaRange = [0, AllocaSize) must contain                *)
(* AccessStartRange + [0, AccessSize).  ConstantRange arithmetic is        *)
(* unsigned: a negative start is a huge value and never contained, an      *)
(* empty access range (size 0) is contained in every range, and an empty   *)
(* alloca range (size 0) contains no non-empty one.                        *)
IsAccessSafe(lo, len, AllocaSize) ==
  len = 0 \/ (0 <= lo /\ lo + len <= AllocaSize)

(* IsMemIntrinsicSafe: only the destination operand is checked; a          *)
(* non-constant length is unsafe.                                          *)
IsMemIntrinsicSafe(u, AllocaSize) ==
  CASE u.k = "memsrc" -> TRUE
    [] u.k = "memvar" -> FALSE
    [] OTHER          -> IsAccessSafe(u.lo, u.len, AllocaSize)

(* The switch of IsSafeStackAlloca: FALSE for a use that makes the object  *)
(* unsafe.  Lifetime markers are skipped (`continue`) before the capture   *)
(* check of calls.                                                         *)
SafeUse(u, AllocaSize) ==
  CASE u.k \in {"load", "store"}            -> IsAccessSafe(u.lo, u.len, AllocaSize)
    [] u.k = "vaarg"                        -> TRUE
    [] u.k \in {"storeptr", "ret"}          -> FALSE
    [] u.k = "lifetime"                     -> TRUE
    [] u.k \in {"mem", "memsrc", "memvar"}  -> IsMemIntrinsicSafe(u, AllocaSize)
    [] u.k = "callsafe"                     -> TRUE
    [] u.k = "callcap"                      -> FALSE

(* The DFS returns FALSE at the first unsafe use and TRUE once the         *)
(* worklist is empty.                                                      *)
IsSafeStackAlloca(uses, AllocaSize) == \A u \in uses : SafeUse(u, AllocaSize)

(* Mutant: the Ret case records nothing.                                   *)
UnsafeSideEffect_noret(u, AllocaSize) ==
  CASE u.k \in {"load", "store"}            -> ~IsAccessSafe(u.lo, u.len, AllocaSize)
    [] u.k = "vaarg"                        -> FALSE
    [] u.k = "storeptr"                     -> TRUE
    [] u.k = "ret"                          -> FALSE
    [] u.k \in {"mem", "memsrc", "memvar"}  -> ~IsMemIntrinsicSafe(u, AllocaSize)
    [] u.k \in {"callsafe", "lifetime"}     -> u.k = "lifetime"
    [] u.k = "callcap"                      -> TRUE

(* The switch of AccumulateUnsafeSideEffects(AllocaPtr, ...): TRUE when    *)
(* the pair (I, V) is recorded.  It has no lifetime case: a lifetime      *)
(* marker reaches the capture check, and its pointer argument is          *)
(* nocapture but not readnone, so it is recorded.                          *)
UnsafeSideEffect(u, AllocaSize) ==
  CASE u.k \in {"load", "store"}            -> ~IsAccessSafe(u.lo, u.len, AllocaSize)
    [] u.k = "vaarg"                        -> FALSE
    [] u.k \in {"storeptr", "ret"}          -> TRUE
    [] u.k \in {"mem", "memsrc", "memvar"}  -> ~IsMemIntrinsicSafe(u, AllocaSize)
    [] u.k \in {"callsafe", "lifetime"}     -> u.k = "lifetime"
    [] u.k = "callcap"                      -> TRUE

AccumulateUnsafeSideEffects(uses, AllocaSize) ==
  {u \in uses : UnsafeSideEffect(u, AllocaSize)}

=============================================================================
