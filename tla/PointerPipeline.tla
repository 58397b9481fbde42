--------------------------- MODULE PointerPipeline ---------------------------
(***************************************************************************)
(* The registration pipeline of one heap object, from the compiler to the  *)
(* run-time log: a pointer store of the program, the call                  *)
(* inlinedang_registerptr that the PointerTracker pass inserts for it, the *)
(* FreeSentryLoop pass (src/llvm-plugins/PointerLoopTracker.cpp) that may  *)
(* delete that call again when the store is in a loop, and dang_register   *)
(* (src/staticlib/Dangling/dang_san.c) that puts the slot into the storing *)
(* thread's log node of the object.                                        *)
(*                                                                         *)
(* PointerTracker is instantiated for its decision and its store           *)
(* semantics; the log node is the one of DangLog.  The loop pass sees a    *)
(* call through a few facts about the loop around it, a record of          *)
(* LoopContexts:                                                           *)
(*   loop       the store is in a loop L (its innermost one)               *)
(*   callsfree  a block of L or of a direct subloop of L calls free or     *)
(*              makes an indirect call (loopcallcheck)                     *)
(*   base       how the heap slot's address is computed: a non-GEP        *)
(*              instruction, a GEP, or a function argument                 *)
(*   dominates  the block of that address dominates every exit block of L  *)
(*   exit       L has one exit block, whose first instruction is or is not *)
(*              a PHI, or several exit blocks (getExitBlock() is NULL)     *)
(***************************************************************************)
EXTENDS DangLog

CONSTANTS PtrLocs, Offsets, Vectorized,
          Contexts,   \* the loop contexts stores of the program occur in
          Tid         \* threadlocal_id of the storing thread

VARIABLES mem,         \* slot -> region of the pointer it holds
          node,        \* the thread's log node of the object
          registered   \* history: slots passed to dang_register

vars == <<mem, node, registered>>

PT == INSTANCE PointerTracker

LoopContexts ==
  [loop : BOOLEAN, callsfree : BOOLEAN, base : {"inst", "gep", "arg"},
   dominates : BOOLEAN, exit : {"unique", "phi", "multiple"}]

ASSUME Contexts \subseteq LoopContexts /\ Tid \in Nat \ {0}

\* The slots lie in distinct 256-byte blocks: dang_register never takes
\* one for a compressible neighbour of another.
SlotAddr(l) == 256 * l + 8

(* The value the loop pass calls AI: the operand of the ptrtoint that      *)
(* instrumentStore built from ptr_addr.  A store through a slot read as    *)
(* another type has a bitcast instruction of the slot address as ptr_addr. *)
(* (A constant address would fold and be no CastInst, but a constant slot *)
(* address is a global, which inlinedang_registerptr does not log.)        *)
CastOperand(S, c) == IF PT!IsCast(S.addr) THEN "bitcast" ELSE c.base

(* Mutant: the free check of loopcallcheck is skipped.                     *)
LoopDeleted_nofreecheck(S, c) ==
  /\ c.loop
  /\ CastOperand(S, c) \in {"inst", "bitcast"}
  /\ c.dominates
  /\ c.exit = "unique"

(* runOnLoop: TRUE when the pass erases the inlinedang_registerptr call of *)
(* store S.  It leaves a loop that calls free alone; otherwise it takes a  *)
(* call whose first argument is a cast of an instruction (HAT is always    *)
(* FALSE) that is not a GEP, whose block dominates the exits, when there   *)
(* is a unique exit block not starting with a PHI.  The call meant to      *)
(* replace it in the exit block is never created.                          *)
LoopDeleted(S, c) ==
  /\ c.loop
  /\ ~c.callsfree
  /\ CastOperand(S, c) \in {"inst", "bitcast"}
  /\ c.dominates
  /\ c.exit = "unique"

Init ==
  /\ mem = [l \in PtrLocs |-> "N"]
  /\ node = NewNode(Tid)
  /\ registered = {}

(* A store S of the program in loop context c: the store itself and, when  *)
(* PointerTracker inserted the call and the loop pass kept it, the call to *)
(* inlinedang_registerptr, which calls dang_register on the thread's own   *)
(* node when the object address is that of the live heap object.          *)
Store(S, c) ==
  \E o \in PT!Outcomes(S.val, mem) :
    /\ mem' = PT!Write(S, o)
    /\ IF PT!Instrumented(S) /\ ~LoopDeleted(S, c) /\ PT!registerptr(o[2])
       THEN /\ node' = RegisterInNode(node, SlotAddr(S.addr.loc))
            /\ registered' = registered \cup {S.addr.loc}
       ELSE UNCHANGED <<node, registered>>

Next == \E S \in PT!Stores, c \in Contexts : Store(S, c)

Spec == Init /\ [][Next]_vars

-----------------------------------------------------------------------------
(***************************************************************************)
(* What the free sweep relies on: every heap slot that holds a pointer     *)
(* into the object is in the object's log node, so dang_freeptr reaches    *)
(* it.  This takes every filter of PointerTracker, every deletion of the   *)
(* loop pass and every path of dang_register (static-log append, lookback  *)
(* dedup, promotion, growth) to be right together.                         *)
(***************************************************************************)
StoredPointersRegistered ==
  \A l \in PtrLocs : mem[l] = "H" => SlotAddr(l) \in NodeLocs(node)

(***************************************************************************)
(* The node holds exactly the slots the kept calls passed to dang_register *)
(* (re-registering a slot, as a loop does, adds nothing).                  *)
(***************************************************************************)
LogComplete == NodeLocs(node) = {SlotAddr(l) : l \in registered}

(***************************************************************************)
(* Once the node is a hash table, count is the number of distinct          *)
(* locations in it (the load-factor test of dang_register reads it) and    *)
(* the table keeps an empty slot, so the probe loop of dang_add_hashtable  *)
(* terminates.                                                             *)
(***************************************************************************)
HashTableSound ==
  node.size > 0 =>
    /\ node.count = Cardinality(NodeLocs(node))
    /\ node.count < node.size

=============================================================================
