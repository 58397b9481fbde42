------------------------------ MODULE DangLog ------------------------------
(***************************************************************************)
(* The per-(object, thread) pointer log of DangSan                         *)
(* (src/staticlib/Dangling/dang_san.c, dang_san.h).                        *)
(*                                                                         *)
(* A log node (dang_objlog_t) is owned by one thread and is updated only   *)
(* by it, so inserting a pointer location into it is a pure function of    *)
(* the node and the location: RegisterInNode below.  The node is a record  *)
(*   [tid, next, count, size, log, ht]                                     *)
(* where log is the static log (a sequence of compressed entries, used     *)
(* while size = 0) and ht the open-addressed hash table (a function        *)
(* 0..size-1 -> address, 0 meaning an empty slot, used once size > 0).     *)
(*                                                                         *)
(* Addresses are naturals.  A compressed entry is the 64-bit word of the   *)
(* code split into its fields: v is the first address (bits 0..47), has2   *)
(* and b2 are bit 48 and bits 49..55 (the low byte of a second address,    *)
(* bit 0 dropped), has3 and b3 are bit 56 and bits 57..63.                 *)
(***************************************************************************)
EXTENDS Integers, Sequences, FiniteSets, Bitwise

CONSTANTS
  STATICLOG_ENTRIES,      \* DANG_STATICLOG_ENTRIES (12 in the build)
  STATICLOG_LOOKBACK,     \* DANG_STATICLOG_LOOKBACK (4)
  HASHTABLE_INITSIZE,     \* DANG_HASHTABLE_INITSIZE (128), a power of two
  HASHTABLE_GROWFACTOR,   \* DANG_HASHTABLE_GROWFACTOR (4)
  HASHTABLE_MAXLOADFRAC,  \* DANG_HASHTABLE_MAXLOADFRAC (2)
  HASHTABLE_SKIP          \* DANG_HASHTABLE_SKIP (13), odd

ASSUME /\ STATICLOG_ENTRIES \in Nat \ {0}
       /\ STATICLOG_LOOKBACK \in Nat
       /\ \E k \in 1..10 : HASHTABLE_INITSIZE = 2^k
       /\ HASHTABLE_GROWFACTOR \in {2, 4, 8}
       /\ HASHTABLE_MAXLOADFRAC \in Nat \ {0}
       /\ HASHTABLE_SKIP % 2 = 1
       \* the migration of a full static log must fit in the first table
       /\ 3 * STATICLOG_ENTRIES < HASHTABLE_INITSIZE

NoEntry == [v |-> 0, has2 |-> FALSE, b2 |-> 0, has3 |-> FALSE, b3 |-> 0]

\* A fresh node as dang_alloc_threadlog / dang_init_heapobj build it.
NewNode(tid) ==
  [tid |-> tid, next |-> 0, count |-> 0, size |-> 0, log |-> <<>>, ht |-> <<>>]

Prefix(a) == a \div 256          \* bits 8..47 of an address
LowByte(a) == a % 256
LowBits(a) == LowByte(a) - (a % 2) \* p & 0xfe

(***************************************************************************)
(* Compressed entries: dang_compress_*                                     *)
(***************************************************************************)
compress_get1(e) == e.v
compress_get2(e) == Prefix(e.v) * 256 + e.b2
compress_get3(e) == Prefix(e.v) * 256 + e.b3
compress_has2(e) == e.has2
compress_has3(e) == e.has3
compress_add2(e, p) == [e EXCEPT !.has2 = TRUE, !.b2 = LowBits(p)]
compress_add3(e, p) == [e EXCEPT !.has3 = TRUE, !.b3 = LowBits(p)]
compress_matchpfx(e, p) == Prefix(p) = Prefix(e.v)
compress_match1(e, p) == LowByte(p) = LowByte(e.v)
compress_match2(e, p) == LowBits(p) = e.b2
compress_match3(e, p) == LowBits(p) = e.b3

\* The addresses one entry stands for.
EntryAddrs(e) ==
  {compress_get1(e)}
    \cup (IF compress_has2(e) THEN {compress_get2(e)} ELSE {})
    \cup (IF compress_has3(e) THEN {compress_get3(e)} ELSE {})

(***************************************************************************)
(* dang_match_log_entry: "hit" (return 1), "partial" (return 0 and record  *)
(* index in partialmatch) or "miss" (return 0).                            *)
(***************************************************************************)
dang_match_log_entry(e, p) ==
  CASE ~compress_matchpfx(e, p)                      -> "miss"
    [] compress_match1(e, p)                         -> "hit"
    [] ~compress_has2(e)                             -> "partial"
    [] compress_match2(e, p)                         -> "hit"
    [] ~compress_has3(e)                             -> "partial"
    [] compress_match3(e, p)                         -> "hit"
    [] OTHER                                         -> "miss"

(***************************************************************************)
(* dang_add_log_partial: the code computes dang_compress_add2/add3 of the  *)
(* entry but discards the result, and stores the entry back unchanged.     *)
(***************************************************************************)
dang_add_log_partial(log, index, p) ==
  LET value == log[index]
      packed == IF ~compress_has2(value) THEN compress_add2(value, p)
                                         ELSE compress_add3(value, p)
  IN  [log EXCEPT ![index] = value]   \* packed is not stored

(***************************************************************************)
(* dang_register_log: returns [ok, node]; ok = FALSE means the static log  *)
(* is full and the caller promotes it to a hash table.  Log index i of the *)
(* code is position i+1 of the sequence.                                   *)
(***************************************************************************)
dang_register_log(node, p) ==
  LET count == node.count
      lookback == IF count < STATICLOG_LOOKBACK THEN count ELSE STATICLOG_LOOKBACK
      window == {count - i + 1 : i \in 1..lookback}
      hit == \E j \in window : dang_match_log_entry(node.log[j], p) = "hit"
      partials == {j \in window : dang_match_log_entry(node.log[j], p) = "partial"}
      \* the loop runs i upwards, so the last partial match kept is the oldest
      partialmatch == CHOOSE j \in partials : \A k \in partials : j <= k
  IN  CASE hit -> [ok |-> TRUE, node |-> node]
        [] partials # {} ->
             [ok |-> TRUE,
              node |-> [node EXCEPT !.log = dang_add_log_partial(node.log, partialmatch, p)]]
        [] count >= STATICLOG_ENTRIES -> [ok |-> FALSE, node |-> node]
        [] OTHER ->
             [ok |-> TRUE,
              node |-> [node EXCEPT !.log = Append(@, [NoEntry EXCEPT !.v = p]),
                                    !.count = @ + 1]]

(***************************************************************************)
(* Hash table: dang_hashptr and dang_add_hashtable.  The probe loop of the *)
(* code never ends on a full table without p; the model gives it size      *)
(* probes and answers Full after them (HashTableSound rules that out).     *)
(***************************************************************************)
dang_hashptr(p) == p ^^ (p \div HASHTABLE_INITSIZE)

Dup == -1    \* p is already in the table
Full == -2   \* no empty slot: the loop of the code would not terminate

RECURSIVE ProbeSlot(_, _, _, _, _)
ProbeSlot(ht, size, p, index, fuel) ==
  CASE fuel = 0        -> Full
    [] ht[index] = 0   -> index
    [] ht[index] = p   -> Dup
    [] OTHER           -> ProbeSlot(ht, size, p, (index + HASHTABLE_SKIP) % size, fuel - 1)

\* Returns [added, ht]; added = 1 when p was not in the table yet.
dang_add_hashtable(ht, size, p) ==
  LET slot == ProbeSlot(ht, size, p, dang_hashptr(p) % size, size)
  IN  IF slot >= 0
      THEN [added |-> 1, ht |-> [ht EXCEPT ![slot] = p]]
      ELSE [added |-> 0, ht |-> ht]

EmptyTable(size) == [i \in 0..size-1 |-> 0]

\* Add a sequence of addresses in order, counting the new ones.
RECURSIVE AddAll(_, _, _, _)
AddAll(ht, size, ps, n) ==
  IF ps = <<>> THEN [ht |-> ht, count |-> n]
  ELSE LET r == dang_add_hashtable(ht, size, Head(ps))
       IN  AddAll(r.ht, size, Tail(ps), n + r.added)

\* The addresses of a static log in the order dang_alloc_hashtable and
\* dang_nullifyptrs_log visit them: per entry get1, then get2, then get3.
EntrySeq(e) ==
  <<compress_get1(e)>>
    \o (IF compress_has2(e) THEN <<compress_get2(e)>> ELSE <<>>)
    \o (IF compress_has3(e) THEN <<compress_get3(e)>> ELSE <<>>)

RECURSIVE LogSeq(_)
LogSeq(log) == IF log = <<>> THEN <<>> ELSE EntrySeq(Head(log)) \o LogSeq(Tail(log))

\* The non-empty slots of a table in index order.
TableSeq(ht, size) ==
  LET RECURSIVE From(_)
      From(i) == IF i >= size THEN <<>>
                 ELSE (IF ht[i] # 0 THEN <<ht[i]>> ELSE <<>>) \o From(i + 1)
  IN  From(0)

dang_alloc_hashtable(node) ==
  LET r == AddAll(EmptyTable(HASHTABLE_INITSIZE), HASHTABLE_INITSIZE, LogSeq(node.log), 0)
  IN  [node EXCEPT !.count = r.count, !.size = HASHTABLE_INITSIZE,
                   !.ht = r.ht, !.log = <<>>]

dang_grow_hashtable(node) ==
  LET sizenew == node.size * HASHTABLE_GROWFACTOR
      r == AddAll(EmptyTable(sizenew), sizenew, TableSeq(node.ht, node.size), 0)
  IN  [node EXCEPT !.size = sizenew, !.ht = r.ht]

\* Mutation: count is incremented for a duplicate too.
dang_register_hashtable_countall(node, p) ==
  LET r == dang_add_hashtable(node.ht, node.size, p)
  IN  [node EXCEPT !.ht = r.ht, !.count = @ + 1]

dang_register_hashtable(node, p) ==
  LET r == dang_add_hashtable(node.ht, node.size, p)
  IN  [node EXCEPT !.ht = r.ht, !.count = @ + r.added]

\* Mutation: after the promotion the pointer that did not fit is dropped.
RegisterInNode_droponpromote(node, p) ==
  IF node.size = 0
  THEN LET r == dang_register_log(node, p)
       IN  IF r.ok THEN r.node ELSE dang_alloc_hashtable(node)
  ELSE IF node.count * HASHTABLE_MAXLOADFRAC > node.size
       THEN dang_register_hashtable(dang_grow_hashtable(node), p)
       ELSE dang_register_hashtable(node, p)

(***************************************************************************)
(* The insertion part of dang_register, after the thread's node is found.  *)
(***************************************************************************)
RegisterInNode(node, p) ==
  IF node.size = 0
  THEN LET r == dang_register_log(node, p)
       IN  IF r.ok THEN r.node
           ELSE dang_register_hashtable(dang_alloc_hashtable(node), p)
  ELSE IF node.count * HASHTABLE_MAXLOADFRAC > node.size
       THEN dang_register_hashtable(dang_grow_hashtable(node), p)
       ELSE dang_register_hashtable(node, p)

\* The locations a node holds, in the order dang_nullifyptrs visits them.
NodeLocSeq(node) ==
  IF node.size > 0 THEN TableSeq(node.ht, node.size) ELSE LogSeq(node.log)

NodeLocs(node) ==
  IF node.size > 0 THEN {node.ht[i] : i \in 0..node.size-1} \ {0}
  ELSE UNION {EntryAddrs(node.log[i]) : i \in 1..Len(node.log)}

=============================================================================
