--------------------------- MODULE DangLogThread ---------------------------
(***************************************************************************)
(* One thread registering pointer locations for one object: the sequence   *)
(* of calls inlinedang_registerptr -> dang_register that reach the         *)
(* thread's own log node (dang_san.c:375-411).  registered is a history    *)
(* variable: the locations the calls passed in.                            *)
(***************************************************************************)
EXTENDS DangLog

CONSTANTS
  Addrs,   \* pointer locations the thread stores the object's address to
  Tid      \* the thread's threadlocal_id

ASSUME Addrs \subseteq Nat \ {0} /\ Tid \in Nat \ {0}

VARIABLES node, registered

vars == <<node, registered>>

Init ==
  /\ node = NewNode(Tid)
  /\ registered = {}

\* dang_register for location p, the node being the thread's own.
Register(p) ==
  /\ node' = RegisterInNode(node, p)
  /\ registered' = registered \cup {p}

Next == \E p \in Addrs : Register(p)

Spec == Init /\ [][Next]_vars

(***************************************************************************)
(* Every location passed to dang_register is in the node afterwards, and   *)
(* nothing else is: through static-log appends, lookback dedup, partial    *)
(* (compressed) matches, promotion to a hash table and its regrowth.  This *)
(* is what makes dang_freeptr find every pointer to the object.           *)
(***************************************************************************)
LogComplete == NodeLocs(node) = registered

(***************************************************************************)
(* Once the node is a hash table, count is the number of distinct          *)
(* locations in it (the load-factor test of dang_register reads it) and    *)
(* the table always keeps an empty slot, so the probe loop of              *)
(* dang_add_hashtable terminates.                                          *)
(***************************************************************************)
HashTableSound ==
  node.size > 0 =>
    /\ node.count = Cardinality(NodeLocs(node))
    /\ node.count < node.size

=============================================================================
