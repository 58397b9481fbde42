--------------------------- MODULE AbstractDangSan ---------------------------
(***************************************************************************)
(* What the DangSan runtime promises, with each operation atomic:          *)
(* an object is allocated, pointers to live objects are stored, a free    *)
(* starts, locations still pointing into the object being freed are       *)
(* tagged with DANG_NULL one at a time, and the free returns only when no *)
(* untagged pointer into the object is left.  DangSan refines it under a  *)
(* mapping that reads a location whose page faults as null (AbsMem).       *)
(***************************************************************************)
CONSTANTS Objects, Locs, NoObj

VARIABLES mem, status

Null == [obj |-> NoObj, tag |-> FALSE]
Ptr(o) == [obj |-> o, tag |-> FALSE]

Init ==
  /\ mem = [l \in Locs |-> Null]
  /\ status = [o \in Objects |-> "unalloc"]

Alloc(o) ==
  /\ status[o] = "unalloc"
  /\ status' = [status EXCEPT ![o] = "live"]
  /\ UNCHANGED mem

\* The store of a pointer, with its registration.
Store(l, o) ==
  /\ status[o] = "live"
  /\ mem' = [mem EXCEPT ![l] = Ptr(o)]
  /\ UNCHANGED status

StoreNull(l) ==
  /\ mem' = [mem EXCEPT ![l] = Null]
  /\ UNCHANGED status

FreeStart(o) ==
  /\ status[o] = "live"
  /\ status' = [status EXCEPT ![o] = "freeing"]
  /\ UNCHANGED mem

\* A location holding an untagged pointer into an object being freed.
Dangling(l, o) == mem[l] = Ptr(o)

Tag(l) ==
  /\ \E o \in Objects : status[o] = "freeing" /\ Dangling(l, o)
  /\ mem' = [mem EXCEPT ![l].tag = TRUE]
  /\ UNCHANGED status

FreeEnd(o) ==
  /\ status[o] = "freeing"
  /\ \A l \in Locs : ~Dangling(l, o)
  /\ status' = [status EXCEPT ![o] = "freed"]
  /\ UNCHANGED mem

Next ==
  \/ \E o \in Objects : Alloc(o) \/ FreeStart(o) \/ FreeEnd(o)
  \/ \E l \in Locs : StoreNull(l) \/ Tag(l) \/ \E o \in Objects : Store(l, o)

Spec == Init /\ [][Next]_<<mem, status>>

=============================================================================
