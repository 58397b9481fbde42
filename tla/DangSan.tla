------------------------------ MODULE DangSan ------------------------------
(***************************************************************************)
(* The DangSan runtime with concurrent threads                             *)
(* (src/staticlib/Dangling/dang_san.c).                                    *)
(*                                                                         *)
(* Threads allocate objects (dang_init_heapobj), store pointers to them    *)
(* into memory locations (the instrumented store: inlinedang_registerptr   *)
(* followed by the store itself) and free them (dang_freeptr).  Each       *)
(* object's metadata slot (metaget_8/metaset_8) holds the head of its list *)
(* of per-thread log nodes.  The steps that other threads can interleave   *)
(* with are separate actions: the walk of the list, the exchange that      *)
(* links a new node and the later store of its next_log, the probe of a   *)
(* location in the free sweep and the compare-and-swap that tags it.       *)
(* Inserting into the thread's own node is one step (RegisterInNode of     *)
(* DangLog): nobody else writes that node.                                 *)
(*                                                                         *)
(* Objects are model values, one per allocation; a memory location holds  *)
(* Null or a pointer [obj, tag] into an object, tag being the DANG_NULL    *)
(* bit.  The program is assumed free of races on the objects themselves:   *)
(* it does not free an object while a thread is storing a pointer to it,   *)
(* and stores pointers only to live objects.                               *)
(***************************************************************************)
EXTENDS DangLog

CONSTANTS
  Threads,   \* OS threads
  Objects,   \* heap allocations (one lifetime each)
  Locs,      \* heap locations pointers are stored to (addresses)
  NoObj,     \* the object a Null value points to
  MaxNodes,  \* log nodes the allocator can hand out at once
  FaultLocs  \* locations whose memory may be unmapped when the sweep probes them

ASSUME /\ Locs \subseteq Nat \ {0}
       /\ NoObj \notin Objects
       /\ MaxNodes \in Nat \ {0}
       /\ FaultLocs \subseteq Locs

NodeIds == 1..MaxNodes

Null == [obj |-> NoObj, tag |-> FALSE]
Ptr(o) == [obj |-> o, tag |-> FALSE]
Tagged(v) == [v EXCEPT !.tag = TRUE]     \* ptr_value | DANG_NULL

VARIABLES
  mem,            \* location -> value
  status,         \* object -> "unalloc" | "live" | "freeing" | "freed"
  meta,           \* object -> head log node (0: no metadata)
  nodes,          \* node id -> dang_objlog_t
  allocd,         \* node ids currently allocated
  owner,          \* node id -> object it was allocated for (history)
  threadglobal_id,
  threadlocal_id, \* thread -> its id, 0 until first use
  th,             \* thread -> local state of the operation in progress
  segv_handler,   \* the process-wide SIGSEGV disposition: "dfl" or "dang"
  crashed         \* a fault reached SIG_DFL: the process was killed

vars == <<mem, status, meta, nodes, allocd, owner, threadglobal_id,
          threadlocal_id, th, segv_handler, crashed>>

Idle == [pc |-> "idle", obj |-> NoObj, loc |-> 0, cur |-> 0, prev |-> 0,
         old |-> 0, todo |-> <<>>, saved |-> Null, sa_old |-> "dfl"]

Val == {Null} \cup [obj : Objects, tag : BOOLEAN]

TypeOK ==
  /\ mem \in [Locs -> Val]
  /\ status \in [Objects -> {"unalloc", "live", "freeing", "freed"}]
  /\ meta \in [Objects -> NodeIds \cup {0}]
  /\ allocd \subseteq NodeIds
  /\ owner \in [NodeIds -> Objects \cup {NoObj}]
  /\ threadglobal_id \in Nat
  /\ threadlocal_id \in [Threads -> Nat]
  \* every node is owned by a thread id handed out by dang_atomic_add
  /\ \A n \in allocd : nodes[n].tid \in 1..threadglobal_id
  /\ \A t \in Threads :
       /\ th[t].pc \in {"idle", "walk", "xchg", "link", "insert", "store",
                        "sweep", "cas"}
       /\ th[t].cur \in NodeIds \cup {0}
       /\ th[t].todo \in Seq(Locs)
       /\ th[t].sa_old \in {"dfl", "dang"}
  /\ segv_handler \in {"dfl", "dang"} /\ crashed \in BOOLEAN

Init ==
  /\ mem = [l \in Locs |-> Null]
  /\ status = [o \in Objects |-> "unalloc"]
  /\ meta = [o \in Objects |-> 0]
  /\ nodes = [n \in NodeIds |-> NewNode(0)]
  /\ allocd = {}
  /\ owner = [n \in NodeIds |-> NoObj]
  /\ threadglobal_id = 0
  /\ threadlocal_id = [t \in Threads |-> 0]
  /\ th = [t \in Threads |-> Idle]
  /\ segv_handler = "dfl" /\ crashed = FALSE

\* DANG_MALLOC of a dang_objlog_t: the lowest free node id.
FreeNode == CHOOSE n \in NodeIds \ allocd : \A m \in NodeIds \ allocd : n <= m

\* "if (!threadlocal_id) threadlocal_id = dang_atomic_add(&threadglobal_id, 1)"
\* (dang_san.c:383-386, 580-582): the id the thread has after the test.
MyId(t) == IF threadlocal_id[t] = 0 THEN threadglobal_id + 1 ELSE threadlocal_id[t]
AssignId(t) ==
  /\ threadlocal_id' = [threadlocal_id EXCEPT ![t] = MyId(t)]
  /\ threadglobal_id' = IF threadlocal_id[t] = 0 THEN threadglobal_id + 1
                                                 ELSE threadglobal_id

Goto(t, pc) == th' = [th EXCEPT ![t].pc = pc]

\* Mutation: the node's thread_id is read before the id is assigned.
dang_init_heapobj_noid(t, o) ==
  /\ th[t].pc = "idle"
  /\ status[o] = "unalloc"
  /\ allocd # NodeIds
  /\ AssignId(t)
  /\ LET n == FreeNode
     IN  /\ nodes' = [nodes EXCEPT ![n] = NewNode(threadlocal_id[t])]
         /\ allocd' = allocd \cup {n}
         /\ owner' = [owner EXCEPT ![n] = o]
         /\ meta' = [meta EXCEPT ![o] = n]
  /\ status' = [status EXCEPT ![o] = "live"]
  /\ UNCHANGED <<mem, th, segv_handler, crashed>>

\* Mutation: the metaset_8 that publishes the node is left out.
dang_init_heapobj_nometa(t, o) ==
  /\ th[t].pc = "idle"
  /\ status[o] = "unalloc"
  /\ allocd # NodeIds
  /\ AssignId(t)
  /\ LET n == FreeNode
     IN  /\ nodes' = [nodes EXCEPT ![n] = NewNode(MyId(t))]
         /\ allocd' = allocd \cup {n}
         /\ owner' = [owner EXCEPT ![n] = o]
  /\ status' = [status EXCEPT ![o] = "live"]
  /\ UNCHANGED <<mem, meta, th, segv_handler, crashed>>

(***************************************************************************)
(* dang_init_heapobj: a new object gets one log node, owned by the         *)
(* allocating thread, published in its metadata slot.                      *)
(***************************************************************************)
dang_init_heapobj(t, o) ==
  /\ th[t].pc = "idle"
  /\ status[o] = "unalloc"
  /\ allocd # NodeIds
  /\ AssignId(t)
  /\ LET n == FreeNode
     IN  /\ nodes' = [nodes EXCEPT ![n] = NewNode(MyId(t))]
         /\ allocd' = allocd \cup {n}
         /\ owner' = [owner EXCEPT ![n] = o]
         /\ meta' = [meta EXCEPT ![o] = n]
  /\ status' = [status EXCEPT ![o] = "live"]
  /\ UNCHANGED <<mem, th, segv_handler, crashed>>

(***************************************************************************)
(* inlinedang_registerptr(l, o): the checks and metaget_8, then            *)
(* dang_register gives the thread its id and starts walking the object's  *)
(* list.  With no log head it returns before dang_register.  The          *)
(* instrumentation calls it just before the store of the pointer          *)
(* (PointerTracker.cpp).                                                   *)
(***************************************************************************)
inlinedang_registerptr(t, l, o) ==
  /\ th[t].pc = "idle"
  /\ status[o] = "live"
  /\ IF meta[o] = 0 THEN UNCHANGED <<threadglobal_id, threadlocal_id>> ELSE AssignId(t)
  /\ th' = [th EXCEPT ![t] = [Idle EXCEPT !.obj = o, !.loc = l, !.cur = meta[o],
                               !.pc = IF meta[o] = 0 THEN "store" ELSE "walk"]]
  /\ UNCHANGED <<mem, status, meta, nodes, allocd, owner, segv_handler, crashed>>

\* The walk of dang_register (dang_san.c:390-397), one node per step.
WalkFound(t) ==
  /\ th[t].pc = "walk"
  /\ nodes[th[t].cur].tid = threadlocal_id[t]
  /\ Goto(t, "insert")
  /\ UNCHANGED <<mem, status, meta, nodes, allocd, owner, threadglobal_id, threadlocal_id, segv_handler, crashed>>

WalkNext(t) ==
  /\ th[t].pc = "walk"
  /\ nodes[th[t].cur].tid # threadlocal_id[t]
  /\ nodes[th[t].cur].next # 0
  /\ th' = [th EXCEPT ![t].cur = nodes[th[t].cur].next]
  /\ UNCHANGED <<mem, status, meta, nodes, allocd, owner, threadglobal_id, threadlocal_id, segv_handler, crashed>>

\* End of the list: dang_alloc_threadlog allocates and initialises a node.
WalkAppend(t) ==
  /\ th[t].pc = "walk"
  /\ nodes[th[t].cur].tid # threadlocal_id[t]
  /\ nodes[th[t].cur].next = 0
  /\ allocd # NodeIds
  /\ LET n == FreeNode
     IN  /\ nodes' = [nodes EXCEPT ![n] = NewNode(threadlocal_id[t])]
         /\ allocd' = allocd \cup {n}
         /\ owner' = [owner EXCEPT ![n] = th[t].obj]
         /\ th' = [th EXCEPT ![t].prev = th[t].cur, ![t].cur = n, ![t].pc = "xchg"]
  /\ UNCHANGED <<mem, status, meta, threadglobal_id, threadlocal_id, segv_handler, crashed>>

\* dang_atomic_cmpxchng(&prev_log->next_log, new): an atomic exchange.
Exchange(t) ==
  /\ th[t].pc = "xchg"
  /\ nodes' = [nodes EXCEPT ![th[t].prev].next = th[t].cur]
  /\ th' = [th EXCEPT ![t].old = nodes[th[t].prev].next, ![t].pc = "link"]
  /\ UNCHANGED <<mem, status, meta, allocd, owner, threadglobal_id, threadlocal_id, segv_handler, crashed>>

\* ... whose result is then stored into obj_loglocal->next_log.
LinkNext(t) ==
  /\ th[t].pc = "link"
  /\ nodes' = [nodes EXCEPT ![th[t].cur].next = th[t].old]
  /\ Goto(t, "insert")
  /\ UNCHANGED <<mem, status, meta, allocd, owner, threadglobal_id, threadlocal_id, segv_handler, crashed>>

\* The rest of dang_register: insert into the thread's own node.
Insert(t) ==
  /\ th[t].pc = "insert"
  /\ nodes' = [nodes EXCEPT ![th[t].cur] = RegisterInNode(@, th[t].loc)]
  /\ Goto(t, "store")
  /\ UNCHANGED <<mem, status, meta, allocd, owner, threadglobal_id, threadlocal_id, segv_handler, crashed>>

\* The instrumented store itself.
StorePtr(t) ==
  /\ th[t].pc = "store"
  /\ mem' = [mem EXCEPT ![th[t].loc] = Ptr(th[t].obj)]
  /\ th' = [th EXCEPT ![t] = Idle]
  /\ UNCHANGED <<status, meta, nodes, allocd, owner, threadglobal_id, threadlocal_id, segv_handler, crashed>>

\* A store the instrumentation does not register (a constant NULL).
StoreNull(t, l) ==
  /\ th[t].pc = "idle"
  /\ mem' = [mem EXCEPT ![l] = Null]
  /\ UNCHANGED <<status, meta, nodes, allocd, owner, threadglobal_id, threadlocal_id, th, segv_handler, crashed>>

(***************************************************************************)
(* dang_freeptr(o): metaset_8(obj, size, 0) clears the metadata, then the  *)
(* sweep visits every node of the list, every location of a node          *)
(* (dang_nullifyptrs), and frees the node.  dang_sighandler_set installs  *)
(* dang_segv_handler process-wide and saves the previous disposition in   *)
(* sa_old; dang_sighandler_unset restores it after the last node.          *)
(***************************************************************************)
(* sigaction(SIGSEGV, &sa_new, sa_old): install dang_segv_handler for the *)
(* whole process; the caller keeps the returned disposition in sa_old.    *)
dang_sighandler_set == segv_handler' = "dang"

(* sigaction(SIGSEGV, sa_old, NULL): put back what this thread saved.     *)
dang_sighandler_unset(t) == segv_handler' = th[t].sa_old

InUse(o) == \E u \in Threads : th[u].pc # "idle" /\ th[u].obj = o

dang_freeptr(t, o) ==
  /\ th[t].pc = "idle"
  /\ status[o] = "live"
  /\ ~InUse(o)
  /\ meta' = [meta EXCEPT ![o] = 0]
  /\ status' = [status EXCEPT ![o] = "freeing"]
  /\ th' = [th EXCEPT ![t] = [Idle EXCEPT !.pc = "sweep", !.obj = o, !.cur = meta[o],
                               !.todo = NodeLocSeq(nodes[meta[o]]),
                               !.sa_old = segv_handler]]
  /\ dang_sighandler_set
  /\ UNCHANGED <<mem, nodes, allocd, owner, threadglobal_id, threadlocal_id, crashed>>

\* dang_nullifyptr: read *ptr; "ptr_value - obj_addr < size".
PointsInto(v, o) == v.obj = o /\ ~v.tag

ProbeHit(t) ==
  /\ th[t].pc = "sweep"
  /\ th[t].todo # <<>>
  /\ PointsInto(mem[Head(th[t].todo)], th[t].obj)
  /\ th' = [th EXCEPT ![t].saved = mem[Head(th[t].todo)], ![t].pc = "cas"]
  /\ UNCHANGED <<mem, status, meta, nodes, allocd, owner, threadglobal_id, threadlocal_id, segv_handler, crashed>>

\* Mutation: the range test is dropped and every location is passed over.
ProbeStale_any(t) ==
  /\ th[t].pc = "sweep"
  /\ th[t].todo # <<>>
  /\ th' = [th EXCEPT ![t].todo = Tail(@)]
  /\ UNCHANGED <<mem, status, meta, nodes, allocd, owner, threadglobal_id, threadlocal_id, segv_handler, crashed>>

ProbeStale(t) ==
  /\ th[t].pc = "sweep"
  /\ th[t].todo # <<>>
  /\ ~PointsInto(mem[Head(th[t].todo)], th[t].obj)
  /\ th' = [th EXCEPT ![t].todo = Tail(@)]
  /\ UNCHANGED <<mem, status, meta, nodes, allocd, owner, threadglobal_id, threadlocal_id, segv_handler, crashed>>

\* The read *ptr faults (the location's page was unmapped since it was
\* logged).  Under dang_segv_handler with canjmp set, siglongjmp abandons
\* this probe only; under SIG_DFL the process is killed.
ProbeFault(t) ==
  /\ th[t].pc = "sweep"
  /\ th[t].todo # <<>>
  /\ Head(th[t].todo) \in FaultLocs
  /\ th' = [th EXCEPT ![t].todo = Tail(@)]
  /\ crashed' = (segv_handler = "dfl")
  /\ UNCHANGED <<mem, status, meta, nodes, allocd, owner, threadglobal_id, threadlocal_id,
                 segv_handler>>

\* dang_atomic_cmpxchng_once(ptr, ptr_value, ptr_value | DANG_NULL).
CasTag(t) ==
  /\ th[t].pc = "cas"
  /\ LET l == Head(th[t].todo)
     IN  mem' = [mem EXCEPT ![l] = IF @ = th[t].saved THEN Tagged(th[t].saved) ELSE @]
  /\ th' = [th EXCEPT ![t].todo = Tail(@), ![t].pc = "sweep"]
  /\ UNCHANGED <<status, meta, nodes, allocd, owner, threadglobal_id, threadlocal_id, segv_handler, crashed>>

\* Mutation: only the first node's locations are nullified.
FreeNodeNext_nosweep(t) ==
  /\ th[t].pc = "sweep"
  /\ th[t].todo = <<>>
  /\ nodes[th[t].cur].next # 0
  /\ allocd' = allocd \ {th[t].cur}
  /\ th' = [th EXCEPT ![t].cur = nodes[th[t].cur].next]
  /\ UNCHANGED <<mem, status, meta, nodes, owner, threadglobal_id, threadlocal_id, segv_handler, crashed>>

\* The node's locations are done: move to next_log and DANG_FREE the node.
FreeNodeNext(t) ==
  /\ th[t].pc = "sweep"
  /\ th[t].todo = <<>>
  /\ nodes[th[t].cur].next # 0
  /\ allocd' = allocd \ {th[t].cur}
  /\ th' = [th EXCEPT ![t].cur = nodes[th[t].cur].next,
                      ![t].todo = NodeLocSeq(nodes[nodes[th[t].cur].next])]
  /\ UNCHANGED <<mem, status, meta, nodes, owner, threadglobal_id, threadlocal_id, segv_handler, crashed>>

FreeNodeLast(t) ==
  /\ th[t].pc = "sweep"
  /\ th[t].todo = <<>>
  /\ nodes[th[t].cur].next = 0
  /\ allocd' = allocd \ {th[t].cur}
  /\ status' = [status EXCEPT ![th[t].obj] = "freed"]
  /\ dang_sighandler_unset(t)
  /\ th' = [th EXCEPT ![t] = Idle]
  /\ UNCHANGED <<mem, meta, nodes, owner, threadglobal_id, threadlocal_id, crashed>>

\* The steps of an operation already started.
ThreadStep(t) ==
  \/ WalkFound(t) \/ WalkNext(t) \/ WalkAppend(t) \/ Exchange(t) \/ LinkNext(t)
  \/ Insert(t) \/ StorePtr(t)
  \/ ProbeHit(t) \/ ProbeStale(t) \/ ProbeFault(t) \/ CasTag(t) \/ FreeNodeNext(t) \/ FreeNodeLast(t)

\* The calls a thread may make when idle.
ThreadCall(t) ==
  \/ \E o \in Objects : dang_init_heapobj(t, o) \/ dang_freeptr(t, o)
  \/ \E o \in Objects, l \in Locs : inlinedang_registerptr(t, l, o)
  \/ \E l \in Locs : StoreNull(t, l)

\* A state with crashed set ends the process; ProbeFaultRecovered, which
\* fails in it, is where a run that reaches it stops.
Next == \E t \in Threads : ThreadCall(t) \/ ThreadStep(t)

Spec == Init /\ [][Next]_vars

-----------------------------------------------------------------------------
\* The nodes reachable from n through next_log.
RECURSIVE ChainFrom(_, _)
ChainFrom(n, seen) ==
  IF n = 0 \/ n \in seen THEN seen ELSE ChainFrom(nodes[n].next, seen \cup {n})
Chain(o) == ChainFrom(meta[o], {})

\* A node allocated by WalkAppend but not yet exchanged into the list.
Unpublished(n) == \E u \in Threads : th[u].pc = "xchg" /\ th[u].cur = n

\* Between Exchange and LinkNext the old successor is held only by the
\* exchanging thread, which is about to link it behind its own node.
PendingLink == UNION {ChainFrom(th[u].old, {}) : u \in {v \in Threads : th[v].pc = "link"}}

(***************************************************************************)
(* Every log node allocated for a live object, once published, stays       *)
(* reachable from the object's metadata (or is about to be relinked by a   *)
(* pending LinkNext): concurrent appends by dang_alloc_threadlog never     *)
(* unlink one another's node.  A node lost from the list is never swept    *)
(* by dang_freeptr.                                                        *)
(***************************************************************************)
NoLostNode ==
  \A n \in allocd :
    (owner[n] \in Objects /\ status[owner[n]] = "live" /\ ~Unpublished(n))
      => n \in Chain(owner[n]) \cup PendingLink

(***************************************************************************)
(* The purpose of DangSan: once dang_freeptr(o) has returned, no location  *)
(* holds an untagged pointer into o.  Every location a thread stored a     *)
(* pointer to o into was registered in that thread's node, the node is in  *)
(* o's list, and the sweep tagged it or found it overwritten.  A location *)
(* in FaultLocs lies on a page that is unmapped by the time of the sweep:  *)
(* its probe faults and it holds nothing the program can read.            *)
(***************************************************************************)
FreedNotDangling ==
  \A l \in Locs \ FaultLocs :
    mem[l].obj \in Objects /\ status[mem[l].obj] = "freed" => mem[l].tag

(***************************************************************************)
(* A probe that faults in the sweep is recovered by dang_segv_handler     *)
(* (siglongjmp back to the probe's sigsetjmp) and never kills the         *)
(* process: every sweep should run with the handler installed, although   *)
(* another thread's dang_sighandler_unset may restore the disposition it  *)
(* saved before this sweep began.                                          *)
(***************************************************************************)
ProbeFaultRecovered == ~crashed

(***************************************************************************)
(* DangSan implements AbstractDangSan: the walk, the append, the node      *)
(* insert, the probe and the node frees are stuttering steps of it, the   *)
(* instrumented store is its Store, a successful compare-and-swap is its  *)
(* Tag, and dang_freeptr's start and return are FreeStart and FreeEnd.    *)
(* So the sweep tags only pointers into an object being freed, stores    *)
(* happen only to live objects, and the free returns only once no         *)
(* untagged pointer into the object remains.  The mapping reads a location *)
(* of FaultLocs as Null, since its page is gone when the sweep probes it. *)
(***************************************************************************)
AbsMem == [l \in Locs |-> IF l \in FaultLocs THEN Null ELSE mem[l]]

Abs == INSTANCE AbstractDangSan
         WITH Objects <- Objects, Locs <- Locs, NoObj <- NoObj,
              mem <- AbsMem, status <- status
AbstractSpec == Abs!Spec

=============================================================================
