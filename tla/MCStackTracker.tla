---------------------------- MODULE MCStackTracker ----------------------------
(* Types of the x86-64 data layout: a zero-length array, i32, and the      *)
(* byval pointee x86_fp80, whose store size is smaller than its size.      *)
(* Each object has one use: an in-bounds load, a load one i32 past its    *)
(* start or one i32 before it, a stored address, a return, or a lifetime *)
(* marker.                                                                 *)
EXTENDS StackTracker

MCTypes == {[alloc |-> 0, store |-> 0, pref |-> 1],
            [alloc |-> 4, store |-> 4, pref |-> 4]}
MCArgTypes == {[alloc |-> 16, store |-> 10, pref |-> 16]}
MCUses == {[k |-> "load", lo |-> 0, len |-> 4],
           [k |-> "load", lo |-> 4, len |-> 4],
           [k |-> "load", lo |-> -4, len |-> 4],
           [k |-> "storeptr", lo |-> 0, len |-> 0],
           [k |-> "ret", lo |-> 0, len |-> 0],
           [k |-> "lifetime", lo |-> 0, len |-> 0]}
=============================================================================
