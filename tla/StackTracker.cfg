\* Two allocas (zero-sized or i32, count 1 or 2, explicit alignment 0 or 16,
\* static or dynamic) and one pointer argument, byval or not, with and
\* without -mergedstack; a static alloca of 8 bytes or more is large.
CONSTANTS
  Types <- MCTypes
  Counts = {1, 2}
  Aligns = {0, 16}
  Uses <- MCUses
  NAllocas = 2
  ArgTypes <- MCArgTypes
  UseLargeStack = TRUE
  LargeStackThreshold = 8
SPECIFICATION Spec
INVARIANT MergedLayoutSound
INVARIANT InitPositionDefined
INVARIANT EscapingObjectsTracked
\* The pass returns after its last loop.
CHECK_DEADLOCK FALSE
