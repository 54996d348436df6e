CONSTANTS
  Shards = {s1}
  Keys = {1, 2}
  Plans <- Workloads
  BufferUnits = 2
  SlotLost = {"streaming"}
SPECIFICATION Spec
INVARIANTS NothingLost OnceInOrder
PROPERTIES AcksTrue CatchesUp
CHECK_DEADLOCK FALSE
