\* A queue of one entry and two buffers: the queue fills and empties, the buffers wrap.
CONSTANTS
  QueueSize = 1
  Channels = 2
  SyncCount = 2
  Slots = 1
  Boost = 1
  Enough = 1
  Requests = 2
  Drops = 1
SPECIFICATION Spec
INVARIANTS TypeOK QueueAlive 
PROPERTIES BufferKept Ends Decoded
\* No request is left and the task has ended.
CHECK_DEADLOCK FALSE
