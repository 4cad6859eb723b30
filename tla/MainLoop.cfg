\* Two blocks: the heap is exhausted by the second packet, and a freed block
\* is allocated again.  Three inputs of every kind in every order.
SPECIFICATION Spec
CONSTANTS
  NULL = NULL
  FREE = FREE
  Cells = {1, 2}
  InCap = 1
  OutCap = 1
  QueueCap = 1
  Sockets = 2
  Inputs = 3
  HeapFails = TRUE
  Frames = {"network", "time", "property", "version", "reboot", "reset", "power",
            "rename", "easylink", "baud", "info", "data", "ota"}
  Messages = {"deviceId", "time", "status", "module", "version", "update", "address",
              "heartbeat", "config", "reboot", "reset", "toDevice"}
INVARIANTS TypeOK MemorySafe NoLeak SocketsKept
PROPERTIES Obeyed
\* The module stops when it restarts.
CHECK_DEADLOCK FALSE
