CONSTANTS
  r1 = r1 r2 = r2 e1 = e1 e2 = e2 k1 = k1 k2 = k2
  None = None
  Spine = spine
  Queues = {spine}
  Items <- MCItems
  Cap = 1
  Reactors = {r1, r2}
  Keys = {k1}
  Entities = {e1, e2}
  ByKey <- MCByKey
  EntityKey <- MCEntityKey
  MinInterval <- MCInterval
  Shards = 2
  Hash <- MCHash
  ShardCap = 2
  MaxEvents = 2
  MaxTime = 3
SPECIFICATION FairSpec
INVARIANTS TypeOK Serialized QuietAfterStop
PROPERTIES CancelEndsAll
CHECK_DEADLOCK FALSE
