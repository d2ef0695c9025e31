CONSTANTS
  e1 = e1 e2 = e2 d1 = d1 d2 = d2 d3 = d3
  None = None
  Events = {e1}
  Deliveries = {d1, d2}
  Fanout <- MCFanout
  Replays = {a1}
  maxAttempts = 2
  Slots = 1
  MaxFaults = 1
SPECIFICATION FairSpec
INVARIANTS TypeOK DeliveredIsTrue SentHasEvidence
PROPERTIES EachSettles
CHECK_DEADLOCK FALSE
