SPECIFICATION Spec
CONSTANTS
  consumer = consumer
  producer = producer
  poller = poller
  Processes = {consumer, producer, poller}
  Partitions = 1
  Foreign = 3
INVARIANTS
  VerdictHolds
  LosersSucceed
PROPERTY
  CallsEnd
CHECK_DEADLOCK FALSE
