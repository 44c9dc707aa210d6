SPECIFICATION Spec
CONSTANTS
  consumer = consumer
  producer = producer
  poller = poller
  Processes = {consumer, producer}
  Partitions = 1
  Foreign = 3
INVARIANT
  FailsWithKafkaError
CHECK_DEADLOCK FALSE
