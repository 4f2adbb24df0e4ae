SPECIFICATION Spec
CONSTANTS
  p1 = p1
  p2 = p2
  a = a
  b = b
  Producers <- Two
  Payloads <- MCPayloads
  Batches <- MCBatches
  Formats <- All
  CorruptFormats <- RecordBatches
  Confs <- Both
  MaxFaults = 1
INVARIANT ProducedAtOffset
PROPERTIES ReadsLog KeepsUp DeletionReported
