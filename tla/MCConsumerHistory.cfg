SPECIFICATION Spec
CONSTANTS
  p1 = p1
  p2 = p2
  a = a
  b = b
  Producers <- Two
  Payloads <- MCPayloads
  Batches <- MCBatches
  Formats <- Sets
  CorruptFormats <- Sets
  Confs <- OnlyPatient
  MaxFaults = 1
INVARIANT ConstantHistory

