SPECIFICATION Spec
CONSTANTS
  a = a
  b = b
  Key = {a, b}
  keyLen <- MCKeyLen
  valLen <- MCValLen
  Capacity = 10
  TooLarge = 1000
  MaxSession = 3
  MaxInsert = 2
  ReadCapacity = 4
  BatchSize = 2
  RandomSkip = 3
  MaxBatch = 3
INVARIANTS
  FlushedStays
  NoReplicatedRecord
  BatchesInOrder
