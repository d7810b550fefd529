\* Four bytes of storage, positions that wrap every eight bytes, packets that
\* are empty, small and as large as the storage.
SPECIFICATION Spec
CONSTANTS
  Capacity = 4
  PosMod = 8
  Bytes = {0, 1}
  PacketLens = {0, 1, 3, 4}
  ReadLens = {1, 3}
INVARIANTS
  TypeOK
  NoDataRace
PROPERTIES
  FifoSpec
