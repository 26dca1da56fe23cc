\* Two readers; prefixes of two bytes, payloads of none, one and two, and a Read
\* that returns up to five, so that it may end anywhere in the packet after next.
SPECIFICATION Spec
CONSTANTS
  Readers = {r1, r2}
  Prefix = 2
  MaxSize = 4
  ReadBuf = 5
  Sizes = {2, 3, 4}
  MaxPackets = 3
  Nobody = Nobody
SYMMETRY Symmetry
INVARIANTS TypeOK BufferBounded InStep
PROPERTY ImplementsQueue
CHECK_DEADLOCK FALSE
