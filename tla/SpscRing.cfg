SPECIFICATION Spec
CONSTANTS
  Ids = {a, b}
  Sizes = {1, 2, 4, 6}
  Bufs = {2, 6}
  Hdr = 2
  Cap = 8
  Wrap = 16
SYMMETRY IdSymmetry
INVARIANTS TypeOK NoOverwrite EmptyRingFitsHalf
PROPERTY FIFO
