SPECIFICATION HeapsSpec
CONSTANTS
  Base = 1
  HeaderSize = 2
  RegionSizes = {3, 7}
  Requests = {0, 2}
  Alignments <- MCAlignments
  Tags = {1, 2}
  MaxStates = 2
  ExpBase = 5
  HeapHeader = 3
  BlockHeader = 3
  ExpRegionSizes = {6, 27}
  ExpRequests = {0, 4, 7}
  ExpAlignments <- MCExpAlignments
INVARIANTS
  TypeOK
  NoOverlap
  InsideRegion
  AllocatableExact
  Tiles
  HeadersKept
  ExpAllocatableExact
PROPERTIES
  ImplementsAllocator
CHECK_DEADLOCK FALSE
