SPECIFICATION Spec
CONSTANTS
  Lengths = {0, 1, 2}
  MaxArrays = 1
  Addresses = {1, 2, 3}
  PerSlab = 3
  Prealloc = 1
  NumBlocks = 3
  MaxChunks = 2
  Sizes = {4, 8}
  SmallNumBlocks = 2
  MaxInUse = 3
  MaxGrowth = 2
  N = 8
  Modulus = 256
  Bases = {16, 36, 56}
  Alignments = {1, 2, 4}
  MaxLength = 2
  MaxBlocks = 4
  Allocators = {a1, a2, a3}
  Stacks = {s1, s2}
  Size = 2
  MaxSize = 4
  SizeModulus = 16
  StackLengths = {1, 3, 8}
  MaxHeld = 2
  Malloc = Malloc
  None = None
  Null = Null
  Dangling = Dangling
INVARIANTS SlabsAgree ChunksAgree StacksAgree
PROPERTIES AllocatorsImplementPools OnlyTrimmingLosesHotSlab
CHECK_DEADLOCK FALSE
