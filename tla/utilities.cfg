SPECIFICATION Spec
CONSTANTS
  RingSlots = 4
  Limit = 3
  Items = {a, b}
  NoItem = NoItem
  Alphabet = {"a", "b"}
  MaxText = 6
  MaxWord = 4
  Absent = Absent
  Chars = {a, b, c}
  MaxView = 3
  AddressBits = 4
  Base = 5
  Elements = 7
  SizeBits = 4
  Lengths = {0, 1, 2, 3, 7, 15}
  GivenTexts <- MCTexts
  NUL = "NUL"
  Garbage = "?"
  MaxLength = 3
  MaxArgs = 2
  MaxSlack = 2
  Filter = {f, g}
  Key = {0, 1, 2, 5, 6}
  FilterBits = 5
  num_hashers = 2
  Hash <- MCHash
  Object = {o1, o2}
  Stream = {s1, s2, s3}
  nullptr = nullptr
  Signals = {"SIGSEGV", "SIGABRT", "SIGTERM"}
  SIGSEGV = "SIGSEGV"
  Faults = {"SIGSEGV", "SIGABRT"}
  MaxArrivals = 3
  MaxCalls = 3
INVARIANTS RingHoldsWhatIsInside FindIsRight SearchesAgree  BloomIsRight FilesAreOwned HandlersAreReady
PROPERTIES RingFifo ReraiseEnds
CHECK_DEADLOCK FALSE
