SPECIFICATION StreamSpec
CONSTANTS
  Letters <- TwoLetters
  Messages <- ShortLong
  InitSize = 5
  Beyond = {"0"}
  MaxSent = 3
  Window = 2
  WireSize = 4
INVARIANT
  AssertionHolds
