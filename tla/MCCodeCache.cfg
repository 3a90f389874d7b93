SPECIFICATION MCSpec
CONSTANTS
  x = x
  y = y
  Pages = 2
  PageWords = 2
  Vals <- TwoVals
  Guests <- AllGuests
  Segments = 4
  Parts = 2
  MaxBlock = 2
  Others = {1}
  Addrs <- TwoAddrs
  ListOf <- TwoLists
  Bin <- TwoLists
  Length <- LongAndShort
  Loads <- LoadsFirst
  Calls <- EachOther
  Live = 2
SYMMETRY Swap
INVARIANTS
  TranslationsAgree
  PointersBacked
  RoomIsFree
