CONSTANTS
  Price = {1, 2}
  Qty = {1, 2}
  Depth = 1
  MaxChanges = 1
  MaxGarbled = 2
  Garbled = Garbled
  NoBook = NoBook
SPECIFICATION Spec
INVARIANTS
  TypeOK
  OnlyTrueBooks
  HeldBookFollowsVenue
  ReparsingIsHarmless
