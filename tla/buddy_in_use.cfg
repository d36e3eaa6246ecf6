SPECIFICATION BuddySpec
CONSTANTS
  BlocksCount = 15
  Sizes = {1, 2, 4}
INVARIANTS
  HandsOutFreeMemory
