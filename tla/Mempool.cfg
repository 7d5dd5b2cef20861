SPECIFICATION PoolSpec
CONSTANTS
  Size = 3
  PerBlock = 2
  MAX_EXP_TIME = 3
  Bases = {1, 7, 8, 14, 16, 20, 22}
INVARIANTS SlotsAccounted OnlyFirstSlotsLeak
PROPERTIES IsSlotPool
