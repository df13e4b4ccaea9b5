CONSTANTS
  LedValues = {off, on}
  off = off
  on = on
  SIZE = 4
  CountMod = 2
  ZeroLed = off
  InitLed = on
SPECIFICATION FairSpec
INVARIANTS TypeOK NoSlotRace
PROPERTIES Fifo FifoLive
