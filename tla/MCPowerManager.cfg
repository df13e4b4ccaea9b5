\* A device that is off, with its user away and its battery empty, stays as it is.
CHECK_DEADLOCK FALSE
SPECIFICATION FairSpec
CONSTANTS
  POWER_UPDATE_PERIOD = 2
  POWER_OFF_TIMEOUT = 3
  FULL_CHARGE_TIME_BEFORE_GAUGE_RESET = 2
  DefaultCapacity = 3
  FullCharge = 2
  LoopTime = 1
  TypingTime = 2
INVARIANTS TypeOK CapacityMeasured NvsIsCurrent NoTimeoutWhilePlugged
PROPERTIES LeftAloneTurnsOff PressTurnsOff
