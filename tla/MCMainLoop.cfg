SPECIFICATION FairSpec
CONSTANTS
  DEBOUNCE_MS = 2
  TimeModulus = 8
  MaxBounce = 2
  LED_SLOW_BLINK_PERIOD = 3
  LED_FAST_BLINK_PERIOD = 2
  TypingTime = 3
  MuteTime = 1
INVARIANTS TypeOK NoPressLost OneReportPerPress
PROPERTIES Blinks
