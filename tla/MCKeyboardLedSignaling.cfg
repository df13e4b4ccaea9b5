CONSTANTS
  BITS_PER_BYTE = 2
  MaxByte = 3
  SizeOf <- MCSizeOf
  ClockTimeout = 3
  SCREEN_UPDATE_PERIOD = 2
SPECIFICATION ScreenSpec
INVARIANTS TypeOK DecodesFrame CompletesExactly ProgressInBar NoStitchedFrame ScreenShowsFrame
PROPERTIES CompleteIsStable ReceivingEnds StatusReturns
