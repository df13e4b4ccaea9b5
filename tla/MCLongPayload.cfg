CONSTANTS
  BITS_PER_BYTE = 2
  MaxByte = 3
  ByteOf <- MCByteOf
  SizeOf <- MCSizeOf
  ClockTimeout = 2
  SyncDelay = 4
  StartLeds <- MCStartLeds
  Capacity = 2
  Payloads <- MCLongPayload
  DefaultPassword <- MCDefault
  Nul <- MCNul
  BootLeds <- MCAllLeds
  MaxFaults = 0
SPECIFICATION Spec
INVARIANTS LengthFirst
