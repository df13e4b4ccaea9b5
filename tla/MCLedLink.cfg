CONSTANTS
  BITS_PER_BYTE = 2
  MaxByte = 3
  ByteOf <- MCByteOf
  SizeOf <- MCSizeOf
  ClockTimeout = 2
  SyncDelay = 4
  StartLeds <- MCNoLeds
  Capacity = 2
  Payloads <- MCPayloads
  DefaultPassword <- MCDefault
  Nul <- MCNul
  BootLeds <- MCAllLeds
  MaxFaults = 1
SPECIFICATION Spec
INVARIANTS TypeOK CleanRunStored CleanRunEndsIdle RamMatchesFlash
