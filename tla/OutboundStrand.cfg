SPECIFICATION Spec
CONSTANTS
  d1 = d1 d2 = d2 c1 = c1 k1 = k1 k2 = k2
  NoMsg = NoMsg NoCode = NoCode
  Codes <- MCCodes
  Crc <- MCCrc
  Direct <- MCDirect
  Channel <- MCChannel
  MaxAttempts = 2
INVARIANT PendingUntilHanded
