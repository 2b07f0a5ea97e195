SPECIFICATION LinkSpec
CONSTANTS
  Conns = {n1, n2, n3}
  NoConn = NoConn
  s1 = s1
  s2 = s2
  Slots <- MCSlots
  Contacts = {alice}
  Name = name
  Freq = freq
  Sf = sf
  None = None
  Values = {a}
  Callers = {j1, j2}
  Sync = sync
  MaxCalls = 2
  MaxOpens = 1
INVARIANT QuietWhenReleased
INVARIANT NoLeakedConnection
INVARIANT Mirrors
PROPERTY LossIsRetried
PROPERTY CommandsEnd
CHECK_DEADLOCK FALSE
