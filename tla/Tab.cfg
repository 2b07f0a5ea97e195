SPECIFICATION TabSpec
CONSTANTS
  Incoming = {i1}
  Outgoing = {o1}
  MaxQueue = 1
  MaxSessions = 2
  MaxFailures = 1
  Happenings <- MCHappenings
  RadioOf <- MCRadioOf
  KindOf <- MCKindOf
  Radios = {1, 2}
  None = None
  MinSpan = 1
  MaxSpan = 2
  Limit = 1
  MaxNow = 2
  MaxMoves = 1
INVARIANT PrivateStaysPrivate
 
INVARIANT Settled
PROPERTY SendsSettle
PROPERTY LoadingEnds
CHECK_DEADLOCK FALSE
