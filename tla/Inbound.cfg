SPECIFICATION FairSpec
CONSTANTS
  r1 = r1 r2 = r2 f1 = f1 f2 = f2
  Radios = {r1, r2} Contacts = {c1, c2} Frames = {f1}
  Home <- MCHome Sender <- MCSender
  NoRadio = NoRadio NoContact = NoContact NoFrame = NoFrame MsgWaiting = MsgWaiting
  MaxRows = 2 MaxArrivals = 2
INVARIANT IdentityHolds
INVARIANT StoredOnce
PROPERTY AttributionKept
PROPERTY ScanResolves
PROPERTY QueueDrained
