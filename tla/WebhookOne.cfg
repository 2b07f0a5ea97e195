SPECIFICATION FairSpec
CONSTANTS
  None = None Unset = Unset
  Subs = {s1}
  Numbers <- Two
  KeyNumbers <- Two
  MaxAttempts = 2 Window = 2 Lease = 1 MaxBackoff = 1
  RateWindow = 1 RateLimit = 3 QueueLimit = 2 Capacity = 2 Batch = 1
  Burst = 2 MaxActive = 1 MaxRestarts = 1
INVARIANT DisabledHasNoBacklog
INVARIANT AttemptsBoundedByCrashes
INVARIANT LeasesExclusive
PROPERTY EveryDeliverySettles
