SPECIFICATION Spec
CONSTANTS
  None = None Unset = Unset
  Subs = {s1, s2, s3}
  Numbers <- One
  KeyNumbers <- One
  MaxAttempts = 2 Window = 2 Lease = 1 MaxBackoff = 1
  RateWindow = 1 RateLimit = 2 QueueLimit = 2 Capacity = 1 Batch = 1
  Burst = 1 MaxActive = 3 MaxRestarts = 1
SYMMETRY SubSymmetry
INVARIANT CapacityKept
INVARIANT QueueBounded
