\* Two workers draining a notification and an identity e-mail in batches of two,
\* with one crash: takeovers, late finishes, exhausted attempts, and every job ends.
SPECIFICATION FairSpec
CONSTANTS
  j1 = j1  j2 = j2  w1 = w1  w2 = w2
  None = None
  Jobs = {j1, j2}
  Audited = {j1}
  Workers = {w1, w2}
  MaxAttempts = 2
  BatchSize = 2
  MaxCrashes = 1
INVARIANTS
  TypeOK
  FinishIsFenced
  LeaseIsExclusive
  SucceededWasSent
  EverySendIsRecorded
PROPERTIES
  ImplementsDeliveryContract
  EveryJobGetsAVerdict
