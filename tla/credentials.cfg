SPECIFICATION FairSpec
CONSTANTS
  MaxNow = 2
  TTL = 1
  MaxFailing = 2
  Requests = {r1, r2}
  Lifetimes <- MCLifetimes
INVARIANTS
  CredentialsTypeOK
  OneHarvestServesAll
  BundleYoungEnough
  PunishedBundleIsGone
  RetryIsFresh
PROPERTIES
  EveryCallerLeaves
CHECK_DEADLOCK FALSE
