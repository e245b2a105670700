\* Four symbols, one of them discarded, two to a stream, one connection lost.
CONSTANTS
  Symbols = {s1, s2, s3, s4}
  Discarded = {s3}
  Max = 2
  MaxDrops = 1
SPECIFICATION FairSpec
INVARIANTS TypeOK SubscribedOnce KnownOnce ServedByOne RestNeverIdle
PROPERTIES KnownSubscribed
