SPECIFICATION FairSpec
CONSTANTS
  s1 = s1
  s2 = s2
  s3 = s3
  NULL = NULL
  Sub = {s1, s2, s3}
  Prompt = {s1}
  MaxValue = 2
INVARIANTS TypeOK ExactlyOnce HarmBounded
PROPERTY SlowHoldsNobody
\* All values may have been sent and read.
CHECK_DEADLOCK FALSE
