SPECIFICATION FairSpec
CONSTANTS
  i1 = i1
  i2 = i2
  t1 = t1
  t2 = t2
  t3 = t3
  one = one
  two = two
  Id <- MCId
  Token <- MCToken
  Payload <- MCPayload
  Need <- MCNeed
  Receipt <- MCSingle
  Request = {r1, r2}
  StartStock = 2
  MaxDeletes = 1
CHECK_DEADLOCK FALSE
PROPERTY
  SoldIsAcknowledged
