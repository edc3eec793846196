CONSTANTS
  Thread = {t1, t2}
  NULL = NULL
  OCTET = 4
  OCTETS = 2
  BITS = 4
  Ip <- MCIp
  Net <- MCNet
  Long = {0, 6, 15}
  Bits = {3, 5}
  Mac = {m1, m2}
  Seed = {1, 2}
SPECIFICATION MCSpec
CHECK_DEADLOCK FALSE
INVARIANTS TypeOK AnswersRight FaultsOnlyShared SeedsAgree
PROPERTY CallsEnd
