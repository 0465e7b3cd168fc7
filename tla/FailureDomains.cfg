SPECIFICATION MCSpec
CONSTANTS
  p1 = p1
  p2 = p2
  b1 = b1
  b2 = b2
  k1 = k1
  k2 = k2
  Call <- MCCall
  Background <- MCBackground
  Key <- MCKey
  PerDomain = 2
  PersonReserve = 1
  AbandonedPerDomain = 1
  AbandonedGlobal = 2
  HealthyReserve = 1
INVARIANT Accounted
PROPERTIES DomainAnswersAgain WaitersGoOn
CHECK_DEADLOCK FALSE
