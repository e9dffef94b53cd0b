SPECIFICATION FairSpec
CONSTANTS
  NoUser = NoUser
  g1 = g1
  g2 = g2
  a1 = a1
  Users = {g1, g2, a1}
  Guests = {g1, g2}
  Payments = {p1}
  FreeBalanceCap = 3
  DailyRewards <- Ladder
  PeriodDays = 7
  SignupBonus = 2
  Costs = {3}
  MaxDay = 3
  Requests = {r1, r2}
  PoolSize = 2
  Pk <- GuestsAndAccount
CONSTRAINT OneConcern
INVARIANTS
  DriftOnlyByStaleWrite
  ClaimsStayHonest
  TokensConserved
PROPERTIES
  EveryRequestEnds
