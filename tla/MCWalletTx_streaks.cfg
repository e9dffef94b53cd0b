SPECIFICATION Spec
CONSTANTS
  NoUser = NoUser
  g1 = g1
  g2 = g2
  a1 = a1
  Users = {a1}
  Guests = {}
  Payments = {p1}
  FreeBalanceCap = 3
  DailyRewards <- Ladder
  PeriodDays = 7
  SignupBonus = 2
  Costs = {3}
  MaxDay = 4
  Requests = {r1, r2}
  PoolSize = 2
  Pk <- OneAccount
INVARIANTS
  MissedDayResets
