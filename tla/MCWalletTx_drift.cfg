SPECIFICATION Spec
CONSTANTS
  NoUser = NoUser
  g1 = g1
  g2 = g2
  a1 = a1
  Users = {a1}
  Guests = {}
  Payments = {p1}
  FreeBalanceCap = 4
  DailyRewards <- Ladder
  PeriodDays = 7
  SignupBonus = 2
  Costs = {2}
  MaxDay = 1
  Requests = {r1, r2}
  PoolSize = 2
  Pk <- OneAccount
INVARIANTS
  BalanceIsLedgerSum
