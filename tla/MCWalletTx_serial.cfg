SPECIFICATION Spec
CONSTANTS
  NoUser = NoUser
  g1 = g1
  g2 = g2
  a1 = a1
  Users = {g1, a1}
  Guests = {g1}
  Payments = {p1}
  FreeBalanceCap = 4
  DailyRewards <- Ladder
  PeriodDays = 7
  SignupBonus = 2
  Costs = {2}
  MaxDay = 3
  Requests = {r1}
  PoolSize = 1
  Pk <- GuestAndAccount
PROPERTIES
  ImplementsWallet
