SPECIFICATION Spec
CONSTANTS
  NoUser = NoUser
  Users = {g1, a1}
  Guests = {g1}
  Payments = {p1, p2}
  FreeBalanceCap = 4
  DailyRewards <- Ladder
  PeriodDays = 2
  SignupBonus = 2
  Costs = {0, 3}
  Quotas = {3, 4}
  MaxDay = 4
CONSTRAINT OneConcern
INVARIANTS
  TypeOK
  BalanceIsLedgerSum
  KeysUnique
  StreakEarned
  BucketsKeptApart
PROPERTIES
  FreeNeverBurns
