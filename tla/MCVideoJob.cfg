SPECIFICATION FairSpec
CONSTANTS
  Jobs = {v1, v2}
  Senders = {v1, v2}
  KlingCalls = {k1}
  Clients = {v1, v2, k1}
  Polls = 2
  Browsers = {b1, b2}
  Endpoints = {e1, e2, e3}
  MaxSubs = 2
  MaxHistory = 1
  Phone = e1
  Laptop = b2
  Early = v1
CONSTRAINT OneConcern
CHECK_DEADLOCK FALSE
INVARIANTS
  MoneySettled
  NothingDangles
  ReadyIsFetched
  DevicesAsAsked
PROPERTIES
  EveryJobEnds
