SPECIFICATION FairSpec
CONSTANTS
  None = None
  Elsewhere = Elsewhere
  editor = editor
  drawer = drawer
  spare = spare
  Requests = {r1}
  Guests = {g}
  Accounts = {a}
  Photos = {p}
  ProviderOrder <- ThreeProviders
  Can <- Abilities
CHECK_DEADLOCK FALSE
INVARIANTS
  ChargedForWork
  QueueInOrder
  OwnPhoto
  PhotoDroppedForAReason
PROPERTIES
  EveryAttemptEnds
