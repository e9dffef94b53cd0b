SPECIFICATION Spec
CONSTANTS
  None = None
  Elsewhere = Elsewhere
  editor = editor
  drawer = drawer
  spare = spare
  Requests = {r1, r2}
  Guests = {g}
  Accounts = {a}
  Photos = {}
  ProviderOrder <- OneProvider
  Can <- Abilities
CHECK_DEADLOCK FALSE
SYMMETRY Symmetry
INVARIANTS
  WorksMoveWhole
