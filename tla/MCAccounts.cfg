SPECIFICATION Spec
CONSTANTS
  u1 = u1  u2 = u2  u3 = u3
  s1 = s1  s2 = s2  s3 = s3
  r1 = r1  r2 = r2
  Users = {u1, u2, u3}
  Sids = {s1, s2, s3}
  Devices = {phone}
  Apps = {phone}
  Requests = {r1, r2}
  MaxEvents = 5
  None = None
CONSTRAINT Focus
SYMMETRY Symmetric
CHECK_DEADLOCK FALSE
INVARIANTS
  RowsSound
  SingleUse
  ErrorOnlyFromOldRows
  AnswersFollow
  GoneIsGone
