SPECIFICATION Spec
CONSTANTS
  u1 = u1  root = root  r1 = r1  k1 = k1  k2 = k2  k3 = k3  q1 = q1  q2 = q2
  User = {u1}
  Root = root
  Role = {r1}
  Token = {k1, k2, k3}
  Request = {q1, q2}
  MaxAttempts = 1
  MaxChanges = 1
  Matrices <- TheMatrices
  NoUser = NoUser
  NoToken = NoToken
  NoRole = NoRole
SYMMETRY Symmetry
INVARIANTS OneHeirPerToken SessionsFollowThePassword PermissionsAreOneMatrix
\* The tokens of the bound are used up.
CHECK_DEADLOCK FALSE
