SPECIFICATION Spec
CONSTANTS
  b1 = b1  b2 = b2  m1 = m1  m2 = m2  q1 = q1  q2 = q2
  Book = {b1, b2}
  Mobile = {m1, m2}
  Invalid = Invalid
  US = {m2}
  Request = {q1, q2}
  MaxRecipients = 2
  MaxBatch = 2
  MaxEdits = 2
  MaxRuns = 5
SYMMETRY Symmetry
INVARIANTS SendsAreScreened OneMessageEach CountersAreTheRows
\* The steps of the bounds are used up.
CHECK_DEADLOCK FALSE
