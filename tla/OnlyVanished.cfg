SPECIFICATION Spec
CONSTANTS
  n1 = n1  en = en  de = de  i1 = i1  i2 = i2  q1 = q1  q2 = q2
  Name = {n1}
  Lang = {en, de}
  Media = {"image"}
  Id = {i1, i2}
  NoId = NoId
  NoKey = NoKey
  Outcome = {"active"}
  Verdict = {"APPROVED"}
  Request = {q1, q2}
  PageLimit = 1
SYMMETRY Symmetry

PROPERTIES OnlyVanishedAreRemoved
\* The ids of the bound are used up.
CHECK_DEADLOCK FALSE
