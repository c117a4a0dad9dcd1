SPECIFICATION Spec
CONSTANTS
  o1 = o1  o2 = o2  p1 = p1  i1 = i1  w1 = w1  w2 = w2
  Order = {o1, o2}
  Payment = {p1}
  Invoice = {i1}
  Lacking = {o2}
  Unresolvable = {}
  Settings = {TRUE, FALSE}
  Worker = {w1, w2}
  MaxTaps = 4
  MaxRetries = 1
  MaxLosses = 1
  NoService = NoService
SYMMETRY Symmetry
INVARIANTS RepeatsNeedOverlap FirstDecisionWins ConfirmedIsApproved
\* The customer may stop tapping.
CHECK_DEADLOCK FALSE
