SPECIFICATION Spec
CONSTANTS
  c1 = c1  c2 = c2  r1 = r1  r2 = r2  r3 = r3  p1 = p1  p2 = p2
  q1 = q1  q2 = q2  h1 = h1  h2 = h2
  Campaign = {c1, c2}
  Recipient = {r1, r2, r3}
  Of <- TwoAndOne
  Halting = {c1}
  Doomed = {c2}
  Runner = {p1, p2}
  Request = {q1}
  Hook = {h1}
  Receipts = {"delivered", "failed"}
  BatchLimit = 2
  MaxBoots = 1
  MaxLosses = 0
  MaxReceipts = 1
  NoCampaign = NoCampaign  NoRecipient = NoRecipient
SYMMETRY Symmetry
INVARIANTS SkippedWereNotSent DispatchedIsDone NeverOvercounts
PROPERTIES KeepsThePromise
\* Once every campaign has ended and no receipt comes, nothing is left to do.
CHECK_DEADLOCK FALSE
