SPECIFICATION FairSpec
CONSTANTS
  c1 = c1  c2 = c2  r1 = r1  r2 = r2  r3 = r3  p1 = p1  p2 = p2
  q1 = q1  q2 = q2  h1 = h1  h2 = h2
  Campaign = {c1, c2}
  Recipient = {r1, r2}
  Of <- OneEach
  Halting = {c2}
  Doomed = {}
  Runner = {p1, p2}
  Request = {q1}
  Hook = {h1}
  Receipts = {"delivered", "failed"}
  BatchLimit = 1
  MaxBoots = 1
  MaxLosses = 1
  MaxReceipts = 0
  NoCampaign = NoCampaign  NoRecipient = NoRecipient
PROPERTIES SendingEnds
\* Once every campaign has ended and no receipt comes, nothing is left to do.
CHECK_DEADLOCK FALSE
