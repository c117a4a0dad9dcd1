SPECIFICATION FairSpec
CONSTANTS
  r1 = r1  r2 = r2  r3 = r3  j1 = j1  j2 = j2
  Row = {r1, r2}
  Job = {j1, j2}
  Stamp = {1, 2}
  MaxAttempts = 3
  BatchLimit = 2
  MaxLosses = 1
  NoRow = NoRow
INVARIANTS OneJobPerRow FailedAfterMaxAttempts DuplicatesExplained DeliveredWasReceived
PROPERTIES Refinement EveryRowSettles
