SPECIFICATION FairSpec
CONSTANTS
  s1 = s1  s2 = s2  w1 = w1  w2 = w2  x1 = x1  d1 = d1
  Service = {s1, s2}
  Questions <- TwoTexts
  Sent <- SentBoth
  Subscribed = {s1}
  Worker = {w1, w2}
  Expirer = {}
  Sender = {}
  Hook = {1, 2, 3}
  Kind = {"tap", "text", "failed"}
  MaxDeliveries = 4
  Frail = {w1}
  Redis = {TRUE}
  NoService = NoService  NoHook = 0
INVARIANTS OneFreeTextOutstanding OnlyEndersDeadlock
PROPERTIES MessagesLeaveATrace
\* Customers and Meta may fall silent: then nothing is left to do.
CHECK_DEADLOCK FALSE
