SPECIFICATION Spec
CONSTANTS
  s1 = s1  s2 = s2  w1 = w1  w2 = w2  x1 = x1  d1 = d1
  Service = {s1}
  Questions <- ButtonThenText
  Sent <- SentNone
  Subscribed = {s1}
  Worker = {w1, w2}
  Expirer = {}
  Sender = {d1}
  Hook = {1, 2, 3}
  Kind = {"quote", "delivered"}
  MaxDeliveries = 3
  Frail = {}
  Redis = {FALSE}
  NoService = NoService  NoHook = 0
SYMMETRY Symmetry
INVARIANTS EachStatusOnce
\* Customers and Meta may fall silent: then nothing is left to do.
CHECK_DEADLOCK FALSE
