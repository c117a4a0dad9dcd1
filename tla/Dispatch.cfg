SPECIFICATION FairSpec
CONSTANTS
  s1 = s1  s2 = s2  d1 = d1  d2 = d2  w1 = w1  w2 = w2
  m1 = m1  m2 = m2  m3 = m3  m4 = m4
  Service = {s1}
  Subscribed = {s1}
  Sender = {d1, d2}
  Worker = {w1}
  Wamid = {m1, m2, m3}
  Kind = {"delivered", "failed", "reply", "expiry", "retry"}
  MaxSends = 3
  MaxRetries = 1
  MaxLosses = 1
  NoService = NoService  NoWamid = NoWamid
INVARIANTS TypeOK OneSenderPerService CallsAreCounted EndIsTold SentHasMessage LiveIsQueued
PROPERTIES EveryServiceIsDispatched
\* Once a service has ended and nobody writes, nothing is left to do.
CHECK_DEADLOCK FALSE
