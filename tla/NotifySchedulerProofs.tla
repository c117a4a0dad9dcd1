----------------------- MODULE NotifySchedulerProofs -----------------------
(***************************************************************************)
(* Proofs about NotifyScheduler, for any number of rows and instances and  *)
(* any limits: its type, who may hold a row, what "failed" and "delivered" *)
(* mean, where duplicates come from, and that it implements Outbox.        *)
(***************************************************************************)
EXTENDS NotifyScheduler, TLAPS

\* What a claim stands for: the row is still pending (only its holder settles
\* it), and a success is noted only after the client got the payload.
ClaimsHold ==
  \A p \in Job :
    /\ claim[p] = NoRow => answer[p] = "none"
    /\ claim[p] # NoRow => state[claim[p]] = "pending"
    /\ answer[p] = "ok" => received[claim[p]] > 0

\* The inductive invariant.
IInv ==
  /\ TypeOK
  /\ OneJobPerRow
  /\ ClaimsHold
  /\ FailedAfterMaxAttempts
  /\ DeliveredWasReceived
  /\ DuplicatesExplained

LEMMA TypeInit == Init => TypeOK
BY ConstantsAssumption DEF Init, TypeOK, RowState, Answer

\* Every step keeps the types.
LEMMA TypeStep == TypeOK /\ [Next]_vars => TypeOK'
<1> SUFFICES ASSUME TypeOK, [Next]_vars PROVE TypeOK'
  OBVIOUS
<1> USE ConstantsAssumption DEF TypeOK, RowState, Answer
<1>1. ASSUME NEW S \in SUBSET Row, NEW t \in Stamp, Enqueue(S, t) PROVE TypeOK'
  BY <1>1 DEF Enqueue
<1>2. ASSUME NEW p \in Job, Tick(p) PROVE TypeOK'
  BY <1>2 DEF Tick
<1>3. ASSUME NEW p \in Job, NEW r \in Row, Claim(p, r) PROVE TypeOK'
  BY <1>3 DEF Claim
<1>4. ASSUME NEW p \in Job, Quit(p) PROVE TypeOK'
  BY <1>4 DEF Quit
<1>5. ASSUME NEW p \in Job, Post(p) PROVE TypeOK'
  BY <1>5 DEF Post
<1>6. ASSUME NEW p \in Job, Record(p) PROVE TypeOK'
  BY <1>6 DEF Record
<1>7. ASSUME NEW p \in Job, Lose(p) PROVE TypeOK'
  BY <1>7 DEF Lose
<1>8. ASSUME NEW r \in Row, Wake(r) PROVE TypeOK'
  BY <1>8 DEF Wake
<1>9. CASE UNCHANGED vars
  BY <1>9 DEF vars
<1> QED
  BY <1>1, <1>2, <1>3, <1>4, <1>5, <1>6, <1>7, <1>8, <1>9 DEF Next, Work

\* Every variable of the notify job keeps its type in every behaviour.
THEOREM TypeCorrect == Spec => []TypeOK
BY TypeInit, TypeStep, PTL DEF Spec

-----------------------------------------------------------------------------
LEMMA InvInit == Init => IInv
<1> SUFFICES ASSUME Init PROVE IInv
  OBVIOUS
<1>1. TypeOK
  BY TypeInit
<1>2. OneJobPerRow /\ ClaimsHold
  BY DEF Init, OneJobPerRow, ClaimsHold
<1>3. FailedAfterMaxAttempts /\ DeliveredWasReceived
  BY ConstantsAssumption DEF Init, FailedAfterMaxAttempts, DeliveredWasReceived
<1>4. DuplicatesExplained
  BY DEF Init, DuplicatesExplained, Open
<1> QED
  BY <1>1, <1>2, <1>3, <1>4 DEF IInv

\* Every step keeps the inductive invariant: one step of the proof per action.
LEMMA InvStep == IInv /\ [Next]_vars => IInv'
<1> SUFFICES ASSUME IInv, [Next]_vars PROVE IInv'
  OBVIOUS
<1>0. TypeOK /\ TypeOK'
  BY TypeStep DEF IInv
<1> USE <1>0, ConstantsAssumption DEF TypeOK, RowState, Answer
<1>1. ASSUME NEW S \in SUBSET Row, NEW t \in Stamp, Enqueue(S, t) PROVE IInv'
  <2> USE <1>1 DEF Enqueue, IInv
  <2>1. OneJobPerRow'
    BY DEF OneJobPerRow
  <2>2. ClaimsHold'
    BY DEF ClaimsHold
  <2>3. FailedAfterMaxAttempts'
    BY DEF FailedAfterMaxAttempts
  <2>4. DeliveredWasReceived'
    BY DEF DeliveredWasReceived
  <2>5. DuplicatesExplained'
    BY DEF DuplicatesExplained, Open
  <2> QED
    BY <2>1, <2>2, <2>3, <2>4, <2>5
<1>2. ASSUME NEW p \in Job, Tick(p) \/ Quit(p) PROVE IInv'
  BY <1>2 DEF Tick, Quit, IInv, OneJobPerRow, ClaimsHold, FailedAfterMaxAttempts,
              DeliveredWasReceived, DuplicatesExplained, Open
<1>3. ASSUME NEW p \in Job, NEW r \in Row, Claim(p, r) PROVE IInv'
  <2> USE <1>3 DEF Claim, Due, Claimed, IInv
  <2>1. OneJobPerRow'
    BY DEF OneJobPerRow
  <2>2. ClaimsHold'
    BY DEF ClaimsHold
  <2>3. FailedAfterMaxAttempts' /\ DeliveredWasReceived'
    BY DEF FailedAfterMaxAttempts, DeliveredWasReceived
  <2>4. \A o \in Row : Open(o)' = Open(o)
    <3> SUFFICES ASSUME NEW o \in Row
                 PROVE  (\E q \in Job : claim'[q] = o /\ answer'[q] # "none")
                          <=> (\E q \in Job : claim[q] = o /\ answer[q] # "none")
      BY DEF Open
    <3> QED
      BY DEF ClaimsHold
  <2>5. DuplicatesExplained'
    BY <2>4 DEF DuplicatesExplained
  <2> QED
    BY <2>1, <2>2, <2>3, <2>5
<1>4. ASSUME NEW p \in Job, Post(p) PROVE IInv'
  <2> DEFINE r == claim[p]
  <2> USE <1>4 DEF Post, IInv
  <2>0. r \in Row /\ state[r] = "pending"
    BY DEF ClaimsHold
  <2>1. OneJobPerRow'
    BY DEF OneJobPerRow
  <2>2. ClaimsHold'
    BY <2>0 DEF ClaimsHold, OneJobPerRow
  <2>3. FailedAfterMaxAttempts' /\ DeliveredWasReceived'
    BY <2>0 DEF FailedAfterMaxAttempts, DeliveredWasReceived
  <2>4. Open(r) = 0 /\ Open(r)' = 1
    BY <2>0 DEF Open, OneJobPerRow
  <2>5. ASSUME NEW o \in Row, o # r
        PROVE  Open(o)' = Open(o) /\ received'[o] = received[o]
    BY <2>5 DEF Open
  <2>6. DuplicatesExplained'
    <3> SUFFICES ASSUME NEW o \in Row
                 PROVE  received'[o] <= attempts[o] + losses + Open(o)'
      BY DEF DuplicatesExplained
    <3>1. CASE o = r
      BY <3>1, <2>0, <2>4 DEF DuplicatesExplained
    <3>2. CASE o # r
      BY <3>2, <2>5 DEF DuplicatesExplained
    <3> QED
      BY <3>1, <3>2
  <2> QED
    BY <2>1, <2>2, <2>3, <2>6
<1>5. ASSUME NEW p \in Job, Record(p) PROVE IInv'
  <2> USE <1>5 DEF Record, GivesUp, IInv
  <2>0. PICK r \in Row :
          r = claim[p] /\ state[r] = "pending" /\ attempts[r] < MaxAttempts
    BY DEF ClaimsHold, FailedAfterMaxAttempts
  <2>1. OneJobPerRow'
    BY DEF OneJobPerRow
  <2>2. ClaimsHold'
    BY <2>0 DEF ClaimsHold, OneJobPerRow
  <2>3. FailedAfterMaxAttempts'
    BY <2>0 DEF FailedAfterMaxAttempts
  <2>4. DeliveredWasReceived'
    BY <2>0 DEF DeliveredWasReceived, ClaimsHold
  <2>5. Open(r) = 1
    BY <2>0 DEF Open
  <2>6. ASSUME NEW o \in Row, o # r PROVE Open(o)' = Open(o) /\ attempts'[o] = attempts[o]
    BY <2>6, <2>0 DEF Open
  <2>7. attempts'[r] + Open(r)' >= attempts[r] + 1
    <3>1. CASE answer[p] = "ok"
      BY <3>1, <2>0 DEF Open
    <3>2. CASE answer[p] # "ok"
      <4>1. attempts'[r] = attempts[r] + 1
        BY <3>2, <2>0
      <4>2. Open(r)' \in Nat
        BY DEF Open
      <4> QED
        BY <4>1, <4>2, <2>0
    <3> QED
      BY <3>1, <3>2
  <2>8. DuplicatesExplained'
    <3> SUFFICES ASSUME NEW o \in Row
                 PROVE  received[o] <= attempts'[o] + losses + Open(o)'
      BY DEF DuplicatesExplained
    <3>0. Open(o) \in Nat /\ Open(o)' \in Nat
      BY DEF Open
    <3>1. CASE o = r
      BY <3>0, <3>1, <2>0, <2>5, <2>7 DEF DuplicatesExplained
    <3>2. CASE o # r
      BY <3>2, <2>6 DEF DuplicatesExplained
    <3> QED
      BY <3>1, <3>2
  <2> QED
    BY <2>1, <2>2, <2>3, <2>4, <2>8
<1>6. ASSUME NEW p \in Job, Lose(p) PROVE IInv'
  <2> USE <1>6 DEF Lose, IInv
  <2>1. OneJobPerRow' /\ ClaimsHold'
    BY DEF OneJobPerRow, ClaimsHold
  <2>2. FailedAfterMaxAttempts' /\ DeliveredWasReceived'
    BY DEF FailedAfterMaxAttempts, DeliveredWasReceived
  <2>3. ASSUME NEW o \in Row PROVE Open(o) <= Open(o)' + 1
    BY DEF Open
  <2>4. DuplicatesExplained'
    <3> SUFFICES ASSUME NEW o \in Row
                 PROVE  received[o] <= attempts[o] + losses' + Open(o)'
      BY DEF DuplicatesExplained
    <3>1. Open(o) \in Nat /\ Open(o)' \in Nat
      BY DEF Open
    <3> QED
      BY <3>1, <2>3 DEF DuplicatesExplained
  <2> QED
    BY <2>1, <2>2, <2>4
<1>7. ASSUME NEW r \in Row, Wake(r) PROVE IInv'
  BY <1>7 DEF Wake, IInv, OneJobPerRow, ClaimsHold, FailedAfterMaxAttempts,
              DeliveredWasReceived, DuplicatesExplained, Open
<1>8. CASE UNCHANGED vars
  BY <1>8 DEF vars, IInv, OneJobPerRow, ClaimsHold, FailedAfterMaxAttempts,
              DeliveredWasReceived, DuplicatesExplained, Open
<1> QED
  BY <1>1, <1>2, <1>3, <1>4, <1>5, <1>6, <1>7, <1>8 DEF Next, Work

LEMMA Invariance == Spec => []IInv
BY InvInit, InvStep, PTL DEF Spec

-----------------------------------------------------------------------------
(* The safety properties of the runs.                                      *)

\* However many instances run the job, no row is POSTed by two of them at once.
THEOREM RowsAreClaimedOnce == Spec => []OneJobPerRow
BY Invariance, PTL DEF IInv

\* "failed" means MaxAttempts failed attempts, and nothing else does.
THEOREM FailedMeansMaxAttempts == Spec => []FailedAfterMaxAttempts
BY Invariance, PTL DEF IInv

\* "delivered" is never claimed of a payload the client has not got.
THEOREM DeliveredMeansReceived == Spec => []DeliveredWasReceived
BY Invariance, PTL DEF IInv

\* Each duplicate the client gets is a failed attempt or a lost transaction.
THEOREM DuplicatesHaveACause == Spec => []DuplicatesExplained
BY Invariance, PTL DEF IInv

-----------------------------------------------------------------------------
(* The job implements Outbox: the invariant supplies what Outbox asks of a *)
(* hand-over (the row is pending) and of "delivered" (it was received).    *)

LEMMA OutboxInit == Init => OutboxPromise!Init
BY DEF Init, OutboxPromise!Init

LEMMA OutboxStep == IInv /\ [Next]_vars => [OutboxPromise!Next]_(OutboxPromise!vars)
<1> SUFFICES ASSUME IInv, [Next]_vars PROVE [OutboxPromise!Next]_(OutboxPromise!vars)
  OBVIOUS
<1> USE ConstantsAssumption DEF IInv, TypeOK, RowState, Answer
<1>1. ASSUME NEW S \in SUBSET Row, NEW t \in Stamp, Enqueue(S, t)
      PROVE  OutboxPromise!Next
  BY <1>1 DEF Enqueue, OutboxPromise!Next, OutboxPromise!Add
<1>2. ASSUME NEW p \in Job, Post(p)
      PROVE  OutboxPromise!Next \/ UNCHANGED OutboxPromise!vars
  <2>1. claim[p] \in Row /\ state[claim[p]] = "pending"
    BY <1>2 DEF Post, ClaimsHold
  <2> QED
    BY <1>2, <2>1 DEF Post, OutboxPromise!Next, OutboxPromise!Hand, OutboxPromise!vars
<1>3. ASSUME NEW p \in Job, Record(p)
      PROVE  OutboxPromise!Next \/ UNCHANGED OutboxPromise!vars
  <2>1. claim[p] \in Row /\ state[claim[p]] = "pending"
    BY <1>3 DEF Record, ClaimsHold
  <2>2. answer[p] = "ok" => received[claim[p]] > 0
    BY DEF ClaimsHold
  <2> QED
    BY <1>3, <2>1, <2>2 DEF Record, OutboxPromise!Next, OutboxPromise!Settle, OutboxPromise!vars
<1>4. ASSUME NEW p \in Job, NEW r \in Row, Claim(p, r)
      PROVE  UNCHANGED OutboxPromise!vars
  BY <1>4 DEF Claim, OutboxPromise!vars
<1>5. ASSUME NEW p \in Job, Tick(p) \/ Quit(p) \/ Lose(p)
      PROVE  UNCHANGED OutboxPromise!vars
  BY <1>5 DEF Tick, Quit, Lose, OutboxPromise!vars
<1>6. ASSUME NEW r \in Row, Wake(r) PROVE UNCHANGED OutboxPromise!vars
  BY <1>6 DEF Wake, OutboxPromise!vars
<1>7. CASE UNCHANGED vars
  BY <1>7 DEF vars, OutboxPromise!vars
<1> QED
  BY <1>1, <1>2, <1>3, <1>4, <1>5, <1>6, <1>7 DEF Next, Work

\* The notify job keeps the promise of Outbox: at-least-once hand-over until
\* a row is settled, and never after.
THEOREM ImplementsOutbox == Spec => Refinement
BY OutboxInit, OutboxStep, Invariance, PTL DEF Spec, Refinement, OutboxPromise!Spec
=============================================================================
