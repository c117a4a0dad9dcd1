--------------------------- MODULE BroadcastProofs ---------------------------
(***************************************************************************)
(* Proofs about Broadcast, for any campaigns, recipients, runners and      *)
(* bounds: its type, that a finished campaign has nobody left, that who is *)
(* skipped was sent nothing, that it implements Mailing, and that it never *)
(* counts more messages than Meta has accepted.                            *)
(***************************************************************************)
EXTENDS Broadcast, FiniteSetTheorems, TLAPS

\* What is under way is about a campaign, or a recipient, that there is.
Aimed ==
  /\ \A p \in Runner : job[p].pc # "idle" => job[p].camp \in Campaign
  /\ \A q \in Request : tx[q] # NoTx => tx[q].camp \in Campaign
  /\ \A h \in Hook : hook[h] # NoHook => hook[h].of \in Recipient

TypeInv == TypeOK /\ Aimed

\* Recipients are finitely many, so those of a batch can be counted.
LEMMA SubsetsAreFinite ==
  ASSUME NEW S \in SUBSET Recipient
  PROVE  Cardinality(S) \in Nat
<1>1. IsFiniteSet(S)
  BY ConstantsAssumption, FS_Subset
<1> QED
  BY <1>1, FS_CardinalityType

LEMMA SetType ==
  ASSUME NEW S, NEW st \in RowStatus, row \in [Recipient -> RecipientRow]
  PROVE  Set(S, st) \in [Recipient -> RecipientRow]
BY DEF Set, RecipientRow

\* The ways the code builds a runner's state.
LEMMA JobForms ==
  /\ Idle \in Job
  /\ \A j \in Job, c \in Campaign, n \in Nat :
       /\ [j EXCEPT !.pc = "picked", !.camp = c, !.failed = n] \in Job
       /\ [j EXCEPT !.pc = "halting", !.camp = c] \in Job
  /\ \A j \in Job, B \in SUBSET Recipient :
       /\ [j EXCEPT !.pc = "sending", !.todo = B] \in Job
       /\ [j EXCEPT !.pc = "closing"] \in Job
  /\ \A j \in Job, r \in Recipient, n \in Int, m \in Nat :
       [j EXCEPT !.todo = @ \ {r}, !.sent = n, !.failed = m] \in Job
<1>1. Idle \in Job
  BY DEF Idle, Job
<1> QED
  BY <1>1 DEF Job

\* The ways it writes a campaign.
LEMMA CampWithStatus ==
  ASSUME camp \in [Campaign -> CampRow], NEW c, NEW st \in CampStatus,
         camp' = [camp EXCEPT ![c].status = st]
  PROVE  camp' \in [Campaign -> CampRow]
BY DEF CampRow

LEMMA CampStarted ==
  ASSUME camp \in [Campaign -> CampRow], NEW c, NEW n \in Nat,
         camp' = [camp EXCEPT ![c].status = "sending", ![c].at = n]
  PROVE  camp' \in [Campaign -> CampRow]
BY DEF CampRow, CampStatus

LEMMA CampWithFailed ==
  ASSUME camp \in [Campaign -> CampRow], NEW c, NEW n \in Nat,
         camp' = [camp EXCEPT ![c].failed = n]
  PROVE  camp' \in [Campaign -> CampRow]
BY DEF CampRow

LEMMA CampCounted ==
  ASSUME camp \in [Campaign -> CampRow], NEW c, NEW n \in Nat, NEW m \in Int,
         \/ camp' = [camp EXCEPT ![c].sent = m, ![c].failed = n]
         \/ camp' = [camp EXCEPT ![c].failed = n, ![c].sent = m]
  PROVE  camp' \in [Campaign -> CampRow]
<1>1. CASE camp' = [camp EXCEPT ![c].sent = m, ![c].failed = n]
  BY <1>1, ZenonT(30) DEF CampRow
<1>2. CASE camp' = [camp EXCEPT ![c].failed = n, ![c].sent = m]
  BY <1>2 DEF CampRow
<1> QED
  BY <1>1, <1>2

\* What an attempt does to its runner.
LEMMA AttemptForm ==
  ASSUME job \in [Runner -> Job], camp \in [Campaign -> CampRow],
         NEW p \in Runner, job[p].camp \in Campaign, NEW r \in Recipient, Attempt(p, r)
  PROVE  /\ job' \in [Runner -> Job]
         /\ \A x \in Runner : x # p => job'[x] = job[x]
         /\ job'[p].pc = job[p].pc /\ job'[p].camp = job[p].camp /\ job'[p].todo = job[p].todo \ {r}
         /\ \/ job'[p].ok = job[p].ok \cup {r} /\ job'[p].bad = job[p].bad
            \/ job'[p].ok = job[p].ok /\ job'[p].bad = job[p].bad \cup {r}
<1> DEFINE c    == job[p].camp
           none == job[p].ok \cup job[p].bad = {}
           n    == IF none THEN camp[c].sent ELSE job[p].sent
           m    == IF none THEN camp[c].failed ELSE job[p].failed
           read == [job[p] EXCEPT !.todo = @ \ {r}, !.sent = n, !.failed = m]
<1>1. \/ job' = [job EXCEPT ![p] = [read EXCEPT !.ok = @ \cup {r}]]
      \/ job' = [job EXCEPT ![p] = [read EXCEPT !.bad = @ \cup {r}]]
  BY DEF Attempt
<1>2. n \in Int /\ m \in Nat
  BY DEF Job, CampRow
<1> HIDE DEF n, m
<1>3. read \in Job
  BY <1>2, JobForms
<1>4. read.pc = job[p].pc /\ read.camp = job[p].camp /\ read.todo = job[p].todo \ {r}
      /\ read.ok = job[p].ok /\ read.bad = job[p].bad
  BY DEF Job
<1> HIDE DEF read
<1>5. CASE job' = [job EXCEPT ![p] = [read EXCEPT !.ok = @ \cup {r}]]
  <2> DEFINE z == [read EXCEPT !.ok = @ \cup {r}]
  <2>1. z \in Job
    BY <1>3 DEF Job
  <2>2. z.pc = read.pc /\ z.camp = read.camp /\ z.todo = read.todo /\ z.ok = read.ok \cup {r}
        /\ z.bad = read.bad
    BY <1>3 DEF Job
  <2>3. job' = [job EXCEPT ![p] = z]
    BY <1>5
  <2> HIDE DEF z
  <2> QED
    BY <1>4, <2>1, <2>2, <2>3
<1>6. CASE job' = [job EXCEPT ![p] = [read EXCEPT !.bad = @ \cup {r}]]
  <2> DEFINE z == [read EXCEPT !.bad = @ \cup {r}]
  <2>1. z \in Job
    BY <1>3 DEF Job
  <2>2. z.pc = read.pc /\ z.camp = read.camp /\ z.todo = read.todo /\ z.ok = read.ok
        /\ z.bad = read.bad \cup {r}
    BY <1>3 DEF Job
  <2>3. job' = [job EXCEPT ![p] = z]
    BY <1>6
  <2> HIDE DEF z
  <2> QED
    BY <1>4, <2>1, <2>2, <2>3
<1> QED
  BY <1>1, <1>5, <1>6

LEMMA InitType == Init => TypeInv
<1> SUFFICES ASSUME Init PROVE TypeInv
  OBVIOUS
<1> USE DEF Init, TypeInv, TypeOK, Aimed, CampRow, RecipientRow, Job, CampStatus, RowStatus,
            Idle, NoTx, NoHook
<1>1. TypeOK
  OBVIOUS
<1>2. Aimed
  OBVIOUS
<1> QED
  BY <1>1, <1>2

LEMMA TypeStep == TypeInv /\ [Next]_vars => TypeInv'
<1> SUFFICES ASSUME TypeInv, [Next]_vars PROVE TypeInv'
  OBVIOUS
<1> USE DEF TypeInv, TypeOK, Aimed
<1>1. ASSUME NEW p \in Runner, NEW c \in Campaign, Pick(p, c) PROVE TypeInv'
  <2> DEFINE j == [Idle EXCEPT !.pc = "picked", !.camp = c, !.failed = camp[c].failed]
  <2>1. j \in Job /\ j.camp = c
    BY JobForms DEF CampRow, Idle
  <2> HIDE DEF j
  <2>2. job' = [job EXCEPT ![p] = j]
    BY <1>1 DEF Pick, j
  <2> QED
    BY <1>1, <2>1, <2>2 DEF Pick
<1>2. ASSUME NEW p \in Runner, NEW B \in SUBSET Recipient, Claim(p, B) PROVE TypeInv'
  <2> DEFINE j == [job[p] EXCEPT !.pc = "sending", !.todo = B]
  <2>0. j \in Job
    BY JobForms
  <2>1. j.camp = job[p].camp /\ job[p].camp \in Campaign
    BY <1>2 DEF Claim, Job
  <2> HIDE DEF j
  <2>2. job' = [job EXCEPT ![p] = j]
    BY <1>2 DEF Claim, j
  <2>3. row' \in [Recipient -> RecipientRow]
    BY <1>2, SetType DEF Claim, RowStatus
  <2> QED
    BY <1>2, <2>0, <2>1, <2>2, <2>3 DEF Claim
<1>3. ASSUME NEW p \in Runner, GiveUp(p) PROVE TypeInv'
  <2> DEFINE c     == job[p].camp
             stuck == In(c, {"pending", "sending"})
             j     == [job[p] EXCEPT !.pc = "closing"]
  <2>1. c \in Campaign /\ job[p].failed \in Nat
    BY <1>3 DEF GiveUp, Job
  <2>2. Cardinality(stuck) \in Nat
    BY SubsetsAreFinite DEF In, Rows
  <2>3. row' \in [Recipient -> RecipientRow]
    BY <1>3, SetType DEF GiveUp, RowStatus
  <2>4. PICK n \in Nat : camp' = [camp EXCEPT ![c].failed = n]
    <3> DEFINE n == IF stuck = {} THEN camp[c].failed ELSE job[p].failed + Cardinality(stuck)
    <3>1. n \in Nat
      BY <2>1, <2>2 DEF CampRow
    <3>2. camp' = [camp EXCEPT ![c].failed = n]
      BY <1>3 DEF GiveUp
    <3> HIDE DEF n
    <3> QED
      BY <3>1, <3>2
  <2>5. j \in Job
    BY JobForms
  <2>8. j.camp = c
    BY DEF Job
  <2>6. job' = [job EXCEPT ![p] = j]
    BY <1>3 DEF GiveUp
  <2> HIDE DEF j, c, stuck
  <2>7. camp' \in [Campaign -> CampRow]
    BY <2>4, CampWithFailed
  <2> QED
    BY <1>3, <2>1, <2>3, <2>5, <2>6, <2>7, <2>8 DEF GiveUp
<1>4. ASSUME NEW p \in Runner, Yield(p) PROVE TypeInv'
  <2>1. job' \in [Runner -> Job]
    BY <1>4, JobForms DEF Yield
  <2> QED
    BY <1>4, <2>1 DEF Yield, Idle
<1>5. ASSUME NEW p \in Runner, Finish(p) \/ Halt(p) PROVE TypeInv'
  <2>1. job' \in [Runner -> Job]
    BY <1>5, JobForms DEF Finish, Halt
  <2>2. camp' = [camp EXCEPT ![job[p].camp].status = "dispatched"] /\ "dispatched" \in CampStatus
    BY <1>5 DEF Finish, Halt, CampStatus
  <2>3. camp' \in [Campaign -> CampRow]
    BY <2>2, CampWithStatus
  <2> QED
    BY <1>5, <2>1, <2>3 DEF Finish, Halt, Idle
<1>6. ASSUME NEW p \in Runner, NEW r \in Recipient, Attempt(p, r) PROVE TypeInv'
  <2>1. job[p].camp \in Campaign
    BY <1>6 DEF Attempt
  <2>3. job' \in [Runner -> Job] /\ \A x \in Runner : job'[x].pc = job[x].pc /\ job'[x].camp = job[x].camp
    BY <1>6, <2>1, AttemptForm
  <2>4. copies' \in [Recipient -> Nat]
    BY <1>6 DEF Attempt
  <2> QED
    BY <1>6, <2>3, <2>4 DEF Attempt
<1>7. ASSUME NEW p \in Runner, Record(p) PROVE TypeInv'
  <2> DEFINE j == job[p]
             c == j.camp
             n == IF j.ok = {} THEN camp[c].sent ELSE Counted(j).sent
             m == IF j.bad = {} THEN camp[c].failed ELSE Counted(j).failed
  <2>1. Cardinality(j.ok) \in Nat /\ Cardinality(j.bad) \in Nat
    BY SubsetsAreFinite DEF Job
  <2>2. row' \in [Recipient -> RecipientRow]
    BY <1>7 DEF Record, Recorded, RecipientRow, RowStatus
  <2>3. c \in Campaign /\ n \in Int /\ m \in Nat
    BY <1>7, <2>1 DEF Record, Counted, CampRow, Job
  <2>4. camp' = [camp EXCEPT ![c].sent = n, ![c].failed = m]
    BY <1>7, <2>3 DEF Record
  <2> HIDE DEF j, c, n, m
  <2>5. job' \in [Runner -> Job] /\ (job'[p].pc # "idle" => job'[p].camp = c)
    <3> DEFINE z == [Idle EXCEPT !.pc = "halting", !.camp = c]
    <3>1. z \in Job /\ z.camp = c
      BY <2>3, JobForms DEF Idle
    <3> HIDE DEF z
    <3>2. job' = [job EXCEPT ![p] = z] \/ job' = [job EXCEPT ![p] = Idle]
      BY <1>7 DEF Record, z, c, j
    <3>3. Idle \in Job /\ Idle.pc = "idle"
      BY JobForms DEF Idle
    <3> QED
      BY <3>1, <3>2, <3>3
  <2>7. camp' \in [Campaign -> CampRow]
    BY <2>3, <2>4, CampCounted
  <2> QED
    BY <1>7, <2>2, <2>3, <2>5, <2>7 DEF Record
<1>8. ASSUME NEW p \in Runner, Drop(p) \/ Lose(p) PROVE TypeInv'
  <2>1. job' \in [Runner -> Job]
    BY <1>8, JobForms DEF Drop, Lose
  <2> QED
    BY <1>8, <2>1 DEF Drop, Lose, Idle
<1>9. ASSUME Crash PROVE TypeInv'
  <2>1. job' \in [Runner -> Job] /\ \A p \in Runner : job'[p].pc = "idle"
    BY <1>9, JobForms DEF Crash, Idle
  <2>2. hook' = [h \in Hook |-> NoHook] /\ tx' = [q \in Request |-> NoTx]
    BY <1>9 DEF Crash
  <2>3. /\ tx' \in [Request -> [kind : {"none", "send", "cancel", "delete"},
                                camp : Campaign \cup {NoCampaign}]]
        /\ hook' \in [Hook -> [of : Recipient \cup {NoRecipient}, ev : Receipts \cup {"none"},
                               status : RowStatus, sent : Int, failed : Nat]]
    BY <2>2 DEF NoTx, NoHook, RowStatus
  <2> QED
    BY <1>9, <2>1, <2>2, <2>3 DEF Crash
<1>10. ASSUME Boot PROVE TypeInv'
  BY <1>10, SetType DEF Boot, RowStatus
<1>11. ASSUME NEW c \in Campaign, Unconfigure(c) PROVE TypeInv'
  BY <1>11 DEF Unconfigure
<1>12. ASSUME NEW q \in Request, NEW c \in Campaign, NEW k \in {"send", "cancel", "delete"},
              Begin(q, k, c)
       PROVE  TypeInv'
  BY <1>12 DEF Begin
<1>13. ASSUME NEW q \in Request, Commit(q) PROVE TypeInv'
  <2>1. row' \in [Recipient -> RecipientRow] /\ camp' \in [Campaign -> CampRow]
    <3>1. CASE SendCampaign(q)
      <4>1. CASE In(tx[q].camp, {"draft"}) = {}
        BY <3>1, <4>1 DEF SendCampaign
      <4>2. CASE In(tx[q].camp, {"draft"}) # {}
        <5>1. PICK now \in {1 + camp[d].at : d \in Campaign} :
                camp' = [camp EXCEPT ![tx[q].camp].status = "sending", ![tx[q].camp].at = now]
          BY <3>1, <4>2 DEF SendCampaign
        <5>2. now \in Nat
          BY DEF CampRow
        <5>3. camp' \in [Campaign -> CampRow]
          BY <5>1, <5>2, CampStarted
        <5> QED
          BY <3>1, <4>2, <5>3, SetType DEF SendCampaign, RowStatus
      <4> QED
        BY <4>1, <4>2
    <3>2. CASE CancelCampaign(q) \/ DeleteCampaign(q)
      <4>1. row' \in [Recipient -> RecipientRow]
        BY <3>2, SetType DEF CancelCampaign, DeleteCampaign, RowStatus
      <4>2. PICK st \in CampStatus : camp' = [camp EXCEPT ![tx[q].camp].status = st] \/ camp' = camp
        BY <3>2 DEF CancelCampaign, DeleteCampaign, CampStatus
      <4> QED
        BY <4>1, <4>2, CampWithStatus
    <3> QED
      BY <1>13, <3>1, <3>2 DEF Commit
  <2> QED
    BY <1>13, <2>1 DEF Commit, NoTx
<1>14. ASSUME NEW h \in Hook, NEW r \in Recipient, NEW ev \in Receipts, Receive(h, r, ev)
       PROVE  TypeInv'
  <2>1. Of[r] \in Campaign
    BY ConstantsAssumption
  <2> QED
    BY <1>14, <2>1 DEF Receive, RecipientRow, CampRow
<1>15. ASSUME NEW h \in Hook, Apply(h) PROVE TypeInv'
  <2>1. hook[h].of \in Recipient /\ hook[h].sent \in Int /\ hook[h].failed \in Nat
    BY <1>15 DEF Apply
  <2>2. row' \in [Recipient -> RecipientRow] /\ camp' \in [Campaign -> CampRow]
    <3>1. CASE Progressed(h)
      <4>1. hook[h].ev \in {"sent", "delivered", "read"} \/ ~Outranks(hook[h].ev, hook[h].status)
        BY <3>1, ConstantsAssumption DEF Progressed, Outranks, Rank
      <4> QED
        BY <3>1, <4>1, SetType DEF Progressed, RowStatus
    <3>2. CASE Contradicted(h)
      <4>1. CASE hook[h].status = "failed"
        BY <3>2, <4>1 DEF Contradicted
      <4>2. CASE hook[h].status # "failed"
        <5> DEFINE c == Of[hook[h].of]
                   n == hook[h].failed + 1
                   m == IF Rank(hook[h].status) > 0 /\ hook[h].sent > 0 THEN hook[h].sent - 1
                        ELSE camp[c].sent
        <5>1. c \in Campaign /\ n \in Nat /\ m \in Int
          BY <2>1, ConstantsAssumption DEF CampRow
        <5>2. camp' = [camp EXCEPT ![c].failed = n, ![c].sent = m]
          BY <3>2, <4>2, <5>1 DEF Contradicted
        <5> HIDE DEF c, n, m
        <5>3. camp' \in [Campaign -> CampRow]
          BY <5>1, <5>2, CampCounted
        <5> QED
          BY <3>2, <4>2, <5>3, SetType DEF Contradicted, RowStatus
      <4> QED
        BY <4>1, <4>2
    <3> QED
      BY <1>15, <3>1, <3>2 DEF Apply
  <2>3. hook' = [hook EXCEPT ![h] = NoHook] /\ NoHook.of = NoRecipient /\ NoHook.ev = "none"
        /\ NoHook.status \in RowStatus /\ NoHook.sent \in Int /\ NoHook.failed \in Nat
    BY <1>15 DEF Apply, NoHook, RowStatus
  <2> QED
    BY <1>15, <2>2, <2>3 DEF Apply, NoHook
<1>16. CASE UNCHANGED vars
  BY <1>16 DEF vars
<1> QED
  BY <1>1, <1>2, <1>3, <1>4, <1>5, <1>6, <1>7, <1>8, <1>9, <1>10, <1>11, <1>12, <1>13, <1>14,
     <1>15, <1>16 DEF Next, Run

\* Every variable of a broadcast keeps its type.
THEOREM TypeCorrect == Spec => []TypeOK
<1>1. TypeInv => TypeOK
  BY DEF TypeInv
<1> QED
  BY <1>1, InitType, TypeStep, PTL DEF Spec

-----------------------------------------------------------------------------
(* A finished campaign has nobody left.                                    *)

\* Drafts are over once a campaign has been sent, and a runner works on one that
\* has, on its own rows; only a campaign that stops on errors is halted.
Sequence ==
  /\ \A r \in Recipient : row[r].status = "draft" => camp[Of[r]].status = "ready"
  /\ \A p \in Runner : job[p].pc # "idle" => camp[job[p].camp].status # "ready"
  /\ \A p \in Runner : job[p].pc = "halting" => job[p].camp \in Halting
  /\ \A p \in Runner : \A r \in job[p].todo : Of[r] = job[p].camp

\* DispatchedIsDone, row by row.
Done ==
  \A r \in Recipient :
    Of[r] \notin Halting /\ camp[Of[r]].status = "dispatched" => row[r].status \notin {"pending", "sending"}

LEMMA DoneMeans == Done => DispatchedIsDone
BY ConstantsAssumption DEF Done, DispatchedIsDone, In, Rows

LEMMA DoneInit == Init => Sequence /\ Done
BY ConstantsAssumption DEF Init, Sequence, Done, Idle

\* What a batch writes to a row: an outcome, or back to pending.
LEMMA RecordedStatus ==
  ASSUME row \in [Recipient -> RecipientRow], NEW j
  PROVE  \A r \in Recipient :
           \/ Recorded(j)[r].status \in {row[r].status, "sent", "failed"}
           \/ r \in j.todo /\ Recorded(j)[r].status = "pending"
<1> SUFFICES ASSUME NEW r \in Recipient
             PROVE  \/ Recorded(j)[r].status \in {row[r].status, "sent", "failed"}
                    \/ r \in j.todo /\ Recorded(j)[r].status = "pending"
  OBVIOUS
<1>1. row[r] = [status |-> row[r].status, msg |-> row[r].msg]
  BY DEF RecipientRow
<1>2. CASE r \in j.ok
  BY <1>2 DEF Recorded
<1>3. CASE r \notin j.ok /\ r \in j.bad
  BY <1>1, <1>3 DEF Recorded
<1>4. CASE r \notin j.ok /\ r \notin j.bad /\ r \in j.todo
  BY <1>1, <1>4 DEF Recorded
<1>5. CASE r \notin j.ok /\ r \notin j.bad /\ r \notin j.todo
  BY <1>5 DEF Recorded
<1> QED
  BY <1>2, <1>3, <1>4, <1>5

LEMMA DoneStep == TypeInv /\ TypeInv' /\ Sequence /\ Done /\ [Next]_vars => Sequence' /\ Done'
<1> SUFFICES ASSUME TypeInv, TypeInv', Sequence, Done, [Next]_vars PROVE Sequence' /\ Done'
  OBVIOUS
<1>0. Of \in [Recipient -> Campaign]
  BY ConstantsAssumption
<1> USE <1>0 DEF TypeInv, TypeOK, Aimed, Sequence, Done
<1>1. ASSUME NEW p \in Runner, NEW c \in Campaign, Pick(p, c) PROVE Sequence' /\ Done'
  BY <1>1 DEF Pick, Idle
<1>2. ASSUME NEW p \in Runner, NEW B \in SUBSET Recipient, Claim(p, B) PROVE Sequence' /\ Done'
  <2>1. \A r \in B : Of[r] = job[p].camp /\ row[r].status = "pending"
    BY <1>2 DEF Claim, Claimable, In, Rows
  <2>2. row' = [r \in Recipient |-> IF r \in B THEN [row[r] EXCEPT !.status = "sending"] ELSE row[r]]
    BY <1>2 DEF Claim, Set
  <2>3. job[p].pc = "picked" /\ job' = [job EXCEPT ![p].pc = "sending", ![p].todo = B] /\ camp' = camp
    BY <1>2 DEF Claim
  <2>4. \A r \in Recipient : row'[r].status = IF r \in B THEN "sending" ELSE row[r].status
    BY <2>2 DEF RecipientRow
  <2>5. /\ \A x \in Runner : x # p => job'[x] = job[x]
        /\ job'[p].pc = "sending" /\ job'[p].camp = job[p].camp /\ job'[p].todo = B
    BY <2>3 DEF Job
  <2>6. Sequence'
    BY <2>1, <2>3, <2>4, <2>5
  <2>7. Done'
    BY <2>1, <2>3, <2>4
  <2> QED
    BY <2>6, <2>7
<1>3. ASSUME NEW p \in Runner, GiveUp(p) PROVE Sequence' /\ Done'
  <2>1. \A r \in Recipient : row'[r].status = row[r].status \/ row'[r].status = "failed"
    BY <1>3 DEF GiveUp, Set, RecipientRow
  <2>2. \A c \in Campaign : camp'[c].status = camp[c].status
    BY <1>3 DEF GiveUp, CampRow
  <2>3. \A x \in Runner : /\ job'[x].camp = job[x].camp /\ job'[x].todo = job[x].todo
                          /\ job'[x].pc = IF x = p THEN "closing" ELSE job[x].pc
    BY <1>3 DEF GiveUp, Job
  <2>4. job[p].pc = "picked"
    BY <1>3 DEF GiveUp
  <2>5. Sequence'
    <3>1. \A r \in Recipient : row'[r].status = "draft" => camp'[Of[r]].status = "ready"
      BY <2>1, <2>2
    <3>2. \A x \in Runner : job'[x].pc # "idle" => camp'[job'[x].camp].status # "ready"
      <4> SUFFICES ASSUME NEW x \in Runner, job'[x].pc # "idle"
                   PROVE  camp'[job'[x].camp].status # "ready"
        OBVIOUS
      <4>1. job[x].pc # "idle" /\ job'[x].camp = job[x].camp
        BY <2>3, <2>4
      <4>2. job[x].camp \in Campaign /\ camp[job[x].camp].status # "ready"
        BY <4>1
      <4> QED
        BY <2>2, <4>1, <4>2
    <3>3. \A x \in Runner : job'[x].pc = "halting" => job'[x].camp \in Halting
      BY <2>3
    <3>4. \A x \in Runner : \A r \in job'[x].todo : Of[r] = job'[x].camp
      BY <2>3
    <3> QED
      BY <3>1, <3>2, <3>3, <3>4
  <2>6. Done'
    BY <2>1, <2>2
  <2> QED
    BY <2>5, <2>6
<1>4. ASSUME NEW p \in Runner, Yield(p) \/ Drop(p) \/ Lose(p) PROVE Sequence' /\ Done'
  <2>1. UNCHANGED <<row, camp>> /\ job' = [job EXCEPT ![p] = Idle]
    BY <1>4 DEF Yield, Drop, Lose
  <2>2. \A x \in Runner : job'[x] = job[x] \/ (job'[x].pc = "idle" /\ job'[x].todo = {})
    BY <2>1 DEF Idle
  <2>3. Sequence'
    BY <2>1, <2>2
  <2>4. Done'
    BY <2>1
  <2> QED
    BY <2>3, <2>4
<1>5. ASSUME NEW p \in Runner, Finish(p) \/ Halt(p) PROVE Sequence' /\ Done'
  <2> DEFINE c == job[p].camp
  <2>1. c \in Campaign
    BY <1>5 DEF Finish, Halt
  <2>2. \A d \in Campaign : camp'[d].status = IF d = c THEN "dispatched" ELSE camp[d].status
    BY <1>5 DEF Finish, Halt, CampRow
  <2>3. c \in Halting \/ \A r \in Recipient : Of[r] = c => row[r].status \notin {"pending", "sending"}
    BY <1>5 DEF Finish, Halt, Outstanding, In, Rows
  <2>4. row' = row /\ job' = [job EXCEPT ![p] = Idle]
    BY <1>5 DEF Finish, Halt
  <2>5. camp[c].status # "ready"
    BY <1>5 DEF Finish, Halt
  <2> HIDE DEF c
  <2>6. Done'
    BY <2>2, <2>3, <2>4
  <2>7. Sequence'
    BY <2>2, <2>4, <2>5 DEF Idle
  <2> QED
    BY <2>6, <2>7
<1>6. ASSUME NEW p \in Runner, NEW r \in Recipient, Attempt(p, r) PROVE Sequence' /\ Done'
  <2>1. row' = row /\ camp' = camp
    BY <1>6 DEF Attempt
  <2>2. \A x \in Runner : /\ job'[x].camp = job[x].camp /\ job'[x].pc = job[x].pc
                          /\ job'[x].todo \subseteq job[x].todo
    <3>1. job[p].camp \in Campaign
      BY <1>6 DEF Attempt
    <3> QED
      BY <1>6, <3>1, AttemptForm
  <2> QED
    BY <2>1, <2>2
<1>7. ASSUME NEW p \in Runner, Record(p) PROVE Sequence' /\ Done'
  <2>1. \A r \in Recipient :
          \/ row'[r].status \in {row[r].status, "sent", "failed"}
          \/ r \in job[p].todo /\ row'[r].status = "pending"
    <3>1. row' = Recorded(job[p])
      BY <1>7 DEF Record
    <3>2. \A r \in Recipient :
            \/ Recorded(job[p])[r].status \in {row[r].status, "sent", "failed"}
            \/ r \in job[p].todo /\ Recorded(job[p])[r].status = "pending"
      BY RecordedStatus
    <3> QED
      BY <3>1, <3>2
  <2>2. \A c \in Campaign : camp'[c].status = camp[c].status
    BY <1>7 DEF Record, CampRow
  <2>3. job[p].pc = "sending" /\ (job[p].todo = {} \/ job[p].camp \in Halting)
    BY <1>7 DEF Record, Stopped
  <2>4. \A x \in Runner : x # p => job'[x] = job[x]
    BY <1>7 DEF Record
  <2>5. /\ job'[p].pc = "idle" \/ (job'[p].pc = "halting" /\ job'[p].camp = job[p].camp /\ job[p].camp \in Halting)
        /\ job'[p].todo = {}
    BY <1>7 DEF Record, Stopped, Idle
  <2>6. Done'
    <3> SUFFICES ASSUME NEW r \in Recipient, Of[r] \notin Halting, camp'[Of[r]].status = "dispatched"
                 PROVE  row'[r].status \notin {"pending", "sending"}
      OBVIOUS
    <3>1. row[r].status \notin {"pending", "sending"}
      BY <2>2
    <3>2. r \notin job[p].todo
      BY <2>3
    <3> QED
      BY <2>1, <3>1, <3>2
  <2>7. Sequence'
    <3>1. \A r \in Recipient : row'[r].status = "draft" => camp'[Of[r]].status = "ready"
      BY <2>1, <2>2
    <3>2. \A x \in Runner : job'[x].pc # "idle" => camp'[job'[x].camp].status # "ready"
      <4> SUFFICES ASSUME NEW x \in Runner, job'[x].pc # "idle"
                   PROVE  camp'[job'[x].camp].status # "ready"
        OBVIOUS
      <4>1. job[x].pc # "idle" /\ job'[x].camp = job[x].camp
        BY <2>3, <2>4, <2>5
      <4>2. job[x].camp \in Campaign /\ camp[job[x].camp].status # "ready"
        BY <4>1
      <4> QED
        BY <2>2, <4>1, <4>2
    <3>3. \A x \in Runner : job'[x].pc = "halting" => job'[x].camp \in Halting
      BY <2>4, <2>5
    <3>4. \A x \in Runner : \A r \in job'[x].todo : Of[r] = job'[x].camp
      BY <2>4, <2>5
    <3> QED
      BY <3>1, <3>2, <3>3, <3>4
  <2> QED
    BY <2>6, <2>7
<1>8. ASSUME Crash PROVE Sequence' /\ Done'
  BY <1>8 DEF Crash, Idle
<1>9. ASSUME Boot PROVE Sequence' /\ Done'
  <2>1. \A r \in Recipient :
          \/ row'[r].status = row[r].status
          \/ row[r].status = "sending" /\ row'[r].status = "pending"
    <3>1. CASE row' = row
      BY <3>1
    <3>2. CASE row' = Set(Interrupted, "pending")
      BY <3>2 DEF Set, Interrupted, RecipientRow
    <3> QED
      BY <1>9, <3>1, <3>2 DEF Boot
  <2> QED
    BY <1>9, <2>1 DEF Boot
<1>10. ASSUME NEW q \in Request, Commit(q) PROVE Sequence' /\ Done'
  <2> DEFINE c == tx[q].camp
  <2>0. job' = job
    BY <1>10 DEF Commit
  <2>1. CASE SendCampaign(q)
    <3>1. CASE In(c, {"draft"}) = {}
      BY <2>0, <2>1, <3>1 DEF SendCampaign
    <3>2. CASE In(c, {"draft"}) # {}
      <4>1. \A r \in Recipient : row'[r].status = IF row[r].status = "draft" /\ Of[r] = c THEN "pending"
                                                  ELSE row[r].status
        BY <2>1, <3>2 DEF SendCampaign, Set, In, Rows, RecipientRow
      <4>2. \A d \in Campaign : camp'[d].status = IF d = c THEN "sending" ELSE camp[d].status
        <5>1. PICK now \in {1 + camp[d].at : d \in Campaign} :
                camp' = [camp EXCEPT ![c].status = "sending", ![c].at = now]
          BY <2>1, <3>2 DEF SendCampaign
        <5> QED
          BY <5>1 DEF CampRow
      <4> HIDE DEF c
      <4> QED
        BY <2>0, <4>1, <4>2
    <3> QED
      BY <3>1, <3>2
  <2>2. CASE CancelCampaign(q)
    <3>1. CASE camp[c].status = "deleted"
      BY <2>0, <2>2, <3>1 DEF CancelCampaign
    <3>2. CASE camp[c].status # "deleted"
      <4>1. \A r \in Recipient :
              row'[r].status = IF row[r].status \in {"draft", "pending"} /\ Of[r] = c THEN "skipped"
                               ELSE row[r].status
        BY <2>2, <3>2 DEF CancelCampaign, Set, Cancellable, In, Rows, RecipientRow
      <4>2. \A d \in Campaign : camp'[d].status = IF d = c THEN "cancelled" ELSE camp[d].status
        BY <2>2, <3>2 DEF CancelCampaign, CampRow
      <4> HIDE DEF c
      <4> QED
        BY <2>0, <4>1, <4>2
    <3> QED
      BY <3>1, <3>2
  <2>3. CASE DeleteCampaign(q)
    <3>1. \A r \in Recipient : row'[r].status = IF Of[r] = c THEN "absent" ELSE row[r].status
      BY <2>3 DEF DeleteCampaign, Set, Rows, RecipientRow
    <3>2. \A d \in Campaign : camp'[d].status = IF d = c THEN "deleted" ELSE camp[d].status
      BY <2>3 DEF DeleteCampaign, CampRow
    <3> HIDE DEF c
    <3> QED
      BY <2>0, <3>1, <3>2
  <2> QED
    BY <1>10, <2>1, <2>2, <2>3 DEF Commit
<1>11. ASSUME NEW h \in Hook, Apply(h) PROVE Sequence' /\ Done'
  <2>1. job' = job
    BY <1>11 DEF Apply
  <2>2. \A c \in Campaign : camp'[c].status = camp[c].status
    BY <1>11 DEF Apply, Progressed, Contradicted, CampRow
  <2>3. \A r \in Recipient : row'[r].status \in {row[r].status, "sent", "delivered", "read", "failed"}
    <3>1. CASE row' = row
      BY <3>1
    <3>2. CASE Progressed(h) /\ Outranks(hook[h].ev, hook[h].status)
      <4>1. hook[h].ev \in {"sent", "delivered", "read"}
        BY <3>2 DEF Outranks, Rank
      <4> QED
        BY <3>2, <4>1 DEF Progressed, Set, RecipientRow
    <3>3. CASE row' = Set({hook[h].of}, "failed")
      BY <3>3 DEF Set, RecipientRow
    <3> QED
      BY <1>11, <3>1, <3>2, <3>3 DEF Apply, Progressed, Contradicted
  <2>4. Done'
    BY <2>2, <2>3
  <2>5. Sequence'
    <3>1. \A r \in Recipient : row'[r].status = "draft" => row[r].status = "draft"
      BY <2>3
    <3>2. \A r \in Recipient : row'[r].status = "draft" => camp'[Of[r]].status = "ready"
      BY <2>2, <3>1
    <3>3. \A x \in Runner : job'[x].pc # "idle" => camp'[job'[x].camp].status # "ready"
      <4> SUFFICES ASSUME NEW x \in Runner, job'[x].pc # "idle"
                   PROVE  camp'[job'[x].camp].status # "ready"
        OBVIOUS
      <4>1. job'[x] = job[x] /\ job[x].camp \in Campaign /\ camp[job[x].camp].status # "ready"
        BY <2>1
      <4> QED
        BY <2>2, <4>1
    <3> QED
      BY <2>1, <3>2, <3>3
  <2> QED
    BY <2>4, <2>5
<1>12. CASE UNCHANGED <<camp, row, job>>
  BY <1>12
<1> QED
  BY <1>1, <1>2, <1>3, <1>4, <1>5, <1>6, <1>7, <1>8, <1>9, <1>10, <1>11, <1>12
     DEF Next, Run, vars, Unconfigure, Begin, Receive

\* A campaign that does not stop on errors is dispatched only when every one of
\* its recipients has been attempted.
THEOREM DispatchedMeansDone == Spec => []DispatchedIsDone
<1>1. Init => TypeInv /\ Sequence /\ Done
  BY InitType, DoneInit
<1>2. TypeInv /\ Sequence /\ Done /\ [Next]_vars => (TypeInv /\ Sequence /\ Done)'
  BY TypeStep, DoneStep
<1> QED
  BY <1>1, <1>2, DoneMeans, PTL DEF Spec
-----------------------------------------------------------------------------
(* Nobody is sent to twice in one life of the process.                     *)

\* The recipients of the batch that each runner works on.
Batch == [p \in Runner |-> job[p].todo \cup job[p].ok \cup job[p].bad]

\* Whom a runner has claimed belongs to it alone, has no message yet, and was
\* claimed only because no earlier attempt of this life had reached anybody.
Apart ==
  /\ \A p, q \in Runner : \A r \in Batch[p] : r \in Batch[q] => p = q
  /\ \A p \in Runner : job[p].todo \cap (job[p].ok \cup job[p].bad) = {}
                       /\ job[p].ok \cap job[p].bad = {}
  /\ \A p \in Runner : job[p].pc # "sending" => Batch[p] = {}
  /\ \A p \in Runner : ~up => job[p].pc = "idle"

Unsent ==
  /\ \A p \in Runner : \A r \in Batch[p] :
       row[r].status \in {"sending", "failed", "absent"} /\ row[r].msg = 0
  /\ \A r \in Recipient :
       row[r].msg > 0 => row[r].status \in {"sent", "delivered", "read", "failed", "absent"}
  /\ \A h \in Hook : hook[h] # NoHook => row[hook[h].of].msg > 0

Sparing ==
  \A r \in Recipient :
    /\ copies[r] <= boots + 1
    /\ Taken(r) \/ row[r].status \in {"draft", "pending", "skipped"} => copies[r] <= boots

Held == Apart /\ Unsent /\ Sparing

\* The phase of Mailing that each recipient is in.
Phases ==
  [r \in Recipient |-> IF Taken(r) THEN "taken"
                       ELSE IF row[r].status = "draft" THEN "held"
                       ELSE IF row[r].status = "pending" THEN "due" ELSE "over"]

LEMMA OverStep ==
  ASSUME NEW S \in SUBSET Recipient, UNCHANGED <<copies, boots>>,
         \A r \in Recipient : Phases'[r] = IF r \in S THEN "over" ELSE Phases[r]
  PROVE  Mail!Next
<1>1. /\ {} \in SUBSET S /\ \A r \in {} : Phases[r] = "taken"
      /\ Phases' = [r \in Recipient |-> IF r \in {} THEN "due"
                                        ELSE IF r \in S THEN "over" ELSE Phases[r]]
  BY DEF Phases
<1>2. Mail!Pass(S)
  BY <1>1 DEF Mail!Pass, Phases
<1> QED
  BY <1>2 DEF Mail!Next

LEMMA QueueStep ==
  ASSUME NEW S \in SUBSET Recipient, UNCHANGED <<copies, boots>>,
         \A r \in S : Phases[r] = "held",
         \A r \in Recipient : Phases'[r] = IF r \in S THEN "due" ELSE Phases[r]
  PROVE  Mail!Next
<1>1. Mail!Move(S, "held", "due")
  BY DEF Mail!Move, Phases
<1>2. Mail!Pass(S)
  BY <1>1 DEF Mail!Pass
<1> QED
  BY <1>2 DEF Mail!Next

LEMMA TakeUpStep ==
  ASSUME NEW S \in SUBSET Recipient, UNCHANGED <<copies, boots>>,
         \A r \in S : Phases[r] = "due",
         \A r \in Recipient : Phases'[r] = IF r \in S THEN "taken" ELSE Phases[r]
  PROVE  Mail!Next
<1>1. Mail!Move(S, "due", "taken")
  BY DEF Mail!Move, Phases
<1>2. Mail!Pass(S)
  BY <1>1 DEF Mail!Pass
<1> QED
  BY <1>2 DEF Mail!Next

LEMMA AttemptStep ==
  ASSUME NEW r \in Recipient, Phases[r] = "taken",
         copies' \in {copies, [copies EXCEPT ![r] = @ + 1]}, boots' = boots,
         \A x \in Recipient : Phases'[x] = IF x = r THEN "over" ELSE Phases[x]
  PROVE  Mail!Next
<1>1. Mail!Move({r}, "taken", "over")
  BY DEF Mail!Move, Phases
<1>2. Mail!Attempt(r)
  BY <1>1 DEF Mail!Attempt
<1> QED
  BY <1>2 DEF Mail!Next

LEMMA RestartStep ==
  ASSUME NEW S \in SUBSET Recipient, copies' = copies, boots' = boots + 1,
         \A r \in S : Phases[r] = "over",
         \A r \in Recipient : Phases'[r] = IF r \in S THEN "due" ELSE Phases[r]
  PROVE  Mail!Next
<1>1. Mail!Move(S, "over", "due")
  BY DEF Mail!Move, Phases
<1>2. Mail!Restart(S)
  BY <1>1 DEF Mail!Restart
<1> QED
  BY <1>2 DEF Mail!Next

LEMMA SamePhases ==
  ASSUME UNCHANGED <<copies, boots>>, \A r \in Recipient : Phases'[r] = Phases[r]
  PROVE  UNCHANGED Mail!vars
BY DEF Mail!vars, Phases

LEMMA HeldInit == Init => Held /\ Mail!Init
<1> SUFFICES ASSUME Init PROVE Held /\ Mail!Init
  OBVIOUS
<1>1. \A p \in Runner : job[p].pc = "idle" /\ job[p].todo = {} /\ job[p].ok = {} /\ job[p].bad = {}
  BY DEF Init, Idle
<1>2. \A r \in Recipient : row[r].status \in {"draft", "skipped"} /\ row[r].msg = 0 /\ copies[r] = 0
  BY DEF Init
<1>3. Held
  BY <1>1, <1>2 DEF Init, Held, Apart, Unsent, Sparing, Batch
<1>4. \A r \in Recipient : Phases[r] \in {"held", "over"}
  BY <1>1, <1>2 DEF Phases, Taken
<1>5. Mail!Init
  BY <1>4 DEF Mail!Init, Init, Phases
<1> QED
  BY <1>3, <1>5

\* The steps come in four shapes.  A quiet one changes neither rows nor batches.
LEMMA QuietStep ==
  ASSUME Held, UNCHANGED <<row, copies, boots, up>>,
         \A p \in Runner : /\ job'[p].todo = job[p].todo /\ job'[p].ok = job[p].ok
                           /\ job'[p].bad = job[p].bad
                           /\ job'[p].pc = "sending" <=> job[p].pc = "sending"
                           /\ ~up => job'[p].pc = "idle",
         \A h \in Hook : hook'[h] # NoHook => hook'[h] = hook[h] \/ row[hook'[h].of].msg > 0
  PROVE  Held' /\ UNCHANGED Mail!vars
<1>1. \A p \in Runner : Batch'[p] = Batch[p]
  BY DEF Batch
<1>2. \A r \in Recipient : Taken(r)' = Taken(r)
  BY DEF Taken
<1>3. Apart'
  <2>1. /\ \A p, q \in Runner : \A r \in Batch'[p] : r \in Batch'[q] => p = q
        /\ \A p \in Runner : job'[p].pc # "sending" => Batch'[p] = {}
    BY <1>1 DEF Held, Apart
  <2> QED
    BY <2>1 DEF Held, Apart
<1>4. Unsent'
  BY <1>1 DEF Held, Unsent
<1>5. Sparing'
  BY <1>2 DEF Held, Sparing
<1>6. \A r \in Recipient : Phases'[r] = Phases[r]
  BY <1>2 DEF Phases
<1> QED
  BY <1>3, <1>4, <1>5, <1>6, SamePhases DEF Held

\* Runners drop their batches, or keep them.
LEMMA DropStep ==
  ASSUME Held, UNCHANGED <<row, copies, boots>>,
         \A p \in Runner : job'[p] = job[p] \/ job'[p] = Idle,
         \A p \in Runner : ~up' => job'[p].pc = "idle",
         \A h \in Hook : hook'[h] \in {hook[h], NoHook}
  PROVE  Held' /\ [Mail!Next]_Mail!vars
<1>1. \A p \in Runner : Batch'[p] \subseteq Batch[p]
  BY DEF Batch, Idle
<1>2. \A r \in Recipient : Taken(r)' => Taken(r)
  BY DEF Taken, Idle
<1>3. Apart'
  BY <1>1 DEF Held, Apart, Idle, Batch
<1>4. Unsent'
  BY <1>1 DEF Held, Unsent
<1>5. Sparing'
  BY <1>2 DEF Held, Sparing
<1> DEFINE S == {r \in Recipient : Taken(r) /\ ~Taken(r)'}
<1>6. \A r \in Recipient : Taken(r) => row[r].status \notin {"draft", "pending"}
  BY DEF Taken, Held, Unsent, Batch
<1>7. \A r \in Recipient : Phases'[r] = IF r \in S THEN "over" ELSE Phases[r]
  BY <1>2, <1>6 DEF Phases
<1>8. Mail!Next
  <2>1. S \in SUBSET Recipient
    OBVIOUS
  <2> HIDE DEF S
  <2>2. UNCHANGED <<copies, boots>>
    OBVIOUS
  <2> QED
    BY <1>7, <2>1, <2>2, OverStep, Zenon
<1> QED
  BY <1>3, <1>4, <1>5, <1>8 DEF Held

\* Rows change, outside the batches: they fail, are deleted, are skipped before
\* they were claimed, or a receipt moves one that has a message.
Settled(r) ==
  \/ row'[r].status \in {"failed", "absent"}
  \/ row'[r].status = "skipped" /\ row[r].status \in {"draft", "pending"}
  \/ row'[r].status \in {"sent", "delivered", "read"} /\ row[r].msg > 0

LEMMA RowsStep ==
  ASSUME Held, job \in [Runner -> Job], UNCHANGED <<copies, boots, up>>,
         \A r \in Recipient : row'[r].msg = row[r].msg,
         \A r \in Recipient : row'[r].status = row[r].status \/ Settled(r),
         \A p \in Runner : /\ job'[p].todo = job[p].todo /\ job'[p].ok = job[p].ok
                           /\ job'[p].bad = job[p].bad
                           /\ job'[p].pc = "sending" <=> job[p].pc = "sending"
                           /\ ~up => job'[p].pc = "idle",
         \A h \in Hook : /\ hook'[h] \in {hook[h], NoHook}
                         /\ hook[h] # NoHook => hook[h].of \in Recipient
  PROVE  Held' /\ [Mail!Next]_Mail!vars
<1>1. \A p \in Runner : Batch'[p] = Batch[p]
  BY DEF Batch
<1>2. \A r \in Recipient : Taken(r)' = Taken(r)
  BY DEF Taken
<1>3. Apart'
  <2>1. /\ \A p, q \in Runner : \A r \in Batch'[p] : r \in Batch'[q] => p = q
        /\ \A p \in Runner : job'[p].pc # "sending" => Batch'[p] = {}
    BY <1>1 DEF Held, Apart
  <2> QED
    BY <2>1 DEF Held, Apart
<1>4. Unsent'
  <2>1. \A p \in Runner : \A r \in Batch'[p] :
          row'[r].status \in {"sending", "failed", "absent"} /\ row'[r].msg = 0
    <3> SUFFICES ASSUME NEW p \in Runner, NEW r \in Batch'[p]
                 PROVE  row'[r].status \in {"sending", "failed", "absent"} /\ row'[r].msg = 0
      OBVIOUS
    <3>1. r \in Batch[p] /\ r \in Recipient
      BY DEF Batch, Job
    <3> QED
      BY <3>1 DEF Held, Unsent, Settled
  <2>2. \A r \in Recipient :
          row'[r].msg > 0 => row'[r].status \in {"sent", "delivered", "read", "failed", "absent"}
    BY DEF Held, Unsent, Settled
  <2>3. \A h \in Hook : hook'[h] # NoHook => row'[hook'[h].of].msg > 0
    BY DEF Held, Unsent
  <2> QED
    BY <2>1, <2>2, <2>3 DEF Unsent
<1>5. Sparing'
  BY <1>2 DEF Held, Sparing, Settled
<1> DEFINE S == {r \in Recipient : ~Taken(r) /\ row'[r].status # row[r].status}
<1>6. \A r \in Recipient : Phases'[r] = IF r \in S THEN "over" ELSE Phases[r]
  BY <1>2 DEF Phases, Settled
<1>7. Mail!Next
  <2>1. S \in SUBSET Recipient
    OBVIOUS
  <2> HIDE DEF S
  <2>2. UNCHANGED <<copies, boots>>
    OBVIOUS
  <2> QED
    BY <1>6, <2>1, <2>2, OverStep, Zenon
<1> QED
  BY <1>3, <1>4, <1>5, <1>7 DEF Held

\* The steps that deal with a batch.
LEMMA ClaimStep ==
  ASSUME TypeInv, Held, NEW p \in Runner, NEW B \in SUBSET Recipient, Claim(p, B)
  PROVE  Held' /\ Mail!Next
<1> USE DEF TypeInv, TypeOK
<1>1. job[p].pc = "picked" /\ up /\ Batch[p] = {}
  BY DEF Claim, Held, Apart
<1>2. /\ \A x \in Runner : x # p => job'[x] = job[x]
      /\ job'[p].pc = "sending" /\ job'[p].todo = B /\ job'[p].ok = job[p].ok /\ job'[p].bad = job[p].bad
  BY DEF Claim, Job
<1>3. /\ \A x \in Runner : x # p => Batch'[x] = Batch[x]
      /\ Batch'[p] = B /\ job[p].ok = {} /\ job[p].bad = {} /\ job[p].todo = {}
  BY <1>1, <1>2 DEF Batch
<1>4. /\ \A r \in B : row[r].status = "pending" /\ row[r].msg = 0
      /\ \A r \in Recipient : row'[r].msg = row[r].msg
      /\ \A r \in Recipient : row'[r].status = IF r \in B THEN "sending" ELSE row[r].status
  <2>1. row' = Set(B, "sending") /\ \A r \in B : row[r].status = "pending"
    BY DEF Claim, Claimable, In, Rows
  <2>2. \A r \in Recipient : row[r].msg \in Nat
    BY DEF RecipientRow
  <2> QED
    BY <2>1, <2>2 DEF Set, RecipientRow, Held, Unsent
<1>5. UNCHANGED <<up, copies, boots, hook>>
  BY DEF Claim
<1>6. \A x \in Runner : \A r \in Batch[x] : r \notin B
  BY <1>4 DEF Held, Unsent
<1>7. Apart'
  <2>1. \A x, y \in Runner : \A r \in Batch'[x] : r \in Batch'[y] => x = y
    BY <1>3, <1>6 DEF Held, Apart
  <2>2. \A x \in Runner : /\ job'[x].todo \cap (job'[x].ok \cup job'[x].bad) = {}
                          /\ job'[x].ok \cap job'[x].bad = {}
    BY <1>2, <1>3 DEF Held, Apart
  <2>3. \A x \in Runner : job'[x].pc # "sending" => Batch'[x] = {}
    BY <1>2, <1>3 DEF Held, Apart
  <2> QED
    BY <1>1, <1>5, <2>1, <2>2, <2>3 DEF Apart
<1>8. Unsent'
  <2>1. \A x \in Runner : \A r \in Batch'[x] :
          row'[r].status \in {"sending", "failed", "absent"} /\ row'[r].msg = 0
    <3> SUFFICES ASSUME NEW x \in Runner, NEW r \in Batch'[x]
                 PROVE  row'[r].status \in {"sending", "failed", "absent"} /\ row'[r].msg = 0
      OBVIOUS
    <3>1. CASE x = p
      BY <1>3, <1>4, <3>1
    <3>2. CASE x # p
      <4>1. r \in Batch[x] /\ r \in Recipient
        BY <1>3, <3>2 DEF Batch, Job
      <4> QED
        BY <1>4, <1>6, <4>1 DEF Held, Unsent
    <3> QED
      BY <3>1, <3>2
  <2> QED
    BY <1>4, <1>5, <2>1 DEF Held, Unsent, Aimed
<1>9. \A r \in Recipient : Taken(r)' <=> (Taken(r) \/ r \in B)
  BY <1>2, <1>3 DEF Taken
<1>10. Sparing'
  BY <1>4, <1>5, <1>9 DEF Held, Sparing
<1>11. \A r \in B : Phases[r] = "due"
  BY <1>4, <1>6 DEF Phases, Taken, Batch
<1>12. \A r \in Recipient : Phases'[r] = IF r \in B THEN "taken" ELSE Phases[r]
  BY <1>4, <1>9 DEF Phases
<1>13. Mail!Next
  <2>1. UNCHANGED <<copies, boots>>
    BY <1>5
  <2> QED
    BY <1>11, <1>12, <2>1, TakeUpStep, Zenon
<1> QED
  BY <1>7, <1>8, <1>10, <1>13 DEF Held

LEMMA SendStep ==
  ASSUME TypeInv, Held, NEW p \in Runner, NEW r \in Recipient, Attempt(p, r)
  PROVE  Held' /\ Mail!Next
<1> USE DEF TypeInv, TypeOK
<1>1. job[p].pc = "sending" /\ r \in job[p].todo /\ UNCHANGED <<up, row, boots, hook>>
  BY DEF Attempt
<1>2. copies' \in {copies, [copies EXCEPT ![r] = @ + 1]}
  BY DEF Attempt
<1>3. /\ \A x \in Runner : x # p => job'[x] = job[x]
      /\ job'[p].pc = "sending" /\ job'[p].todo = job[p].todo \ {r}
      /\ \/ job'[p].ok = job[p].ok \cup {r} /\ job'[p].bad = job[p].bad
         \/ job'[p].ok = job[p].ok /\ job'[p].bad = job[p].bad \cup {r}
  <2>1. job[p].camp \in Campaign
    BY <1>1 DEF Aimed
  <2> QED
    BY <1>1, <2>1, AttemptForm
<1>4. \A x \in Runner : Batch'[x] = Batch[x]
  BY <1>1, <1>3 DEF Batch
<1>5. r \in Batch[p] /\ \A x \in Runner : x # p => r \notin Batch[x]
  BY <1>1 DEF Held, Apart, Batch
<1>6. \A x \in Recipient : Taken(x)' <=> (Taken(x) /\ x # r)
  BY <1>1, <1>3, <1>5 DEF Taken, Batch
<1>7. Apart'
  <2>1. \A x, y \in Runner : \A u \in Batch'[x] : u \in Batch'[y] => x = y
    BY <1>4 DEF Held, Apart
  <2>2. \A x \in Runner : /\ job'[x].todo \cap (job'[x].ok \cup job'[x].bad) = {}
                          /\ job'[x].ok \cap job'[x].bad = {}
    <3>1. job[p].todo \cap (job[p].ok \cup job[p].bad) = {} /\ job[p].ok \cap job[p].bad = {}
      BY DEF Held, Apart
    <3>2. job'[p].todo \cap (job'[p].ok \cup job'[p].bad) = {} /\ job'[p].ok \cap job'[p].bad = {}
      BY <1>1, <1>3, <3>1
    <3> QED
      BY <1>3, <3>2 DEF Held, Apart
  <2>3. \A x \in Runner : job'[x].pc # "sending" => Batch'[x] = {}
    BY <1>1, <1>3, <1>4 DEF Held, Apart
  <2>4. \A x \in Runner : ~up' => job'[x].pc = "idle"
    BY <1>1 DEF Held, Apart
  <2> QED
    BY <2>1, <2>2, <2>3, <2>4 DEF Apart
<1>8. Unsent'
  BY <1>1, <1>4 DEF Held, Unsent
<1>9. Sparing'
  <2> SUFFICES ASSUME NEW x \in Recipient
               PROVE  /\ copies'[x] <= boots' + 1
                      /\ Taken(x)' \/ row'[x].status \in {"draft", "pending", "skipped"}
                           => copies'[x] <= boots'
    BY DEF Sparing
  <2>1. CASE x # r
    BY <1>1, <1>2, <1>6, <2>1 DEF Held, Sparing
  <2>2. CASE x = r
    <3>1. copies[r] <= boots /\ copies[r] \in Nat /\ boots \in Nat
      BY <1>1 DEF Held, Sparing, Taken
    <3>2. copies'[r] <= copies[r] + 1
      BY <1>2, <3>1
    <3>3. row[r].status \in {"sending", "failed", "absent"}
      BY <1>5 DEF Held, Unsent
    <3>4. copies'[r] \in Nat
      BY <1>2, <3>1
    <3> QED
      BY <1>1, <1>6, <2>2, <3>1, <3>2, <3>3, <3>4
  <2> QED
    BY <2>1, <2>2
<1>10. Phases[r] = "taken"
  BY <1>1 DEF Phases, Taken
<1>11. \A x \in Recipient : Phases'[x] = IF x = r THEN "over" ELSE Phases[x]
  BY <1>1, <1>5, <1>6 DEF Phases, Held, Unsent
<1>12. Mail!Next
  BY <1>1, <1>2, <1>10, <1>11, AttemptStep
<1> QED
  BY <1>7, <1>8, <1>9, <1>12 DEF Held

\* What a batch writes to each of its rows.
LEMMA RecordedRows ==
  ASSUME row \in [Recipient -> RecipientRow], NEW j, NEW r \in Recipient,
         j.todo \cap (j.ok \cup j.bad) = {}, j.ok \cap j.bad = {}
  PROVE  /\ r \in j.ok => Recorded(j)[r].status = "sent"
         /\ r \in j.bad => Recorded(j)[r].status = "failed" /\ Recorded(j)[r].msg = row[r].msg
         /\ r \in j.todo => Recorded(j)[r].status = "pending" /\ Recorded(j)[r].msg = row[r].msg
         /\ r \notin j.todo \cup j.ok \cup j.bad => Recorded(j)[r] = row[r]
<1>1. row[r] = [status |-> row[r].status, msg |-> row[r].msg]
  BY DEF RecipientRow
<1>2. r \in j.ok => Recorded(j)[r].status = "sent"
  BY DEF Recorded
<1>3. r \in j.bad => Recorded(j)[r].status = "failed" /\ Recorded(j)[r].msg = row[r].msg
  BY <1>1 DEF Recorded
<1>4. r \in j.todo => Recorded(j)[r].status = "pending" /\ Recorded(j)[r].msg = row[r].msg
  BY <1>1 DEF Recorded
<1>5. r \notin j.todo \cup j.ok \cup j.bad => Recorded(j)[r] = row[r]
  BY DEF Recorded
<1> QED
  BY <1>2, <1>3, <1>4, <1>5

LEMMA RecordStep ==
  ASSUME TypeInv, Held, NEW p \in Runner, Record(p)
  PROVE  Held' /\ Mail!Next
<1> USE DEF TypeInv, TypeOK
<1> DEFINE j == job[p]
<1>1. job[p].pc = "sending" /\ up /\ UNCHANGED <<up, copies, boots, hook>>
  BY DEF Record, Held, Apart
<1>2. /\ \A x \in Runner : x # p => job'[x] = job[x]
      /\ job'[p].pc # "sending" /\ job'[p].todo = {} /\ job'[p].ok = {} /\ job'[p].bad = {}
  BY DEF Record, Idle
<1>3. /\ \A x \in Runner : x # p => Batch'[x] = Batch[x]
      /\ Batch'[p] = {} /\ Batch[p] = j.todo \cup j.ok \cup j.bad /\ Batch[p] \in SUBSET Recipient
  BY <1>2 DEF Batch, Job
<1>4. /\ j.todo \cap (j.ok \cup j.bad) = {} /\ j.ok \cap j.bad = {}
      /\ \A x \in Runner : x # p => \A r \in Batch[x] : r \notin Batch[p]
  BY DEF Held, Apart
<1>5. \A r \in Recipient :
        /\ r \in j.ok => row'[r].status = "sent"
        /\ r \in j.bad => row'[r].status = "failed" /\ row'[r].msg = row[r].msg
        /\ r \in j.todo => row'[r].status = "pending" /\ row'[r].msg = row[r].msg
        /\ r \notin Batch[p] => row'[r] = row[r]
  <2>1. row' = Recorded(j)
    BY DEF Record
  <2>2. row \in [Recipient -> RecipientRow]
    OBVIOUS
  <2> HIDE DEF j
  <2>3. \A r \in Recipient :
          /\ r \in j.ok => Recorded(j)[r].status = "sent"
          /\ r \in j.bad => Recorded(j)[r].status = "failed" /\ Recorded(j)[r].msg = row[r].msg
          /\ r \in j.todo => Recorded(j)[r].status = "pending" /\ Recorded(j)[r].msg = row[r].msg
          /\ r \notin j.todo \cup j.ok \cup j.bad => Recorded(j)[r] = row[r]
    BY <1>4, <2>2, RecordedRows
  <2> QED
    BY <1>3, <2>1, <2>3
<1>6. \A r \in Batch[p] : row[r].msg = 0 /\ row[r].status \in {"sending", "failed", "absent"}
  BY DEF Held, Unsent
<1>7. \A r \in Recipient : Taken(r)' <=> (Taken(r) /\ r \notin Batch[p])
  <2> SUFFICES ASSUME NEW r \in Recipient PROVE Taken(r)' <=> (Taken(r) /\ r \notin Batch[p])
    OBVIOUS
  <2>1. CASE r \in Batch[p]
    BY <1>2, <1>4, <2>1 DEF Taken, Batch
  <2>2. CASE r \notin Batch[p]
    BY <1>2, <1>3, <2>2 DEF Taken
  <2> QED
    BY <2>1, <2>2
<1> HIDE DEF j
<1>8. Apart'
  <2>1. \A x, y \in Runner : \A r \in Batch'[x] : r \in Batch'[y] => x = y
    BY <1>3 DEF Held, Apart
  <2>2. \A x \in Runner : /\ job'[x].todo \cap (job'[x].ok \cup job'[x].bad) = {}
                          /\ job'[x].ok \cap job'[x].bad = {}
    BY <1>2 DEF Held, Apart
  <2>3. \A x \in Runner : job'[x].pc # "sending" => Batch'[x] = {}
    BY <1>2, <1>3 DEF Held, Apart
  <2>4. \A x \in Runner : ~up' => job'[x].pc = "idle"
    BY <1>1 DEF Held, Apart
  <2> QED
    BY <2>1, <2>2, <2>3, <2>4 DEF Apart
<1>9. Unsent'
  <2>1. \A x \in Runner : \A r \in Batch'[x] :
          row'[r].status \in {"sending", "failed", "absent"} /\ row'[r].msg = 0
    <3> SUFFICES ASSUME NEW x \in Runner, NEW r \in Batch'[x]
                 PROVE  row'[r].status \in {"sending", "failed", "absent"} /\ row'[r].msg = 0
      OBVIOUS
    <3>1. x # p /\ r \in Batch[x]
      BY <1>3
    <3>2. r \in Recipient
      BY <3>1 DEF Batch, Job
    <3>3. row'[r] = row[r]
      BY <1>4, <1>5, <3>1, <3>2
    <3> QED
      BY <3>1, <3>3 DEF Held, Unsent
  <2>2. \A r \in Recipient :
          row'[r].msg > 0 => row'[r].status \in {"sent", "delivered", "read", "failed", "absent"}
    <3> SUFFICES ASSUME NEW r \in Recipient, row'[r].msg > 0
                 PROVE  row'[r].status \in {"sent", "delivered", "read", "failed", "absent"}
      OBVIOUS
    <3>1. CASE r \in j.todo
      BY <1>3, <1>5, <1>6, <3>1
    <3>2. CASE r \in j.ok \cup j.bad
      BY <1>5, <3>2
    <3>3. CASE r \notin Batch[p]
      BY <1>5, <3>3 DEF Held, Unsent
    <3> QED
      BY <1>3, <3>1, <3>2, <3>3
  <2>3. \A h \in Hook : hook'[h] # NoHook => row'[hook'[h].of].msg > 0
    <3> SUFFICES ASSUME NEW h \in Hook, hook[h] # NoHook PROVE row'[hook[h].of].msg > 0
      BY <1>1
    <3>1. hook[h].of \in Recipient /\ row[hook[h].of].msg > 0
      BY DEF Aimed, Held, Unsent
    <3>2. row[hook[h].of].msg # 0
      BY <3>1
    <3>3. row'[hook[h].of] = row[hook[h].of]
      BY <1>5, <1>6, <3>1, <3>2
    <3> QED
      BY <3>1, <3>3
  <2> QED
    BY <2>1, <2>2, <2>3 DEF Unsent
<1>10. Sparing'
  <2> SUFFICES ASSUME NEW r \in Recipient
               PROVE  /\ copies[r] <= boots + 1
                      /\ Taken(r)' \/ row'[r].status \in {"draft", "pending", "skipped"}
                           => copies[r] <= boots
    BY <1>1 DEF Sparing
  <2>1. copies[r] <= boots + 1 /\ (Taken(r) => copies[r] <= boots)
    BY DEF Held, Sparing
  <2>2. CASE r \in j.todo
    BY <2>1, <2>2 DEF Taken, j
  <2>3. CASE r \in j.ok \cup j.bad
    BY <1>3, <1>5, <1>7, <2>1, <2>3
  <2>4. CASE r \notin Batch[p]
    BY <1>5, <1>7, <2>4 DEF Held, Sparing
  <2> QED
    BY <1>3, <2>2, <2>3, <2>4
<1>11. \A r \in j.todo : Phases[r] = "taken"
  BY <1>3 DEF Phases, Taken, j
<1>12. \A r \in Recipient : Phases'[r] = IF r \in j.todo THEN "due"
                                        ELSE IF r \in Batch[p] THEN "over" ELSE Phases[r]
  <2> SUFFICES ASSUME NEW r \in Recipient
               PROVE  Phases'[r] = IF r \in j.todo THEN "due"
                                   ELSE IF r \in Batch[p] THEN "over" ELSE Phases[r]
    OBVIOUS
  <2>1. CASE r \in j.todo
    BY <1>3, <1>5, <1>7, <2>1 DEF Phases
  <2>2. CASE r \in j.ok \cup j.bad
    BY <1>3, <1>4, <1>5, <1>7, <2>2 DEF Phases
  <2>3. CASE r \notin Batch[p]
    BY <1>3, <1>5, <1>7, <2>3 DEF Phases
  <2> QED
    BY <1>3, <2>1, <2>2, <2>3
<1>13. Mail!Next
  <2>0. PICK S \in SUBSET Recipient : S = Batch[p]
    BY <1>3
  <2>1. PICK B \in SUBSET S : B = j.todo
    BY <1>3, <2>0
  <2>2. copies' = copies /\ boots' = boots
    BY <1>1
  <2>3. \A r \in B : Phases[r] = "taken"
    BY <1>11, <2>1
  <2>4. Phases' = [r \in Recipient |-> IF r \in B THEN "due"
                                     ELSE IF r \in S THEN "over" ELSE Phases[r]]
    BY <1>12, <2>0, <2>1 DEF Phases
  <2>5. Mail!Pass(S)
    BY <2>2, <2>3, <2>4 DEF Mail!Pass, Phases
  <2> QED
    BY <2>5 DEF Mail!Next
<1> QED
  BY <1>8, <1>9, <1>10, <1>13 DEF Held

LEMMA BootStep ==
  ASSUME TypeInv, Held, Boot
  PROVE  Held' /\ Mail!Next
<1> USE DEF TypeInv, TypeOK
<1>1. ~up /\ up' /\ boots' = boots + 1 /\ UNCHANGED <<copies, job, hook>>
  BY DEF Boot
<1>2. \A p \in Runner : Batch[p] = {} /\ job[p].todo = {}
  BY <1>1 DEF Held, Apart, Batch
\* The rows recovered: all that were interrupted, or none.
<1>3. PICK S \in SUBSET Recipient :
        /\ \A r \in Recipient : row'[r].msg = row[r].msg
        /\ \A r \in Recipient : row'[r].status = IF r \in S THEN "pending" ELSE row[r].status
        /\ \A r \in S : row[r].status = "sending"
  <2>1. CASE row' = Set(Interrupted, "pending")
    <3>1. /\ Interrupted \in SUBSET Recipient
          /\ \A r \in Recipient : row'[r].msg = row[r].msg
          /\ \A r \in Recipient : row'[r].status = IF r \in Interrupted THEN "pending" ELSE row[r].status
          /\ \A r \in Interrupted : row[r].status = "sending"
      BY <2>1 DEF Set, Interrupted, RecipientRow
    <3> QED
      BY <3>1
  <2>2. CASE row' = row
    <3>1. /\ {} \in SUBSET Recipient
          /\ \A r \in Recipient : row'[r].msg = row[r].msg
          /\ \A r \in Recipient : row'[r].status = IF r \in {} THEN "pending" ELSE row[r].status
      BY <2>2
    <3> QED
      BY <3>1
  <2> QED
    BY <2>1, <2>2 DEF Boot
<1>4. Batch' = Batch
  BY <1>1 DEF Batch
<1>5. Apart'
  BY <1>1, <1>4 DEF Held, Apart
<1>6. Unsent'
  <2>1. \A r \in Recipient :
          row'[r].msg > 0 => row'[r].status \in {"sent", "delivered", "read", "failed", "absent"}
    BY <1>3 DEF Held, Unsent
  <2>2. \A h \in Hook : hook'[h] # NoHook => row'[hook'[h].of].msg > 0
    BY <1>1, <1>3 DEF Held, Unsent, Aimed
  <2> QED
    BY <1>2, <1>4, <2>1, <2>2 DEF Unsent
<1>7. \A r \in Recipient : ~Taken(r) /\ ~Taken(r)'
  BY <1>1, <1>2 DEF Taken
<1>8. Sparing'
  BY <1>1, <1>3, <1>7 DEF Held, Sparing
<1>9. \A r \in S : Phases[r] = "over"
  BY <1>3, <1>7 DEF Phases
<1>10. \A r \in Recipient : Phases'[r] = IF r \in S THEN "due" ELSE Phases[r]
  BY <1>3, <1>7 DEF Phases
<1>11. Mail!Next
  <2>1. S \in SUBSET Recipient
    OBVIOUS
  <2>2. copies' = copies /\ boots' = boots + 1
    BY <1>1
  <2> QED
    BY <1>9, <1>10, <2>1, <2>2, RestartStep, Zenon
<1> QED
  BY <1>5, <1>6, <1>8, <1>11 DEF Held

LEMMA HeldStep ==
  TypeInv /\ TypeInv' /\ Held /\ [Next]_vars => Held' /\ [Mail!Next]_Mail!vars
<1> SUFFICES ASSUME TypeInv, TypeInv', Held, [Next]_vars PROVE Held' /\ [Mail!Next]_Mail!vars
  OBVIOUS
<1> USE DEF TypeInv, TypeOK, Aimed
<1>0. /\ \A p \in Runner : job[p].pc # "sending" => job[p].todo = {} /\ job[p].ok = {} /\ job[p].bad = {}
      /\ \A p \in Runner : ~up => job[p].pc = "idle"
  BY DEF Held, Apart, Batch
<1>1. ASSUME NEW p \in Runner, NEW c \in Campaign, Pick(p, c) PROVE Held' /\ UNCHANGED Mail!vars
  <2>1. UNCHANGED <<row, copies, boots, up, hook>> /\ up /\ job[p].pc = "idle"
    BY <1>1 DEF Pick
  <2>2. /\ \A x \in Runner : x # p => job'[x] = job[x]
        /\ job'[p].pc = "picked" /\ job'[p].todo = {} /\ job'[p].ok = {} /\ job'[p].bad = {}
    BY <1>1 DEF Pick, Idle
  <2> QED
    BY <1>0, <2>1, <2>2, QuietStep
<1>2. ASSUME NEW p \in Runner, Yield(p) \/ Finish(p) \/ Halt(p) PROVE Held' /\ UNCHANGED Mail!vars
  <2>1. UNCHANGED <<row, copies, boots, up, hook>> /\ job[p].pc \in {"picked", "closing", "halting"}
    BY <1>2 DEF Yield, Finish, Halt
  <2>2. /\ \A x \in Runner : x # p => job'[x] = job[x]
        /\ job'[p].pc = "idle" /\ job'[p].todo = {} /\ job'[p].ok = {} /\ job'[p].bad = {}
    BY <1>2 DEF Yield, Finish, Halt, Idle
  <2> QED
    BY <1>0, <2>1, <2>2, QuietStep
<1>3. ASSUME NEW p \in Runner, GiveUp(p) PROVE Held' /\ [Mail!Next]_Mail!vars
  <2>1. UNCHANGED <<copies, boots, up, hook>> /\ job[p].pc = "picked"
    BY <1>3 DEF GiveUp
  <2>2. \A x \in Runner : /\ job'[x].todo = job[x].todo /\ job'[x].ok = job[x].ok
                          /\ job'[x].bad = job[x].bad
                          /\ job'[x].pc = IF x = p THEN "closing" ELSE job[x].pc
    BY <1>3 DEF GiveUp, Job
  <2>3. \A r \in Recipient : row'[r].msg = row[r].msg
    BY <1>3 DEF GiveUp, Set, RecipientRow
  <2>4. \A r \in Recipient : row'[r].status = row[r].status \/ Settled(r)
    BY <1>3 DEF GiveUp, Set, RecipientRow, Settled
  <2> QED
    BY <1>0, <2>1, <2>2, <2>3, <2>4, RowsStep
<1>4. ASSUME NEW p \in Runner, Drop(p) \/ Lose(p) PROVE Held' /\ [Mail!Next]_Mail!vars
  <2>1. UNCHANGED <<row, copies, boots, up, hook>> /\ job' = [job EXCEPT ![p] = Idle]
    BY <1>4 DEF Drop, Lose
  <2>2. Idle.pc = "idle"
    BY DEF Idle
  <2>3. \A x \in Runner : job'[x] = job[x] \/ job'[x] = Idle
    BY <2>1
  <2>4. \A x \in Runner : ~up' => job'[x].pc = "idle"
    BY <1>0, <2>1, <2>2, <2>3
  <2> QED
    BY <2>1, <2>3, <2>4, DropStep
<1>5. ASSUME Crash PROVE Held' /\ [Mail!Next]_Mail!vars
  <2>1. UNCHANGED <<row, copies, boots>>
    BY <1>5 DEF Crash
  <2>2. Idle.pc = "idle"
    BY DEF Idle
  <2>3. \A x \in Runner : job'[x] = Idle
    BY <1>5 DEF Crash
  <2>4. \A h \in Hook : hook'[h] \in {hook[h], NoHook}
    BY <1>5 DEF Crash
  <2> QED
    BY <2>1, <2>2, <2>3, <2>4, DropStep
<1>6. ASSUME NEW c \in Campaign, Unconfigure(c) PROVE Held' /\ UNCHANGED Mail!vars
  BY <1>0, <1>6, QuietStep DEF Unconfigure
<1>7. ASSUME NEW q \in Request, NEW c \in Campaign, NEW k \in {"send", "cancel", "delete"}, Begin(q, k, c)
      PROVE  Held' /\ UNCHANGED Mail!vars
  BY <1>0, <1>7, QuietStep DEF Begin
<1>8. ASSUME NEW q \in Request, Commit(q) PROVE Held' /\ [Mail!Next]_Mail!vars
  <2>0. UNCHANGED <<copies, boots, up, hook, job>>
    BY <1>8 DEF Commit
  <2>1. CASE row' = row
    BY <1>0, <2>0, <2>1, QuietStep
  <2>2. CASE row' = Set(In(tx[q].camp, {"draft"}), "pending")
    <3> DEFINE S == In(tx[q].camp, {"draft"})
    <3>1. PICK D \in SUBSET Recipient : D = S
      BY DEF In, Rows
    <3>2. /\ \A r \in Recipient : row'[r].msg = row[r].msg
          /\ \A r \in Recipient : row'[r].status = IF r \in D THEN "pending" ELSE row[r].status
      BY <2>2, <3>1 DEF Set, RecipientRow
    <3>3. \A r \in D : row[r].status = "draft" /\ row[r].msg = 0
      <4> SUFFICES ASSUME NEW r \in D PROVE row[r].status = "draft" /\ row[r].msg = 0
        OBVIOUS
      <4>1. r \in Recipient /\ row[r].status = "draft" /\ row[r].msg \in Nat
        BY <3>1 DEF In, Rows, RecipientRow
      <4>2. ~(row[r].msg > 0)
        BY <4>1 DEF Held, Unsent
      <4> QED
        BY <4>1, <4>2
    <3>4. \A r \in Recipient : Taken(r)' = Taken(r)
      BY <2>0 DEF Taken
    <3>5. \A r \in D : ~Taken(r)
      BY <3>3 DEF Taken, Held, Unsent, Batch
    <3>6. Batch' = Batch
      BY <2>0 DEF Batch
    <3>7. Apart'
      BY <2>0, <3>6 DEF Held, Apart
    <3>8. Unsent'
      <4>1. \A p \in Runner : \A r \in Batch[p] : r \in Recipient /\ r \notin D
        BY <3>3 DEF Held, Unsent, Batch, Job
      <4>2. \A p \in Runner : \A r \in Batch'[p] :
              row'[r].status \in {"sending", "failed", "absent"} /\ row'[r].msg = 0
        BY <3>2, <3>6, <4>1 DEF Held, Unsent
      <4>3. \A h \in Hook : hook'[h] # NoHook => row'[hook'[h].of].msg > 0
        BY <2>0, <3>2 DEF Held, Unsent
      <4> QED
        BY <3>2, <3>3, <4>2, <4>3 DEF Held, Unsent
    <3>9. Sparing'
      BY <2>0, <3>2, <3>3, <3>4 DEF Held, Sparing
    <3>10. \A r \in D : Phases[r] = "held"
      BY <3>3, <3>5 DEF Phases
    <3>11. \A r \in Recipient : Phases'[r] = IF r \in D THEN "due" ELSE Phases[r]
      BY <3>2, <3>4, <3>5 DEF Phases
    <3>12. Mail!Next
      <4>1. UNCHANGED <<copies, boots>>
        BY <2>0
      <4> QED
        BY <3>10, <3>11, <4>1, QueueStep, Zenon
    <3> QED
      BY <3>7, <3>8, <3>9, <3>12 DEF Held
  <2>3. CASE \/ row' = Set(Cancellable(tx[q].camp), "skipped")
             \/ row' = Set(Rows(tx[q].camp), "absent")
    <3>1. \A r \in Recipient : row'[r].msg = row[r].msg
      BY <2>3 DEF Set, RecipientRow
    <3>2. \A r \in Recipient : row'[r].status = row[r].status \/ Settled(r)
      BY <2>3 DEF Set, RecipientRow, Settled, Cancellable, In, Rows
    <3> QED
      BY <1>0, <2>0, <3>1, <3>2, RowsStep
  <2> QED
    BY <1>8, <2>1, <2>2, <2>3 DEF Commit, SendCampaign, CancelCampaign, DeleteCampaign
<1>9. ASSUME NEW h \in Hook, NEW r \in Recipient, NEW ev \in Receipts, Receive(h, r, ev)
      PROVE  Held' /\ UNCHANGED Mail!vars
  <2>1. UNCHANGED <<row, copies, boots, up, job>> /\ row[r].msg > 0
    BY <1>9 DEF Receive
  <2>2. \A x \in Hook : hook'[x] = hook[x] \/ hook'[x].of = r
    BY <1>9 DEF Receive
  <2>3. \A x \in Hook : hook'[x] # NoHook => hook'[x] = hook[x] \/ row[hook'[x].of].msg > 0
    BY <2>1, <2>2
  <2> QED
    BY <1>0, <2>1, <2>3, QuietStep
<1>10. ASSUME NEW h \in Hook, Apply(h) PROVE Held' /\ [Mail!Next]_Mail!vars
  <2>1. UNCHANGED <<copies, boots, up, job>>
    BY <1>10 DEF Apply
  <2>2. \A x \in Hook : hook'[x] \in {hook[x], NoHook}
    BY <1>10 DEF Apply
  <2>3. hook[h].of \in Recipient /\ row[hook[h].of].msg > 0
    BY <1>10 DEF Apply, Held, Unsent
  <2>4. \/ row' = row
        \/ row' = Set({hook[h].of}, "failed")
        \/ row' = Set({hook[h].of}, hook[h].ev) /\ Outranks(hook[h].ev, hook[h].status)
    BY <1>10 DEF Apply, Progressed, Contradicted
  <2>5. Outranks(hook[h].ev, hook[h].status) => hook[h].ev \in {"sent", "delivered", "read"}
    BY DEF Outranks, Rank
  <2>6. \A r \in Recipient : row'[r].msg = row[r].msg
    BY <2>4 DEF Set, RecipientRow
  <2>7. \A r \in Recipient : row'[r].status = row[r].status \/ Settled(r)
    BY <2>3, <2>4, <2>5 DEF Set, RecipientRow, Settled
  <2> QED
    BY <1>0, <2>1, <2>2, <2>6, <2>7, RowsStep
<1>11. CASE UNCHANGED vars
  BY <1>0, <1>11, QuietStep DEF vars
<1> QED
  BY <1>1, <1>2, <1>3, <1>4, <1>5, <1>6, <1>7, <1>8, <1>9, <1>10, <1>11,
     ClaimStep, SendStep, RecordStep, BootStep DEF Next, Run

LEMMA HeldAlways == Spec => [](TypeInv /\ Held)
<1>1. Init => TypeInv /\ Held
  BY InitType, HeldInit
<1>2. TypeInv /\ Held /\ [Next]_vars => (TypeInv /\ Held)'
  BY TypeStep, HeldStep
<1> QED
  BY <1>1, <1>2, PTL DEF Spec

\* Who is skipped was sent nothing but what a run erased by a crash had sent.
THEOREM SkippedStayUnsent == Spec => []SkippedWereNotSent
<1>1. TypeInv /\ Held => SkippedWereNotSent
  BY DEF Held, Sparing, SkippedWereNotSent
<1> QED
  BY <1>1, HeldAlways, PTL

\* Every step of the runners, requests, receipts and of the process is a step
\* of Mailing, or changes nothing it speaks of: the code keeps its promise.
THEOREM ImplementsMailing == Spec => KeepsThePromise
<1>1. Init => Mail!Init
  BY HeldInit
<1>2. TypeInv /\ TypeInv' /\ Held /\ [Next]_vars => [Mail!Next]_Mail!vars
  BY HeldStep
<1> QED
  BY <1>1, <1>2, HeldAlways, PTL DEF Spec, KeepsThePromise, Mail!Spec

\* Hence a recipient is sent at most one copy in each life of the process, and
\* while one is still to come, none of this life is out.
THEOREM OneCopyPerLife == Spec => []Mail!OneCopyPerLife
<1>1. TypeInv /\ Held => Mail!OneCopyPerLife
  BY DEF TypeInv, TypeOK, Held, Sparing, Mail!OneCopyPerLife, Phases
<1> QED
  BY <1>1, HeldAlways, PTL

-----------------------------------------------------------------------------
(* The counter of sent messages.                                           *)

Count(c) == Cardinality(Accepted(c))

\* A counter is covered by what Meta has accepted, wherever it is: in the row,
\* in a runner's copy with the batch's successes, in a receipt's copy.
Covered ==
  /\ \A c \in Campaign : IsFiniteSet(Accepted(c)) /\ camp[c].sent <= Count(c)
  /\ \A p \in Runner : job[p].pc # "idle" =>
       job[p].sent + Cardinality(job[p].ok) <= Count(job[p].camp)
  /\ \A h \in Hook : hook[h] # NoHook => hook[h].sent <= Count(Of[hook[h].of])

LEMMA CountType == ASSUME Covered, NEW c \in Campaign PROVE Count(c) \in Nat
BY FS_CardinalityType DEF Covered, Count

LEMMA CoveredInit == Init => Covered
<1> SUFFICES ASSUME Init PROVE Covered
  OBVIOUS
<1>1. \A c \in Campaign : Accepted(c) = {}
  BY DEF Init, Accepted, Rows
<1>2. \A c \in Campaign : IsFiniteSet(Accepted(c)) /\ Count(c) = 0
  BY <1>1, FS_EmptySet DEF Count
<1> QED
  BY <1>2 DEF Init, Covered, Idle

\* An accepted message is one more; the others stay.
LEMMA OneMore ==
  ASSUME TypeInv, Covered, NEW r \in Recipient, copies' = [copies EXCEPT ![r] = @ + 1]
  PROVE  /\ \A c \in Campaign : IsFiniteSet(Accepted(c)') /\ Count(c)' >= Count(c)
         /\ Count(Of[r])' = Count(Of[r]) + 1
<1>1. copies[r] \in Nat /\ copies \in [Recipient -> Nat] /\ Of \in [Recipient -> Campaign]
  BY ConstantsAssumption DEF TypeInv, TypeOK
<1> DEFINE n == copies[r] + 1
<1>2. ASSUME NEW c \in Campaign, Of[r] # c PROVE Accepted(c)' = Accepted(c)
  <2>1. \A x \in Rows(c) : x \in Recipient /\ x # r
    BY <1>2 DEF Rows
  <2>2. \A x \in Rows(c) : copies'[x] = copies[x]
    BY <1>1, <2>1
  <2> QED
    BY <2>2 DEF Accepted, Rows
<1>3. Accepted(Of[r])' = Accepted(Of[r]) \cup {<<r, n>>} /\ <<r, n>> \notin Accepted(Of[r])
  <2>1. \A x \in Rows(Of[r]) : x \in Recipient /\ copies'[x] = IF x = r THEN n ELSE copies[x]
    BY <1>1 DEF Rows
  <2>2. 1 .. n = (1 .. copies[r]) \cup {n} /\ n \notin 1 .. copies[r]
    BY <1>1
  <2>3. r \in Rows(Of[r])
    BY DEF Rows
  <2>4. Accepted(Of[r])' = UNION {{x} \X (1 .. copies'[x]) : x \in Rows(Of[r])}
    BY DEF Accepted, Rows
  <2> HIDE DEF n
  <2>5. <<r, n>> \notin Accepted(Of[r])
    BY <2>2 DEF Accepted
  <2>6. ASSUME NEW m PROVE m \in Accepted(Of[r])' <=> m \in Accepted(Of[r]) \cup {<<r, n>>}
    <3>1. m \in Accepted(Of[r])' <=> \E x \in Rows(Of[r]) : m \in {x} \X (1 .. copies'[x])
      BY <2>4
    <3>2. m \in Accepted(Of[r]) <=> \E x \in Rows(Of[r]) : m \in {x} \X (1 .. copies[x])
      BY DEF Accepted
    <3>3. \A x \in Rows(Of[r]) : x # r => {x} \X (1 .. copies'[x]) = {x} \X (1 .. copies[x])
      BY <2>1
    <3>4. m \in {r} \X (1 .. copies'[r]) <=> m \in {r} \X (1 .. copies[r]) \/ m = <<r, n>>
      <4>1. copies'[r] = n
        BY <2>1, <2>3
      <4> QED
        BY <2>2, <4>1
    <3> QED
      BY <2>3, <3>1, <3>2, <3>3, <3>4
  <2> QED
    BY <2>5, <2>6
<1>4. IsFiniteSet(Accepted(Of[r])') /\ Count(Of[r])' = Count(Of[r]) + 1
  BY <1>1, <1>3, FS_AddElement DEF Covered, Count
<1>5. \A c \in Campaign : Count(c) \in Nat
  BY CountType
<1>6. ASSUME NEW c \in Campaign PROVE IsFiniteSet(Accepted(c)') /\ Count(c)' >= Count(c)
  <2>1. CASE Of[r] = c
    BY <1>4, <1>5, <2>1
  <2>2. CASE Of[r] # c
    BY <1>2, <1>5, <2>2 DEF Covered, Count
  <2> QED
    BY <2>1, <2>2
<1> QED
  BY <1>4, <1>6

\* What the other steps must leave covered.
LEMMA CoveredKept ==
  ASSUME Covered, copies' = copies,
         \A c \in Campaign : camp'[c].sent <= Count(c),
         \A p \in Runner : \/ job'[p] = job[p]
                           \/ job'[p].pc # "idle" =>
                                job'[p].sent + Cardinality(job'[p].ok) <= Count(job'[p].camp),
         \A h \in Hook : \/ hook'[h] \in {hook[h], NoHook}
                         \/ hook'[h].sent <= Count(Of[hook'[h].of])
  PROVE  Covered'
<1>1. \A c : Accepted(c)' = Accepted(c) /\ Count(c)' = Count(c)
  BY DEF Accepted, Rows, Count
<1> QED
  BY <1>1 DEF Covered

LEMMA CoveredStep == TypeInv /\ TypeInv' /\ Sequence /\ Held /\ Covered /\ [Next]_vars => Covered'
<1> SUFFICES ASSUME TypeInv, TypeInv', Sequence, Held, Covered, [Next]_vars PROVE Covered'
  OBVIOUS
<1>0. /\ camp \in [Campaign -> CampRow] /\ job \in [Runner -> Job] /\ copies \in [Recipient -> Nat]
      /\ Of \in [Recipient -> Campaign]
      /\ \A p \in Runner : job[p].pc # "idle" => job[p].camp \in Campaign
  BY ConstantsAssumption DEF TypeInv, TypeOK, Aimed
<1>c. \A c \in Campaign : Count(c) \in Nat /\ camp[c].sent <= Count(c) /\ camp[c].sent \in Int
  BY <1>0, CountType DEF Covered, CampRow
<1>e. Cardinality({}) = 0 /\ Idle.sent = 0 /\ Idle.ok = {} /\ Idle.pc = "idle"
  BY FS_EmptySet DEF Idle
<1>j. \A p \in Runner : job[p].pc # "idle" =>
        job[p].sent + Cardinality(job[p].ok) <= Count(job[p].camp)
  BY DEF Covered
<1>1. ASSUME NEW p \in Runner, NEW c \in Campaign, Pick(p, c) PROVE Covered'
  <2>1. UNCHANGED <<copies, camp, hook>>
    BY <1>1 DEF Pick
  <2>2. /\ \A x \in Runner : x # p => job'[x] = job[x]
        /\ job'[p].sent = 0 /\ job'[p].ok = {} /\ job'[p].camp = c
    BY <1>0, <1>1 DEF Pick, Idle
  <2>3. job'[p].sent + Cardinality(job'[p].ok) <= Count(job'[p].camp)
    BY <1>c, <1>e, <2>2
  <2> QED
    BY <1>c, <2>1, <2>2, <2>3, CoveredKept
<1>2. ASSUME NEW p \in Runner, NEW B \in SUBSET Recipient, Claim(p, B) PROVE Covered'
  <2>1. UNCHANGED <<copies, camp, hook>> /\ job[p].pc = "picked"
        /\ job' = [job EXCEPT ![p].pc = "sending", ![p].todo = B]
    BY <1>2 DEF Claim
  <2>2. /\ \A x \in Runner : x # p => job'[x] = job[x]
        /\ job'[p].sent = job[p].sent /\ job'[p].ok = job[p].ok /\ job'[p].camp = job[p].camp
    BY <1>0, <2>1 DEF Job
  <2> QED
    BY <1>c, <1>j, <2>1, <2>2, CoveredKept
<1>3. ASSUME NEW p \in Runner, GiveUp(p) PROVE Covered'
  <2>1. UNCHANGED <<copies, hook>> /\ job[p].pc = "picked"
        /\ job' = [job EXCEPT ![p].pc = "closing"]
    BY <1>3 DEF GiveUp
  <2>2. \A c \in Campaign : camp'[c].sent = camp[c].sent
    BY <1>0, <1>3 DEF GiveUp, CampRow
  <2>3. /\ \A x \in Runner : x # p => job'[x] = job[x]
        /\ job'[p].sent = job[p].sent /\ job'[p].ok = job[p].ok /\ job'[p].camp = job[p].camp
    BY <1>0, <2>1 DEF Job
  <2> QED
    BY <1>c, <1>j, <2>1, <2>2, <2>3, CoveredKept
<1>4. ASSUME NEW p \in Runner, Yield(p) \/ Drop(p) \/ Lose(p) \/ Finish(p) \/ Halt(p) PROVE Covered'
  <2>1. UNCHANGED <<copies, hook>> /\ job' = [job EXCEPT ![p] = Idle]
    BY <1>4 DEF Yield, Drop, Lose, Finish, Halt
  <2>2. \A c \in Campaign : camp'[c].sent = camp[c].sent
    BY <1>0, <1>4 DEF Yield, Drop, Lose, Finish, Halt, CampRow
  <2>3. \A x \in Runner : job'[x] = job[x] \/ job'[x].pc = "idle"
    BY <1>0, <1>e, <2>1
  <2> QED
    BY <1>c, <2>1, <2>2, <2>3, CoveredKept
<1>5. ASSUME NEW p \in Runner, NEW r \in Recipient, Attempt(p, r) PROVE Covered'
  <2>0. PICK c \in Campaign : c = job[p].camp
    BY <1>0, <1>5 DEF Attempt
  <2>1. /\ UNCHANGED <<camp, hook>> /\ job[p].pc = "sending" /\ Of[r] = c
    BY <1>5, <2>0 DEF Attempt, Sequence
  <2>2. PICK n \in Int :
          /\ n = IF job[p].ok \cup job[p].bad = {} THEN camp[c].sent ELSE job[p].sent
    BY <1>0 DEF Job, CampRow
  <2>3. n + Cardinality(job[p].ok) <= Count(c)
    <3>1. CASE job[p].ok \cup job[p].bad = {}
      <4>1. job[p].ok = {}
        BY <3>1
      <4> QED
        BY <1>c, <1>e, <2>2, <3>1, <4>1
    <3>2. CASE job[p].ok \cup job[p].bad # {}
      BY <1>j, <2>0, <2>1, <2>2, <3>2
    <3> QED
      BY <3>1, <3>2
  <2>4. /\ \A x \in Runner : x # p => job'[x] = job[x]
        /\ job'[p].camp = c /\ job'[p].sent = n
        /\ \/ /\ job'[p].ok = job[p].ok \cup {r} /\ copies' = [copies EXCEPT ![r] = @ + 1]
           \/ /\ job'[p].ok = job[p].ok
              /\ copies' = copies \/ copies' = [copies EXCEPT ![r] = @ + 1]
    <3>1. PICK m \in Nat : m = IF job[p].ok \cup job[p].bad = {} THEN camp[c].failed ELSE job[p].failed
      BY <1>0 DEF Job, CampRow
    <3>2. PICK read \in Job : read = [job[p] EXCEPT !.todo = @ \ {r}, !.sent = n, !.failed = m]
      BY <1>0, JobForms
    <3>3. read.camp = c /\ read.sent = n /\ read.ok = job[p].ok
      BY <1>0, <2>0, <3>2 DEF Job
    <3>4. \/ /\ job' = [job EXCEPT ![p] = [read EXCEPT !.ok = @ \cup {r}]]
             /\ copies' = [copies EXCEPT ![r] = @ + 1]
          \/ /\ job' = [job EXCEPT ![p] = [read EXCEPT !.bad = @ \cup {r}]]
             /\ copies' = copies \/ copies' = [copies EXCEPT ![r] = @ + 1]
      BY <1>5, <2>0, <2>2, <3>1, <3>2 DEF Attempt
    <3>5. /\ [read EXCEPT !.ok = @ \cup {r}].camp = c /\ [read EXCEPT !.ok = @ \cup {r}].sent = n
          /\ [read EXCEPT !.ok = @ \cup {r}].ok = job[p].ok \cup {r}
          /\ [read EXCEPT !.bad = @ \cup {r}].camp = c /\ [read EXCEPT !.bad = @ \cup {r}].sent = n
          /\ [read EXCEPT !.bad = @ \cup {r}].ok = job[p].ok
      BY <3>3 DEF Job
    <3> QED
      BY <1>0, <3>4, <3>5
  <2>5. /\ IsFiniteSet(job[p].ok) /\ Cardinality(job[p].ok) \in Nat
        /\ Cardinality(job[p].ok \cup {r}) \in Nat
        /\ Cardinality(job[p].ok \cup {r}) <= Cardinality(job[p].ok) + 1
    <3>1. job[p].ok \in SUBSET Recipient
      BY <1>0 DEF Job
    <3>2. IsFiniteSet(job[p].ok) /\ Cardinality(job[p].ok) \in Nat
      BY <3>1, ConstantsAssumption, FS_Subset, FS_CardinalityType
    <3>3. Cardinality(job[p].ok \cup {r}) \in {Cardinality(job[p].ok), Cardinality(job[p].ok) + 1}
      BY <3>2, FS_AddElement
    <3> QED
      BY <3>2, <3>3
  <2>6. CASE copies' = copies
    <3>1. job'[p].sent + Cardinality(job'[p].ok) <= Count(job'[p].camp)
      BY <1>0, <2>3, <2>4, <2>6
    <3> QED
      BY <1>c, <2>1, <2>4, <2>6, <3>1, CoveredKept
  <2>7. CASE copies' = [copies EXCEPT ![r] = @ + 1]
    <3>1. /\ \A d \in Campaign : IsFiniteSet(Accepted(d)') /\ Count(d)' >= Count(d)
          /\ Count(c)' = Count(c) + 1
      BY <2>1, <2>7, OneMore
    <3>2. job'[p].sent + Cardinality(job'[p].ok) <= Count(c)'
      <4>1. Cardinality(job'[p].ok) \in Nat /\ Cardinality(job'[p].ok) <= Cardinality(job[p].ok) + 1
        <5>1. CASE job'[p].ok = job[p].ok \cup {r}
          BY <2>5, <5>1, Zenon
        <5>2. CASE job'[p].ok = job[p].ok
          <6>1. Cardinality(job'[p].ok) = Cardinality(job[p].ok)
            BY <5>2, Zenon
          <6> QED
            BY <2>5, <6>1
        <5> QED
          BY <2>4, <5>1, <5>2
      <4> QED
        BY <1>c, <2>3, <2>4, <2>5, <3>1, <4>1
    <3>3. \A d \in Campaign : Count(d)' \in Nat
      BY <3>1, FS_CardinalityType DEF Count
    <3>4. \A d \in Campaign : camp'[d].sent <= Count(d)'
      BY <1>c, <2>1, <3>1, <3>3
    <3>5. ASSUME NEW x \in Runner, job'[x].pc # "idle"
          PROVE  \A d \in Campaign : d = job'[x].camp =>
                   job'[x].sent + Cardinality(job'[x].ok) <= Count(d)'
      <4>1. CASE x = p
        BY <2>4, <3>2, <4>1
      <4>2. CASE x # p
        <5>1. job'[x] = job[x]
          BY <2>4, <4>2
        <5>2. job[x].sent \in Int /\ Cardinality(job[x].ok) \in Nat
          BY <1>0, SubsetsAreFinite DEF Job
        <5> QED
          BY <1>c, <1>j, <3>1, <3>3, <3>5, <5>1, <5>2
      <4> QED
        BY <4>1, <4>2
    <3>6. ASSUME NEW h \in Hook, hook'[h] # NoHook
          PROVE  \A d \in Campaign : d = Of[hook'[h].of] => hook'[h].sent <= Count(d)'
      <4>1. hook'[h] = hook[h] /\ hook[h].sent \in Int /\ hook[h].of \in Recipient
        BY <2>1, <3>6 DEF TypeInv, TypeOK, Aimed
      <4>2. hook[h].sent <= Count(Of[hook[h].of]) /\ Of[hook[h].of] \in Campaign
        BY <1>0, <3>6, <4>1 DEF Covered
      <4> QED
        BY <1>c, <3>1, <3>3, <4>1, <4>2
    <3>7. \A x \in Runner : job'[x].pc # "idle" => job'[x].camp \in Campaign
      BY DEF TypeInv, TypeOK, Aimed
    <3>8. \A h \in Hook : hook'[h] # NoHook => Of[hook'[h].of] \in Campaign
      BY <1>0 DEF TypeInv, TypeOK, Aimed
    <3> QED
      BY <3>1, <3>4, <3>5, <3>6, <3>7, <3>8 DEF Covered
  <2> QED
    BY <2>4, <2>6, <2>7
<1>6. ASSUME NEW p \in Runner, Record(p) PROVE Covered'
  <2>0. PICK c \in Campaign : c = job[p].camp
    BY <1>0, <1>6 DEF Record
  <2>1. UNCHANGED <<copies, hook>> /\ job[p].pc = "sending"
    BY <1>6 DEF Record
  <2>2. \A d \in Campaign : camp'[d].sent \in {camp[d].sent, job[p].sent + Cardinality(job[p].ok)}
                           /\ (d # c => camp'[d].sent = camp[d].sent)
    <3>1. PICK n \in Int, m \in Nat :
            /\ camp' = [camp EXCEPT ![c].sent = n, ![c].failed = m]
            /\ n \in {camp[c].sent, job[p].sent + Cardinality(job[p].ok)}
      <4> DEFINE n == IF job[p].ok = {} THEN camp[c].sent ELSE Counted(job[p]).sent
                 m == IF job[p].bad = {} THEN camp[c].failed ELSE Counted(job[p]).failed
      <4>1. camp' = [camp EXCEPT ![c].sent = n, ![c].failed = m]
        BY <1>6, <2>0 DEF Record
      <4>2. /\ Cardinality(job[p].ok) \in Nat /\ Cardinality(job[p].bad) \in Nat
            /\ job[p].sent \in Int /\ job[p].failed \in Nat
            /\ camp[c].sent \in Int /\ camp[c].failed \in Nat
        BY <1>0, SubsetsAreFinite DEF Job, CampRow
      <4>3. n \in Int /\ m \in Nat /\ n \in {camp[c].sent, job[p].sent + Cardinality(job[p].ok)}
        BY <4>2 DEF Counted
      <4> HIDE DEF n, m
      <4> QED
        BY <4>1, <4>3
    <3>2. camp[c] \in CampRow
      BY <1>0
    <3>3. camp'[c].sent = n /\ \A d \in Campaign : d # c => camp'[d] = camp[d]
      BY <1>0, <3>1, <3>2 DEF CampRow
    <3> QED
      BY <3>1, <3>3
  <2>3. \A d \in Campaign : camp'[d].sent <= Count(d)
    BY <1>c, <1>j, <2>0, <2>1, <2>2
  <2>4. /\ \A x \in Runner : x # p => job'[x] = job[x]
        /\ job'[p].pc = "idle" \/ (job'[p].sent = 0 /\ job'[p].ok = {} /\ job'[p].camp = c)
    BY <1>0, <1>6, <2>0 DEF Record, Idle
  <2>5. job'[p].pc # "idle" => job'[p].sent + Cardinality(job'[p].ok) <= Count(job'[p].camp)
    <3>1. CASE job'[p].pc = "idle"
      BY <3>1
    <3>2. CASE job'[p].sent = 0 /\ job'[p].ok = {} /\ job'[p].camp = c
      <4>1. Cardinality(job'[p].ok) = 0
        BY <1>e, <3>2, Zenon
      <4> QED
        BY <1>c, <3>2, <4>1
    <3> QED
      BY <2>4, <3>1, <3>2
  <2> QED
    BY <1>c, <2>1, <2>3, <2>4, <2>5, CoveredKept
<1>7. ASSUME Crash PROVE Covered'
  <2>1. UNCHANGED <<copies, camp>>
    BY <1>7 DEF Crash
  <2>2. (\A x \in Runner : job'[x].pc = "idle") /\ \A h \in Hook : hook'[h] = NoHook
    BY <1>e, <1>7 DEF Crash
  <2> QED
    BY <1>c, <2>1, <2>2, CoveredKept
<1>8. ASSUME NEW q \in Request, Commit(q) PROVE Covered'
  <2>1. UNCHANGED <<copies, job, hook>>
    BY <1>8 DEF Commit
  <2>2. \A c \in Campaign : camp'[c].sent = camp[c].sent
    <3>1. CASE camp' = camp
      BY <3>1
    <3>2. CASE SendCampaign(q) /\ camp' # camp
      <4>1. PICK now \in {1 + camp[d].at : d \in Campaign} :
              camp' = [camp EXCEPT ![tx[q].camp].status = "sending", ![tx[q].camp].at = now]
        BY <3>2 DEF SendCampaign
      <4> QED
        BY <1>0, <4>1 DEF CampRow
    <3>3. CASE CancelCampaign(q) /\ camp' # camp
      BY <1>0, <3>3 DEF CancelCampaign, CampRow
    <3>4. CASE DeleteCampaign(q)
      BY <1>0, <3>4 DEF DeleteCampaign, CampRow
    <3> QED
      BY <1>8, <3>1, <3>2, <3>3, <3>4 DEF Commit
  <2> QED
    BY <1>c, <2>1, <2>2, CoveredKept
<1>9. ASSUME NEW h \in Hook, NEW r \in Recipient, NEW ev \in Receipts, Receive(h, r, ev) PROVE Covered'
  <2>1. UNCHANGED <<copies, camp, job>>
    BY <1>9 DEF Receive
  <2>2. \A x \in Hook : hook'[x] = hook[x] \/ (hook'[x].of = r /\ hook'[x].sent = camp[Of[r]].sent)
    BY <1>9 DEF Receive
  <2>3. camp[Of[r]].sent <= Count(Of[r])
    BY <1>0, <1>c
  <2> QED
    BY <1>c, <2>1, <2>2, <2>3, CoveredKept
<1>10. ASSUME NEW h \in Hook, Apply(h) PROVE Covered'
  <2>1. UNCHANGED <<copies, job>> /\ \A x \in Hook : hook'[x] \in {hook[x], NoHook}
    BY <1>10 DEF Apply
  <2>2. /\ hook[h].sent \in Int /\ hook[h].failed \in Nat /\ Of[hook[h].of] \in Campaign
        /\ hook[h].sent <= Count(Of[hook[h].of])
    BY <1>0, <1>10 DEF Apply, Covered, TypeInv, TypeOK, Aimed
  <2>3. \A c \in Campaign : camp'[c].sent <= Count(c)
    <3>1. CASE camp' = camp
      BY <1>c, <3>1
    <3>2. CASE Contradicted(h) /\ camp' # camp
      <4>0. PICK c \in Campaign : c = Of[hook[h].of]
        BY <2>2
      <4> DEFINE n == IF Rank(hook[h].status) > 0 /\ hook[h].sent > 0 THEN hook[h].sent - 1
                      ELSE camp[c].sent
                 m == hook[h].failed + 1
      <4>1. camp' = [camp EXCEPT ![c].failed = m, ![c].sent = n]
        BY <3>2, <4>0 DEF Contradicted
      <4>2. n \in Int /\ m \in Nat /\ n <= Count(c)
        BY <1>c, <2>2, <4>0
      <4> HIDE DEF n, m
      <4>3. camp[c] \in CampRow
        BY <1>0
      <4>4. camp'[c].sent = n /\ \A d \in Campaign : d # c => camp'[d] = camp[d]
        BY <1>0, <4>1, <4>2, <4>3 DEF CampRow
      <4> QED
        BY <1>c, <4>2, <4>4
    <3> QED
      BY <1>10, <3>1, <3>2 DEF Apply, Progressed
  <2> QED
    BY <2>1, <2>3, CoveredKept
<1>11. CASE UNCHANGED <<copies, camp, job, hook>>
  BY <1>c, <1>11, CoveredKept
<1> QED
  BY <1>1, <1>2, <1>3, <1>4, <1>5, <1>6, <1>7, <1>8, <1>9, <1>10, <1>11
     DEF Next, Run, vars, Boot, Unconfigure, Begin

\* Batches and receipts write the counter from copies and undo each other's
\* updates (broadcast_status.py:79), but never report a message too many.
THEOREM CountersNeverExceed == Spec => []NeverOvercounts
<1>1. Init => TypeInv /\ Sequence /\ Done /\ Held /\ Covered
  BY InitType, DoneInit, HeldInit, CoveredInit
<1>2. TypeInv /\ Sequence /\ Done /\ Held /\ Covered /\ [Next]_vars
        => (TypeInv /\ Sequence /\ Done /\ Held /\ Covered)'
  BY TypeStep, DoneStep, HeldStep, CoveredStep
<1>3. Covered => NeverOvercounts
  BY DEF Covered, Count, NeverOvercounts
<1> QED
  BY <1>1, <1>2, <1>3, PTL DEF Spec
=============================================================================
