# SIL-WAM: specification and verification

SIL-WAM is a WhatsApp broker: clients (order systems) post a *service* - a
template message to a customer, optionally followed by questions - and are told
through a webhook what became of it. Around that grew broadcast campaigns, the
orders of one client (Lizo), invoices on demand (ERPNext), and the management of
WhatsApp templates, users and roles. The program is a FastAPI application over
PostgreSQL (SQLAlchemy sessions with `autoflush=False`, READ COMMITTED), with
APScheduler jobs and Meta's Graph API outside.

The specifications are about what is hard in it: transactions that work on
copies of rows read without locks, jobs of several instances, HTTP calls made in
the middle of transactions, and webhooks that Meta repeats, reorders and
delivers early.

## 1. The system

| Part | Source (`src/app/`) | State | Operations |
|---|---|---|---|
| Conversation engine | `services/conversation_engine.py`, `api/meta_webhook.py` | `conversations`, `services`, `service_responses`, `messages`, `mobile_queue`, `failed_webhooks`, Redis `wamid:` keys | `handle_inbound`, `handle_status`, `_fire_next_question`, `_supersede_stalled_free_text`, `_complete_service`, `_store_failed_webhook` |
| Notification rules | `services/notify_queue.py` | inserts `outbound_notifications` inside the caller's transaction | `enqueue_notification` |
| Notification delivery | `services/notify_scheduler.py` | `outbound_notifications.status/attempts/next_attempt_at` | `_run_notify_job`, `_send_one_pending`, `_record_failure` |
| Template dispatch, retry | `services/queue_manager.py`, `services/send_scheduler.py`, `api/client_services_api.py` | `services`, `mobile_queue`, `messages` | `enqueue_service`, `_send_one_pending`, `send_template_for_service`, `_fail_or_schedule_retry`, `retry_service` |
| Expiry job | `services/expiry_scheduler.py` | `services`, `mobile_queue` | `_expire_timed_out_services` |
| Broadcast dispatch | `services/broadcast_scheduler.py`, `services/broadcast_status.py`, `api/campaigns_api.py` | campaigns, recipients, counters | `dispatch_pending`, `_recover_interrupted`, receipts (`handle`), send, cancel, delete |
| Broadcast audience | `api/phonebooks_api.py`, `services/broadcast_screening.py`, `api/campaigns_api.py` | phonebooks, contacts, opt-outs, recipients | contacts, build, import, screen, send |
| Lizo | `lizo/` | markers in `services.data` | ingest, `handle_tap`, confirm, cancel, `approve.emit`, retry |
| ERPNext | `api/erpnext_webhook.py`, `_handle_pdf_request` | markers in `services.data` | `/notify`, prefetch, download button |
| Sessions, users, roles | `api/auth.py`, `core/deps.py`, `api/users_api.py`, `api/roles_api.py` | users, `refresh_tokens`, lockout columns, `role_page_permission` | login, refresh, logout, change password, user and matrix updates |
| WhatsApp account, templates | `api/whatsapp_api.py` | `whatsapp_accounts`, `whatsapp_templates`, and Meta's own templates | connect, disconnect, refresh, sync, create, edit, delete |
| Live feed | `api/sse_api.py` | a `created_at` cursor per client | polling stream |
| Rest | `api/*`, `routes/*`, `core/*` | CRUD | single requests |

How they interact:

* Ingest commits a service as `in_progress` with `template_sent = FALSE`. The
  send job claims it (`FOR UPDATE SKIP LOCKED`), calls Meta *while it holds the
  row*, and commits the outcome with the `messages` row.
* Meta's webhooks answer 200 at once and are handled in background threads.
  A tap or a reply carries the wamid of the message it refers to; a plain text
  does not, and is matched to the one service that waits for a free text.
* The engine sends the next question over HTTP inside its transaction, records
  the answer in the JSON column `services.questions`, and completes the service.
* Every handler that changes a service calls `enqueue_notification` inside its
  own transaction; the notify job POSTs the rows later.
* A broadcast batch is claimed and committed, sent without any lock, and
  recorded by a second transaction; receipts for it arrive through the webhook.
* Lizo's buttons and the download button are guarded by markers that live
  together in one JSON column, which every commit writes as a whole.
* The template pages change Meta first and the database afterwards.

What makes it hard: a transaction reads a row once and writes only the columns
it changed, perhaps much later (lost updates, stale guards); row locks appear at
the *first flush*, which sits in places nobody would look for them
(`_max_notified_rank`, `_find_free_text_blockers`); a call to Meta cannot be
rolled back; receipts may come before the commit that stores their message; a
query does not see what its own session has not flushed.

What makes each part correct:

* engine - a plain text goes to the right service; answers are complete and in
  order; an end is final and told exactly once; a customer message the handlers
  fail on is stored as failed, unless the process dies or cannot store it;
* delivery - at least once, no double claim, bounded attempts, all rows settle;
* dispatch - no double send but for lost transactions; every service is sent or
  ends; a sent service can be tapped; every end is told under its attempt;
* broadcast - one copy per recipient and life of the process; nothing to those
  who were dropped; "dispatched" means done; a campaign does not stay in sending;
* audience - only screened recipients are sent to, once; counters are the rows;
* orders - a step is taken once, the first decision holds, unless taps overlap;
* sessions - a refresh token has one heir; a password change ends the sessions
  that are there; a role's permissions are one matrix somebody saved, as long as
  saves do not overlap;
* templates - a row is about its template; a sync leaves what Meta listed; media
  survive edits; a disconnected account stays so, but for requests that read it
  before.

## 2. Modules

```
NotifyQueue            rules of enqueue_notification (operators)
 |-- ConversationEngine   one conversation: transactions, locks, webhooks
 |     ConversationProofs
 |-- ServiceDispatch      one service from ingest to end: sends, retries
       ServiceDispatchProofs
Outbox                 what the notification table promises (abstract)
 `-- NotifyScheduler      the notify job; implements Outbox
       NotifySchedulerProofs
Mailing                what a broadcast promises its recipients (abstract)
 `-- Broadcast            dispatch, control, receipts; implements Mailing
       BroadcastProofs
Audience               phonebooks and a campaign up to its dispatch
       AudienceProofs
Orders                 markers of Lizo's and ERPNext's services
       OrdersProofs
Accounts               sessions, users, permissions
       AccountsProofs
Channel                the WhatsApp account and the templates, here and at Meta
       ChannelProofs
MC<Module>             instances for TLC
```

All modules share one way of cutting the code into steps. A transaction that
reads, works and commits is split where another one can see it or come between:
the first step copies the rows it read into a record of the thread (`tx`, `job`,
`hook`), the last one writes the columns that differ from the copy. Where Meta
is called in between, the call is the first step's effect or a step of its own.
A transaction without such a gap is one step. Variables called a *history* in
their module exist for the properties only and guard nothing.

### NotifyQueue
`StatusRank`, `Passes` and `Enqueues` are the guards of `enqueue_notification`.
The caller applies them to its own notification history, because the function
runs in the caller's transaction.

### ConversationEngine
The state is the rows of one conversation, plus `tx[p]`, the identity map of the
transaction thread `p` runs, and `locks[p]`, the row locks it holds.

* `Deliver` reads the rows (unlocked) and writes a *plan*: the flushes,
  notifications and sends that remain, in the order of the source;
* `Notify`, `Scan`, `Commit` flush, that is take the row locks of `Dirty(tx[p])`
  one by one (`Block`) in the order of SQLAlchemy's unit of work (`FlushRank`).
  The models declare no `relationship()`, so it goes by the names of the classes:
  Conversation, Message (the UPDATE of a receipt's message, or an INSERT, which
  waits for an equal wamid and then checks its foreign keys), MobileQueue, Service,
  and the foreign keys of the notifications. Each end of a service (`Ended`) also
  completes its `mobile_queue` row, and locks it;
* `LockRow` is `SELECT ... FOR UPDATE`, row by row; `Supersede` and `RouteText`
  go on when all rows are locked;
* `Send` is a question sent over HTTP; `Commit` writes the changed columns;
* `DeadlockVictim` and `DuplicateWamid` roll back: what was sent stays sent
  (`orphans`), and the webhook is stored as failed unless the source swallows
  the error. Storing it may fail too, which is only logged, and the process may
  die with a webhook it has answered (`Die`): such events are `lost`. Both happen
  to the threads in `Frail` only, a bound.

The lock modes are PostgreSQL's: `share` stands for FOR KEY SHARE, `write` for
the lock of an UPDATE of other columns (FOR NO KEY UPDATE), `update` for FOR
UPDATE. An INSERT of the same unique wamid by two transactions waits as `write`
on that wamid does. A `mobile_queue` row that another transaction has completed
since is not written again by the source; the model locks it all the same. The flush
that follows a supersession in the source is left to the transaction's next one.
The window between asking Redis for a key and setting it is closed in the model;
where Redis does not answer, the database check leaves the same window open.
`Redis` says whether it answers: always in ConversationLive, never in the other
runs.

### NotifyScheduler and Outbox
`Claim`, `Post` and `Record` are one transaction of the source with the POST in
the middle; `Lose` is a commit that fails or a process that dies. `created` is
the transaction's start time, from a set of stamps so that ties and stamps older
than existing rows occur. `Outbox` promises: once committed, a row is handed over
until settled; "delivered" means handed over; a settled row is not handed over
again. It promises neither order nor exactly-once, nor does the source.

### ServiceDispatch
A service with its attempt number. The send job holds its lock across
`Claim`, `CallMeta`, `Settle`. Every other handler (receipt, answer, expiry,
retry) is `Begin`, which reads the row, and `Finish`, which waits for the
sender's lock and writes the columns that differ from its copy (`Column`). From
first flush to commit a handler is one step here: the interleavings inside that
span are ConversationEngine's. `Lose` loses the transaction after the call.

### Broadcast and Mailing
`Pick`, `Claim` (the batch is committed as "sending"), `Attempt` (one recipient,
no lock), `Record`, `Halt` (stop on error), `Finish`, `Yield` (nothing left to
claim), `GiveUp` (template or account gone) and `Drop` (campaign deleted) are
`dispatch_pending`, run by the scheduler's job and by the kick
that `/send` starts: two runners of one process. `Crash` and `Boot` are the
process and `_recover_interrupted`; `Lose` is a batch that ends with an exception.
The recovery at `Boot` may fail, which is swallowed and leaves
the interrupted rows for the next start.
`Begin`/`Commit` are the send, cancel and delete calls; `Receive`/`Apply` the
receipts, which read the counters and write them back. `Mailing` is what a
recipient sees: held, due, taken, over, and at most one copy per life of the
process; the mapping reads the phase off the row and off what a runner holds,
for a row says "sending" before and after its call. A screening that overlaps the
send call, and may write "skipped" into a batch, is Audience's matter.

### Audience
`contact` and `optout` change at any time. Collecting, importing, screening and
sending are requests (`Begin` and one `...End` each) that write at their commit
to a campaign that may not be their copy any more; `overlapped` records that one
did, and `gone` that its rows were replaced. The dispatch is one step per
recipient here.

### Orders
`data[s]` is the set of markers in `Service.data`. `Start` reads it and sends,
`Commit` writes it back as a whole, `stale[s]` counts commits of a copy that was
no longer current. A message is on the phone (`loose`) before its row is
(`kept`): a tap on a loose copy is routed by number, not by wamid. With
`LIZO_APPROVE_ORDER_URL` unset, which a restart may change (`Settings`), an order
is confirmed and nothing is queued (`inert`).

### Accounts
A request reads (`LoginRead`, `ChangeBegin`, `SaveBegin`), checks and commits.
`/refresh` locks its token by updating it (`RefreshTake`). A change of password
checks it (`ChangeBegin`), deletes the sessions (`ChangeDelete`) and commits
(`ChangeEnd`): a DELETE sees what was committed when it began and waits for locked
rows, so a token inserted meanwhile survives (`late`). A save of a permission
matrix deletes the row versions it saw and inserts its own. Rows that another save
has deleted and inserted again meanwhile, equal ones too, are new versions: they
stay, and the role is a mixture (`merged`), or the INSERT of the same page fails.

### Channel
A request that works on the account reads it in one step (`Read`) and writes
the columns it changed in another (`Commit`); `stale` names the requests whose
copy a commit has overtaken. `meta` is Meta's side (external): templates with
ids, a review, a media header; people may create and delete them there. A
request calls Meta in its first step and commits in its last; `seen` is the
page a sync was given. Rows are matched by id or else by name and language, and
removed by the ids they had before.

## 3. Runs

| Run | Instance | Distinct states |
|---|---|---|
| ConversationFlow | 1 service with two questions answered by buttons, 2 workers, sender, expiry job, 4 events | 694 k |
| ConversationLive | 2 services with a free-text question, both templates out, 2 workers (one may die or fail to store), Redis, 3 events in 4 deliveries; fair threads | 246 k |
| Statuses | 1 service with a button and a free-text question, 2 workers, sender, receipts of two messages; a counterexample | - |
| Notify | 2 instances, losses; fair | 205 k |
| Dispatch | 1 service, 2 senders, 1 worker, a retry, a loss, 3 sends; fair | 691 k |
| Broadcast | 2 campaigns, 3 recipients, 2 runners, 1 request, 1 receipt, a restart | 1.53 M |
| BroadcastLive | 2 campaigns, 2 recipients, 2 runners, 1 request, a restart, a lost batch; fair | 154 k |
| Audience | 2 books, 2 numbers (one in the US), 2 requests, 5 steps of the campaign, 2 edits | 815 k |
| Orders | 2 orders (one incomplete), a payment, an invoice, 2 workers, 4 taps, a retry, a loss, the approval URL set or not | 765 k |
| Accounts | 1 user and the super admin, 1 role, 3 tokens, 2 requests, 3 matrices | 1.71 M |
| Channel | 1 name in 2 languages, 2 ids, 2 requests, pages of one template | 1.26 M |
| OnlyVanished | as Channel; a counterexample | - |

What they show:

* **ConversationFlow** - the first tap and an end are told once; answers in order
  and complete; exactly one end is told, although the rank check has no lock of
  its own; an end is final.
* **ConversationLive** - the FOR UPDATE scan, preceded by a flush, keeps one live
  free-text question per number; every deadlock involves a plain text or a
  transaction, not a receipt's, that has ended a service; every customer message
  ends as a Message or as a FailedWebhook row, deadlocks and repeated deliveries
  included, unless the process died with it or could not store that row.
* **Statuses** - "'answered' is the one exception to 'each status fires at most
  once'" (`notify_queue.py:41`) does not hold: the receipts of two messages of one
  service lock different message rows, both pass the rank check
  (`notify_queue.py:106`), and the client is told "delivered" twice.
* **Notify** - no double claim, the cap on attempts, what duplicates can come
  from, refinement of Outbox, every row settles.
* **Dispatch** - no double claim; calls to Meta are what `send_attempts` says,
  lost transactions apart; a service that is out has its message row and a live
  one its queue row; every end is told; every service is sent or ends.
* **Broadcast** - the dispatch implements Mailing; who is skipped was sent
  nothing except by a run a crash erased; "dispatched" means nobody is left; a
  counter never reports more than Meta accepted.
* **BroadcastLive** - no campaign stays in "sending" through crashes and cancels
  unless a batch raised and left orphans.
* **Audience** - unless two steps overlap, nobody is sent to unscreened or twice
  and the counters are the rows.
* **Orders** - a step behind a marker is repeated, or a decision reversed, only
  after an overlap; a confirmed order has its ApproveOrder call, after both taps,
  unless the URL of that call was unset when it was confirmed.
* **Accounts** - one heir per refresh token; a session outlives a password change
  only if its token was being issued meanwhile; permissions are one matrix unless
  two saves overlapped.
* **Channel** - rows stay with their template; an edit keeps the media of the row
  it read; a sync agrees with what Meta listed; only a request with an overtaken
  copy of the account revives a disconnected one.
* **OnlyVanished** - "Remove local templates that Meta no longer has"
  (`whatsapp_api.py:921`) is not what happens: a template that was recreated at
  Meta under a new id is matched by name, gets the new id in memory, and is then
  removed by the same sync, because the DELETE's query does not see that id. The
  property speaks of the step in which the sync ends, so that what another request
  deletes meanwhile does not count.

Properties that say "unless two steps overlapped" are not a way out: the history
variable is set only by a commit to rows that are no longer the ones read, and
without it the property is false of the code (see the limits below).

**Bounds.** Two threads of each kind are enough for every race found or
excluded here: each is between two transactions, and a third has to wait for
the same row or repeats what the second did. Dispatch has one worker: with two,
what the properties exempt (overlapping retries, an end written by a handler a
retry had outrun) is reached by the sender and one worker or exempted anyway;
that overlapping retries disturb nothing else is shown by the proofs, for any
number of workers, and by no run. Two services show supersession, whose scan
treats any number of blockers alike. Two questions show order and staleness; in
ConversationFlow buttons answer both, because nothing but the conversation's
row comes between two such replies, while plain texts lock the services first.
`Hook` bounds the webhook events (those that lead up to a race and the two that
race), which it numbers in the order they happen; `MaxDeliveries` their
deliveries, repeated ones included; `Sent` the templates that are out at the
start; `Frail` the threads that may die; `Kind` the kinds an instance uses:
replies that quote a message occur in Statuses only, receipts that differ from
others only in rank in no run, and all of them in the proofs. `MaxSends` is 3
as in the source; `MaxAttempts` 3 (8 in the source): the cap is compared with a
counter and nothing else depends on it. `MaxRetries`, `MaxLosses`, `MaxBoots`,
`MaxReceipts`, `MaxTaps`, `MaxEdits`, `MaxRuns`, `MaxChanges` bound what
clients, customers, users and faults do. `BatchLimit` 2 against three
recipients gives a full and a partial batch. `PageLimit` 1 against two
templates gives an incomplete page. `Wamid`, `Token` and `Id` bound what is
ever issued; when they are used up only refusals remain. Runs that check
liveness use no symmetry; in the others threads and identities that nothing
tells apart are declared interchangeable.

Deadlock is checked in Notify. The other instances really stop (all events have
arrived, everything has ended, the bound on ids is reached), so it is switched
off there; deadlock among database transactions is a state predicate of its own
(`Deadlocked`, `OnlyEndersDeadlock`).

**Fairness.** A thread that has begun a transaction goes on with it: nothing in
the program stops it, and HTTP calls have timeouts (10 s for the POST, 20 s for
Meta). In ConversationEngine the fairness is strong, because a lock that the
sender takes again and again (a refused template goes back to the pool) is free
again and again rather than for ever; PostgreSQL serves the waiters of a lock in
the order they came, which grants such a lock. The jobs are fired by an interval
trigger, so weak fairness of an instance's work is enough, and so it is for the
clock that passes `next_attempt_at` and `next_retry_at`. In Broadcast a runner's
work is weakly fair (the tick fires, a kick is a thread that goes on) and so is
`Boot`: the process is supervised and started again. Crashes, losses and requests
are never fair. Nothing is assumed of customers, clients or Meta: events may
never arrive, sends may always fail.

## 4. Proofs

Eight modules hold proofs, each for all values of the constants that satisfy the
assumption its module names. The assumptions say that bounds are naturals, that
the "No..." values are outside their sets, and, where something is counted, that
a set is finite (recipients, workers, numbers, template ids).

| Module | Theorems | Along which invariant |
|---|---|---|
| ConversationProofs | `TypeCorrect`, `FreeTextAlone`, `AnswersInOrder`, `CompletionIsEarned`, `OneEnd`, `TurnsToldOnce`, `OnlyEndersCanDeadlock`, `EndsAreFinal` | `Kinds`: what a transaction is about and which plans it can still have; `Sane`: its copy agrees with its plan; `Exclusion`: locks that two transactions hold never conflict; `Backed`: what each may rely on while others commit (below); `Db`: what holds of the committed rows |
| NotifySchedulerProofs | `TypeCorrect`, `RowsAreClaimedOnce`, `FailedMeansMaxAttempts`, `DeliveredMeansReceived`, `DuplicatesHaveACause`, `ImplementsOutbox` | `ClaimsHold`: a claimed row is pending, an answer belongs to a claim, "ok" means the client has the row. Without it `Record` could settle a settled row |
| ServiceDispatchProofs | `TypeCorrect`, `OneSender`, `SentMessages`, `LiveQueued`, `EndTold`, `CallsCounted` | `Claims`: what a sender holds is live and not out, and its message is of the current attempt; `Copies`: a handler whose copy is of the last attempt has been outrun by no retry. Every handler writes on the strength of such a copy. `Counted`: the calls of the current attempt are its sends, the losses and the one under way, a service that may be claimed again has sends left, an attempt no retry has opened has no calls, and a retry nobody has outrun resets the count it has read |
| BroadcastProofs | `TypeCorrect`, `DispatchedMeansDone`, `SkippedStayUnsent`, `ImplementsMailing`, `OneCopyPerLife`, `CountersNeverExceed` | `Apart`: whom a runner has claimed belongs to it alone; `Unsent`: and has no message yet; `Sparing`: copies against lives; `Sequence` and `Done` for the status of the campaign; `Covered`: each copy of a counter, with the successes of the batch that holds it, is at most what Meta has accepted |
| OrdersProofs | `TypeCorrect`, `RepeatsAreExplained`, `FirstDecisionHolds`, `ConfirmedMeansApproved` | `Counted`: copies and queued calls against the marker, the stale commits and the handlers under way, whose number is a cardinality; `Walked`: which taps lead to a marker |
| AccountsProofs | `TypeCorrect`, `OneHeir`, `SessionsFollow`, `OneMatrix` | `Held`: who refreshes holds a live token, alone; `Inherited`: a token with an heir is dead. `PermissionsAreOneMatrix` is inductive with the type |
| ChannelProofs | `TypeCorrect`, `RowsKeepTheirTemplates`, `OnlyStaleCopiesRevive`, `MediaAreKept`, `SyncsAgree` | `Named`: the key of every template Meta ever had never changes, so that what rows and requests know by id stays true (`RowsNamed`, `TxInformed`), and living templates have different keys (`MetaKeys`), so that a row found by id and one found by name are the same; `AccountRead`: a copy of the account that no commit has overtaken is the account |
| AudienceProofs | `TypeCorrect`, `OnlyScreenedAreSent`, `OneMessage`, `CountersHold` | `Agreed`, kept until two steps overlap: an editable campaign has sent nothing, a ready one has let all its drafts through, and the counters are cardinalities of the rows |

In each module the invariant (`IInv` in most) is shown to hold initially, to be
kept by every action (one lemma or step per action), and to imply the properties;
the theorems about steps (`EndedStaysEnded`, `ActiveHasCredentials`,
`MediaSurvivesEdits`, `SyncAgrees`, and the refinements) use it as the state a step
starts from. The two refinement theorems show every step of the detailed
specification to be a step of the abstract one or a stutter. `OneCopyPerLife`, a
property of Mailing, is carried over to Broadcast: it is proved of the mapped
variables.

**The argument for ConversationEngine.** Its transactions read without locks and
write later, so an invariant has to say which part of a copy cannot have gone
stale. `Backed` has five parts:

* `Answers`: the answers a copy counts are recorded already, all but the one it
  records itself. Answers are never withdrawn, so however old the copy is, its
  commit leaves no gap: `NoQuestionSkipped`, `CompletedHasAllAnswers`.
* `EndsTold`: a transaction that ends a service tells of it under the lock of the
  service's row, taken by the flush that precedes the rank check; the notified
  end it saw missing is therefore missing until it commits. A service that its
  copy shows as ended has told its end. Hence `OneEndIsTold`, and the half of
  `EachTurnOnce` about ends.
* `TurnTold`: the first tap is told under the conversation's lock, the other half.
  The statuses of receipts have neither lock: see the run Statuses.
* `Alone`: who asks for a free text holds the conversation's row, and has expired
  every other live service that waits for one; while its scan goes on, each live
  service is locked or still to be locked. Others can begin to wait only under the
  same row: `OneFreeTextOutstanding`.
* `Order`: a tap or an interactive reply that holds anything holds the
  conversation's row. A receipt locks its message, then the queue entry, then the
  service (`InOrder`), so one that waits holds no lock on a service's row. The
  sender, once it has claimed, and the expiry job never wait unless they have ended
  a service (`NothingEnded`); taps and replies that have ended nothing want the
  conversation, the wamid and services only. Whoever of these holds the
  conversation could therefore wait only for a receipt that goes on, and a receipt
  only for another receipt further along the same three rows: a deadlock needs a
  plain text or an end (`OnlyEndersDeadlock`).

Each of the five is shown to survive a commit of another thread from
`Exclusion`: what the other writes, it has locked. `Exclusion` itself is kept
because a lock is only granted when it conflicts with none that is held (`Free`).

**Only model-checked.** Liveness (`MessagesLeaveATrace`, `EveryRowSettles`,
`EveryServiceIsDispatched`, `SendingEnds`): fairness and ENABLED are out of the
prover's reach. The two properties of the runs that end in a counterexample,
`EachStatusOnce` and `OnlyVanishedAreRemoved`, are false. Every other property
that a run checks is stated by a theorem. `CallsAreCounted` and
`NeverOvercounts` compare cardinalities; that is why they speak of sets of
calls and of messages, and not of sums.

## 5. What comes next

1. Lizo's status callbacks: a second notification next to ServiceDispatch's, with
   an order of its own.
2. The creation, renaming and deletion of roles in Accounts, together with the
   users that hold them; the onboarding sessions of Channel.
3. The feed's cursor against transactions that commit late.
4. Pure operators against reference definitions: the dot-path mapper, number
   normalisation, the parameters of a recipient.

## 6. Not modelled, and known limits

Not modelled: the live feed (it reads only); template building, media upload and
the Graph client (formatting and HTTP: their outcomes are choices of the modules
that call them); companies, API keys, analytics, demo, server-rendered pages, the
CLI and migrations (single requests or rendering, no steps that interleave).
`advance_queue` has nothing to do since concurrency became unlimited: no service
is ever `waiting`. Message texts, time zones and payload layout are abstracted
everywhere; what else a module leaves out is in its header and in the notes of
`PROJECT.json`.

What the models contain and no property forbids, because the code does it:

* a customer message is lost when the process dies after the 200
  (`meta_webhook.py:69-72`), when `_store_failed_webhook` fails, which is only
  logged (`meta_webhook.py:113-114`), and, outside the model, when no account has
  the number it was sent to (`meta_webhook.py:146-148`);
* transactions deadlock, and one of them is rolled back: a plain text with any
  other (`conversation_engine.py:445`), and a transaction that ends a service it
  has locked before, such as a supersession or an expiry, with a failed receipt
  (`conversation_engine.py:297-308`, `492-496`, `expiry_scheduler.py:99`);
* a client may be told an older status after a newer one, when a tap and a
  receipt pass the rank check before either commits (`notify_queue.py:106`);
* a client may be told the same status twice by the receipts of two messages of a
  service (`notify_queue.py:106`): the run Statuses;
* two replies to the last question may both send the completion message
  (`conversation_engine.py:642`);
* the expiry job may write "expired" over "completed" (`expiry_scheduler.py:119`)
  and may end an attempt of which a retry knows better, so that its end is not
  told (`expiry_scheduler.py:122`): `EndIsTold` exempts exactly these (`outrun`);
* a receipt handled before the commit that stores its message is dropped
  (`conversation_engine.py:256`, `broadcast_status.py:33`);
* a webhook stored as failed cannot be replayed while its Redis key lives
  (`conversation_engine.py:68`);
* overlapping retry calls can leave a service `in_progress` and sent without a
  message of its attempt (`client_services_api.py:289`): `SentHasMessage` and
  `CallsAreCounted` exempt exactly these (`RetriedInTurn`);
* a broadcast interrupted in the middle of a batch sends again what Meta had
  accepted, although the docstring of `_recover_interrupted` calls putting the
  rows back safe (`broadcast_scheduler.py:67-70`): copies are bounded by restarts;
* a batch that raises leaves its rows in "sending" until the next restart
  (`broadcast_scheduler.py:114`): `SendingEnds` exempts them (`Orphaned`);
* campaign counters lose updates (`broadcast_status.py:79`): they are promised
  from above only;
* who opts out after the screening is sent to (`broadcast_screening.py:96`);
* recipients that are collected or imported while a screening or a send of the
  old ones is under way are sent to unscreened, or twice, and the counters then
  differ from the rows (`campaigns_api.py:283`): the properties of Audience hold
  until two steps overlap (`overlapped`), and only the local causes of a wrong
  counter (`campaigns_api.py:743`) are excluded;
* two taps handled at once can queue two ApproveOrder calls, although
  `approve.py:108-109` and `docs/LIZO_API.md:357-358` rule a second one out:
  `RepeatsNeedOverlap` counts them;
* with `LIZO_APPROVE_ORDER_URL` unset an order is stamped as confirmed and nothing
  is queued (`approve.py:114-122`): `ConfirmedIsApproved` exempts it (`inert`);
* taps handled at once repeat a step or reverse a decision (`lizo/inbound.py:141`,
  `conversation_engine.py:788`): `RepeatsNeedOverlap` and `FirstDecisionWins` exempt
  the services with a stale commit, and no run lets the fallback to the newest
  invoice (`conversation_engine.py:711`) choose a wrong one, there being one;
* a session whose login or refresh began before a password change survives it,
  although the comment at `auth.py:170` says that all other sessions end:
  `SessionsFollowThePassword` exempts these tokens (`late`);
* overlapping saves of a role leave a mixture of two matrices
  (`roles_api.py:119-137`): `PermissionsAreOneMatrix` then promises one row per
  page, each of an accepted matrix, and one whole matrix for the other roles;
* a request that has read the account before a disconnect may write "active" over
  it (`whatsapp_api.py:432`): `ActiveHasCredentials` exempts these copies (`stale`);
* an edit strips the media header at Meta if the row it read did not show it,
  although `whatsapp_api.py:755-757` says it "must never be able to strip" it:
  `MediaSurvivesEdits` exempts these rows;
* failed logins are counted on a copy, so that parallel guesses count once
  (`auth.py:56`);
* a sync asks for one page of 100 templates (`whatsapp_api.py:862`), so that a
  company with more loses the rows of the others, and removes nothing when Meta
  lists none (`whatsapp_api.py:925`).
