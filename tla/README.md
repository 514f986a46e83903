# Agent OS backend: a TLA+ verification project

The Agent OS backend is a Go service (Gin, GORM, PostgreSQL, WebSockets) behind a
personal agent that runs on several devices of a user. This directory holds TLA+
modules that model its stateful parts, TLC configurations that check them on small
instances, and proofs, checked by TLAPS, for every value of the constants.

`PROJECT.json` is the index: components, runs, the source lines behind every
definition, the hazards, the findings, and for every checked property a mutant of
the model (a plausible bug in the code) that violates it.

## 1. Inventory

How requests run matters everywhere. Each HTTP request is a goroutine; several
server processes share one PostgreSQL database at READ COMMITTED. A statement
outside `db.Transaction` commits by itself. Most services read a row, decide, and
`Save` the whole row later. Two places serialise: row locks inside transactions
(`UPDATE`, `SELECT ... FOR UPDATE`) and unique indexes.

| Component | State | Operations | What is hard, and what makes it correct |
|---|---|---|---|
| Sync log (`service/sync.go`, `repository/sync_repo.go`, `handler/sync.go`) | `sync_events`, `sync_sequences`, `sync_cursors` | record (with or without transaction), replay by `client_event_id`, pull, acknowledge, retention | numbers reserved in one commit and used in another; a device reading on must not miss an event; `has_more`; retries |
| WebSocket hub (`ws/*.go`) | `clients`, `userDevices`, `Send` channels | register, unregister, pumps, presence, sends | one goroutine, two mutexes, bounded channels, reconnects; no double close, everything is cleaned up |
| Personal knowledge entries (`service/knowledge_entries.go`) | `user_knowledge_entries` with version and tombstone | create, update, delete | optimistic versions, retries, event in the same transaction; versions and events agree |
| Messages and conversations (`service/message.go`, `conversation.go`) | messages, participants and roles, offline rows, reactions, read markers | send, edit, delete, add, remove, role, fetch and acknowledge offline, react, rename, mark read | delivery while devices come and go; no transaction at all; the last owner stays |
| Knowledge base hub (`service/kb_hub.go`) | collections, snapshots, subscriptions | declare, price, review, publish, archive, restore, install, cancel, read | read-then-Save over several statements; snapshots immutable; downloads only while subscribed |
| Billing (`service/kb_billing.go`) | plans, usage, transactions, earnings, payouts, invoices, refunds, disputes | upsert plan, record usage, invoice, refund, dispute, pay out | one active plan; a use is booked in five tables without a transaction |
| Embedding queue and search index (`kb_embedding_repo.go`, `kb_embedding_worker.go`, `kb_search.go`) | documents, embeddings, jobs | enqueue, claim, complete, fail, retry, coverage | several workers, lost workers, bounded attempts, reindexing under a worker |
| Audit log (`service/audit.go`) | hash-chained rows | append, verify | concurrent appends must not fork the chain |
| Contacts, server connections, skill and agent settings | one row per object and a sync event | upsert, delete | as knowledge entries (contacts), or an upsert and then an event outside a transaction |
| Identity and devices (`service/identity.go`) | users, devices, challenges | challenge, verify, profile, rename, revoke | one-time challenges; the last device; stale `Save` |
| Admission (`service/admission.go`) | the policy row, applications | update policy or invitation code, apply, approve, reject | decisions between the steps of a sign-in; stale `Save` |
| Device pairing (`service/device_pairing.go`) | pairings | start, claim | one-time claim under a row lock, expiry |
| Sensitive operations (`service/sensitive_operation.go`) | confirmation tokens | create, confirm, consume | one-time use |
| Governance (`service/governance*.go`) | approval receipts, kill switches, decisions | evaluate, receipt, consume, revoke, reissue, enforce | a receipt is used once and by whom it was given to; a switch stops what has no receipt |
| SAGE plugins (`service/sage_plugin_service.go`) | plugins, versions, reviews, installations, grants, invocations, reports | create, submit, review, suspend, install, grant, invoke, report | only approved versions are installed; suspension against approval; retries of reports |
| Skill hub (`service/skill_hub.go`) | skills, versions, ratings, installations, restrictions | create, submit, take down, restrict, rate, install | the aggregate of ratings; restricted publishers |
| Object storage (`service/object_storage.go`) | object records | presign, complete, delete | deletion against completion; only stored contents become active |
| Background jobs (`service/background.go`, `ops.go`) | job runs | periodic jobs, run once | overlap with requests |
| HTTP shell, configuration, schema | none | routing, binding, tokens | no protocol of its own |

Interactions. Every change of a user's data ends in `SyncService.RecordEnvelope`,
either on the shared connection (messages, conversations, settings, server
connections) or inside the caller's transaction (knowledge entries, contacts); the
recorded event is pushed through the hub to the user's other devices. Messages use
the hub too. The knowledge base hub calls billing for its plans, governance before
sensitive operations and the search index after a publication. Plugins and objects ask
governance first; plugins and skills require an active object for their packages; nearly
all record an audit event last. Background jobs
delete old events and offline rows and expire subscriptions while requests run.

## 2. Modules

| Module | Models | Depends on |
|---|---|---|
| `SyncPaging` | the page a pull returns: limit clamping, look-ahead row, `has_more`, `next_after_sequence` | |
| `SyncFeed` | abstract specification: an ordered feed that grows at its end and readers that never miss an entry | |
| `SyncLog` | recording, pulling, acknowledging and cleaning up the log | `SyncPaging`, implements `SyncFeed` |
| `Hub` | the hub goroutine, the pumps and the senders | |
| `KnowledgeEntries` | versioned entries and their events | the log as `SyncLog` shows it for transactional writers |
| `Conversations` | messages, roles, delivery | the hub as a set of online devices |
| `KBHub` | one collection: review, pricing and plans, snapshots, subscriptions, reads | |
| `EmbeddingQueue` | embedding jobs, the workers that claim them, their failures and restarts | |
| `Accounts` | sign-in, admission, pairing, devices, password and confirmations | |
| `Requests` | how the requests of the platform's services run: steps, whole-row saves, sync events | |
| `Governance` | rules, kill switches, evaluation, receipts, the enforcer | `Requests` |
| `Objects` | object records and stored contents | `Governance` |
| `AuditLog` | the hash chain and its verification | `Requests` |
| `SagePlugins` | plugins from creation to reports | `Objects`, `AuditLog` |
| `SkillHub` | skills from creation to ratings | `Objects`, `AuditLog` |
| `Settings` | contacts, server connections, skill and agent settings | `Requests` |
| `ChatState` | conversation rows, reactions, read markers | `Requests` |
| `Billing` | usage, earnings, payouts, invoices, refunds, disputes | `AuditLog` |
| `Platform` | the composition of the last eight | all of them |
| `*Proofs` | theorems about the module in their name | `TLAPS` |
| `MC*` | small instances for TLC | |

### SyncLog

One user's tables. `AutoWriters` are requests on the shared connection:
`Lookup`, `GetNextSequence`, `CreateEvent`, `notifyDevices`, each a commit of its own.
`TxWriters` run the same code in a transaction: `IdempotentReplay` before it, then
`TxLookup`, `TxGetNextSequence` (which takes the lock on the `sync_sequences` row and
keeps it, since GORM turns the nested transaction into a savepoint), `TxCreateEvent`,
`Commit`, `notifyDevices`. `Abort` is a database error or a crash at any step. The unique
indexes on the number and on `client_event_id` make an insert wait for the
transaction that holds the same key, or fail. Devices pull after their own position
or from the stored cursor; `UpdateCursor` is a read and a save (`AckEvents`, which ends
with the read `LoadCursor`, and `SaveCursor`), several may be in flight (`AckSlots`), and
each may fail in between (`LoseAck`). `settled` is where a device's cursor stood when no
`UpdateCursor` of the device was last between its two statements.
`CleanupOldEvents` is the retention job. `pushed`, `seen`, `high` and `committed`
record what devices were given. Payloads are reduced to what idempotency compares.

### Hub

`register` and `unregister` are two critical sections each, followed by a presence
broadcast; requests may send between any two of them. A full `Send` channel drops
the message in `SendToUser*` and removes the client in `broadcastToAll`. A `Send`
channel is the number of messages in it. A send on a closed channel panics (see 6). In
the goroutine of a request Gin recovers and the loop over the devices ends there
(`Deliver`); in the goroutine of a `ReadPump` (`HandleMessage`, `PumpSends`) nothing
recovers: the process goes down with all its goroutines and is started again (`Crash`).
`HubNeverPanics` is about the goroutine of the hub itself, whose panic no sender causes.

### KnowledgeEntries

A request looks for an earlier answer, checks the entry and the base version outside
a transaction, then writes the row (taking its lock until commit) and the event.
Reserving the number, inserting and committing are one step here: `SyncLog` shows
that the lock on `sync_sequences` makes them one for other transactional writers.

### Conversations

Every statement is a step. A send: membership, earlier message by
`client_event_id`, insert, participants, then the devices online are read, the hub
pushes to each recipient, an offline row is written for each device that was not
online, and the sender is answered. Devices connect, disconnect, fetch a batch and
acknowledge it at any time. `raced` records that two requests about roles (or about
messages) overlapped: the code has no protection then (see 6), and the property
about roles says what holds when none overtakes another.

### KBHub

One collection. Requests of several statements (publish, declare, price, install,
read) are run by workers step by step; those of one statement (review, archive,
restore, cancel, expire) are one action. `Save` writes back the whole row that was
read. `torn` records a pricing request that was overtaken or cut off between the
collection and its plan. A snapshot is its version and status; prices and texts are
left out; requests that fail a check of their own input change nothing and are left
out too.

### EmbeddingQueue

`IndexSnapshot` inserts the documents of a snapshot and their jobs in one
transaction. A worker selects a batch with `FOR UPDATE SKIP LOCKED` (`SelectJobs`),
marks it and commits (`ClaimJobs`), then handles its jobs one by one: read the
document, ask the provider, store vector and status in one transaction
(`CompleteJob`), or count a failure (`FailJob`), which itself may fail. The answer to
a commit may be lost. Workers are cancelled, killed and started again at any step.
Documents are numbers in the order of creation; a job goes by its document.

### Accounts

Every statement of a request is a step; only the claim of a pairing session is a
transaction. `Fail` ends a request at any step (a refused input, a database error, a
crash); a sign-in alone goes on when a lookup fails, and takes the key for a new one
(`FindUser`) or the device for a missing one (`FindDevice`). A behaviour starts in one of the `Scenarios`: the rows an account may have
and the kinds of requests made then. `stale` records, per kind of row, that a `Save`
wrote a copy that no longer was the row; `inForce`, `approved` and `admits` record
which policies were in force, which keys were approved, and how many requests a
confirmation let through. A used or expired challenge is never accepted again, so its
number is used for the next one.

### Platform

The services that share governance, the object records, the audit log and the sync log.
`Requests` has the frame: a worker runs a request, every statement or transaction is a
step (`pc`), `req` is the input, `copy` what the request has read. `SaveThen` is GORM's
`Save`, which writes the row that was read: when the row has changed since, it is put in
`stale`. `Tell` is `RecordEnvelope` as these services call it, after the row was written:
`feed` holds what the last event about a row says, and `untold` the rows of which an
event came late, was lost with its request, or was taken for an earlier one with the
same `client_event_id`. `Abandon` ends a request at any step.

* `Governance`: `Enforce` decides by the mode for the subject (disabled, observe,
  enforce); a token is consumed first (`ConsumeForOperation`, one conditional update),
  else the switches and then the rules are read and the decision is stored. Rules and
  switches match by field or wildcard. `admitted` records what was let through and why,
  `calm` whether no switch covered the request at some moment since it began.
* `Objects`: an upload intent, the client's PUT (any contents), `HeadObject` and the
  conditional `MarkActive`; a download URL; deletion.
* `SagePlugins`: `ReviewPlugin` writes review, plugin and version in one transaction but
  from rows read before it; `GrantPermission` asks governance and consumes a
  confirmation before it writes; an invocation is looked up by `client_request_id`, a
  report by `client_report_id`, both with a unique index behind.
* `SkillHub`: a rating writes its row and the aggregate in one transaction, which
  counts what others had committed; a valid version is published at once.
* `AuditLog`: the head is read and the event inserted; the row lock decides nothing,
  since a transaction that waited continues from the row it had found, and the unique
  index refuses its number.
* `Settings`: a contact and its event are one transaction; the others write, read back
  and tell, and `RemoveServer` tells first.
* `ChatState`: as the settings, with an event for every participant and without
  `client_event_id`.
* `Billing`: `RecordUsage` is a chain of single statements; amounts keep the integer
  division of the fee. They are natural numbers without the width of `int64`.
  `BillingAssumption` says that requests in progress and collections are finitely many,
  that a use which is booked costs something (the code returns before it books one that
  costs nothing), and that `None` is no payout row.

A behaviour starts in one of the `Scenarios`: rows that earlier requests have left and
the kinds of requests that come next. Manifests are valid or not, a value stands for all
the fields of a setting, texts and listings are left out.

## 3. Runs

| Run | Instance | Shows |
|---|---|---|
| `SyncTx` | 2 transactional writers, 1 device, 2 acknowledgements at once, limits 0, 1 and 3, numbers to 3, a day for retention | no event skipped, exact `has_more` below the largest limit, a cursor that keeps what was settled, refinement of `SyncFeed`, delivery of every event |
| `SyncMixed` | a transactional and an automatic writer, 2 devices, 2 objects, one `client_event_id` | numbers are fresh, answers are recorded, pushes are durable, every request is answered |
| `SyncSkip` (violation) | a writer of each kind | an event becomes visible below a position already reached |
| `Hub` | 2 connections of one device, a device that is not connected, `Register` and `Unregister` of 1, `Send` channels of 2 | no panic of the hub, write pumps end |
| `Knowledge` | 2 writers, 1 entry, 4 requests | version order, final tombstones, convergence, answers |
| `Conversations` | 2 workers, 2 users, 1 device, 3 requests, 1 message, 2 rows | delivery once, last owner |
| `OfflineAck` (violation) | the same | acknowledged messages stay waiting |
| `Market` | 2 workers, 1 user, 3 requests, 2 versions | one active plan, plan matches collection, reads only while subscribed, snapshots appended |
| `Embedding` | 2 workers, 2 documents, batches of 2, 2 attempts, 1 retry by the owner | claims exclude each other, ready means embedded, jobs settle |
| `Accounts` | 2 workers, 3 requests, 2 keys, 3 devices, 9 scenarios | one device per pairing, last device, approval, one request per confirmation, nothing undone but by a stale `Save` |
| `Platform` | 2 workers, 29 scenarios, 3 requests (2 in the two with reviews of a new version), 2 users, versions, permissions, ratings and bases | a receipt or decision admits one operation, switches stop what has no receipt, only approved versions are installed, suspensions and restrictions hold, reports and ratings are counted once, deleted objects and contacts stay deleted, the audit chain does not fork, events tell what rows are, the books balance |
| `AuditVerify` (violation) | one event | the verification rejects a stored event |

Why the bounds are enough. The hazards are races of two requests, or of a request
and a job, on one row; two workers give every interleaving of a pair, and the extra
request sets up the state they race on (a create before two updates, an installation
before a cancellation and a read). Limits 0, 1 and 3 with a default of 2 and a maximum
of 3 over three events give full, partial and empty pages; 0 takes the default, and at 3
the look-ahead row is clamped away. Two acknowledgements at once are the least that
overlap. Two connections of one device are a reconnect. `Register` and `Unregister` hold
one client, so that the second connection waits for the hub to register or to unregister;
`Send` channels of 2 are empty, partly full and full. Workers (and the devices of `Conversations`) are
interchangeable there, so symmetry is used where no liveness is checked. Deadlock
checking is off only where the bound on requests ends a behaviour.

Constants that are only bounds: `MaxSeq`, `MaxDay`, `MaxRequests`, `MaxMessages`,
`MaxRows`, `MaxVersion`, `MaxDocs`, `MaxRetries`,
`MaxChallenges`, `MaxSessions`, `MaxConfirmations`, `MaxApplications`, `MaxIssues`,
`Scenarios`. In `Accounts` and `Platform` the scenarios put together the requests that read or write the same table;
without them the tables that no request of a behaviour touches multiply the states. An
amount of 15 makes the fees of two uses differ from the fee of their sum. `Remainders`
is `{0}` in `Platform` and `{0, 1}` in `AuditVerify`. Constants that stand for values in the code: `DefaultLimit`
(100), `MaxLimit` (500), `RetentionDays`, `QueueCap` (64), `SendCap` (256),
`BatchLimit`, `BatchSize` (8), `MaxAttempts` (5).

## 4. Fairness

* `SyncLog`: strong fairness of each writer's step, since a transaction waits for a
  row lock that PostgreSQL grants in turn; weak fairness of notifying and of a device's
  pulls after its position (it asks again while connected). None for acknowledgements,
  retention, aborts or the clock.
* `Hub`: the Go scheduler runs every runnable goroutine (`WF`), and `select` chooses
  among ready channels at random, so a channel that is ready again and again is read
  (`SF` on `Register` and `Unregister`, and on a read pump waiting for a full queue).
* `KnowledgeEntries`: strong fairness of each request's step, for row locks.
* `EmbeddingQueue`: time passes (`WF` of `BackoffPasses`); a worker that runs polls
  again on its ticker and its claims do not fail for ever (`SF` of `SelectJobs` and
  `ClaimJobs`); the calls it makes return (`WF`, they have timeouts). None for
  crashes, restarts, cancellation or the owner's retries.
* `Conversations`, `KBHub`, `Accounts` and `Platform` have safety properties only.

## 5. Proofs

The theorems hold for any sets of writers, devices, entries, users and workers, finite
or infinite, and any bounds; only `BooksTrue`, which is about sums, needs workers and
collections to be finitely many. The assumptions are the named `ASSUME`s of the modules; TLC
evaluates them on every instance. Each inductive invariant was checked by TLC on the
instance of its run before it was proved.

* **SyncPaging** (in `SyncLogProofs`): a page is a prefix of the events after the
  position (`PullReplyIsPrefix`); below the maximal limit `has_more` is exact
  (`HasMoreTellsTheTruth`). The first `n` elements of a set of events are defined by
  counting the smaller ones, so no induction over sequences is needed.
* **SyncLog**: the inductive invariant is a conjunction of types, of what each
  `pc` implies about `env`, `rsv` and `row`, of who holds the lock, of the numbers
  below `nextSeq`, of reserved numbers being fresh, of answers recorded and pushes
  committed. From it: `TypeCorrect`, `Fresh`, `Durable` and `PushesDurable` (devices are
  told of committed events only) for any mix of writers. When
  `AutoWriters = {}` a second invariant is proved on top: only the lock holder has
  a number, it is the next one after all committed events, and what a device has
  seen is everything up to its position that was committed. It gives
  `NoEventSkipped` and `LogImplementsFeed` (every step is a step of `SyncFeed` or a
  stutter; the refinement of the safety part). `CursorKeepsSettled` holds for
  any number of overlapping acknowledgements: `SettledOK` says that whatever is to be
  saved, and the cursor itself, is no lower than where the cursor settled last; so
  acknowledgements one at a time never move it back, and of several at once (see 6) none
  falls below where it stood when the first of them read it. `RepliesAreExact` states
  `has_more` for limits below the maximum, `next_after_sequence` for all.
* **Hub**: `HubSafe` from an invariant that a client the hub is about to map or to
  unmap, and one in `clients`, has an open or once-closed channel as its place says.
* **KnowledgeEntries**: `VersionsInOrder`, `TombstonesStay` from: a request in its
  transaction owns the row's lock, its draft is the successor of the committed row,
  and events of an entry carry versions up to the row's. `EventsConverge` is inductive
  together with that: an event recorded without a `client_event_id` carries the draft
  that its own step commits, and its number is above all others.
* **Conversations**: `DevicesServed` from an invariant over the phases of a delivery: a
  device whose user is a recipient is, until the pushes, anything; after them pushed or
  missed if it was online when the delivery read the hub; after the rows also stored or
  missed if it was not. Pushes and rows divide the devices by that one reading, and that
  is why a device has the message twice only if it connected in between. `OwnerStays`
  needs that a request which has counted the owners still has the roles it counted as
  long as nobody was overtaken.
* **KBHub**: `TypeCorrect` needs that a publisher's (or a pricing request's) version
  is at most the next one. `PlansExclusive` needs the order of `UpsertBillingPlan`:
  a request reads its version before it archives the others; if that version is
  still free once it has archived, nothing is active. So the plan it inserts is the
  only active one, and if another took the version the unique index refuses it.
  `DownloadsNeedSubscription` follows from what each step of a read has seen, and
  `PublicationAppends` from the transaction that inserts a snapshot. `PlansAgree` needs
  `Priced`: as long as nothing is torn, a pricing request has the row to itself, rows
  that others are about to save have the stored pricing, and the version it has read for
  its plan stays free.
* **EmbeddingQueue**: claims exclude each other although completing and failing find
  the row by id alone. The invariant: a worker that has selected a batch holds the
  locks of its rows and they are still claimable (`ClaimsLocked`), a claimable job has
  attempts left (`AttemptsLeft`), the batches of two workers are disjoint
  (`HoldersDisjoint`), a worker that handles jobs has one (`AtAJob`), and
  `HeldIsLocked`. From it `ClaimsExclusive`, `AttemptsBounded` and `ReadyIsEmbedded`.
* **Accounts**: `Base` is the inductive invariant (`BaseHolds`): types, what a request
  relies on at each of its steps (`Phase`), and what the tables say of one another
  (`RowsOK`). A step of another request leaves a request what it relies on: rows stay,
  and a session's lock is kept by its holder (`Kept`). With it
  `ApprovalAdmits` (who comes to create an account has a policy that was in force, or an
  approved application), `SessionPairsOnce` (a device came by a session exactly if the
  session names it), `OneDeviceStays`, `ConfirmsOnce` (a confirmation that has let a
  request through is not open) and the action property `DoneStays`.
* **Platform**: every step is one of a component and moves one request to a step of that
  component (`Flow`, `Moves`), so the other components leave alone what its requests rely
  on. On top of that each property has an invariant of its own:
  `LogUnbroken` that a head which was read is an event or the genesis, and every event
  the first or the successor of one; `DeletionLasts` that object records have a status;
  `OnlyApproved` and `TakedownLasts` that every copy of the plugin row and of an
  installation, however old, names approved versions only; `SwitchStops` that a request
  on its way through governance has seen a moment without a switch that covers it, or is
  stopped now; `PassSpentOnce` that every pass is backed by a consumed receipt or an
  allowing decision and that none is with two requests or operations; `ReportsCounted`
  that who saves an invocation has read it, and what its last conclusive report says;
  `AggregateHolds` that a rating transaction carries the aggregate of the ratings it has
  seen; `RestrictionHolds` that a request on its way to publish has passed a moment
  without a restriction. `FeedTrue` takes a step of every service: a request that changes
  a row of the feed comes to a step of `Telling` with that row, and none leaves `Telling`
  but by telling what the row is, or with the row marked (`Settled`). It needs which row
  a request is about at each step (`Fits`), also while governance is asked, and for
  reactions `GoneIsTold`: `GetReaction` ends without an event when the reaction is gone,
  which is right because the one who removed it is about to tell, has told, or has left
  the row marked. `PlatformAssumption` says that a scenario's tables hold rows of
  their kind and that only the first version of a published plugin is installed.
* **Billing** (in `PlatformProofs`): `BooksTrue` proves `BooksBalance` from the invariant
  `Ledger`, which counts the uses in progress with the tables. What was debited plus what
  uses have still to debit is what was used, or less if a use has failed half way. The
  payout, and each copy of it that a use holds, plus what uses have still to add to it
  is at most what was used. The same holds of the earnings of a base, with a bound for
  each row that also the copies keep, since a stale `Save` may take away what another
  use has added, but puts back nothing that was not used. As long as no step has marked
  `Books`, earned and owed make what was used, and the payout is the sum of the earnings
  plus the uses that have added to it alone, the fees included. No earning comes before
  the payout. `BooksBalance` is what is left of this when no use is in progress. The sums
  fold over the rows of a table and over the workers.
  Lemmas take any element out of such a sum; where one would
  use induction on the set, a counterexample of least cardinality is taken instead, so
  that no theorem with an operator parameter is needed. A step changes the amounts of
  one request and the sums by as much (`AmountsMove`, `TotalGrows`, `AddedTotal`), and
  the steps of all other services leave uses alone (`Spared`, `MarksStay`).

Only model-checked:

* every liveness property (`EveryEventDelivered`, `EveryRequestAnswered`,
  `WritePumpEnds`, `EveryJobSettles`), which is out of this prover's reach.

## 6. What the models found

Three runs show that the code does not do what a comment or a document of the
repository says; `findings` in `PROJECT.json` quotes the lines.

* `SyncSkip`: outside a transaction a number is reserved in one commit and used in a
  later one, so a device can read past it.
* `OfflineAck`: `AckOfflineMessages` compares the ids of the messages with those of
  the rows.
* `AuditVerify`: the hash covers the nanoseconds of a time that the column keeps to the
  microsecond, so the verification recomputes another hash.

Other behaviours met while modelling, which the properties are stated around:

* Sync: of two acknowledgements in flight the one that saves last wins, so the cursor can
  move back, at most to where it stood when the first of them read it.
  `sync_test.go` (`TestSyncServiceAckDoesNotMoveCursorBackwards`) sends them one after
  the other; `CursorMonotone` says what holds of both cases. With `limit = 500` the
  look-ahead row is clamped away and `has_more` is always false.
* Hub: `unregister` of a replaced connection deletes the device's entry whatever
  connection it holds, which leaves an open connection that is not online; a client whose unregistration overtakes its registration stays registered; a
  client that a broadcast dropped stays in `userDevices`, and one that is unregistered stays there until
  the second section, so that a sender finds it and sends on its closed channel: in a
  request Gin recovers, from a message read by a `ReadPump` the process goes down.
* Knowledge entries: the base version is compared before the transaction only, so two
  updates with the same base are both accepted; two concurrent attempts at one update (same `client_event_id`)
  can raise the version twice with one event.
* Conversations: two owners leaving at once leave none; `Save` of a role brings back
  a participant removed meanwhile; an edit racing a deletion revives the message; two
  concurrent attempts at one send store it twice (the index is not unique);
  `createPrivate` may create two conversations.
* Knowledge base hub: a stale `Save` undoes a review or a publication;
  `MarkCollectionPublished` approves a collection taken down; overlapping pricing
  requests can leave no active plan; an empty `entitlement_type` installs as free,
  since the mode of the collection is used only for unknown words; reads check the
  status of a subscription, so one past `expires_at` is served until the job runs.
* Embedding queue: a job marked processing by a worker that is killed, that is
  cancelled in the middle of its batch, or that cannot write a failure down, is never
  taken up again: `locked_at` is written and never read.
* Accounts: two revocations at once leave no active device; a rename that read a device
  before its revocation makes it active again; an update of the profile that races
  `SetPassword` removes the password; of an approval and a rejection at once the last
  one stands; two first sign-ins of a key leave two applications, and approving the
  older one has no effect; two requests may both use one confirmation.
* Governance: a receipt is spent before the operation is carried out; when a later step
  fails it is gone.
* Plugins and skills: an approval or a submission that has read a plugin before its
  suspension publishes it again; a skill that was taken down is published by the next
  valid version; two restrictions of a publisher may be active, and lifting one leaves
  the other; overlapping ratings leave a wrong aggregate until the next rating.
* Audit: of two events recorded at the same time one may be lost, since every caller
  ignores the error.
* Settings and conversations: rows and events are written apart, so events may come in
  another order than the changes they tell of; a repeated `client_event_id` changes the
  row again without an event; `RemoveServer` tells before it deletes, and an update that
  has read the connection before inserts it again. A read marker may go back.
* Billing: no caller of `RecordUsage` passes a unit price, so that earnings and payouts
  are reached by its tests only. As it stands a first use that races another one fails
  half way, a `Save` of the payout loses what another use added and makes a paid payout
  open again, a payout grows after it was paid, two first uses make two earnings, and
  the refunds of an invoice may exceed its total.

## 7. Not modelled

* Semantic search ranks vectors by floating-point similarity and calls a model over
  HTTP: numeric data and I/O without state of its own.
* HTTP routing, binding, tokens, configuration and struct definitions have no
  protocol of their own; signatures and the FFI verifier are external cryptography.
* In `Accounts`: names, `last_seen_at`, and the audit and sync events written last,
  whose errors are ignored.
* In `Conversations`: the find-or-create of a private conversation, typing signals. In
  `KBHub`: texts, prices, public listings, the diff of snapshots, moderation reports
  (single inserts and updates), the search index, and the refusal by governance, which
  ends a request as `Abort` does.
* Background jobs: the ticker and the rows that record each run; what the jobs do is an
  action of the module whose rows they change.
* In `Platform`: the icons of plugins and skills, listings, metrics, the policy bundle,
  and the contents of manifests, which a validator accepts or refuses.
* The `Broadcast` channel of `Hub.Run`: no code puts anything on it.

## 8. Plan

The parts that carry the system's state are modelled, and every safety invariant and
action property that a run checks is proved. What a longer project would add:

* the find-or-create of a private conversation, and moderation reports, as actions;
* the width of amounts, once a caller of `RecordUsage` passes prices.
