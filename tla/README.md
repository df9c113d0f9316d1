# Aivory: a verification development

Aivory is a self-hosted AI workspace: a Go server (`server/`), a React client (`src/`), an Electron
shell (`desktop/`) and a Python sandbox service (`sandbox-service/`). The server is where the state
is, and where the mistakes would be expensive: it sells tiers and credits, admits work against
quotas and balances, charges for it afterwards, runs answers detached from the request that asked
for them, and does so from several goroutines and, with Postgres and Redis, from several replicas.
This development models that core in TLA+, checks it with TLC on small instances, and proves the
central facts with TLAPS for all of them.

## 1. Inventory

| Part | State | Operations | Interacts with | What is hard |
| --- | --- | --- | --- | --- |
| Credit store (`store/credits.go`, `credit_adjustments.go`) | permanent balance, cycle anchor, append-only `credit_ledger`, `credit_reservations` | debit, reserve, settle, settle under a second key, release, top up, adjust | usage billing, audio and slide billing, payments, codes | retries, two attempts for one bill, holds that expire, cycles that move |
| Membership (`user_groups.go`, `users.go`, `redeem_codes.go`, `payments.go`) | group, expiry and fallback of a user; groups; codes and their redemptions; orders | assign, expire lazily, sweep, delete a group, fulfil an order, redeem | credit and quota cycles, model access | reads without a lock, deletion in between, long sequences of grants |
| Payment orders and gateways (`payments.go`, `payment/`, `api/payment_*.go`) | order, attempt, events; the session at the gateway | check out, call back, resume, reconcile, close, delete | membership, credit store | repeated, late and reordered callbacks; lost answers; a closed order that is paid |
| Usage quotas and billing (`quotas.go`, `llm/quota.go`) | reservations per day and per window of a cycle; an admission that combines them with a credit hold | admit, settle, release | credit store, groups, orchestrator | several transactions, each may fail; configuration changes meanwhile |
| Generation lease and turns (`generation_leases.go`, `conversations.go`, `api/messages_handlers.go`, `llm/orchestrator.go`) | lease per branch and principal, message tree, active leaf | admit an append, edit, regenerate, insert question and placeholder, finish, delete a round, switch | workspaces, streams, compaction | two sends at once, crashed turns, deletion and removal of members meanwhile |
| Turn control (`api/messages_handlers.go`, `api/permissions.go`, `genstream/`, `cache/`) | stop markers, topics, permission epochs, frames and tombstone of a stream | stop, revoke, append, follow | every generation | notices that reach nobody, steps between read and use, goroutines that leave |
| Context compaction (`llm/compaction.go`, `compaction_store.go`) | summary blocks of a conversation | plan, ask the model, store, prune | message tree, lease | a long pause between reading and storing; several branches |
| Compaction lease (`compaction_leases.go`, `llm/orchestrator.go`) | one row per conversation | try to acquire, release | compaction jobs on all replicas | crash, late release, clock differences |
| Job queue (`queue/queue.go`) | bounded channel, workers, two close flags | enqueue, run, close | titles, memory, ingestion, compaction | close racing enqueue, panics, a full buffer |
| Sessions (`auth/`, `refresh_tokens.go`, `misc.go`, `api/auth_handlers.go`, `twofa_handlers.go`, `password_reset.go`, `passkey_handlers.go`) | token version, status, password, second factor; refresh tokens; tickets and links in the cache | sign in, refresh, sign out, change and reset, ban, delete | all requests | a row read long before the write, two redemptions of one token, ticket or link |
| Workspaces (`workspaces.go`, `workspace_policies.go`) | members, policy | remove, return, change the policy | turns | running generations |
| Knowledge bases (`rag/`, `vector/`, `kbs.go`) | documents, vectors, embedding model | ingest, re-embed, delete | queue, retrieval | ingestion against deletion and re-embedding |
| Backup, user deletion, storage | archives, plans, file references | import, delete, clean up | everything | a crash in the middle |
| Providers, tools, MCP, sandbox, mail, HTTP layer, clients | - | calls to the outside, presentation | - | mostly data and I/O |

What makes each part correct, in a sentence: every unit of work is charged once, to its owner, and
never beyond the balance; what was reserved follows the work, into a charge or back; a tier lasts as
long as it was paid for and a paid order is delivered once; at most one worker does a thing that must
be done once, and a crash blocks nobody; what was revoked, deleted or replaced is not served, told or
accepted any more; everything queued, stopped or followed ends.

`PROJECT.json` lists every component with its status, and the hazards with the line where each bites.

## 2. Modules

| Module | Models | Extends / instantiates |
| --- | --- | --- |
| `CreditLedger` | the credit store | |
| `CreditLedgerProofs` | its theorems | `CreditLedger`, TLAPS |
| `Membership` | tiers: administrators, orders, codes, expiry, deletion | |
| `MembershipProofs` | its theorems | `Membership`, TLAPS |
| `PaymentOrders` | one order between buyer, administrator and gateway | instantiates `OrderPromise` |
| `OrderPromise` | what an order promises (abstract) | |
| `PaymentOrdersProofs` | its invariants and the refinement | `PaymentOrders`, TLAPS |
| `UsageBilling` | admission and settlement of calls | |
| `UsageBillingProofs` | its theorems | `UsageBilling`, TLAPS |
| `ConversationTree` | the message tree, its walks and the deletion of a round | |
| `ChatTurns` | the turns of a conversation on all replicas | `ConversationTree` |
| `ConversationProofs` | the theory of the tree, and the theorems of the turns and of the summaries | `ChatTurns`, `ContextCompaction`, TLAPS |
| `ContextCompaction` | summary blocks against a changing tree | `ConversationTree` |
| `TurnControl` | stopping, revoking and following one turn | |
| `CompactionLease` | the compaction lease and its workers | instantiates `ExclusiveTask` |
| `ExclusiveTask` | what a lease promises (abstract) | |
| `BackgroundWorkProofs` | exclusion and refinement of the lease; theorems of the queue and of a turn's control | `CompactionLease`, `JobQueue`, `TurnControl`, TLAPS |
| `JobQueue` | the in-process job runner | |
| `StorageCleanup` | stored bytes, the rows that point at them, deletions, the account's end | |
| `StorageCleanupProofs` | its theorems | `StorageCleanup`, TLAPS |
| `Sessions` | the sessions of an account | |
| `SessionsProofs` | its theorems | `Sessions`, TLAPS |
| `MC*` | the constants of the runs | the module of the same name |

In each module, definitions marked `Mutant:` are not part of the specification. They are wrong
versions of the definition that follows them; with the wrong one in place TLC finds the property
named in `PROJECT.json` violated, which shows that the property depends on that line of the code.
Each module has one type invariant, which a property of its run has as a conjunct. Three modules name
their parts after themselves (`QueueSpec`, `ControlTypeOK`, `CompactionNext` and so on), because one
proof module extends them together with another.

How the parts meet. `ChatTurns` and `ContextCompaction` share the tree and its deletion, each with
the fields it needs. `CompactionLease` decides that one worker at a time plans a summary;
`ContextCompaction` shows what that worker may do to the blocks. `UsageBilling` treats a credit hold
as something granted or refused; `CreditLedger` shows that a granted one can be settled.
`PaymentOrders` counts deliveries; `Membership` shows what a delivery does to a tier. `ChatTurns`
follows many turns by their rows and leases, `TurnControl` one turn by its goroutines.

### CreditLedger

One action is one database transaction. `debitCreditsTx`, `ReserveCredits` and the settlements lock
the user's row (`FOR UPDATE`, or SQLite's write lock after the leading `UPDATE`), so two of them for
one user do not overlap; a refused call rolls back and changes nothing. The operators
`CycleAnchor`, `TimedUsed`, `TimedRemaining`, `Reserved`, `Spendable`, `Available` follow
`creditBalanceFrom` line by line. `DebitCreditsTx` takes the reservation table as the transaction
sees it, because a settlement first marks its own hold `settling` and only then debits; that order
is what `HoldGuaranteesSettlement` is about. `SettleCreditReservationByKey` has its three cases as
three actions. Sums are cardinalities of sets of micro-credits, so no recursive operator is needed
and the sums can be reasoned about in proofs. `granted` is a history variable: what was put into a
balance minus what an administrator took out. `SetUserGroup` stands for every event that starts a
new cycle for a user; when those events happen is the subject of `Membership`.

`MaxMicros` is `math.MaxInt64`: `Spendable` saturates there and `AddPermanentCredits` refuses to
exceed it, as the code does. Not modelled: the conversion of float columns written by old versions,
and notifications. `AddPermanentCredits`' comment speaks of negative balances; `NoOverdraft` shows
that the operations of the store no longer produce one.

### Membership

A user row is `[group, expiresAt, previous, anchor]`; the credit and the quota anchor are always
written alike and are one field. `request` holds what a request has read without a lock:
`maybeExpireGroup` reads the row (`ExpireRead`), looks the fallback up (`ExpireCheck`) and writes
under the condition that the expiry is the one it read (`ExpireWrite`); `SetUserGroup` checks and
then writes; `RedeemCodeForUser` reads the code and its group before it locks the user. Everything
else is one transaction or one statement. `DeleteUserGroup` includes the cascades of the schema.
An order is `open` while `paymentOrderMayStillFulfill` holds, so an administrator's manual close,
which keeps a late payment deliverable, leaves it open. `baseline` is a history variable: the tier a
user was given without an end, at registration, by an administrator or by a code, or the one a finite
code replaced and will fall back to. `rewritten` is another: the users whose elapsed expiry an
administrator wrote once more while a request that had read it was under way. For them the code does
not keep what `TierIsEntitled` says (see the disagreements below), and the property excepts them until
the administrator writes another assignment.

Abstracted: prices, visibility and confirmations are guards that may fail, codes are neither
switched off nor dated (switching off is not checked again under the lock, see the hazards), one
billing cycle length.

### CompactionLease

A worker sets its deadline (`Begin`), tries to take the row, works, and releases on a context of its
own; it may crash after it took the row. `Tick` does not pass the deadline of a working worker: the
context's expiry stops it. `offset` is how far a replica's clock is ahead, at most `Skew`.
`LeaseAssumption` says that the lease's lifetime exceeds the longest work by more than `Skew`.
`effectiveCompactionLeaseTTL` guarantees `ProtectedDuration`, which is `MaxDuration` plus one
minute, so the assumption asks that clocks agree to within a minute. It also fails for an
`AIVORY_API_MAX_GEN_DURATION` so close to the largest duration that `ProtectedDuration` saturates.

### PaymentOrders

One order, because orders share nothing these operations write. Each `Mark...` operator is one
statement of the store with its status condition, `FulfillPaymentOrder` one transaction. A request is
`[kind, at, event]`: what it is for, where it is, and what a reconciliation saw, which it applies in a
later step. Between any two steps callbacks arrive, other requests write, and a request may die
(`RequestDies`: crash, timeout, failing database). The gateway is modelled from what the reconcilers
and webhook parsers distinguish: a session that is open, paid, completed and not yet paid (`pending`),
failed or expired; for Stripe and Waffo it has a time (`late`), and it is closed some time after that.
EPay has no session and nothing to ask, so an administrator's close is local and keeps the order
deliverable. Amounts, currencies and identities match; what happens when they do not is a refusal.

`KeepsOrderPromise` maps an order to `OrderPromise` by `OrderState`: `open` while the status is pending
or processing, `parked` after a manual close, `closed` when failed, expired or cancelled otherwise,
then `delivered` or `gone`. The cases are disjoint, so that the proof may take each on its own. No step
reopens an order and no step delivers one twice.

### UsageBilling

A call is `[at, estimate, actual, daily, row, hold, ...]`: `daily` and `row` are its rows in
`quota_ledger`, `hold` its credit reservation. `reserveUsageBilling` takes the day's tokens
(`ReserveDailyTokens`), reads the quota (`ReadQuota`), reserves from it (`ReserveModelQuota`, which
compares the row with the one read, as the code does under its lock), and asks credits for the rest.
`settleUsageBilling` and the deferred `releaseUsageBilling` follow step by step; every database call
may fail, and the replica may stop. A cost is reserved as all that is left of the window, a count as
one. `NextAnchor` begins a new cycle when the quota or the membership changes, also twice a second.
Sums are cardinalities of sets of units (`Units`, `Total`), as in `CreditLedger`.

### ConversationTree and ChatTurns

The tree is a function from row ids to records; `Path`, `DeepestLeaves` and `RemainingRows` follow
the recursive queries and the loops of the store, rows of one second tie. A turn goes
`admitted -> running -> asked -> streaming -> ending -> ended`, or crashes. `TryAcquire` is the
transaction of `TryAcquireConversationGenerationLease`: it settles stale placeholders, drops expired
leases, and refuses if the user's own answer streams on the path or a lease on the parent is his.
Edits and regenerations take no lease. The question and the placeholder are two transactions; both
check that the user still may write, and the foreign key refuses a placeholder whose question is gone.
`Finished` is the terminal write with its three outcomes. `SetActiveLeaf` may write any
row or, once a round has been deleted, the id of one that is gone: the handler looks the leaf up in a
statement of its own. `Tick` does not pass the lifetime
of a turn, whose context is cancelled after `MaxDuration`; `TurnAssumption` says that a lease outlives
it, which `ProtectedDuration` guarantees.

`OneSendPerParent` is about sends with the same parent. A second send may name the first one's
question as its parent between the two inserts; see the disagreements below.

### ContextCompaction

The content of a message is a version; a block records the versions it was made from. `History`,
`SummarizedFrontier` and `FilterBlocksForPath` are the code's view of a path; `AskForSummary` is planning
and the model call, `Persist` the transaction with its three checks and `InstallReplacement`. Token
budgets only decide how far a cut goes, so any cut the rules allow is taken. Edits and deletions prune
blocks as `pruneSummaryBlocks...` does.

### TurnControl

The handler of a turn is one sequence of steps from the snapshot of the permissions to its deferred
calls; beside it run its listeners, the requests that stop it (marker, then notice, then row), the
writer of permissions (commit, epochs, notice), the change of a workspace policy, and a follower.
`Publish` reaches only who is subscribed. `why` collects what cancelled the context. A listener whose
context has ended may leave without its notice (`Deaf`), as its `select` may choose. `Recheck` is the
comparison after the run. What is streamed is left out, frames are start, delta and end.

### Sessions

One account; a password is the number of the version that set it, a token its id. A request remembers
what it has read (version, password, secret, ticket, link), and each transaction is a step.
`LockLoginSessionUser` is the comparison with the row inside the transaction that saves the token.
Any token that ever was issued may be presented again. The version of an account is bounded, and the
changes by administrators more tightly, so that the user's own changes fit.

### StorageCleanup

One account's containers (conversations and a library), the rows `<<container, path>>` and the paths
that have bytes. A file, its document and an artifact of one conversation over the same bytes are one
row. A deletion is two steps, the transaction up to the paths it queued and its commit, because what
comes in between is the point; `worker.todo` is the list a request or the job has in memory, `ledger`
is `pending_storage_cleanup`. `Check` and `Remove` are two steps under one lock: the count of rows and
the removal. A worker that saw rows leaves the bytes; a deletion then forgets the entry as if they had
been removed, the sweeper keeps it. `DeleteFile` has no entry at all. `Available` is the one connection
of SQLite, which an open transaction keeps; on Postgres transactions overlap and lock what they name
(`Locked`). `owed` is a history variable: the paths whose last row went with a conversation, a project
or the account. Left out: the limit of 100 entries per sweep, sweepers of other replicas, more than one
conversation per batch of the job, vectors, sandboxes, quotas, and the row of a file that survives its
conversation without one (`ON DELETE SET NULL`).

### JobQueue

One ready case of a `select` is one action. A send on the closed channel is a ready case, and
panics. `OverflowDone` and `WorkerDone` are the end of a job by return, error or recovered panic.

## 3. Runs

All bounds are constants of the `.cfg` files. `CHECK_DEADLOCK FALSE` stands in every run, because
every system here may come to rest when the bounded clock, ledger, rows or jobs are used up.

| Run | Instance | States | Shows |
| --- | --- | --- | --- |
| `credit` | 2 users, 2 keys, 2 settings, holds of one second, 2 seconds | 406k | charged once and to the owner, a covered hold can be settled, allowance respected, holds stay covered |
| `membership` | 1 user, 3 groups, 1 order, a finite and a credits code, 2 requests, 3 time units, cycle anchors up to 3 | 1.8M | no bought tier for ever (but for `rewritten`), open orders deliverable, renewals do not shorten, new membership not ended by a stale request |
| `compaction_lease` | 2 workers, 2 conversations, clocks 1 apart | | exclusion, refinement of `ExclusiveTask` |
| `jobqueue` | 4 jobs, 2 workers, buffer 2 | | one place per job, Close returns, queued jobs end |
| `chat_turns` | 2 turns, 2 members, lease of 2, turn of 1, 3 time units | 1.8M | connected tree, claims of live turns, one send per parent, crashes block nobody, streams are backed |
| `context_compaction` | 1 worker, 6 messages, edits of 2, stops and crashes of 2 answers | 214k | summaries current, nothing skipped, streaming answers visible, branches keep theirs |
| `payment_orders` | each gateway, 3 requests | 127k | recorded means delivered, closed with the gateway, EPay charges delivered, refinement of `OrderPromise` |
| `payment_charged` | Stripe, 2 requests | | the finding below |
| `turn_control` | 3 kinds of stop, 2 changes, 1 delta, 2 events from outside | 114k | stops spare the set-up and end the turn, revocations leave nothing, followers are released |
| `sessions` | 2 requests, 2 tokens, a ticket, a link, 2 versions | 2.6M | sessions and sign-ins current, refused for good, passwords not overwritten |
| `usage_billing` | 2 calls, estimates 0, 1, 3, costs 1, 3, 4 quotas, 2 seconds | 3.6M | free use and daily tokens capped, settled is paid, holds follow the work |
| `storage_cleanup` | SQLite, 2 paths, 2 conversations, 1 deletion at a time, a failure, a restart | 651k | no row without bytes, no bytes off every list, what is owed is removed in the end |

Why the bounds are enough. Two holds and two keys give every case of a settlement under another key, a
second user the wrong owner, two seconds with periods 1 and 2 a change within a second, a change after
spending and a hold that outlives a cycle. In `membership` three groups are needed to replace one paid
tier by another above the default one, an order and a code to buy, extend and replace within one
window (a second order would write the row as the first one does), three time units for a window to end
while another runs, two requests for a stale expiry, and three anchors for a user who loses a tier, is
assigned it again and loses it once more; users share only what an administrator deletes, so one is
enough. Two workers with two attempts each
contain a lease that expires, is taken over and released late. Four jobs fill two workers and the
buffer. In `chat_turns` one turn is enough to crash, delete around or revoke, and the second to meet
it; four rows contain a question with two answers, a continuation and a round above it, and three time
units the lifetime of a turn plus that of its lease. Six messages give a branch with two rounds before
the cut and an alternative; one worker, because the lease admits one, and what it does is a plan and a
store between which everything else happens; content of two messages and fate of two answers is
explored, an early and a late one. Three requests contain a checkout overtaken by a resumption and an
administrator. Two events from outside give every pair of stop, revocation, timeout, crash and follower
in `turn_control`, each at every step. Two requests and two tokens give each race of `sessions`; a
second rotation needs a third token but no state that the first does not have. Two calls give the race
for an allowance of one or two; an estimate beyond the allowance, an actual beyond the estimate, a
change within a second and a day's end are all in the instance. In `storage_cleanup` a path shared by
two conversations and a library lets a deletion be the last or not, with forks and the sweeper at each
of its steps; a second path, stored by an upload in flight, meets it; one failed step and one restart,
because after the only failure everything has to be cleaned up by what is left.

Symmetry: the users, keys, workers, requests, turns and tokens of the runs that use it are
interchangeable and the properties of these runs are invariants or action properties that do not tell
them apart. `jobqueue`, `context_compaction`, `payment_orders`, `turn_control` and `storage_cleanup` use
none.

Fairness. `JobQueue`: weak fairness of each worker's loop (the Go scheduler runs a runnable goroutine
and a `select` takes a ready case), of the end of each running job (its context expires after 30
minutes; a job that ignores its context would break this), of the drainer and of the last step of
Close. `PaymentOrders`: weak fairness of the paid callback until it has been acknowledged, because the
handler answers with an error when applying one fails and gateways repeat such callbacks; nobody need
pay, poll or close. `TurnControl`: weak fairness of the handler, the listeners, the requests that have
begun and the follower's loop, all goroutines that run; nobody need stop or change anything, and the
provider may stream for ever, so that a turn ends only through what cancels it. `StorageCleanup`: weak
fairness of uploads, forks, deletions and cleaners that have begun, which are goroutines with bounded
calls, and of the sweeper's ticker; nobody need begin a deletion, a failed job need not be started
again, and a commit of unknown outcome may stay unknown.

### Findings

`payment_charged`: `StripeGateway.ResumeCheckout` reports a session as expired as soon as its time is
up, before it looks whether the session is complete. A buyer who paid by a delayed method and opens
the order again has it marked expired; the paid callback that follows is refused. The comment on the
predicate that refuses it says that it covers every order that can still produce a verified payment.

### Other disagreements met

The modules contain these, and TLC reaches each when the property is stated. No run keeps them; the
properties say what holds beside them.

* `JobQueue`: after Close has closed the jobs channel an `Enqueue` may choose the send and panic;
  the comment (`queue.go:75`) promises to skip silently. A full buffer starts a goroutine per job,
  without bound; the comments (`queue.go:22`, `69`) say bounded, and synchronous.
* `Membership`: a code redeemed on top of a finite tier makes that tier the fallback, and when the
  code's window ends the user has it for good; the fulfilment of orders relies on fallbacks being
  permanent (`payments.go:2000`). A finite code for a tier the user holds for good makes it finite,
  without the confirmation asked for when time is forfeited (`redeem_codes.go:565-568`). A group
  deleted between the check and the write of `maybeExpireGroup` leaves the user in no group
  (`users.go:165-167`). `maybeExpireGroup` recognises the membership it read by its expiry alone
  (`users.go:156-187`), and an assignment may have an expiry that has passed
  (`admin_groups_handlers.go:291`, `user_groups.go:483`): when an administrator writes the elapsed expiry
  once more under a pending request, the request ends the new assignment with the fallback it had looked
  up for the old one, and the user has that tier without an end, where `user_groups.go:480-482` says that
  an assignment downgrades to the default tier. The inductive invariant of `MembershipProofs` did not
  hold of this step, which TLC reaches with three cycle anchors. The audit row that prevents a second redemption of a credits code is deleted
  together with the group the user was in (`schema.sql:389-396`).
* `ChatTurns`: between the two inserts of a turn the user's second send that names the new question
  as its parent is admitted, although its answer is under way (`generation_leases.go:30-34`). A row the
  author had asked to stop stays `stopping` when its turn ends without access.
* `ContextCompaction`: an answer that is being stopped is not spared like one that streams; a block may
  cover it before it is written.
* `TurnControl`: the epochs a snapshot is compared with later are read after the comparison that makes
  it consistent (`permissions.go:175-186`), so a change in between goes unnoticed. The policy of a
  workspace is rechecked periodically but not after the run. A follower of a settled message gets one
  batch of its stream.
* `PaymentOrders`: a checkout request that was overtaken by a resumption and then fails marks the order
  failed while the buyer has a link.
* `StorageCleanup`, with two deletions at once (`AtOnce = 2` and a second deleter): the first of two
  that share a path sees the row of the second and leaves the bytes, but removes the ledger entry both
  rely on (`api/conversation_cleanup.go:26`); when the second fails to remove the bytes or is stopped,
  nothing remembers them, against the comment at `conversation_cleanup.go:11-12`. With
  `Postgres = TRUE`: the deletion of a single file does not wait for a fork that has read its row, and
  the fork commits a copy whose bytes are gone (`store/conversation_fork.go:15-16`); and an upload
  commits between the moment a deletion reads the paths of a conversation and the moment it deletes
  the rows, so that its bytes are on no list (`store/conversation_cleanup.go:10`).
* `UsageBilling`: an overage the balance cannot pay turns a finished answer into an error, and the hold
  of a failed settlement stays until it expires.

## 4. Proofs

Each theorem is proved from the assumptions of its module alone, for any number of users, requests,
rows or turns and any values of the bounds. Where it needs more, the theorem says so in an `ASSUME` of
its own (`StorageCleanupProofs`). Every `...Proofs` module has the same layout: the inductive invariant
with its parts, the lemmas about records and operators, one lemma per action, `StepInv`, and the
theorems. TLC has checked each inductive invariant on the instance of the module's run.

`CreditLedgerProofs`, from `CreditAssumption` and `NoKeyAssumption` only. The inductive invariant
`IInv` (over parts that `CreditLedger` defines) strengthens the properties by what
makes them inductive: every timed row of the ledger belongs to an anchor no later than its user's
current one, and to a cycle no later than the current one under that anchor. Without it a change of
group or of settings could land on an anchor whose rows already add up to more than the new
allowance. The argument:

* lemmas on sums: a sum over ledger rows is a natural number, zero when no row belongs to it, and
  grows by the row's amount, in the sums the row belongs to and in no other (`LedgerSumInserted`);
* `DebitEffect`: what a debit does, whoever calls it; the three settlements and the direct debit
  use it. `ChargeStep` adds that exactly one key becomes settled;
* `NewCycles`: a user keeps anchor, group and settings, or moves to a later anchor, where nothing is
  spent;
* `IInvNext`: one step per action;
* the theorems: `TypeCorrect`, `NeverOverdrawn`, `AllowanceRespected`, `EachKeyChargedOnce`,
  `BalanceExplained` follow from `IInv`; `HoldIsAGuarantee` from it and `OwnHoldFreed`;
  `TerminalIsFinal` and `FreshCycle` are action properties;
* `HoldsCovered` (`HoldsStayCovered`), action by action. A debit is checked against the holds beside
  it, so those fit what it leaves (`DebitCovers`, which the three settlements use with their own hold
  taken out of the table); a new hold is checked against what the others leave (`ReserveCovers`);
  everything else holds no more, has spent no more of the allowance and owns no less than before
  (`CoveredStays`), the passage of time because a cycle that has moved on has no rows yet
  (`TickSpendsNothing`).

`BackgroundWorkProofs`, from `LeaseAssumption` for the lease. `IInv` says that a worker that is busy owns the row
of its conversation, and that the row outlives the worker's deadline on every clock
(`WorkerOwnsLease`); `OneSummaryAtATime` alone is not inductive, since it says nothing about the row.
`BusyRowIsTaken` is the heart: no worker finds the row of a busy one free. `Exclusion` and
`LateReleaseHarmless` follow, and `Implements` maps every step to a start, a stop or a stutter of
`ExclusiveTask`.

The queue, from `QueueAssumption` and `NamesAssumption`. `EachJobInOnePlace` counts the places a job is
in, and a count does not say which of them the next step takes it from. `QueueInv` does: a job is queued
exactly when it is at a position of the channel, and at one only (`QueuedOnce`); it is running exactly
when a worker has it, and one only (`RunBySomeone`); the channel is closed after Close was called and the
last worker has left (`ClosedLast`), so that no worker begins a job afterwards. `OnePlace` follows.

The control of a turn, from `TurnControlAssumption`. `StopSparesSetup` and `RevokedLeavesNothing` speak
of a turn that has ended, and what they say is decided many steps earlier, by goroutines that have not
finished. `ControlInv` says what each of them still owes: the three versions of a permission change move
one after the other (`Versions`); until the answer has its row, no stop of the generation or the message
is among the causes that cancelled the turn (`Spared`); once the handler has settled what came before it
knew the message, a flag of a revocation has had its effect or its listener is still about to have it
(`Revoked`, the heart of it); the stream has one start, its pieces and one end (`Counted`, which bounds
what a follower has seen). `SetupIsSpared`, `NothingIsLeft` and the action property `NoAnswerIsAnnounced`
follow.

`PaymentOrdersProofs`, from `ProviderAssumption`. `RecordedMeansDelivered` says nothing about what a
request in flight believes, so a step that applies what was seen could break it. `IInv` adds that what
is reported has happened (`ReportsAreTrue`), that a Stripe session seen as expired stays so
(`SeenExpired`), that one request alone creates the order and finds an empty gateway (`OneCheckout`),
and that a delivery happened once and for money (`DeliveredOnce`). `PaymentsAreDelivered` and
`ClosedIsClosed` follow. `Implements` is the refinement of `OrderPromise`: initial states map to its
initial state, and every action is a step of the promise or a stutter under `OrderState`, where
`DeliveredOnce` excludes a second delivery.

`SessionsProofs`, from `SessionsAssumption`. A request compares later with the row what it has read
earlier, and `LiveSessionsAreCurrent` holds because that comparison implies the rest. `IInv` says what
each request, ticket and link remembers at each step: if its version is still the present one, so is its
password (`Current`); tokens are of a version so far and of a family that was issued (`TokensAreSound`);
a redeemed ticket is spent, for one request or one family (`TicketsWorkOnce`). From it
`SessionsAreCurrent`, and the action properties `SignInsBeginCurrent`, `RefusalIsFinal` and
`PasswordsAreSeen`, whose steps need the invariant of the state they start from.

`StorageCleanupProofs`, from `StorageAssumption`. `BytesExist` assumes `~Postgres`: with Postgres the
property is false (see the disagreements), because a deletion of a single file waits for nobody. The
invariant `BytesInv` adds that what is in memory on its way to a row has bytes, that a cleaner holds the
lock against uploads, and that what it found without a row gets none until it is done
(`CleanersAreAlone`), which holds because the one connection keeps transactions apart.
`DeletionsRemembered` assumes `AtOnce = 1` besides, for two deletions that share a path do forget it; the
run has the same bound. `LedgerInv` adds that what an open transaction has read is still so
(`OneTransaction`), and that an entry is forgotten only when the bytes are gone or not owed
(`ForgetsInTime`).

`MembershipProofs`, from `MembershipAssumption`. `TierIsEntitled` is not inductive because it does not
say what a request is about to write; `Remembers` does: while the row has the expiry that a pending
request has read, the tier it will write is the default one or `baseline`. The step that breaks this is
the one that makes a user `rewritten`. `TiersAreEntitled` follows, and `RunningSurvives` and `PaidTimeKept` as
action properties.

`ConversationProofs`, from `TurnAssumption` for the turns. The first half is a theory of the tree, which the later steps
only cite. Paths and searches are recursive functions over rounds; `PathIsClosure` shows by induction that
a path is the smallest set of rows that has its end and is closed upwards, so that what a recursive query
returns can be reasoned about as a closed set; `Tree` (no set of rows without a row whose parent is
outside) is kept by insertion, settlement and the deletion of a round (`RemainingRows`), and a tree that
is not empty has a newest root, from which the leaf is found. The second half is the invariant of the
turns: how far a turn is says which of its rows there are and which may stream (`RowsFollow`); a lease
expires one lease's lifetime after its turn began and is that of a turn under way or crashed
(`LeaseFollows`); a turn that relies on its lease has it (`HasLease`). The
clean-up of lapsed leases spares live turns because `TTL > Lifetime`. `Connected`, `ClaimsLast`,
`SendsAreAlone`, `CrashesPass` and `StreamsAreBacked` are the five invariants of the run.

The last part of the module is about the summaries, from `CompactionAssumption`. None of the three
properties of that run is inductive: they say nothing of what a worker holds in memory while the tree
changes under it. The argument:

* paths in a tree whose rows are numbered by age: they go up (`PathGoesUp`), they are lines
  (`PathIsLine`), and what is left of one after a deletion is the path of what is left
  (`DeletionShrinks`), which the reattachment of continuations in `RemainingRows` is for;
* a history is the path by age (`HistoryAscends`), because rank is a bijection on a finite set of numbers
  (`Ranks`), so that the order of messages and the order of positions agree (`Indices`);
* the frontier, which the code computes by extending it until it no longer moves, is the least position
  that no block of the history passes (`FrontierIsLeast`), and the blocks that are rendered reach as far
  as all of them do, without a gap (`FilterCovers`). This needs that no two blocks have the same ends
  (`Distinct`): each of the two would lie inside the other, and neither would be rendered;
* `SummariesSound`, the invariant: a block covers a whole range of the path of its anchor, as it is now
  or as it was before an answer was written (`Sound`); what a worker has read was a path and what remains
  of it still is one, and what it asked for lies between its frontier and its cut, with no answer in
  flight (`SoundJob`);
* one lemma per kind of step: rows that are added or whose status is written leave every path
  (`ChangesKeep`), an edit and a deletion prune what they change (`UpdateKeeps`, `DeleteKeeps`), a plan
  reads what `SoundJob` says (`AskKeepsSummaries`), and the three comparisons of the transaction make what a
  worker brings back sound again (`NewBlockIsSound`), however long it has been away.

`SummariesStayCurrent` and `NothingSkipped` follow. `BranchesKeepSummaries` needs the invariant on both
sides of the step: a branch that loses a block of the path sees the block that replaces it
(`ReplacementIsSeen`; a branch that ends inside the path is the path, since something follows every other
message of it), and that one begins no later and ends no earlier, so the frontier cannot move back
(`ReachedBefore`, `FrontierGrows`).

`UsageBillingProofs`, from `UsageAssumption`. `Sound` says for one call what its rows, its hold and its
promise to pay are at each step of admission and settlement; `SettledPaid` and `HoldsFollow` follow from
it alone. The caps are about many calls: `RowsFollowTheQuota` adds that rows which count in the present
cycle were admitted under the present limit, because every change of the quota moves the anchor past them.
Without it a reservation that fits the new limit could exceed the limit an older row of that window was
admitted under. Two lemmas on sums do the rest: one sum covers another if it does so call by call
(`TotalCovered`), and a sum grows by no more than the one amount that is not covered (`TotalGrows`). Most
actions settle, release or leave alone the rows (`Lessens`, `LesserStep`); `ReserveDailyTokens` and
`ReserveModelQuota` are the two that add one, and `NewCycle` and `TickKeeps` the two that change what
counts. `FreeUseCapped` and `DailyTokensCapped` are conjuncts of the invariant.

`ReleaseKeepsOthers`, `NoOverdraft`, `LedgerExplainsBalance`, `TerminalRowsFrozen`, `NewCycleIsFresh`
and the type invariants of `CreditLedger` and `CompactionLease` are proved for all constants and no run
repeats them.

Every safety property of a passing run, invariant or action property, is thus a theorem. Model-checked
only are the six liveness properties (`CloseReturns`, `QueuedJobEnds`,
`EPayChargeIsDelivered`, `CancelledTurnEnds`, `FollowerIsReleased`, `OrphansAreRemoved`): liveness under
fairness is out of the prover's reach, as is `ENABLED`. The induction theorems of the library take an operator as a parameter
and cannot be used; the induction over natural numbers that the tree needs is derived from the existence
of a smallest element (`Smallest` and `Induction` in `ConversationProofs`), with the claim given as the set
of numbers it holds for. None of the modules declares a recursive operator: the walks over the tree are recursive
functions.

## 5. Not modelled, and the plan

Next, in this order:

1. The revocation of knowledge bases in `TurnControl`, and several followers.
2. The life cycle of vectors across re-embedding; the commit protocol of an import; workspaces and
   the transfer of their resources when a member's account is deleted; a lock-level model of the
   credit store on Postgres.
3. OAuth sign-in and the desktop's tokens beside `Sessions`.

Not planned: provider protocols, prompts, retrieval quality, parsing, mail, the sandbox's container
management, the clients. They are data, I/O or presentation, and a model of them would say nothing
that a test does not; together they are most of the repository's lines. Row-level locking of Postgres
(which row is locked first, what an unlocked join sees after a wait) is below the level of these
modules; a hazard notes where it matters.
