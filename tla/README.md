# Code server: TLA+ specifications, model checking and proofs

The Code server holds no keys of its users. A client signs every transaction of an
intent (a payment, a gift card, a privacy upgrade) in advance, on durable nonces that
the server lends; the server stores them, decides when each may be submitted to Solana,
and settles nonces, commitments and balances when the blockchain answers. The modules
here describe the parts where several of its processes meet on one piece of state.

Paths are relative to `src/pkg/code/` unless they start with `src/`.

## 1. The system

### 1.1 Components

| Component | State it keeps | Operations | What makes it correct |
|---|---|---|---|
| nonce pool (`async/nonce`, `transaction/nonce.go`, `data/nonce`) | nonce records: state, signature, blockhash; in memory, selected nonces and two kinds of lock | create an account, broadcast, mark released, available or invalid; select, select for an upgrade, sign, release, unlock | an available nonce has the account's present blockhash and no live transaction; a reserved one belongs to somebody who gives it back |
| sequencer worker (`async/sequencer/worker.go`, `utils.go`) | state of a fulfillment, its signature and nonce | submit, revoke, settle as confirmed or failed, make a transaction on demand | a transaction that executed is settled; a fulfillment that may be submitted stays executable |
| scheduler and fulfillment handlers (`scheduler.go`, `fulfillment_handler.go`, `commitment.go`) | the active scheduling flag; the treasury lock | `CanSubmitToBlockchain`, `OnSuccess`, `OnFailure`, `IsRevoked` for each fulfillment type | transfers in order, treasury not overdrawn, vault open while something may be sent to it |
| action and intent handlers (`action_handler.go`, `intent_handler.go` of the sequencer) | states of actions and intents | follow their fulfillments; wake the ones that are not actively scheduled | final states agree with the fulfillments; nothing sleeps for ever |
| commitment worker and store (`async/commitment`, `data/commitment`) | commitment: state, diverted vault, repaid | open, close and collect a vault; mark as repaid; privacy upgrade deadline | repaid means the money is back; no vault closes under a transfer; a record only moves forward |
| privacy upgrade (`server/grpc/transaction/v2/proof.go`) | a cached merkle tree per treasury | select the vault a repayment is diverted to, prove it | the vault selected is not closed before the transfer arrives |
| treasury worker, merkle tree (`async/treasury`, `data/merkletree`, `src/pkg/merkletree`) | recent roots, leaves | collect advances, save a recent root, sync the tree | the tree is a prefix of the one on the blockchain; a root stays in the pool's history until the last advance that names it executed |
| SubmitIntent (`server/grpc/transaction/v2/intent.go`, intent and action handlers, local simulation, `antispam`) | four striped locks; intents, actions, accounts | create or upgrade an intent in one bidirectional stream | one step to its clients: no overdraft, no double claim, every request answered |
| gift card auto-return (`async/account`) | the scheduling order of a close transaction | return an unclaimed card to its issuer | claimed or returned, never both or neither |
| geyser listener (`async/geyser`, `chat`) | chat messages, badge counts, external deposits, the sync flag of an account; in memory, caches and a checkpoint | handle an update, two backups over the history, timelock states | an external fact reaches the stores, whatever Geyser drops, and counts once |
| webhooks (`async/webhook`, `webhook`) | webhook record: state, attempts, next attempt | set up the next attempt, execute, record the result | as many attempts as the table has; a success is not tried again |
| messaging (`server/grpc/messaging`) | open streams in memory, rendezvous records, stored messages | open a stream, send, forward to the server that has the stream, acknowledge | a message is delivered or stays stored |
| cache (`src/pkg/cache`) | a list, a map and a weight | insert, retrieve, evict | the three agree; the weight stays in the budget |
| stores (`data/*`) | SQL tables | upserts; only the commitment's has a guard on old and new values | what each worker assumes of its reads |

`PROJECT.json` lists them with their files, and also the parts not modelled at all.

### 1.2 How they interact

A client opens a `SubmitIntent` stream. The handler takes its locks (intent, owner, phone,
the payee, a gift card), validates the intent against the stores, selects a nonce for every
transaction the client has to sign, sends the parameters, waits for the signatures, and
saves intent, actions, fulfillments, accounts, commitments and nonce signatures in one DB
transaction. From then on only workers act, each polling the stores by state: the
sequencer submits fulfillments when their handler agrees, and calls back fulfillment,
action and intent handlers when a transaction is final; the commitment worker opens and
closes vaults by adding fulfillments; the treasury worker saves recent roots through
fulfillments of its own; the nonce worker recycles what a settled fulfillment released.
No component calls another one's worker: they share records, and several goroutines of
each poll the same tables. All locks are in the memory of one process and none survives a
restart.

### 1.3 What is hard

* Records are read, kept in memory over a network call, and written back whole.
* One event takes several writes without a DB transaction; a retry starts from the first.
* Two signed transactions may exist for one payment; only a shared durable nonce keeps
  one of them from executing.
* Deadlines stand in for locks between processes: ten minutes for the age of a cached
  tree, an upgrade deadline against the RPC's timeout.
* Waits can be circular: owners' locks, or treasury funds against recent roots.

`hazards` in `PROJECT.json` names each at its line, with the properties about it.

## 2. Plan

| # | Modules | Contents | State |
|---|---|---|---|
| 1 | `NoncePool`, `NoncePoolProofs` | nonces from creation to reuse, sessions, upgrades, crashes | done; every invariant proved |
| 2 | `Commitment`, `CommitmentProofs` | commitment worker, treasury funds, upgrades | done; every invariant proved |
| 3 | `SubmitIntent`, `IntentLedger`, `SubmitIntentProofs` | locks, validation and commit; refinement of an atomic ledger | done; every invariant and the refinement proved |
| 4 | `Sequencer`, `SequencerProofs` | scheduler and handlers of the fulfillments that open, move and close accounts; actions, intents and their wake-ups; circuit breakers | done; every invariant proved |
| 5 | `GiftCard`, `GiftCardProofs` | on top of 4: claim against auto-return, with the four writes and a restart | done; every invariant proved, and those of 4 with it |
| 6 | `Treasury`, `TreasuryProofs` | recent roots, collected advances, order of leaves, half a sync | done; every invariant proved |
| 7 | `Messaging`, `Webhook`, `WebhookProofs` | streams of one key on several servers; overlapping attempts | done; every invariant proved |
| 8 | `Geyser`, `GeyserProofs` | updates, backups, deposits, chat and badge counts | done; every invariant proved |

Every invariant that a run checks is now a theorem too; what only TLC checks is the liveness.

The in-memory cache of `src/pkg/cache` was planned and left out: one lock is held for the
whole body of each operation, so that it is sequential code.

How the modules compose: `GiftCard` extends `Sequencer` and adds the claim and the return;
`Webhook` extends `Messaging`, since an intent and each call are announced by a message;
`SubmitIntent` implements `IntentLedger`. `NoncePool`, `Commitment` and `Treasury` each look
at the sequencer from one side: what it does to a nonce, to a commitment, to a recent root.

## 3. The modules

Each component has a module, an `MC` module that gives its constants values for TLC, and a
`Proofs` module. Every definition that stands for code is in `map` of `PROJECT.json` with
its lines. Type correctness is proved for each of them (section 5); `gift_card` and `geyser`
check it too. Payloads are left out throughout: a signature is the thing it signs, a
transaction is its fulfillment, quarks are small numbers.

### 3.1 NoncePool

State: the nonce store (`nState`, `nSig`, `nBh`), the part of the fulfillment store that
refers to it (`fState`, `fNonce`, `fBh`), the blockchain (`tx`, `chainBh`), the
`SelectedNonce` structs in memory (`sel`, `selBh`, `selSig`), the global selection lock
(`pick`), the sessions that hold nonces (`phase`), and how far the sequencer got with a
fulfillment (`work`). A blockhash is the number of times the nonce account advanced.

Actions follow the code's order of writes. `PickNonce` and `ReserveNonce` are the two
halves of `SelectAvailableNonce`, before and after the lock of the nonce. `Commit` is the
DB transaction of a session, `CommitFails` its rollback after any subset of the signatures
was set in memory, `Release` the deferred `ReleaseIfNotReserved` and `Unlock`.
`ReturnNonce` then `MarkRevoked`, and `ReleaseNonce` then `FinishFulfillment`, are the two
writes of `markFulfillmentRevoked`, `markFulfillmentConfirmed` and
`markFulfillmentFailed`; `WriteFails` and `Crash` may come between them. `MarkInvalid` may
happen to any unconfirmed nonce, because `checkForMissingTx` looks at the clock first.
A transaction the sequencer makes itself is saved before it is sent, so a crash leaves it
without one and it is made again. `MaxFails` and `MaxCrashes` bound faults;
`AllowUnlock` says whether a timelock may leave the server's management during an upgrade.

| Run | Checks | Shows |
|---|---|---|
| `nonce_pool` | `NoFulfillmentStranded`, `ReservedIsAccountedFor`, `ExecutedIsSettled` | two nonces shared by a private payment, its upgrade and a gift card close, without faults |
| `nonce_faults` | `AvailableIsFresh`, `UpgradeIsExclusive` | the same with a failed write, a restart and a deadline that moves |
| `nonce_serve` | `OnDemandIsServed` | the sequencer's own transactions get nonces of their purpose, whatever clients hold |

Two nonces are enough for a nonce to pass from a revoked fulfillment to another session
while the other one is shared by an upgrade; three fulfillments are the smallest set in
which one is upgraded and one is revoked.

Fairness. `SequencerFairness` is weak fairness of settling a fulfillment: the worker polls
every pending record again and again (`worker.go:27-80`). `OnDemandIsServed` also needs the
blockchain to execute what is re-sent on every poll, the nonce worker to recheck released
nonces, and strong fairness of selecting a nonce and committing it, because another
session may take the last nonce before the poll comes: with two fulfillments and one
nonce, each failed attempt of one is a success of the other.

### 3.2 Commitment

State: the commitment store (`com`, `root`), the five fulfillments of each commitment
(`ful`, `awake`), the blockchain (`outcome`, and `ledger`, the advances in the order they
executed), the merkle tree of the database as a prefix of `ledger` (`savedRoot`, `synced`,
`aged`), the upgrade RPCs (`target`, `draft`), the sequencer's steps between two writes
(`reserving`, `decided`, `succeeded`) and the record each worker iteration holds (`work`).

The worker keeps the record of its batch in `work[c].record` and decides on it, as the
code does, while `com` changes; `maybeMarkTreasuryAsRepaid` and the mark functions read
again, check, and save. `Save` goes through the guard of the store's upsert. An upgrade
selects from a tree that may be a minute old, reads the commitment, and saves it. Time
appears as three facts: how many leaves are ten minutes old, which deadlines passed, and
that an RPC is over before either of them outruns it; a timelock that is unlocked is
exempt. The proof, the initialisation and the opening of a vault are one fulfillment, and
wake-ups between the advance and its treasury worker are left out.

| Run | Checks | Shows |
|---|---|---|
| `commitment` | `RepaidIsReal`, `TransferHasVault`, `NothingDivertedToClosing`, `RecordMovesForward` | three vaults opened, repaid, closed and collected, with an upgrade, an unlocked timelock and a failed transaction |
| `commitment_treasury` | `TreasuryNeverOverdrawn` | advances that compete for two quarks, with two fulfillments in hand and a restart |
| `commitment_scarce` | `EveryAdvanceRepaid` | every advance is repaid when funds are short |

Three payments are the least in which one vault receives a diverted repayment, a later
leaf lets it close, and a third payment keeps the tree growing. `WorkerBatch` and
`SequencerBatch` bound how many records are between a read and a write at once; the order
in which records get there is free.

`EveryAdvanceRepaid` excludes two endings, both in the code: the vault of the newest leaf
waits for the next payment (`shouldCloseCommitmentVault` wants a next leaf), and the
circular wait `FundsWaitForRoot`, in which a recent root waits for an advance without
funds and the funds for that root; the treasury's threshold of available funds makes it
unlikely and nothing rules it out.

Fairness. `Progress` never undoes itself, so weak fairness of the union is fairness of
each part. The clock and the worker get strong fairness: an RPC that is open or another
record in the batch disables them for a while only.

### 3.3 SubmitIntent and IntentLedger

State: per request where the handler is (`pc`), the stripes it holds (`held`) and what the
client named when it sent the request (`named`, `quarks`); the database as `accepted`
requests with the balances, latest accounts and usage counts they add up to.

`Allow` is the validation, `Sign` the client round trip, `Commit` the DB transaction;
between them other handlers run. A lock is a stripe, so two owners may share one. `Fail`
is every early return; the deferred unlocks are one action because nothing is read between
them. Left out: the shape of the action list, which depends on the request alone, fees,
and withdrawals to accounts outside of Code. The code does not check that shape for every
private payment: `intent_handler.go:729-733` returns early, without an error, when there is a
payment request that matches, and the later checks of what the actions open, close and move
are skipped. The destination and the funds, which `SubmitIntent` models, are checked before;
the action list is taken to be the one the client builds for its kind of intent.
A claim of a gift card that was returned is in `GiftCard`.

`IntentLedger` is the promise: an intent is accepted or not in one step, on what is true
then. `IsAtomic` states that `SubmitIntent` implements it, with an owner's wallet as the sum
of its primary account and its buckets.

| Run | Checks | Shows |
|---|---|---|
| `submit_intent` | `NoOverdraft`, `NoPaymentToClosedAccount`, `IncomingIsUsedSparingly`, `IsAtomic`, `EveryRequestEnds` | any three of fifteen requests at a time, retries and two claims of one card among them, two owners on one stripe |
| `submit_deadlock` | `EveryRequestEnds` (violated) | the finding of section 4 |

Three requests at a time are enough for two that compete and one that changes what both
have read; all triples of the table are explored. The purse holds one quark, so that a
second payment overdraws it. Fairness asks only that some handler which can move does.

### 3.4 Sequencer and GiftCard

State of `Sequencer`: intents, actions and fulfillments with their states (`intentState`,
`actionState`, `ful`), which fulfillments are polled (`awake`), the timelock record of each
account, the commitments as far as an advance brings them, payment records, and the
blockchain: `outcome` of a transaction, whether an account exists and what is in it. `step`
is where the pending worker is between the writes of one settlement, `noticed` what the
circuit breakers have counted.

`SubmitIntent(i)` is the commit of an intent that `LocalSimulation` and its intent handler
allow: action by action, no account is in the red and one that is closed is empty at the end
(`Funded`); an account is opened before it is used (`Known`) and once (`OpensNew`), and not
used after it is closed (`KeepsClosed`). The last is said here of all intents together, and how
the server comes to it when requests overlap is the subject of `SubmitIntent`. `Schedule` and
`Postpone` are a poll of the worker that the handler's `CanSubmitToBlockchain` and the
breakers let through or not: `Before` is the order by intent, action and fulfillment that
`SubmitIntent` gives, and `CanInitialize` and `CanSubmit` the conditions of each handler
over it. `UpdateAction`, `UpdateIntent`, `OnSuccess` and `Settle` are the four steps of
settling, each followed by a possible `Interrupt` that starts again from the first;
`UpdateIntent` contains the wake-ups of what is not polled. `Execute` is external: a
transaction fails when an account it needs is not there or funds are short, and reports
`short` when a withdrawal finds less than it was meant to move. `Fault` fails a
transaction for a reason of its own. `ObserveVault` is the Geyser update of a timelock
account, which may come before the sequencer's own write.

`GiftCard` adds the age of the card, the claim between its validation and its commit under
the card's lock, and the worker that returns it: `CheckGiftCard`, then the writes
`InsertHistory`, `Presort`, `ScheduleReturn`, `Activate` and `CompleteCheck`, with
`AbandonReturn` for an error or a restart between any two.

| Run | Checks | Shows |
|---|---|---|
| `gift_card` | `GiftTypeOK`, `NoTransactionFails`, `ConfirmedIsSettled`, `IntentsAreCurrent`, `OneWayOut`, `EveryPaymentSettles` | a card from its issue to its claim by one of two claimers or its return, with the sequencer that executes it |

Six intents with thirteen fulfillments are the least that has every type of fulfillment: a
card that is issued out of a temporary account, claimed by an owner who receives it
privately or by a peer, and a public payment that needs what is returned. The worker holds
two fulfillments at a time, enough for two actions of one intent to be settled at once.
The advance may be interrupted, because its settlement is the longest, and the public payment
may fail, because that is what the breakers count; with more of either the state space is
too large.
Fairness: `Progress` is the union of steps that bring a fulfillment forward and none of
which is undone, so that its weak fairness is that of each worker, which polls again and
again; then the return worker, the clock, and the end of a claim. Liveness is claimed when
interruptions stop, and excludes what section 4 says of an advance that was overtaken.

### 3.5 Treasury

State: on the blockchain the `leaves` of the pool and the number of leaves under each root
of its history (`roots`), with the block of each advance; in the database the advances, the
save intents, the pool's record (`record`, the root it names), the `tree`; and `pc`, what the
worker does next. The tree only grows, so that a root is a number of leaves.

`Sign` and `Submit` are the two ends of a `SubmitIntent` that names a root. The sequencer's
part is `Schedule`, `Execute`, `SavePayment` and `Confirm` of an advance and the same of a
save, whose `earlier` are the advances it waits for. The worker's pass is
`UpdateAccountState` (from a node that may be behind), `SyncMerkleTree`, `AddLeaf`,
`MaybeSaveRecentRoot`, `CreateSave`, `OpenFloodGates`; `Abort` leaves it anywhere in between.
`PaymentsToAdd` is the search the code does: by block range, and inside of the first and the
last block by the place of the last leaf and of the save.

| Run | Checks | Shows |
|---|---|---|
| `treasury` | `TreeIsThatOfPool`, `RootsDiffer`, `RootsAreKnown`, `EveryAdvanceIsProvable` | two collected advances and one bypass, three saves, several transactions per block |

A history of two roots is the shortest the assumption allows when no save is created
during a `SubmitIntent` (`RootsPerRPC` = 0), so that one save too many forgets a root; the
proof is for any longer one. Gaps of 0 and 2 slots give advances and saves in one block, in
the next and apart. Fairness: the sequencer and the worker poll, an RPC ends, collecting
times out, and a node is up to date now and then: strong fairness, as a pass enables and
disables it.

### 3.6 Messaging and Webhook

State of `Messaging`, for one rendezvous key: stored messages and the rendezvous record in
the database, the map of streams and the key's lock of each server, and of each stream its
phase, its channel, what its flush has still to notify and whether the flush failed
(`abandoned`). `Register`, `Announce`, `Flush`, `FlushOne`, `FlushFails`, `Deliver`, `End`,
`Unregister` and `CleanUp` follow one stream through the RPC; `CreateMessage`, `Route`, `Forward`
and `CommitMessage` follow one message. `StopServer` loses what a server has in memory. The
lookup in the map and the notification after it are one step, and the `AirdropReceived`
messages, which the delivery loop of `OpenMessageStream` skips (`server.go:504-507`), are left
out.

`earlier` is a history variable: the stored messages whose sender had read the record, or was
done, when the stream saved it. `NoMessageMissed` needs it to tell apart what forwarding
answers for and what the flush does. A message that is routed later reaches the stream
whatever becomes of its flush; an earlier one reaches it unless the flush fails.

`Webhook` is the record with its attempts. `Poll`, `SetupNextAttempt` and, for each attempt
on its own, `Call`, `AnnounceCall`, `Announced` and `OnWebhookExecuted` are the steps of the
worker; `UpdateRecord` merges into the record read again under the local lock. A webhook is
registered by one RPC and made pending by the DB transaction of another.

| Run | Checks | Shows |
|---|---|---|
| `notification` | `NoMessageMissed`, `ConfirmedIsAnnounced`, `FailedIsExhausted`, `NoAttemptTwice`, `ConfirmedStays`, `EveryStreamGetsItsTurn`, `EveryWebhookEnds` | three streams on two servers, and a webhook with overlapping attempts, a fault, a stop |

`EveryStreamGetsItsTurn` and `EveryWebhookEnds` say that from some time on no stream waits and
the webhook is at its end. Nothing waits twice and no webhook leaves its end, so that this is
what leading from each wait to its end comes to.

Four sets of participants: three streams on two servers are the least in which one waits
for another and a third takes the record; a channel of one message fills with the second;
three delays are two attempts and the unused last entry of `attemptToDelay`. Fairness: time
passes, the worker polls, and a stream ends after at most fifteen minutes and cleans up.

### 3.7 Geyser

State: the chain with what is finalized of it, chat messages, badge counts and pushes,
deposit intents and credited deposits, the account's sync flag with what was on the chain
when it was set (`due`), caches and checkpoint in memory, and where each process is.

Workers handle any update at any time or none at all: Geyser may drop, delay and repeat.
`PutChatMessage`, `AddToBadgeCount`, `PushMessage` and `LookUpDeposit`, `SaveIntent`,
`TellOfDeposit`, `SaveExternalDeposit` are the separate writes of the two kinds, by a worker
or by a backup, in any interleaving. `Find`, `Take`, `EndMessages` and `EndDeposits` are a pass of
a backup over the newest transactions of a history (`Newest`), of which `todo` keeps the places;
messages are taken from the oldest on, deposits from the newest. `Fail` is an error at any store call,
`GiveUp` a third party that does not answer, `Restart` the loss of caches and checkpoint.

| Run | Checks | Shows |
|---|---|---|
| `geyser` | `GeyserTypeOK`, `CountedOnce`, `CreditIsShown`, `SyncedIsCredited`, `EveryMessageIsStored`, `EveryDepositIsCredited` | two or three transactions, a worker and both backups, an error and a restart |

Two transactions of one kind are the least in which one fails after another succeeded, and
the third one goes beyond what a backup takes from a history (`MaxFound`). Fairness:
transactions are finalized, a client asks for its accounts again and again, the backups
run; nothing is assumed of Geyser, as the comment at `async/geyser/backup.go:16-20` says.
`EveryMessageIsStored` speaks of a process that meets no error after its last start, because
of the checkpoint of section 4.

## 4. Findings

`submit_deadlock` shows a circular wait. `server/grpc/transaction/v2/intent.go:363`: two owners
who pay each other at the same time wait for each other's lock for ever, and so does every
later request of theirs; `transaction/nonce.go:28` rules out striped locks for nonces because
of just that.

What follows was met while modelling. The models have this behaviour (but for what is said
to be outside of them), and the properties are stated so that they hold with it.

Nonces, commitments, limits:

* `async/sequencer/worker.go:194`: settling a fulfillment saves the nonce as released and
  then the fulfillment. If the second write fails, the retry finds the nonce no longer
  reserved and returns an error every time; the fulfillment stays pending.
* `transaction/nonce.go:211`: the signature is set in memory before it is saved. A rollback
  leaves a signed record in memory, which the deferred release takes for a reservation to
  keep: the nonce stays reserved without a fulfillment.
* `async/treasury/recent_root.go:192`: an error between the selection of a nonce and the save
  unlocks the nonce and does not release it; it stays reserved, as after a restart
  (`transaction/nonce.go:54-57` leaves it to the caller).
* `async/sequencer/commitment.go:43`: `OnSuccess` of an advance that is tried again after the
  commitment moved on refuses it each time: the advance stays pending and the payment is
  never confirmed (`Overtaken` in `Sequencer`).
* `server/grpc/transaction/v2/intent.go:408`: two owners with one phone number both pass the
  lifetime limit, because its lock is released before either is saved.
* `async/sequencer/scheduler.go:137-190`: the circuit breakers count failures before the
  handler's own check, which may take long; a failure in between is noticed late.

Gift cards and treasury:

* The auto-return tried again after the return executed is refused by
  `scheduleCloseDormantAccountAction` each time: `RequiresAutoReturnCheck` stays set, and the
  card stays at the head of the queue of the ten oldest.
* `async/treasury/recent_root.go:365`: an advance that is not collected and executes in the
  block of the last save, or the next one, is outside of the exclusive bound, so that it does
  not count as new (the comment at `:107` says otherwise); its leaf waits for later ones
  (`Overlooked`).
* `server/grpc/transaction/v2/proof.go:132-134` relies on recent roots that grow with the
  leaves; an advance held back may name an older root than one executed before it.

Messages and webhooks:

* `server/grpc/micropayment/server.go:135`: a webhook registered while its intent commits is
  never made pending.
* `server/grpc/transaction/v2/intent.go:913`: the message of an intent is forwarded before the
  DB transaction commits. A client may hear of an intent that is rolled back, and a stream
  that opens in between misses the message; `NoMessageMissed` excludes it.
* `server/grpc/messaging/server.go:854-867`: when the query of a flush fails, or a message
  cannot be unmarshalled, the flush is over. The stream stays open, nothing flushes it again, and
  the client does not hear of the messages saved before, unless it polls or opens another
  stream. The comment at `:649-651` relies on the flush without this reservation.
  `NoMessageMissed` makes it: it names the messages and the streams (`abandoned`) for which
  the flush was all there is.
* A stream on another server takes or deletes the rendezvous record by its key (the comments
  there miss a distributed lock); a stream without keep-alive lives longer than its record
  counts as fresh. `NoMessageMissed` excludes streams that this has happened to.
* `async/webhook/worker.go`: a webhook that is confirmed between a poll and the set-up of the
  next attempt is called once more, and the branch for the last attempt is never reached,
  since the record fails one attempt earlier.

Geyser:

* `async/geyser/messenger.go:221-230`: the checkpoint is the address of the loop variable. When
  one message of a pass fails after another succeeded, it moves past both, and only a
  restart finds the message again, although `backup.go:16-20` counts on the backup.
* A message that is stored when its badge count fails is never counted nor pushed, because
  the next try finds it stored.
* `server/grpc/account/server.go:130-133` against `external_deposit.go:297`: a request for a
  sync is lost when a pass that has not seen the deposit clears the flag; the client has to
  ask again.
* A deposit handled by a worker and the backup at once is credited once and may be pushed
  twice.

## 5. Proofs

TLAPS checks the following for every value of the constants that satisfies the modules'
assumptions:

* `NonceKinds`, `FulfillmentKinds`, `SessionKinds`, `Vaults`, `RequestShape`, `TreasurySets`,
  `Records`, `FulfillmentsOfAction`, `AccountSets`, `GiftCardRecords`, `MessagingSets`,
  `WebhookSets`, `GeyserSets`: disjoint kinds of records, and sessions, actions and
  fulfillments related as in the code;
* `Bounds`, `Amounts`, `SequencerBounds`, `GeyserBounds`: natural numbers as bounds and amounts;
* `TreasuryBounds`: a history list that is longer by two than the number of roots one
  `SubmitIntent` spans;
* `OneOfEachType`, `OpenedAndClosed`, `SomeDecide`: an action has one fulfillment of a type,
  what is opened or closed is a user account, and each of finitely many intents has an
  action that decides its state, which is how `SubmitIntent` creates them;
* `ThroughTreasury`: an advance is from the treasury and its temporary transfer to the vault of
  the commitment, and what is withdrawn leaves the account;
* `GiftIssued`: the intent that issues a gift card opens it and pays into it, nothing but claims
  uses it later, the quantity that is returned is that of the intent, and it goes to an account
  that is never closed, the primary one (`validateGiftCardAccountOpened`,
  `scheduleCloseDormantAccountAction`);
* `Funded`: the advances `Commitment` starts from did not exceed the funds.

| Theorem | States |
|---|---|
| `NoncePoolProofs!TypeCorrect` | `Spec => []TypeOK` |
| `NoncePoolProofs!UpgradeExclusive` | `Spec => []UpgradeIsExclusive` |
| `NoncePoolProofs!AvailableFresh` | `Spec => []AvailableIsFresh` |
| `NoncePoolProofs!NothingStranded` | `~AllowUnlock => (Spec => []NoFulfillmentStranded)` |
| `NoncePoolProofs!ReservedHeld` | `NoLeaks => (Spec => []ReservedIsAccountedFor)` |
| `CommitmentProofs!TypeCorrect` | `Spec => []TypeOK` |
| `CommitmentProofs!MovesForward` | `Spec => RecordMovesForward` |
| `CommitmentProofs!RepaidReal` | `Spec => []RepaidIsReal` |
| `CommitmentProofs!TransferArrives` | `Spec => []TransferHasVault` |
| `CommitmentProofs!DivertedInTime` | `Spec => []NothingDivertedToClosing` |
| `CommitmentProofs!DeficitCovers` | every advance that is out and not returned is counted by the deficit |
| `CommitmentProofs!NeverOverdrawn` | `Spec => []TreasuryNeverOverdrawn` |
| `SubmitIntentProofs!TypeCorrect` | `Spec => []TypeOK` |
| `SubmitIntentProofs!LedgerSafe` | `Spec => []NoOverdraft` |
| `SubmitIntentProofs!OpenAccountsPaid` | `Spec => []NoPaymentToClosedAccount` |
| `SubmitIntentProofs!IncomingUsedSparingly` | `Spec => []IncomingIsUsedSparingly` |
| `SubmitIntentProofs!Atomic` | `Spec => IsAtomic` |
| `SequencerProofs!ConfirmedSettled` | `Spec => []ConfirmedIsSettled` |
| `SequencerProofs!IntentsCurrent` | `Spec => []IntentsAreCurrent` |
| `SequencerProofs!InOrder` | `Spec => []ExecutesInOrder` |
| `SequencerProofs!AccountsThere` | `Spec => []AccountsExist` |
| `SequencerProofs!NothingFails` | `Spec => []NoTransactionFails` |
| `GiftCardProofs!GiftTypeCorrect` | `GiftSpec => []GiftTypeOK` |
| `GiftCardProofs!ClaimedOrReturned` | `GiftSpec => []OneWayOut` |
| `GiftCardProofs!GiftConfirmedSettled` | `GiftSpec => []ConfirmedIsSettled` |
| `GiftCardProofs!GiftIntentsCurrent` | `GiftSpec => []IntentsAreCurrent` |
| `GiftCardProofs!GiftInOrder` | `GiftSpec => []ExecutesInOrder` |
| `GiftCardProofs!GiftAccountsThere` | `GiftSpec => []AccountsExist` |
| `GiftCardProofs!GiftNothingFails` | `GiftSpec => []NoTransactionFails` |
| `TreasuryProofs!TypeCorrect` | `Spec => []TypeOK` |
| `TreasuryProofs!TreeFollows` | `Spec => []TreeIsThatOfPool` |
| `TreasuryProofs!RootsInTime` | `Spec => []RootsAreKnown` |
| `TreasuryProofs!RootsGrow` | `Spec => []RootsDiffer` |
| `WebhookProofs!TypeCorrect` | `Spec => []TypeOK` (of `Messaging` too) |
| `WebhookProofs!NotTwice` | `Spec => []NoAttemptTwice` |
| `WebhookProofs!FailedExhausted` | `Spec => []FailedIsExhausted` |
| `WebhookProofs!ConfirmedAnnounced` | `Spec => []ConfirmedIsAnnounced` |
| `WebhookProofs!ConfirmedForGood` | `Spec => ConfirmedStays` |
| `WebhookProofs!MessagesReachTheStream` | `Spec => []NoMessageMissed` |
| `GeyserProofs!TypeCorrect` | `Spec => []GeyserTypeOK` |
| `GeyserProofs!MessagesCountedOnce` | `Spec => []CountedOnce` |
| `GeyserProofs!CreditsAreShown` | `Spec => []CreditIsShown` |
| `GeyserProofs!SyncedDepositsAreCredited` | `Spec => []SyncedIsCredited` |

**NoncePool.** Exclusiveness follows from two parts: an upgrade's nonce and blockhash are
those of the transfer it replaces (`SharedInv`), and a transaction that executed used its
blockhash up (`ChainInv`). Freshness needs all of `NonceInv`. An available nonce is fresh
because whoever releases it holds it unsigned (`SelectInv`), or because its revoked
fulfillment is the one it is reserved for (`MatchInv`), so no other live transaction has
its blockhash; the sequencer's copies of what it read stay true until it writes
(`WorkInv`); the store's blockhash is never ahead of the account's (`BlockhashInv`). An
upgrade takes no part in this: it never holds a nonce that is unsigned in its memory, so that
freshness holds also when a timelock is unlocked while an upgrade is open.

`NoFulfillmentStranded` does not, and is proved for `~AllowUnlock`: then a transfer is not
upgraded once it may be submitted (`DeadlineInv`), the nonce of an upgrade is that of the
transfer until it commits (`UpgradeInv`), and whoever may be submitted has its nonce
(`LiveInv`). With an unlocked timelock the sequencer may let the old transfer through while
the upgrade takes its nonce; one of the two executes and the other one stays pending.

`ReservedIsAccountedFor` is proved for runs without a fault that leaks a nonce (`NoLeaks`):
a commit that fails after its nonces were signed in memory, a restart, and sessions in
`Leaky`, which only unlock what they selected (`maybeSaveRecentRoot`). Any one
of the three lets TLC refute it; section 4 names them. A reserved nonce is with a session that holds it unsigned or with a fulfillment that is still to be settled,
and nobody else counts on it when its settlement has prepared the end (`HeldInv`).

**Commitment.** All writers but one go through the store's guard or check the state they
leave. `Reserve` writes a state it read before the lock, so the invariant says that a
commitment being reserved is untouched (`ReserveInv`) and that no worker or RPC holds a
copy of an untouched commitment that is ahead of it (`CopyInv`); `MovesForward` needs no more.

The worker decides on a copy of one record, and on the records and fulfillments of other
commitments at that moment, and saves later. So each decision has to be a fact that stays
true: that a vault may close (`CloseReady`), that nothing more is diverted to it (`GCReady`),
that the money is back (`Returned`). They stay true because a repayment is diverted only to a
leaf that is not old and after its own (`TreeInv`; an open upgrade keeps its leaf from getting
old), while a vault closes only when its leaf is (`VaultInv`). `WorkInv` says that what the
worker holds was justified when it was decided, and still is.

`TreasuryNeverOverdrawn` compares sums over sets of commitments. The advances the deficit
counts, with the one that holds the treasury lock, are within the funds (`FundsInv`), and
every advance that is out is among them (`DeficitCovers`). That `Total` adds up is proved
from the well-founded order of the subsets of a finite set: were it wrong of some set, it
would be wrong of a smallest one (`SmallestSet`).

**SubmitIntent.** The invariant says that two handlers never hold one stripe (`MutexInv`),
which locks a handler holds at each place (`HoldInv`), and that what it validated under
them is still true when it commits (`FreshInv`, `AdmitInv`): a commit of another request
changes the balance, the latest account or the card of this one only if both hold the
same lock. The step simulation maps `Commit` to the ledger's action of the same kind and
every other step to a stutter. The limit of accounts per phone number is not part of
`AdmitInv`, because it is false (section 4).

**Sequencer.** `FulfillmentInv` says what was saved for a fulfillment at each place the worker
may be at between two writes, so that an interruption at any of them leaves a state from
which the next poll settles it. `IntentInv` says that an intent has the state of its actions or
some fulfillment is still to be handled after which the intent handler reads them all again
(`Waiting`): the last of several workers to save an action is also behind the others when it
reads.

The order of execution is a second invariant on top of it (`PlacedInv`): when a fulfillment
is in flight, everything it waits for and that is ahead of it is at its end (`OrderInv`).
Nothing new gets ahead of it, because an intent gets an id beyond all that were given; a
dormant fulfillment is exempt until it has a position of its own. A timelock that the server
counts as locked exists (`ExistInv`), whoever told the server of it, so a transaction that
was let through finds its accounts.

That it also finds its funds (`NothingFails`) rests on the plan and on the books. The plan
(`PlanInv`) is about the actions that count, whether executed or not, in the order `Ahead`,
which is that of their intents and indices: after each of them the accounts it takes from are
not in the red (`FundsPlan`), when all are done a closed account is empty (`ClosePlan`), and
whatever uses it is ahead of what closes it (`UsePlan`). A submission extends the plan at its
end, and the guards of `SubmitIntent` are what it takes. The books (`BooksInv`) relate the
blockchain to the plan: while no transaction failed, the balance of an account is what the
executed actions make of it (`BalanceInv`). They execute out of order, so that the balance is
not one the plan speaks of. But the scheduler lets a payment through only when everything ahead
of it into its source has arrived, and once that is so it stays so (`SureInv`). Of the payments
out of an account that are executed or about to be, take the last one in the order: all that
is ahead of it into the account is there, no more left than the plan says, and the plan is not
in the red after it (`FundsThere`). The transaction that closes an account is behind everything
else on it, so that it finds exactly the end of the plan (`AllDone`, `ClosingExact`). The sums
are those of `SumFunctionOnSet`; that they do not depend on the order in which it takes the
elements is proved by taking the smallest set that would be an exception (`SmallestSet`,
`TotalRemove`), as induction over sets is out of reach.

**GiftCard.** A claim that was validated has the card's lock, was claimable then, and
nothing else was claimed or scheduled since (`ClaimInv`), because the age moves past the end
of the claim window only, not to the expiry, while an RPC is open. A worker past its check
knows that the card is expired and unclaimed (`ReturnInv`), and then no claim can be
validated. What was claimed is claimed once and is not to be returned (`ClaimedInv`).
`SequencerFrame` says that no step of the sequencer schedules the return on its own.
The invariants of the sequencer are kept by the worker's three writes to its records
(`ReturnKeepsSequencer`, `ReturnKeepsOrder`): it schedules an action without telling the intent
handler, and gives a position to a fulfillment that nobody has scheduled yet. With the return,
a payment is inserted in the middle of the plan (`PlanReturn`, `BooksReturn`). It takes exactly
what the issue paid, because nobody claimed the card (`GiftThere`), it is behind everything on
the card (`ReturnLast`), and the account it pays into only gains. What was let through before
did not count on it, which is why `Sources` leaves out a return that is not executed.

**Treasury.** The tree is a prefix of the pool's because the leaves to add continue it
(`TreeInv`), which the comparison with the pool's root at the end of the search ensures
however few payments were found. A root is in the history when an advance executes, because
every save that could push it out waits for that advance, unless its root is as young as one
RPC allows (`WaitInv`, with `SaveInv`: saves execute one by one, and `RecordInv`: each is based
on a later root than the one before). Roots grow because a save executes only after an
advance that is new to it (`NewInv`, from the blocks of what executed in `LeafInv`).

**Messaging and Webhook.** The record of a key points to the live stream that no other server
has displaced, and that stream has its place in the map of its server and the lock of the key
(`PlaceInv`). A stored message that is neither in the channel of that stream, nor read, is with
a sender that has not looked up the record yet or forwards it to that very server, or else it
was looked up before the stream saved the record, and then its flush has still to come to it
or has failed (`DeliveryInv`, with `Covered`). The flush starts after the announcement and a
message is saved before it is forwarded; without the one or the other this does not hold. That
a flush fails breaks it for the earlier messages only, as no step but the announcement adds to
`earlier`.

Only the commit of the intent makes a webhook pending (`SubmitInv`), and the
worker has not touched one before (`FreshInv`). The attempts that were started are the first
ones, as many as the record of a pending webhook counts, also while the worker holds a copy
of it (`CountInv`); one that succeeded was processed and its message saved (`CallInv`). The
merge keeps a confirmed record. `Messaging` is part of it through its type and because a
message that is saved stays so (`FateIsFinal`).

**Geyser.** Of all processes that see a message one stores it, and only that one counts and
pushes it (`CountInv`). A deposit is saved as an intent, then as a message, then as a balance,
and a process that is at a later write knows the earlier ones (`CreditInv`). A pass of the
backup that met no error has every deposit that is due credited, beyond its reach, in hand or
ahead of it (`SyncInv`), so that it may take back the flag at its end; what a cache lets it
skip was credited.

Only model-checked:

* every liveness property, with the temporal assumptions it rests on, because the proof
  system does not reason about fairness and ENABLED.

## 6. Not modelled

* SQL, paging, retries of a single query, metrics and logging.
* The bytes of transactions, signatures, proofs and merkle hashes.
* More than one server process, except for message streams: the locks of the code are local
  to a process, and so are those of the models.
* The in-memory cache (section 2). The queue and the gRPC subscription of the Geyser
  listener, deposits into vaults that are not of a primary account, and a cached negative
  answer about the account of a fee collector.
* Phone verification, invites, currency, airdrops and the web pages: single reads and
  writes in front of a store, with no protocol between them. The chat service and push
  delivery, on which nothing depends.
* Daily limits and exchange rates, the shape of an intent's action list, fees on
  withdrawals to accounts outside of Code.
* Nonces and the treasury's balance in `Sequencer`: they are in `NoncePool` and `Commitment`,
  and a composition of the three is beyond what TLC can explore.

## 7. Running

```
tlc -workers 2 -config gift_card.cfg MCGiftCard.tla
tlapm TreasuryProofs.tla
```

`PROJECT.json` has the module of each configuration. The largest runs have between half a
million and a little over two million distinct states and take two to four minutes with two
workers.
