# A formal model of the Investoyard API

Investoyard takes IPO applications from investors and partners, sends the bids
to the exchanges (NSE, BSE), follows the UPI mandate and the depository's
verdict, and imports the registrar's allotment. This directory holds TLA+
modules of the parts of `src/apps/api` where requests, timers, queue workers
and the exchange meet over the same rows, the TLC configurations that check
them, and TLAPS proofs about eight of them.

Paths below are relative to `src/`; services are under `apps/api/src/modules/`.

## Running

    tlasany M.tla                              parse a module
    tlc -workers 2 -config X.cfg M             check one configuration
    tlapm M.tla                                check the proofs of a module

Each `X.cfg` belongs to the module its name starts with (`MCBidLedger_serial.cfg`
to `MCBidLedger.tla`). The longest run (`MCPartnerOnboarding_queue`) takes under three minutes on
two workers.

## The system

One NestJS process over PostgreSQL through Prisma, Redis for codes
and for the BullMQ queue, files on disk for uploads and archives. JavaScript
runs one piece of code at a time, and every `await` lets another request, timer,
job or callback run. Nothing in the modelled services takes a row lock; what a
service knows of a row is what it read some awaits ago. That is why every model
below makes one action of each piece of code between two awaits.

| component | state | operations | models |
| --- | --- | --- | --- |
| Bid ledger (`rail/bid-operations.service.ts`, `rail/bidRules.ts`) | `BidOperation` rows, the bid columns of `Application` | queueNew, queueModify, queueCancel, queueRebid, queueUpiChange, postPending | `BidRules`, `BidLedger`, `ExchangeBook` |
| Rail callbacks (`rail/callback/`) | status, reason, payment text, blocked amount of `Application` | dp status, pay status | `ApplicationLifecycle` |
| Bidding refresh (`rail/bidding-refresh.service.ts`) | the same columns | refresh | `ApplicationLifecycle` |
| Application lifecycle (`applications/applications.service.ts`, `unblockRules.ts`) | the same columns, allotment, refund, unblock stamp; the profile's UPI ID | withdraw, recordAllotment, changeUpi, requestUnblock | `ApplicationLifecycle` |
| Application submission (`applications.service.ts`, `queue/`, `rail-adapters/src/submission/`) | new `Application` rows, BullMQ jobs | create, createBulk, print, hydrate, process, saveResult, markFailed | `Submission` |
| Allotment imports and archive (`allotment/allotment.service.ts`) | `AllotmentRecord`, `AllotmentImport`, `AllotmentArchive`, the gz file, the promise chain | startImport, archiveIpo, restoreIpo, retentionSweep, deleteImport, deleteIpoRecords | `AllotmentArchive` |
| Rail adapters (`packages/rail-adapters`) | a cached exchange session per member | buildBidSubmission, login, place, query | what the ledger needs of them: `Buildable`, `Acceptance` |
| Subscription poller (`subscription/subscription.service.ts`) beside IPO catalogue (`ipo/`) and GMP entry (`gmp-entry/`) | `IpoSubscription` rows, the JSON column `Ipo.extra`, the memory of the last write | tick, refreshIpo, computeSubs, keepKnownFigures; update, updateOps, submit | `IssueFigures`, `SubscriptionPoll` |
| Partner onboarding (`partner-onboarding/`), registerTenant (`admin/admin.service.ts`) | `PartnerApplication`, `Tenant`, its admin's `User` and `Membership` | apply, requestChanges, reject, approve, resendActivation, activate | `PartnerOnboarding` |
| WhatsApp journey (`whatsapp/`) | one session per number, in memory; the applications it makes | handle and its steps, the session store's get, set, clear, sweep | `WhatsappJourney` |
| Alerts (`notifications/`) | `Notification` rows, the watchlist, `Ipo.status` | run, pushToUser | `WatchlistAlerts` |
| Sign-in (`auth/auth.service.ts`) | one-time codes and counters in Redis, lockout columns | requestOtp, verifyOtp, passwordLogin | planned |
| Partner API, form numbers | `asbaFormNo` | print | planned |
| Reports, settings, metrics, files, clients | single rows, reads | | not modelled: nothing of theirs takes more than one step on shared state |

How the modelled parts meet:

- `create` makes the row and queues a job; the worker's `saveResult` gives the
  row its exchange number and member. From then on the bid ledger changes the
  bid, and callbacks and refresh change its status.
- `changeUpi` of the lifecycle calls `queueUpiChange` of the ledger for every
  sibling bid; in `ApplicationLifecycle` that is membership in `restated`, in
  `BidLedger` it is the request "upi".
- An import calls `recordAllotment` for each of our applications it matches; in
  `ApplicationLifecycle` that request may come at any time, since the code checks
  no date.
- Confirm in the WhatsApp flow calls `create` as a print: one row per account,
  issue and profile. `WhatsappJourney` has that key; `Submission` has the call
  itself, beside everybody else's.
- The poller, the admin form, the operations switches and GMP entry write one
  column of one row; they are one module. The form also writes `Ipo.status`,
  which the alerts go by: the action `SaveStatus` of `WatchlistAlerts`.
- Approving an application runs registerTenant to its end before it writes the
  row, so the two are one module. An operator may also register a tenant
  directly; all that can do to an approval is take its slug, code or username
  first, which is one of the failures every await may have.
- The exchange and the bank are external: they appear as what they accept and
  what they state, never as what they ought to do.

What is hard in each, and what makes it right:

- **Bid ledger.** Copies of rows held across awaits, overlapping runs of the
  poster, an answer that is lost after the exchange has taken the bid. Right
  means: a number in a row is that of an own bid, the SEBI rule on HNI and QIB
  bids reaches the exchange, nothing touches another applicant's bid.
- **Lifecycle.** Statements late, repeated, reordered; a pull racing a push;
  requests that check one row and write another version of it. Right means: the
  row tells the investor nothing the exchange did not say, the bank is asked only
  for what it blocked, and a bid the exchange has not decided is put on a new UPI ID
  unless the change passed it over.
- **Submission.** A check and an insert that are two statements, a queue that
  runs a job again after a timeout or a stall. Right means: one application per
  PAN and quota, one bid per application, no job in the queue for ever.
- **Archive.** Writes in batches without a transaction, jobs that fail half-way,
  deaths of the process, checks made long before the job runs. Right means: a
  row that was imported is in the database or in a whole archive until somebody
  asks to delete it.
- **Poller.** Two network calls between reading the row and writing it, answers
  with holes, a memory that decides whether to write at all. Right means: a
  refresh reverts nothing a person entered and erases no figure, and the stored
  rows become what the exchanges say.
- **WhatsApp journey.** Messages of one number handled at once, buttons that
  stay on the screen for ever, a store that merges. Right means: an application
  is for the lots and the amount one confirm message showed, and a flow that was
  dropped stays dropped.
- **Alerts.** A sweep of many awaits that any failure ends, beside people who
  watch and unwatch. Right means: everybody who watches hears, once, unless
  the sweep ended between recording the alert and handing it out.
- **Onboarding.** A dozen writes without a transaction, decisions taken from old
  screens, a link that is good until it is used. Right means: the tenant on an
  application is its own and finished, the partner always has a way in, and no
  application counts as activated without a password.

## The bid ledger (`BidRules`, `BidLedger`, `MCBidLedger`, `BidLedgerProofs`)

`apps/api/src/modules/rail/bid-operations.service.ts` records every change to a
bid before it is sent. A request writes the application and an operation row
(N, M or D) in one transaction; `postPending` later posts pending rows.

| in the code | in the model |
| --- | --- |
| table `Application` | `app[a]`: status, `appNo` (0 is null), `ref` (bidReferenceNumber is set), `routed` (rail and memberCredentialId, written together by `saveResult`), `qty` (`qtyOf`), `category`, `replaces` (the operation named in a rebid's idempotency key) |
| table `BidOperation` | the sequence `ops`, in `createdAt` order |
| the exchange's book (external) | the sequence `bids`; the number of a bid is its index |
| a request between two awaits | `handler[h]`: what it has read so far |
| a run of `postPending` between two awaits | `poster[p]`: its batch of copies, and the answer not yet written |

| action | code |
| --- | --- |
| `Load` | `loadApp` and the rule check of each entry point (a refusal throws and changes nothing) |
| `FindPendingNew` | the `findFirst` of the pending "new" row (`queueModify`, `queueCancel`) |
| `CommitNew`, `CommitModify`, `CommitCancel`, `CommitRebid`, `CommitUpi` | the transaction (or the single write) that ends each request |
| `LoadBatch` | the `findMany` of `postPending`, with the application as it is then; its limit of 50 rows (`:256`) is out of reach of the bounds and left out |
| `CallAccepted`, `CallRefused`, `CallThrew` | `toSubmission`, `buildBidSubmission` and the exchange call; an accepted call may still throw here (a timeout) |
| `SaveAnswer` | the transaction of `postOne`, or the catch of `postPending` |
| `Crash` | the process dies: everything read and not written is lost |

At the start a row has its route exactly when it has its number. saveResult
(`submission-store.ts:17-27`) can also write rail and member for an answer that has
no number; such a row is not in the model.

Nothing in the repository schedules `postPending` or calls `queueNew`; the model
lets `postPending` run at any time, once or in overlapping runs, and `queueNew`
once for an application that was just created, as its comment says.

The bounds: `MaxQty` (share quantities), `MaxOps` (operation rows) and `MaxBids`
(bids accepted by the exchange) stop the counters. `MCBidLedger_concurrent` has
two requests, two posters, a placed retail bid, a placed HNI bid and an
application that is not placed yet, one id for
the row a rebid makes and two operations: enough for two posters to hold copies
of the same operation while a request commits, and for a rebid with both its
rows. Requests and posters are interchangeable and are reduced by symmetry; no
temporal property beyond steps is checked there. `MCBidLedger_serial` follows
`ApartSpec`: two requests that may overlap unless they are about the same bid, and
one poster, with three operations and quantities 1 and 2, so that a modify, a
cancel and a rebid may follow each other before or after a post, beside a request
about the other bid. Deadlock is checked in both
(the process may always die and start again).

- `NumbersAreOwn`, `InstitutionalNeverWithdrawn`, `OnlyOwnBidTouched` and
  `ImplementsBook` hold with any overlap, and are proved.
- `DatabaseDescribesExchange` holds while no two requests about one bid overlap and
  postPending does not overlap itself (`Apart`), and is proved for that case. It is
  about applications that were placed at the start and none of whose operations
  failed; what becomes of a failed one is under "Other differences" (`:255`).
- `InstitutionalOnlyRaised` is checked under the same exclusions and only there. It
  shows that a crash, a lost answer and a resend do not lower an HNI or QIB bid,
  whatever modifies, cancels and rebids follow each other. It shows no more: two
  edits of one bid that overlap (`bid-operations.service.ts:87-116`, written at
  `:104`) or two overlapping runs of postPending do lower one, and the code excludes
  neither.

## The life of an application (`ApplicationLifecycle`, `MCApplicationLifecycle`, `ApplicationLifecycleProofs`)

| in the model | in the code |
| --- | --- |
| `record[a]`, `said[a]`, `bidUpi[a]` | external: what the exchange holds, all it ever stated, and the UPI ID its bid names |
| `row[a]` | the `Application` columns status, applicationNumber and rail (`number`), amountBlocked (`blocked`), rejectionReason, upiStatusText and upiStatusAt, allotted amount, refundAmount, unblockRequestedAt (`asked`) |
| `handler[h]` | a request between two awaits, with the row it read (`snap`) |
| `upi` | which UPI ID the profile holds |
| `restated` | applications for which queueUpiChange queued a modify |
| `missed` | applications a change of the UPI ID passed over: without a number when it searched, skipped after a failure, or not reached before the request died |
| `mailed[a]` | when unblock mails went out |
| `now` | days; one tick is the 24 hours of both unblock rules |

| action | code |
| --- | --- |
| `StateDp`, `StatePay` | external: the depository's verdict, then the mandate's progress; the first verdict of a bid without a number may be of a bid written with an older UPI ID |
| `Deliver` | handleDpStatus or handlePayStatus: `CallbackPatch`, then `UpdateStatus` (rail-callback.providers.ts) |
| `Read` "refresh", `Refresh` | the fetch of bidding-refresh.service.ts, and its write through the same `UpdateStatus` |
| `SaveNumber` | postOne's transaction, which gives the row its number |
| `Withdraw`, `RecordAllotment` | the update that ends each request |
| `SetUpi`, `FindSiblings`, `QueueUpiChange`, `UpiChanged` | changeUpi: the profile, the findMany of the siblings, one queueUpiChange each, whose failure is caught and logged (`:779-785`) |
| `SendMail`, `RecordMail` | requestUnblock: the mail, then the stamp |
| `Abandon` | a request that throws or dies at any point |
| `Tick` | the clock; it stands while a request runs, since requests take less than a day |

A statement may be delivered at any time after it was made, any number of times, in
any order or never; one that finds no row with its number changes nothing.

withdraw (`:948`) goes by the stored status of the issue, which no job moves with the
dates (`ipo.service.ts:206-211`), and recordAllotment (`:94-112`) looks at neither
date nor status. So neither has a date guard in the model, and an allotment beside or
before a withdrawal can leave shares and the whole refund on one row; see "Other
differences".

Runs and bounds: `MaxSaid` statements of one application, `MaxUpi` changes of
the UPI ID, `MaxMails` mails, `LastDay` of the clock, and `Amount`, which only
has to be large enough for "less than was bid" (2 in the unordered run).

- `MCApplicationLifecycle_unordered`: one application, whose number is saved late,
  five statements (enough for a verdict, a mandate, a block, a release and one
  more), three days, any request at any time, deaths half-way. The row shows a block
  only if one was stated (`BlockShownIsReal`), its sentences and reasons were given
  (`SentencesWereSaid`), the bank is mailed only about money it blocked and only past
  the allotment date (`UnblockOnlyOfBlocked`), and a bid the exchange has not decided
  names the profile's UPI ID or has a modify queued that will, unless a change passed
  it over (`OnlyMissedBidsKeepOldUpi`).
- `MCApplicationLifecycle_stuck`: the same row with only requestUnblock and
  recordAllotment among the requests, for the finding `StuckInvestorMayAsk`.

What these properties do not say: the first two ask that a block or a sentence was
stated at some time, not that it still holds, since the code compares neither time
nor order of statements and keeps columns a statement does not mention; and "late"
in the third is only the date. `missed` is what the code itself lets a change leave
out: `OnlyMissedBidsKeepOldUpi` says that nothing else does (no rejection, no stale
or repeated statement, no refresh and no second change). It does not ask about a bid
that was withdrawn or whose allotment was recorded in our row (`Undecided`).

The run serves one request at a time and makes one UPI change to one bid; the proofs
have any number of each. A released mandate (code 110) is final in `StatePay`, as
mayChangeUpi takes it to be ("already decided"): if an exchange restarted one, a UPI
change that met the `released` row would skip a bid that is live again.
The statuses `cancelled`, `withdrawn` and `failed` are written elsewhere and are
not among the ones here.

## From "apply" to the exchange (`Submission`, `MCSubmission`, `SubmissionProofs`)

| in the model | in the code |
| --- | --- |
| `apps` | the `Application` rows of one issue and account, with profile, quota (panBucket) and status |
| `gone` | hardDeleteClient removed the client and the rows |
| `handler[h]` | a create, createBulk or print between two awaits |
| `jobs` | BullMQ jobs, with the attempts they have left |
| `worker[w]` | a slot of the worker between two awaits |
| `sent` | external: how many bids of each row the exchange took |

| action | code |
| --- | --- |
| `Check` | the duplicate check of create and createBulk (a print has none) |
| `Insert` | the insert, or the unique index on the idempotency key refusing it |
| `Mark`, `Enqueue` | the update to `submitted`, then the queue |
| `Abandon` | a throw or a death between two writes |
| `Cancel`, `HardDelete` | queueCancel of an unplaced bid; admin.service.ts hardDeleteClient |
| `Take` | the worker picks a job; a single job is hydrated here |
| `AskStore` | isAlreadySubmitted for each row |
| `Call` | the exchange call; a throw says nothing of what the exchange took |
| `SaveAnswer` | saveResult and markFailed of each bid |
| `Stall` | external: BullMQ runs a job again whose worker died; it costs one of its attempts |

`MCSubmission_apply` has two applicants, two requests, one worker slot, two
attempts and two rows: enough for two requests to pass the check together, for a
job to time out after the exchange took the bid and to be tried again, and for a
deletion in between. `JobsEnd` assumes weak fairness of the worker, because
BullMQ keeps the slots busy while there are jobs; `Stall` is not fair.

Three simplifications. The per-member writes of a bulk job
(`submission-queue.service.ts:144-147`) are one step here, so a death between two
members' answers is not in the model. An answer that is a permanent refusal
(`submission-worker.ts:70-72`) ends a member as `failed` without another attempt,
which the model has only as an answer that is not ok. And the fallback without Redis
(`submission-queue.service.ts:164-193`), which runs the job inside the request, is
not modelled.

Two things a reader should know of these results. A native or family row is
`submitted` before its job is queued, and the store counts `submitted` as sent,
so a job does nothing unless its client is deleted in between (the finding
`SkippedWasSubmitted`); the model keeps that, and the calls that
`NeverSentTwice` speaks of happen only after such a deletion. The rows the ledger
starts from ("placed") are therefore as saveResult leaves them, although today no
native application gets that far. And rows made by a rebid or a partner, which
have other keys, are not in this model.

## Allotment rows, imports and the archive (`AllotmentArchive`, `MCAllotmentArchive`, `AllotmentArchiveProofs`)

| in the model | in the code |
| --- | --- |
| `records` | `AllotmentRecord` of one issue: the number and the file that inserted it (0 is null) |
| `imports` | `AllotmentImport` rows; `some`: the row counts at least one imported row |
| `file` | the gz file on disk: none, cut off, or whole |
| `archive` | the `AllotmentArchive` row is there |
| `asked` | requests whose check has passed and whose job is not queued yet |
| `chain` | the promise chain; the first job runs |
| `replies` | deletes whose job is over and whose request goes on |

| action | code |
| --- | --- |
| `StartImport`, `DeleteImport`, `DeleteIpoRecords`, `ArchiveIpo`, `RestoreIpo`, `SweepDue` | the checks at the head of each request, and the timer |
| `Enqueue` | enqueue, enqueueResult |
| `ImportRows`, `EndImport` | process: createMany with skipDuplicates per batch, the best-effort patches |
| `OpenArchive`, `WriteRow`, `CloseFile`, `UpsertArchive` | doArchive up to its purge; opening the file cuts it off |
| `NothingToSweep` | retentionSweep over an issue without rows |
| `PurgeRow`, `EndPurge` | purgeRecords, shared by archive and deletes |
| `OpenFile`, `RestoreRow`, `DropArchive`, `Unlink` | restoreIpo's job |
| `JobFails` | any await of a job that rejects |
| `StreamError` | a restore whose file is gone when its turn comes: the stream's error has no listener and the process ends |
| `Restart` | the process dies |
| `Reply` | what deleteImport and deleteIpoRecords do after their job |

A batch of the code (5,000 rows written, 20,000 read, 10,000 purged) is one row here, the smallest piece
after which it can be interrupted. `done` and `failed` imports are one status,
since no check tells them apart. Two files share a number, so that
skipDuplicates decides which file a row belongs to; two requests may be in
flight at once (`MaxJobs`) and two files are ever uploaded (`MaxImports`).

- `MCAllotmentArchive_kept`, with failures and restarts at every step:
  `OnlyRewriteLoses` says that a row is never lost (it is in the database, or in
  a whole file with its archive row) except to a delete that was asked for or by
  reopening the archive file; `DroppedImportLeavesNothing` that no row survives,
  or comes back under, an import that was deleted; `ImportsTakeTheirTurn`, under
  weak fairness of the running job (its awaits resolve or reject), that no job
  holds up the imports behind it.

A file that was cut off makes the restore that reads it fail (`JobFails`). If the
error reaches the stream before its reader, the process ends instead, which is
`Restart` at the same point.

An archived row has lost its broker (`tmName`) and its import for good: doArchive
writes eleven columns, and restore reads as many.


## The poller and its neighbours (`IssueFigures`, `SubscriptionPoll`, `MCSubscriptionPoll`, `SubscriptionPollProofs`)

`IssueFigures` is the pure part of `subscription.service.ts`: `Figure`, `Total`
and `ComputeSubs` (bucketize and computeSubs) and `KeepKnown`
(keepKnownFigures), on the number of shares asked for per category and exchange.
Multiples are quotients of that number, and the bid counts take the same path.

| in the model | in the code |
| --- | --- |
| `market` | external: what each exchange holds |
| `rows` | the `IpoSubscription` rows of the issue |
| `extra` | `Ipo.extra`: the form's own key (`book`), the switches (`gates`), the grey-market log (`gmpLog`) and the poller's (`subLog`) |
| `lastSnapshot` | the memory of the last write |
| `poll[p]` | a refresh between two awaits |
| `edit[w]` | a save between its page, its read and its write |

| action | code |
| --- | --- |
| `Start` | tick (or an administrator's refresh): the row is read |
| `AskNse`, `AskBse` | getCatwise and getDemandSchedule of each exchange; an answer may fail or leave a bucket out or empty |
| `KeepFigures` | the read of the stored rows, only when a fresh one is empty |
| `Write`, `Remember` | the transaction, then lastSnapshot |
| `PollFails`, `Restart` | a statement that throws; the process dies and forgets |
| `OpenForm`, `SubmitForm`, `SaveForm` | the form, filled from an earlier read, and IpoService.update |
| `ReadRow`, `SaveOps`, `SubmitGmp` | updateOps and GmpEntryService.submit: read, change one key, write the column |

A full answer mentions every category on both exchanges, so an issue that is bid on
one exchange only is one whose figures on the other are 0 or whose bucket a glitch
leaves out. When a refresh is due (clock, window, holidays, lastFetchAt) is left open: one
may start at any time.

`MCSubscriptionPoll_serial`: two categories, demand 0 or 1, three moves of the
market, one glitch, one fault, one edit of each kind, one refresh at a time. A
move up and one down with a glitch between them is what distinguishes a figure
that was revised from one that was left out; a fault may hit between the
transaction and the memory. The three safety properties are proved for any
bounds, the first for any number of refreshes too, and so are the types. `FiguresCatchUp` assumes weak
fairness of `Start` and of the steps of a refresh: the timer keeps ticking and
every await resolves or rejects.

## Applying over WhatsApp (`WhatsappJourney`, `MCWhatsappJourney`, `WhatsappJourneyProofs`)

| in the model | in the code |
| --- | --- |
| `session` | the entry of one number in whatsapp-session.service.ts: `named` is `ipo`, `ipoId` stands for ipoId, user, lot size and price, which are set together; `codeOld`, `idle`: the code is past its five minutes, the entry past its twenty |
| `handler[h]` | a message between two awaits |
| `offered` | the buttons and rows on the screen |
| `shown` | what the confirm messages showed: a symbol (`named`), the lots, and the issue whose lot size and price the shares and the amount were reckoned with (`reckoned`) |
| `apps` | the applications made |
| `ended` | the flows (by code) whose session was dropped |

| action | code |
| --- | --- |
| `TypeMenu`, `TypeList`, `TapList`, `ShowList` | the menu and the lists, with what `get` drops on the way |
| `TapIssue`, `ShowIssue` | ipoMenuMsg |
| `TapApply`, `SendCode` | startApply |
| `TypeCode`, `CheckCode` | stepOtp: the checks before the comparison, the comparison and what follows it |
| `TapApplicant`, `AskLots` | chooseApplicant |
| `TypeLots` | stepLots |
| `TapCancel`, `TapConfirm`, `Place`, `Answer` | cancel; doApply up to create, create, and the clear after it |
| `SessionIdles`, `CodeLapses`, `Sweep`, `DeleteProfile`, `Restart` | time, another number's message, the account, the process |

create may also refuse for a missing issue or a failed statement; the answer and the
clear are the same as for the refusals of `Place`.

`MCWhatsappJourney_chat` has two messages in progress, two issues, one applicant
and two flows: enough for one flow to be confirmed, cancelled or dropped while
another runs, with any old button tapped at any step. Numbers of lots and the
price are one (`MaxLots`): what matters is whether they are those of a message.
`AmountShownIsPlaced` says that an application is for the lots and the amount one
confirm message showed, and `ClearedFlowStaysCleared` that a flow that was cancelled
or dropped is not brought back by a message still being handled. `_named` has the
same bounds and shows that the issue is another matter: `NamedIssueIsPlaced` fails.
That a second confirm makes no second application rests on create's unique key
alone, so it is a property of `Submission` (`OneApplicationPerBucket`) and not repeated here.
No fairness: nobody has to answer. The flow may end (codes used up), so deadlock
is not checked.

## Alerts (`WatchlistAlerts`, `MCWatchlistAlerts`, `WatchlistAlertsProofs`)

| in the model | in the code |
| --- | --- |
| `stage[i]` | where the issue's dates are relative to today: closing in the two days before it closes, allotment and listing on the day |
| `marked` | the issues whose `Ipo.status` is `open` |
| `watching` | `Watchlist` |
| `history`, `unsent` | `Notification` rows by user, kind and issue, and those without sentAt |
| `delivered` | external: how often the devices were handed an alert |
| `sweep[s]` | a run between two awaits, with the issues as it read them |

`Start`, `NextIssue`, `NextWatcher`, `Check` are run (`alerts.service.ts`);
`Record`, `Deliver`, `Mark` are pushToUser; `Fail` is any await of a sweep that
rejects, which the timer's catch swallows; `Watch`, `SaveStatus`, `DayPasses`
are everybody else.

`MCWatchlistAlerts_hourly`: two users, two issues at different stages, one day
that passes on each or two on one, one fault, one change of the watchlist or of
a status. `WatchersHear` is about the alert being handed out: an alert that is due is
delivered, stops being due, or is `Lost`, which is the one hole the code has. The row
is recorded before the devices are looked up and sent to (`notifications.service.ts:23-29`),
and the next sweep takes the row for an alert that was sent (`alerts.service.ts:106-117`),
so what a fault or a restart hits in between is never handed out. The fairness is that the timer fires every hour (`Start`) and that
the awaits of a sweep resolve or reject (`Sweep`).

## Becoming a partner (`PartnerOnboarding`, `MCPartnerOnboarding`, `PartnerOnboardingProofs`)

| in the model | in the code |
| --- | --- |
| `app[a]` | a `PartnerApplication`: owner, status, tenantId, activation token, activatedAt |
| `tenant[c]` | the tenant with channel code `c`: slug, the application it was registered for, whether its admin has a user and a membership, and the link its password was set through (0: the temporary one) |
| `submit[u]`, `review[r]`, `visit[v]` | a submission, an approval or resend, and an opening of a link, between two awaits |

| action | code |
| --- | --- |
| `Apply`, `SaveSubmission` | apply: the look for a live application, then the update or the insert |
| `RequestChanges`, `Reject` | each an update without a condition |
| `Approve`, `PickSlug`, `CreateTenant`, `CreateAdmin`, `Finish` | approve: its check, the search for a free slug, registerTenant's tenant and admin, the look-up of the tenant and the update of the application |
| `Resend`, `IssueLink` | resendActivation |
| `Activate`, `SetPassword`, `MarkActivated` | activate |
| `Fails` | an await that fails, anywhere; a restart is all of them failing |

A slug is a base and a suffix; a base in `Long` leaves its username no room for
the suffix. Links are numbers, each issued once, and one that expired is simply
not opened. Which writes of registerTenant are separate matters only where a
later step can tell: the tenant with its roles and settings is one, the admin's
user and its membership are two. An approval of a branch also checks the parent,
which no property here depends on.

`MCPartnerOnboarding_queue`: one account, two applications, two operators, one
opening of a link, two names of which one is long, two tenants and two links:
enough for two approvals of one name to overlap, for a decision to be repeated
after a failure, for a resend beside an activation, and for an application to be
activated, rejected and approved again. A second account would add nothing
except applications that never meet. There is one opening at a time here, since two
do not finish in reasonable time; `PasswordChosen` proves `ActivatedHasPassword` for
any number of them. Nothing is claimed about a link being used once: two openings of
one both pass the check (see "Other differences").
`ActivatedHasPassword` asks for a password on a tenant of the application, which
after a repeated approval need not be the one recorded last. No fairness: nothing has to happen, and the
bounds let the model stop.

## What is proved

`BidLedgerProofs`, for any set of applications, any number of requests and
posters, and any bounds, from the two assumptions on the constants in
`BidLedger`:

- `Invariance` (`IInv`), `TypeCorrect`, `NumbersCorrect`, `NeverWithdrawn`, and
  the action property `OwnBids`.

`InstitutionalNeverWithdrawn` is not inductive: that a cancel is refused when the
row is loaded says nothing of the moment its operation is posted. `IInv` adds
what every copy still shares with the table. Rows keep category and route once
they are made, operations and bids keep their application; so what a request
read (`RequestsAgree`) and what a poster copied (`PostersAgree`, `AnswersAreOwn`)
stays true, a routed institutional row has its number (`InstitutionalRouting`),
and no routed cancel is for an institutional bid (`NoInstitutionalCancel`). The
proof has one lemma per action for the types and the growth of the tables, and
one per conjunct.

`ApartDescribes` (`DatabaseDescribesExchange`) is about `ApartSpec`: any number of
requests and posters, of which no two requests about one bid and no two runs of
postPending are under way together (`Apart`, true at the start and kept by
definition). It also assumes that the bids held at the start are of different
applications (`PlacedOnce`). A request then finds the quantity it was checked against
in the table when it commits, since whoever else commits is about another bid
(`QtyHeld`), and a run leaves out nothing that was due before what it carries
(`InTurn`), which is what a crash or a lost answer must not break. `FitInv`
describes the way between the two ends, for an application nothing of which has
failed: its queue was posted in its order, the row has the quantity of the last
revision queued and is cancelled if and only if a withdrawal is queued
(`QueueFits`); its one bid has that quantity once every revision was posted, and is
live unless a withdrawal was, or is about to be, written as posted (`BidFits`). A
step between the exchange's answer and its row is bridged by what the poster holds
(`Done`), and order by `CurFirst`: nothing due was queued before what is being
settled. It holds in every state, not only when nothing is under way.

The same module proves `Refinement`: under the mapping of `ImplementsBook`
every step of the ledger is a step of `ExchangeBook` or a stutter. `ExchangeBook`
knows no copies, retries or crashes: it is what the ledger owes the exchange.

`ApplicationLifecycleProofs`, for any applications, number of requests, codes and
bounds: `Invariance`, `TypeCorrect` and `BlockReal`. Its invariant `IInv` says that
whatever is on its way to a row (the exchange's record, a fetched patch) comes from
a statement in the history.
`SentencesReal` and `BankAskedOfBlocked` need the history as well (`HInv`): every
sentence, failure and sum on its way to a row was stated, and a request about to
mail the bank found a block whose day had passed, which no later write undoes.
`UndecidedBidsRestated` (`OnlyMissedBidsKeepOldUpi`) is under the same network and
the same requests. What a row shows may be old in every way, but it is never closed
without a cause that stays: a statement that ends a bid is about one that is over
for good (`StatedOver`), so is a fetched one (`FetchedOver`), and so a row is open, or its
bid is over, or a refund is promised (`ShownOver`). Hence the search and the second
check of queueUpiChange find every undecided bid that has a number, and `UpiReaches`
follows one bid through a change: it names the new ID, was queued or passed over, or
a request has it still to reach; without a number it was passed over by every change
so far.

`SubmissionProofs` (`OnePerPan`): the check does not give the rule, since two
requests pass it together and a print has none. What does is the unique key: the
invariant is that an applicant has one row at most, in whatever bucket or status.
`TypeCorrect` and `SentOnce` come from `JobInv`. That the worker asks the store is
not enough for the second, since a row that is gone counts as not submitted. What
does it is that rows count as submitted from the moment they are queued, so that
a call is only made after they are gone, by the one worker that has the job in
hand; a job put down after that cannot be taken up again, because it is hydrated
first, and no two jobs or requests name one row.

`AllotmentArchiveProofs`, for any files, imports, requests and deaths of the
process: `TypeCorrect`, `DroppedStaysEmpty` (`DroppedImportLeavesNothing`) and the
action property `LostOnlyByRewrite` (`OnlyRewriteLoses`). Jobs run one at a time,
so what the running one relies on is between its own steps (`HeadReady`: a purge
deletes what the whole file holds, a restore drops the archive when all of the
file is back). What a request relies on between its check, its job and its reply
must survive everyone's steps: an import whose job has not run is not over, or was
cleared; each has one job at most; and a delete that has purged goes on about an
import without rows (`RequestsReady`, `OneImportEach`, `PurgedStaysEmpty`).

`SubscriptionPollProofs`: `EntriesStand` (`RefreshLeavesEntries`) for any
refreshes and edits, from the invariant that every copy of the column has all its
keys, because a refresh merges into the column as it is then; `FiguresKept`
(`EmptyReadKeepsFigure`) and `MemoryTrue` (`MemoryDescribesRows`) for one refresh
at a time (`Alone`), from the invariant that a refresh about to write erases no
figure that is stored, and one that has written was the last that did.
`TypeCorrect`, for any refreshes and edits, needs that the roll-up of the figures
is a number. `FiniteSetsExt` adds up a set by a choice among functions on its
subsets, so two facts about every finite set are wanted: that such a function
exists (`SumsExist`) and that its values are numbers (`SumsAreNumbers`). Both are
proved from a least counterexample, which the well-foundedness of strict inclusion
on finite sets gives without an induction theorem (`LeastSubset`, `LeastNumber`).
The assumption this needs is that the exchanges' categories are finitely many.

`WhatsappJourneyProofs`: `TypeCorrect`; `ClearedFlowIsGone`, because a flow gets a
new code and only the step that clears makes a code old; `ConfirmedIsPlaced`
(`AmountShownIsPlaced`) from the invariant that what a session waiting to be confirmed,
and the copy a confirmation holds, would be shown as was shown.

`WatchlistAlertsProofs`: `TypeCorrect`; `AloneAlertsOnce`: with one sweep at a time, a handed-out
alert is in the history, and one being recorded is not there yet.

`PartnerOnboardingProofs`, for any number of applications, operators, names and
bounds: `TypeCorrect`, `OwnTenant`, `WayIn` and `PasswordChosen`. The invariant says that slugs are unique, that two
approvals under way have tenants apart, and that every tenant recorded on a row or
copied by an opening was registered for that application and finished; uniqueness
is what makes the look-up by slug at the end find the tenant of the beginning.

Every safety property a passing run checks is also stated by a theorem, except
`InstitutionalOnlyRaised`. Only model-checked beside it: liveness (`JobsEnd`, `ImportsTakeTheirTurn`,
`FiguresCatchUp`, `WatchersHear`), which is out of the prover's reach, as is
ENABLED. The library's induction theorems cannot be instantiated by the provers;
where a fact about all finite sets was needed, a least counterexample took their
place. No module uses a RECURSIVE operator.

## Findings

Each has a run that exhibits it and is recorded with its quotation in
`PROJECT.json`.

| run | property | what happens |
| --- | --- | --- |
| `MCApplicationLifecycle_stuck` | `StuckInvestorMayAsk` | the refund promised at allotment is taken for money that came back, so the unblock request is always refused |
| `MCSubmission_skipped` | `SkippedWasSubmitted` | rows are `submitted` before they are queued, and the worker skips `submitted` rows |
| `MCWhatsappJourney_named` | `NamedIssueIsPlaced` | the menu of an issue renames the flow under way, so the confirm message names one issue and the application goes to another |

### Other differences met while modelling

They have no run; the models contain the steps that lead to them, except where it is
said otherwise.

- `bid-operations.service.ts:255` and `:273`: only pending rows are posted, so once
  the D of a rebid is posted an N that fails is not tried again, and the bid is
  gone; `:264`: a new bid withdrawn while
  the poster holds a copy of it is placed all the same.
- `bid-operations.service.ts:183`: a rebid of a bid that was never posted leaves
  its pending N, and both bids are placed.
- `:253-266`: an edit that amends a pending N while the poster holds a copy of it
  is recorded as posted with a quantity that was not sent.
- `:314`: the exchange's reference is read from a field the adapter's answer does
  not have, so no bid posted by the ledger can be modified or cancelled later.
- `:87-116`: two edits of one HNI bid, each upward of what it read, may end with
  the lower one at the exchange; so may two overlapping runs of postPending (`:253`).
- `rail-callback.providers.ts:42` and `:49-52`: a column a statement does not
  mention keeps its old value: a rejection reason stays beside a later block, a
  payment sentence stays beside an unknown code. `:31`: a late or repeated statement takes
  the status back, even from `allotted`.
- `rail-callback.service.ts:105`: a statement that comes before the row has its number is
  answered as a failure and kept nowhere.
- `applications.service.ts:948` and `:94-112`: withdraw goes by the stored status of the
  issue, which no job moves, and recordAllotment by nothing; a withdrawal that read the
  row before an allotment, or after a late statement reopened it, leaves shares and the
  whole refund on one row.
- `bidding-refresh.service.ts:81` and `:116`: a refresh may write an older status
  over one that was pushed meanwhile.
- `applications.service.ts:746-760`: a block between changeUpi's check and its
  write is not seen; `:766-775`: the search asks for a number, so a sibling the
  exchange took with the old UPI ID, whose answer is not written yet, keeps it,
  although `:764` says "every bid of this applicant that the exchange is holding".
  `:779-785`: a sibling whose queueUpiChange fails is logged and skipped, and the request
  succeeds.
- `:820-919`: two unblock requests at once, or a death after the mail, mail the
  bank twice within the cooldown; and a release that is stated without an amount leaves
  amountBlocked, so the bank is asked for money that came back.
- `:245`: a death between marking a row submitted and queueing its job leaves a submitted
  row no job will ever send.
- `admin.service.ts:1742`: a client deleted while a worker has their job in hand leaves a bid
  at the exchange that no row remembers.
- `applications.service.ts:213`: the idempotency key does not name the quota, so
  a second application of one applicant in a reserved quota, which the duplicate
  check allows, fails on the unique index.
- `:183`: a cancelled application counts as a duplicate, although
  `bid-operations.service.ts:124-126` says the investor may re-apply.
- `allotment.service.ts:868`: a second archive of an issue opens, and so empties,
  the only copy of rows that were purged.
- `allotment.service.ts:1389`: a second restore queued behind the first ends the
  process; `:181-186`: an import interrupted by a restart stays `processing`, and
  both deletes refuse while it does; `:983-984`: deleteIpoRecords removes the
  import row of a file uploaded while it waited, whose rows are imported after.
- `subscription.service.ts:967`: keepKnownFigures returns early unless a fresh row
  is empty, so a category an answer leaves out altogether is dropped, which
  `:990-991` says is kept. The total sums the fresh answers only (`:1062`), also
  where a kept figure stands beside it.
- `:385`: ticks do not wait for each other, and an administrator's refresh may run
  beside one. Two at once may replace a figure by an empty reading, and leave
  lastSnapshot other than what is stored.
- `ipo.service.ts:404-405` says of updateOps that "nothing else the operator
  entered is ever clobbered": it writes back the column it read, so whatever was
  saved in between is reverted, `subLog` included; so do submit of GMP entry
  (`gmp-entry.module.ts:97-106`) and update.
- `whatsapp-journey.service.ts:247`: the clear after create drops whatever flow the session is in by then, and
  a second confirm is told it failed while the first one placed.
- `whatsapp-session.service.ts:43-48`: set merges into an entry older than its
  twenty minutes, so a tapped row takes up an abandoned flow. In the code and lots
  steps a typed "cancel" is taken for the answer (`whatsapp-journey.service.ts:52-53`).
- `notifications.service.ts:23-29`: an alert is recorded before it is handed out, and
  `alerts.service.ts:106-117` takes the record for the alert; what a failure hits in
  between never reaches the watcher.
- `alerts.service.ts:113`: an operator's sweep beside the timer's alerts twice,
  although `:10-13` says the sweep never double-sends; `:41`: "open" goes by
  `Ipo.status`, which no job moves with the dates (`ipo.service.ts:206-211`).
- `partner-onboarding.module.ts:178`, `:186`: requestChanges and reject look at no
  status, and a submission's late update (`:116`) turns an approved application
  back to submitted; so one account may have two live applications, against `:93`.
- `:202`: two approvals at once, or one repeated after a failure, register two
  tenants. `:214`: a slug of 39 characters or more leaves `<slug>-admin` no room
  for a suffix, so a repeated approval always fails on the username and leaves one
  more tenant without an admin.
- `:389`, `:413`: two openings of one link both pass and both set a password, though
  `:372` says "Single use"; and activatedAt is never
  reset, so an application that was activated, rejected and approved again has a
  new tenant that no link opens and that resend (`:320`) refuses.

## Not modelled, and why

`PROJECT.json` lists every component with its reason. In short: parsing of
registrar files and workbooks, payload spelling and checksums, message texts and
views are data without control; settings, banners, masters, metrics and the like
are single-row writes; row-level security is PostgreSQL's; web and
mobile clients hold no state the server relies on; nothing schedules
`postPending` and nothing calls `queueNew`, so the ledger's model lets them run
whenever they could.

## Plan

Done: `BidRules`, `BidLedger`, `ExchangeBook` with proofs and refinement;
`ApplicationLifecycle` with proofs; `Submission` with proofs; `AllotmentArchive` with proofs;
`IssueFigures` and `SubscriptionPoll` with proofs; `WhatsappJourney` with proofs;
`WatchlistAlerts` with proofs; `PartnerOnboarding` with proofs.

Next, in this order:

1. `SignIn`: codes, counters and lockout in Redis as separate commands.
   Properties: a code is used once, the lockout cannot be outrun, nobody is
   locked out for ever.
2. `FormNumbers` with the partner API, and the exchange session cache.
3. The GMP feed and the catalogue update as further writers in `SubscriptionPoll`.
4. A composition of the ledger and the lifecycle over one row, for what neither
   shows alone: `withdraw` and `queueCancel` meeting on one bid, and the UPI change
   from the profile to the exchange. Until then each module names the requests of
   the others it receives (`recordAllotment`, "upi").
