# AdBox in TLA+

AdBox is a NestJS back end (Postgres through MikroORM, BullMQ queues in Redis,
in-memory events through EventEmitter2) with which publishers pay for campaigns
and subscribers are credited for viewing them. This directory holds TLA+ models
of its core, the TLC configurations that check them on small instances, and
proofs, checked by TLAPS, of every safety property for all values of the constants. Paths below are relative to the
source tree (`src/` of the application is `src/src/` in `PROJECT.json`).

## The system

| Component | State it keeps | Operations | Where |
|---|---|---|---|
| Wallets and ledger | `wallet.balance`, `wallet_transaction`, `wallet_transaction_change` | create, deductFromWallet, topUpWallet, linkTransaction, debit | `@common/db/repositories/wallets` |
| Payments and top-ups | `payment.status`, the queues wallet-top-ups and process-payment | fundWallet, fundWalletAlternative, initiatePayment, the two workers, three listeners | `payments/`, `wallets/` |
| Webhooks | none | handleZeepay, handleJunipay, handlePaystack | `webhooks/` |
| Provider clients | access tokens | debitMobileWallet, payment | `libs/zeepay`, `libs/junipay`, `libs/paystack` |
| Campaign funding | `campaign` rows | create | `campaigns/campaigns.service.ts` |
| Campaign lifecycle and interactions | `campaign.status`, `likes`, `views`, `interaction` | pause, unPause, stop, saveInteraction | `@common/db/repositories/campaigns` |
| Timeline and comments | `campaign`, `comment` | getUserTimeline, commentOnCampaign, findAllCampaignComments | `campaigns/`, `@common/db/repositories/campaigns` |
| KYC | `kyc`, `attempt` | createProfile, createIdentity, createBusiness, updateStatus | `kyc/` |
| Phone verification | `user.phone`, `user.phoneVerifiedAt`, one cache entry a user, the codes Arkesel holds | savePhoneNumber, sendVerificationCode, verifyVerificationCode | `kyc/services`, `notifications/` |
| Accounts | `user` | authenticate, login, create, createAdmin, setupFirebaseUser, saveProfile, setRole, updateStatus, the two listeners that open the wallet | `auth/`, `users/`, `wallets/listeners` |
| Payment methods | `payment_method` | create | `payments/` |
| Interaction broadcast | the queue campaign-interaction | one worker and a socket gateway | `campaigns/consumers`, `campaigns/gateways` |
| Withdrawal worker | - | never runs: no module provides it | `wallets/consumers` |
| Guards, helpers, wiring | - | reads, pure functions, configuration | the rest |

How they interact:

* HTTP requests call services, services call repositories. Each request, and
  each listener under `@CreateRequestContext`, has an `EntityManager` of its own:
  it reads a row into memory, awaits, and `persistAndFlush` writes the columns
  that differ from what was read, `WHERE id = ...`. There is no version column
  and no row lock anywhere, so every read and its write are two steps.
* `fundWallet` puts a job on wallet-top-ups; the worker emits
  WALLET_TOP_UP_INITIATED, whose listener inserts the payment and asks the
  provider. Zeepay's webhook emits ZEEPAY_WEBHOOK_RECEIVED, whose listener
  completes the payment and emits PAYMENT_COMPLETED, whose listener credits the
  wallet. Paystack's webhook puts a job on process-payment, whose worker does both.
* Jobs survive the process (Redis). Events, listeners and requests do not.
* Signing up commits the user and then emits USER_CREATED, setting up a Firebase
  account commits the row and then emits FIREBASE_USER_SETUP; the listener of each
  opens the wallet, in memory. `authenticate` finds its user by email, setup by the
  account's id.
* The KYC attempts are written by users and admins and read at every sign-in.

What is hard: requests on one row that overlap, money that is checked before an
await and moved after it, webhooks that come twice, early or never, jobs that
run again after a crash, and the steps between two commits that a crash separates.

What makes each part correct:

* wallets: the balance agrees with the ledger, a payment credits once, money is
  lost only where calls overlap (and one would want: never);
* top-ups: only what was asked for and confirmed is credited; what was confirmed
  is credited; a request debits the client once;
* funding: a campaign is paid for, and a payment buys a campaign;
* campaigns: counters are the sum of the interactions, a user is credited once,
  stopped stays stopped;
* lists: a client that walks the pages sees every row that stays, once;
* KYC: one pending attempt a level, a decision is final, and a sign-in shows it;
* phone: a phone that is marked verified is the one whose code was verified, and a code
  that was accepted is spent;
* accounts: one row for an account, one wallet for who signs up, and no write of one
  request undone by another that was about something else.

`PROJECT.json` lists the hazards at their lines, with the properties that cover them.

## Modules

| Module | What it is |
|---|---|
| `WalletLedger` | abstract: what the wallet tables promise to the rest of the system |
| `Wallets` | `WalletRepository` over Postgres, each call a read and a flush; implements `WalletLedger` |
| `TopUps` | both routes of money in, composed with `Wallets` (`W == INSTANCE Wallets WITH Calls <- Tasks`) |
| `CampaignFunding` | `CampaignsService.create`, composed with `Wallets` |
| `Campaigns` | lifecycle and interactions |
| `Kyc` | profile, submission and decision |
| `PhoneVerification` | saving a number, sending its code, verifying it |
| `Broadcast` | the worker that tells users about a campaign's counters |
| `Accounts` | the user table, its writers, and the wallet that follows a sign-up |
| `Listings` | walking through the timeline or the comments while they change |
| `WalletsProofs`, `TopUpsProofs`, `FundingProofs`, `CampaignsProofs`, `KycProofs`, `PhoneProofs`, `AccountsProofs` | theorems about one module each |
| `PagingProofs` | theorems about `Broadcast` and `Listings`, which both read page by page |
| `MCWallets`, `MCTopUps`, `MCFunding`, `MCCampaigns`, `MCKyc`, `MCPhone`, `MCBroadcast`, `MCAccounts`, `MCListings` | the instances TLC checks, and their bounds |

### How state and actions correspond to the code

`Wallets`. `balance` and `ledger` are the two tables; `inflight` is the set of
calls between their `findOne` and their `persistAndFlush`, each with the balance
it has read (`before`). `ReadForTopUp` and `ReadForDeduct` are the code up to the
await, with the early returns as guards; `Flush` is the database transaction;
`RefuseSecondCredit` the unique index on `wallet_transaction.payment_id`;
`FlushFails` and `Crash` what may come instead. `overlapped` is history: wallets
that two calls have held at once. The id of a wallet is its owner; fees are 0 at
every call site.

`TopUps`. `running` is what is in memory: an activity is a listener, a worker or
an HTTP request, with the place (`at`) it awaits. Its kinds are the listeners'
and workers' names, its places the awaits of the code. `payment` is the table,
`topUpJobs` and `payJobs` are the queues; a job leaves its queue when its worker
ends, so `Crash`, which empties `running`, leaves jobs to run again. `asked` is
what the provider knows. `updateStatus` finds (`FindPayment`) and saves
(`SavePayment`) in two steps. `RecordAnswer` writes over whatever the row says by
then, as `PaymentRepository.update` does. `lost` is history: payments whose
confirmation a fault took out of memory. `methods` are the users who have stored a
payment method, without which the listener stops before a payment exists.

`CampaignFunding`. `creating` is the set of POST /campaigns requests, at "deduct",
"flush" or "create". The wallet steps are those of `Wallets`; other top-ups of the
wallet go on meanwhile.

`Campaigns`. `moderating` holds lifecycle calls that have found their campaign by
status; `interacting` holds `saveInteraction` calls, which read the campaign and
then the interaction. `Saved` is likeInteraction and viewInteraction together.
A flush writes only the columns that were changed. Credits are abstracted to given
or not.

`Kyc`. `profiling`, `submitting` and `deciding` are the three kinds of requests
between read and flush. `updateStatus` may decide any PENDING attempt of the level.
`Shown` is the status of a level in the answer and the token of `authenticate`, and in
/auth/me, which populate the attempts newest first. (POST /auth/login populates none.)

`PhoneVerification`. `phone` and `verified` are the two columns, `cached` the cache's
entries and `codes` what Arkesel holds. `calls` holds requests at the await they are
in: a save goes on as a sending request, a verification looks up the cache, asks
Arkesel about the number it read first, deletes the entry and marks the row. A flush
writes only what differs from what was read, so `SavePhone` leaves `verified` alone
when it had read it as null. `Expire` drops entries and codes at any time; what time
does is abstracted to that. An error or a crash may end a request at any await (`CallLost`),
among others after Arkesel has accepted the code and before the entry is deleted.
`raced`, `confirmed`, `spent` and `kept` are history: `spent` is set when a code is
accepted, `kept` says that the deletion of its entry was lost.

`Broadcast`. `jobs` is the queue, `worker` the loop's locals (the counters read first,
the offset). `active` changes under the worker (`Activate`, `Deactivate`), and
`SaveInteraction` and `AddJob` are the two halves of `interactWithCampaign`; the second
may fail (`AddFails`) when the first is committed. Users are
numbered in the order of `createdAt`, which is the order of the pages. `sent`, `gone`,
`joined` and `viewersThen` are history of the current job, `unannounced` of an error
or a crash between flush and job. Its specification is `BroadcastSpec`, and its other parts are named
alike, so that one module can prove things about it and `Listings`. How the counters are computed is left to `Campaigns`.

`Accounts`. `users` is the table, `wallet` says which event has opened a user's wallet,
`emailOf` is Firebase's side of an account. A request is in `inserting` or `saving`
until its flush and in `emitting` until its event; `listeners` are events whose
handler is to run. `saving` keeps the columns as they were found and as they are
wanted, so that `Flush` writes `Dirty` ones only, in one transaction that the unique
indexes may refuse (`FlushRefused`). `updateStatus` is one UPDATE and so one step. The
history `asked` applies every request whole, and `astray` names the columns that two
requests were after at once. The bodies of POST /users and of a setup name an account, or
none, and an email; the code compares them with nothing, so the model takes any pair in
`Bodies`, the wrong ones included, and `parted` is the history of accounts whose email has
changed or whose id or email a body has given to another. A setup whose body names no
account finds any row without one, an admin's too. A body is taken to have an email: the
column takes no null. `OpenWallet` of `TopUps` is what this module
does to the wallets.

`Listings`. Rows are numbered by `createdAt`, which `em.create` sets (`Stamp`) before
the insert (`Comment`); pausing and stopping take a campaign out of the timeline,
unpausing puts it back at its old place. A page is two queries side by side, `Count` and
`FindPage`, and `Answer`, after which the client asks for the next page as long as it was
told there is one. `there`, `entered`, `left`, `between` and `seen` are history of the walk.

## Runs

Every passing run terminates with the bounds given here; `PROJECT.json` says in a
sentence what each one shows. Deadlock is not checked because a back end without
requests may rest, and the bounded instances run out of requests.

| Run | Instance | What it shows |
|---|---|---|
| wallets | 2 wallets, 2 payments, 2 calls at once, ledgers of up to 2 rows | agreement of balance and ledger, one credit a payment, loss only by overlap, refinement of `WalletLedger` |
| topups | 2 requests of different amounts for one wallet, 2 activities in memory, 2 webhook calls a payment, 1 fault | credits are asked for and confirmed, Paystack credits once without the index, one debit a request and crash, COMPLETED is undone only by a late answer, FAILED means refused except with Zeepay; a confirmation that is not settled is held by an activity or a job (`ConfirmedIsOnItsWay`), and each step of the event loop uses work up (`WorkIsUsedUp`) |
| topups_live | 1 request for a wallet and 1 for a wallet that does not exist, 3 payments (one for each request and one for the job a crash runs again), 1 webhook call a payment, 1 fault | a confirmed payment is credited except in the four cases `ConfirmedIsCredited` names; queues and memory drain |
| funding | 2 users, 2 tasks, budgets 1 and 2 of a balance of 3, 3 ledger rows, 1 fault | a campaign has its deduction, and a deduction its campaign unless there was a fault; what was put into a wallet nobody shared is in its balance, its user's campaigns or on the way to one (`MoneyAccountedFor`) |
| campaigns | 1 campaign, 2 users, 2 requests | credit exactly with a view; counters, uniqueness and the stopped state hold unless requests overlap |
| kyc | 2 users, 3 requests, 2 attempts | one pending attempt and final decisions unless requests overlap; what a sign-in shows is what submissions and decisions go by |
| phone | 1 user, 2 numbers, 3 requests | a verified number is the confirmed one unless a save and a verification overlap; an accepted code is not asked about again, unless verifications overlap or one is lost before it deletes the entry |
| broadcast | 3 users, pages of 1, 2 interactions, 1 crash, failed read or failing queue.add | who is missed or sent twice; the last job sends current counters; the worker's steps use work up and the queue drains |
| accounts | 2 Firebase accounts, 3 emails, 5 bodies, 2 rows, 3 requests of which 2 at once, 1 crash, error or change of email | one row for an account that nothing contradicts, wallets follow sign-ups (also as liveness), columns are serial |
| listings | up to 4 rows, pages of 1 or 2, 4 changes during the walk | a row is missed, or seen twice, only because of a newer one that moved |
| overdraft | 1 wallet, 2 calls | violation: two deductions of the same balance |
| withdraw | 1 withdrawal | violation: it credits the wallet |

Why the bounds are enough. All races of this code are between two holders of one
row and, at most, a third that reads between their flushes: two calls with any
history of commits before them reach every kind of overlap on a wallet; ledgers of
two rows hold a credit and a deduction, or a repeated payment. The second wallet,
user and payment are there to show that nothing spills over. In `topups` two tasks
give every pair of listener, worker and request; a second webhook call is the
duplicate, and one fault at any point the crash. `kyc` needs three requests because
a late decision must meet a newer attempt and its decision. In `phone` a
save, a verification and a third request that spoils either are the interesting
cases; users share no row or cache entry, and only a code's number could join two of
them (two users with two requests hold as well). In `broadcast` pages of one put a
page boundary between any two users, and a job must be overtaken by one more
interaction to send old counters. In `campaigns` the
counters' bounds (`MaxLikes`, `MaxViews`, `MaxRows`) stop a state from being
expanded, not an action from happening; `MaxTogether` bounds history that only says
which users have overlapped; `MaxCalls` keeps lifecycle calls, which touch only
`status`, from being multiplied with every interaction. In `accounts` three requests
are one that makes a row and two that write it at once, or two that make rows and one
that writes; a second account, a third email and an upset are what they may collide with. The five bodies
are those of the two accounts, one with a new email, one with the other account's, and
one that names no account.
In `listings` four changes move rows over both boundaries of a page between its
neighbours, and four rows are three pages of one and a newer row. A client of `topups`
may store its payment method only while a request is still to be made, which leaves no
outcome out: a job that has not run cannot tell when the method was stored. The client
that names a wallet that does not exist has a method from the start; the other client
shows what happens without one.

What the two violations say about the code:

* a deduction is covered by the balance it read, not by the balance it is taken
  from (`wallet.repository.ts:45`);
* the withdraw routes call `fundWallet` (`wallets.controller.ts:81,102`).

What other properties hold only with an exception says as much. With Zeepay every
accepted debit is stored as FAILED until the webhook comes, since its answers have no
`isSuccessful` (`FailedMeansRefused`; `wallet-top-up-initiated.listener.ts:59`). The wait
for approval is checked before an await and kept by no index (`OnePendingUnlessTwice`;
`kyc.service.ts:188`). A crash between a user's row and USER_CREATED leaves a user whose
later logins open no wallet (`WalletOpens`; `auth.service.ts:109`), though a setup of the
account does. Whoever calls POST /users or the setup says which account and email belong
together (`AccountKeepsItsRow`; `users.service.ts:38`, `user.repository.ts:127`): after a
body that contradicts Firebase, an account may have two rows, or a row of another's email.
An accepted code is spent by the deletion of its cache entry, which comes later: if that
fails, only Arkesel refuses the code (`SpentCodesAreRefused`; `otp.service.ts:58`).

The history variables (`overlapped`, `together`, `contested`, `twice`, `raced`, `lost`,
`astray`, `parted`, `kept`, `unannounced`, `left`, `entered`, `between`) state
the other losses positively: a property holds unless the overlap, or the fault at the
one bad moment, has happened. That the exceptions are needed shows in the same models:
without them the properties fail.

## Fairness

`TopUps`, `Broadcast` and `Accounts` assume `WF_vars(Works)`; the other modules assume
nothing. As long as something in memory or on a
queue can go on, something does: the event loop runs what is ready, BullMQ's workers
take the next job, and a request to a provider is answered or throws (HTTP clients
report an error when the connection fails). Clients, providers' webhooks and
faults get no fairness: a webhook may never call. Weak fairness of the disjunction is
enough because every step of `Works` brings an activity or a job nearer to its end. In
`Broadcast`, `Works` is the worker and the rest of a request that has flushed; every page
that is not empty advances the offset, so users who enter and leave pages forever do not
keep a job alive. In `Accounts`, `Works` is what a request that has begun and the event
emitter do by themselves; requests are bounded, and each step of `Works` uses one up.

## Proofs

Every invariant and every action property of the passing runs is a theorem about the
module's `Spec`, for any values of its constants that meet the module's `ASSUME`s, and so
are the three refinements and the type invariants of all modules. (Of the type invariants
the runs list that of `Wallets`, which says that no balance is negative.) The assumptions say
no more than what the code's types and columns give: amounts are above zero
(`PositiveAmounts`), openings are not negative (`NaturalOpenings`), null is no payment,
request, number, account or counter (`NullIsNo...`, `NothingIsNoCounter`), a page or batch
has a size (`PositiveSizes`, `PositiveBatch`), there are so many users (`SizesAreNat`), no two Firebase accounts start with one
email (`EachItsOwnEmail`), bodies name an account or none and an email
(`BodiesNameAccounts`), the values that the code names are among those there are
(`ActiveIsAStatus`, `SubscriberIsARole`), requests have the fields of their DTO
(`RequestsAreRecords`), and bounds are numbers. `MaxFaults`, `MaxSaves`, `MaxRequests` and
the like may be any number; ledgers, attempts, interactions and campaigns have no bound.

None of the properties is inductive by itself. Each module states the strengthening it
needs as a conjunction of named parts, which TLC has checked on the instances above; it has
one lemma for each action and one step under it for each part the action can disturb.

| Module | Invariant | Theorems |
|---|---|---|
| `WalletsProofs` | `IInv` | `TypeCorrect`, `StatementAgreesWithBalance`, `NoDirtySnapshot`, `AtMostOneCredit`, `LostOnlyByOverlap`, `MoneyIsConserved`, `CoveredUnlessOverlapped`, `Implements` (the refinement of `WalletLedger`) |
| `TopUpsProofs` | `AInv`, `SInv`, `DInv`, `OInv` | `StepsAreWalletSteps` (the refinement of `Wallets`), `WalletsAreSafe`, `TypeCorrect`, `CreditsFollowRequests`, `WorkerCreditsOnce`, `FailedIsRefused`, `OnlyLateAnswersUndo`, `DebitsAreBounded`, `WalletsHoldWhatWasAskedFor`, `NothingIsForgotten`, `NothingOwedAtRest`, `WorkRunsOut`, `NoStepLeftAtRest` |
| `FundingProofs` | `IInv`, `Accounted`, with `IInv` of `WalletsProofs` | `StepsAreWalletSteps`, `TypeCorrect`, `CampaignsHaveDeductions`, `NothingTakenForNothing`, `EverythingIsAccountedFor`, `WalletsAreSafe` |
| `CampaignsProofs` | `IInv` | `TypeCorrect`, `CreditFollowsView`, `AtMostOneInteraction`, `CountersAreKept`, `StoppedStaysStopped` |
| `KycProofs` | `IInv` | `TypeCorrect`, `AtMostOnePending`, `ShownPendingIsPending`, `DecisionsAreFinal` |
| `PhoneProofs` | `IInv` | `TypeCorrect`, `MarkIsForTheNumber`, `SpentIsSpent` |
| `AccountsProofs` | `IInv` | `TypeCorrect`, `OneRowPerAccount`, `SignUpsHaveWallets`, `UncontestedIsSerial`, `OpenWhenHandled`, `WorkRunsOut` |
| `PagingProofs` | `LInv` (`Listings`), `BInv` (`Broadcast`) | `TypeCorrect`, `WalkShowsAll`, `WalkShowsOnce`; `BroadcastTypes`, `SentOnceToTheSteady`, `LastWordIsCurrent`, `WorkEnds`, `NothingLeftIsNothingToDo` |

What the invariants add, and why it is needed:

* **Wallets.** What calls in flight know. `NothingWithoutWallet`: a wallet's ledger is empty
  and nobody holds it before it is created, or creation would break the chain.
  `ReadsAreCommitted`: a call's snapshot is a balance of the ledger's past and covers its
  deduction, or a flush could post a row from nowhere or a negative balance.
  `AloneAndFresh`: a call on a wallet nobody shared is alone and up to date, or the chain
  of such a wallet could break at a flush. The sum of a ledger's rows is the cardinality
  of the units they moved (`Total`), so that a new row adds a disjoint set and the sum
  needs no induction over the ledger. With it `CoveredUnlessOverlapped` says where the
  refuted `DeductionsCovered` is true.
* **TopUps.** First, what an activity at each `await` may hold, that ids differ and that a
  job has one worker (`AInv`). With it every step is a step of `Wallets`, whose theorems
  then hold here. Second (`SInv`), what ties money to requests: a wallet read belongs
  to an activity that will flush it with the amount and the wallet of its payment's
  request, and only a webhook starts what leads there; one activity puts a payment to its
  provider, and until it has, no webhook comes; Paystack's one worker found the payment
  INITIATED, which a credited one never is again. Third (`DInv`), for the number of
  debits: a request that can still lead to a payment (`Open`: it is to be made, queued or
  about to be listened to, in one of these places only) has one payment fewer to its name
  than there may be; a crash that reopens it has used up a fault. Fourth (`OInv`), for what
  is owed to whom has paid: until a confirmed payment is settled, a webhook's listener or
  the worker holds it, or a job does. A listener that finds nothing must not be the last
  to hold it, so the status must tell what is still to come (`PaystackStatuses`,
  `CompletedIsOwed`); a job behind the worker must be the one it works on
  (`WorkerHasHead`), a confirmed payment one that was put to its provider
  (`CalledIsAsked`), and the wallet of a request there or one of those nobody has
  (`Reachable`). And `WalletsHoldWhatWasAskedFor` adds it all up, by a bijection between
  the units that credits moved and the units that were asked for.
* **CampaignFunding.** A call in the task of a request is that request's deduction, so every
  flushed debit moves one request on to its campaign; `Counted` compares deductions with
  campaigns and such requests. This invariant and that of `Wallets` each need the other's
  types and are proved together. `Accounted` compares what campaigns and such requests cost,
  in hundredths, with the total deducted; with what `WalletsProofs` says of balances it
  tells where everything put into a wallet is.
* **Campaigns.** Calls that share a campaign are on record (`SharedIsRecorded`); so one that
  is alone holds the counters and the row as they are (`LoneCallsAreFresh`), and one that
  found no row finds none when it saves. A row, once found, stays and its views never
  go back to 0, which is what makes credit follow the view under any overlap.
* **Kyc.** A decision nobody contests will find its attempt PENDING, a submission nobody
  doubled will find nothing pending, and what is pending is the newest of its level
  (`PendingIsNewest`), which is what the sign-in shows.
* **PhoneVerification.** Two requests of a user that ran at once know of each other
  (`BesideEachOther`); so a verification that met no save is about the row's number, and
  a save that met no verification clears a mark that is set. As long as the entry of an
  accepted code is in the cache, the verification that is to delete it is in progress, and
  so beside any other that looks, or it was lost (`SpentEntries`).
* **Accounts.** The index on emails and what is about to be written keep an account's id
  and email together, unless the account or a body parts them (`MatchInv`); what a
  sign-up's event is about is no admin's row (`WalletInv`); what an uncontested request has found is still in the row
  (`SerialInv`).
* **Broadcast and Listings.** Both rest on facts about a finite set in order, which the
  module proves once: an element's place is the number of elements up to it, places are
  taken without a gap, and a page is a range of places (`PageFits`, `PlacesAreTaken`,
  `PageIsFilled`). For `Broadcast`, whom the pages have not reached is ahead of the
  offset, or an earlier user left; whom they have reached is behind it, or one came
  (`WalkInv`). For `Listings` the same is said of rows in the reach of the pages that were
  found (`ReachInv`), for rows that are not listed too, since a campaign may return to
  its place; and `CountInv` says what the count, made before or after the page, still
  tells.

Only model-checked is liveness: `ConfirmedIsCredited` and `QueuesDrain` of `TopUps`,
`JobsDrain` of `Broadcast`, `WalletOpens` of `Accounts`. Their proofs need fairness and
`ENABLED`, which the prover cannot reason about. What they rest on is proved:

* a measure. `StepsLeft` counts the steps that what is in memory and on the queues can
  still take. It is a natural number, every step of `Works` lowers it, and only clients, webhooks
  and faults, of which a behaviour has finitely many, raise it (`WorkRunsOut` of `TopUps`
  and `Accounts`, `WorkEnds` of `Broadcast`). In `TopUps` and `Broadcast` it is 0 exactly
  when nothing is left to do. In `TopUps` a crash raises it, since a job that runs again
  has all its steps before it;
* what is true at rest. When nothing is left, every confirmed payment is settled
  (`NothingOwedAtRest`) and every sign-up has its wallet or lost it to a fault
  (`OpenWhenHandled`). These are corollaries of `ConfirmedIsOnItsWay` and
  `WalletsFollowSignUps`, which say of every state that what is owed is on its way.

What is left to TLC is that `Works` is enabled until then, and so taken.

The two properties that are violated (`DeductionsCovered`, `WithdrawalsDoNotCredit`) have
counterexamples instead.

## Not modelled, and why

* the withdrawal worker, `WalletRepository.debit`, `CampaignCreatedListener` with
  `linkTransaction`, and the second Zeepay listener: no module provides them;
* what Zeepay's callback reports, which the code never reads;
* `saveExtraProfileDetails` (PATCH /users/:id/extra-details): the DTO asks for a `Date`,
  JSON has a string, and nothing converts it, so the route answers 400; and GET
  /campaigns/created, which the route `:id` shadows;
* the guards for KYC level, verified phone and campaign owner, which are on no route, and
  the claims of tokens, which no route looks at beyond the user's id;
* `@Throttle` on the phone routes, without effect: no `ThrottlerGuard` is registered;
* the lists of admins, KYC rows and wallet transactions, which have no total order (or
  none at all) under LIMIT and OFFSET, so that what a page holds is up to Postgres;
* what POST /auth/login shows of the KYC levels: it populates no attempts;
* KYC_LEVEL_TWO_APPROVED, whose listener always throws, and the budget's units (wallets
  are charged `budget`, campaigns record `budget * 100`);
* other reads, formatting, validation, logging, configuration, seeders, migrations (except
  for the unique indexes and column widths the models use).

## Plan

1. Done: `WalletLedger`, `Wallets`, `TopUps`, `CampaignFunding`, `Campaigns`, `Kyc`,
   `PhoneVerification`, `Broadcast`, `Accounts`, `Listings`, with their runs.
2. Done: the safety properties and refinements as theorems.
3. Done: the safety halves of the liveness properties, and what the theorems about `Wallets`
   say of `TopUps` and `CampaignFunding` (`WalletsAreSafe`, `WalletsHoldWhatWasAskedFor`,
   `EverythingIsAccountedFor`).
4. Left: top-ups, campaigns and sign-ups as one system, on the wallets they share; shorter
   proofs where one lemma could serve several actions (`TopUpsProofs`).
