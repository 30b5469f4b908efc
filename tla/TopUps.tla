------------------------------- MODULE TopUps -------------------------------
(***************************************************************************)
(* Money coming in: from a request to fund a wallet, over the job queues,  *)
(* the payment row, the payment provider and its webhook, to the credit of *)
(* the wallet (module Wallets).                                            *)
(*                                                                         *)
(* Two routes lead in.  The mobile-money route (/wallets/:id/fund and the  *)
(* routes that reuse it) puts a job on the wallet-top-ups queue; the       *)
(* worker emits WALLET_TOP_UP_INITIATED and an in-memory listener creates  *)
(* the payment and asks the default provider, Zeepay or Junipay.  The      *)
(* Paystack route (/payments/initiate) does the same inside one HTTP       *)
(* request.  The provider later calls a webhook: Zeepay's runs an          *)
(* in-memory listener that marks the payment and emits PAYMENT_COMPLETED;  *)
(* Paystack's puts a job on the process-payment queue; Junipay's is only   *)
(* logged.                                                                 *)
(*                                                                         *)
(* Jobs are in Redis and survive a crash (a job is taken off its queue     *)
(* when its worker completes, so a crash runs it again).  Everything else  *)
(* that is in progress is in memory and does not.                          *)
(***************************************************************************)
EXTENDS Integers, Sequences, FiniteSets

CONSTANTS Owners,       \* wallet ids, named by their owners
          Payments,     \* ids of payment rows
          Amounts, Openings, NoPayment,
          Tasks,        \* bound: activities in memory at the same time
          Requests,     \* what clients ask for: [wallet, amount, intent]
          Ghosts,       \* wallet ids a client sends that no wallet row has
          NoRequest,
          MaxCallbacks, \* bound: webhook calls for one payment
          MaxFaults     \* bound: crashes and database errors

ASSUME RequestsAreRecords ==
    Requests \subseteq [wallet : Owners, amount : Amounts, intent : {"fund", "withdraw"}]
ASSUME GhostsAreIds == Ghosts \subseteq Owners
ASSUME BoundsAreNat == MaxCallbacks \in Nat /\ MaxFaults \in Nat
ASSUME NullIsNoRequest == NoRequest \notin Requests
\* As in Wallets.
ASSUME PositiveAmounts == Amounts \subseteq Nat \ {0}
ASSUME NaturalOpenings == Openings \subseteq Nat
ASSUME NullIsNoPayment == NoPayment \notin Payments

VARIABLES wallets, opening, balance, ledger, inflight, overlapped, \* see Wallets
          provider,     \* configuration payments.providers.default
          methods,      \* owners that have stored a payment method
          todo,         \* requests not made yet
          topUpJobs,    \* the wallet-top-ups queue
          topUpActive,  \* its worker has emitted the head job and not completed it
          payJobs,      \* the process-payment queue
          payment,      \* the payment table
          asked,        \* payments the provider knows of
          callbacks,    \* webhook calls made per payment
          running,      \* activities in memory: listeners, workers, HTTP requests
          faults,
          lost          \* history: payments whose confirmation a fault took out of memory

W == INSTANCE Wallets WITH Calls <- Tasks

walletVars == <<wallets, opening, balance, ledger, inflight, overlapped>>
queues == <<topUpJobs, topUpActive, payJobs>>
outside == <<provider, methods, todo, asked, callbacks>>
troubles == <<faults, lost>>
vars == <<walletVars, queues, outside, payment, running, troubles>>

Statuses == {"NONE", "INITIATED", "PENDING", "FAILED", "COMPLETED"}
Kinds == {"topUpInitiated", "initiatePayment", "zeepayWebhook", "paystackWebhook",
          "paymentCompleted", "processPayment"}

\* An activity: where it is, the payment it is about and the status it will write
\* ("NONE" when the entity it read leaves nothing to write).
Activity == [id : Tasks, kind : Kinds,
             at : {"start", "ask", "waiting", "answered", "find", "save", "credit", "flush"},
             request : Requests \union {NoRequest}, payment : Payments \union {NoPayment},
             to : Statuses]

PaymentRow == [status : Statuses, route : {"momo", "paystack"},
               request : Requests \union {NoRequest}]

NoRow == [status |-> "NONE", route |-> "momo", request |-> NoRequest]

Credited(p) == p \in W!Posted
Free == Tasks \ {act.id : act \in running}

\* Moves activity act to `at`, about payment p, about to write status `to`.
Move(act, at, p, to) ==
    running' = (running \ {act}) \union {[act EXCEPT !.at = at, !.payment = p, !.to = to]}

\* A new activity, in any free slot.
Start(kind, at, r, p, to) ==
    /\ Free # {}
    /\ running' = running \union
           {[id |-> CHOOSE id \in Free : TRUE, kind |-> kind, at |-> at, request |-> r, payment |-> p, to |-> to]}

\* Activity act ends; with the worker of process-payment, its job ends too.
Ends(act) ==
    /\ running' = running \ {act}
    /\ payJobs' = IF act.kind = "processPayment" THEN Tail(payJobs) ELSE payJobs
    /\ UNCHANGED <<topUpJobs, topUpActive>>
-----------------------------------------------------------------------------
Init ==
    /\ W!Init
    /\ provider \in {"ZEEPAY", "JUNIPAY"}
    /\ methods = Ghosts   \* bound: who names a wallet that does not exist can pay
    /\ todo = Requests
    /\ topUpJobs = <<>> /\ topUpActive = FALSE /\ payJobs = <<>>
    /\ payment = [p \in Payments |-> NoRow]
    /\ asked = {}
    /\ callbacks = [p \in Payments |-> 0]
    /\ running = {}
    /\ faults = 0 /\ lost = {}

\* Mutation: the wallet is upserted on its owner instead of inserted.
OpenWalletUpserts(u, b) ==
    /\ u \notin Ghosts
    /\ wallets' = wallets \union {u}
    /\ opening' = [opening EXCEPT ![u] = b]
    /\ balance' = [balance EXCEPT ![u] = b]
    /\ UNCHANGED <<ledger, inflight, overlapped, queues, outside, payment, running, troubles>>

\* A user signs up and gets a wallet.
OpenWallet(u, b) ==
    /\ u \notin Ghosts
    /\ W!CreateWallet(u, b)
    /\ UNCHANGED <<queues, outside, payment, running, troubles>>

\* POST /payments/methods: one insert; nothing changes or deletes a method.  (Bound: a
\* client stores one while a request is still to be made; later is as good as never
\* for a job that has run, and as good as before for one that has not.)
CreatePaymentMethod(u) ==
    /\ u \notin methods
    /\ \E r \in todo : r.wallet = u
    /\ methods' = methods \union {u}
    /\ UNCHANGED <<walletVars, queues, provider, todo, asked, callbacks, payment, running, troubles>>

\* fundWallet and fundWalletAlternative: the request becomes a job.  A wallet id is
\* known once the wallet exists, or it is one that never will.
FundWallet(r) ==
    /\ r \in todo
    /\ r.wallet \in wallets \union Ghosts
    /\ todo' = todo \ {r}
    /\ topUpJobs' = Append(topUpJobs, r)
    /\ UNCHANGED <<walletVars, topUpActive, payJobs, provider, methods, asked, callbacks, payment,
                   running, troubles>>

\* The worker of wallet-top-ups emits WALLET_TOP_UP_INITIATED; the listener starts.
EmitTopUpInitiated ==
    /\ topUpJobs # <<>>
    /\ ~topUpActive
    /\ topUpActive' = TRUE
    /\ Start("topUpInitiated", "start", Head(topUpJobs), NoPayment, "NONE")
    /\ UNCHANGED <<walletVars, topUpJobs, payJobs, outside, payment, troubles>>

\* process has returned: BullMQ takes the job off the queue.
CompleteTopUpJob ==
    /\ topUpActive
    /\ topUpActive' = FALSE
    /\ topUpJobs' = Tail(topUpJobs)
    /\ UNCHANGED <<walletVars, payJobs, outside, payment, running, troubles>>

\* The id of the next payment row.
Fresh == {p \in Payments : payment[p].status = "NONE"}
NextPayment == CHOOSE p \in Fresh : TRUE

NewPayment(p, r, route) ==
    /\ Fresh # {}
    /\ payment' = [payment EXCEPT ![p] =
           [status |-> "INITIATED", route |-> route, request |-> r]]

\* The listener creates the payment row, from the client's payment method.
CreatePayment(act) ==
    /\ act.kind = "topUpInitiated" /\ act.at = "start"
    /\ act.request.wallet \in methods
    /\ NewPayment(NextPayment, act.request, "momo")
    /\ Move(act, "ask", NextPayment, "NONE")
    /\ UNCHANGED <<walletVars, queues, outside, troubles>>

\* create returns null: the payment method of the request does not exist.
NoPaymentMethod(act) ==
    /\ act.kind = "topUpInitiated" /\ act.at = "start"
    /\ act.request.wallet \notin methods
    /\ Ends(act)
    /\ UNCHANGED <<walletVars, outside, payment, troubles>>

\* initiatePayment: the HTTP request creates the payment row itself.
InitiatePayment(r) ==
    /\ r \in todo /\ r.intent = "fund"
    /\ r.wallet \in wallets \union Ghosts
    /\ todo' = todo \ {r}
    /\ NewPayment(NextPayment, r, "paystack")
    /\ Start("initiatePayment", "ask", r, NextPayment, "NONE")
    /\ UNCHANGED <<walletVars, queues, provider, methods, asked, callbacks, troubles>>
-----------------------------------------------------------------------------
\* The request to the provider: from here on its webhook may call.
SendRequest(act) ==
    /\ act.at = "ask"
    /\ asked' = asked \union {act.payment}
    /\ Move(act, "waiting", act.payment, "NONE")
    /\ UNCHANGED <<walletVars, queues, provider, methods, todo, callbacks, payment, troubles>>

\* Mutation: a listener that throws puts its job back on the queue.
RequestThrowsAndRequeues(act) ==
    /\ act.at \in {"ask", "waiting"}
    /\ act.kind = "topUpInitiated"
    /\ running' = running \ {act}
    /\ topUpJobs' = Append(topUpJobs, act.request)
    /\ UNCHANGED <<walletVars, topUpActive, payJobs, outside, payment, troubles>>

\* The provider refuses, or its acceptance never arrives.  ZeepayService and
\* JunipayService throw, which ends the listener; PaystackService answers
\* status: false, and the request goes on to mark the payment FAILED.
RequestThrows(act) ==
    /\ act.at \in {"ask", "waiting"}
    /\ act.kind = "topUpInitiated"
    /\ Ends(act)
    /\ UNCHANGED <<walletVars, outside, payment, troubles>>

PaystackFails(act) ==
    /\ act.at \in {"ask", "waiting"}
    /\ act.kind = "initiatePayment"
    /\ Move(act, "find", act.payment, "FAILED")
    /\ UNCHANGED <<walletVars, queues, outside, payment, troubles>>

\* Junipay answers 200 with another code in the body: isSuccessful is false.
JunipayDeclines(act) ==
    /\ act.at = "ask" /\ act.kind = "topUpInitiated"
    /\ provider = "JUNIPAY"
    /\ Move(act, "answered", act.payment, "FAILED")
    /\ UNCHANGED <<walletVars, queues, outside, payment, troubles>>

\* Mutation: the acceptance of a debit is taken for its completion.
CreditOnAcceptance(act) ==
    /\ act.at = "waiting" /\ act.kind = "topUpInitiated"
    /\ Move(act, "credit", act.payment, "NONE")
    /\ UNCHANGED <<walletVars, queues, outside, payment, troubles>>

\* Mutation: the listener compares with a code, as Junipay's client already has.
AcceptedByCode(act) ==
    /\ act.at = "waiting" /\ act.kind = "topUpInitiated"
    /\ Move(act, "answered", act.payment, "FAILED")
    /\ UNCHANGED <<walletVars, queues, outside, payment, troubles>>

\* The provider's acceptance.  A DebitResponse of Zeepay has no isSuccessful, so
\* the listener takes it for a failure; Junipay's has.
MomoAccepted(act) ==
    /\ act.at = "waiting" /\ act.kind = "topUpInitiated"
    /\ Move(act, "answered", act.payment, IF provider = "JUNIPAY" THEN "PENDING" ELSE "FAILED")
    /\ UNCHANGED <<walletVars, queues, outside, payment, troubles>>

PaystackAccepted(act) ==
    /\ act.at = "waiting" /\ act.kind = "initiatePayment"
    /\ Ends(act)
    /\ UNCHANGED <<walletVars, outside, payment, troubles>>

\* PaymentRepository.update: the entity was INITIATED when it was created, so the
\* status is written whatever the row says by now.
RecordAnswer(act) ==
    /\ act.at = "answered"
    /\ payment' = [payment EXCEPT ![act.payment].status = act.to]
    /\ Ends(act)
    /\ UNCHANGED <<walletVars, outside, troubles>>

\* The JSON of the answer does not fit varchar(255): the flush throws.
AnswerTooLong(act) ==
    /\ act.at = "answered"
    /\ Ends(act)
    /\ UNCHANGED <<walletVars, outside, payment, troubles>>
-----------------------------------------------------------------------------
\* The provider calls its webhook, perhaps more than once.
CallsBack(p) ==
    /\ p \in asked
    /\ callbacks[p] < MaxCallbacks
    /\ callbacks' = [callbacks EXCEPT ![p] = @ + 1]

ZeepayCallback(p) ==
    /\ CallsBack(p)
    /\ payment[p].route = "momo" /\ provider = "ZEEPAY"
    /\ Start("zeepayWebhook", "find", NoRequest, p, "COMPLETED")
    /\ UNCHANGED <<walletVars, queues, provider, methods, todo, asked, payment, troubles>>

\* handleJunipay only logs the payload.
JunipayCallback(p) ==
    /\ CallsBack(p)
    /\ payment[p].route = "momo" /\ provider = "JUNIPAY"
    /\ UNCHANGED <<walletVars, queues, provider, methods, todo, asked, payment, running, troubles>>

\* A charge.success event, with the status it carries mapped by retrieveStatus.
PaystackCallback(p, to) ==
    /\ CallsBack(p)
    /\ payment[p].route = "paystack"
    /\ to \in {"COMPLETED", "FAILED"}
    /\ Start("paystackWebhook", "start", NoRequest, p, to)
    /\ UNCHANGED <<walletVars, queues, provider, methods, todo, asked, payment, troubles>>

\* The listener of Paystack's webhook puts the job on the process-payment queue.
EnqueueProcessPayment(act) ==
    /\ act.kind = "paystackWebhook" /\ act.at = "start"
    /\ payJobs' = Append(payJobs, [payment |-> act.payment, to |-> act.to])
    /\ running' = running \ {act}
    /\ UNCHANGED <<walletVars, topUpJobs, topUpActive, outside, payment, troubles>>

\* The worker of process-payment (concurrency 1) takes the next job.
StartProcessPayment ==
    /\ payJobs # <<>>
    /\ \A act \in running : act.kind # "processPayment"
    /\ Start("processPayment", "find", NoRequest, Head(payJobs).payment, Head(payJobs).to)
    /\ UNCHANGED <<walletVars, queues, outside, payment, troubles>>

\* Mutation: the worker updates a payment whatever its status.
MatchesAnyStatus(act) == payment[act.payment].status # "NONE"

\* Mutation: Zeepay's listener looks only for payments that are PENDING.
MatchesPendingOnly(act) ==
    payment[act.payment].status = IF act.kind = "zeepayWebhook" THEN "PENDING" ELSE "INITIATED"

\* updateStatus looks the payment up by reference; the process-payment worker and
\* initiatePayment also by status INITIATED.
Matches(act) ==
    IF act.kind = "zeepayWebhook" THEN payment[act.payment].status # "NONE"
                                  ELSE payment[act.payment].status = "INITIATED"

FindPayment(act) ==
    /\ act.at = "find" /\ Matches(act)
    /\ Move(act, "save", act.payment,
            IF payment[act.payment].status = act.to THEN "NONE" ELSE act.to)
    /\ UNCHANGED <<walletVars, queues, outside, payment, troubles>>

\* Mutation: a job without a matching payment fails and is tried again.
PaymentNotFoundRetries(act) ==
    /\ act.at = "find" /\ ~Matches(act)
    /\ running' = running \ {act}
    /\ UNCHANGED <<walletVars, queues, outside, payment, troubles>>

\* updateStatus returns null.
PaymentNotFound(act) ==
    /\ act.at = "find" /\ ~Matches(act)
    /\ Ends(act)
    /\ UNCHANGED <<walletVars, outside, payment, troubles>>

\* updateStatus flushes.  Then initiatePayment answers with an error, Zeepay's
\* listener emits PAYMENT_COMPLETED and ends, and the worker goes on to the credit
\* whatever status it has written.
SavePayment(act) ==
    /\ act.at = "save"
    /\ payment' = [payment EXCEPT ![act.payment].status = IF act.to = "NONE" THEN @ ELSE act.to]
    /\ running' = (running \ {act}) \union
           CASE act.kind = "zeepayWebhook" ->
                    {[act EXCEPT !.kind = "paymentCompleted", !.at = "credit", !.to = "NONE"]}
             [] act.kind = "processPayment" -> {[act EXCEPT !.at = "credit", !.to = "NONE"]}
             [] OTHER -> {}
    /\ UNCHANGED <<walletVars, queues, outside, troubles>>

\* topUpWallet, called by handlePaymentCompletedEvent and handlePaymentAction.
ReadWallet(act) ==
    /\ act.at = "credit"
    /\ LET r == payment[act.payment].request
       IN  W!ReadForTopUp(act.id, r.wallet, r.amount, act.payment)
    /\ Move(act, "flush", act.payment, "NONE")
    /\ UNCHANGED <<queues, outside, payment, troubles>>

\* topUpWallet returns null.
NoWallet(act) ==
    /\ act.at = "credit"
    /\ payment[act.payment].request.wallet \notin wallets
    /\ Ends(act)
    /\ UNCHANGED <<walletVars, outside, payment, troubles>>

FlushWallet(act) ==
    /\ act.at = "flush"
    /\ \E f \in inflight : f.call = act.id /\ (W!Flush(f) \/ W!RefuseSecondCredit(f))
    /\ Ends(act)
    /\ UNCHANGED <<outside, payment, troubles>>
-----------------------------------------------------------------------------
\* Activities that carry a webhook's confirmation; and those of them that only read
\* so far for a job that is still on its queue, which Redis delivers again.
Confirming == {act \in running : act.kind \notin {"topUpInitiated", "initiatePayment"}}
Redelivered == {act \in running : act.kind = "processPayment" /\ act.at \in {"find", "save"}}

\* A database error where an activity reads or writes: nothing is written and the
\* error ends it (Nest logs what a listener throws, the worker catches it).
DatabaseFails(act) ==
    /\ faults < MaxFaults
    /\ faults' = faults + 1
    /\ lost' = lost \union {a.payment : a \in {act} \intersect Confirming}
    /\ act.at \in {"start", "answered", "find", "save", "credit", "flush"}
    /\ Ends(act)
    /\ IF act.at = "flush"
       THEN \E f \in inflight : f.call = act.id /\ W!FlushFails(f)
       ELSE UNCHANGED walletVars
    /\ UNCHANGED <<outside, payment>>

\* The process stops and starts again: memory is lost, the queues are not.
Crash ==
    /\ faults < MaxFaults
    /\ running # {} \/ topUpActive
    /\ faults' = faults + 1
    /\ lost' = lost \union {act.payment : act \in Confirming \ Redelivered}
    /\ running' = {}
    /\ topUpActive' = FALSE
    /\ inflight' = {}
    /\ UNCHANGED <<wallets, opening, balance, ledger, overlapped, topUpJobs, payJobs, outside,
                   payment>>

\* POST /wallets/:id/fund, and the two withdraw routes that reuse it.
WalletRoutes == \E r \in Requests : FundWallet(r)

\* POST /payments/methods and /payments/initiate.
PaymentRoutes ==
    \/ \E u \in Owners : CreatePaymentMethod(u)
    \/ \E r \in Requests : InitiatePayment(r)

Clients ==
    \/ \E u \in Owners, b \in Openings : OpenWallet(u, b)
    \/ WalletRoutes
    \/ PaymentRoutes

Provider ==
    \E p \in Payments :
        \/ ZeepayCallback(p) \/ JunipayCallback(p)
        \/ \E to \in {"COMPLETED", "FAILED"} : PaystackCallback(p, to)

\* What the workers and the event loop run without anyone asking.
Works ==
    \/ EmitTopUpInitiated \/ CompleteTopUpJob \/ StartProcessPayment
    \/ \E act \in running :
           \/ CreatePayment(act) \/ NoPaymentMethod(act)
           \/ SendRequest(act) \/ RequestThrows(act) \/ PaystackFails(act)
           \/ JunipayDeclines(act) \/ MomoAccepted(act) \/ PaystackAccepted(act)
           \/ RecordAnswer(act) \/ AnswerTooLong(act)
           \/ EnqueueProcessPayment(act)
           \/ FindPayment(act) \/ PaymentNotFound(act) \/ SavePayment(act)
           \/ ReadWallet(act) \/ NoWallet(act) \/ FlushWallet(act)

Faults == Crash \/ \E act \in running : DatabaseFails(act)

Next == Clients \/ Provider \/ Works \/ Faults

\* The event loop and the workers keep running; clients, providers and faults do as
\* they like.
Spec == Init /\ [][Next]_vars /\ WF_vars(Works)
-----------------------------------------------------------------------------
TypeOK ==
    /\ W!TypeOK
    /\ provider \in {"ZEEPAY", "JUNIPAY"}
    /\ methods \subseteq Owners
    /\ todo \subseteq Requests
    /\ topUpJobs \in Seq(Requests) /\ topUpActive \in BOOLEAN
    /\ payJobs \in Seq([payment : Payments, to : {"COMPLETED", "FAILED"}])
    /\ payment \in [Payments -> PaymentRow]
    /\ asked \subseteq Payments
    /\ callbacks \in [Payments -> 0..MaxCallbacks]
    /\ running \subseteq Activity
    /\ faults \in 0..MaxFaults
    /\ lost \subseteq Payments

\* Money appears in a wallet only for a payment that was put to its provider and
\* confirmed by a webhook, and then it is the amount and the wallet the client
\* asked for, however jobs and listeners were repeated in between.
CreditsAreAskedFor ==
    \A u \in Owners : \A i \in DOMAIN ledger[u] :
        LET row == ledger[u][i]
        IN  /\ row.payment \in asked
            /\ callbacks[row.payment] > 0
            /\ row.amount = payment[row.payment].request.amount
            /\ u = payment[row.payment].request.wallet

\* The process-payment worker starts at most one top-up for a Paystack payment, and
\* none once it is credited: filtering on INITIATED is enough to make repeated
\* webhooks and redelivered jobs harmless, without the unique index.
PaystackCreditsOnce ==
    \A p \in Payments : payment[p].route = "paystack" =>
        LET crediting == {act \in running : act.payment = p /\ act.at \in {"credit", "flush"}}
        IN  Cardinality(crediting) + (IF Credited(p) THEN 1 ELSE 0) <= 1

\* A request leads to at most one payment, and so to at most one debit of the
\* client's phone, plus one for each crash that made its job run again.
OneDebitPerRequest ==
    \A r \in Requests : Cardinality({p \in Payments : payment[p].request = r}) <= 1 + faults

\* A payment that is COMPLETED loses that status only to the answer of the request
\* that started it, arriving after the webhook.
OnlyLateAnswersUndoCompletion ==
    [][\A p \in Payments :
           payment[p].status = "COMPLETED" /\ payment'[p].status # "COMPLETED" =>
               \E act \in running \ running' :
                   act.payment = p /\ act.kind \in {"topUpInitiated", "initiatePayment"}]_vars

\* The listener logs 'Payment request failed' when it marks a payment FAILED
\* (wallet-top-up-initiated.listener.ts:60).  FAILED then means that the provider never took
\* the request, so that the client may safely ask again; only Zeepay's answers, which have
\* no isSuccessful, make the listener mark what was taken.
FailedMeansRefused ==
    \A p \in Payments :
        payment[p].route = "momo" /\ payment[p].status = "FAILED" =>
            p \notin asked \/ provider = "ZEEPAY"

\* Nothing that the queues and the event loop still have to do.
Quiet == running = {} /\ topUpJobs = <<>> /\ payJobs = <<>>

\* A confirmed payment is in the wallet, or it never will be: a fault took the confirmation
\* out of memory, the wallet does not exist, the provider is Junipay, or Paystack's answer
\* was lost and the payment marked FAILED first.
Settled(p) ==
    \/ Credited(p)
    \/ p \in lost
    \/ payment[p].request \in {r \in Requests : r.wallet \in Ghosts}
    \/ payment[p].route = "momo" /\ provider = "JUNIPAY"
    \/ payment[p].route = "paystack" /\ payment[p].status = "FAILED"

\* A confirmed payment is never forgotten: until it is settled, something in memory or a job
\* holds its confirmation, however webhooks, answers of the provider, redelivered jobs and
\* faults are interleaved.  So nothing is owed when all is quiet.
ConfirmedIsOnItsWay ==
    \A p \in Payments : callbacks[p] > 0 =>
        \/ Settled(p)
        \/ \E act \in Confirming : act.payment = p
        \/ \E i \in DOMAIN payJobs : payJobs[i].payment = p

\* And it is settled in the end.  Faults at any time but the one in lost are made good: a
\* process-payment job that a crash stops before it has saved the status runs again and
\* credits.
ConfirmedIsCredited == \A p \in Payments : callbacks[p] > 0 ~> Settled(p)

\* Whatever happens to the process, the queues are worked off.
QueuesDrain == <>[]Quiet

\* The most steps that what is in memory and on the queues can still take: an activity by
\* the place it awaits at; a job until its worker ends, less what its activity has in hand.
StepsFrom == [start |-> 20, ask |-> 7, waiting |-> 6, answered |-> 5, find |-> 4, save |-> 3,
              credit |-> 2, flush |-> 1]
StepsOf(acts) == UNION {{act} \X (1..StepsFrom[act.at]) : act \in acts}
StepsLeft ==
    Cardinality(StepsOf(running))
        + 22 * Len(topUpJobs) - (IF topUpActive THEN 21 ELSE 0)
        + 7 * Len(payJobs) - (IF \E act \in running : act.kind = "processPayment" THEN 6 ELSE 0)

\* Every step that the event loop and the workers take by themselves brings the system nearer
\* to rest: no listener, worker or redelivered job starts another without end.  Only a
\* client's request, a webhook or a fault gives them more to do.
WorkIsUsedUp ==
    [][/\ Works => StepsLeft' < StepsLeft
       /\ StepsLeft' > StepsLeft => todo' # todo \/ callbacks' # callbacks \/ faults' > faults]_vars

\* Every step is a step of Wallets: what is proved there holds here.
WalletSteps == W!Spec
-----------------------------------------------------------------------------
\* POST /wallets/:id/withdraw answers 'wallet withdrawal initiated'
\* (wallets.controller.ts:95): a withdrawal does not add to the wallet.
WithdrawalsDoNotCredit ==
    \A p \in Payments : Credited(p) => payment[p].request.intent # "withdraw"
=============================================================================
