--------------------------- MODULE CampaignFunding ---------------------------
(***************************************************************************)
(* Paying for a campaign: CampaignsService.create over the wallets of      *)
(* module Wallets and the campaign table.                                  *)
(*                                                                         *)
(* One HTTP request takes the budget from the user's wallet in one         *)
(* database transaction and inserts the campaign in another, with awaits   *)
(* between.  No step undoes the deduction when the campaign is not         *)
(* created: the user is missing, the database refuses the row (a           *)
(* perInteractionCost of budget * 100 / targetReach is seldom the integer  *)
(* its column takes), or the process stops.  CAMPAIGN_CREATED is emitted   *)
(* to nobody: CampaignCreatedListener, which would link the transaction to *)
(* the campaign, is registered in no module.                               *)
(*                                                                         *)
(* Meanwhile payments top the same wallets up.                             *)
(***************************************************************************)
EXTENDS Integers, Sequences, FiniteSets

CONSTANTS Owners, Payments, Amounts, Openings, NoPayment,
          Tasks,       \* bound: requests and top-ups in memory at the same time
          MaxFaults    \* bound: refused rows, database errors and crashes

ASSUME BoundIsNat == MaxFaults \in Nat
\* As in Wallets.
ASSUME PositiveAmounts == Amounts \subseteq Nat \ {0}
ASSUME NaturalOpenings == Openings \subseteq Nat
ASSUME NullIsNoPayment == NoPayment \notin Payments

VARIABLES wallets, opening, balance, ledger, inflight, overlapped, \* see Wallets
          creating,   \* POST /campaigns requests under way
          campaigns,  \* the campaign table, in commit order
          faults

W == INSTANCE Wallets WITH Calls <- Tasks

walletVars == <<wallets, opening, balance, ledger, inflight, overlapped>>
vars == <<walletVars, creating, campaigns, faults>>

Request == [task : Tasks, user : Owners, budget : Amounts, at : {"deduct", "flush", "create"}]
Campaign == [user : Owners, budget : Nat]

Busy == {f.call : f \in inflight} \union {r.task : r \in creating}

\* Request r goes on at `at`; or it is answered.
Move(r, at) == creating' = (creating \ {r}) \union {[r EXCEPT !.at = at]}
Answered(r) == creating' = creating \ {r}

\* The campaign row of a request: its budget column counts hundredths.
RowFor(r) == [user |-> r.user, budget |-> 100 * r.budget]
-----------------------------------------------------------------------------
Init ==
    /\ W!Init
    /\ creating = {}
    /\ campaigns = <<>>
    /\ faults = 0

\* A user signs up and gets a wallet.
OpenWallet(u, b) ==
    /\ W!CreateWallet(u, b)
    /\ UNCHANGED <<creating, campaigns, faults>>

\* A confirmed payment tops a wallet up, in a task of its own.
TopUp ==
    /\ \/ \E t \in Tasks \ Busy, u \in Owners, a \in Amounts, p \in Payments :
              W!ReadForTopUp(t, u, a, p)
       \/ \E f \in inflight : f.type = "CREDIT" /\ (W!Flush(f) \/ W!RefuseSecondCredit(f))
    /\ UNCHANGED <<creating, campaigns, faults>>

\* POST /campaigns.
Ask(t, u, b) ==
    /\ t \notin Busy
    /\ creating' = creating \union {[task |-> t, user |-> u, budget |-> b, at |-> "deduct"]}
    /\ UNCHANGED <<walletVars, campaigns, faults>>

\* Mutation: deductFromWallet does not look at the balance.
ReadWalletUnchecked(r) ==
    /\ r.at = "deduct"
    /\ W!Read(r.task, "DEBIT", r.user, r.budget, NoPayment)
    /\ Move(r, "flush")
    /\ UNCHANGED <<campaigns, faults>>

\* deductFromWallet reads the wallet.
ReadWallet(r) ==
    /\ r.at = "deduct"
    /\ W!ReadForDeduct(r.task, r.user, r.budget)
    /\ Move(r, "flush")
    /\ UNCHANGED <<campaigns, faults>>

\* It returns null, for want of a wallet or of balance: 'failed to deduct from your
\* wallet'.
RefuseDeduction(r) ==
    /\ r.at = "deduct"
    /\ r.user \notin wallets \/ balance[r.user] < r.budget
    /\ Answered(r)
    /\ UNCHANGED <<walletVars, campaigns, faults>>

\* deductFromWallet flushes, and the request goes on.
FlushWallet(r) ==
    /\ r.at = "flush"
    /\ \E f \in inflight : f.call = r.task /\ W!Flush(f)
    /\ Move(r, "create")
    /\ UNCHANGED <<campaigns, faults>>

\* deductFromWallet throws at its flush; create answers as if it had returned null.
DeductionFails(r) ==
    /\ faults < MaxFaults
    /\ faults' = faults + 1
    /\ r.at = "flush"
    /\ \E f \in inflight : f.call = r.task /\ W!FlushFails(f)
    /\ Answered(r)
    /\ UNCHANGED campaigns

\* Mutation: the campaign is inserted while the deduction is still to be flushed.
CreateBeforeFlush(r) ==
    /\ r.at = "flush"
    /\ campaigns' = Append(campaigns, RowFor(r))
    /\ Answered(r)
    /\ UNCHANGED <<walletVars, faults>>

\* CampaignRepository.create inserts the campaign.
CreateCampaign(r) ==
    /\ r.at = "create"
    /\ campaigns' = Append(campaigns, RowFor(r))
    /\ Answered(r)
    /\ UNCHANGED <<walletVars, faults>>

\* Mutation: a request whose campaign is refused runs again from the start.
CreateFailsAndRetries(r) ==
    /\ r.at = "create"
    /\ Move(r, "deduct")
    /\ UNCHANGED <<walletVars, campaigns, faults>>

\* It returns null ('failed to create campaign') or throws; the deduction stays.
CreateFails(r) ==
    /\ faults < MaxFaults
    /\ faults' = faults + 1
    /\ r.at = "create"
    /\ Answered(r)
    /\ UNCHANGED <<walletVars, campaigns>>

\* The process stops: requests are gone, without an answer.
Crash ==
    /\ faults < MaxFaults
    /\ faults' = faults + 1
    /\ creating # {} \/ inflight # {}
    /\ creating' = {}
    /\ inflight' = {}
    /\ UNCHANGED <<wallets, opening, balance, ledger, overlapped, campaigns>>

Next ==
    \/ \E u \in Owners : \/ \E b \in Openings : OpenWallet(u, b)
                         \/ \E t \in Tasks, b \in Amounts : Ask(t, u, b)
    \/ TopUp
    \/ \E r \in creating :
           \/ ReadWallet(r) \/ RefuseDeduction(r) \/ FlushWallet(r) \/ DeductionFails(r)
           \/ CreateCampaign(r) \/ CreateFails(r)
    \/ Crash

Spec == Init /\ [][Next]_vars
-----------------------------------------------------------------------------
TypeOK ==
    /\ W!TypeOK
    /\ creating \subseteq Request
    /\ campaigns \in Seq(Campaign)
    /\ faults \in 0..MaxFaults

\* Deductions of b from u's wallet, campaigns of that budget, and requests between the two.
Deductions(u, b) ==
    {i \in DOMAIN ledger[u] : ledger[u][i].type = "DEBIT" /\ ledger[u][i].amount = b}
Created(u, b) == {i \in DOMAIN campaigns : campaigns[i] = [user |-> u, budget |-> 100 * b]}
PaidFor(u, b) == {r \in creating : r.user = u /\ r.budget = b /\ r.at = "create"}

\* Every campaign was paid for by a deduction of its own, however requests overlap.
CampaignsArePaid ==
    \A u \in Owners, b \in Amounts :
        Cardinality(Created(u, b)) + Cardinality(PaidFor(u, b)) <= Cardinality(Deductions(u, b))

\* Without a fault, nobody is charged for a campaign that is neither there nor about to
\* be: no interleaving of requests and top-ups takes a budget for nothing.
BudgetLostOnlyToFaults ==
    faults = 0 => \A u \in Owners, b \in Amounts :
        Cardinality(Deductions(u, b)) <= Cardinality(Created(u, b)) + Cardinality(PaidFor(u, b))

\* One element for every hundredth that u's campaigns cost, and for every unit taken for
\* a campaign that is about to be inserted.
Costs(u) ==
    UNION {{i} \X (1..campaigns[i].budget) : i \in {j \in DOMAIN campaigns : campaigns[j].user = u}}
Taken(u) ==
    UNION {{r} \X (1..r.budget) : r \in {s \in creating : s.user = u /\ s.at = "create"}}

\* Everything put into a wallet that two calls never held at once is in its balance, in
\* its user's campaigns or on its way into one; a fault can only lose some of it.
MoneyAccountedFor ==
    \A u \in wallets \ overlapped :
        LET put == 100 * (opening[u] + W!Total(u, "CREDIT"))
            there == 100 * (balance[u] + Cardinality(Taken(u))) + Cardinality(Costs(u))
        IN  there <= put /\ (faults = 0 => there = put)

\* Every step is a step of Wallets: what is proved there holds here.
WalletSteps == W!Spec
=============================================================================
