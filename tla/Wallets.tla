------------------------------- MODULE Wallets -------------------------------
(***************************************************************************)
(* Wallet rows and their ledger: WalletRepository (create,                 *)
(* deductFromWallet, topUpWallet) over Postgres.                           *)
(*                                                                         *)
(* Each call of the repository is two steps with an await between them:    *)
(* findOne reads the wallet row into an entity of the caller's own         *)
(* EntityManager, and persistAndFlush later writes the new balance, the    *)
(* wallet_transaction row and its change row in one database transaction   *)
(* (UPDATE ... WHERE id, no version column, no row lock).  Calls of        *)
(* different requests, event listeners and queue workers interleave        *)
(* between the two steps.                                                  *)
(*                                                                         *)
(* Abstracted: the id of a wallet is its owner (wallet.user_id is unique); *)
(* fees, which are 0 at every call site; currencies, references, texts and *)
(* the wallet_transaction_change row, which is written with every ledger   *)
(* row and never read.                                                     *)
(***************************************************************************)
EXTENDS Integers, Sequences, FiniteSets

CONSTANTS Owners,     \* users, and so wallets
          Payments,   \* ids of payment rows
          Amounts,    \* amounts that are deducted or topped up
          Openings,   \* balances a wallet is created with
          Calls,      \* slots for repository calls that run at the same time
          NoPayment   \* the null of wallet_transaction.payment_id

\* A zero amount would leave no change of balance to write; a campaign's budget
\* has @Min(1) and no provider confirms a payment of nothing.
ASSUME PositiveAmounts == Amounts \subseteq Nat \ {0}
ASSUME NaturalOpenings == Openings \subseteq Nat
ASSUME NullIsNoPayment == NoPayment \notin Payments

VARIABLES wallets,     \* owners that have a wallet row
          opening,     \* the balance each wallet was created with
          balance,     \* column wallet.balance
          ledger,      \* wallet_transaction rows of each wallet, in commit order
          inflight,    \* calls that have read a wallet and not yet flushed
          overlapped   \* history: owners of wallets that two calls had read at once

vars == <<wallets, opening, balance, ledger, inflight, overlapped>>
rows == <<wallets, opening, balance, ledger>>

Row == [type : {"CREDIT", "DEBIT"}, amount : Amounts, before : Nat, after : Nat,
        payment : Payments \union {NoPayment}]

Call == [call : Calls, type : {"CREDIT", "DEBIT"}, owner : Owners, amount : Amounts,
         before : Nat, payment : Payments \union {NoPayment}]

\* The payments that the unique index on wallet_transaction.payment_id holds.
Posted == {p \in Payments : \E u \in Owners : \E i \in DOMAIN ledger[u] : ledger[u][i].payment = p}

BalancesUpTo(u, n) == {opening[u]} \union {ledger[u][i].after : i \in 1..n}

\* The row a call flushes: topUpWallet adds to what it read, deductFromWallet
\* subtracts.
RowOf(f) == [type |-> f.type, amount |-> f.amount, before |-> f.before,
             after |-> IF f.type = "CREDIT" THEN f.before + f.amount ELSE f.before - f.amount,
             payment |-> f.payment]
-----------------------------------------------------------------------------
Init ==
    /\ wallets = {}
    /\ opening = [u \in Owners |-> 0]
    /\ balance = [u \in Owners |-> 0]
    /\ ledger = [u \in Owners |-> <<>>]
    /\ inflight = {}
    /\ overlapped = {}

\* create: one INSERT; the unique index on wallet.user_id refuses a second row.
CreateWallet(u, b) ==
    /\ u \notin wallets
    /\ wallets' = wallets \union {u}
    /\ opening' = [opening EXCEPT ![u] = b]
    /\ balance' = [balance EXCEPT ![u] = b]
    /\ UNCHANGED <<ledger, inflight, overlapped>>

\* Mutation: callers share one EntityManager, and read what another call has assigned
\* and not yet flushed.
ReadSharedEntity(c, type, u, a, p) ==
    /\ c \notin {f.call : f \in inflight}
    /\ u \in wallets
    /\ \E b \in {balance[u]} \union {RowOf(f).after : f \in {g \in inflight : g.owner = u}} :
           inflight' = inflight \union
               {[call |-> c, type |-> type, owner |-> u, amount |-> a, before |-> b, payment |-> p]}
    /\ overlapped' = overlapped \union {f.owner : f \in {g \in inflight : g.owner = u}}
    /\ UNCHANGED rows

\* What findOne and the assignments before the flush leave in memory.
Read(c, type, u, a, p) ==
    /\ c \notin {f.call : f \in inflight}
    /\ u \in wallets
    /\ inflight' = inflight \union
           {[call |-> c, type |-> type, owner |-> u, amount |-> a,
             before |-> balance[u], payment |-> p]}
    /\ overlapped' = overlapped \union {f.owner : f \in {g \in inflight : g.owner = u}}
    /\ UNCHANGED rows

\* topUpWallet up to its flush.  Without a wallet it returns null.
ReadForTopUp(c, u, a, p) == Read(c, "CREDIT", u, a, p)

\* Mutation: the balance is not checked.
DeductWithoutBalanceCheck(c, u, a) == Read(c, "DEBIT", u, a, NoPayment)

\* deductFromWallet up to its flush.  Without a wallet, or when the balance it
\* read is too small, it returns null.
ReadForDeduct(c, u, a) ==
    /\ balance[u] >= a
    /\ Read(c, "DEBIT", u, a, NoPayment)

\* Mutation: the balance is incremented in SQL, the row still says what was read.
FlushRelativeToCurrentBalance(f) ==
    /\ f.payment \notin Posted
    /\ balance' = [balance EXCEPT ![f.owner] = @ + RowOf(f).after - f.before]
    /\ ledger' = [ledger EXCEPT ![f.owner] = Append(@, RowOf(f))]
    /\ inflight' = inflight \ {f}
    /\ UNCHANGED <<wallets, opening, overlapped>>

\* Mutation: no unique index on payment_id.
FlushIgnoringPayment(f) ==
    /\ balance' = [balance EXCEPT ![f.owner] = RowOf(f).after]
    /\ ledger' = [ledger EXCEPT ![f.owner] = Append(@, RowOf(f))]
    /\ inflight' = inflight \ {f}
    /\ UNCHANGED <<wallets, opening, overlapped>>

\* Mutation: a call that has flushed is tried again with what it read.
FlushKeepingCall(f) ==
    /\ f.payment \notin Posted
    /\ balance' = [balance EXCEPT ![f.owner] = RowOf(f).after]
    /\ ledger' = [ledger EXCEPT ![f.owner] = Append(@, RowOf(f))]
    /\ UNCHANGED <<inflight, wallets, opening, overlapped>>

\* persistAndFlush([wallet, transaction, change]): the balance and the ledger row
\* commit together.
Flush(f) ==
    /\ f.payment \notin Posted
    /\ balance' = [balance EXCEPT ![f.owner] = RowOf(f).after]
    /\ ledger' = [ledger EXCEPT ![f.owner] = Append(@, RowOf(f))]
    /\ inflight' = inflight \ {f}
    /\ UNCHANGED <<wallets, opening, overlapped>>

\* The flush of a payment that already has a row breaks the unique index on
\* payment_id: the database rolls back the balance with it and the call throws.
RefuseSecondCredit(f) ==
    /\ f.payment \in Posted
    /\ inflight' = inflight \ {f}
    /\ UNCHANGED <<rows, overlapped>>

\* Any other database error at the flush: rolled back, the call throws.
FlushFails(f) ==
    /\ inflight' = inflight \ {f}
    /\ UNCHANGED <<rows, overlapped>>

\* The process stops (pm2 stop in the deployment): calls in memory are gone.
Crash ==
    /\ inflight # {}
    /\ inflight' = {}
    /\ UNCHANGED <<rows, overlapped>>

Begin ==
    \E c \in Calls, u \in Owners, a \in Amounts :
        \/ \E p \in Payments : ReadForTopUp(c, u, a, p)
        \/ ReadForDeduct(c, u, a)

End == \E f \in inflight : Flush(f) \/ RefuseSecondCredit(f) \/ FlushFails(f)

Next ==
    \/ \E u \in Owners, b \in Openings : CreateWallet(u, b)
    \/ Begin
    \/ End
    \/ Crash

Spec == Init /\ [][Next]_vars
-----------------------------------------------------------------------------
TypeOK ==
    /\ wallets \subseteq Owners
    /\ opening \in [Owners -> Nat]
    /\ balance \in [Owners -> Nat]
    /\ ledger \in [Owners -> Seq(Row)]
    /\ inflight \subseteq Call
    /\ overlapped \subseteq Owners

\* The balance column of a wallet is what the last committed row of its ledger
\* says, so an account statement never contradicts the balance shown
\* (getWalletBalance against findAllWalletTransactions), whatever was lost.
BalanceIsLastAfter ==
    \A u \in Owners :
        balance[u] = IF ledger[u] = <<>> THEN opening[u] ELSE ledger[u][Len(ledger[u])].after

\* Every row starts from a balance its wallet really had before that row was
\* committed: a stale snapshot perhaps, but never one of a write that was rolled
\* back or of another wallet.
RowsStartAtCommittedBalances ==
    \A u \in Owners : \A i \in DOMAIN ledger[u] :
        ledger[u][i].before \in BalancesUpTo(u, i - 1)

\* A payment tops up at most one wallet, at most once, however many webhooks,
\* redelivered jobs and listeners call topUpWallet for it.
CreditedOnce ==
    \A u, v \in Owners : \A i \in DOMAIN ledger[u], j \in DOMAIN ledger[v] :
        /\ ledger[u][i].payment = ledger[v][j].payment
        /\ ledger[u][i].payment # NoPayment
        => u = v /\ i = j

\* As long as no two calls have held the same wallet at once, its ledger is a
\* chain from the opening balance: no deposit or deduction is ever lost to
\* failures, refused flushes or crashes, only to overlap.
ChainedUnlessOverlapped ==
    \A u \in Owners \ overlapped : \A i \in DOMAIN ledger[u] :
        ledger[u][i].before = IF i = 1 THEN opening[u] ELSE ledger[u][i - 1].after

\* One element for every unit of money that the rows of a type have moved.
Units(u, type) ==
    UNION {{i} \X (1..ledger[u][i].amount) : i \in {j \in DOMAIN ledger[u] : ledger[u][j].type = type}}

Total(u, type) == Cardinality(Units(u, type))

\* As long as no two calls have held a wallet at once, its balance is the opening
\* balance plus everything topped up minus everything deducted: crashes, failed
\* flushes and repeated payments neither make nor destroy money.
MoneyConserved ==
    \A u \in wallets \ overlapped :
        balance[u] = opening[u] + Total(u, "CREDIT") - Total(u, "DEBIT")

Promise == INSTANCE WalletLedger

\* The repository implements the abstract ledger.
KeepsPromise == Promise!Spec
=============================================================================
