---------------------------- MODULE WalletLedger ----------------------------
(***************************************************************************)
(* What the wallet tables promise to the rest of AdBox, whatever requests, *)
(* listeners and workers run at the same time.  A wallet row is opened     *)
(* once.  After that every change of its balance comes with one row of     *)
(* wallet_transaction, posted in the same database transaction; the row    *)
(* starts at a balance the wallet once had, ends at the new balance, and   *)
(* no two rows carry the same payment.  The promise deliberately does not  *)
(* say that a row starts at the CURRENT balance: the code does not lock    *)
(* the wallet between reading it and writing it.                           *)
(***************************************************************************)
EXTENDS Integers, Sequences

CONSTANTS Owners, Payments, Amounts, Openings, NoPayment

VARIABLES wallets,   \* owners that have a wallet row
          opening,   \* the balance each wallet was created with
          balance,   \* column wallet.balance
          ledger     \* the wallet_transaction rows of each wallet, in commit order

vars == <<wallets, opening, balance, ledger>>

\* The balances wallet u has had up to and including its n-th row.
BalancesUpTo(u, n) == {opening[u]} \union {ledger[u][i].after : i \in 1..n}

\* The payments that some committed row carries.
Posted == {p \in Payments : \E u \in Owners : \E i \in DOMAIN ledger[u] : ledger[u][i].payment = p}

Init ==
    /\ wallets = {}
    /\ opening = [u \in Owners |-> 0]
    /\ balance = [u \in Owners |-> 0]
    /\ ledger = [u \in Owners |-> <<>>]

Open(u, b) ==
    /\ u \notin wallets
    /\ wallets' = wallets \union {u}
    /\ opening' = [opening EXCEPT ![u] = b]
    /\ balance' = [balance EXCEPT ![u] = b]
    /\ UNCHANGED ledger

\* A row of amount a, starting from a balance the wallet has had.
Post(u, type, a, before, p) ==
    LET after == IF type = "CREDIT" THEN before + a ELSE before - a
    IN  /\ u \in wallets
        /\ after >= 0
        /\ p \notin Posted
        /\ balance' = [balance EXCEPT ![u] = after]
        /\ ledger' = [ledger EXCEPT ![u] =
               Append(@, [type |-> type, amount |-> a, before |-> before, after |-> after,
                          payment |-> p])]
        /\ UNCHANGED <<wallets, opening>>

Next ==
    \E u \in Owners :
        \/ \E b \in Openings : Open(u, b)
        \/ \E type \in {"CREDIT", "DEBIT"}, a \in Amounts, p \in Payments \union {NoPayment} :
               \E before \in BalancesUpTo(u, Len(ledger[u])) : Post(u, type, a, before, p)

Spec == Init /\ [][Next]_vars
=============================================================================
