------------------------------ MODULE MCWallets ------------------------------
(***************************************************************************)
(* Wallets on a small instance.                                            *)
(***************************************************************************)
EXTENDS Wallets, TLC

CONSTANT MaxRows   \* bound on the ledger of a wallet

Bounded == \A u \in Owners : Len(ledger[u]) <= MaxRows

Symmetry == Permutations(Owners) \union Permutations(Payments) \union Permutations(Calls)

\* deductFromWallet says "The user's balance is insufficient to withdraw" of a
\* deduction the wallet cannot cover (wallet.repository.ts:46): the deductions
\* that went through never exceed what was put in.
DeductionsCovered ==
    \A u \in wallets : Total(u, "DEBIT") <= opening[u] + Total(u, "CREDIT")
=============================================================================
