----------------------------- MODULE MCFunding -----------------------------
(***************************************************************************)
(* CampaignFunding on a small instance.                                    *)
(***************************************************************************)
EXTENDS CampaignFunding, TLC

CONSTANT MaxRows   \* bound on the rows of all ledgers

Rows == UNION {{<<u, i>> : i \in DOMAIN ledger[u]} : u \in Owners}

Bounded == Cardinality(Rows) <= MaxRows

Symmetry == Permutations(Owners) \union Permutations(Tasks)
=============================================================================
