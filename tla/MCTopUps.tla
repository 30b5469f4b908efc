------------------------------ MODULE MCTopUps ------------------------------
(***************************************************************************)
(* The instances of TopUps that TLC checks.                                *)
(***************************************************************************)
EXTENDS TopUps

CONSTANTS u1, ghost

\* Two clients' requests for one wallet, of different amounts.
TwoRequests == {[wallet |-> u1, amount |-> 1, intent |-> "fund"],
                [wallet |-> u1, amount |-> 2, intent |-> "fund"]}

\* A request for a wallet, and one for a wallet id that does not exist.
RequestAndGhost == {[wallet |-> u1, amount |-> 1, intent |-> "fund"],
                    [wallet |-> ghost, amount |-> 2, intent |-> "fund"]}

OneRequest == {[wallet |-> u1, amount |-> 1, intent |-> "fund"]}

\* A request to take money out.
OneWithdrawal == {[wallet |-> u1, amount |-> 1, intent |-> "withdraw"]}

MCOwners == {u1, ghost}
MCGhosts == {ghost}
=============================================================================
