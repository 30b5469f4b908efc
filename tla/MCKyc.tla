-------------------------------- MODULE MCKyc --------------------------------
(***************************************************************************)
(* Kyc on a small instance.                                                *)
(***************************************************************************)
EXTENDS Kyc, TLC

CONSTANT MaxAttempts   \* bound on the attempt table

Bounded == Len(attempts) <= MaxAttempts

Symmetry == Permutations(Users) \union Permutations(Requests)
=============================================================================
