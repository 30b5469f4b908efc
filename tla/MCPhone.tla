------------------------------- MODULE MCPhone -------------------------------
(***************************************************************************)
(* PhoneVerification on a small instance.                                  *)
(***************************************************************************)
EXTENDS PhoneVerification, TLC

Symmetry == Permutations(Phones) \union Permutations(Requests)
=============================================================================
