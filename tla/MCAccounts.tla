----------------------------- MODULE MCAccounts -----------------------------
(***************************************************************************)
(* Accounts on a small instance.                                           *)
(***************************************************************************)
EXTENDS Accounts, TLC

CONSTANTS g1, g2, e1, e2, e3, NoUid

FirstEmails == g1 :> e1 @@ g2 :> e2

\* What is so when the accounts start, an email that g1 may change to, one that is g2's, and
\* a body that names no account.
SomeBodies == {<<g1, e1>>, <<g2, e2>>, <<g1, e3>>, <<g1, e2>>, <<NoUid, e1>>}

\* Requests for a new first and for a new last name: together they mix.
Names == {[first |-> "new", last |-> "given"], [first |-> "given", last |-> "new"]}
=============================================================================
