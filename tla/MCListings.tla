----------------------------- MODULE MCListings -----------------------------
(***************************************************************************)
(* Listings on a small instance: its constants are in the configuration.   *)
(***************************************************************************)
EXTENDS Listings
=============================================================================
