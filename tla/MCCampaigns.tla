----------------------------- MODULE MCCampaigns -----------------------------
(***************************************************************************)
(* Campaigns on a small instance.                                          *)
(***************************************************************************)
EXTENDS Campaigns, TLC

CONSTANTS MaxLikes, MaxViews, \* bounds on a campaign's counters
          MaxRows,     \* bound on the interaction table
          MaxTogether, \* bound on the pairs of users whose interactions have overlapped
          MaxCalls     \* bound on the interactions once a lifecycle call has begun

Bounded ==
    /\ Len(interactions) <= MaxRows
    /\ Cardinality(together) <= MaxTogether
    /\ \A c \in Campaigns : views[c] <= MaxViews /\ likes[c] \in 0..MaxLikes
    /\ moderating # {} \/ (\E c \in Campaigns : status[c] \in {"PAUSED", "STOPPED"}) =>
           Len(interactions) + Cardinality(interacting) <= MaxCalls

Symmetry == Permutations(Users) \union Permutations(Requests) \union Permutations(Campaigns)
=============================================================================
