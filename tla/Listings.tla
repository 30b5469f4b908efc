------------------------------ MODULE Listings ------------------------------
(***************************************************************************)
(* Reading a list page by page while it changes: the timeline of ACTIVE    *)
(* campaigns (CampaignRepository.getUserTimeline) and the comments of a    *)
(* campaign (findAllCampaignComments).  Both answer the rows from          *)
(* size * (page - 1) on, newest first, and the number of pages, from two   *)
(* queries that run side by side (findAndCount).                           *)
(*                                                                         *)
(* Rows are numbered by createdAt, which is set before they are inserted,  *)
(* so they may come into the list in another order.  Comments stay; a      *)
(* campaign leaves the timeline when it is paused or stopped and comes     *)
(* back to its old place when it is unpaused.  One client, which asks for  *)
(* one page after another until it has had as many as the last answer      *)
(* told it there are.                                                      *)
(*                                                                         *)
(* Abstracted: what the rows hold; the country and the age a campaign is   *)
(* for, which do not change; that equal createdAt leave the order open.    *)
(***************************************************************************)
EXTENDS Integers, FiniteSets

CONSTANTS Sizes,      \* page sizes a client asks for
          MaxRows,    \* bound: rows ever created
          MaxChanges  \* bound: rows that are created, leave or come back during the walk

ASSUME PositiveSizes == Sizes \subseteq Nat \ {0}
ASSUME BoundsAreNat == MaxRows \in Nat /\ MaxChanges \in Nat

VARIABLES list,      \* "timeline" or "comments"
          listed,    \* rows the filter lets through
          away,      \* campaigns that are PAUSED
          stamped,   \* rows that have their createdAt and are not inserted yet
          created,   \* how many rows have a createdAt
          reader,    \* the walk: page size, page, answers of the two queries
          changes,
          there,     \* history: rows that were listed from the start of the walk until now
          entered, left, \* history: rows that came and went during it
          seen,      \* history: how often each row was answered
          between    \* history: rows that came between the count and the data of this page

vars == <<list, listed, away, stamped, created, reader, changes, there, entered, left, seen, between>>
walk == <<there, entered, left, seen, between>>

Rows == 1..MaxRows
NotRead == -1   \* a query that has not answered
Resting == [at |-> "rest", size |-> 1, page |-> 1, total |-> NotRead, data |-> {}]

\* Mutation: oldest first.
OldestFirst(size, page) ==
    {r \in listed : Cardinality({s \in listed : s <= r}) \in (size * (page - 1) + 1)..(size * page)}

\* Mutation: one row more than asked for, to know whether there is a next page.
OneMore(size, page) ==
    {r \in listed : Cardinality({s \in listed : s >= r}) \in (size * (page - 1) + 1)..(size * page + 1)}

\* offset size * (page - 1), limit size, createdAt descending.
PageOf(size, page) ==
    {r \in listed : Cardinality({s \in listed : s >= r}) \in (size * (page - 1) + 1)..(size * page)}

TotalPage(total, size) == (total + size - 1) \div size
-----------------------------------------------------------------------------
Init ==
    /\ list \in {"timeline", "comments"}
    /\ created \in 0..MaxRows
    /\ listed = 1..created
    /\ away = {} /\ stamped = {}
    /\ reader = Resting
    /\ changes = 0
    /\ there = {} /\ entered = {} /\ left = {}
    /\ seen = [r \in Rows |-> 0]
    /\ between = {}

Change == changes < MaxChanges /\ changes' = changes + 1

\* commentOnCampaign and CampaignRepository.create: em.create sets createdAt.
Stamp ==
    /\ Change
    /\ created < MaxRows
    /\ created' = created + 1
    /\ stamped' = stamped \union {created + 1}
    /\ UNCHANGED <<list, listed, away, reader, walk>>

Enters(r) ==
    /\ listed' = listed \union {r}
    /\ entered' = entered \union {r}
    /\ between' = IF reader.at = "data" /\ reader.total # NotRead THEN between \union {r} ELSE between
    /\ UNCHANGED <<list, created, reader, there, left, seen>>

\* persistAndFlush inserts the row.
Comment(r) ==
    /\ r \in stamped
    /\ stamped' = stamped \ {r}
    /\ Enters(r)
    /\ UNCHANGED <<away, changes>>

\* The insert fails, or the process stops before it.
Discard(r) ==
    /\ r \in stamped
    /\ stamped' = stamped \ {r}
    /\ UNCHANGED <<list, listed, away, created, reader, changes, walk>>

\* pauseCampaign and stopCampaign; only what is paused can come back.
Leaves(r, pausing) ==
    /\ list = "timeline" /\ r \in listed
    /\ Change
    /\ listed' = listed \ {r}
    /\ away' = IF pausing THEN away \union {r} ELSE away
    /\ there' = there \ {r}
    /\ left' = left \union {r}
    /\ UNCHANGED <<list, stamped, created, reader, entered, seen, between>>

\* unPauseCampaign.
Returns(r) ==
    /\ r \in away
    /\ Change
    /\ away' = away \ {r}
    /\ Enters(r)
    /\ UNCHANGED stamped
-----------------------------------------------------------------------------
\* The client asks for its first page.
Open(size) ==
    /\ reader.at = "rest"
    /\ reader' = [at |-> "data", size |-> size, page |-> 1, total |-> NotRead, data |-> {}]
    /\ there' = listed /\ entered' = {} /\ left' = {}
    /\ UNCHANGED <<list, listed, away, stamped, created, changes, seen, between>>

\* findAndCount counts, before or after it finds.
Count ==
    /\ reader.at \in {"data", "count"} /\ reader.total = NotRead
    /\ reader' = [reader EXCEPT !.total = Cardinality(listed),
                                !.at = IF @ = "count" THEN "answer" ELSE @]
    /\ UNCHANGED <<list, listed, away, stamped, created, changes, walk>>

\* It finds the rows of the page.
FindPage ==
    /\ reader.at = "data"
    /\ reader' = [reader EXCEPT !.data = PageOf(reader.size, reader.page),
                                !.at = IF reader.total = NotRead THEN "count" ELSE "answer"]
    /\ UNCHANGED <<list, listed, away, stamped, created, changes, walk>>

\* The client has its page, and asks for the next one or is done.
Answer ==
    /\ reader.at = "answer"
    /\ seen' = [r \in Rows |-> IF r \in reader.data THEN seen[r] + 1 ELSE seen[r]]
    /\ reader' = [reader EXCEPT !.at = IF reader.page < TotalPage(reader.total, reader.size)
                                         THEN "data" ELSE "done",
                                !.page = @ + 1, !.total = NotRead, !.data = {}]
    /\ between' = IF reader'.at = "done" THEN between ELSE {}
    /\ UNCHANGED <<list, listed, away, stamped, created, changes, there, entered, left>>

\* POST campaigns/:id/comments; POST campaigns, for the timeline.
Adds == Stamp \/ \E r \in Rows : Comment(r) \/ Discard(r)

\* PUT campaigns/:id/pause, stop and unpause.
Moves == \E r \in Rows : \/ \E pausing \in BOOLEAN : Leaves(r, pausing)
                        \/ Returns(r)

\* GET campaigns/timeline and campaigns/:id/comments.
Reads == \/ \E size \in Sizes : Open(size)
         \/ Count \/ FindPage \/ Answer

Next == Adds \/ Moves \/ Reads

Spec == Init /\ [][Next]_vars
-----------------------------------------------------------------------------
TypeOK ==
    /\ list \in {"timeline", "comments"}
    /\ created \in 0..MaxRows
    /\ listed \union away \union stamped \subseteq 1..created
    /\ list = "comments" => away \union left = {}
    /\ reader.at \in {"rest", "data", "count", "answer", "done"} /\ reader.page \in Nat
    /\ reader.total \in Nat \union {NotRead} /\ reader.data \subseteq Rows
    /\ Cardinality(reader.data) <= reader.size
    /\ there \subseteq listed /\ entered \subseteq Rows /\ left \subseteq Rows
    /\ seen \in [Rows -> Nat] /\ between \subseteq entered /\ changes \in 0..MaxChanges

\* A client that has walked the whole list has been shown every row that was there all the
\* time, unless a newer one left and moved it onto a page it had had, or one came between
\* the count and the data of the last page, so that there was a page more than it was told.
\* Comments never leave: only the latter can hide one.
ShownUnlessNewerLeft ==
    reader.at = "done" =>
        \A r \in there : seen[r] > 0 \/ \E s \in left \union between : s > r

\* A row is shown twice only if a newer one came into the list during the walk.
TwiceOnlyIfNewerCame ==
    \A r \in Rows : seen[r] > 1 => \E s \in entered : s > r
=============================================================================
