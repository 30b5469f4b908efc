------------------------------ MODULE Campaigns ------------------------------
(***************************************************************************)
(* Campaigns and what users do with them: CampaignRepository (pause,       *)
(* unPause, stop) and InteractionRepository.saveInteraction (view, like),  *)
(* as CampaignsService calls them from HTTP requests.                      *)
(*                                                                         *)
(* A request finds its rows, awaits, and flushes what it has changed in    *)
(* the entities it holds: MikroORM writes the columns that differ from     *)
(* what was read, WHERE id = ..., without a version.  A lifecycle call     *)
(* finds its campaign by id and status; an interaction finds the campaign, *)
(* then the user's interaction, which no unique index makes the only one.  *)
(*                                                                         *)
(* Abstracted: a credit is perInteractionCost or 0, here credited or not;  *)
(* who asks for a lifecycle change, which the controller does not check    *)
(* (CampaignOwnerGuard is commented out); names, dates and target groups.  *)
(* The money a campaign costs is in CampaignFunding.                       *)
(***************************************************************************)
EXTENDS Integers, Sequences, FiniteSets

CONSTANTS Campaigns,  \* ids of campaign rows
          Users,
          Requests    \* slots for HTTP requests that run at the same time

VARIABLES status,       \* column campaign.status
          likes, views, \* columns campaign.likes and campaign.views
          interactions, \* the interaction table, in commit order
          moderating,   \* lifecycle calls that have found their campaign
          interacting,  \* saveInteraction calls between their first read and their flush
          contested,    \* history: campaigns that two lifecycle calls held at once
          together      \* history: <<c, {u, v}>> when interactions of u and v held c at once

vars == <<status, likes, views, interactions, moderating, interacting, contested, together>>
table == <<status, likes, views, interactions>>

Payloads == SUBSET {"toggleLike", "view"}

Interaction == [user : Users, campaign : Campaigns, liked : BOOLEAN, views : Nat,
                credited : BOOLEAN]

\* row 0 is an interaction that the call creates.
Call == [request : Requests, user : Users, campaign : Campaigns, payload : Payloads,
         at : {"campaign", "interaction"}, likes : Int, views : Nat,
         row : Nat, liked : BOOLEAN, seen : Nat]

Busy == {f.request : f \in moderating \union interacting}

RowsOf(u, c) ==
    {i \in DOMAIN interactions : interactions[i].user = u /\ interactions[i].campaign = c}
-----------------------------------------------------------------------------
Init ==
    /\ status = [c \in Campaigns |-> "NONE"]
    /\ likes = [c \in Campaigns |-> 0]
    /\ views = [c \in Campaigns |-> 0]
    /\ interactions = <<>>
    /\ moderating = {} /\ interacting = {}
    /\ contested = {} /\ together = {}

\* CampaignRepository.create: a campaign is ACTIVE from the start.
Create(c) ==
    /\ status[c] = "NONE"
    /\ status' = [status EXCEPT ![c] = "ACTIVE"]
    /\ UNCHANGED <<likes, views, interactions, moderating, interacting, contested, together>>

\* The findOne of a lifecycle call; any other status makes it return null.
Find(q, c, from, to) ==
    /\ q \notin Busy
    /\ status[c] \in from
    /\ moderating' = moderating \union {[request |-> q, campaign |-> c, to |-> to]}
    /\ contested' = contested \union {f.campaign : f \in {g \in moderating : g.campaign = c}}
    /\ UNCHANGED <<table, interacting, together>>

PauseCampaign(q, c) == Find(q, c, {"ACTIVE"}, "PAUSED")

\* Mutation: the campaign is found whatever its status.
UnPauseAny(q, c) == Find(q, c, {"ACTIVE", "PAUSED", "STOPPED"}, "ACTIVE")

UnPauseCampaign(q, c) == Find(q, c, {"PAUSED"}, "ACTIVE")

StopCampaign(q, c) == Find(q, c, {"PAUSED", "ACTIVE"}, "STOPPED")

\* persistAndFlush of a lifecycle call.
SetStatus(f) ==
    /\ status' = [status EXCEPT ![f.campaign] = f.to]
    /\ moderating' = moderating \ {f}
    /\ UNCHANGED <<likes, views, interactions, interacting, contested, together>>
-----------------------------------------------------------------------------
\* saveInteraction finds the campaign, whatever its status.
FindCampaign(q, u, c, payload) ==
    /\ q \notin Busy
    /\ status[c] # "NONE"
    /\ interacting' = interacting \union
           {[request |-> q, user |-> u, campaign |-> c, payload |-> payload, at |-> "campaign",
             likes |-> likes[c], views |-> views[c], row |-> 0, liked |-> FALSE, seen |-> 0]}
    /\ together' = together \union
           {<<c, {u, g.user}>> : g \in {f \in interacting : f.campaign = c}}
    /\ UNCHANGED <<table, moderating, contested>>

\* Then the user's interaction; of several the database returns any one.
FindInteraction(f) ==
    /\ f.at = "campaign"
    /\ LET found == RowsOf(f.user, f.campaign)
       IN  \/ /\ found = {}
              /\ interacting' = (interacting \ {f}) \union {[f EXCEPT !.at = "interaction"]}
           \/ \E i \in found :
                  interacting' = (interacting \ {f}) \union
                      {[f EXCEPT !.at = "interaction", !.row = i,
                                 !.liked = interactions[i].liked, !.seen = interactions[i].views]}
    /\ UNCHANGED <<table, moderating, contested, together>>

\* Mutation: unliking does not take the like back.
LikesOnlyUp(f) == f.likes + 1

\* likeInteraction and viewInteraction: what they leave in the entities.
Likes(f) == "toggleLike" \in f.payload
Views(f) == "view" \in f.payload
LikesAfter(f) == IF f.liked THEN f.likes - 1 ELSE f.likes + 1

\* Mutation: the credit is set where the interaction is created, and nowhere else.
CreditAtCreation(f) ==
    IF f.row = 0
    THEN Append(interactions,
                [user |-> f.user, campaign |-> f.campaign, liked |-> Likes(f),
                 views |-> IF Views(f) THEN 1 ELSE 0, credited |-> Views(f)])
    ELSE [interactions EXCEPT
              ![f.row].liked = IF Likes(f) THEN ~f.liked ELSE @,
              ![f.row].views = IF Views(f) THEN f.seen + 1 ELSE @]

\* Mutation: every call creates an interaction.
InsertAlways(f) ==
    Append(interactions,
           [user |-> f.user, campaign |-> f.campaign, liked |-> Likes(f),
            views |-> IF Views(f) THEN 1 ELSE 0, credited |-> Views(f)])

\* The interaction table after the flush of call f: a new row, or the changed columns
\* of the one it found.  The first view of a row earns the credit.
Saved(f) ==
    IF f.row = 0
    THEN Append(interactions,
                [user |-> f.user, campaign |-> f.campaign, liked |-> Likes(f),
                 views |-> IF Views(f) THEN 1 ELSE 0, credited |-> Views(f)])
    ELSE [interactions EXCEPT
              ![f.row].liked = IF Likes(f) THEN ~f.liked ELSE @,
              ![f.row].views = IF Views(f) THEN f.seen + 1 ELSE @,
              ![f.row].credited = @ \/ (Views(f) /\ f.seen = 0)]

\* persistAndFlush([interaction, campaign]), one transaction.
SaveInteraction(f) ==
    /\ f.at = "interaction"
    /\ interactions' = Saved(f)
    /\ likes' = [likes EXCEPT ![f.campaign] = IF Likes(f) THEN LikesAfter(f) ELSE @]
    /\ views' = [views EXCEPT ![f.campaign] = IF Views(f) THEN f.views + 1 ELSE @]
    /\ interacting' = interacting \ {f}
    /\ UNCHANGED <<status, moderating, contested, together>>

\* A database error, or the process stops: nothing of the call is written.
CallLost ==
    /\ \/ \E f \in moderating : moderating' = moderating \ {f} /\ UNCHANGED interacting
       \/ \E f \in interacting : interacting' = interacting \ {f} /\ UNCHANGED moderating
    /\ UNCHANGED <<table, contested, together>>

\* PUT campaigns/:id/pause, unpause and stop.  Nothing asks who owns the campaign.
ChangeStatus ==
    \/ \E q \in Requests, c \in Campaigns :
           PauseCampaign(q, c) \/ UnPauseCampaign(q, c) \/ StopCampaign(q, c)
    \/ \E f \in moderating : SetStatus(f)

\* PATCH campaigns/:id/interact.
Interact ==
    \/ \E q \in Requests, u \in Users, c \in Campaigns, payload \in Payloads :
           FindCampaign(q, u, c, payload)
    \/ \E f \in interacting : FindInteraction(f) \/ SaveInteraction(f)

Next ==
    \/ \E c \in Campaigns : Create(c)
    \/ ChangeStatus
    \/ Interact
    \/ CallLost

Spec == Init /\ [][Next]_vars
-----------------------------------------------------------------------------
TypeOK ==
    /\ status \in [Campaigns -> {"NONE", "ACTIVE", "PAUSED", "STOPPED"}]
    /\ likes \in [Campaigns -> Int]
    /\ views \in [Campaigns -> Nat]
    /\ interactions \in Seq(Interaction)
    /\ moderating \subseteq [request : Requests, campaign : Campaigns,
                             to : {"ACTIVE", "PAUSED", "STOPPED"}]
    /\ interacting \subseteq Call
    /\ contested \subseteq Campaigns
    /\ together \subseteq Campaigns \X SUBSET Users

\* A user is credited for a campaign exactly when the interaction counts a view:
\* whether the like or the view came first, and whatever requests of the same user
\* overwrote one another (viewInteraction credits on views === 0).
CreditIffViewed ==
    \A i \in DOMAIN interactions :
        interactions[i].credited <=> interactions[i].views > 0

\* A user has one interaction with a campaign, and so one credit, as long as no two of
\* the user's own requests on it ran at once; other users' requests never matter.
OneInteractionPerUser ==
    \A u \in Users, c \in Campaigns :
        <<c, {u}>> \notin together => Cardinality(RowsOf(u, c)) <= 1

Alone(c) == \A us \in SUBSET Users : <<c, us>> \notin together

RowsOn(c) == {i \in DOMAIN interactions : interactions[i].campaign = c}

LikedRows(c) == {i \in RowsOn(c) : interactions[i].liked}

\* One element for every view that a row counts.
CountedViews(c) == UNION {{i} \X (1..interactions[i].views) : i \in RowsOn(c)}

\* A campaign's counters are what its interactions add up to, as long as no two
\* requests on the campaign ran at once: failed flushes and crashes never lose or
\* double a like or a view, only overlap does.
CountersAddUp ==
    \A c \in Campaigns : Alone(c) =>
        /\ likes[c] = Cardinality(LikedRows(c))
        /\ views[c] = Cardinality(CountedViews(c))

\* A stopped campaign stays stopped unless two lifecycle calls held it at once
\* (unPauseCampaign asks for status PAUSED, pauseCampaign for ACTIVE).
RevivedOnlyByOverlap ==
    [][\A c \in Campaigns :
           status[c] = "STOPPED" /\ status'[c] # "STOPPED" => c \in contested]_vars
=============================================================================
