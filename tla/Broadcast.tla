------------------------------ MODULE Broadcast ------------------------------
(***************************************************************************)
(* Telling users about a campaign's counters: after every interaction,     *)
(* CampaignsService puts a job on the campaign-interaction queue; its      *)
(* worker (CampaignInteractionConsumer) reads the campaign once and then   *)
(* pages by offset through the ACTIVE users in the order they were         *)
(* created, emitting what it has read to each user's socket.               *)
(*                                                                         *)
(* Between two pages, users change status (an admin's update, a profile    *)
(* saved) and others interact with the campaign.  Jobs are in Redis and    *)
(* survive a crash; what a request has still to add to the queue does not. *)
(*                                                                         *)
(* One campaign.  Users are numbered by created_at; one that signs up      *)
(* later is, until then, not active.  The counters of the campaign are one *)
(* value: how requests that overlap compute it is in Campaigns.            *)
(*                                                                         *)
(* The specification's names carry the module's, so that PagingProofs can  *)
(* extend it beside Listings.                                              *)
(***************************************************************************)
EXTENDS Integers, FiniteSets

CONSTANTS N,          \* number of users
          BatchSize,  \* batchProcessingSize
          Counters,   \* values of the campaign's counters
          Nothing,    \* no value of the counters: nothing was read or sent
          MaxSaves,   \* bound: interactions
          MaxFaults   \* bound: times the process stops, or a read or queue.add fails

ASSUME PositiveBatch == BatchSize \in Nat \ {0}
ASSUME NothingIsNoCounter == Nothing \notin Counters
ASSUME SizesAreNat == N \in Nat /\ MaxSaves \in Nat /\ MaxFaults \in Nat

VARIABLES active,    \* users with status ACTIVE (of those with KYC in the campaign's country)
          viewers,   \* users that have an interaction with the campaign
          counters,  \* columns likes and views of the campaign
          adding,    \* interactions that are flushed and whose job is not added yet
          jobs,      \* length of the campaign-interaction queue
          worker,    \* what the worker does with the first job
          saves, faults,
          sent,      \* history: how often the current job's counters were sent to each user
          gone, joined, \* history: users that stopped or started being ACTIVE during it
          viewersThen,  \* history: viewers when it started
          unannounced   \* history: an interaction's job was never added, by a crash or an error

broadcastVars == <<active, viewers, counters, adding, jobs, worker, saves, faults,
          sent, gone, joined, viewersThen, unannounced>>
campaign == <<viewers, counters>>
progress == <<sent, gone, joined, viewersThen>>

Users == 1..N
Idle == [at |-> "idle", shown |-> Nothing, skip |-> 0]

\* The users on the page that starts after the first `skip` active ones.
Page(skip) ==
    {u \in active : Cardinality({v \in active : v <= u}) \in (skip + 1)..(skip + BatchSize)}
-----------------------------------------------------------------------------
BroadcastInit ==
    /\ active \in SUBSET Users
    /\ viewers \in SUBSET Users
    /\ counters \in Counters
    /\ adding = 0 /\ jobs = 0 /\ worker = Idle
    /\ saves = 0 /\ faults = 0
    /\ sent = [u \in Users |-> 0]
    /\ gone = {} /\ joined = {} /\ viewersThen = {}
    /\ unannounced = FALSE

\* Mutation: the job is added before the interaction is flushed.
AddBeforeSave(u, n) ==
    \/ /\ saves < MaxSaves
       /\ saves' = saves + 1
       /\ jobs' = jobs + 1
       /\ adding' = adding + 1
       /\ UNCHANGED <<active, campaign, worker, faults, progress, unannounced>>
    \/ /\ adding > 0
       /\ adding' = adding - 1
       /\ viewers' = viewers \union {u}
       /\ counters' = n
       /\ UNCHANGED <<active, jobs, worker, saves, faults, progress, unannounced>>

\* saveInteraction flushes an interaction of user u, and the campaign with it.
SaveInteraction(u, n) ==
    /\ saves < MaxSaves
    /\ saves' = saves + 1
    /\ viewers' = viewers \union {u}
    /\ counters' = n
    /\ adding' = adding + 1
    /\ UNCHANGED <<active, jobs, worker, faults, progress, unannounced>>

\* interactWithCampaign adds a job.
AddJob ==
    /\ adding > 0
    /\ adding' = adding - 1
    /\ jobs' = jobs + 1
    /\ UNCHANGED <<active, campaign, worker, saves, faults, progress, unannounced>>

\* queue.add throws: the request answers with an error, and the interaction stays.
AddFails ==
    /\ adding > 0
    /\ faults < MaxFaults
    /\ faults' = faults + 1
    /\ adding' = adding - 1
    /\ unannounced' = TRUE
    /\ UNCHANGED <<active, campaign, jobs, worker, saves, progress>>

\* saveProfile, updateStatus of an admin, or a sign-up: u becomes ACTIVE.
Activate(u) ==
    /\ u \notin active
    /\ active' = active \union {u}
    /\ joined' = IF worker = Idle THEN joined ELSE joined \union {u}
    /\ UNCHANGED <<campaign, adding, jobs, worker, saves, faults, sent, gone,
                   viewersThen, unannounced>>

\* updateStatus of an admin: u stops being ACTIVE.
Deactivate(u) ==
    /\ u \in active
    /\ active' = active \ {u}
    /\ gone' = IF worker = Idle THEN gone ELSE gone \union {u}
    /\ UNCHANGED <<campaign, adding, jobs, worker, saves, faults, sent, joined,
                   viewersThen, unannounced>>

\* The worker takes the first job and reads the campaign.
StartJob ==
    /\ worker = Idle /\ jobs > 0
    /\ worker' = [at |-> "page", shown |-> counters, skip |-> 0]
    /\ viewersThen' = viewers
    /\ UNCHANGED <<active, campaign, adding, jobs, saves, faults, sent, gone, joined,
                   unannounced>>

\* Mutation: the offset advances by one more than a batch.
SendPageSkipsBatch ==
    /\ worker.at = "page" /\ Page(worker.skip) # {}
    /\ sent' = [u \in Users |-> IF u \in Page(worker.skip) \intersect viewers
                               THEN sent[u] + 1 ELSE sent[u]]
    /\ worker' = [worker EXCEPT !.skip = @ + BatchSize + 1]
    /\ UNCHANGED <<active, campaign, adding, jobs, saves, faults, gone, joined, viewersThen,
                   unannounced>>

\* Mutation: the offset is not advanced.
SendSamePage ==
    /\ worker.at = "page" /\ Page(worker.skip) # {}
    /\ sent' = [u \in Users |-> IF u \in Page(worker.skip) \intersect viewers THEN 1 ELSE sent[u]]
    /\ UNCHANGED <<active, campaign, adding, jobs, worker, saves, faults, gone, joined,
                   viewersThen, unannounced>>

\* A page is read and sent; a user without an interaction makes the destructuring of
\* null throw, which skips that user.
SendPage ==
    /\ worker.at = "page" /\ Page(worker.skip) # {}
    /\ sent' = [u \in Users |-> IF u \in Page(worker.skip) \intersect viewers
                               THEN sent[u] + 1 ELSE sent[u]]
    /\ worker' = [worker EXCEPT !.skip = @ + Cardinality(Page(@))]
    /\ UNCHANGED <<active, campaign, adding, jobs, saves, faults, gone, joined, viewersThen,
                   unannounced>>

\* An empty page ends the loop.
LastPage ==
    /\ worker.at = "page" /\ Page(worker.skip) = {}
    /\ worker' = [worker EXCEPT !.at = "done"]
    /\ UNCHANGED <<active, campaign, adding, jobs, saves, faults, progress,
                   unannounced>>

NoJobYet == /\ sent' = [u \in Users |-> 0]
            /\ gone' = {} /\ joined' = {} /\ viewersThen' = {}

\* process has returned: the job leaves the queue.
FinishJob ==
    /\ worker.at = "done"
    /\ worker' = Idle
    /\ jobs' = jobs - 1
    /\ NoJobYet
    /\ UNCHANGED <<active, campaign, adding, saves, faults, unannounced>>

\* A page cannot be read: process throws, and a job has one attempt.
JobFails ==
    /\ worker.at = "page"
    /\ faults < MaxFaults
    /\ faults' = faults + 1
    /\ worker' = Idle
    /\ jobs' = jobs - 1
    /\ NoJobYet
    /\ UNCHANGED <<active, campaign, adding, saves, unannounced>>

\* The process stops and starts again: the job the worker had is still on the queue.
Crash ==
    /\ faults < MaxFaults
    /\ faults' = faults + 1
    /\ unannounced' = (unannounced \/ adding > 0)
    /\ adding' = 0
    /\ worker' = Idle
    /\ NoJobYet
    /\ UNCHANGED <<active, campaign, jobs, saves>>

Works == AddJob \/ StartJob \/ SendPage \/ LastPage \/ FinishJob

BroadcastNext ==
    \/ \E u \in Users : \/ \E n \in Counters : SaveInteraction(u, n)
                        \/ Activate(u) \/ Deactivate(u)
    \/ Works
    \/ AddFails \/ JobFails \/ Crash

\* Requests go on once they have flushed, and the worker keeps running.
BroadcastSpec == BroadcastInit /\ [][BroadcastNext]_broadcastVars /\ WF_broadcastVars(Works)
-----------------------------------------------------------------------------
BroadcastTypeOK ==
    /\ active \subseteq Users /\ viewers \subseteq Users
    /\ counters \in Counters
    /\ adding \in 0..MaxSaves /\ jobs \in 0..MaxSaves
    /\ worker \in [at : {"idle", "page", "done"}, shown : Counters \union {Nothing}, skip : 0..N]
    /\ sent \in [Users -> Nat]
    /\ gone \subseteq Users /\ joined \subseteq Users /\ viewersThen \subseteq Users

Steady == (active \intersect viewersThen) \ (gone \union joined)

\* A job is sent once to everyone who was ACTIVE and had an interaction from its start to
\* its end: a user is missed only if one created earlier stopped being ACTIVE meanwhile,
\* and is sent it twice only if one created earlier became ACTIVE.
SentOnceUnlessEarlierMoved ==
    worker.at = "done" => \A u \in Steady :
        /\ sent[u] = 0 => \E v \in gone : v < u
        /\ sent[u] > 1 => \E v \in joined : v < u

\* When the last job ends, whoever it reached has been told the counters as they are:
\* jobs are added after the flush and read the campaign when they run, so a job that
\* read too early is followed by another, unless a crash or a failing queue.add lost it.
LastJobIsCurrent ==
    worker.at = "done" /\ jobs = 1 /\ adding = 0 /\ ~unannounced =>
        worker.shown = counters

\* The most steps that the queue and the requests which have flushed can still take: a job
\* is one to start, one a page and one for the empty page, and one to finish.
StepsTaken == CASE worker.at = "idle" -> 0
                [] worker.at = "page" -> worker.skip + 1
                [] OTHER -> N + 2
StepsLeft == (N + 3) * jobs + (N + 4) * adding - StepsTaken

\* Every step of the worker brings the queue nearer to its end, however users enter and
\* leave the pages between two of them: only an interaction or a fault brings more to do.
WorkIsUsedUp ==
    [][/\ Works => StepsLeft' < StepsLeft
       /\ StepsLeft' > StepsLeft => saves' > saves \/ faults' > faults]_broadcastVars

\* The worker catches up with any finite number of interactions, whatever happens to the
\* pages it reads meanwhile: users may enter and leave them forever.
JobsDrain == <>[](jobs = 0 /\ adding = 0)
=============================================================================
