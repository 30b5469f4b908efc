--------------------------------- MODULE Kyc ---------------------------------
(***************************************************************************)
(* Know-your-customer attempts: KycService (createProfile, createIdentity, *)
(* createBusiness, updateStatus) over the kyc and attempt tables.          *)
(*                                                                         *)
(* A user first saves a profile, which creates the kyc row; then submits   *)
(* identity papers (an attempt of level 2) or business papers (level 4);   *)
(* an admin decides an attempt that is PENDING.  Each request reads,       *)
(* awaits, and flushes the columns that differ from what it read; nothing  *)
(* in the database keeps a second PENDING attempt out.                     *)
(*                                                                         *)
(* Whoever logs in is shown the status of the newest attempt of each level *)
(* (AuthService).                                                          *)
(*                                                                         *)
(* Abstracted: the contents of profiles and papers; the reason and the     *)
(* admin of a decision; kyc.identity and kyc.business, which nothing ever  *)
(* sets and a decision other than APPROVED sets to null again; the event   *)
(* KYC_LEVEL_TWO_APPROVED, whose listener has no orm for its               *)
(* CreateRequestContext and always throws.  An admin decides other users'  *)
(* attempts, not the admin's own.                                          *)
(***************************************************************************)
EXTENDS Integers, Sequences, FiniteSets

CONSTANTS Users,
          Requests   \* slots for HTTP requests that run at the same time

Levels == {2, 4}     \* 2 for identity, 4 for business
Decisions == {"APPROVED", "REJECTED", "PENDING"}   \* UpdateStatus is not validated

VARIABLES kyc,         \* users that have a kyc row
          attempts,    \* the attempt table, in commit order
          profiling,   \* createProfile calls that have read the user
          submitting,  \* createIdentity and createBusiness calls that have read the kyc
          deciding,    \* updateStatus calls that have read a pending attempt
          twice,       \* history: <<user, level>> of which two submissions ran at once
          contested    \* history: attempts that two decisions held at once

vars == <<kyc, attempts, profiling, submitting, deciding, twice, contested>>

Attempt == [user : Users, level : Levels, status : Decisions]

Busy == {f.request : f \in profiling \union submitting \union deciding}

Pending(u, level) ==
    {i \in DOMAIN attempts :
        attempts[i] = [user |-> u, level |-> level, status |-> "PENDING"]}

AttemptsOf(u, level) ==
    {i \in DOMAIN attempts : attempts[i].user = u /\ attempts[i].level = level}

\* Mutation: the attempts are populated oldest first.
ShownOldest(u, level) ==
    IF AttemptsOf(u, level) = {} THEN "NOT_STARTED"
    ELSE attempts[CHOOSE i \in AttemptsOf(u, level) :
                      \A j \in AttemptsOf(u, level) : i <= j].status

\* The status of a level in the answer and the token of authenticate, and in /auth/me: that
\* of the attempt with the last createdAt.  (createdAt is set when the attempt is made;
\* among submissions of one level that do not overlap that is the order of the table.)
Shown(u, level) ==
    IF AttemptsOf(u, level) = {} THEN "NOT_STARTED"
    ELSE attempts[CHOOSE i \in AttemptsOf(u, level) :
                      \A j \in AttemptsOf(u, level) : j <= i].status
-----------------------------------------------------------------------------
Init ==
    /\ kyc = {}
    /\ attempts = <<>>
    /\ profiling = {} /\ submitting = {} /\ deciding = {}
    /\ twice = {} /\ contested = {}

\* saveProfile finds the user, and with it the kyc row if there is one.
FindUser(q, u) ==
    /\ q \notin Busy
    /\ profiling' = profiling \union {[request |-> q, user |-> u, hasKyc |-> u \in kyc]}
    /\ UNCHANGED <<kyc, attempts, submitting, deciding, twice, contested>>

\* Its flush inserts a kyc row unless it found one; the unique index on kyc.user_id
\* refuses a second row, and then the request fails (CallLost).
SaveProfile(f) ==
    /\ f.hasKyc \/ f.user \notin kyc
    /\ kyc' = kyc \union {f.user}
    /\ profiling' = profiling \ {f}
    /\ UNCHANGED <<attempts, submitting, deciding, twice, contested>>

\* findKycByUser: fails without a kyc row, and while an attempt of the level is PENDING.
FindKyc(q, u, level) ==
    /\ q \notin Busy
    /\ u \in kyc
    /\ Pending(u, level) = {}
    /\ submitting' = submitting \union {[request |-> q, user |-> u, level |-> level]}
    /\ twice' = twice \union {<<g.user, g.level>> : g \in {f \in submitting : f.user = u /\ f.level = level}}
    /\ UNCHANGED <<kyc, attempts, profiling, deciding, contested>>

\* createIdentity and createBusiness flush the new attempt.
SaveAttempt(f) ==
    /\ attempts' = Append(attempts, [user |-> f.user, level |-> f.level, status |-> "PENDING"])
    /\ submitting' = submitting \ {f}
    /\ UNCHANGED <<kyc, profiling, deciding, twice, contested>>

\* Mutation: the attempt is found whatever its status.
FindAnyAttempt(q, u, level, decision) ==
    /\ q \notin Busy
    /\ \E i \in DOMAIN attempts :
           /\ attempts[i].user = u /\ attempts[i].level = level
           /\ deciding' = deciding \union {[request |-> q, attempt |-> i, to |-> decision]}
           /\ contested' = contested \union {f.attempt : f \in {g \in deciding : g.attempt = i}}
    /\ UNCHANGED <<kyc, attempts, profiling, submitting, twice>>

\* updateStatus: findKycWithAttemptsById populates the PENDING attempts of the level
\* and fails if there is none; attempts[0] is any one of them.
FindAttempt(q, u, level, decision) ==
    /\ q \notin Busy
    /\ \E i \in Pending(u, level) :
           /\ deciding' = deciding \union {[request |-> q, attempt |-> i, to |-> decision]}
           /\ contested' = contested \union {f.attempt : f \in {g \in deciding : g.attempt = i}}
    /\ UNCHANGED <<kyc, attempts, profiling, submitting, twice>>

\* Mutation: every column of the attempt is written, changed or not.
DecideWritesAll(f) ==
    /\ attempts' = [attempts EXCEPT ![f.attempt].status = f.to]
    /\ deciding' = deciding \ {f}
    /\ UNCHANGED <<kyc, profiling, submitting, twice, contested>>

\* updateStatus flushes: the status column is written if it differs from the PENDING
\* that was read.
Decide(f) ==
    /\ attempts' = [attempts EXCEPT ![f.attempt].status = IF f.to = "PENDING" THEN @ ELSE f.to]
    /\ deciding' = deciding \ {f}
    /\ UNCHANGED <<kyc, profiling, submitting, twice, contested>>

\* A database error, the unique index, or the process stops: nothing is written.
CallLost ==
    /\ \/ \E f \in profiling : profiling' = profiling \ {f} /\ UNCHANGED <<submitting, deciding>>
       \/ \E f \in submitting : submitting' = submitting \ {f} /\ UNCHANGED <<profiling, deciding>>
       \/ \E f \in deciding : deciding' = deciding \ {f} /\ UNCHANGED <<profiling, submitting>>
    /\ UNCHANGED <<kyc, attempts, twice, contested>>

\* PATCH kyc/create/profile.
Profiles ==
    \/ \E q \in Requests, u \in Users : FindUser(q, u)
    \/ \E f \in profiling : SaveProfile(f)

\* PATCH kyc/create/identity and kyc/create/business.
Submissions ==
    \/ \E q \in Requests, u \in Users, level \in Levels : FindKyc(q, u, level)
    \/ \E f \in submitting : SaveAttempt(f)

\* PATCH admin/kyc/:id/status/update.
Reviews ==
    \/ \E q \in Requests, u \in Users, level \in Levels, decision \in Decisions :
           FindAttempt(q, u, level, decision)
    \/ \E f \in deciding : Decide(f)

Next == Profiles \/ Submissions \/ Reviews \/ CallLost

Spec == Init /\ [][Next]_vars
-----------------------------------------------------------------------------
TypeOK ==
    /\ kyc \subseteq Users
    /\ attempts \in Seq(Attempt)
    /\ profiling \subseteq [request : Requests, user : Users, hasKyc : BOOLEAN]
    /\ submitting \subseteq [request : Requests, user : Users, level : Levels]
    /\ deciding \subseteq [request : Requests, attempt : Nat, to : Decisions]
    /\ twice \subseteq Users \X Levels
    /\ contested \subseteq Nat

\* Papers come from users with a kyc row, and a user has at most one PENDING attempt of
\* a level unless two of the user's own submissions ran at once: no decision, however
\* late, brings a decided attempt back beside a newer one.
OnePendingUnlessTwice ==
    \A u \in Users, level \in Levels :
        <<u, level>> \notin twice => Cardinality(Pending(u, level)) <= IF u \in kyc THEN 1 ELSE 0

\* A decision is final unless two admins held the attempt at once: updateStatus answers
\* 'No pending attempt to be approved/rejected!' to whoever comes later.
DecidedOnceUnlessContested ==
    [][\A i \in DOMAIN attempts :
           attempts[i].status # "PENDING" /\ attempts'[i].status # attempts[i].status
               => i \in contested]_vars

\* Where two submissions of a level did not overlap, the level is shown as PENDING exactly
\* while an admin can decide it and the user cannot submit again: findKycByUser looks for
\* any pending attempt, the sign-in shows only the newest.
PendingIsShown ==
    \A u \in Users, level \in Levels : <<u, level>> \notin twice =>
        (Pending(u, level) # {} <=> Shown(u, level) = "PENDING")
=============================================================================
