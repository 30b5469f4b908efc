------------------------------ MODULE KycProofs ------------------------------
(***************************************************************************)
(* Proofs about Kyc, for any sets of users and concurrent requests and an  *)
(* attempt table of any length.                                            *)
(***************************************************************************)
EXTENDS Kyc, FiniteSetTheorems, SequenceTheorems, TLAPS

\* Decisions point into the table; one that holds its attempt alone will find it as it
\* was read.
HeldAttemptsArePending ==
    \A f \in deciding :
        /\ f.attempt \in DOMAIN attempts
        /\ f.attempt \notin contested => attempts[f.attempt].status = "PENDING"

\* Two decisions on one attempt, or two submissions of one level, are on record.
SharedIsRecorded ==
    /\ \A f, g \in deciding : f.attempt = g.attempt /\ f # g => f.attempt \in contested
    /\ \A f, g \in submitting :
           f.user = g.user /\ f.level = g.level /\ f # g => <<f.user, f.level>> \in twice

\* Papers come from users with a kyc row, and while a level is being submitted, once,
\* nothing of it is pending.
SubmissionsAreClear ==
    /\ \A i \in DOMAIN attempts : attempts[i].user \in kyc
    /\ \A f \in submitting :
           /\ f.user \in kyc
           /\ <<f.user, f.level>> \notin twice => Pending(f.user, f.level) = {}

\* What is pending is the newest attempt of its level.
PendingIsNewest ==
    \A u \in Users, level \in Levels : <<u, level>> \notin twice =>
        \A i \in Pending(u, level), j \in AttemptsOf(u, level) : j <= i

IInv ==
    /\ TypeOK
    /\ HeldAttemptsArePending
    /\ SharedIsRecorded
    /\ SubmissionsAreClear
    /\ PendingIsNewest

-----------------------------------------------------------------------------
\* What Append does to a sequence, as the provers use it below.
LEMMA AppendFacts ==
    ASSUME NEW S, NEW s \in Seq(S), NEW e \in S
    PROVE  /\ Append(s, e) \in Seq(S)
           /\ Len(s) \in Nat
           /\ DOMAIN s = 1..Len(s)
           /\ DOMAIN Append(s, e) = 1..(Len(s) + 1)
           /\ \A i \in 1..Len(s) : Append(s, e)[i] = s[i]
           /\ Append(s, e)[Len(s) + 1] = e
  OBVIOUS

\* A set of positions in a sequence that is not empty has a last one.
LEMMA HasLast ==
    ASSUME NEW n \in Nat, NEW S, S \subseteq 1..n, S # {}
    PROVE  \E m \in S : \A j \in S : j <= m
  <1> DEFINE From(s) == {j \in S : s <= j}
             Tails == {From(s) : s \in S}
  <1>1. IsFiniteSet(S)
    <2>1. IsFiniteSet(1..n)
      BY FS_Interval
    <2>2. QED
      BY <2>1, FS_Subset
  <1>2. Tails \subseteq FiniteSubsetsOf(S) /\ Tails # {}
    <2>1. \A s \in S : From(s) \in SUBSET S /\ IsFiniteSet(From(s))
      BY <1>1, FS_Subset
    <2>2. QED
      BY <2>1 DEF FiniteSubsetsOf
  <1>3. PICK A \in Tails : \A B \in Tails : <<B, A>> \notin StrictSubsetOrdering(S)
    <2> HIDE DEF Tails
    <2>1. QED
      BY <1>2, FS_StrictSubsetOrderingWellFounded, WFMin
  <1>4. PICK m \in S : A = From(m)
    OBVIOUS
  <1>5. ASSUME NEW j \in S, ~ (j <= m) PROVE FALSE
    <2>1. \A k \in S : k \in Int
      OBVIOUS
    <2>2. m <= m /\ \A k \in S : j <= k => m <= k
      BY <1>5, <2>1
    <2>3. From(j) \subseteq From(m) /\ m \in From(m) /\ m \notin From(j)
      BY <1>5, <2>2
    <2>4. <<From(j), From(m)>> \in StrictSubsetOrdering(S)
      BY <2>3 DEF StrictSubsetOrdering
    <2>5. QED
      BY <1>3, <1>4, <2>4
  <1>6. QED
    BY <1>5

-----------------------------------------------------------------------------
LEMMA InitOK == Init => IInv
  <1> SUFFICES ASSUME Init PROVE IInv
    OBVIOUS
  <1>1. DOMAIN attempts = {}
    BY DEF Init
  <1>2. QED
    BY <1>1 DEF Init, IInv, TypeOK, HeldAttemptsArePending, SharedIsRecorded,
                SubmissionsAreClear, PendingIsNewest, Pending

\* Steps that leave the table and both histories alone, and start no submission or
\* decision: reading or saving a profile, or losing a call.
LEMMA TableKeptOK ==
    ASSUME IInv, UNCHANGED <<attempts, twice, contested>>, kyc \subseteq kyc', kyc' \subseteq Users,
           profiling' \subseteq [request : Requests, user : Users, hasKyc : BOOLEAN],
           submitting' \subseteq submitting, deciding' \subseteq deciding
    PROVE  IInv'
  <1>1. \A u, level : Pending(u, level)' = Pending(u, level)
                      /\ AttemptsOf(u, level)' = AttemptsOf(u, level)
    BY DEF Pending, AttemptsOf
  <1>2. TypeOK'
    BY DEF IInv, TypeOK
  <1>3. HeldAttemptsArePending' /\ SharedIsRecorded'
    BY DEF IInv, HeldAttemptsArePending, SharedIsRecorded
  <1>4. SubmissionsAreClear'
    BY <1>1 DEF IInv, SubmissionsAreClear
  <1>5. PendingIsNewest'
    BY <1>1 DEF IInv, PendingIsNewest
  <1>6. QED
    BY <1>2, <1>3, <1>4, <1>5 DEF IInv

LEMMA FindKycOK ==
    ASSUME IInv, NEW q \in Requests, NEW u \in Users, NEW level \in Levels, FindKyc(q, u, level)
    PROVE  IInv'
  <1> DEFINE new == [request |-> q, user |-> u, level |-> level]
  <1>1. /\ UNCHANGED <<kyc, attempts, profiling, deciding, contested>>
        /\ submitting' = submitting \union {new}
        /\ twice \subseteq twice'
        /\ u \in kyc /\ Pending(u, level) = {}
    BY DEF FindKyc
  <1>2. \A v, l : Pending(v, l)' = Pending(v, l) /\ AttemptsOf(v, l)' = AttemptsOf(v, l)
    BY <1>1 DEF Pending, AttemptsOf
  <1>3. TypeOK'
    BY DEF IInv, TypeOK, FindKyc
  <1>4. HeldAttemptsArePending'
    BY <1>1 DEF IInv, HeldAttemptsArePending
  <1>5. SharedIsRecorded'
    <2>1. \A f \in submitting : f.user = u /\ f.level = level => <<u, level>> \in twice'
      BY DEF FindKyc
    <2>2. QED
      BY <1>1, <2>1 DEF IInv, SharedIsRecorded
  <1>6. SubmissionsAreClear'
    BY <1>1, <1>2 DEF IInv, SubmissionsAreClear
  <1>7. PendingIsNewest'
    BY <1>1, <1>2 DEF IInv, PendingIsNewest
  <1>8. QED
    BY <1>3, <1>4, <1>5, <1>6, <1>7 DEF IInv

LEMMA SaveAttemptOK ==
    ASSUME IInv, NEW f \in submitting, SaveAttempt(f)
    PROVE  IInv'
  <1> DEFINE n == Len(attempts)
             new == [user |-> f.user, level |-> f.level, status |-> "PENDING"]
  <1>1. f.user \in Users /\ f.level \in Levels /\ f.user \in kyc
    BY DEF IInv, TypeOK, SubmissionsAreClear
  <1>2. new \in Attempt
    BY <1>1 DEF Attempt, Decisions
  <1>3. /\ attempts' \in Seq(Attempt) /\ n \in Nat
        /\ DOMAIN attempts = 1..n /\ DOMAIN attempts' = 1..(n + 1)
        /\ \A i \in 1..n : attempts'[i] = attempts[i]
        /\ attempts'[n + 1] = new
    <2> HIDE DEF new
    <2>1. attempts' = Append(attempts, new) /\ attempts \in Seq(Attempt)
      BY DEF IInv, TypeOK, SaveAttempt, new
    <2>2. QED
      BY <1>2, <2>1, AppendFacts
  <1>4. /\ UNCHANGED <<kyc, profiling, deciding, twice, contested>>
        /\ submitting' = submitting \ {f}
    BY DEF SaveAttempt
  <1>5. TypeOK'
    BY <1>3, <1>4 DEF IInv, TypeOK
  <1>6. \A v, l : <<v, l>> # <<f.user, f.level>> =>
            Pending(v, l)' = Pending(v, l) /\ AttemptsOf(v, l)' = AttemptsOf(v, l)
    BY <1>3 DEF Pending, AttemptsOf
  <1>7. HeldAttemptsArePending'
    BY <1>3, <1>4 DEF IInv, HeldAttemptsArePending
  <1>8. SharedIsRecorded'
    BY <1>4 DEF IInv, SharedIsRecorded
  <1>9. SubmissionsAreClear'
    <2>1. \A i \in DOMAIN attempts' : attempts'[i].user \in kyc
      BY <1>1, <1>3 DEF IInv, SubmissionsAreClear
    <2>2. ASSUME NEW g \in submitting \ {f}, <<g.user, g.level>> \notin twice
          PROVE  Pending(g.user, g.level)' = {}
      <3>1. <<g.user, g.level>> # <<f.user, f.level>>
        BY <2>2 DEF IInv, SharedIsRecorded
      <3>2. QED
        BY <1>6, <2>2, <3>1 DEF IInv, SubmissionsAreClear
    <2>3. QED
      BY <1>4, <2>1, <2>2 DEF IInv, SubmissionsAreClear
  <1>10. PendingIsNewest'
    <2> SUFFICES ASSUME NEW v \in Users, NEW l \in Levels, <<v, l>> \notin twice,
                        NEW i \in Pending(v, l)', NEW j \in AttemptsOf(v, l)'
                 PROVE  j <= i
      BY <1>4 DEF PendingIsNewest
    <2>1. CASE <<v, l>> # <<f.user, f.level>>
      BY <1>6, <2>1 DEF IInv, PendingIsNewest
    <2>2. CASE v = f.user /\ l = f.level
      <3>1. Pending(v, l) = {}
        BY <2>2 DEF IInv, SubmissionsAreClear
      <3>2. i \in 1..(n + 1) /\ j \in 1..(n + 1)
        BY <1>3 DEF Pending, AttemptsOf
      <3>3. i \notin 1..n
        BY <1>3, <3>1 DEF Pending
      <3>4. QED
        BY <1>3, <3>2, <3>3
    <2>3. QED
      BY <2>1, <2>2
  <1>11. QED
    BY <1>5, <1>7, <1>8, <1>9, <1>10 DEF IInv

LEMMA FindAttemptOK ==
    ASSUME IInv, NEW q \in Requests, NEW u \in Users, NEW level \in Levels,
           NEW decision \in Decisions, FindAttempt(q, u, level, decision)
    PROVE  IInv'
  <1>1. PICK i \in Pending(u, level) :
            /\ deciding' = deciding \union {[request |-> q, attempt |-> i, to |-> decision]}
            /\ contested' = contested \union {f.attempt : f \in {g \in deciding : g.attempt = i}}
    BY DEF FindAttempt
  <1> DEFINE new == [request |-> q, attempt |-> i, to |-> decision]
  <1>2. UNCHANGED <<kyc, attempts, profiling, submitting, twice>> /\ contested \subseteq contested'
    BY <1>1 DEF FindAttempt
  <1>3. i \in DOMAIN attempts /\ attempts[i].status = "PENDING"
    BY DEF Pending
  <1>4. i \in Nat
    BY <1>3, LenProperties DEF IInv, TypeOK
  <1>5. \A v, l : Pending(v, l)' = Pending(v, l) /\ AttemptsOf(v, l)' = AttemptsOf(v, l)
    BY <1>2 DEF Pending, AttemptsOf
  <1>6. TypeOK'
    <2>1. new \in [request : Requests, attempt : Nat, to : Decisions]
      BY <1>4
    <2>2. contested' \subseteq Nat
      BY <1>1, <1>4 DEF IInv, TypeOK
    <2>3. QED
      BY <1>1, <1>2, <2>1, <2>2 DEF IInv, TypeOK
  <1>7. HeldAttemptsArePending'
    BY <1>1, <1>2, <1>3 DEF IInv, HeldAttemptsArePending
  <1>8. SharedIsRecorded'
    <2>1. \A g \in deciding : g.attempt = i => i \in contested'
      BY <1>1
    <2>2. QED
      BY <1>1, <1>2, <2>1 DEF IInv, SharedIsRecorded
  <1>9. SubmissionsAreClear' /\ PendingIsNewest'
    BY <1>2, <1>5 DEF IInv, SubmissionsAreClear, PendingIsNewest
  <1>10. QED
    BY <1>6, <1>7, <1>8, <1>9 DEF IInv

\* What a decision writes: at most the status of its own attempt, and never PENDING.
LEMMA DecideFacts ==
    ASSUME IInv, NEW f \in deciding, Decide(f)
    PROVE  /\ UNCHANGED <<kyc, profiling, submitting, twice, contested>>
           /\ deciding' = deciding \ {f}
           /\ attempts' \in Seq(Attempt) /\ DOMAIN attempts' = DOMAIN attempts
           /\ \A i \in DOMAIN attempts :
                  /\ attempts'[i].user = attempts[i].user
                  /\ attempts'[i].level = attempts[i].level
                  /\ i # f.attempt => attempts'[i] = attempts[i]
                  /\ attempts'[i].status = "PENDING" => attempts[i] = attempts'[i]
  <1> DEFINE k == f.attempt
             new == [attempts[k] EXCEPT !.status = IF f.to = "PENDING" THEN @ ELSE f.to]
  <1>1. k \in DOMAIN attempts /\ f.to \in Decisions /\ attempts \in Seq(Attempt)
    BY DEF IInv, TypeOK, HeldAttemptsArePending
  <1>2. attempts[k] \in Attempt
    BY <1>1
  <1>3. new \in Attempt
    BY <1>1, <1>2 DEF Attempt
  <1>4. attempts' = [attempts EXCEPT ![k] = new]
    BY DEF Decide
  <1>5. new.user = attempts[k].user /\ new.level = attempts[k].level
    BY <1>2 DEF Attempt
  <1>6. new.status = "PENDING" => new = attempts[k]
    BY <1>2 DEF Attempt
  <1> HIDE DEF new
  <1>7. attempts' \in Seq(Attempt) /\ DOMAIN attempts' = DOMAIN attempts
    BY <1>1, <1>3, <1>4, ExceptSeq, LenProperties
  <1>8. QED
    BY <1>1, <1>4, <1>5, <1>6, <1>7 DEF Decide

LEMMA DecideOK ==
    ASSUME IInv, NEW f \in deciding, Decide(f)
    PROVE  IInv'
  <1>1. TypeOK'
    BY DecideFacts DEF IInv, TypeOK
  <1>2. \A u, level : /\ Pending(u, level)' \subseteq Pending(u, level)
                      /\ AttemptsOf(u, level)' = AttemptsOf(u, level)
    <2> SUFFICES ASSUME NEW u, NEW level
                 PROVE  /\ Pending(u, level)' \subseteq Pending(u, level)
                        /\ AttemptsOf(u, level)' = AttemptsOf(u, level)
      OBVIOUS
    <2>1. AttemptsOf(u, level)' = AttemptsOf(u, level)
      BY DecideFacts DEF AttemptsOf
    <2>2. ASSUME NEW i \in Pending(u, level)' PROVE i \in Pending(u, level)
      BY DecideFacts DEF Pending
    <2>3. QED
      BY <2>1, <2>2
  <1>3. HeldAttemptsArePending'
    <2> SUFFICES ASSUME NEW g \in deciding \ {f}
                 PROVE  /\ g.attempt \in DOMAIN attempts
                        /\ g.attempt \notin contested => attempts'[g.attempt].status = "PENDING"
      BY DecideFacts DEF HeldAttemptsArePending
    <2>1. g.attempt \notin contested => g.attempt # f.attempt
      BY DEF IInv, SharedIsRecorded
    <2>2. QED
      BY <2>1, DecideFacts DEF IInv, HeldAttemptsArePending
  <1>4. SharedIsRecorded'
    BY DecideFacts DEF IInv, SharedIsRecorded
  <1>5. SubmissionsAreClear'
    <2>1. \A i \in DOMAIN attempts' : attempts'[i].user \in kyc'
      BY DecideFacts DEF IInv, SubmissionsAreClear
    <2>2. \A g \in submitting :
              /\ g.user \in kyc
              /\ <<g.user, g.level>> \notin twice => Pending(g.user, g.level)' = {}
      BY <1>2 DEF IInv, SubmissionsAreClear
    <2>3. UNCHANGED <<kyc, submitting, twice>>
      BY DecideFacts
    <2>4. QED
      BY <2>1, <2>2, <2>3 DEF SubmissionsAreClear
  <1>6. PendingIsNewest'
    BY <1>2, DecideFacts DEF IInv, PendingIsNewest
  <1>7. QED
    BY <1>1, <1>3, <1>4, <1>5, <1>6 DEF IInv

-----------------------------------------------------------------------------
\* Every step keeps the invariant.
LEMMA NextOK == IInv /\ [Next]_vars => IInv'
  <1> SUFFICES ASSUME IInv, [Next]_vars PROVE IInv'
    OBVIOUS
  <1>1. ASSUME NEW q \in Requests, NEW u \in Users, FindUser(q, u)
        PROVE  IInv'
    <2> DEFINE known == u \in kyc
    <2>1. profiling' \subseteq [request : Requests, user : Users, hasKyc : BOOLEAN]
      <3>1. known \in BOOLEAN
        OBVIOUS
      <3>2. profiling' = profiling \union {[request |-> q, user |-> u, hasKyc |-> known]}
        BY <1>1 DEF FindUser
      <3> HIDE DEF known
      <3>3. QED
        BY <3>1, <3>2 DEF IInv, TypeOK
    <2>2. QED
      BY <1>1, <2>1, TableKeptOK DEF IInv, TypeOK, FindUser
  <1>2. ASSUME NEW f \in profiling, SaveProfile(f)
        PROVE  IInv'
    BY <1>2, TableKeptOK DEF IInv, TypeOK, SaveProfile
  <1>3. ASSUME NEW q \in Requests, NEW u \in Users, NEW level \in Levels, FindKyc(q, u, level)
        PROVE  IInv'
    BY <1>3, FindKycOK
  <1>4. ASSUME NEW f \in submitting, SaveAttempt(f)
        PROVE  IInv'
    BY <1>4, SaveAttemptOK
  <1>5. ASSUME NEW q \in Requests, NEW u \in Users, NEW level \in Levels,
               NEW decision \in Decisions, FindAttempt(q, u, level, decision)
        PROVE  IInv'
    BY <1>5, FindAttemptOK
  <1>6. ASSUME NEW f \in deciding, Decide(f)
        PROVE  IInv'
    BY <1>6, DecideOK
  <1>7. CASE CallLost
    BY <1>7, TableKeptOK DEF IInv, TypeOK, CallLost
  <1>8. CASE UNCHANGED vars
    BY <1>8, TableKeptOK DEF IInv, TypeOK, vars
  <1>9. QED
    BY <1>1, <1>2, <1>3, <1>4, <1>5, <1>6, <1>7, <1>8 DEF Next, Profiles, Submissions, Reviews

LEMMA Invariance == Spec => []IInv
  BY InitOK, NextOK, PTL DEF Spec

\* Every variable keeps its type; in particular no decision points outside the numbers
\* of the attempt table.
THEOREM TypeCorrect == Spec => []TypeOK
  <1>1. IInv => TypeOK
    BY DEF IInv
  <1>2. QED
    BY <1>1, Invariance, PTL

\* One pending attempt of a level at most, and none before the profile is saved, unless
\* two submissions of the user ran at once: however many admins decide, and however late.
THEOREM AtMostOnePending == Spec => []OnePendingUnlessTwice
  <1>1. IInv => OnePendingUnlessTwice
    <2> SUFFICES ASSUME IInv, NEW u \in Users, NEW level \in Levels, <<u, level>> \notin twice
                 PROVE  Cardinality(Pending(u, level)) <= IF u \in kyc THEN 1 ELSE 0
      BY DEF OnePendingUnlessTwice
    <2>1. \A i \in Pending(u, level) : i \in Nat /\ attempts[i].user = u /\ i \in DOMAIN attempts
      BY LenProperties DEF IInv, TypeOK, Pending
    <2>2. CASE Pending(u, level) = {}
      BY <2>2, FS_EmptySet
    <2>3. CASE Pending(u, level) # {}
      <3>1. PICK i \in Pending(u, level) : TRUE
        BY <2>3
      <3>2. u \in kyc
        BY <2>1, <3>1 DEF IInv, SubmissionsAreClear
      <3>3. \A j \in Pending(u, level) : j \in AttemptsOf(u, level)
        BY DEF Pending, AttemptsOf
      <3>4. \A j \in Pending(u, level) : i <= j /\ j <= i
        BY <3>1, <3>3 DEF IInv, PendingIsNewest
      <3>5. Pending(u, level) = {i}
        BY <2>1, <3>1, <3>4
      <3>6. Cardinality(Pending(u, level)) = 1
        BY <3>5, FS_Singleton
      <3>7. QED
        BY <3>2, <3>6
    <2>4. QED
      BY <2>2, <2>3
  <1>2. QED
    BY <1>1, Invariance, PTL

\* A level that was not submitted twice at once is shown as PENDING exactly while an
\* admin can decide it and the user cannot submit again.
THEOREM ShownPendingIsPending == Spec => []PendingIsShown
  <1>1. IInv => PendingIsShown
    <2> SUFFICES ASSUME IInv, NEW u \in Users, NEW level \in Levels, <<u, level>> \notin twice
                 PROVE  Pending(u, level) # {} <=> Shown(u, level) = "PENDING"
      BY DEF PendingIsShown
    <2> DEFINE Newest(i) == \A j \in AttemptsOf(u, level) : j <= i
    <2>1. Len(attempts) \in Nat /\ AttemptsOf(u, level) \subseteq 1..Len(attempts)
      BY LenProperties DEF IInv, TypeOK, AttemptsOf
    <2>2. CASE AttemptsOf(u, level) = {}
      BY <2>2 DEF Shown, Pending, AttemptsOf
    <2>3. CASE AttemptsOf(u, level) # {}
      <3>1. PICK m \in AttemptsOf(u, level) : Newest(m)
        BY <2>1, <2>3, HasLast
      <3>2. \A i \in AttemptsOf(u, level) : Newest(i) => i = m
        BY <2>1, <3>1
      <3>3. m = CHOOSE i \in AttemptsOf(u, level) : Newest(i)
        BY <3>1, <3>2
      <3>4. Shown(u, level) = attempts[m].status
        BY <2>3, <3>3 DEF Shown
      <3>5. m \in DOMAIN attempts /\ attempts[m] \in Attempt
        BY <2>1, <3>1, ElementOfSeq DEF AttemptsOf, IInv, TypeOK
      <3>6. attempts[m].status = "PENDING" => m \in Pending(u, level)
        BY <3>1, <3>5 DEF Pending, AttemptsOf, Attempt
      <3>7. ASSUME NEW i \in Pending(u, level) PROVE attempts[m].status = "PENDING"
        <4>1. i \in AttemptsOf(u, level) /\ attempts[i].status = "PENDING"
          BY DEF Pending, AttemptsOf
        <4>2. Newest(i)
          BY DEF IInv, PendingIsNewest
        <4>3. QED
          BY <3>2, <4>1, <4>2
      <3>8. QED
        BY <3>4, <3>6, <3>7
    <2>4. QED
      BY <2>2, <2>3
  <1>2. QED
    BY <1>1, Invariance, PTL

\* A decision is final unless two admins held the attempt at once.
THEOREM DecisionsAreFinal == Spec => DecidedOnceUnlessContested
  <1> DEFINE Final == \A i \in DOMAIN attempts :
                          attempts[i].status # "PENDING" /\ attempts'[i].status # attempts[i].status
                              => i \in contested
  <1>1. IInv /\ [Next]_vars => [Final]_vars
    <2> SUFFICES ASSUME IInv, Next PROVE Final
      OBVIOUS
    <2>1. ASSUME NEW f \in deciding, Decide(f) PROVE Final
      BY <2>1, DecideFacts DEF IInv, HeldAttemptsArePending
    <2>2. ASSUME NEW f \in submitting, SaveAttempt(f) PROVE Final
      <3>1. \A i \in DOMAIN attempts : attempts'[i] = attempts[i]
        BY <2>2 DEF IInv, TypeOK, SaveAttempt
      <3>2. QED
        BY <3>1
    <2>3. CASE UNCHANGED attempts
      BY <2>3
    <2>4. QED
      BY <2>1, <2>2, <2>3 DEF Next, Profiles, Submissions, Reviews, CallLost, FindUser,
                              SaveProfile, FindKyc, FindAttempt
  <1>2. QED
    BY <1>1, Invariance, PTL DEF Spec, DecidedOnceUnlessContested
=============================================================================
