--------------------------- MODULE CampaignsProofs ---------------------------
(***************************************************************************)
(* Proofs about Campaigns, for any sets of campaigns, users and concurrent *)
(* requests and an interaction table of any length.                        *)
(***************************************************************************)
EXTENDS Campaigns, FiniteSetTheorems, SequenceTheorems, TLAPS

\* Calls that share a campaign are on record.
SharedIsRecorded ==
    /\ \A f, g \in moderating : f.campaign = g.campaign /\ f # g => f.campaign \in contested
    /\ \A f, g \in interacting :
           f.campaign = g.campaign /\ f # g => <<f.campaign, {f.user, g.user}>> \in together

\* A lifecycle call alone with its campaign finds it as it was read: not stopped.
HeldCampaignsRun ==
    \A f \in moderating : f.campaign \notin contested => status[f.campaign] # "STOPPED"

\* The row a call has found is in the table and is its user's; views that the call has
\* seen have not gone since.
FoundRowsStay ==
    \A f \in interacting : f.row # 0 =>
        /\ f.row \in RowsOf(f.user, f.campaign)
        /\ f.seen > 0 => interactions[f.row].views > 0

\* A call that found no row of its user, alone, will find none when it saves.
NoneFoundIsNone ==
    \A f \in interacting :
        f.at = "interaction" /\ f.row = 0 /\ <<f.campaign, {f.user}>> \notin together
            => RowsOf(f.user, f.campaign) = {}

OneRow ==
    \A u \in Users, c \in Campaigns : <<c, {u}>> \notin together =>
        \A i, j \in RowsOf(u, c) : i = j

\* A call alone on its campaign holds the counters and the row as they are.
LoneCallsAreFresh ==
    \A f \in interacting : Alone(f.campaign) =>
        /\ f.likes = likes[f.campaign] /\ f.views = views[f.campaign]
        /\ f.row = 0 => ~ f.liked
        /\ f.row # 0 => /\ f.liked <=> interactions[f.row].liked
                        /\ f.seen = interactions[f.row].views

\* CountersAddUp, over sets that are finite.
CountersMatch ==
    \A c \in Campaigns : Alone(c) =>
        /\ IsFiniteSet(LikedRows(c)) /\ likes[c] = Cardinality(LikedRows(c))
        /\ IsFiniteSet(CountedViews(c)) /\ views[c] = Cardinality(CountedViews(c))

IInv ==
    /\ TypeOK
    /\ SharedIsRecorded
    /\ HeldCampaignsRun
    /\ FoundRowsStay
    /\ CreditIffViewed
    /\ NoneFoundIsNone
    /\ OneRow
    /\ LoneCallsAreFresh
    /\ CountersMatch

-----------------------------------------------------------------------------
\* What Append does to a sequence, as the provers use it below.
LEMMA AppendFacts ==
    ASSUME NEW S, NEW s \in Seq(S), NEW e \in S
    PROVE  /\ Append(s, e) \in Seq(S)
           /\ Len(s) \in Nat
           /\ DOMAIN s = 1..Len(s)
           /\ DOMAIN Append(s, e) = 1..(Len(s) + 1)
           /\ \A i \in 1..Len(s) : Append(s, e)[i] = s[i]
           /\ Append(s, e)[Len(s) + 1] = e
  OBVIOUS

LEMMA InitOK == Init => IInv
  <1> SUFFICES ASSUME Init PROVE IInv
    OBVIOUS
  <1>1. DOMAIN interactions = {}
    BY DEF Init
  <1>2. TypeOK
    BY DEF Init, TypeOK
  <1>3. CountersMatch
    <2> SUFFICES ASSUME NEW c \in Campaigns
                 PROVE  /\ IsFiniteSet(LikedRows(c)) /\ likes[c] = Cardinality(LikedRows(c))
                        /\ IsFiniteSet(CountedViews(c)) /\ views[c] = Cardinality(CountedViews(c))
      BY DEF CountersMatch
    <2>1. LikedRows(c) = {} /\ CountedViews(c) = {}
      BY <1>1 DEF LikedRows, CountedViews, RowsOn
    <2>2. QED
      BY <2>1, FS_EmptySet DEF Init
  <1>4. QED
    BY <1>1, <1>2, <1>3 DEF Init, IInv, SharedIsRecorded, HeldCampaignsRun, FoundRowsStay,
                      CreditIffViewed, NoneFoundIsNone, OneRow, RowsOf, LoneCallsAreFresh

\* Lifecycle steps and lost calls: the interactions stay as they are, and no call on
\* them begins or moves.
LEMMA InteractionsKeptOK ==
    ASSUME IInv, UNCHANGED <<likes, views, interactions, together>>, interacting' \subseteq interacting
    PROVE  /\ FoundRowsStay' /\ CreditIffViewed' /\ NoneFoundIsNone' /\ OneRow'
           /\ LoneCallsAreFresh' /\ CountersMatch'
           /\ \A f, g \in interacting' :
                  f.campaign = g.campaign /\ f # g => <<f.campaign, {f.user, g.user}>> \in together'
  <1>1. \A u, c : RowsOf(u, c)' = RowsOf(u, c)
    BY DEF RowsOf
  <1>2. FoundRowsStay' /\ CreditIffViewed' /\ NoneFoundIsNone' /\ OneRow'
    BY <1>1 DEF IInv, FoundRowsStay, CreditIffViewed, NoneFoundIsNone, OneRow
  <1>3. LoneCallsAreFresh' /\ CountersMatch'
    <2>1. \A c : /\ Alone(c)' <=> Alone(c)
                 /\ LikedRows(c)' = LikedRows(c) /\ CountedViews(c)' = CountedViews(c)
      BY DEF Alone, LikedRows, CountedViews, RowsOn
    <2>2. QED
      BY <2>1 DEF IInv, LoneCallsAreFresh, CountersMatch
  <1>4. QED
    BY <1>2, <1>3 DEF IInv, SharedIsRecorded

\* A campaign on which no two interactions have overlapped has one at most.
LEMMA LoneCalls ==
    ASSUME IInv, NEW f \in interacting, NEW g \in interacting, f.campaign = g.campaign,
           Alone(f.campaign)
    PROVE  f = g
  <1>1. {f.user, g.user} \in SUBSET Users
    BY DEF IInv, TypeOK, Call
  <1>2. <<f.campaign, {f.user, g.user}>> \notin together
    BY <1>1 DEF Alone
  <1>3. QED
    BY <1>2 DEF IInv, SharedIsRecorded

LEMMA CreateOK ==
    ASSUME IInv, NEW c \in Campaigns, Create(c)
    PROVE  IInv'
  <1>1. TypeOK'
    BY DEF IInv, TypeOK, Create
  <1>2. HeldCampaignsRun'
    BY DEF IInv, TypeOK, HeldCampaignsRun, Create
  <1>3. SharedIsRecorded'
    BY DEF IInv, SharedIsRecorded, Create
  <1>4. QED
    BY <1>1, <1>2, <1>3, InteractionsKeptOK DEF IInv, Create

\* A lifecycle call finds a campaign that is not stopped.
LEMMA FindOK ==
    ASSUME IInv, NEW q \in Requests, NEW c \in Campaigns, NEW from, NEW to,
           to \in {"ACTIVE", "PAUSED", "STOPPED"}, "STOPPED" \notin from, Find(q, c, from, to)
    PROVE  IInv'
  <1> DEFINE new == [request |-> q, campaign |-> c, to |-> to]
  <1>1. /\ UNCHANGED <<status, likes, views, interactions, interacting, together>>
        /\ moderating' = moderating \union {new}
        /\ contested \subseteq contested'
        /\ status[c] # "STOPPED"
    BY DEF Find, table
  <1>2. TypeOK'
    BY <1>1 DEF IInv, TypeOK, Find
  <1>3. HeldCampaignsRun'
    BY <1>1 DEF IInv, HeldCampaignsRun
  <1>4. SharedIsRecorded'
    <2>1. \A f \in moderating : f.campaign = c => c \in contested'
      BY DEF Find
    <2>2. QED
      BY <1>1, <2>1 DEF IInv, SharedIsRecorded
  <1>5. QED
    BY <1>1, <1>2, <1>3, <1>4, InteractionsKeptOK DEF IInv

LEMMA SetStatusOK ==
    ASSUME IInv, NEW f \in moderating, SetStatus(f)
    PROVE  IInv'
  <1>1. TypeOK'
    BY DEF IInv, TypeOK, SetStatus
  <1>2. HeldCampaignsRun'
    <2> SUFFICES ASSUME NEW g \in moderating \ {f}, g.campaign \notin contested
                 PROVE  status'[g.campaign] # "STOPPED"
      BY DEF HeldCampaignsRun, SetStatus
    <2>1. g.campaign # f.campaign
      BY DEF IInv, SharedIsRecorded
    <2>2. QED
      BY <2>1 DEF IInv, TypeOK, HeldCampaignsRun, SetStatus
  <1>3. SharedIsRecorded'
    BY DEF IInv, SharedIsRecorded, SetStatus
  <1>4. QED
    BY <1>1, <1>2, <1>3, InteractionsKeptOK DEF IInv, SetStatus

LEMMA CallLostOK ==
    ASSUME IInv, UNCHANGED <<status, likes, views, interactions, contested, together>>,
           moderating' \subseteq moderating, interacting' \subseteq interacting
    PROVE  IInv'
  <1>1. TypeOK' /\ HeldCampaignsRun' /\ SharedIsRecorded'
    BY DEF IInv, TypeOK, HeldCampaignsRun, SharedIsRecorded
  <1>2. QED
    BY <1>1, InteractionsKeptOK DEF IInv

-----------------------------------------------------------------------------
LEMMA FindCampaignOK ==
    ASSUME IInv, NEW q \in Requests, NEW u \in Users, NEW c \in Campaigns,
           NEW payload \in Payloads, FindCampaign(q, u, c, payload)
    PROVE  IInv'
  <1> DEFINE new == [request |-> q, user |-> u, campaign |-> c, payload |-> payload,
                     at |-> "campaign", likes |-> likes[c], views |-> views[c], row |-> 0,
                     liked |-> FALSE, seen |-> 0]
  <1>1. /\ UNCHANGED <<status, likes, views, interactions, moderating, contested>>
        /\ interacting' = interacting \union {new}
        /\ together \subseteq together'
    BY DEF FindCampaign, table
  <1>2. new \in Call
    BY DEF IInv, TypeOK, Call
  <1>3. \A v, d : RowsOf(v, d)' = RowsOf(v, d)
    BY <1>1 DEF RowsOf
  <1>4. \A f \in interacting : f.user \in Users /\ f.campaign \in Campaigns
    BY DEF IInv, TypeOK, Call
  <1>5. \A f \in interacting : f.campaign = c => <<c, {u, f.user}>> \in together'
    BY DEF FindCampaign
  <1>6. together' \subseteq Campaigns \X SUBSET Users
    <2>1. \A f \in interacting : {u, f.user} \in SUBSET Users
      BY <1>4
    <2>2. \A f \in interacting : <<c, {u, f.user}>> \in Campaigns \X SUBSET Users
      BY <2>1
    <2>3. together \subseteq Campaigns \X SUBSET Users
      BY DEF IInv, TypeOK
    <2>4. \A p \in together' : p \in together \/ \E f \in interacting : p = <<c, {u, f.user}>>
      BY DEF FindCampaign
    <2>5. QED
      BY <2>2, <2>3, <2>4
  <1>7. TypeOK'
    BY <1>1, <1>2, <1>6 DEF IInv, TypeOK
  <1>8. SharedIsRecorded'
    <2>1. \A f, g \in moderating' : f.campaign = g.campaign /\ f # g => f.campaign \in contested'
      BY <1>1 DEF IInv, SharedIsRecorded
    <2> SUFFICES ASSUME NEW f \in interacting', NEW g \in interacting', f.campaign = g.campaign, f # g
                 PROVE  <<f.campaign, {f.user, g.user}>> \in together'
      BY <2>1 DEF SharedIsRecorded
    <2>2. CASE f \in interacting /\ g \in interacting
      BY <1>1, <2>2 DEF IInv, SharedIsRecorded
    <2>3. CASE f = new /\ g \in interacting
      BY <1>5, <2>3
    <2>4. CASE g = new /\ f \in interacting
      <3>1. {f.user, u} = {u, f.user}
        OBVIOUS
      <3>2. QED
        BY <1>5, <2>4, <3>1
    <2>5. QED
      BY <1>1, <2>2, <2>3, <2>4
  <1>9. HeldCampaignsRun' /\ CreditIffViewed'
    BY <1>1 DEF IInv, HeldCampaignsRun, CreditIffViewed
  <1>10. FoundRowsStay' /\ NoneFoundIsNone' /\ OneRow'
    BY <1>1, <1>3 DEF IInv, FoundRowsStay, NoneFoundIsNone, OneRow
  <1>11. LoneCallsAreFresh' /\ CountersMatch'
    <2>1. \A d : /\ Alone(d)' => Alone(d)
                 /\ LikedRows(d)' = LikedRows(d) /\ CountedViews(d)' = CountedViews(d)
      BY <1>1 DEF Alone, LikedRows, CountedViews, RowsOn
    <2>2. CountersMatch'
      BY <1>1, <2>1 DEF IInv, CountersMatch
    <2>3. LoneCallsAreFresh'
      BY <1>1, <2>1 DEF IInv, LoneCallsAreFresh
    <2>4. QED
      BY <2>2, <2>3
  <1>12. QED
    BY <1>7, <1>8, <1>9, <1>10, <1>11 DEF IInv

LEMMA FindInteractionOK ==
    ASSUME IInv, NEW f \in interacting, FindInteraction(f)
    PROVE  IInv'
  <1>1. /\ UNCHANGED <<status, likes, views, interactions, moderating, contested, together>>
        /\ f.at = "campaign"
    BY DEF FindInteraction, table
  <1>2. f \in Call
    BY DEF IInv, TypeOK
  <1>3. PICK new \in Call :
            /\ interacting' = (interacting \ {f}) \union {new}
            /\ new.user = f.user /\ new.campaign = f.campaign
            /\ new.row # 0 => /\ new.row \in RowsOf(f.user, f.campaign)
                              /\ new.seen = interactions[new.row].views
                              /\ new.liked = interactions[new.row].liked
            /\ new.likes = f.likes /\ new.views = f.views
            /\ new.row = 0 => new.liked = f.liked /\ f.row = 0
            /\ new.row = 0 => RowsOf(f.user, f.campaign) = {}
    <2>1. CASE /\ RowsOf(f.user, f.campaign) = {}
               /\ interacting' = (interacting \ {f}) \union {[f EXCEPT !.at = "interaction"]}
      <3> DEFINE new == [f EXCEPT !.at = "interaction"]
      <3>1. /\ new \in Call /\ new.user = f.user /\ new.campaign = f.campaign /\ new.row = f.row
            /\ new.liked = f.liked /\ new.likes = f.likes /\ new.views = f.views
        BY <1>2 DEF Call
      <3>2. f.row = 0
        BY <2>1 DEF IInv, FoundRowsStay
      <3> HIDE DEF new
      <3>3. QED
        BY <2>1, <3>1, <3>2 DEF new
    <2>2. CASE \E i \in RowsOf(f.user, f.campaign) :
                  interacting' = (interacting \ {f}) \union
                      {[f EXCEPT !.at = "interaction", !.row = i,
                                 !.liked = interactions[i].liked, !.seen = interactions[i].views]}
      <3>1. PICK i \in RowsOf(f.user, f.campaign) :
                  interacting' = (interacting \ {f}) \union
                      {[f EXCEPT !.at = "interaction", !.row = i,
                                 !.liked = interactions[i].liked, !.seen = interactions[i].views]}
        BY <2>2
      <3> DEFINE f1 == [f EXCEPT !.at = "interaction"]
                 f2 == [f1 EXCEPT !.row = i]
                 f3 == [f2 EXCEPT !.liked = interactions[i].liked]
                 new == [f3 EXCEPT !.seen = interactions[i].views]
      <3>2. i \in 1..Len(interactions) /\ Len(interactions) \in Nat /\ interactions[i] \in Interaction
        BY LenProperties, ElementOfSeq DEF RowsOf, IInv, TypeOK
      <3>3. /\ new \in Call /\ new.user = f.user /\ new.campaign = f.campaign
            /\ new.likes = f.likes /\ new.views = f.views
            /\ new.row = i /\ new.seen = interactions[i].views /\ new.liked = interactions[i].liked
        <4>1. /\ f1 \in Call /\ f1.user = f.user /\ f1.campaign = f.campaign
              /\ f1.likes = f.likes /\ f1.views = f.views
          BY <1>2 DEF Call
        <4> HIDE DEF f1
        <4>2. /\ f2 \in Call /\ f2.user = f.user /\ f2.campaign = f.campaign /\ f2.row = i
              /\ f2.likes = f.likes /\ f2.views = f.views
          BY <3>2, <4>1 DEF Call
        <4> HIDE DEF f2
        <4>3. /\ f3 \in Call /\ f3.user = f.user /\ f3.campaign = f.campaign /\ f3.row = i
              /\ f3.likes = f.likes /\ f3.views = f.views /\ f3.liked = interactions[i].liked
          BY <3>2, <4>2 DEF Call, Interaction
        <4> HIDE DEF f3
        <4>4. QED
          BY <3>2, <4>3 DEF Call, Interaction
      <3>4. i # 0
        BY <3>2
      <3>5. interacting' = (interacting \ {f}) \union {new}
        BY <3>1
      <3> HIDE DEF new
      <3>6. QED
        BY <3>3, <3>4, <3>5
    <2>3. QED
      BY <2>1, <2>2 DEF FindInteraction
  <1>4. \A v, d : RowsOf(v, d)' = RowsOf(v, d)
    BY <1>1 DEF RowsOf
  <1>5. TypeOK'
    BY <1>1, <1>3 DEF IInv, TypeOK
  <1>6. SharedIsRecorded'
    BY <1>1, <1>3 DEF IInv, SharedIsRecorded
  <1>7. HeldCampaignsRun' /\ CreditIffViewed'
    BY <1>1 DEF IInv, HeldCampaignsRun, CreditIffViewed
  <1>8. FoundRowsStay' /\ NoneFoundIsNone'
    BY <1>1, <1>3, <1>4 DEF IInv, FoundRowsStay, NoneFoundIsNone
  <1>9. OneRow'
    BY <1>1, <1>4 DEF IInv, OneRow
  <1>10. LoneCallsAreFresh' /\ CountersMatch'
    <2>1. \A d : /\ Alone(d)' <=> Alone(d)
                 /\ LikedRows(d)' = LikedRows(d) /\ CountedViews(d)' = CountedViews(d)
      BY <1>1 DEF Alone, LikedRows, CountedViews, RowsOn
    <2>2. CountersMatch'
      BY <1>1, <2>1 DEF IInv, CountersMatch
    <2>3. LoneCallsAreFresh'
      BY <1>1, <1>3, <2>1 DEF IInv, LoneCallsAreFresh
    <2>4. QED
      BY <2>2, <2>3
  <1>11. QED
    BY <1>5, <1>6, <1>7, <1>8, <1>9, <1>10 DEF IInv

\* What a flush leaves of the table: it adds the user's row, or changes columns of the
\* row that the call found, and never whose row it is.
LEMMA SavedFacts ==
    ASSUME IInv, NEW f \in interacting
    PROVE  LET n == Len(interactions)
           IN  /\ n \in Nat /\ DOMAIN interactions = 1..n
               /\ Saved(f) \in Seq(Interaction)
               /\ f.row = 0 =>
                    /\ DOMAIN Saved(f) = 1..(n + 1)
                    /\ \A i \in 1..n : Saved(f)[i] = interactions[i]
                    /\ Saved(f)[n + 1].user = f.user /\ Saved(f)[n + 1].campaign = f.campaign
                    /\ Saved(f)[n + 1].views = IF Views(f) THEN 1 ELSE 0
                    /\ Saved(f)[n + 1].credited <=> Views(f)
                    /\ Saved(f)[n + 1].liked <=> Likes(f)
               /\ f.row # 0 =>
                    /\ DOMAIN Saved(f) = 1..n
                    /\ \A i \in 1..n : i # f.row => Saved(f)[i] = interactions[i]
                    /\ f.row \in 1..n
                    /\ Saved(f)[f.row].user = f.user /\ Saved(f)[f.row].campaign = f.campaign
                    /\ Saved(f)[f.row].views =
                           IF Views(f) THEN f.seen + 1 ELSE interactions[f.row].views
                    /\ Saved(f)[f.row].credited <=>
                           interactions[f.row].credited \/ (Views(f) /\ f.seen = 0)
                    /\ Saved(f)[f.row].liked <=>
                           IF Likes(f) THEN ~ f.liked ELSE interactions[f.row].liked
  <1> DEFINE n == Len(interactions)
             r == f.row
  <1>1. f \in Call /\ interactions \in Seq(Interaction)
    BY DEF IInv, TypeOK
  <1>2. n \in Nat /\ DOMAIN interactions = 1..n
    BY <1>1, LenProperties
  <1>3. CASE r = 0
    <2> DEFINE new == [user |-> f.user, campaign |-> f.campaign, liked |-> Likes(f),
                       views |-> IF Views(f) THEN 1 ELSE 0, credited |-> Views(f)]
    <2>1. Likes(f) \in BOOLEAN /\ Views(f) \in BOOLEAN
      BY DEF Likes, Views
    <2>2. (IF Views(f) THEN 1 ELSE 0) \in Nat
      OBVIOUS
    <2>3. new \in Interaction
      BY <1>1, <2>1, <2>2, Zenon DEF Call, Interaction
    <2>4. /\ new.user = f.user /\ new.campaign = f.campaign
          /\ new.views = IF Views(f) THEN 1 ELSE 0
          /\ new.credited <=> Views(f)
          /\ new.liked <=> Likes(f)
      OBVIOUS
    <2>5. Saved(f) = Append(interactions, new)
      BY <1>3 DEF Saved
    <2> HIDE DEF new
    <2>6. /\ Saved(f) \in Seq(Interaction) /\ DOMAIN Saved(f) = 1..(n + 1)
          /\ \A i \in 1..n : Saved(f)[i] = interactions[i]
          /\ Saved(f)[n + 1] = new
      BY <1>1, <2>3, <2>5, AppendFacts
    <2>7. QED
      BY <1>2, <1>3, <2>4, <2>6
  <1>4. CASE r # 0
    <2>1. /\ r \in 1..n /\ interactions[r] \in Interaction
          /\ interactions[r].user = f.user /\ interactions[r].campaign = f.campaign
      <3>1. r \in RowsOf(f.user, f.campaign)
        BY <1>4 DEF IInv, FoundRowsStay
      <3>2. QED
        BY <1>1, <1>2, <3>1, ElementOfSeq DEF RowsOf
    <2> DEFINE e1 == [interactions[r] EXCEPT !.liked = IF Likes(f) THEN ~ f.liked ELSE @]
               s1 == [interactions EXCEPT ![r] = e1]
               e2 == [s1[r] EXCEPT !.views = IF Views(f) THEN f.seen + 1 ELSE @]
               s2 == [s1 EXCEPT ![r] = e2]
               e3 == [s2[r] EXCEPT !.credited = @ \/ (Views(f) /\ f.seen = 0)]
               s3 == [s2 EXCEPT ![r] = e3]
    <2>2. Saved(f) = s3
      BY <1>4 DEF Saved
    <2>3. /\ e1 \in Interaction /\ e1.user = f.user /\ e1.campaign = f.campaign
          /\ e1.views = interactions[r].views /\ e1.credited = interactions[r].credited
          /\ e1.liked <=> IF Likes(f) THEN ~ f.liked ELSE interactions[r].liked
      <3> DEFINE x == IF Likes(f) THEN ~ f.liked ELSE interactions[r].liked
      <3>1. x \in BOOLEAN /\ (x <=> IF Likes(f) THEN ~ f.liked ELSE interactions[r].liked)
        BY <1>1, <2>1 DEF Call, Interaction
      <3>2. e1 = [interactions[r] EXCEPT !.liked = x]
        OBVIOUS
      <3> HIDE DEF x
      <3>3. QED
        BY <2>1, <3>1, <3>2 DEF Interaction
    <2> HIDE DEF e1
    <2>4. /\ s1 \in Seq(Interaction) /\ DOMAIN s1 = 1..n /\ s1[r] = e1
          /\ \A i \in 1..n : i # r => s1[i] = interactions[i]
      BY <1>1, <1>2, <2>1, <2>3, ExceptSeq
    <2> HIDE DEF s1
    <2>5. /\ e2 \in Interaction /\ e2.user = f.user /\ e2.campaign = f.campaign
          /\ e2.views = IF Views(f) THEN f.seen + 1 ELSE interactions[r].views
          /\ e2.credited = e1.credited /\ e2.liked = e1.liked
      BY <1>1, <2>3, <2>4 DEF Call, Interaction
    <2> HIDE DEF e2
    <2>6. /\ s2 \in Seq(Interaction) /\ DOMAIN s2 = 1..n /\ s2[r] = e2
          /\ \A i \in 1..n : i # r => s2[i] = interactions[i]
      BY <1>2, <2>1, <2>4, <2>5, ExceptSeq, LenProperties
    <2> HIDE DEF s2
    <2>7. /\ e3 \in Interaction /\ e3.user = f.user /\ e3.campaign = f.campaign
          /\ e3.views = e2.views /\ e3.liked = e2.liked
          /\ e3.credited <=> e2.credited \/ (Views(f) /\ f.seen = 0)
      <3> DEFINE x == e2.credited \/ (Views(f) /\ f.seen = 0)
      <3>1. x \in BOOLEAN /\ (x <=> e2.credited \/ (Views(f) /\ f.seen = 0))
        BY <2>5 DEF Interaction
      <3>2. e3 = [s2[r] EXCEPT !.credited = x]
        BY <2>6
      <3> HIDE DEF x
      <3>3. QED
        BY <2>5, <2>6, <3>1, <3>2 DEF Interaction
    <2> HIDE DEF e3
    <2>8. /\ s3 \in Seq(Interaction) /\ DOMAIN s3 = 1..n /\ s3[r] = e3
          /\ \A i \in 1..n : i # r => s3[i] = interactions[i]
      BY <1>2, <2>1, <2>6, <2>7, ExceptSeq, LenProperties
    <2> HIDE DEF s3
    <2>9. QED
      BY <1>2, <1>4, <2>1, <2>2, <2>3, <2>5, <2>7, <2>8
  <1>5. QED
    BY <1>3, <1>4

\* The flush of a call alone on its campaign counts once what it adds to the rows.
LEMMA LoneSaveCounts ==
    ASSUME IInv, NEW f \in interacting, SaveInteraction(f), Alone(f.campaign)
    PROVE  /\ IsFiniteSet(LikedRows(f.campaign)')
           /\ likes'[f.campaign] = Cardinality(LikedRows(f.campaign)')
           /\ IsFiniteSet(CountedViews(f.campaign)')
           /\ views'[f.campaign] = Cardinality(CountedViews(f.campaign)')
  <1> DEFINE n == Len(interactions)
             c == f.campaign
             r == IF f.row = 0 THEN n + 1 ELSE f.row
             was == IF f.row = 0 THEN 0 ELSE interactions[f.row].views
  <1>1. f \in Call /\ c \in Campaigns /\ interactions' = Saved(f) /\ n \in Nat
        /\ DOMAIN interactions = 1..n
    BY SavedFacts DEF SaveInteraction, IInv, TypeOK, Call
  <1>2. /\ f.likes = likes[c] /\ f.views = views[c]
        /\ f.row = 0 => ~ f.liked
        /\ f.row # 0 => (f.liked <=> interactions[f.row].liked) /\ f.seen = interactions[f.row].views
    BY DEF IInv, LoneCallsAreFresh
  <1>3. f.row # 0 => f.row \in 1..n /\ interactions[f.row].campaign = c
    BY <1>1 DEF IInv, FoundRowsStay, RowsOf
  <1>4. RowsOn(c)' = RowsOn(c) \union {r} /\ (r \in RowsOn(c) <=> f.row # 0)
    BY <1>1, <1>3, SavedFacts DEF RowsOn
  <1>5. \A i \in RowsOn(c) \ {r} : interactions'[i] = interactions[i]
    BY <1>1, SavedFacts DEF RowsOn
  <1>6. was \in Nat
    <2>1. f.row # 0 => interactions[f.row] \in Interaction
      BY <1>1, <1>3, ElementOfSeq DEF IInv, TypeOK
    <2>2. QED
      BY <2>1 DEF Interaction
  <1>7. interactions'[r].views = IF Views(f) THEN was + 1 ELSE was
    BY <1>1, <1>2, SavedFacts
  <1>8. interactions'[r].liked <=> IF Likes(f) THEN ~ f.liked ELSE f.liked
    BY <1>1, <1>2, SavedFacts
  <1>9. r \in LikedRows(c) <=> f.liked
    BY <1>2, <1>4 DEF LikedRows
  <1>10. /\ likes'[c] = IF Likes(f) THEN LikesAfter(f) ELSE likes[c]
         /\ views'[c] = IF Views(f) THEN views[c] + 1 ELSE views[c]
    BY <1>1, <1>2 DEF SaveInteraction, IInv, TypeOK
  <1>11. IsFiniteSet(LikedRows(c)') /\ likes'[c] = Cardinality(LikedRows(c)')
    <2>1. IsFiniteSet(LikedRows(c)) /\ likes[c] = Cardinality(LikedRows(c))
      BY <1>1 DEF IInv, CountersMatch
    <2>2. CASE ~ Likes(f)
      <3>1. LikedRows(c)' = LikedRows(c)
        BY <1>4, <1>5, <1>8, <1>9, <2>2 DEF LikedRows
      <3>2. QED
        BY <1>10, <2>1, <2>2, <3>1
    <2>3. CASE Likes(f) /\ f.liked
      <3>1. LikedRows(c)' = LikedRows(c) \ {r}
        BY <1>4, <1>5, <1>8, <1>9, <2>3 DEF LikedRows
      <3>2. QED
        BY <1>2, <1>9, <1>10, <2>1, <2>3, <3>1, FS_RemoveElement DEF LikesAfter
    <2>4. CASE Likes(f) /\ ~ f.liked
      <3>1. LikedRows(c)' = LikedRows(c) \union {r}
        BY <1>4, <1>5, <1>8, <1>9, <2>4 DEF LikedRows
      <3>2. likes'[c] = likes[c] + 1 /\ r \notin LikedRows(c)
        BY <1>2, <1>9, <1>10, <2>4 DEF LikesAfter
      <3>3. QED
        BY <2>1, <3>1, <3>2, FS_AddElement
    <2>5. QED
      BY <2>2, <2>3, <2>4
  <1>12. IsFiniteSet(CountedViews(c)') /\ views'[c] = Cardinality(CountedViews(c)')
    <2>1. IsFiniteSet(CountedViews(c)) /\ views[c] = Cardinality(CountedViews(c))
      BY <1>1 DEF IInv, CountersMatch
    <2>2. \A i, k : <<i, k>> \in CountedViews(c) <=> i \in RowsOn(c) /\ k \in 1..interactions[i].views
      BY DEF CountedViews
    <2>3. \A i, k : <<i, k>> \in CountedViews(c)' <=> i \in RowsOn(c)' /\ k \in 1..interactions'[i].views
      BY DEF CountedViews
    <2>4. \A k : <<r, k>> \in CountedViews(c) <=> k \in 1..was
      BY <1>4, <1>6, <2>2
    <2>5. \A k : <<r, k>> \in CountedViews(c)' <=> k \in 1..interactions'[r].views
      BY <1>4, <2>3
    <2>6. \A i, k : i # r => (<<i, k>> \in CountedViews(c)' <=> <<i, k>> \in CountedViews(c))
      BY <1>4, <1>5, <2>2, <2>3
    <2>7. /\ \A p \in CountedViews(c) : p = <<p[1], p[2]>>
          /\ \A p \in CountedViews(c)' : p = <<p[1], p[2]>>
      BY DEF CountedViews
    <2>8. CASE ~ Views(f)
      <3>1. \A i, k : <<i, k>> \in CountedViews(c)' <=> <<i, k>> \in CountedViews(c)
        <4>1. interactions'[r].views = was
          BY <1>7, <2>8
        <4>2. QED
          BY <4>1, <2>4, <2>5, <2>6
      <3>2. CountedViews(c)' = CountedViews(c)
        BY <2>7, <3>1
      <3>3. QED
        BY <1>10, <2>1, <2>8, <3>2
    <2>9. CASE Views(f)
      <3>1. \A k : k \in 1..(was + 1) <=> k \in 1..was \/ k = was + 1
        BY <1>6
      <3>2. <<r, was + 1>> \notin CountedViews(c)
        BY <1>6, <2>4
      <3>3. CountedViews(c)' = CountedViews(c) \union {<<r, was + 1>>}
        BY <1>7, <2>4, <2>5, <2>6, <2>7, <2>9, <3>1
      <3>4. QED
        BY <1>10, <2>1, <2>9, <3>2, <3>3, FS_AddElement
    <2>10. QED
      BY <2>8, <2>9
  <1>13. QED
    BY <1>11, <1>12

LEMMA SaveInteractionOK ==
    ASSUME IInv, NEW f \in interacting, SaveInteraction(f)
    PROVE  IInv'
  <1> DEFINE n == Len(interactions)
  <1>1. /\ UNCHANGED <<status, moderating, contested, together>>
        /\ interactions' = Saved(f) /\ interacting' = interacting \ {f}
        /\ f.at = "interaction"
    BY DEF SaveInteraction
  <1>2. f \in Call /\ interactions \in Seq(Interaction)
    BY DEF IInv, TypeOK
  <1>3. n \in Nat /\ DOMAIN interactions = 1..n
    BY SavedFacts
  <1>4. TypeOK'
    <2>1. likes' \in [Campaigns -> Int]
      BY <1>2 DEF IInv, TypeOK, SaveInteraction, LikesAfter, Call
    <2>2. views' \in [Campaigns -> Nat]
      BY <1>2 DEF IInv, TypeOK, SaveInteraction, Call
    <2>3. interactions' \in Seq(Interaction)
      BY <1>1, SavedFacts
    <2>4. QED
      BY <1>1, <2>1, <2>2, <2>3 DEF IInv, TypeOK
  <1>5. SharedIsRecorded' /\ HeldCampaignsRun'
    BY <1>1 DEF IInv, SharedIsRecorded, HeldCampaignsRun
  \* Whose a row is never changes; a new row is the caller's.
  <1>6. \A i \in 1..n : /\ i \in DOMAIN interactions'
                        /\ interactions'[i].user = interactions[i].user
                        /\ interactions'[i].campaign = interactions[i].campaign
    <2>1. ASSUME f.row # 0, NEW i \in 1..n
          PROVE  /\ interactions'[i].user = interactions[i].user
                 /\ interactions'[i].campaign = interactions[i].campaign
      <3>1. f.row \in RowsOf(f.user, f.campaign)
        BY <2>1 DEF IInv, FoundRowsStay
      <3>2. QED
        BY <1>1, <2>1, <3>1, SavedFacts DEF RowsOf
    <2>2. QED
      BY <1>1, <1>3, <2>1, SavedFacts
  <1>7. f.row # 0 => \A v, d : RowsOf(v, d)' = RowsOf(v, d)
    <2>1. f.row # 0 => DOMAIN interactions' = 1..n
      BY <1>1, SavedFacts
    <2>2. QED
      BY <1>3, <1>6, <2>1 DEF RowsOf
  <1>8. f.row = 0 =>
            /\ \A v, d : RowsOf(v, d) \subseteq RowsOf(v, d)'
            /\ \A v, d : <<v, d>> # <<f.user, f.campaign>> => RowsOf(v, d)' = RowsOf(v, d)
            /\ RowsOf(f.user, f.campaign)' = RowsOf(f.user, f.campaign) \union {n + 1}
    <2> SUFFICES ASSUME f.row = 0 PROVE <1>8!2
      OBVIOUS
    <2>1. DOMAIN interactions' = 1..(n + 1) /\ n + 1 \in DOMAIN interactions'
          /\ interactions'[n + 1].user = f.user /\ interactions'[n + 1].campaign = f.campaign
      BY <1>1, <1>3, SavedFacts
    <2>2. \A i \in 1..(n + 1) : i \in 1..n \/ i = n + 1
      BY <1>3
    <2>3. QED
      BY <1>3, <1>6, <2>1, <2>2 DEF RowsOf
  <1>9. FoundRowsStay'
    <2> SUFFICES ASSUME NEW g \in interacting \ {f}, g.row # 0
                 PROVE  /\ g.row \in RowsOf(g.user, g.campaign)'
                        /\ g.seen > 0 => interactions'[g.row].views > 0
      BY <1>1 DEF FoundRowsStay
    <2>1. g.row \in RowsOf(g.user, g.campaign) /\ g.row \in 1..n
      BY <1>3 DEF IInv, FoundRowsStay, RowsOf
    <2>2. g.row \in RowsOf(g.user, g.campaign)'
      BY <1>7, <1>8, <2>1
    <2>3. interactions[g.row].views > 0 => interactions'[g.row].views > 0
      <3>1. CASE g.row = f.row
        <4>1. f.seen \in Nat /\ f.seen + 1 > 0
          BY <1>2 DEF Call
        <4>2. QED
          BY <1>1, <2>1, <3>1, <4>1, SavedFacts
      <3>2. CASE g.row # f.row
        BY <1>1, <2>1, <3>2, SavedFacts
      <3>3. QED
        BY <3>1, <3>2
    <2>4. QED
      BY <2>2, <2>3 DEF IInv, FoundRowsStay
  <1>10. CreditIffViewed'
    <2> SUFFICES ASSUME NEW i \in DOMAIN interactions'
                 PROVE  interactions'[i].credited <=> interactions'[i].views > 0
      BY DEF CreditIffViewed
    <2>1. CASE f.row = 0 /\ i = n + 1
      BY <1>1, <2>1, SavedFacts
    <2>2. CASE i \in 1..n /\ i # f.row
      BY <1>1, <1>3, <2>2, SavedFacts DEF IInv, CreditIffViewed
    <2>3. CASE f.row # 0 /\ i = f.row
      <3>1. f.seen \in Nat /\ (f.seen > 0 => interactions[i].views > 0)
        BY <1>2, <2>3 DEF IInv, FoundRowsStay, Call
      <3>2. i \in 1..n /\ (interactions[i].credited <=> interactions[i].views > 0)
        BY <1>3, <2>3, SavedFacts DEF IInv, CreditIffViewed
      <3>3. CASE Views(f)
        <4>1. interactions'[i].views = f.seen + 1 /\ f.seen + 1 > 0
          BY <1>1, <2>3, <3>1, <3>3, SavedFacts
        <4>2. f.seen = 0 \/ f.seen > 0
          BY <3>1
        <4>3. interactions'[i].credited
          BY <1>1, <2>3, <3>1, <3>2, <3>3, <4>2, SavedFacts
        <4>4. QED
          BY <4>1, <4>3
      <3>4. CASE ~ Views(f)
        BY <1>1, <2>3, <3>2, <3>4, SavedFacts
      <3>5. QED
        BY <3>3, <3>4
    <2>4. QED
      BY <1>1, <1>3, <2>1, <2>2, <2>3, SavedFacts
  <1>11. NoneFoundIsNone'
    <2> SUFFICES ASSUME NEW g \in interacting \ {f}, g.at = "interaction", g.row = 0,
                        <<g.campaign, {g.user}>> \notin together
                 PROVE  RowsOf(g.user, g.campaign)' = {}
      BY <1>1 DEF NoneFoundIsNone
    <2>1. <<g.user, g.campaign>> # <<f.user, f.campaign>>
      <3>1. g.user = f.user => {f.user, g.user} = {g.user}
        OBVIOUS
      <3>2. QED
        BY <3>1 DEF IInv, SharedIsRecorded
    <2>2. RowsOf(g.user, g.campaign) = {}
      BY DEF IInv, NoneFoundIsNone
    <2>3. QED
      BY <1>7, <1>8, <2>1, <2>2
  <1>12. OneRow'
    <2> SUFFICES ASSUME NEW u \in Users, NEW c \in Campaigns, <<c, {u}>> \notin together,
                        NEW i \in RowsOf(u, c)', NEW j \in RowsOf(u, c)'
                 PROVE  i = j
      BY <1>1 DEF OneRow
    <2>1. CASE RowsOf(u, c)' = RowsOf(u, c)
      BY <2>1 DEF IInv, OneRow
    <2>2. CASE f.row = 0 /\ u = f.user /\ c = f.campaign
      <3>1. RowsOf(u, c) = {}
        BY <1>1, <2>2 DEF IInv, NoneFoundIsNone
      <3>2. QED
        BY <1>8, <2>2, <3>1
    <2>3. QED
      BY <1>7, <1>8, <2>1, <2>2
  \* A campaign that the call is not about keeps its counters, rows and calls.
  <1>13. \A d \in Campaigns \ {f.campaign} :
            /\ likes'[d] = likes[d] /\ views'[d] = views[d]
            /\ RowsOn(d)' = RowsOn(d)
            /\ \A i \in RowsOn(d) : interactions'[i] = interactions[i]
    <2> SUFFICES ASSUME NEW d \in Campaigns \ {f.campaign} PROVE <1>13!(d)
      OBVIOUS
    <2>1. likes'[d] = likes[d] /\ views'[d] = views[d]
      BY DEF SaveInteraction, IInv, TypeOK
    <2>2. f.row # 0 => f.row \in 1..n /\ interactions[f.row].campaign = f.campaign
      BY <1>3 DEF IInv, FoundRowsStay, RowsOf
    <2>3. \A i \in RowsOn(d) : interactions'[i] = interactions[i]
      BY <1>1, <1>3, <2>2, SavedFacts DEF RowsOn
    <2>4. \A i \in DOMAIN interactions' : i \in 1..n \/ (f.row = 0 /\ i = n + 1)
      BY <1>1, <1>3, SavedFacts
    <2>5. f.row = 0 => interactions'[n + 1].campaign = f.campaign
      BY <1>1, SavedFacts
    <2>6. RowsOn(d)' = RowsOn(d)
      BY <1>3, <1>6, <2>4, <2>5 DEF RowsOn
    <2>7. QED
      BY <2>1, <2>3, <2>6
  <1>14. \A d : Alone(d)' <=> Alone(d)
    BY <1>1 DEF Alone
  <1>15. LoneCallsAreFresh'
    <2> SUFFICES ASSUME NEW g \in interacting \ {f}, Alone(g.campaign)
                 PROVE  /\ g.likes = likes'[g.campaign] /\ g.views = views'[g.campaign]
                        /\ g.row = 0 => ~ g.liked
                        /\ g.row # 0 => /\ g.liked <=> interactions'[g.row].liked
                                        /\ g.seen = interactions'[g.row].views
      BY <1>1, <1>14 DEF LoneCallsAreFresh
    <2>1. g.campaign \in Campaigns \ {f.campaign}
      BY LoneCalls DEF IInv, TypeOK, Call
    <2>2. g.row # 0 => g.row \in RowsOn(g.campaign)
      BY DEF IInv, FoundRowsStay, RowsOf, RowsOn
    <2>3. QED
      BY <1>13, <2>1, <2>2 DEF IInv, LoneCallsAreFresh
  <1>16. CountersMatch'
    <2> SUFFICES ASSUME NEW c \in Campaigns, Alone(c)
                 PROVE  /\ IsFiniteSet(LikedRows(c)') /\ likes'[c] = Cardinality(LikedRows(c)')
                        /\ IsFiniteSet(CountedViews(c)') /\ views'[c] = Cardinality(CountedViews(c)')
      BY <1>14 DEF CountersMatch
    <2>1. CASE c # f.campaign
      <3>1. LikedRows(c)' = LikedRows(c) /\ CountedViews(c)' = CountedViews(c)
        BY <1>13, <2>1 DEF LikedRows, CountedViews
      <3>2. QED
        BY <1>13, <2>1, <3>1 DEF IInv, CountersMatch
    <2>2. CASE c = f.campaign
      BY <1>1, <1>2, <1>3, <1>6, <2>2, LoneSaveCounts
    <2>3. QED
      BY <2>1, <2>2
  <1>17. QED
    BY <1>4, <1>5, <1>9, <1>10, <1>11, <1>12, <1>15, <1>16 DEF IInv

-----------------------------------------------------------------------------
\* Every step keeps the invariant.
LEMMA NextOK == IInv /\ [Next]_vars => IInv'
  <1> SUFFICES ASSUME IInv, [Next]_vars PROVE IInv'
    OBVIOUS
  <1>1. ASSUME NEW c \in Campaigns, Create(c)
        PROVE  IInv'
    BY <1>1, CreateOK
  <1>2. ASSUME NEW q \in Requests, NEW c \in Campaigns,
               PauseCampaign(q, c) \/ UnPauseCampaign(q, c) \/ StopCampaign(q, c)
        PROVE  IInv'
    <2>1. CASE Find(q, c, {"ACTIVE"}, "PAUSED")
      BY <2>1, FindOK
    <2>2. CASE Find(q, c, {"PAUSED"}, "ACTIVE")
      BY <2>2, FindOK
    <2>3. CASE Find(q, c, {"PAUSED", "ACTIVE"}, "STOPPED")
      BY <2>3, FindOK
    <2>4. QED
      BY <1>2, <2>1, <2>2, <2>3 DEF PauseCampaign, UnPauseCampaign, StopCampaign
  <1>3. ASSUME NEW f \in moderating, SetStatus(f)
        PROVE  IInv'
    BY <1>3, SetStatusOK
  <1>4. ASSUME NEW q \in Requests, NEW u \in Users, NEW c \in Campaigns,
               NEW payload \in Payloads, FindCampaign(q, u, c, payload)
        PROVE  IInv'
    BY <1>4, FindCampaignOK
  <1>5. ASSUME NEW f \in interacting, FindInteraction(f)
        PROVE  IInv'
    BY <1>5, FindInteractionOK
  <1>6. ASSUME NEW f \in interacting, SaveInteraction(f)
        PROVE  IInv'
    BY <1>6, SaveInteractionOK
  <1>7. CASE CallLost
    BY <1>7, CallLostOK DEF CallLost, table
  <1>8. CASE UNCHANGED vars
    BY <1>8, CallLostOK DEF vars
  <1>9. QED
    BY <1>1, <1>2, <1>3, <1>4, <1>5, <1>6, <1>7, <1>8 DEF Next, ChangeStatus, Interact

LEMMA Invariance == Spec => []IInv
  BY InitOK, NextOK, PTL DEF Spec

\* Every variable keeps its type; in particular no campaign ever shows a negative number
\* of views.  (Its likes are only an integer: an unlike of a like that another request
\* overwrote takes them below zero.)
THEOREM TypeCorrect == Spec => []TypeOK
  <1>1. IInv => TypeOK
    BY DEF IInv
  <1>2. QED
    BY <1>1, Invariance, PTL

\* A user is credited exactly when the interaction counts a view, however many requests
\* overwrite one another.
THEOREM CreditFollowsView == Spec => []CreditIffViewed
  <1>1. IInv => CreditIffViewed
    BY DEF IInv
  <1>2. QED
    BY <1>1, Invariance, PTL

\* Without two requests of the user's own at once, one interaction, and so one credit.
THEOREM AtMostOneInteraction == Spec => []OneInteractionPerUser
  <1>1. IInv => OneInteractionPerUser
    <2> SUFFICES ASSUME IInv, NEW u \in Users, NEW c \in Campaigns, <<c, {u}>> \notin together
                 PROVE  Cardinality(RowsOf(u, c)) <= 1
      BY DEF OneInteractionPerUser
    <2>1. CASE RowsOf(u, c) = {}
      BY <2>1, FS_EmptySet
    <2>2. CASE RowsOf(u, c) # {}
      <3>1. PICK i : RowsOf(u, c) = {i}
        BY <2>2 DEF IInv, OneRow
      <3>2. QED
        BY <3>1, FS_Singleton
    <2>3. QED
      BY <2>1, <2>2
  <1>2. QED
    BY <1>1, Invariance, PTL

\* A campaign's counters are what its interactions add up to, as long as no two requests
\* on it ran at once, whatever fails in between.
THEOREM CountersAreKept == Spec => []CountersAddUp
  <1>1. IInv => CountersAddUp
    BY DEF IInv, CountersMatch, CountersAddUp
  <1>2. QED
    BY <1>1, Invariance, PTL

\* Stopping is for good unless two lifecycle calls held the campaign at once.
THEOREM StoppedStaysStopped == Spec => RevivedOnlyByOverlap
  <1> DEFINE Stays == \A c \in Campaigns :
                          status[c] = "STOPPED" /\ status'[c] # "STOPPED" => c \in contested
  <1>1. IInv /\ [Next]_vars => [Stays]_vars
    <2> SUFFICES ASSUME IInv, Next PROVE Stays
      OBVIOUS
    <2>1. ASSUME NEW c \in Campaigns, Create(c) PROVE Stays
      BY <2>1 DEF Create, IInv, TypeOK
    <2>2. ASSUME NEW f \in moderating, SetStatus(f) PROVE Stays
      BY <2>2 DEF SetStatus, IInv, TypeOK, HeldCampaignsRun
    <2>3. CASE UNCHANGED status
      BY <2>3
    <2>4. QED
      BY <2>1, <2>2, <2>3 DEF Next, ChangeStatus, Interact, CallLost, PauseCampaign,
             UnPauseCampaign, StopCampaign, Find, FindCampaign, FindInteraction,
             SaveInteraction, table
  <1>2. QED
    BY <1>1, Invariance, PTL DEF Spec, RevivedOnlyByOverlap
=============================================================================
