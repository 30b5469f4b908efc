----------------------------- MODULE PhoneProofs -----------------------------
(***************************************************************************)
(* Proofs about PhoneVerification, for any sets of users, numbers and      *)
(* requests at the same time.                                              *)
(*                                                                         *)
(* Two writing requests of a user that ran at once know of each other      *)
(* (BesideEachOther).  So a verification that met no save still holds the  *)
(* user's number (VerifiesAreCurrent), and a save that met no verification *)
(* will clear the mark if it is set (SavesAreCurrent); and as long as the  *)
(* entry of an accepted code is in the cache, the verification that has to *)
(* delete it is in progress, or was lost (SpentEntries).                   *)
(***************************************************************************)
EXTENDS PhoneVerification, TLAPS

\* A request is where its kind may be.
KindsAgree ==
    \A f \in calls :
        /\ f.kind = "save" <=> f.at = "save"
        /\ f.kind = "verify" <=> f.at \in {"lookup", "confirm", "forget", "mark"}

BesideEachOther ==
    \A f, g \in calls :
        f # g /\ f.user = g.user /\ f.kind # "send" /\ g.kind # "send" => g.kind \in f.beside

\* A verification that has met no save is about the number of the row.
VerifiesAreCurrent ==
    \A f \in calls : f.kind = "verify" /\ "save" \notin f.beside =>
        /\ f.phone = phone[f.user]
        /\ f.at \in {"forget", "mark"} => f.phone \in confirmed[f.user]

\* A save that has met no verification has seen the mark, if there is one.
SavesAreCurrent ==
    \A f \in calls : f.kind = "save" /\ "verify" \notin f.beside =>
        (verified[f.user] => f.wasVerified)

\* The entry of a code that was accepted is about to be deleted, or its deletion was lost.
SpentEntries ==
    \A u \in spent \intersect cached :
        u \in kept \/ \E f \in calls : f.user = u /\ f.at = "forget"

CallsAreSound ==
    /\ calls \subseteq Call
    /\ KindsAgree
    /\ BesideEachOther
    /\ VerifiesAreCurrent
    /\ SavesAreCurrent
    /\ SpentCodesAreRefused

IInv == TypeOK /\ CallsAreSound /\ SpentEntries /\ VerifiedNumberWasConfirmed
-----------------------------------------------------------------------------
Kinds == {"save", "send", "verify"}
Ats == {"save", "generate", "cache", "lookup", "confirm", "forget", "mark"}

\* What a request is about, without where it is and what ran beside it.
Same(f, g) ==
    /\ f.request = g.request /\ f.user = g.user /\ f.kind = g.kind /\ f.read = g.read
    /\ f.wasVerified = g.wasVerified /\ f.phone = g.phone

LEMMA CallFacts ==
    ASSUME NEW f \in Call
    PROVE  /\ f.request \in Requests /\ f.user \in Users /\ f.kind \in Kinds /\ f.at \in Ats
           /\ f.read \in Phones \union {NoPhone} /\ f.wasVerified \in BOOLEAN
           /\ f.phone \in Phones \union {NoPhone} /\ f.beside \subseteq {"save", "verify"}
  BY DEF Call, Kinds, Ats

Noted(g, k) == [g EXCEPT !.beside = @ \union {k}]

LEMMA NotedFacts ==
    ASSUME NEW g \in Call, NEW k \in Kinds, k # "send"
    PROVE  /\ Noted(g, k) \in Call /\ Same(Noted(g, k), g) /\ Noted(g, k).at = g.at
           /\ Noted(g, k).beside = g.beside \union {k}
  BY DEF Noted, Call, Same, Kinds

LEMMA MoveFacts ==
    ASSUME NEW f \in Call, NEW at \in Ats, GoesOn(f, at)
    PROVE  \E new \in Call :
               /\ calls' = (calls \ {f}) \union {new}
               /\ Same(new, f) /\ new.at = at /\ new.beside = f.beside
  <1> DEFINE new == [f EXCEPT !.at = at]
  <1>1. calls' = (calls \ {f}) \union {new}
    BY DEF GoesOn
  <1>2. new \in Call /\ Same(new, f) /\ new.at = at /\ new.beside = f.beside
    BY DEF Call, Ats, Same
  <1> HIDE DEF new
  <1>3. QED
    BY <1>1, <1>2

Met(f) == IF f.kind = "send" THEN {} ELSE Writers(f.user)

LEMMA StartFacts ==
    ASSUME calls \subseteq Call, NEW f \in Call, Start(f)
    PROVE  \E new \in Call :
               /\ calls' = (calls \ Met(f)) \union {Noted(g, f.kind) : g \in Met(f)} \union {new}
               /\ Same(new, f) /\ new.at = f.at
               /\ new.beside = {g.kind : g \in Met(f)}
  <1> DEFINE kinds == {g.kind : g \in Met(f)}
             new == [f EXCEPT !.beside = kinds]
  <1>1. calls' = (calls \ Met(f)) \union {Noted(g, f.kind) : g \in Met(f)} \union {new}
    BY DEF Start, Met, Noted
  <1>2. kinds \subseteq {"save", "verify"}
    BY CallFacts DEF Met, Writers, Kinds
  <1> HIDE DEF kinds
  <1>3. new \in Call /\ Same(new, f) /\ new.at = f.at /\ new.beside = kinds
    BY <1>2 DEF Call, Same
  <1> HIDE DEF new
  <1>4. QED
    BY <1>1, <1>3 DEF kinds

LEMMA SendingFacts ==
    ASSUME NEW q \in Requests, NEW u \in Users, NEW p \in Phones \union {NoPhone}
    PROVE  /\ Sending(q, u, p) \in Call
           /\ Sending(q, u, p).user = u /\ Sending(q, u, p).kind = "send"
           /\ Sending(q, u, p).at = "generate" /\ Sending(q, u, p).phone = p
  BY DEF Sending, Call
-----------------------------------------------------------------------------
\* A request that starts as it should.
LEMMA StartOK ==
    ASSUME IInv, NEW f \in Call, Start(f),
           f.kind = "save" <=> f.at = "save",
           f.kind = "verify" <=> f.at = "lookup",
           f.at \notin {"confirm", "forget", "mark"},
           f.kind = "verify" => f.phone = phone[f.user],
           f.kind = "save" => (verified[f.user] => f.wasVerified)
    PROVE  IInv'
  <1>1. UNCHANGED <<phone, verified, cached, codes, confirmed, raced, spent, kept>>
    BY DEF Start, row, history
  <1>2. calls \subseteq Call /\ f.kind \in Kinds
    BY CallFacts DEF IInv, TypeOK
  <1>3. PICK new \in Call :
            /\ calls' = (calls \ Met(f)) \union {Noted(g, f.kind) : g \in Met(f)} \union {new}
            /\ Same(new, f) /\ new.at = f.at
            /\ new.beside = {g.kind : g \in Met(f)}
    BY <1>2, StartFacts
  <1>4. \A g \in Met(f) : g \in calls /\ g.user = f.user /\ g.kind # "send" /\ f.kind # "send"
    BY DEF Met, Writers
  <1>5. ASSUME NEW h \in calls'
        PROVE  \/ h = new
               \/ \E g \in calls : g \notin Met(f) /\ h = g
               \/ \E g \in Met(f) : /\ g \in calls /\ h = Noted(g, f.kind) /\ h \in Call /\ Same(h, g)
                                    /\ h.at = g.at /\ h.beside = g.beside \union {f.kind}
    BY <1>2, <1>3, <1>4, NotedFacts
  <1>6. ASSUME NEW h \in calls', h # new
        PROVE  \E g \in calls :
                   /\ g \in Met(f) => h = Noted(g, f.kind)
                   /\ g \notin Met(f) => h = g
                   /\ h \in Call /\ Same(h, g) /\ h.at = g.at /\ g.beside \subseteq h.beside
                   /\ g \in Met(f) => f.kind \in h.beside
    BY <1>2, <1>5, <1>6 DEF Same
  <1>7. TypeOK'
    <2>1. \A h \in calls' : h \in Call
      BY <1>6
    <2>2. QED
      BY <1>1, <2>1 DEF IInv, TypeOK
  <1>8. KindsAgree'
    <2>1. ASSUME NEW h \in calls'
          PROVE  /\ h.kind = "save" <=> h.at = "save"
                 /\ h.kind = "verify" <=> h.at \in {"lookup", "confirm", "forget", "mark"}
      <3>1. CASE h = new
        BY <1>3, <3>1 DEF Same
      <3>2. CASE h # new
        BY <1>6, <3>2 DEF IInv, CallsAreSound, KindsAgree, Same
      <3>3. QED
        BY <3>1, <3>2
    <2>2. QED
      BY <2>1 DEF KindsAgree
  <1>9. BesideEachOther'
    <2>1. ASSUME NEW h \in calls', NEW k \in calls', h # k, h.user = k.user,
                 h.kind # "send", k.kind # "send"
          PROVE  k.kind \in h.beside
      <3>1. CASE h = new
        <4>1. PICK g \in calls : Same(k, g)
          BY <1>6, <2>1, <3>1
        <4>2. g \in Met(f)
          BY <1>3, <2>1, <3>1, <4>1 DEF Met, Writers, Same
        <4>3. QED
          BY <1>3, <3>1, <4>1, <4>2 DEF Same
      <3>2. CASE k = new
        <4>1. PICK g \in calls : Same(h, g) /\ (g \in Met(f) => f.kind \in h.beside)
          BY <1>6, <2>1, <3>2
        <4>2. g \in Met(f)
          BY <1>3, <2>1, <3>2, <4>1 DEF Met, Writers, Same
        <4>3. QED
          BY <1>3, <3>2, <4>1, <4>2 DEF Same
      <3>3. CASE h # new /\ k # new
        <4>1. PICK g \in calls : /\ g \in Met(f) => h = Noted(g, f.kind)
                                 /\ g \notin Met(f) => h = g
                                 /\ Same(h, g) /\ g.beside \subseteq h.beside
          BY <1>6, <3>3
        <4>2. PICK j \in calls : /\ j \in Met(f) => k = Noted(j, f.kind)
                                 /\ j \notin Met(f) => k = j
                                 /\ Same(k, j)
          BY <1>6, <3>3
        <4>3. g # j
          BY <2>1, <4>1, <4>2
        <4>4. j.kind \in g.beside
          BY <2>1, <4>1, <4>2, <4>3 DEF IInv, CallsAreSound, BesideEachOther, Same
        <4>5. QED
          BY <4>1, <4>2, <4>4 DEF Same
      <3>4. QED
        BY <3>1, <3>2, <3>3
    <2>2. QED
      BY <2>1 DEF BesideEachOther
  <1>10. VerifiesAreCurrent'
    <2>1. ASSUME NEW h \in calls', h.kind = "verify", "save" \notin h.beside
          PROVE  /\ h.phone = phone[h.user]
                 /\ h.at \in {"forget", "mark"} => h.phone \in confirmed[h.user]
      <3>1. CASE h = new
        BY <1>3, <2>1, <3>1 DEF Same
      <3>2. CASE h # new
        BY <1>6, <2>1, <3>2 DEF IInv, CallsAreSound, VerifiesAreCurrent, Same
      <3>3. QED
        BY <3>1, <3>2
    <2>2. QED
      BY <1>1, <2>1 DEF VerifiesAreCurrent
  <1>11. SavesAreCurrent'
    <2>1. ASSUME NEW h \in calls', h.kind = "save", "verify" \notin h.beside, verified[h.user]
          PROVE  h.wasVerified
      <3>1. CASE h = new
        BY <1>3, <2>1, <3>1 DEF Same
      <3>2. CASE h # new
        BY <1>6, <2>1, <3>2 DEF IInv, CallsAreSound, SavesAreCurrent, Same
      <3>3. QED
        BY <3>1, <3>2
    <2>2. QED
      BY <1>1, <2>1 DEF SavesAreCurrent
  <1>12. SpentCodesAreRefused'
    <2>1. ASSUME NEW h \in calls', h.at = "confirm", h.user \in spent
          PROVE  "verify" \in h.beside \/ h.user \in kept
      BY <1>3, <1>6, <2>1 DEF IInv, CallsAreSound, SpentCodesAreRefused, Same
    <2>2. QED
      BY <1>1, <2>1 DEF SpentCodesAreRefused
  <1>13. SpentEntries'
    <2>1. ASSUME NEW g \in calls
          PROVE  \E h \in calls' : h.user = g.user /\ h.at = g.at
      BY <1>2, <1>3, <1>4, NotedFacts DEF Same
    <2>2. QED
      BY <1>1, <2>1 DEF IInv, SpentEntries
  <1>14. VerifiedNumberWasConfirmed'
    BY <1>1 DEF IInv, VerifiedNumberWasConfirmed
  <1>15. QED
    BY <1>7, <1>8, <1>9, <1>10, <1>11, <1>12, <1>13, <1>14 DEF IInv, CallsAreSound, TypeOK

\* A request that goes on.
LEMMA MovedCalls ==
    ASSUME TypeOK, CallsAreSound, NEW f \in calls, NEW at \in Ats, GoesOn(f, at),
           at # "save", f.at # "save",
           at \in {"lookup", "confirm", "forget", "mark"} <=> f.at \in {"lookup", "confirm", "forget", "mark"},
           UNCHANGED <<phone, verified>>,
           \A u \in Users : confirmed[u] \subseteq confirmed'[u],
           at \in {"forget", "mark"} =>
               f.at \in {"forget", "mark"} \/ f.phone \in confirmed'[f.user],
           \A g \in calls \ {f} : g.at = "confirm" /\ g.user \in spent' =>
               \/ "verify" \in g.beside
               \/ g.user \in spent /\ (g.user \in kept => g.user \in kept'),
           at = "confirm" /\ f.user \in spent' => "verify" \in f.beside \/ f.user \in kept'
    PROVE  CallsAreSound'
  <1>1. calls \subseteq Call /\ f \in Call
    BY DEF TypeOK
  <1>2. PICK new \in Call :
            /\ calls' = (calls \ {f}) \union {new}
            /\ Same(new, f) /\ new.at = at /\ new.beside = f.beside
    BY <1>1, MoveFacts
  <1>3. KindsAgree'
    BY <1>2 DEF CallsAreSound, KindsAgree, Same
  <1>4. BesideEachOther'
    BY <1>2 DEF CallsAreSound, BesideEachOther, Same
  <1>5. VerifiesAreCurrent'
    <2>1. ASSUME NEW h \in calls', h.kind = "verify", "save" \notin h.beside
          PROVE  /\ h.phone = phone[h.user]
                 /\ h.at \in {"forget", "mark"} => h.phone \in confirmed'[h.user]
      <3>1. h.user \in Users
        BY <1>1, <1>2, CallFacts
      <3>2. CASE h = new
        BY <1>2, <2>1, <3>1, <3>2 DEF CallsAreSound, VerifiesAreCurrent, Same
      <3>3. CASE h \in calls
        BY <2>1, <3>1, <3>3 DEF CallsAreSound, VerifiesAreCurrent
      <3>4. QED
        BY <1>2, <3>2, <3>3
    <2>2. QED
      BY <2>1 DEF VerifiesAreCurrent
  <1>6. SavesAreCurrent'
    BY <1>2, <1>3 DEF CallsAreSound, SavesAreCurrent, KindsAgree, Same
  <1>7. SpentCodesAreRefused'
    BY <1>2 DEF CallsAreSound, SpentCodesAreRefused, Same
  <1>8. QED
    BY <1>1, <1>2, <1>3, <1>4, <1>5, <1>6, <1>7 DEF CallsAreSound

\* A request that ends; the mark is only set beside saves that know of it.
LEMMA FewerCalls ==
    ASSUME CallsAreSound, calls' \subseteq calls, UNCHANGED <<phone, confirmed>>, spent' \subseteq spent,
           kept \intersect spent' \subseteq kept',
           \A g \in calls' : g.kind = "save" /\ "verify" \notin g.beside =>
               (verified'[g.user] => verified[g.user])
    PROVE  CallsAreSound'
  BY DEF CallsAreSound, KindsAgree, BesideEachOther, VerifiesAreCurrent, SavesAreCurrent,
     SpentCodesAreRefused

\* Unless a code is accepted, an entry of an accepted one is as safe as it was.
LEMMA EntriesOK ==
    ASSUME SpentEntries, spent' \intersect cached' \subseteq spent \intersect cached,
           kept \intersect spent' \intersect cached' \subseteq kept',
           \A g \in calls : g.at = "forget" /\ g.user \in cached' => g \in calls' \/ g.user \in kept'
    PROVE  SpentEntries'
  BY DEF SpentEntries
-----------------------------------------------------------------------------
LEMMA InitOK == Init => IInv
  <1> SUFFICES ASSUME Init PROVE IInv
    OBVIOUS
  <1>1. TypeOK
    BY DEF Init, TypeOK
  <1>2. CallsAreSound /\ SpentEntries
    BY DEF Init, CallsAreSound, KindsAgree, BesideEachOther, VerifiesAreCurrent, SavesAreCurrent,
       SpentCodesAreRefused, SpentEntries
  <1>3. VerifiedNumberWasConfirmed
    BY DEF Init, VerifiedNumberWasConfirmed
  <1>4. QED
    BY <1>1, <1>2, <1>3 DEF IInv

LEMMA FindUserOK ==
    ASSUME IInv, NEW q \in Requests, NEW u \in Users, NEW p \in Phones, FindUser(q, u, p)
    PROVE  IInv'
  <1> DEFINE s == Sending(q, u, p)
             f == [s EXCEPT !.kind = "save", !.at = "save", !.read = phone[u], !.wasVerified = verified[u]]
  <1>1. Start(f)
    BY DEF FindUser
  <1>2. phone[u] \in Phones \union {NoPhone} /\ verified[u] \in BOOLEAN
    BY DEF IInv, TypeOK
  <1>3. f \in Call
    BY <1>2 DEF Sending, Call
  <1>4. f.user = u /\ f.kind = "save" /\ f.at = "save"
    BY DEF Sending
  <1>5. f.wasVerified = verified[u]
    BY DEF Sending
  <1> HIDE DEF f
  <1>6. QED
    BY <1>1, <1>3, <1>4, <1>5, StartOK

LEMMA ReadPhoneOK ==
    ASSUME IInv, NEW q \in Requests, NEW u \in Users, ReadPhone(q, u)
    PROVE  IInv'
  <1>1. phone[u] \in Phones \union {NoPhone} /\ Start(Sending(q, u, phone[u]))
    BY DEF ReadPhone, IInv, TypeOK
  <1>2. QED
    BY <1>1, SendingFacts, StartOK

LEMMA StartVerifyOK ==
    ASSUME IInv, NEW q \in Requests, NEW u \in Users, StartVerify(q, u)
    PROVE  IInv'
  <1> DEFINE f == [Sending(q, u, phone[u]) EXCEPT !.kind = "verify", !.at = "lookup"]
  <1>1. Start(f)
    BY DEF StartVerify
  <1>2. phone[u] \in Phones \union {NoPhone}
    BY DEF IInv, TypeOK
  <1>3. f \in Call
    BY <1>2 DEF Sending, Call
  <1>4. f.user = u /\ f.kind = "verify" /\ f.at = "lookup" /\ f.phone = phone[u]
    BY DEF Sending
  <1> HIDE DEF f
  <1>5. QED
    BY <1>1, <1>3, <1>4, StartOK

\* The number changes and the mark is cleared, as far as what was read tells: a save that
\* met a verification is in raced.
LEMMA SavePhoneOK ==
    ASSUME IInv, NEW f \in calls, SavePhone(f)
    PROVE  IInv'
  <1>1. calls \subseteq Call /\ f \in Call
    BY DEF IInv, TypeOK
  <1>2. f.request \in Requests /\ f.user \in Users /\ f.phone \in Phones \union {NoPhone}
    BY <1>1, CallFacts
  <1>3. f.at = "save" /\ f.kind = "save"
    BY DEF SavePhone, IInv, CallsAreSound, KindsAgree
  <1> DEFINE new == Sending(f.request, f.user, f.phone)
  <1>4. calls' = (calls \ {f}) \union {new} /\ UNCHANGED <<cached, codes, spent, kept>>
    BY DEF SavePhone
  <1>5. new \in Call /\ new.user = f.user /\ new.kind = "send" /\ new.at = "generate"
    BY <1>2, SendingFacts
  <1> HIDE DEF new
  <1>6. /\ phone' \in [Users -> Phones \union {NoPhone}]
        /\ \A u \in Users \ {f.user} : phone'[u] = phone[u]
    BY <1>2 DEF SavePhone, IInv, TypeOK
  <1>7. /\ confirmed' \in [Users -> SUBSET Phones]
        /\ \A u \in Users \ {f.user} : confirmed'[u] = confirmed[u]
    BY <1>2 DEF SavePhone, IInv, TypeOK
  <1>8. /\ verified' \in [Users -> BOOLEAN]
        /\ \A u \in Users \ {f.user} : verified'[u] = verified[u]
        /\ verified'[f.user] <=> verified[f.user] /\ ~f.wasVerified
    BY <1>2 DEF SavePhone, IInv, TypeOK
  <1>9. /\ "verify" \in f.beside => raced' = raced \union {f.user}
        /\ "verify" \notin f.beside => raced' = raced \ {f.user}
    BY DEF SavePhone
  <1>10. TypeOK'
    BY <1>1, <1>2, <1>4, <1>5, <1>6, <1>7, <1>8, <1>9 DEF IInv, TypeOK
  <1>11. KindsAgree'
    BY <1>4, <1>5 DEF IInv, CallsAreSound, KindsAgree
  <1>12. BesideEachOther'
    BY <1>4, <1>5 DEF IInv, CallsAreSound, BesideEachOther
  <1>13. VerifiesAreCurrent'
    <2>1. ASSUME NEW h \in calls', h.kind = "verify", "save" \notin h.beside
          PROVE  /\ h.phone = phone'[h.user]
                 /\ h.at \in {"forget", "mark"} => h.phone \in confirmed'[h.user]
      <3>1. h \in calls /\ h # f /\ h.user \in Users
        BY <1>1, <1>3, <1>4, <1>5, <2>1, CallFacts
      <3>2. h.user # f.user
        BY <1>3, <2>1, <3>1 DEF IInv, CallsAreSound, BesideEachOther
      <3>3. phone'[h.user] = phone[h.user] /\ confirmed'[h.user] = confirmed[h.user]
        BY <1>6, <1>7, <3>1, <3>2
      <3>4. QED
        BY <2>1, <3>1, <3>3 DEF IInv, CallsAreSound, VerifiesAreCurrent
    <2>2. QED
      BY <2>1 DEF VerifiesAreCurrent
  <1>14. SavesAreCurrent'
    <2>1. ASSUME NEW h \in calls', h.kind = "save", "verify" \notin h.beside, verified'[h.user]
          PROVE  h.wasVerified
      <3>1. h \in calls /\ h.user \in Users
        BY <1>1, <1>4, <1>5, <2>1, CallFacts
      <3>2. verified[h.user]
        BY <1>8, <2>1, <3>1
      <3>3. QED
        BY <2>1, <3>1, <3>2 DEF IInv, CallsAreSound, SavesAreCurrent
    <2>2. QED
      BY <2>1 DEF SavesAreCurrent
  <1>15. SpentCodesAreRefused' /\ SpentEntries'
    <2>1. SpentCodesAreRefused'
      BY <1>4, <1>5 DEF IInv, CallsAreSound, SpentCodesAreRefused
    <2>2. SpentEntries'
      BY <1>3, <1>4, EntriesOK DEF IInv
    <2>3. QED
      BY <2>1, <2>2
  <1>16. VerifiedNumberWasConfirmed'
    <2>1. ASSUME NEW u \in Users, verified'[u], u \notin raced'
          PROVE  phone'[u] \in confirmed'[u]
      <3>1. CASE u = f.user
        <4>1. "verify" \notin f.beside
          BY <1>9, <2>1, <3>1
        <4>2. verified[u] => f.wasVerified
          BY <1>3, <3>1, <4>1 DEF IInv, CallsAreSound, SavesAreCurrent
        <4>3. QED
          BY <1>8, <2>1, <3>1, <4>2
      <3>2. CASE u # f.user
        <4>1. verified[u] /\ u \notin raced
          BY <1>8, <1>9, <2>1, <3>2
        <4>2. QED
          BY <1>6, <1>7, <3>2, <4>1 DEF IInv, VerifiedNumberWasConfirmed
      <3>3. QED
        BY <3>1, <3>2
    <2>2. QED
      BY <2>1 DEF VerifiedNumberWasConfirmed
  <1>17. QED
    BY <1>10, <1>11, <1>12, <1>13, <1>14, <1>15, <1>16 DEF IInv, CallsAreSound, TypeOK

\* What does not depend on the requests.
LEMMA MovedTypes ==
    ASSUME TypeOK, NEW f \in calls, NEW at \in Ats, GoesOn(f, at)
    PROVE  calls' \subseteq Call
  <1>1. f \in Call /\ calls \subseteq Call
    BY DEF TypeOK
  <1>2. QED
    BY <1>1, MoveFacts

LEMMA GenerateCodeOK ==
    ASSUME IInv, NEW f \in calls, GenerateCode(f)
    PROVE  IInv'
  <1>1. /\ f.at = "generate" /\ f.phone # NoPhone /\ codes' = codes \union {f.phone}
        /\ GoesOn(f, "cache") /\ UNCHANGED <<phone, verified, cached, confirmed, raced, spent, kept>>
    BY DEF GenerateCode, row, history
  <1>2. "cache" \in Ats /\ f.phone \in Phones \union {NoPhone}
    BY CallFacts DEF IInv, TypeOK, Ats
  <1>3. TypeOK'
    BY <1>1, <1>2, MovedTypes DEF IInv, TypeOK
  <1>4. CallsAreSound'
    BY <1>1, <1>2, MovedCalls DEF IInv
  <1>5. SpentEntries'
    BY <1>1, EntriesOK DEF IInv, GoesOn
  <1>6. QED
    BY <1>1, <1>3, <1>4, <1>5 DEF IInv, VerifiedNumberWasConfirmed

\* If the code was accepted before, who accepted it is beside this request, or was lost.
LEMMA LookUpCodeOK ==
    ASSUME IInv, NEW f \in calls, LookUpCode(f)
    PROVE  IInv'
  <1>1. /\ f.at = "lookup" /\ f.user \in cached
        /\ GoesOn(f, "confirm") /\ UNCHANGED <<phone, verified, cached, codes, confirmed, raced, spent, kept>>
    BY DEF LookUpCode, row, history
  <1>2. "confirm" \in Ats
    BY DEF Ats
  <1>3. TypeOK'
    BY <1>1, <1>2, MovedTypes DEF IInv, TypeOK
  <1>4. f.user \in spent => "verify" \in f.beside \/ f.user \in kept
    BY <1>1 DEF IInv, SpentEntries, CallsAreSound, KindsAgree, BesideEachOther
  <1>5. CallsAreSound'
    BY <1>1, <1>2, <1>4, MovedCalls DEF IInv
  <1>6. SpentEntries'
    BY <1>1, EntriesOK DEF IInv, GoesOn
  <1>7. QED
    BY <1>1, <1>3, <1>5, <1>6 DEF IInv, VerifiedNumberWasConfirmed

\* The code is spent; whoever else is about to ask with it ran beside this request, which
\* goes on to delete the entry.
LEMMA ConfirmCodeOK ==
    ASSUME IInv, NEW f \in calls, ConfirmCode(f)
    PROVE  IInv'
  <1>1. /\ f.at = "confirm" /\ f.phone \in codes /\ spent' = spent \union {f.user}
        /\ confirmed' = [confirmed EXCEPT ![f.user] = @ \union {f.phone}]
        /\ GoesOn(f, "forget") /\ UNCHANGED <<phone, verified, cached, codes, raced, kept>>
    BY DEF ConfirmCode, row
  <1>2. "forget" \in Ats /\ f \in Call /\ f.user \in Users /\ f.phone \in Phones
    BY <1>1, CallFacts DEF IInv, TypeOK, Ats
  <1>3. /\ confirmed' \in [Users -> SUBSET Phones]
        /\ confirmed'[f.user] = confirmed[f.user] \union {f.phone}
        /\ \A u \in Users : confirmed[u] \subseteq confirmed'[u]
    BY <1>1, <1>2 DEF IInv, TypeOK
  <1>4. TypeOK'
    BY <1>1, <1>2, <1>3, MovedTypes DEF IInv, TypeOK
  <1>5. \A g \in calls \ {f} : g.at = "confirm" /\ g.user = f.user => "verify" \in g.beside
    BY <1>1 DEF IInv, CallsAreSound, KindsAgree, BesideEachOther
  <1>6. CallsAreSound'
    BY <1>1, <1>2, <1>3, <1>5, MovedCalls DEF IInv
  <1>7. SpentEntries'
    <2>1. \E new \in calls' : new.user = f.user /\ new.at = "forget"
      BY <1>1, <1>2, MoveFacts DEF Same
    <2>2. \A g \in calls : g.at = "forget" => g \in calls'
      BY <1>1 DEF GoesOn
    <2>3. QED
      BY <1>1, <2>1, <2>2 DEF IInv, SpentEntries
  <1>8. VerifiedNumberWasConfirmed'
    BY <1>1, <1>3 DEF IInv, VerifiedNumberWasConfirmed
  <1>9. QED
    BY <1>4, <1>6, <1>7, <1>8 DEF IInv

\* The entry is gone; whoever has found it before ran beside this request.
LEMMA ForgetCodeOK ==
    ASSUME IInv, NEW f \in calls, ForgetCode(f)
    PROVE  IInv'
  <1>1. /\ f.at = "forget" /\ cached' = cached \ {f.user} /\ kept' = kept \ {f.user}
        /\ GoesOn(f, "mark") /\ UNCHANGED <<phone, verified, codes, confirmed, raced, spent>>
    BY DEF ForgetCode, row
  <1>2. "mark" \in Ats /\ f.user \in Users
    BY CallFacts DEF IInv, TypeOK, Ats
  <1>3. TypeOK'
    BY <1>1, <1>2, MovedTypes DEF IInv, TypeOK
  <1>4. \A g \in calls \ {f} : g.at = "confirm" /\ g.user = f.user => "verify" \in g.beside
    BY <1>1 DEF IInv, CallsAreSound, KindsAgree, BesideEachOther
  <1>5. CallsAreSound'
    BY <1>1, <1>2, <1>4, MovedCalls DEF IInv
  <1>6. SpentEntries'
    BY <1>1, EntriesOK DEF IInv, GoesOn
  <1>7. QED
    BY <1>1, <1>3, <1>5, <1>6 DEF IInv, VerifiedNumberWasConfirmed

\* The request with the code is answered, and the code in the cache is a new one.
LEMMA CacheCodeOK ==
    ASSUME IInv, NEW f \in calls, CacheCode(f)
    PROVE  IInv'
  <1>1. /\ cached' = cached \union {f.user} /\ spent' = spent \ {f.user} /\ kept' = kept \ {f.user}
        /\ f.at = "cache" /\ calls' = calls \ {f}
        /\ UNCHANGED <<phone, verified, codes, confirmed, raced>>
    BY DEF CacheCode, row, Ends
  <1>2. f.user \in Users
    BY CallFacts DEF IInv, TypeOK
  <1>3. TypeOK'
    BY <1>1, <1>2 DEF IInv, TypeOK
  <1>4. CallsAreSound'
    BY <1>1, FewerCalls DEF IInv
  <1>5. SpentEntries'
    BY <1>1, EntriesOK DEF IInv
  <1>6. QED
    BY <1>1, <1>3, <1>4, <1>5 DEF IInv, VerifiedNumberWasConfirmed

\* The mark is set for the number that was confirmed, or a save ran beside it.
LEMMA MarkVerifiedOK ==
    ASSUME IInv, NEW f \in calls, MarkVerified(f)
    PROVE  IInv'
  <1>1. /\ f.at = "mark" /\ verified' = [verified EXCEPT ![f.user] = TRUE] /\ calls' = calls \ {f}
        /\ UNCHANGED <<phone, cached, codes, confirmed, spent, kept>>
    BY DEF MarkVerified, Ends
  <1>2. f.user \in Users /\ f.kind = "verify"
    BY <1>1, CallFacts DEF IInv, TypeOK, CallsAreSound, KindsAgree
  <1>3. /\ verified' \in [Users -> BOOLEAN]
        /\ \A u \in Users \ {f.user} : verified'[u] = verified[u]
    BY <1>1, <1>2 DEF IInv, TypeOK
  <1>4. /\ "save" \in f.beside => raced' = raced \union {f.user}
        /\ "save" \notin f.beside => raced' = raced \ {f.user}
    BY DEF MarkVerified
  <1>5. TypeOK'
    BY <1>1, <1>2, <1>3, <1>4 DEF IInv, TypeOK
  <1>6. CallsAreSound'
    <2>1. ASSUME NEW g \in calls', g.kind = "save", "verify" \notin g.beside, verified'[g.user]
          PROVE  verified[g.user]
      <3>1. g \in calls /\ g # f /\ g.user \in Users
        BY <1>1, CallFacts DEF IInv, TypeOK
      <3>2. g.user # f.user
        BY <1>2, <2>1, <3>1 DEF IInv, CallsAreSound, BesideEachOther
      <3>3. QED
        BY <1>3, <2>1, <3>1, <3>2
    <2>2. QED
      BY <1>1, <2>1, FewerCalls DEF IInv
  <1>7. VerifiedNumberWasConfirmed'
    <2>1. ASSUME NEW u \in Users, verified'[u], u \notin raced'
          PROVE  phone[u] \in confirmed[u]
      <3>1. CASE u = f.user
        <4>1. "save" \notin f.beside
          BY <1>4, <2>1, <3>1
        <4>2. QED
          BY <1>1, <1>2, <3>1, <4>1 DEF IInv, CallsAreSound, VerifiesAreCurrent
      <3>2. CASE u # f.user
        <4>1. verified[u] /\ u \notin raced
          BY <1>3, <1>4, <2>1, <3>2
        <4>2. QED
          BY <4>1 DEF IInv, VerifiedNumberWasConfirmed
      <3>3. QED
        BY <3>1, <3>2
    <2>2. QED
      BY <1>1, <2>1 DEF VerifiedNumberWasConfirmed
  <1>8. SpentEntries'
    BY <1>1, EntriesOK DEF IInv
  <1>9. QED
    BY <1>5, <1>6, <1>7, <1>8 DEF IInv

\* A request ends without writing; if it was to delete an entry, that is noted.
LEMMA EndsOK ==
    ASSUME IInv, NEW f \in calls, Ends(f),
           UNCHANGED <<phone, verified, cached, codes, confirmed, raced, spent>>,
           kept' = IF f.at = "forget" /\ f.user \in cached THEN kept \union {f.user} ELSE kept
    PROVE  IInv'
  <1>1. calls' = calls \ {f} /\ f.user \in Users
    BY CallFacts DEF Ends, IInv, TypeOK
  <1>2. TypeOK'
    BY <1>1 DEF IInv, TypeOK
  <1>3. CallsAreSound'
    BY <1>1, FewerCalls DEF IInv
  <1>4. SpentEntries'
    BY <1>1, EntriesOK DEF IInv
  <1>5. QED
    BY <1>2, <1>3, <1>4 DEF IInv, VerifiedNumberWasConfirmed

LEMMA ExpireOK == ASSUME IInv, Expire PROVE IInv'
  <1>1. /\ cached' \subseteq cached /\ codes' \subseteq codes
        /\ UNCHANGED <<phone, verified, calls, confirmed, raced, spent, kept>>
    BY DEF Expire, row, history
  <1>2. TypeOK'
    BY <1>1 DEF IInv, TypeOK
  <1>3. CallsAreSound'
    BY <1>1, FewerCalls DEF IInv
  <1>4. SpentEntries'
    BY <1>1, EntriesOK DEF IInv
  <1>5. QED
    BY <1>1, <1>2, <1>3, <1>4 DEF IInv, VerifiedNumberWasConfirmed

LEMMA NextOK == IInv /\ [Next]_vars => IInv'
  <1> SUFFICES ASSUME IInv, [Next]_vars PROVE IInv'
    OBVIOUS
  <1>1. CASE Saves
    BY <1>1, FindUserOK, SavePhoneOK DEF Saves
  <1>2. CASE Sends
    <2>1. ASSUME NEW f \in calls, GenerateFails(f)
          PROVE  IInv'
      BY <2>1, EndsOK DEF GenerateFails, row, history
    <2>2. QED
      BY <1>2, <2>1, ReadPhoneOK, GenerateCodeOK, CacheCodeOK DEF Sends
  <1>3. CASE Verifies
    <2>1. ASSUME NEW f \in calls, RefuseCode(f)
          PROVE  IInv'
      BY <2>1, EndsOK DEF RefuseCode, row, history
    <2>2. QED
      BY <1>3, <2>1, StartVerifyOK, LookUpCodeOK, ConfirmCodeOK, ForgetCodeOK, MarkVerifiedOK
      DEF Verifies
  <1>4. CASE Expire
    BY <1>4, ExpireOK
  <1>5. CASE \E f \in calls : CallLost(f)
    BY <1>5, EndsOK DEF CallLost, row, history
  <1>6. CASE UNCHANGED vars
    <2>1. UNCHANGED <<phone, verified, cached, codes, calls, confirmed, raced, spent, kept>>
      BY <1>6 DEF vars
    <2>2. TypeOK'
      BY <2>1 DEF IInv, TypeOK
    <2>3. CallsAreSound'
      BY <2>1, FewerCalls DEF IInv
    <2>4. SpentEntries'
      BY <2>1, EntriesOK DEF IInv
    <2>5. QED
      BY <2>1, <2>2, <2>3, <2>4 DEF IInv, VerifiedNumberWasConfirmed
  <1>7. QED
    BY <1>1, <1>2, <1>3, <1>4, <1>5, <1>6 DEF Next

LEMMA Invariance == Spec => []IInv
  <1>1. Init => IInv
    BY InitOK
  <1>2. QED
    BY <1>1, NextOK, PTL DEF Spec
-----------------------------------------------------------------------------
\* Every variable keeps its type: among others, no null number is ever sent a code.
THEOREM TypeCorrect == Spec => []TypeOK
  <1>1. IInv => TypeOK
    BY DEF IInv
  <1>2. QED
    BY <1>1, Invariance, PTL

\* However saves, codes and verifications of a user interleave, expire and fail, the mark
\* is for the number in the row, unless the last save and verification overlapped.
THEOREM MarkIsForTheNumber == Spec => []VerifiedNumberWasConfirmed
  <1>1. IInv => VerifiedNumberWasConfirmed
    BY DEF IInv
  <1>2. QED
    BY <1>1, Invariance, PTL

\* From the moment a code is accepted until another is sent, only a verification that ran
\* beside another, or that follows one that was lost before it deleted the entry, can
\* take the code to the provider again.
THEOREM SpentIsSpent == Spec => []SpentCodesAreRefused
  <1>1. IInv => SpentCodesAreRefused
    BY DEF IInv, CallsAreSound
  <1>2. QED
    BY <1>1, Invariance, PTL
=============================================================================
