---------------------------- MODULE AccountsProofs ----------------------------
(***************************************************************************)
(* Proofs about Accounts, for any accounts, emails, names, statuses and    *)
(* roles, and any bounds.                                                  *)
(*                                                                         *)
(* Three arguments, on the types.  The unique index keeps emails apart,    *)
(* and what is about to be written matches the account it is written for,  *)
(* as long as that account keeps its email and no body contradicts it      *)
(* (MatchInv).  Only a setup's event is about an admin, so no sign-up's    *)
(* event opens an admin's wallet (WalletInv).  Two requests in flight for  *)
(* one column both know of it, so what an uncontested request has found is *)
(* still there (SerialInv).  Last, the safety half of WalletOpens: what    *)
(* goes on by itself uses up a number (StepsLeft), and when no event is    *)
(* left no wallet is missing.                                              *)
(***************************************************************************)
EXTENDS Accounts, FiniteSetTheorems, TLAPS

\* What a request means to write fits the columns.
WantFits(w) ==
    /\ DOMAIN w \subseteq Columns
    /\ "email" \in DOMAIN w => w["email"] \in Emails
    /\ "first" \in DOMAIN w => w["first"] \in {Given} \union {n.first : n \in FullNames}
    /\ "last" \in DOMAIN w => w["last"] \in {Given} \union {n.last : n \in FullNames}
    /\ "status" \in DOMAIN w => w["status"] \in Statuses
    /\ "role" \in DOMAIN w => w["role"] \in Roles
    /\ "kyc" \in DOMAIN w => w["kyc"] \in BOOLEAN

Fields == {"request", "user", "want", "event", "found", "hasWallet", "contested"}

Types ==
    /\ TypeOK
    /\ \A i \in Created : asked[i] \in Row
    /\ \A f \in saving :
           /\ DOMAIN f = Fields /\ f.request \in Requests /\ f.hasWallet \in BOOLEAN
           /\ f.event \in {"none", "FIREBASE_USER_SETUP"}
           /\ WantFits(f.want)

\* An email and an account of a row do not contradict what account uid is.
Agrees(uid, email, id) ==
    /\ id = uid => email = emailOf[uid]
    /\ email = emailOf[uid] => id \in {uid, Null}

\* The email and the account of a row go together.
Match(email, id) == \A uid \in Uids \ parted : Agrees(uid, email, id)

MatchInv ==
    /\ \A u, v \in Uids : emailOf[u] = emailOf[v] => u = v
    /\ \A i, j \in Created : users[i].email = users[j].email => i = j
    /\ \A i \in Created : Match(users[i].email, users[i].firebaseId)
    /\ \A f \in inserting : Match(f.row.email, f.row.firebaseId)
    /\ \A f \in saving : "email" \in DOMAIN f.want =>
           Match(f.want["email"], users[f.user].firebaseId)

\* Wallets are of users that exist, and the events of admins are those of setups.
WalletInv ==
    /\ \A i \in Ids : wallet[i] # "none" => i \in Created
    /\ \A f \in emitting \union listeners : f.user \in admins => f.event = "FIREBASE_USER_SETUP"
    /\ WalletsFollowSignUps

SerialInv ==
    /\ \A f, g \in saving : f # g /\ f.user = g.user =>
           DOMAIN f.want \intersect DOMAIN g.want \subseteq f.contested
    /\ \A f \in saving, c \in Columns :
           c \in DOMAIN f.want => users[f.user][c] = f.found[c] \/ c \in f.contested
    /\ ColumnsAreSerial

IInv == Types /\ MatchInv /\ WalletInv /\ SerialInv
-----------------------------------------------------------------------------
\* Rows, and what a flush makes of them.
LEMMA NoRow == NoUser \notin Row
  BY DEF NoUser, Row

LEMMA RowColumns ==
    ASSUME NEW r \in Row
    PROVE  DOMAIN r = Columns \union {"firebaseId"}
  BY DEF Row, Columns

LEMMA NewRowFacts ==
    ASSUME NEW email \in Emails, NEW uid \in Uids \union {Null}, NEW status \in Statuses, NEW role \in Roles
    PROVE  /\ NewRow(email, uid, status, role) \in Row
           /\ NewRow(email, uid, status, role).email = email
           /\ NewRow(email, uid, status, role).firebaseId = uid
  BY DEF NewRow, Row

\* Row r with the columns D of w.
Written(r, w, D) == [c \in DOMAIN r |-> IF c \in D THEN w[c] ELSE r[c]]

LEMMA WrittenFacts ==
    ASSUME NEW r \in Row, NEW w, WantFits(w), NEW D, D \subseteq DOMAIN w
    PROVE  /\ Written(r, w, D) \in Row
           /\ Written(r, w, D).firebaseId = r.firebaseId
           /\ \A c \in Columns : /\ c \in D => Written(r, w, D)[c] = w[c]
                                 /\ c \notin D => Written(r, w, D)[c] = r[c]
  <1> DEFINE new == Written(r, w, D)
  <1>1. DOMAIN r = Columns \union {"firebaseId"}
    BY RowColumns
  <1>2. DOMAIN new = Columns \union {"firebaseId"} /\ new = [c \in Columns \union {"firebaseId"} |-> new[c]]
    BY <1>1 DEF Written
  <1>3. \A c \in Columns : /\ c \in D => new[c] = w[c]
                           /\ c \notin D => new[c] = r[c]
    BY <1>1 DEF Written
  <1>4. new["firebaseId"] = r["firebaseId"]
    BY <1>1 DEF Written, WantFits, Columns
  <1> HIDE DEF new
  <1>5. /\ r["email"] \in Emails /\ r["firebaseId"] \in Uids \union {Null}
        /\ r["first"] \in {Given} \union {n.first : n \in FullNames}
        /\ r["last"] \in {Given} \union {n.last : n \in FullNames}
        /\ r["status"] \in Statuses /\ r["role"] \in Roles /\ r["kyc"] \in BOOLEAN
    BY DEF Row
  <1>6. new["email"] \in Emails
    BY <1>3, <1>5 DEF WantFits, Columns
  <1>7. new["first"] \in {Given} \union {n.first : n \in FullNames}
    BY <1>3, <1>5 DEF WantFits, Columns
  <1>8. new["last"] \in {Given} \union {n.last : n \in FullNames}
    BY <1>3, <1>5 DEF WantFits, Columns
  <1>9. new["status"] \in Statuses /\ new["role"] \in Roles
    BY <1>3, <1>5 DEF WantFits, Columns
  <1>10. new["kyc"] \in BOOLEAN
    BY <1>3, <1>5 DEF WantFits, Columns
  <1>11. new \in Row
    BY <1>2, <1>4, <1>5, <1>6, <1>7, <1>8, <1>9, <1>10 DEF Row, Columns
  <1>12. QED
    BY <1>3, <1>4, <1>11 DEF new

\* A request that has found a row, and learns that it shares columns X with another.
Noted(g, X) == [g EXCEPT !.contested = @ \union X]

Alike(g, h) ==
    /\ DOMAIN h = DOMAIN g /\ h.request = g.request /\ h.user = g.user /\ h.want = g.want
    /\ h.event = g.event /\ h.found = g.found /\ h.hasWallet = g.hasWallet

LEMMA NotedFacts ==
    ASSUME NEW g, DOMAIN g = Fields, NEW X
    PROVE  Alike(g, Noted(g, X)) /\ Noted(g, X).contested = g.contested \union X
  BY DEF Noted, Fields, Alike

LEMMA CreatedIsRow ==
    ASSUME TypeOK, NEW i \in Created
    PROVE  i \in Ids /\ users[i] \in Row
  BY DEF TypeOK, Created

LEMMA SameCreated ==
    ASSUME UNCHANGED users
    PROVE  Created' = Created /\ Taken' = Taken
  BY DEF Created, Taken
-----------------------------------------------------------------------------
LEMMA InitOK == Init => IInv
  <1> SUFFICES ASSUME Init PROVE IInv
    OBVIOUS
  <1>1. /\ users = [i \in Ids |-> NoUser] /\ wallet = [i \in Ids |-> "none"] /\ emailOf = FirstEmail
        /\ inserting = {} /\ saving = {} /\ emitting = {} /\ listeners = {}
        /\ requests = 0 /\ upsets = 0 /\ admins = {} /\ parted = {} /\ lost = {}
        /\ asked = users /\ astray = {}
    BY DEF Init
  <1>2. Created = {}
    BY <1>1 DEF Created
  <1>3. 0 \in 0..MaxRequests /\ 0 \in 0..MaxUpsets
    BY BoundsAreNat
  <1>4. Types
    BY <1>1, <1>2, <1>3, EachItsOwnEmail DEF Types, TypeOK
  <1>5. MatchInv
    BY <1>1, <1>2, EachItsOwnEmail DEF MatchInv
  <1>6. WalletInv
    BY <1>1, <1>2 DEF WalletInv, WalletsFollowSignUps
  <1>7. SerialInv
    BY <1>1, <1>2 DEF SerialInv, ColumnsAreSerial
  <1>8. QED
    BY <1>4, <1>5, <1>6, <1>7 DEF IInv

\* Requests and events are only given up; who loses an event that would have opened a
\* wallet is in lost.
LEMMA DropOK ==
    ASSUME IInv, UNCHANGED <<users, wallet, emailOf, admins, parted, asked, astray>>,
           inserting' \subseteq inserting, saving' \subseteq saving,
           emitting' \subseteq emitting, listeners' \subseteq listeners,
           lost \subseteq lost', lost' \subseteq Created,
           \A f \in emitting \union listeners :
               f \in emitting' \union listeners' \/ f.hasWallet \/ f.user \in lost',
           requests' \in 0..MaxRequests, upsets' \in 0..MaxUpsets
    PROVE  IInv'
  <1>1. Created' = Created
    BY SameCreated
  <1>2. Types'
    BY <1>1 DEF IInv, Types, TypeOK
  <1>3. MatchInv'
    BY <1>1 DEF IInv, MatchInv, Match, Agrees
  <1>4. WalletsFollowSignUps'
    <2>1. ASSUME NEW i \in Created
          PROVE  /\ i \in admins => wallet[i] # "USER_CREATED"
                 /\ i \notin admins /\ wallet[i] = "none" =>
                        \/ i \in lost'
                        \/ \E f \in emitting' \union listeners' : f.user = i /\ ~f.hasWallet
      BY DEF IInv, WalletInv, WalletsFollowSignUps
    <2>2. QED
      BY <1>1, <2>1 DEF WalletsFollowSignUps
  <1>5. WalletInv'
    BY <1>1, <1>4 DEF IInv, WalletInv
  <1>6. SerialInv'
    BY <1>1 DEF IInv, SerialInv, ColumnsAreSerial
  <1>7. QED
    BY <1>2, <1>3, <1>5, <1>6 DEF IInv

LEMMA RequestsCount ==
    ASSUME Types, requests < MaxRequests, requests' = requests + 1
    PROVE  requests' \in 0..MaxRequests
  BY BoundsAreNat DEF Types, TypeOK

LEMMA UpsetsCount ==
    ASSUME Types, Upset
    PROVE  upsets' \in 0..MaxUpsets
  BY BoundsAreNat DEF Types, TypeOK, Upset

LEMMA GivenUpOK ==
    ASSUME IInv
    PROVE  /\ \A f \in inserting : InsertRefused(f) => IInv'
           /\ \A f \in saving : FlushRefused(f) => IInv'
           /\ \A f \in inserting \union saving \union emitting : RequestFails(f) => IInv'
           /\ \A e \in listeners : ListenerFails(e) => IInv'
           /\ Crash => IInv'
           /\ UNCHANGED vars => IInv'
  <1>1. /\ lost \subseteq Created /\ requests \in 0..MaxRequests /\ upsets \in 0..MaxUpsets
        /\ \A f \in emitting \union listeners : f.user \in Created
    BY DEF IInv, Types, TypeOK
  <1>2. ASSUME NEW f \in inserting, InsertRefused(f)
        PROVE  IInv'
    BY <1>1, <1>2, DropOK DEF InsertRefused, bounds, history
  <1>3. ASSUME NEW f \in saving, FlushRefused(f)
        PROVE  IInv'
    BY <1>1, <1>3, DropOK DEF FlushRefused, bounds, history
  <1>4. ASSUME NEW f \in inserting \union saving \union emitting, RequestFails(f)
        PROVE  IInv'
    <2>1. upsets' \in 0..MaxUpsets
      BY <1>4, UpsetsCount DEF IInv, RequestFails
    <2>2. lost' = IF f \in emitting THEN lost \union {f.user} ELSE lost
      BY <1>4 DEF RequestFails
    <2>3. /\ UNCHANGED <<users, wallet, emailOf, listeners, requests, admins, parted, asked, astray>>
          /\ inserting' = inserting \ {f} /\ saving' = saving \ {f} /\ emitting' = emitting \ {f}
      BY <1>4 DEF RequestFails
    <2>4. QED
      BY <1>1, <2>1, <2>2, <2>3, DropOK
  <1>5. ASSUME NEW e \in listeners, ListenerFails(e)
        PROVE  IInv'
    <2>1. upsets' \in 0..MaxUpsets
      BY <1>5, UpsetsCount DEF IInv, ListenerFails
    <2>2. QED
      BY <1>1, <1>5, <2>1, DropOK DEF ListenerFails
  <1>6. CASE Crash
    <2>1. upsets' \in 0..MaxUpsets
      BY <1>6, UpsetsCount DEF IInv, Crash
    <2>2. QED
      BY <1>1, <1>6, <2>1, DropOK DEF Crash
  <1>7. CASE UNCHANGED vars
    BY <1>1, <1>7, DropOK DEF vars
  <1>8. QED
    BY <1>2, <1>3, <1>4, <1>5, <1>6, <1>7
-----------------------------------------------------------------------------
\* Requests that are about to insert a row.
LEMMA ToInsertOK ==
    ASSUME IInv, NEW q \in Requests, NEW row \in Row, NEW signsUp \in BOOLEAN,
           Ask(q), ToInsert(q, row, signsUp), parted \subseteq parted', parted' \subseteq Uids,
           \A uid \in Uids \ parted' : Agrees(uid, row.email, row.firebaseId)
    PROVE  IInv'
  <1> DEFINE new == [request |-> q, row |-> row, signsUp |-> signsUp]
  <1>1. /\ UNCHANGED <<users, wallet, emailOf, saving, emitting, listeners, upsets, admins,
                       lost, asked, astray>>
        /\ inserting' = inserting \union {new}
    BY DEF Ask, ToInsert
  <1>2. /\ new \in [request : Requests, row : Row, signsUp : BOOLEAN]
        /\ new.row = row
    OBVIOUS
  <1>3. new.signsUp <=> signsUp
    OBVIOUS
  <1> HIDE DEF new
  <1>4. requests' \in 0..MaxRequests
    BY RequestsCount DEF IInv, Ask
  <1>5. Created' = Created
    BY <1>1, SameCreated
  <1>6. Types'
    BY <1>1, <1>2, <1>4, <1>5 DEF IInv, Types, TypeOK
  <1>7. MatchInv'
    BY <1>1, <1>2, <1>5 DEF IInv, MatchInv, Match, Agrees
  <1>8. WalletInv'
    <2>1. WalletsFollowSignUps'
      BY <1>1, <1>5 DEF IInv, WalletInv, WalletsFollowSignUps
    <2>2. QED
      BY <1>1, <1>2, <1>3, <1>5, <2>1 DEF IInv, WalletInv
  <1>9. SerialInv'
    BY <1>1, <1>5 DEF IInv, SerialInv, ColumnsAreSerial
  <1>10. QED
    BY <1>6, <1>7, <1>8, <1>9 DEF IInv

\* What goes with an account's email, goes with the account.
LEMMA OwnEmailMatches ==
    ASSUME MatchInv, NEW uid \in Uids
    PROVE  \A v \in Uids : Agrees(v, emailOf[uid], uid)
  BY DEF MatchInv, Agrees

LEMMA NoAccountMatches ==
    ASSUME NEW email
    PROVE  \A v \in Uids : Agrees(v, email, Null)
  BY NullIsNoUid DEF Agrees

\* Whom a body does not contradict, it agrees with.
LEMMA OthersAgree ==
    ASSUME NEW email, NEW id \in Uids \union {Null}, NEW v \in Uids, v \notin Contradicted(id, email)
    PROVE  Agrees(v, email, id)
  BY NullIsNoUid DEF Contradicted, Agrees

LEMMA ContradictedAreUids ==
    ASSUME TypeOK, NEW id, NEW email, parted' = parted \union Contradicted(id, email)
    PROVE  parted \subseteq parted' /\ parted' \subseteq Uids
  BY DEF TypeOK, Contradicted

LEMMA SignUpsOK ==
    ASSUME IInv, NEW q \in Requests
    PROVE  /\ \A uid \in Uids : Authenticate(q, uid) => IInv'
           /\ \A email \in Emails, uid \in Uids \union {Null}, status \in Statuses :
                  CreateUser(q, email, uid, status) => IInv'
           /\ \A email \in Emails, status \in Statuses, role \in Roles :
                  CreateAdmin(q, email, status, role) => IInv'
  <1>1. ASSUME NEW uid \in Uids, Authenticate(q, uid)
        PROVE  IInv'
    <2>1. emailOf[uid] \in Emails
      BY DEF IInv, Types, TypeOK
    <2>2. /\ \A v \in Uids : Agrees(v, emailOf[uid], uid)
          /\ parted' = parted /\ parted \subseteq Uids
      BY <1>1, OwnEmailMatches DEF IInv, Types, TypeOK, Authenticate
    <2> DEFINE r == NewRow(emailOf[uid], uid, "active", "SUBSCRIBER")
    <2>3. r \in Row /\ r.email = emailOf[uid] /\ r.firebaseId = uid
      BY <2>1, NewRowFacts, ActiveIsAStatus, SubscriberIsARole
    <2>4. Ask(q) /\ ToInsert(q, r, TRUE)
      BY <1>1 DEF Authenticate
    <2> HIDE DEF r
    <2>5. QED
      BY <2>2, <2>3, <2>4, ToInsertOK
  <1>2. ASSUME NEW email \in Emails, NEW uid \in Uids \union {Null}, NEW status \in Statuses,
               CreateUser(q, email, uid, status)
        PROVE  IInv'
    <2>1. /\ \A v \in Uids \ parted' : Agrees(v, email, uid)
          /\ parted \subseteq parted' /\ parted' \subseteq Uids
      BY <1>2, OthersAgree, ContradictedAreUids DEF IInv, Types, CreateUser
    <2> DEFINE r == NewRow(email, uid, status, "SUBSCRIBER")
    <2>2. r \in Row /\ r.email = email /\ r.firebaseId = uid
      BY NewRowFacts, SubscriberIsARole
    <2>3. Ask(q) /\ ToInsert(q, r, TRUE)
      BY <1>2 DEF CreateUser
    <2> HIDE DEF r
    <2>4. QED
      BY <2>1, <2>2, <2>3, ToInsertOK
  <1>3. ASSUME NEW email \in Emails, NEW status \in Statuses, NEW role \in Roles,
               CreateAdmin(q, email, status, role)
        PROVE  IInv'
    <2> DEFINE r == NewRow(email, Null, status, role)
    <2>1. r \in Row /\ r.email = email /\ r.firebaseId = Null
      BY NewRowFacts
    <2>2. Ask(q) /\ ToInsert(q, r, FALSE) /\ parted' = parted /\ parted \subseteq Uids
      BY <1>3 DEF CreateAdmin, IInv, Types, TypeOK
    <2> HIDE DEF r
    <2>3. QED
      BY <2>1, <2>2, NoAccountMatches, ToInsertOK
  <1>4. QED
    BY <1>1, <1>2, <1>3

\* The row is inserted: its email is nobody's yet.
LEMMA InsertOK ==
    ASSUME IInv, NEW f \in inserting, NEW i \in Ids, Insert(f, i)
    PROVE  IInv'
  <1> DEFINE r == f.row
             e == [request |-> f.request, event |-> "USER_CREATED", user |-> i, hasWallet |-> FALSE]
  <1>1. /\ i \notin Created /\ r.email \notin Taken
        /\ users' = [users EXCEPT ![i] = r] /\ asked' = [asked EXCEPT ![i] = r]
        /\ inserting' = inserting \ {f}
        /\ UNCHANGED <<wallet, emailOf, saving, listeners, requests, upsets, parted, lost, astray>>
    BY DEF Insert, PutRow, bounds
  <1>2. f.request \in Requests /\ r \in Row /\ f.signsUp \in BOOLEAN
    BY DEF IInv, Types, TypeOK
  <1>3. /\ f.signsUp => emitting' = emitting \union {e} /\ admins' = admins
        /\ ~f.signsUp => emitting' = emitting /\ admins' = admins \union {i}
    BY <1>2 DEF Insert, PutRow
  <1>4. /\ e \in [request : Requests, event : {"USER_CREATED", "FIREBASE_USER_SETUP"},
                  user : {i}, hasWallet : BOOLEAN]
        /\ e.user = i /\ ~e.hasWallet
    BY <1>2
  <1> HIDE DEF r, e
  <1>5. /\ users \in [Ids -> Row \union {NoUser}] /\ asked \in [Ids -> Row \union {NoUser}]
        /\ users'[i] = r /\ asked'[i] = r
        /\ \A j \in Ids \ {i} : users'[j] = users[j] /\ asked'[j] = asked[j]
    BY <1>1 DEF IInv, Types, TypeOK
  <1>6. Created' = Created \union {i} /\ Created \subseteq Ids
    BY <1>2, <1>5, NoRow DEF Created
  <1>7. \A j \in Created : j # i /\ users'[j] = users[j] /\ asked'[j] = asked[j]
    BY <1>1, <1>5, <1>6
  <1>8. Types'
    <2>1. users' \in [Ids -> Row \union {NoUser}] /\ asked' \in [Ids -> Row \union {NoUser}]
      BY <1>1, <1>2, <1>5
    <2>2. emitting' \subseteq [request : Requests, event : {"USER_CREATED", "FIREBASE_USER_SETUP"},
                               user : Created', hasWallet : BOOLEAN]
      BY <1>2, <1>3, <1>4, <1>6 DEF IInv, Types, TypeOK
    <2>3. admins' \subseteq Created' /\ lost' \subseteq Created'
      BY <1>1, <1>2, <1>3, <1>6 DEF IInv, Types, TypeOK
    <2>4. \A j \in Created' : asked'[j] \in Row
      BY <1>2, <1>5, <1>6, <1>7 DEF IInv, Types
    <2>5. listeners' \subseteq [event : {"USER_CREATED", "FIREBASE_USER_SETUP"},
                                user : Created', hasWallet : BOOLEAN]
      BY <1>1, <1>6 DEF IInv, Types, TypeOK
    <2>6. QED
      BY <1>1, <1>6, <2>1, <2>2, <2>3, <2>4, <2>5 DEF IInv, Types, TypeOK
  <1>9. MatchInv'
    <2>1. \A j \in Created : users'[j].email # r.email
      BY <1>1, <1>7 DEF Taken
    <2>2. \A j, k \in Created' : users'[j].email = users'[k].email => j = k
      BY <1>5, <1>6, <1>7, <2>1 DEF IInv, MatchInv
    <2>3. Match(r.email, r.firebaseId)
      BY DEF IInv, MatchInv, r
    <2>4. \A j \in Created' : Match(users'[j].email, users'[j].firebaseId)
      BY <1>5, <1>6, <1>7, <2>3 DEF IInv, MatchInv
    <2>5. \A g \in saving : g.user \in Created
      BY DEF IInv, Types, TypeOK
    <2>6. \A g \in saving : "email" \in DOMAIN g.want => Match(g.want["email"], users'[g.user].firebaseId)
      BY <1>7, <2>5 DEF IInv, MatchInv
    <2>7. QED
      BY <1>1, <2>2, <2>4, <2>6 DEF IInv, MatchInv, Match, Agrees
  <1>10. WalletInv'
    <2>2. \A g \in emitting \union listeners : g.user \in Created
      BY DEF IInv, Types, TypeOK
    <2>3. admins \subseteq Created
      BY DEF IInv, Types, TypeOK
    <2>4. wallet[i] = "none"
      BY <1>1 DEF IInv, WalletInv
    <2>5. \A j \in Ids : wallet[j] # "none" => j \in Created'
      BY <1>6 DEF IInv, WalletInv
    <2>6. \A g \in emitting' \union listeners : g.user \in admins' => g.event = "FIREBASE_USER_SETUP"
      BY <1>1, <1>2, <1>3, <1>4, <2>2, <2>3 DEF IInv, WalletInv
    <2>7. ASSUME NEW j \in Created'
          PROVE  /\ j \in admins' => wallet[j] # "USER_CREATED"
                 /\ j \notin admins' /\ wallet[j] = "none" =>
                        \/ j \in lost
                        \/ \E g \in emitting' \union listeners : g.user = j /\ ~g.hasWallet
      <3>1. CASE j = i
        BY <1>2, <1>3, <1>4, <2>4, <3>1
      <3>2. CASE j # i
        <4>1. j \in Created /\ (j \in admins' <=> j \in admins)
          BY <1>2, <1>3, <1>6, <3>2
        <4>2. emitting \subseteq emitting'
          BY <1>2, <1>3
        <4>3. QED
          BY <4>1, <4>2 DEF IInv, WalletInv, WalletsFollowSignUps
      <3>3. QED
        BY <3>1, <3>2
    <2>8. WalletsFollowSignUps'
      BY <1>1, <2>7 DEF WalletsFollowSignUps
    <2>9. QED
      BY <1>1, <2>5, <2>6, <2>8 DEF IInv, WalletInv
  <1>11. SerialInv'
    <2>1. \A g \in saving : g.user \in Created
      BY DEF IInv, Types, TypeOK
    <2>2. \A g \in saving, c \in Columns :
              c \in DOMAIN g.want => users'[g.user][c] = g.found[c] \/ c \in g.contested
      BY <1>7, <2>1 DEF IInv, SerialInv
    <2>3. \A j \in Created', c \in Columns : users'[j][c] = asked'[j][c] \/ <<j, c>> \in astray
      BY <1>5, <1>6, <1>7 DEF IInv, SerialInv, ColumnsAreSerial
    <2>4. QED
      BY <1>1, <2>2, <2>3 DEF IInv, SerialInv, ColumnsAreSerial
  <1>12. QED
    BY <1>8, <1>9, <1>10, <1>11 DEF IInv
-----------------------------------------------------------------------------
\* Requests that have found a row.
Shared(g, i, want) == IF g.user = i THEN DOMAIN g.want \intersect DOMAIN want ELSE {}

LEMMA FindFacts ==
    ASSUME IInv, NEW q \in Requests, NEW i \in Created, NEW want, WantFits(want),
           NEW event \in {"none", "FIREBASE_USER_SETUP"}, Find(q, i, want, event)
    PROVE  \E new :
               /\ saving' = {Noted(g, Shared(g, i, want)) : g \in saving} \union {new}
               /\ DOMAIN new = Fields /\ new.request = q /\ new.user = i /\ new.want = want
               /\ new.event = event /\ new.hasWallet \in BOOLEAN
               /\ DOMAIN new.found = DOMAIN want
               /\ \A c \in DOMAIN want : new.found[c] = users[i][c]
               /\ new.contested = UNION {Shared(g, i, want) : g \in saving}
  <1> DEFINE has == wallet[i] # "none"
             found == [c \in DOMAIN want |-> users[i][c]]
             contested == UNION {Shared(g, i, want) : g \in saving}
             new == [request |-> q, user |-> i, want |-> want, event |-> event, found |-> found,
                     hasWallet |-> has, contested |-> contested]
  <1>1. saving' = {Noted(g, Shared(g, i, want)) : g \in saving} \union {new}
    BY DEF Find, Noted, Shared
  <1>2. DOMAIN found = DOMAIN want /\ \A c \in DOMAIN want : found[c] = users[i][c]
    OBVIOUS
  <1>3. has \in BOOLEAN
    OBVIOUS
  <1> HIDE DEF found, contested, has
  <1>4. /\ DOMAIN new = Fields /\ new.request = q /\ new.user = i /\ new.want = want
        /\ new.event = event /\ new.hasWallet = has /\ new.found = found /\ new.contested = contested
    BY DEF Fields
  <1> HIDE DEF new
  <1>5. QED
    BY <1>1, <1>2, <1>3, <1>4 DEF contested

LEMMA FindOK ==
    ASSUME IInv, NEW q \in Requests, NEW i \in Created, NEW want, WantFits(want),
           NEW event \in {"none", "FIREBASE_USER_SETUP"}, Find(q, i, want, event),
           parted \subseteq parted', parted' \subseteq Uids,
           "email" \in DOMAIN want =>
               \A uid \in Uids \ parted' : Agrees(uid, want["email"], users[i].firebaseId)
    PROVE  IInv'
  <1>1. /\ UNCHANGED <<users, wallet, emailOf, inserting, emitting, listeners, upsets, admins,
                       lost, asked, astray>>
        /\ requests' \in 0..MaxRequests
    BY RequestsCount DEF Find, Ask, IInv
  <1>2. PICK new :
            /\ saving' = {Noted(g, Shared(g, i, want)) : g \in saving} \union {new}
            /\ DOMAIN new = Fields /\ new.request = q /\ new.user = i /\ new.want = want
            /\ new.event = event /\ new.hasWallet \in BOOLEAN
            /\ DOMAIN new.found = DOMAIN want
            /\ \A c \in DOMAIN want : new.found[c] = users[i][c]
            /\ new.contested = UNION {Shared(g, i, want) : g \in saving}
    BY FindFacts
  <1>3. ASSUME NEW h \in saving', h # new
        PROVE  \E g \in saving :
                   /\ h = Noted(g, Shared(g, i, want)) /\ Alike(g, h)
                   /\ h.contested = g.contested \union Shared(g, i, want)
    BY <1>2, <1>3, NotedFacts DEF IInv, Types
  <1>4. Created' = Created
    BY <1>1, SameCreated
  <1>5. Types'
    <2>1. ASSUME NEW h \in saving'
          PROVE  /\ h.user \in Created /\ h.contested \subseteq DOMAIN h.want
                 /\ DOMAIN h.want \subseteq Columns /\ DOMAIN h.found = DOMAIN h.want
                 /\ DOMAIN h = Fields /\ h.request \in Requests /\ h.hasWallet \in BOOLEAN
                 /\ h.event \in {"none", "FIREBASE_USER_SETUP"}
                 /\ WantFits(h.want)
      <3>1. CASE h = new
        BY <1>2, <3>1 DEF WantFits, Shared
      <3>2. CASE h # new
        <4>1. PICK g \in saving : Alike(g, h) /\ h.contested = g.contested \union Shared(g, i, want)
          BY <1>3, <3>2
        <4>2. h.contested \subseteq DOMAIN h.want
          BY <4>1 DEF IInv, Types, TypeOK, Alike, Shared
        <4>3. QED
          BY <4>1, <4>2 DEF IInv, Types, TypeOK, Alike
      <3>3. QED
        BY <3>1, <3>2
    <2>2. QED
      BY <1>1, <1>4, <2>1 DEF IInv, Types, TypeOK
  <1>6. MatchInv'
    <2>1. ASSUME NEW h \in saving', "email" \in DOMAIN h.want, NEW uid \in Uids \ parted'
          PROVE  Agrees(uid, h.want["email"], users[h.user].firebaseId)
      <3>1. CASE h = new
        BY <1>2, <2>1, <3>1
      <3>2. CASE h # new
        <4>1. PICK g \in saving : Alike(g, h)
          BY <1>3, <3>2
        <4>2. QED
          BY <2>1, <4>1 DEF IInv, MatchInv, Match, Alike
      <3>3. QED
        BY <3>1, <3>2
    <2>2. QED
      BY <1>1, <1>4, <2>1 DEF IInv, MatchInv, Match, Agrees
  <1>7. WalletInv'
    <2>1. WalletsFollowSignUps'
      BY <1>1, <1>4 DEF IInv, WalletInv, WalletsFollowSignUps
    <2>2. QED
      BY <1>1, <1>4, <2>1 DEF IInv, WalletInv
  <1>8. SerialInv'
    <2>1. ASSUME NEW h \in saving', NEW k \in saving', h # k, h.user = k.user
          PROVE  DOMAIN h.want \intersect DOMAIN k.want \subseteq h.contested
      <3>1. CASE h = new
        <4>1. PICK g \in saving : Alike(g, k)
          BY <1>3, <2>1, <3>1
        <4>2. Shared(g, i, want) = DOMAIN k.want \intersect DOMAIN h.want
          BY <1>2, <2>1, <3>1, <4>1 DEF Shared, Alike
        <4>3. QED
          BY <1>2, <3>1, <4>2
      <3>2. CASE k = new
        <4>1. PICK g \in saving : Alike(g, h) /\ h.contested = g.contested \union Shared(g, i, want)
          BY <1>3, <2>1, <3>2
        <4>2. Shared(g, i, want) = DOMAIN k.want \intersect DOMAIN h.want
          BY <1>2, <2>1, <3>2, <4>1 DEF Shared, Alike
        <4>3. QED
          BY <4>1, <4>2
      <3>3. CASE h # new /\ k # new
        <4>1. PICK g \in saving : /\ h = Noted(g, Shared(g, i, want)) /\ Alike(g, h)
                                  /\ h.contested = g.contested \union Shared(g, i, want)
          BY <1>3, <3>3
        <4>2. PICK j \in saving : k = Noted(j, Shared(j, i, want)) /\ Alike(j, k)
          BY <1>3, <3>3
        <4>3. g # j
          BY <2>1, <4>1, <4>2
        <4>4. DOMAIN g.want \intersect DOMAIN j.want \subseteq g.contested
          BY <2>1, <4>1, <4>2, <4>3 DEF IInv, SerialInv, Alike
        <4>5. QED
          BY <4>1, <4>2, <4>4 DEF Alike
      <3>4. QED
        BY <3>1, <3>2, <3>3
    <2>2. ASSUME NEW h \in saving', NEW c \in Columns, c \in DOMAIN h.want
          PROVE  users[h.user][c] = h.found[c] \/ c \in h.contested
      <3>1. CASE h = new
        BY <1>2, <2>2, <3>1
      <3>2. CASE h # new
        <4>1. PICK g \in saving : Alike(g, h) /\ g.contested \subseteq h.contested
          BY <1>3, <3>2
        <4>2. QED
          BY <2>2, <4>1 DEF IInv, SerialInv, Alike
      <3>3. QED
        BY <3>1, <3>2
    <2>3. ColumnsAreSerial'
      BY <1>1, <1>4 DEF IInv, SerialInv, ColumnsAreSerial
    <2>4. QED
      BY <1>1, <2>1, <2>2, <2>3 DEF SerialInv
  <1>9. QED
    BY <1>5, <1>6, <1>7, <1>8 DEF IInv

LEMMA FindsOK ==
    ASSUME IInv, NEW q \in Requests, NEW i \in Ids
    PROVE  /\ \A name \in FullNames : SaveProfile(q, i, name) => IInv'
           /\ \A role \in Roles : SetUserRole(q, i, role) => IInv'
           /\ \A uid \in Uids \union {Null}, email \in Emails, name \in FullNames :
                  SaveExternalAuthUser(q, uid, email, i, name) => IInv'
  <1>1. ASSUME NEW name \in FullNames, SaveProfile(q, i, name)
        PROVE  IInv'
    <2> DEFINE want == [first |-> name.first, last |-> name.last, status |-> "active", kyc |-> TRUE]
    <2>1. i \in Created /\ Find(q, i, want, "none") /\ parted' = parted /\ parted \subseteq Uids
      BY <1>1 DEF SaveProfile, IInv, Types, TypeOK
    <2>2. DOMAIN want = {"first", "last", "status", "kyc"}
      OBVIOUS
    <2>3. /\ want["first"] \in {Given} \union {n.first : n \in FullNames}
          /\ want["last"] \in {Given} \union {n.last : n \in FullNames}
      OBVIOUS
    <2>4. want["status"] \in Statuses
      BY ActiveIsAStatus
    <2>5. want["kyc"] \in BOOLEAN
      OBVIOUS
    <2> HIDE DEF want
    <2>6. WantFits(want)
      BY <2>2, <2>3, <2>4, <2>5 DEF WantFits, Columns
    <2>7. QED
      BY <2>1, <2>2, <2>6, FindOK
  <1>2. ASSUME NEW role \in Roles, SetUserRole(q, i, role)
        PROVE  IInv'
    <2> DEFINE want == [role |-> role]
    <2>1. i \in Created /\ Find(q, i, want, "none") /\ parted' = parted /\ parted \subseteq Uids
      BY <1>2 DEF SetUserRole, IInv, Types, TypeOK
    <2>2. DOMAIN want = {"role"} /\ want["role"] = role
      OBVIOUS
    <2> HIDE DEF want
    <2>3. WantFits(want)
      BY <2>2 DEF WantFits, Columns
    <2>4. QED
      BY <2>1, <2>2, <2>3, FindOK
  <1>3. ASSUME NEW uid \in Uids \union {Null}, NEW email \in Emails, NEW name \in FullNames,
               SaveExternalAuthUser(q, uid, email, i, name)
        PROVE  IInv'
    <2> DEFINE want == [first |-> name.first, last |-> name.last, email |-> email]
    <2>1. /\ i \in Created /\ users[i].firebaseId = uid /\ Find(q, i, want, "FIREBASE_USER_SETUP")
          /\ parted' = parted \union Contradicted(uid, email)
      BY <1>3 DEF SaveExternalAuthUser
    <2>2. DOMAIN want = {"first", "last", "email"}
      OBVIOUS
    <2>3. /\ want["first"] \in {Given} \union {n.first : n \in FullNames}
          /\ want["last"] \in {Given} \union {n.last : n \in FullNames}
      OBVIOUS
    <2>4. want["email"] = email
      OBVIOUS
    <2> HIDE DEF want
    <2>5. WantFits(want)
      BY <2>2, <2>3, <2>4 DEF WantFits, Columns
    <2>6. /\ \A v \in Uids \ parted' : Agrees(v, want["email"], users[i].firebaseId)
          /\ parted \subseteq parted' /\ parted' \subseteq Uids
      BY <2>1, <2>4, OthersAgree, ContradictedAreUids DEF IInv, Types
    <2>7. QED
      BY <2>1, <2>5, <2>6, FindOK
  <1>4. QED
    BY <1>1, <1>2, <1>3
-----------------------------------------------------------------------------
\* A flush: the columns that are dirty go to the row, all that were asked for to `asked`.
LEMMA FlushFacts ==
    ASSUME IInv, NEW f \in saving, Flush(f)
    PROVE  /\ f.user \in Created /\ Dirty(f) \subseteq DOMAIN f.want /\ DOMAIN f.want \subseteq Columns
           /\ users' \in [Ids -> Row \union {NoUser}] /\ asked' \in [Ids -> Row \union {NoUser}]
           /\ users'[f.user] \in Row /\ asked'[f.user] \in Row
           /\ users'[f.user].firebaseId = users[f.user].firebaseId
           /\ \A c \in Columns : /\ c \in Dirty(f) => users'[f.user][c] = f.want[c]
                                 /\ c \notin Dirty(f) => users'[f.user][c] = users[f.user][c]
                                 /\ c \in DOMAIN f.want => asked'[f.user][c] = f.want[c]
                                 /\ c \notin DOMAIN f.want => asked'[f.user][c] = asked[f.user][c]
           /\ \A j \in Ids \ {f.user} : users'[j] = users[j] /\ asked'[j] = asked[j]
           /\ Created' = Created
  <1> DEFINE u == f.user
  <1>1. u \in Created /\ WantFits(f.want) /\ Dirty(f) \subseteq DOMAIN f.want
    BY DEF IInv, Types, TypeOK, Dirty
  <1>2. DOMAIN f.want \subseteq Columns
    BY <1>1 DEF WantFits
  <1>3. u \in Ids /\ users[u] \in Row /\ asked[u] \in Row
    BY <1>1, CreatedIsRow DEF IInv, Types
  <1>4. /\ users \in [Ids -> Row \union {NoUser}] /\ asked \in [Ids -> Row \union {NoUser}]
    BY DEF IInv, Types, TypeOK
  <1>5. /\ users' = [users EXCEPT ![u] = Written(users[u], f.want, Dirty(f))]
        /\ asked' = [asked EXCEPT ![u] = Written(asked[u], f.want, DOMAIN f.want)]
    BY DEF Flush, Written
  <1> HIDE DEF u
  <1> DEFINE new == Written(users[u], f.want, Dirty(f))
             all == Written(asked[u], f.want, DOMAIN f.want)
  <1>6. /\ new \in Row /\ new.firebaseId = users[u].firebaseId
        /\ \A c \in Columns : /\ c \in Dirty(f) => new[c] = f.want[c]
                              /\ c \notin Dirty(f) => new[c] = users[u][c]
    BY <1>1, <1>3, WrittenFacts
  <1>7. /\ all \in Row
        /\ \A c \in Columns : /\ c \in DOMAIN f.want => all[c] = f.want[c]
                              /\ c \notin DOMAIN f.want => all[c] = asked[u][c]
    BY <1>1, <1>3, WrittenFacts
  <1> HIDE DEF new, all
  <1>8. users' = [users EXCEPT ![u] = new] /\ asked' = [asked EXCEPT ![u] = all]
    BY <1>5 DEF new, all
  <1>9. /\ users'[u] = new /\ asked'[u] = all
        /\ \A j \in Ids \ {u} : users'[j] = users[j] /\ asked'[j] = asked[j]
        /\ users' \in [Ids -> Row \union {NoUser}] /\ asked' \in [Ids -> Row \union {NoUser}]
    BY <1>3, <1>4, <1>6, <1>7, <1>8
  <1>10. Created' = Created
    BY <1>1, <1>3, <1>6, <1>9, NoRow DEF Created
  <1>11. QED
    BY <1>1, <1>2, <1>6, <1>7, <1>9, <1>10 DEF u

LEMMA FlushOK ==
    ASSUME IInv, NEW f \in saving, Flush(f)
    PROVE  IInv'
  <1> DEFINE u == f.user
             gone == {<<f.user, c>> : c \in DOMAIN f.want}
             noted == {<<f.user, c>> : c \in f.contested}
             events == {[request |-> f.request, event |-> e, user |-> f.user,
                         hasWallet |-> f.hasWallet] : e \in {f.event} \ {"none"}}
  <1>1. /\ ~Refused(f) /\ saving' = saving \ {f} /\ astray' = (astray \ gone) \union noted
        /\ emitting' = emitting \union events
        /\ UNCHANGED <<wallet, emailOf, inserting, listeners, requests, upsets, admins, parted, lost>>
    BY DEF Flush, bounds
  <1>2. /\ u \in Created /\ Dirty(f) \subseteq DOMAIN f.want /\ DOMAIN f.want \subseteq Columns
        /\ users' \in [Ids -> Row \union {NoUser}] /\ asked' \in [Ids -> Row \union {NoUser}]
        /\ users'[u] \in Row /\ asked'[u] \in Row
        /\ users'[u].firebaseId = users[u].firebaseId
        /\ \A c \in Columns : /\ c \in Dirty(f) => users'[u][c] = f.want[c]
                              /\ c \notin Dirty(f) => users'[u][c] = users[u][c]
                              /\ c \in DOMAIN f.want => asked'[u][c] = f.want[c]
                              /\ c \notin DOMAIN f.want => asked'[u][c] = asked[u][c]
        /\ \A j \in Ids \ {u} : users'[j] = users[j] /\ asked'[j] = asked[j]
        /\ Created' = Created
    BY FlushFacts
  <1>3. /\ f.contested \subseteq DOMAIN f.want /\ f.request \in Requests /\ f.hasWallet \in BOOLEAN
        /\ f.event \in {"none", "FIREBASE_USER_SETUP"}
    BY DEF IInv, Types, TypeOK
  <1>4. events \subseteq [request : Requests, event : {"USER_CREATED", "FIREBASE_USER_SETUP"},
                          user : Created, hasWallet : BOOLEAN]
    BY <1>2, <1>3
  <1>5. \A e \in events : e.user = u /\ e.event = "FIREBASE_USER_SETUP"
    BY <1>3
  <1>6. noted \subseteq Ids \X Columns
    <2>1. u \in Ids
      BY <1>2 DEF Created
    <2>2. QED
      BY <1>2, <1>3, <2>1
  <1>7. \A c : <<u, c>> \in gone <=> c \in DOMAIN f.want
    OBVIOUS
  <1>8. \A c \in f.contested : <<u, c>> \in noted
    OBVIOUS
  <1>9. \A j, c : j # u => <<j, c>> \notin gone
    OBVIOUS
  <1> HIDE DEF u, gone, noted, events
  <1>10. \A j \in Created : j \in Ids /\ users'[j].firebaseId = users[j].firebaseId
    BY <1>2 DEF Created
  <1>11. Types'
    <2>1. astray' \subseteq Ids \X Columns
      BY <1>1, <1>6 DEF IInv, Types, TypeOK
    <2>2. emitting' \subseteq [request : Requests, event : {"USER_CREATED", "FIREBASE_USER_SETUP"},
                               user : Created', hasWallet : BOOLEAN]
      BY <1>1, <1>2, <1>4 DEF IInv, Types, TypeOK
    <2>3. \A j \in Created' : asked'[j] \in Row
      BY <1>2, <1>10 DEF IInv, Types
    <2>4. QED
      BY <1>1, <1>2, <2>1, <2>2, <2>3 DEF IInv, Types, TypeOK
  <1>12. MatchInv'
    <2>1. "email" \in Columns
      BY DEF Columns
    <2>2. ASSUME NEW j \in Created, j # u
          PROVE  users'[j].email = users[j].email /\ users[j].email # users'[u].email
      <3>1. users'[j] = users[j]
        BY <1>2, <1>10, <2>2
      <3>2. CASE "email" \in Dirty(f)
        <4>1. users'[u]["email"] = f.want["email"]
          BY <1>2, <2>1, <3>2
        <4>2. users[j].email # f.want.email
          BY <1>1, <2>2, <3>2 DEF Refused, u
        <4>3. QED
          BY <3>1, <4>1, <4>2
      <3>3. CASE "email" \notin Dirty(f)
        <4>1. users'[u]["email"] = users[u]["email"]
          BY <1>2, <2>1, <3>3
        <4>2. QED
          BY <1>2, <2>2, <3>1, <4>1 DEF IInv, MatchInv
      <3>4. QED
        BY <3>2, <3>3
    <2>3. \A j, k \in Created : users'[j].email = users'[k].email => j = k
      BY <2>2 DEF IInv, MatchInv
    <2>4. Match(users'[u].email, users'[u].firebaseId)
      <3>1. CASE "email" \in Dirty(f)
        <4>1. users'[u]["email"] = f.want["email"] /\ "email" \in DOMAIN f.want
          BY <1>2, <2>1, <3>1
        <4>2. Match(f.want["email"], users[u].firebaseId)
          BY <4>1 DEF IInv, MatchInv, u
        <4>3. QED
          BY <1>2, <4>1, <4>2
      <3>2. CASE "email" \notin Dirty(f)
        <4>1. users'[u]["email"] = users[u]["email"]
          BY <1>2, <2>1, <3>2
        <4>2. Match(users[u].email, users[u].firebaseId)
          BY <1>2 DEF IInv, MatchInv
        <4>3. QED
          BY <1>2, <4>1, <4>2
      <3>3. QED
        BY <3>1, <3>2
    <2>5. \A j \in Created : Match(users'[j].email, users'[j].firebaseId)
      BY <1>2, <1>10, <2>4 DEF IInv, MatchInv
    <2>6. \A g \in saving' : g.user \in Created
      BY <1>1 DEF IInv, Types, TypeOK
    <2>7. \A g \in saving' : "email" \in DOMAIN g.want => Match(g.want["email"], users'[g.user].firebaseId)
      BY <1>1, <1>10, <2>6 DEF IInv, MatchInv
    <2>8. QED
      BY <1>1, <1>2, <2>3, <2>5, <2>7 DEF IInv, MatchInv, Match, Agrees
  <1>13. WalletInv'
    <2>1. \A e \in emitting' \union listeners : e.user \in admins => e.event = "FIREBASE_USER_SETUP"
      BY <1>1, <1>5 DEF IInv, WalletInv
    <2>2. ASSUME NEW j \in Created
          PROVE  /\ j \in admins => wallet[j] # "USER_CREATED"
                 /\ j \notin admins /\ wallet[j] = "none" =>
                        \/ j \in lost
                        \/ \E e \in emitting' \union listeners : e.user = j /\ ~e.hasWallet
      BY <1>1 DEF IInv, WalletInv, WalletsFollowSignUps
    <2>3. WalletsFollowSignUps'
      BY <1>1, <1>2, <2>2 DEF WalletsFollowSignUps
    <2>4. QED
      BY <1>1, <1>2, <2>1, <2>3 DEF IInv, WalletInv
  <1>14. SerialInv'
    <2>1. ASSUME NEW g \in saving', NEW c \in Columns, c \in DOMAIN g.want
          PROVE  users'[g.user][c] = g.found[c] \/ c \in g.contested
      <3>1. g \in saving /\ g # f /\ g.user \in Created
        BY <1>1 DEF IInv, Types, TypeOK
      <3>2. users[g.user][c] = g.found[c] \/ c \in g.contested
        BY <2>1, <3>1 DEF IInv, SerialInv
      <3>3. CASE g.user # u
        BY <1>2, <1>10, <3>1, <3>2, <3>3
      <3>4. CASE g.user = u /\ c \in DOMAIN f.want
        <4>1. DOMAIN g.want \intersect DOMAIN f.want \subseteq g.contested
          BY <3>1, <3>4 DEF IInv, SerialInv, u
        <4>2. QED
          BY <2>1, <3>4, <4>1
      <3>5. CASE g.user = u /\ c \notin DOMAIN f.want
        BY <1>2, <3>2, <3>5
      <3>6. QED
        BY <3>3, <3>4, <3>5
    <2>2. ASSUME NEW j \in Created, NEW c \in Columns
          PROVE  users'[j][c] = asked'[j][c] \/ <<j, c>> \in astray'
      <3>1. users[j][c] = asked[j][c] \/ <<j, c>> \in astray
        BY DEF IInv, SerialInv, ColumnsAreSerial
      <3>2. CASE j # u
        BY <1>1, <1>2, <1>9, <1>10, <3>1, <3>2
      <3>3. CASE j = u /\ c \notin DOMAIN f.want
        <4>1. users'[u][c] = users[u][c] /\ asked'[u][c] = asked[u][c]
          BY <1>2, <3>3
        <4>2. QED
          BY <1>1, <1>7, <3>1, <3>3, <4>1
      <3>4. CASE j = u /\ c \in Dirty(f)
        BY <1>2, <3>4
      <3>5. CASE j = u /\ c \in DOMAIN f.want /\ c \notin Dirty(f)
        <4>1. f.want[c] = f.found[c]
          BY <3>5 DEF Dirty
        <4>2. users'[u][c] = users[u][c] /\ asked'[u][c] = f.want[c]
          BY <1>2, <3>5
        <4>3. users[u][c] = f.found[c] \/ c \in f.contested
          BY <3>5 DEF IInv, SerialInv, u
        <4>4. QED
          BY <1>1, <1>8, <3>5, <4>1, <4>2, <4>3
      <3>6. QED
        BY <3>2, <3>3, <3>4, <3>5
    <2>3. ColumnsAreSerial'
      BY <1>2, <2>2 DEF ColumnsAreSerial
    <2>4. QED
      BY <1>1, <2>1, <2>3 DEF IInv, SerialInv
  <1>15. QED
    BY <1>11, <1>12, <1>13, <1>14 DEF IInv

\* One UPDATE: who has found the row and means to set its status learns of it.
Told(g, i) == IF g.user = i THEN DOMAIN g.want \intersect {"status"} ELSE {}

LEMMA StatusFacts ==
    ASSUME NEW r \in Row, NEW status \in Statuses
    PROVE  /\ [r EXCEPT !.status = status] \in Row
           /\ [r EXCEPT !.status = status].firebaseId = r.firebaseId
           /\ [r EXCEPT !.status = status]["status"] = status
           /\ \A c \in Columns \ {"status"} : [r EXCEPT !.status = status][c] = r[c]
  BY DEF Row, Columns

LEMMA StatusRows ==
    ASSUME IInv, NEW i \in Ids, NEW status \in Statuses, UpdateStatus(i, status)
    PROVE  /\ i \in Created
           /\ users' \in [Ids -> Row \union {NoUser}] /\ asked' \in [Ids -> Row \union {NoUser}]
           /\ \A j \in Created : /\ users'[j] \in Row /\ asked'[j] \in Row
                                 /\ users'[j].firebaseId = users[j].firebaseId
                                 /\ \A c \in Columns : j # i \/ c # "status" =>
                                        users'[j][c] = users[j][c] /\ asked'[j][c] = asked[j][c]
           /\ users'[i]["status"] = asked'[i]["status"]
           /\ Created' = Created
  <1>1. i \in Created
    BY DEF UpdateStatus
  <1>2. \A j \in Created : j \in Ids /\ users[j] \in Row /\ asked[j] \in Row
    BY CreatedIsRow DEF IInv, Types
  <1> DEFINE new == [users[i] EXCEPT !.status = status]
             all == [asked[i] EXCEPT !.status = status]
  <1>3. users' = [users EXCEPT ![i] = new] /\ asked' = [asked EXCEPT ![i] = all]
    BY DEF UpdateStatus
  <1>4. /\ new \in Row /\ new.firebaseId = users[i].firebaseId /\ new["status"] = status
        /\ \A c \in Columns \ {"status"} : new[c] = users[i][c]
    BY <1>1, <1>2, StatusFacts
  <1>5. /\ all \in Row /\ all["status"] = status
        /\ \A c \in Columns \ {"status"} : all[c] = asked[i][c]
    BY <1>1, <1>2, StatusFacts
  <1> HIDE DEF new, all
  <1>6. users \in [Ids -> Row \union {NoUser}] /\ asked \in [Ids -> Row \union {NoUser}]
    BY DEF IInv, Types, TypeOK
  <1>7. /\ users'[i] = new /\ asked'[i] = all
        /\ \A j \in Ids \ {i} : users'[j] = users[j] /\ asked'[j] = asked[j]
        /\ users' \in [Ids -> Row \union {NoUser}] /\ asked' \in [Ids -> Row \union {NoUser}]
    BY <1>3, <1>4, <1>5, <1>6
  <1>8. Created' = Created
    BY <1>1, <1>2, <1>4, <1>7, NoRow DEF Created
  <1>9. ASSUME NEW j \in Created
        PROVE  /\ users'[j] \in Row /\ asked'[j] \in Row
               /\ users'[j].firebaseId = users[j].firebaseId
               /\ \A c \in Columns : j # i \/ c # "status" =>
                      users'[j][c] = users[j][c] /\ asked'[j][c] = asked[j][c]
    <2>1. CASE j = i
      BY <1>4, <1>5, <1>7, <2>1
    <2>2. CASE j # i
      BY <1>2, <1>7, <2>2
    <2>3. QED
      BY <2>1, <2>2
  <1>10. QED
    BY <1>1, <1>4, <1>5, <1>7, <1>8, <1>9

LEMMA UpdateStatusOK ==
    ASSUME IInv, NEW i \in Ids, NEW status \in Statuses, UpdateStatus(i, status)
    PROVE  IInv'
  <1>1. /\ requests' \in 0..MaxRequests
        /\ astray' = astray \ {<<i, "status">>}
        /\ saving' = {Noted(g, Told(g, i)) : g \in saving}
        /\ UNCHANGED <<wallet, emailOf, inserting, emitting, listeners, upsets, admins, parted, lost>>
    BY RequestsCount DEF UpdateStatus, IInv, Noted, Told
  <1>2. /\ i \in Created
        /\ users' \in [Ids -> Row \union {NoUser}] /\ asked' \in [Ids -> Row \union {NoUser}]
        /\ \A j \in Created : /\ users'[j] \in Row /\ asked'[j] \in Row
                              /\ users'[j].firebaseId = users[j].firebaseId
                              /\ \A c \in Columns : j # i \/ c # "status" =>
                                     users'[j][c] = users[j][c] /\ asked'[j][c] = asked[j][c]
        /\ users'[i]["status"] = asked'[i]["status"]
        /\ Created' = Created
    BY StatusRows
  <1>3. ASSUME NEW h \in saving'
        PROVE  \E g \in saving : /\ h = Noted(g, Told(g, i)) /\ Alike(g, h) /\ g.user \in Created
                                 /\ h.contested = g.contested \union Told(g, i)
    BY <1>1, NotedFacts DEF IInv, Types, TypeOK
  <1>4. Types'
    <2>1. ASSUME NEW h \in saving'
          PROVE  /\ h.user \in Created /\ h.contested \subseteq DOMAIN h.want
                 /\ DOMAIN h.want \subseteq Columns /\ DOMAIN h.found = DOMAIN h.want
                 /\ DOMAIN h = Fields /\ h.request \in Requests /\ h.hasWallet \in BOOLEAN
                 /\ h.event \in {"none", "FIREBASE_USER_SETUP"}
                 /\ WantFits(h.want)
      <3>1. PICK g \in saving : Alike(g, h) /\ h.contested = g.contested \union Told(g, i)
        BY <1>3
      <3>2. h.contested \subseteq DOMAIN h.want
        BY <3>1 DEF IInv, Types, TypeOK, Alike, Told
      <3>3. QED
        BY <3>1, <3>2 DEF IInv, Types, TypeOK, Alike
    <2>2. QED
      BY <1>1, <1>2, <2>1 DEF IInv, Types, TypeOK
  <1>5. MatchInv'
    <2>1. "email" \in Columns
      BY DEF Columns
    <2>2. \A j \in Created : users'[j]["email"] = users[j]["email"]
      BY <1>2, <2>1
    <2>3. ASSUME NEW h \in saving', "email" \in DOMAIN h.want
          PROVE  Match(h.want["email"], users'[h.user].firebaseId)
      <3>1. PICK g \in saving : Alike(g, h) /\ g.user \in Created
        BY <1>3
      <3>2. users'[g.user].firebaseId = users[g.user].firebaseId
        BY <1>2, <3>1
      <3>3. QED
        BY <2>3, <3>1, <3>2 DEF IInv, MatchInv, Alike
    <2>4. \A j, k \in Created : users'[j].email = users'[k].email => j = k
      BY <2>2 DEF IInv, MatchInv
    <2>5. \A j \in Created : Match(users'[j].email, users'[j].firebaseId)
      <3>1. ASSUME NEW j \in Created
            PROVE  Match(users'[j].email, users'[j].firebaseId)
        <4>1. users'[j].email = users[j].email /\ users'[j].firebaseId = users[j].firebaseId
          BY <1>2, <2>2
        <4>2. QED
          BY <4>1 DEF IInv, MatchInv
      <3>2. QED
        BY <3>1
    <2>6. QED
      BY <1>1, <1>2, <2>3, <2>4, <2>5 DEF IInv, MatchInv, Match, Agrees
  <1>6. WalletInv'
    <2>1. WalletsFollowSignUps'
      BY <1>1, <1>2 DEF IInv, WalletInv, WalletsFollowSignUps
    <2>2. QED
      BY <1>1, <1>2, <2>1 DEF IInv, WalletInv
  <1>7. SerialInv'
    <2>1. ASSUME NEW h \in saving', NEW k \in saving', h # k, h.user = k.user
          PROVE  DOMAIN h.want \intersect DOMAIN k.want \subseteq h.contested
      <3>1. PICK g \in saving : /\ h = Noted(g, Told(g, i)) /\ Alike(g, h)
                                /\ h.contested = g.contested \union Told(g, i)
        BY <1>3
      <3>2. PICK j \in saving : k = Noted(j, Told(j, i)) /\ Alike(j, k)
        BY <1>3
      <3>3. g # j
        BY <2>1, <3>1, <3>2
      <3>4. DOMAIN g.want \intersect DOMAIN j.want \subseteq g.contested
        BY <2>1, <3>1, <3>2, <3>3 DEF IInv, SerialInv, Alike
      <3>5. QED
        BY <3>1, <3>2, <3>4 DEF Alike
    <2>2. ASSUME NEW h \in saving', NEW c \in Columns, c \in DOMAIN h.want
          PROVE  users'[h.user][c] = h.found[c] \/ c \in h.contested
      <3>1. PICK g \in saving : /\ Alike(g, h) /\ g.user \in Created
                                /\ h.contested = g.contested \union Told(g, i)
        BY <1>3
      <3>2. users[g.user][c] = g.found[c] \/ c \in g.contested
        BY <2>2, <3>1 DEF IInv, SerialInv, Alike
      <3>3. CASE g.user = i /\ c = "status"
        <4>1. c \in Told(g, i)
          BY <2>2, <3>1, <3>3 DEF Told, Alike
        <4>2. QED
          BY <3>1, <4>1
      <3>4. CASE g.user # i \/ c # "status"
        <4>1. users'[g.user][c] = users[g.user][c]
          BY <1>2, <3>1, <3>4
        <4>2. QED
          BY <3>1, <3>2, <4>1 DEF Alike
      <3>5. QED
        BY <3>3, <3>4
    <2>3. ASSUME NEW j \in Created, NEW c \in Columns
          PROVE  users'[j][c] = asked'[j][c] \/ <<j, c>> \in astray'
      <3>1. CASE j = i /\ c = "status"
        BY <1>2, <3>1
      <3>2. CASE j # i \/ c # "status"
        <4>1. users'[j][c] = users[j][c] /\ asked'[j][c] = asked[j][c]
          BY <1>2, <3>2
        <4>2. users[j][c] = asked[j][c] \/ <<j, c>> \in astray
          BY DEF IInv, SerialInv, ColumnsAreSerial
        <4>3. <<j, c>> # <<i, "status">>
          BY <3>2
        <4>4. QED
          BY <1>1, <4>1, <4>2, <4>3
      <3>3. QED
        BY <3>1, <3>2
    <2>4. ColumnsAreSerial'
      BY <1>2, <2>3 DEF ColumnsAreSerial
    <2>5. QED
      BY <2>1, <2>2, <2>4 DEF SerialInv
  <1>8. QED
    BY <1>4, <1>5, <1>6, <1>7 DEF IInv
-----------------------------------------------------------------------------
\* Events.
LEMMA EmitOK ==
    ASSUME IInv, NEW f \in emitting, Emit(f)
    PROVE  IInv'
  <1> DEFINE e == [event |-> f.event, user |-> f.user, hasWallet |-> f.hasWallet]
  <1>1. /\ emitting' = emitting \ {f} /\ listeners' = listeners \union {e}
        /\ lost \ {f.user} \subseteq lost' /\ lost' \subseteq lost
        /\ f.hasWallet => lost' = lost
        /\ UNCHANGED <<users, wallet, emailOf, inserting, saving, requests, upsets, admins, parted,
                       asked, astray>>
    BY DEF Emit, bounds
  <1>2. /\ f.event \in {"USER_CREATED", "FIREBASE_USER_SETUP"} /\ f.user \in Created
        /\ f.hasWallet \in BOOLEAN
    BY DEF IInv, Types, TypeOK
  <1>3. /\ e \in [event : {"USER_CREATED", "FIREBASE_USER_SETUP"}, user : Created, hasWallet : BOOLEAN]
        /\ e.user = f.user /\ e.event = f.event
    BY <1>2
  <1>4. e.hasWallet <=> f.hasWallet
    BY <1>2
  <1> HIDE DEF e
  <1>5. Created' = Created
    BY <1>1, SameCreated
  <1>6. Types'
    BY <1>1, <1>3, <1>5 DEF IInv, Types, TypeOK
  <1>7. MatchInv'
    BY <1>1, <1>5 DEF IInv, MatchInv, Match, Agrees
  <1>8. WalletsFollowSignUps'
    <2>1. ASSUME NEW j \in Created, j \notin admins, wallet[j] = "none", j \notin lost'
          PROVE  \E g \in emitting' \union listeners' : g.user = j /\ ~g.hasWallet
      <3>1. CASE j = f.user /\ ~f.hasWallet
        BY <1>1, <1>3, <1>4, <3>1
      <3>2. CASE j # f.user \/ f.hasWallet
        <4>1. j \notin lost
          BY <1>1, <2>1, <3>2
        <4>2. PICK g \in emitting \union listeners : g.user = j /\ ~g.hasWallet
          BY <2>1, <4>1 DEF IInv, WalletInv, WalletsFollowSignUps
        <4>3. g # f
          BY <3>2, <4>2
        <4>4. QED
          BY <1>1, <4>2, <4>3
      <3>3. QED
        BY <3>1, <3>2
    <2>2. QED
      BY <1>1, <1>5, <2>1 DEF IInv, WalletInv, WalletsFollowSignUps
  <1>9. WalletInv'
    BY <1>1, <1>3, <1>5, <1>8 DEF IInv, WalletInv
  <1>10. SerialInv'
    BY <1>1, <1>5 DEF IInv, SerialInv, ColumnsAreSerial
  <1>11. QED
    BY <1>6, <1>7, <1>9, <1>10 DEF IInv

LEMMA HandleUserCreatedOK ==
    ASSUME IInv, NEW e \in listeners, HandleUserCreated(e)
    PROVE  IInv'
  <1>1. /\ listeners' = listeners \ {e}
        /\ wallet' = [wallet EXCEPT ![e.user] = IF e.hasWallet \/ @ # "none" THEN @ ELSE e.event]
        /\ UNCHANGED <<users, emailOf, inserting, saving, emitting, requests, upsets, admins, parted,
                       lost, asked, astray>>
    BY DEF HandleUserCreated, bounds, history
  <1>2. /\ e.event \in {"USER_CREATED", "FIREBASE_USER_SETUP"} /\ e.user \in Created
        /\ e.hasWallet \in BOOLEAN /\ e.user \in Ids
        /\ e.user \in admins => e.event = "FIREBASE_USER_SETUP"
    BY DEF IInv, Types, TypeOK, Created, WalletInv
  <1>3. /\ wallet' \in [Ids -> {"none", "USER_CREATED", "FIREBASE_USER_SETUP"}]
        /\ \A j \in Ids \ {e.user} : wallet'[j] = wallet[j]
        /\ wallet[e.user] # "none" => wallet'[e.user] = wallet[e.user]
        /\ ~e.hasWallet => wallet'[e.user] # "none"
        /\ wallet'[e.user] \in {wallet[e.user], e.event}
    BY <1>1, <1>2 DEF IInv, Types, TypeOK
  <1>4. Created' = Created
    BY <1>1, SameCreated
  <1>5. Types'
    BY <1>1, <1>3, <1>4 DEF IInv, Types, TypeOK
  <1>6. MatchInv'
    BY <1>1, <1>4 DEF IInv, MatchInv, Match, Agrees
  <1>7. WalletsFollowSignUps'
    <2>1. \A j \in Created : j \in Ids
      BY DEF Created
    <2>2. ASSUME NEW j \in Created, j \in admins
          PROVE  wallet'[j] # "USER_CREATED"
      BY <1>2, <1>3, <2>1, <2>2 DEF IInv, WalletInv, WalletsFollowSignUps
    <2>3. ASSUME NEW j \in Created, j \notin admins, wallet'[j] = "none", j \notin lost
          PROVE  \E g \in emitting \union listeners' : g.user = j /\ ~g.hasWallet
      <3>1. wallet[j] = "none"
        BY <1>3, <2>1, <2>3
      <3>2. PICK g \in emitting \union listeners : g.user = j /\ ~g.hasWallet
        BY <2>3, <3>1 DEF IInv, WalletInv, WalletsFollowSignUps
      <3>3. g # e
        BY <1>3, <2>3, <3>2
      <3>4. QED
        BY <1>1, <3>2, <3>3
    <2>4. QED
      BY <1>1, <1>4, <2>2, <2>3 DEF WalletsFollowSignUps
  <1>8. WalletInv'
    <2>1. \A j \in Ids : wallet'[j] # "none" => j \in Created
      BY <1>2, <1>3 DEF IInv, WalletInv
    <2>2. QED
      BY <1>1, <1>4, <1>7, <2>1 DEF IInv, WalletInv
  <1>9. SerialInv'
    BY <1>1, <1>4 DEF IInv, SerialInv, ColumnsAreSerial
  <1>10. QED
    BY <1>5, <1>6, <1>8, <1>9 DEF IInv

\* The email goes to no account that keeps its own.
LEMMA ChangeEmailOK ==
    ASSUME IInv, NEW uid \in Uids, NEW email \in Emails, ChangeEmail(uid, email)
    PROVE  IInv'
  <1>1. /\ \A v \in Uids : emailOf[v] # email
        /\ emailOf' = [emailOf EXCEPT ![uid] = email] /\ parted' = parted \union {uid}
        /\ UNCHANGED <<users, wallet, inserting, saving, emitting, listeners, requests, admins, lost,
                       asked, astray>>
        /\ upsets' \in 0..MaxUpsets
    BY UpsetsCount DEF ChangeEmail, memory, IInv
  <1>2. /\ emailOf' \in [Uids -> Emails] /\ emailOf'[uid] = email
        /\ \A v \in Uids \ {uid} : emailOf'[v] = emailOf[v]
    BY <1>1 DEF IInv, Types, TypeOK
  <1>3. Created' = Created
    BY <1>1, SameCreated
  <1>4. Types'
    BY <1>1, <1>2, <1>3 DEF IInv, Types, TypeOK
  <1>5. ASSUME NEW m, NEW id, Match(m, id)
        PROVE  \A v \in Uids \ parted' : (id = v => m = emailOf'[v]) /\ (m = emailOf'[v] => id \in {v, Null})
    BY <1>1, <1>2, <1>5 DEF Match, Agrees
  <1>6. MatchInv'
    <2>1. \A v, w \in Uids : emailOf'[v] = emailOf'[w] => v = w
      BY <1>1, <1>2 DEF IInv, MatchInv
    <2>2. \A i \in Created : Match(users[i].email, users[i].firebaseId)'
      BY <1>1, <1>5 DEF IInv, MatchInv, Match, Agrees
    <2>3. \A f \in inserting : Match(f.row.email, f.row.firebaseId)'
      BY <1>1, <1>5 DEF IInv, MatchInv, Match, Agrees
    <2>4. \A f \in saving : "email" \in DOMAIN f.want =>
              Match(f.want["email"], users[f.user].firebaseId)'
      BY <1>1, <1>5 DEF IInv, MatchInv, Match, Agrees
    <2>5. QED
      BY <1>1, <1>3, <2>1, <2>2, <2>3, <2>4 DEF IInv, MatchInv
  <1>7. WalletInv'
    BY <1>1, <1>3 DEF IInv, WalletInv, WalletsFollowSignUps
  <1>8. SerialInv'
    BY <1>1, <1>3 DEF IInv, SerialInv, ColumnsAreSerial
  <1>9. QED
    BY <1>4, <1>6, <1>7, <1>8 DEF IInv
-----------------------------------------------------------------------------
LEMMA NextOK == IInv /\ [Next]_vars => IInv'
  <1> SUFFICES ASSUME IInv, [Next]_vars PROVE IInv'
    OBVIOUS
  <1>1. CASE Clients
    <2>1. \A body \in Bodies : body[1] \in Uids \union {Null} /\ body[2] \in Emails
      BY BodiesNameAccounts
    <2>2. CASE SignIns
      BY <2>2, SignUpsOK, FindsOK DEF SignIns
    <2>3. CASE UserRoutes
      BY <2>1, <2>3, SignUpsOK, FindsOK DEF UserRoutes
    <2>4. CASE ProfileRoute
      BY <2>4, FindsOK DEF ProfileRoute
    <2>5. CASE AdminRoutes
      BY <2>5, SignUpsOK, FindsOK, UpdateStatusOK DEF AdminRoutes
    <2>6. QED
      BY <1>1, <2>2, <2>3, <2>4, <2>5 DEF Clients
  <1>2. CASE Works
    BY <1>2, GivenUpOK, InsertOK, FlushOK, EmitOK, HandleUserCreatedOK DEF Works
  <1>3. CASE Faults
    BY <1>3, GivenUpOK DEF Faults
  <1>4. CASE \E uid \in Uids, email \in Emails : ChangeEmail(uid, email)
    BY <1>4, ChangeEmailOK
  <1>5. CASE UNCHANGED vars
    BY <1>5, GivenUpOK
  <1>6. QED
    BY <1>1, <1>2, <1>3, <1>4, <1>5 DEF Next

LEMMA Invariance == Spec => []IInv
  <1>1. Init => IInv
    BY InitOK
  <1>2. QED
    BY <1>1, NextOK, PTL DEF Spec

\* Every variable keeps its type: rows stay whole, and events are of users that exist.
THEOREM TypeCorrect == Spec => []TypeOK
  <1>1. IInv => TypeOK
    BY DEF IInv, Types
  <1>2. QED
    BY <1>1, Invariance, PTL

\* The row that sign-in finds by email and setup by account is one and the same, for
\* every account that keeps its email and that no body of a request contradicts.
THEOREM OneRowPerAccount == Spec => []AccountKeepsItsRow
  <1>1. IInv => AccountKeepsItsRow
    <2> SUFFICES ASSUME IInv, NEW uid \in Uids \ parted, NEW i \in Created, NEW j \in Created
                 PROVE  /\ users[i].firebaseId = uid => users[i].email = emailOf[uid]
                        /\ users[i].email = emailOf[uid] => users[i].firebaseId \in {uid, Null}
                        /\ users[i].firebaseId = uid /\ users[j].firebaseId = uid => i = j
      BY DEF AccountKeepsItsRow
    <2>1. /\ users[i].firebaseId = uid => users[i].email = emailOf[uid]
          /\ users[i].email = emailOf[uid] => users[i].firebaseId \in {uid, Null}
          /\ users[j].firebaseId = uid => users[j].email = emailOf[uid]
      BY DEF IInv, MatchInv, Match, Agrees
    <2>2. users[i].email = users[j].email => i = j
      BY DEF IInv, MatchInv
    <2>3. QED
      BY <2>1, <2>2
  <1>2. QED
    BY <1>1, Invariance, PTL

\* A sign-up's wallet is there, on its way, or lost to a fault; a sign-up's event
\* never opens an admin's.
THEOREM SignUpsHaveWallets == Spec => []WalletsFollowSignUps
  <1>1. IInv => WalletsFollowSignUps
    BY DEF IInv, WalletInv
  <1>2. QED
    BY <1>1, Invariance, PTL

\* A column that no two requests had in flight at once is as the last of them asked.
THEOREM UncontestedIsSerial == Spec => []ColumnsAreSerial
  <1>1. IInv => ColumnsAreSerial
    BY DEF IInv, SerialInv
  <1>2. QED
    BY <1>1, Invariance, PTL
-----------------------------------------------------------------------------
\* Only a fault has left someone who signed up without a wallet.
AllOpen == \A i \in Created \ admins : wallet[i] # "none" \/ i \in lost

\* Who signed up and has no wallet, and lost nothing, still has an event to come: so once
\* the events have been handled, only a fault has left someone without a wallet.  It is what
\* WalletOpens comes to when nothing is left to do.
THEOREM OpenWhenHandled == Spec => [](emitting \union listeners = {} => AllOpen)
  <1>1. IInv => (emitting \union listeners = {} => AllOpen)
    BY DEF IInv, WalletInv, WalletsFollowSignUps, AllOpen
  <1>2. QED
    BY <1>1, Invariance, PTL

\* The most steps that requests and events in memory can still take.
StepsLeft ==
    3 * Cardinality(inserting) + 3 * Cardinality(saving)
        + 2 * Cardinality(emitting) + Cardinality(listeners)

Finite ==
    /\ IsFiniteSet(inserting) /\ IsFiniteSet(saving)
    /\ IsFiniteSet(emitting) /\ IsFiniteSet(listeners)

LEMMA ImageIsFinite ==
    ASSUME NEW S, IsFiniteSet(S), NEW T, NEW f \in [S -> T], T = {f[x] : x \in S}
    PROVE  IsFiniteSet(T)
  <1>1. f \in Surjection(S, T)
    BY DEF Surjection
  <1>2. QED
    BY <1>1, FS_Surjection

\* Requests that are told of another are no more than they were.
LEMMA NotedAreFinite ==
    ASSUME IsFiniteSet(saving), NEW X, NEW other, IsFiniteSet(other),
           saving' = {[g EXCEPT !.contested = @ \union X[g]] : g \in saving} \union other
    PROVE  IsFiniteSet(saving')
  <1> DEFINE f == [g \in saving |-> [g EXCEPT !.contested = @ \union X[g]]]
             told == {[g EXCEPT !.contested = @ \union X[g]] : g \in saving}
  <1>1. f \in [saving -> told] /\ told = {f[g] : g \in saving}
    OBVIOUS
  <1> HIDE DEF f, told
  <1>2. IsFiniteSet(told)
    <2>1. f \in [saving -> told] /\ told = {f[x] : x \in saving}
      BY <1>1
    <2>2. QED
      BY <2>1, ImageIsFinite
  <1>3. IsFiniteSet(told \union other)
    BY <1>2, FS_Union
  <1>4. QED
    BY <1>3 DEF told

LEMMA InitFinite == Init => Finite
  BY FS_EmptySet DEF Init, Finite

\* What each step of Works does to the four sets.
LEMMA WorksCounts ==
    ASSUME Finite, Works
    PROVE  Finite' /\ StepsLeft \in Nat /\ StepsLeft' \in Nat /\ StepsLeft' < StepsLeft
  <1> DEFINE a == Cardinality(inserting)
             b == Cardinality(saving)
             c == Cardinality(emitting)
             d == Cardinality(listeners)
  <1>1. a \in Nat /\ b \in Nat /\ c \in Nat /\ d \in Nat
    BY FS_CardinalityType DEF Finite
  <1>2. SUFFICES /\ Finite'
                 /\ \E i, j, k, l \in Nat :
                        /\ i = Cardinality(inserting') /\ j = Cardinality(saving')
                        /\ k = Cardinality(emitting') /\ l = Cardinality(listeners')
                        /\ 3 * i + 3 * j + 2 * k + l < 3 * a + 3 * b + 2 * c + d
    <2>1. StepsLeft = 3 * a + 3 * b + 2 * c + d
      BY DEF StepsLeft
    <2> HIDE DEF a, b, c, d
    <2>2. QED
      BY <1>1, <2>1 DEF StepsLeft
  <1>3. ASSUME NEW f \in inserting,
               inserting' = inserting \ {f}, saving' = saving, listeners' = listeners,
               emitting' = emitting \/ \E x : emitting' = emitting \union {x}
        PROVE  /\ Finite'
               /\ Cardinality(inserting') = a - 1 /\ Cardinality(saving') = b
               /\ Cardinality(emitting') \in {c, c + 1} /\ Cardinality(listeners') = d
    BY <1>3, FS_RemoveElement, FS_AddElement DEF Finite
  <1>4. ASSUME NEW f \in saving,
               saving' = saving \ {f}, inserting' = inserting, listeners' = listeners,
               emitting' = emitting \/ \E x : emitting' = emitting \union {x}
        PROVE  /\ Finite'
               /\ Cardinality(inserting') = a /\ Cardinality(saving') = b - 1
               /\ Cardinality(emitting') \in {c, c + 1} /\ Cardinality(listeners') = d
    BY <1>4, FS_RemoveElement, FS_AddElement DEF Finite
  <1>5. ASSUME NEW f \in emitting, Emit(f)
        PROVE  /\ Finite'
               /\ Cardinality(inserting') = a /\ Cardinality(saving') = b
               /\ Cardinality(emitting') = c - 1 /\ Cardinality(listeners') \in {d, d + 1}
    BY <1>5, FS_RemoveElement, FS_AddElement DEF Emit, Finite
  <1>6. ASSUME NEW e \in listeners, HandleUserCreated(e)
        PROVE  /\ Finite'
               /\ Cardinality(inserting') = a /\ Cardinality(saving') = b
               /\ Cardinality(emitting') = c /\ Cardinality(listeners') = d - 1
    BY <1>6, FS_RemoveElement DEF HandleUserCreated, Finite
  <1>7. ASSUME NEW f \in inserting, InsertRefused(f) \/ \E i \in Ids : Insert(f, i)
        PROVE  /\ inserting' = inserting \ {f} /\ saving' = saving /\ listeners' = listeners
               /\ emitting' = emitting \/ \E x : emitting' = emitting \union {x}
    BY <1>7 DEF InsertRefused, Insert, PutRow
  <1>8. ASSUME NEW f \in saving, Flush(f) \/ FlushRefused(f)
        PROVE  /\ saving' = saving \ {f} /\ inserting' = inserting /\ listeners' = listeners
               /\ emitting' = emitting \/ \E x : emitting' = emitting \union {x}
    <2>1. CASE FlushRefused(f)
      BY <2>1 DEF FlushRefused
    <2>2. CASE Flush(f)
      <3> DEFINE ended(e) == [request |-> f.request, event |-> e, user |-> f.user,
                              hasWallet |-> f.hasWallet]
      <3>1. /\ saving' = saving \ {f} /\ inserting' = inserting /\ listeners' = listeners
            /\ emitting' = emitting \union {ended(e) : e \in {f.event} \ {"none"}}
        BY <2>2 DEF Flush
      <3> HIDE DEF ended
      <3>2. CASE f.event = "none"
        BY <3>1, <3>2
      <3>3. CASE f.event # "none"
        <4>1. {ended(e) : e \in {f.event} \ {"none"}} = {ended(f.event)}
          BY <3>3
        <4>2. QED
          BY <3>1, <4>1
      <3>4. QED
        BY <3>2, <3>3
    <2>3. QED
      BY <1>8, <2>1, <2>2
  <1> HIDE DEF a, b, c, d
  <1>9. QED
    <2>1. ASSUME NEW f \in inserting, InsertRefused(f) \/ \E i \in Ids : Insert(f, i)
          PROVE  /\ Finite'
                 /\ Cardinality(inserting') = a - 1 /\ Cardinality(saving') = b
                 /\ Cardinality(emitting') \in {c, c + 1} /\ Cardinality(listeners') = d
      BY <1>3, <1>7, <2>1
    <2>2. ASSUME NEW f \in saving, Flush(f) \/ FlushRefused(f)
          PROVE  /\ Finite'
                 /\ Cardinality(inserting') = a /\ Cardinality(saving') = b - 1
                 /\ Cardinality(emitting') \in {c, c + 1} /\ Cardinality(listeners') = d
      BY <1>4, <1>8, <2>2
    <2>3. Finite'
      BY <1>5, <1>6, <2>1, <2>2 DEF Works
    <2>4. /\ Cardinality(inserting') \in Nat /\ Cardinality(saving') \in Nat
          /\ Cardinality(emitting') \in Nat /\ Cardinality(listeners') \in Nat
      BY <2>3, FS_CardinalityType DEF Finite
    <2>5. 3 * Cardinality(inserting') + 3 * Cardinality(saving') + 2 * Cardinality(emitting')
              + Cardinality(listeners') < 3 * a + 3 * b + 2 * c + d
      <3>1. CASE \E f \in inserting : InsertRefused(f) \/ \E i \in Ids : Insert(f, i)
        BY <1>1, <2>1, <2>4, <3>1
      <3>2. CASE \E f \in saving : Flush(f) \/ FlushRefused(f)
        BY <1>1, <2>2, <2>4, <3>2
      <3>3. CASE \E f \in emitting : Emit(f)
        BY <1>1, <1>5, <2>4, <3>3
      <3>4. CASE \E e \in listeners : HandleUserCreated(e)
        BY <1>1, <1>6, <2>4, <3>4
      <3>5. QED
        BY <3>1, <3>2, <3>3, <3>4 DEF Works
    <2>6. QED
      BY <2>3, <2>4, <2>5

\* A step that is none of Works adds to the sets only when a client makes a request.
LEMMA OthersCount ==
    ASSUME Finite, Clients \/ Faults \/ UNCHANGED vars
               \/ (\E uid \in Uids, email \in Emails : ChangeEmail(uid, email)),
           requests \in Nat
    PROVE  Finite' /\ (requests' > requests \/ ~ (StepsLeft' > StepsLeft))
  <1>1. ASSUME inserting' \subseteq inserting, saving' \subseteq saving,
               emitting' \subseteq emitting, listeners' \subseteq listeners
        PROVE  Finite' /\ ~ (StepsLeft' > StepsLeft)
    <2>1. Finite'
      BY <1>1, FS_Subset DEF Finite
    <2>2. /\ Cardinality(inserting') <= Cardinality(inserting)
          /\ Cardinality(saving') <= Cardinality(saving)
          /\ Cardinality(emitting') <= Cardinality(emitting)
          /\ Cardinality(listeners') <= Cardinality(listeners)
      BY <1>1, FS_Subset DEF Finite
    <2>3. /\ Cardinality(inserting) \in Nat /\ Cardinality(inserting') \in Nat
          /\ Cardinality(saving) \in Nat /\ Cardinality(saving') \in Nat
          /\ Cardinality(emitting) \in Nat /\ Cardinality(emitting') \in Nat
          /\ Cardinality(listeners) \in Nat /\ Cardinality(listeners') \in Nat
      BY <2>1, FS_CardinalityType DEF Finite
    <2>4. QED
      BY <2>1, <2>2, <2>3 DEF StepsLeft
  <1>2. CASE Faults \/ UNCHANGED vars \/ \E uid \in Uids, email \in Emails : ChangeEmail(uid, email)
    <2>1. CASE Faults
      BY <1>1, <2>1 DEF Faults, RequestFails, ListenerFails, Crash
    <2>2. CASE \E uid \in Uids, email \in Emails : ChangeEmail(uid, email)
      BY <1>1, <2>2 DEF ChangeEmail, memory
    <2>3. CASE UNCHANGED vars
      BY <1>1, <2>3 DEF vars
    <2>4. QED
      BY <1>2, <2>1, <2>2, <2>3
  <1>3. ASSUME NEW q \in Requests, NEW row, NEW signsUp, Ask(q), ToInsert(q, row, signsUp)
        PROVE  Finite' /\ requests' > requests
    <2>1. PICK new : inserting' = inserting \union {new}
      BY <1>3 DEF ToInsert
    <2>2. saving' = saving /\ emitting' = emitting /\ listeners' = listeners
          /\ requests' = requests + 1
      BY <1>3 DEF Ask, ToInsert
    <2>3. IsFiniteSet(inserting')
      BY <2>1, FS_AddElement DEF Finite
    <2>4. QED
      BY <2>2, <2>3 DEF Finite
  <1>4. ASSUME NEW q \in Requests, NEW i, NEW want, NEW event, Find(q, i, want, event)
        PROVE  Finite' /\ requests' > requests
    <2> DEFINE X == [g \in saving |-> IF g.user = i THEN DOMAIN g.want \intersect DOMAIN want ELSE {}]
    <2>1. PICK new : saving' = {[g EXCEPT !.contested = @ \union X[g]] : g \in saving} \union {new}
      BY <1>4 DEF Find
    <2> HIDE DEF X
    <2>2. IsFiniteSet(saving')
      <3>1. IsFiniteSet(saving) /\ IsFiniteSet({new})
        BY FS_Singleton DEF Finite
      <3>2. QED
        BY <2>1, <3>1, NotedAreFinite
    <2>3. inserting' = inserting /\ emitting' = emitting /\ listeners' = listeners
          /\ requests' = requests + 1
      BY <1>4 DEF Find, Ask
    <2>4. QED
      BY <2>2, <2>3 DEF Finite
  <1>5. ASSUME NEW i \in Ids, NEW status \in Statuses, UpdateStatus(i, status)
        PROVE  Finite' /\ requests' > requests
    <2> DEFINE X == [g \in saving |-> IF g.user = i THEN DOMAIN g.want \intersect {"status"} ELSE {}]
    <2>1. saving' = {[g EXCEPT !.contested = @ \union X[g]] : g \in saving} \union {}
      BY <1>5 DEF UpdateStatus
    <2>2. IsFiniteSet(saving')
      BY <2>1, NotedAreFinite, FS_EmptySet DEF Finite
    <2>3. inserting' = inserting /\ emitting' = emitting /\ listeners' = listeners
          /\ requests' = requests + 1
      BY <1>5 DEF UpdateStatus
    <2>4. QED
      BY <2>2, <2>3 DEF Finite
  <1>6. CASE Clients
    BY <1>3, <1>4, <1>5, <1>6 DEF Clients, SignIns, UserRoutes, ProfileRoute, AdminRoutes,
       Authenticate, CreateUser, CreateAdmin, SetUserRole, SaveProfile, SaveExternalAuthUser
  <1>7. QED
    BY <1>2, <1>6

\* What goes on by itself comes to an end: each step of it brings the requests and events in
\* memory nearer to theirs, and only a client's request brings more of them.
THEOREM WorkRunsOut ==
    Spec => [][/\ Works => StepsLeft' < StepsLeft
               /\ StepsLeft' > StepsLeft => requests' > requests]_vars
  <1> DEFINE Step == /\ Works => StepsLeft' < StepsLeft
                     /\ StepsLeft' > StepsLeft => requests' > requests
  <1>1. Init => Finite
    BY InitFinite
  <1>2. IInv /\ Finite /\ [Next]_vars => Finite' /\ [Step]_vars
    <2> SUFFICES ASSUME IInv, Finite, [Next]_vars PROVE Finite' /\ [Step]_vars
      OBVIOUS
    <2>1. requests \in Nat
      BY DEF IInv, Types, TypeOK
    <2>2. CASE Works
      <3>1. Finite' /\ StepsLeft \in Nat /\ StepsLeft' \in Nat /\ StepsLeft' < StepsLeft
        BY <2>2, WorksCounts
      <3>2. ~ (StepsLeft' > StepsLeft)
        BY <3>1
      <3>3. QED
        BY <3>1, <3>2
    <2>3. CASE ~Works
      <3>1. Finite' /\ (requests' > requests \/ ~ (StepsLeft' > StepsLeft))
        BY <2>1, <2>3, OthersCount DEF Next
      <3>2. QED
        BY <2>3, <3>1
    <2>4. QED
      BY <2>2, <2>3
  <1>3. QED
    BY <1>1, <1>2, Invariance, PTL DEF Spec
=============================================================================
