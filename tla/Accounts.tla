------------------------------ MODULE Accounts ------------------------------
(***************************************************************************)
(* The user table: who gets a row (AuthService.authenticate, POST /users,  *)
(* POST /admin/users), who writes which of its columns (saveProfile,       *)
(* setRole, updateStatus, setupFirebaseUser), and how the wallet of a user *)
(* comes to be (the USER_CREATED and FIREBASE_USER_SETUP listeners).       *)
(*                                                                         *)
(* A request finds a row, awaits, and flushes the columns that differ from *)
(* what it has found; updateStatus is one UPDATE.  Events live in memory.  *)
(* A Firebase account has an email there, which its owner may change: the  *)
(* row is found by email at sign-in, by the account's id at setup.  A      *)
(* sign-in's token carries both from Firebase; the bodies of POST /users   *)
(* and of a setup may name any account, or none, beside any email.         *)
(*                                                                         *)
(* Abstracted: avatar, sex, date of birth, role title and password; the    *)
(* phone columns (PhoneVerification); tokens and what they claim, which no *)
(* route looks at; the name a row is created with, one for all.            *)
(***************************************************************************)
EXTENDS Integers, FiniteSets

CONSTANTS Uids,        \* Firebase accounts
          Emails,
          FirstEmail,  \* the email each account starts with
          Bodies,      \* <<account or Null, email>> as bodies of POST /users and setups name them
          Given,       \* the first and the last name of a new row
          FullNames,   \* [first, last] of the requests that set both
          Statuses, Roles,
          Slots,       \* how many HTTP requests run at the same time
          Null,
          MaxUsers,    \* bound: rows
          MaxRequests, \* bound: requests
          MaxUpsets    \* bound: crashes, database errors, and changes of an account's email

ASSUME EachItsOwnEmail ==
    /\ FirstEmail \in [Uids -> Emails]
    /\ \A u, v \in Uids : FirstEmail[u] = FirstEmail[v] => u = v
ASSUME BodiesNameAccounts == Bodies \subseteq (Uids \union {Null}) \X Emails
ASSUME ActiveIsAStatus == "active" \in Statuses
ASSUME SubscriberIsARole == "SUBSCRIBER" \in Roles
ASSUME NullIsNoUid == Null \notin Uids
ASSUME BoundsAreNat == MaxRequests \in Nat /\ MaxUpsets \in Nat

Ids == 1..MaxUsers    \* rows are numbered as they are inserted
Requests == 1..Slots  \* a request takes the first slot that is free
Columns == {"email", "first", "last", "status", "role", "kyc"}   \* those requests write

VARIABLES users,      \* the rows, by id; kyc: has a kyc row
          wallet,     \* [Ids -> "none", or the event that opened it]
          emailOf,    \* external: the email Firebase has for an account
          inserting,  \* requests about to insert a row
          saving,     \* requests that have found a row and are to flush it
          emitting,   \* requests that have flushed and are to emit their event
          listeners,  \* events whose listener is to run
          requests, upsets,
          admins,     \* history: rows made by createAdmin
          parted,     \* history: accounts whose email has changed, or that a body contradicted
          lost,       \* history: users of whom a fault took an event or its listener
          asked,      \* history: rows as the requests, each applied whole, make them
          astray      \* history: <<id, column>> last written by one of two requests at once

NoUser == [email |-> Null]
vars == <<users, wallet, emailOf, inserting, saving, emitting, listeners,
          requests, upsets, admins, parted, lost, asked, astray>>
memory == <<inserting, saving, emitting, listeners>>
history == <<admins, parted, lost, asked, astray>>
bounds == <<requests, upsets>>

Row == [email : Emails, firebaseId : Uids \union {Null}, first : {Given} \union {n.first : n \in FullNames},
        last : {Given} \union {n.last : n \in FullNames}, status : Statuses, role : Roles, kyc : BOOLEAN]

Created == {i \in Ids : users[i] # NoUser}
FindOneByEmail(email) == {i \in Created : users[i].email = email}
Taken == {users[i].email : i \in Created}
Busy == {f.request : f \in inserting \union saving \union emitting}

NewRow(email, uid, status, role) ==
    [email |-> email, firebaseId |-> uid, first |-> Given, last |-> Given,
     status |-> status, role |-> role, kyc |-> FALSE]
-----------------------------------------------------------------------------
Init ==
    /\ users = [i \in Ids |-> NoUser]
    /\ wallet = [i \in Ids |-> "none"]
    /\ emailOf = FirstEmail
    /\ inserting = {} /\ saving = {} /\ emitting = {} /\ listeners = {}
    /\ requests = 0 /\ upsets = 0
    /\ admins = {} /\ parted = {} /\ lost = {}
    /\ asked = users
    /\ astray = {}

Ask(q) ==
    /\ q \notin Busy /\ 1..(q - 1) \subseteq Busy
    /\ requests < MaxRequests
    /\ requests' = requests + 1
    /\ UNCHANGED <<users, wallet, emailOf, listeners, upsets, admins, lost, asked, astray>>

\* Accounts that a body gives an email that is not theirs, or whose email it gives another.
Contradicted(uid, email) ==
    {v \in Uids : uid # Null /\ (v = uid) # (email = emailOf[v])}

\* A request goes on to insert a row; signsUp: it is a subscriber's (createSubscriber).
ToInsert(q, row, signsUp) ==
    /\ inserting' = inserting \union {[request |-> q, row |-> row, signsUp |-> signsUp]}
    /\ UNCHANGED <<saving, emitting>>

\* authenticate: findOneByEmail has found nobody.  Whoever it finds it only reads.
Authenticate(q, uid) ==
    /\ Ask(q)
    /\ FindOneByEmail(emailOf[uid]) = {}
    /\ ToInsert(q, NewRow(emailOf[uid], uid, "active", "SUBSCRIBER"), TRUE)
    /\ UNCHANGED parted

\* POST /users: UsersService.create, with or without a Firebase account; nothing compares
\* the account and the email that the body names.
CreateUser(q, email, uid, status) ==
    /\ Ask(q)
    /\ ToInsert(q, NewRow(email, uid, status, "SUBSCRIBER"), TRUE)
    /\ parted' = parted \union Contradicted(uid, email)

\* POST /admin/users: UserRepository.createAdmin.
CreateAdmin(q, email, status, role) ==
    /\ Ask(q)
    /\ ToInsert(q, NewRow(email, Null, status, role), FALSE)
    /\ UNCHANGED parted

\* persistAndFlush inserts the row; a sign-up is still to emit USER_CREATED.
PutRow(f, i) ==
    /\ i \notin Created /\ 1..(i - 1) \subseteq Created
    /\ users' = [users EXCEPT ![i] = f.row]
    /\ asked' = [asked EXCEPT ![i] = f.row]
    /\ inserting' = inserting \ {f}
    /\ IF f.signsUp
         THEN /\ emitting' = emitting \union {[request |-> f.request, event |-> "USER_CREATED",
                                              user |-> i, hasWallet |-> FALSE]}
              /\ UNCHANGED admins
         ELSE admins' = admins \union {i} /\ UNCHANGED emitting
    /\ UNCHANGED <<wallet, emailOf, saving, listeners, bounds, parted, lost, astray>>

\* Mutation: no unique index on email.
InsertDuplicate(f, i) == PutRow(f, i)

\* The unique index on email lets the row in.
Insert(f, i) == f.row.email \notin Taken /\ PutRow(f, i)

\* The unique index on email refuses the row, and the request answers an error.
InsertRefused(f) ==
    /\ f.row.email \in Taken
    /\ inserting' = inserting \ {f}
    /\ UNCHANGED <<users, wallet, emailOf, saving, emitting, listeners, bounds, history>>
-----------------------------------------------------------------------------
\* A request has found row i and means to set the columns of `want`.  Two requests in
\* flight that share a column contest it.
Find(q, i, want, event) ==
    LET shared(g) == IF g.user = i THEN DOMAIN g.want \intersect DOMAIN want ELSE {}
    IN  /\ Ask(q)
        /\ saving' = {[g EXCEPT !.contested = @ \union shared(g)] : g \in saving} \union
                     {[request |-> q, user |-> i, want |-> want, event |-> event,
                       found |-> [c \in DOMAIN want |-> users[i][c]],
                       hasWallet |-> wallet[i] # "none",
                       contested |-> UNION {shared(g) : g \in saving}]}
        /\ UNCHANGED <<inserting, emitting>>

\* saveProfile also makes the user ACTIVE, and gives a kyc row to one that has none.
SaveProfile(q, i, name) ==
    /\ i \in Created
    /\ Find(q, i, [first |-> name.first, last |-> name.last, status |-> "active", kyc |-> TRUE], "none")
    /\ UNCHANGED parted

SetUserRole(q, i, role) ==
    i \in Created /\ Find(q, i, [role |-> role], "none") /\ UNCHANGED parted

\* saveExternalAuthUser looks for the body's id, and finds any of the rows that have it;
\* a body without one finds a row without account.  If it finds nobody it creates a user
\* without role and status, which never passes the flush.
SaveExternalAuthUser(q, uid, email, i, name) ==
    /\ i \in Created /\ users[i].firebaseId = uid
    /\ Find(q, i, [first |-> name.first, last |-> name.last, email |-> email],
            "FIREBASE_USER_SETUP")
    /\ parted' = parted \union Contradicted(uid, email)

Dirty(f) == {c \in DOMAIN f.want : f.want[c] # f.found[c]}

\* What the unique indexes on user.email and kyc.user_id refuse.
Refused(f) ==
    \/ "email" \in Dirty(f) /\ \E j \in Created \ {f.user} : users[j].email = f.want.email
    \/ "kyc" \in Dirty(f) /\ users[f.user].kyc

\* persistAndFlush writes the columns that differ from what was found.
Flush(f) ==
    /\ ~Refused(f)
    /\ users' = [users EXCEPT ![f.user] =
                    [c \in DOMAIN @ |-> IF c \in Dirty(f) THEN f.want[c] ELSE @[c]]]
    /\ asked' = [asked EXCEPT ![f.user] =
                    [c \in DOMAIN @ |-> IF c \in DOMAIN f.want THEN f.want[c] ELSE @[c]]]
    /\ astray' = (astray \ {<<f.user, c>> : c \in DOMAIN f.want})
                     \union {<<f.user, c>> : c \in f.contested}
    /\ saving' = saving \ {f}
    /\ emitting' = emitting \union
                     {[request |-> f.request, event |-> e, user |-> f.user,
                       hasWallet |-> f.hasWallet] : e \in {f.event} \ {"none"}}
    /\ UNCHANGED <<wallet, emailOf, inserting, listeners, bounds, admins, parted, lost>>

\* Mutation: the statements of a flush are no transaction, and what is not refused is written.
FlushInPart(f) ==
    /\ Refused(f)
    /\ users' = [users EXCEPT ![f.user] =
                    [c \in DOMAIN @ |-> IF c \in Dirty(f) \ {"email", "kyc"} THEN f.want[c] ELSE @[c]]]
    /\ saving' = saving \ {f}
    /\ UNCHANGED <<wallet, emailOf, inserting, emitting, listeners, bounds, history>>

\* An index refuses, and nothing is written.
FlushRefused(f) ==
    /\ Refused(f)
    /\ saving' = saving \ {f}
    /\ UNCHANGED <<users, wallet, emailOf, inserting, emitting, listeners, bounds, history>>

\* updateStatus: one UPDATE, without finding the row first.
UpdateStatus(i, status) ==
    /\ i \in Created /\ requests < MaxRequests
    /\ requests' = requests + 1
    /\ users' = [users EXCEPT ![i].status = status]
    /\ asked' = [asked EXCEPT ![i].status = status]
    /\ astray' = astray \ {<<i, "status">>}
    /\ saving' = {[g EXCEPT !.contested = @ \union
                       (IF g.user = i THEN DOMAIN g.want \intersect {"status"} ELSE {})] : g \in saving}
    /\ UNCHANGED <<wallet, emailOf, inserting, emitting, listeners, upsets, admins, parted, lost>>
-----------------------------------------------------------------------------
\* Mutation: an event that comes while another is to be handled is dropped.
EmitOne(f) ==
    /\ emitting' = emitting \ {f}
    /\ listeners' = IF listeners = {}
                      THEN {[event |-> f.event, user |-> f.user, hasWallet |-> f.hasWallet]}
                      ELSE listeners
    /\ lost' = IF f.hasWallet THEN lost ELSE lost \ {f.user}
    /\ UNCHANGED <<users, wallet, emailOf, inserting, saving, bounds, admins, parted, asked, astray>>

\* The request emits its event, and ends.
Emit(f) ==
    /\ emitting' = emitting \ {f}
    /\ listeners' = listeners \union {[event |-> f.event, user |-> f.user, hasWallet |-> f.hasWallet]}
    /\ lost' = IF f.hasWallet THEN lost ELSE lost \ {f.user}
    /\ UNCHANGED <<users, wallet, emailOf, inserting, saving, bounds, admins, parted, asked, astray>>

\* Mutation: the listeners look at hasWallet the wrong way round.
HandleInverted(e) ==
    /\ listeners' = listeners \ {e}
    /\ wallet' = [wallet EXCEPT ![e.user] = IF ~e.hasWallet \/ @ # "none" THEN @ ELSE e.event]
    /\ UNCHANGED <<users, emailOf, inserting, saving, emitting, bounds, history>>

\* handleUserCreated of both listeners; FIREBASE_USER_SETUP's returns at once if the user had
\* a wallet when it was found.  The unique index on wallet.user_id refuses a second wallet.
HandleUserCreated(e) ==
    /\ listeners' = listeners \ {e}
    /\ wallet' = [wallet EXCEPT ![e.user] = IF e.hasWallet \/ @ # "none" THEN @ ELSE e.event]
    /\ UNCHANGED <<users, emailOf, inserting, saving, emitting, bounds, history>>
-----------------------------------------------------------------------------
Upset == upsets < MaxUpsets /\ upsets' = upsets + 1

\* External: the owner of an account changes its email, to one no other account has.
ChangeEmail(uid, email) ==
    /\ Upset
    /\ \A v \in Uids : emailOf[v] # email
    /\ emailOf' = [emailOf EXCEPT ![uid] = email]
    /\ parted' = parted \union {uid}
    /\ UNCHANGED <<users, wallet, memory, requests, admins, lost, asked, astray>>

\* A database error ends a request before its flush, or when it populates the wallet of the
\* row it has inserted.
RequestFails(f) ==
    /\ Upset
    /\ inserting' = inserting \ {f}
    /\ saving' = saving \ {f}
    /\ emitting' = emitting \ {f}
    /\ f \in emitting => f.event = "USER_CREATED"
    /\ lost' = IF f \in emitting THEN lost \union {f.user} ELSE lost
    /\ UNCHANGED <<users, wallet, emailOf, listeners, requests, admins, parted, asked, astray>>

\* A listener's insert fails; the event emitter logs it.
ListenerFails(e) ==
    /\ Upset
    /\ listeners' = listeners \ {e}
    /\ lost' = lost \union {e.user}
    /\ UNCHANGED <<users, wallet, emailOf, inserting, saving, emitting, requests,
                   admins, parted, asked, astray>>

\* The process stops: requests and events are gone, the tables stay.
Crash ==
    /\ Upset
    /\ inserting' = {} /\ saving' = {} /\ emitting' = {} /\ listeners' = {}
    /\ lost' = lost \union {f.user : f \in emitting \union listeners}
    /\ UNCHANGED <<users, wallet, emailOf, requests, admins, parted, asked, astray>>

\* The routes: POST /auth/authenticate;
SignIns == \E q \in Requests, uid \in Uids : Authenticate(q, uid)

\* POST /users, PATCH /users/:id/role and POST /users/setup/firebase/user;
UserRoutes ==
    \E q \in Requests :
        \/ \E body \in Bodies, status \in Statuses : CreateUser(q, body[2], body[1], status)
        \/ \E i \in Ids, role \in Roles : SetUserRole(q, i, role)
        \/ \E body \in Bodies, i \in Ids, name \in FullNames :
               SaveExternalAuthUser(q, body[1], body[2], i, name)

\* PATCH /kyc/create/profile;
ProfileRoute ==
    \E q \in Requests, i \in Ids, name \in FullNames : SaveProfile(q, i, name)

\* POST /admin/users and PATCH /admin/users/:id/status/update.
AdminRoutes ==
    \/ \E q \in Requests, email \in Emails, status \in Statuses, role \in Roles :
           CreateAdmin(q, email, status, role)
    \/ \E i \in Ids, status \in Statuses : UpdateStatus(i, status)

Clients == SignIns \/ UserRoutes \/ ProfileRoute \/ AdminRoutes

\* What goes on by itself once a request has begun.
Works ==
    \/ \E f \in inserting : InsertRefused(f) \/ \E i \in Ids : Insert(f, i)
    \/ \E f \in saving : Flush(f) \/ FlushRefused(f)
    \/ \E f \in emitting : Emit(f)
    \/ \E e \in listeners : HandleUserCreated(e)

Faults ==
    \/ \E f \in inserting \union saving \union emitting : RequestFails(f)
    \/ \E e \in listeners : ListenerFails(e)
    \/ Crash

Next ==
    \/ Clients
    \/ Works
    \/ Faults
    \/ \E uid \in Uids, email \in Emails : ChangeEmail(uid, email)

Spec == Init /\ [][Next]_vars /\ WF_vars(Works)
-----------------------------------------------------------------------------
TypeOK ==
    /\ users \in [Ids -> Row \union {NoUser}]
    /\ wallet \in [Ids -> {"none", "USER_CREATED", "FIREBASE_USER_SETUP"}]
    /\ emailOf \in [Uids -> Emails]
    /\ inserting \subseteq [request : Requests, row : Row, signsUp : BOOLEAN]
    /\ \A f \in saving :
           /\ f.user \in Created /\ f.contested \subseteq DOMAIN f.want
           /\ DOMAIN f.want \subseteq Columns /\ DOMAIN f.found = DOMAIN f.want
    /\ emitting \subseteq [request : Requests, event : {"USER_CREATED", "FIREBASE_USER_SETUP"},
                           user : Created, hasWallet : BOOLEAN]
    /\ listeners \subseteq [event : {"USER_CREATED", "FIREBASE_USER_SETUP"},
                            user : Created, hasWallet : BOOLEAN]
    /\ admins \subseteq Created /\ lost \subseteq Created /\ parted \subseteq Uids
    /\ asked \in [Ids -> Row \union {NoUser}]
    /\ astray \subseteq Ids \X Columns
    /\ requests \in 0..MaxRequests /\ upsets \in 0..MaxUpsets

\* As long as a Firebase account keeps its email and no body contradicts the two, the rows
\* with the one are the rows with the other (an email may also be in a row without account),
\* and there is one at most: the row that authenticate finds by email and setup by id is the
\* same, whatever sign-ins at the same time, admins and bodies about other accounts do.
AccountKeepsItsRow ==
    \A uid \in Uids \ parted, i, j \in Created :
        /\ users[i].firebaseId = uid => users[i].email = emailOf[uid]
        /\ users[i].email = emailOf[uid] => users[i].firebaseId \in {uid, Null}
        /\ users[i].firebaseId = uid /\ users[j].firebaseId = uid => i = j

\* Who has signed up has a wallet, or something in memory is about to open it, or a fault
\* took that from memory; who was made an admin gets none, whatever the role becomes,
\* unless a setup that names no account finds that row.
WalletsFollowSignUps ==
    \A i \in Created :
        /\ i \in admins => wallet[i] # "USER_CREATED"
        /\ i \notin admins /\ wallet[i] = "none" =>
               \/ i \in lost
               \/ \E f \in emitting \union listeners : f.user = i /\ ~f.hasWallet

\* Requests that do not write the same column at the same time do not disturb each other:
\* every column is what the last request to flush it asked for, unless another request
\* for that very column was in flight with it.
ColumnsAreSerial ==
    \A i \in Created, c \in Columns :
        users[i][c] = asked[i][c] \/ <<i, c>> \in astray

\* Who signs up gets a wallet, except when a fault takes the event from memory; a later
\* setup of the Firebase account makes that good, with the same exception.
WalletOpens ==
    \A i \in Ids : (i \in Created \ admins) ~> (wallet[i] # "none" \/ i \in lost)
=============================================================================
