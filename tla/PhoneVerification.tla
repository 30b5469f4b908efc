-------------------------- MODULE PhoneVerification --------------------------
(***************************************************************************)
(* Phone numbers and their one-time codes: PhoneVerificationService over   *)
(* UserRepository (savePhone, markPhoneAsVerified), OtpService and its     *)
(* cache, and the provider Arkesel, which holds the codes.                 *)
(*                                                                         *)
(* Saving a number finds the user, flushes, and sends a code for the       *)
(* number it holds in memory.  Verifying reads the number, looks the user  *)
(* up in the cache, asks Arkesel about the number it has read, clears the  *)
(* cache and marks the user row, whatever number that row has by then.     *)
(* Every one of these is an await at which other requests of the user run. *)
(*                                                                         *)
(* Abstracted: a code is known by the number it was sent to; what the      *)
(* cache entry says, which is never compared with anything; how long codes *)
(* and entries live.                                                       *)
(***************************************************************************)
EXTENDS Integers, FiniteSets

CONSTANTS Users, Phones,
          NoPhone,    \* the null of user.phone
          Requests    \* slots for HTTP requests that run at the same time

ASSUME NullIsNoPhone == NoPhone \notin Phones

VARIABLES phone,      \* column user.phone
          verified,   \* column user.phone_verified_at is not null
          cached,     \* users with an entry notifications:otp:<id> in the cache
          codes,      \* numbers for which Arkesel holds a code
          calls,      \* requests in progress
          confirmed,  \* history: numbers of a user that Arkesel confirmed since the last save
          raced,      \* history: users whose last write overlapped one of the other kind
          spent,      \* history: users whose last code was accepted
          kept        \* history: users of whom an accepted verification was lost before
                      \* it deleted the entry, and none has deleted it since

vars == <<phone, verified, cached, codes, calls, confirmed, raced, spent, kept>>
row == <<phone, verified>>
history == <<confirmed, raced, spent, kept>>

\* A request: the number it is about, what a save has read of the row it will change,
\* and the kinds of writing requests of the same user that ran beside it.
Call == [request : Requests, user : Users, kind : {"save", "send", "verify"},
         at : {"save", "generate", "cache", "lookup", "confirm", "forget", "mark"},
         read : Phones \union {NoPhone}, wasVerified : BOOLEAN,
         phone : Phones \union {NoPhone}, beside : SUBSET {"save", "verify"}]

Sending(q, u, p) ==
    [request |-> q, user |-> u, kind |-> "send", at |-> "generate", read |-> NoPhone,
     wasVerified |-> FALSE, phone |-> p, beside |-> {}]

\* Saves before their flush, and verifications, of the same user.
Writers(u) == {f \in calls : f.user = u /\ f.kind # "send"}

\* Request f starts; a writing one and those it meets are noted beside each other.
Start(f) ==
    LET met == IF f.kind = "send" THEN {} ELSE Writers(f.user)
    IN  /\ f.request \notin {g.request : g \in calls}
        /\ calls' = (calls \ met) \union {[g EXCEPT !.beside = @ \union {f.kind}] : g \in met}
                     \union {[f EXCEPT !.beside = {g.kind : g \in met}]}
        /\ UNCHANGED <<row, cached, codes, history>>

GoesOn(f, at) == calls' = (calls \ {f}) \union {[f EXCEPT !.at = at]}
Ends(f) == calls' = calls \ {f}
-----------------------------------------------------------------------------
Init ==
    /\ phone = [u \in Users |-> NoPhone]
    /\ verified = [u \in Users |-> FALSE]
    /\ cached = {} /\ codes = {} /\ calls = {}
    /\ confirmed = [u \in Users |-> {}]
    /\ raced = {} /\ spent = {} /\ kept = {}

\* savePhone finds the user.
FindUser(q, u, p) ==
    Start([Sending(q, u, p) EXCEPT !.kind = "save", !.at = "save", !.read = phone[u],
                                   !.wasVerified = verified[u]])

\* Mutation: the number alone is assigned.
SavePhoneKeepsMark(f) ==
    /\ f.at = "save"
    /\ phone' = [phone EXCEPT ![f.user] = IF f.phone = f.read THEN @ ELSE f.phone]
    /\ confirmed' = [confirmed EXCEPT ![f.user] = {}]
    /\ raced' = IF "verify" \in f.beside THEN raced \union {f.user} ELSE raced \ {f.user}
    /\ calls' = (calls \ {f}) \union {Sending(f.request, f.user, f.phone)}
    /\ UNCHANGED <<verified, cached, codes, spent, kept>>

\* It assigns the number and phoneVerifiedAt: null, and flushes the columns that
\* differ from what it has read.  Then the request sends a code to the number it holds.
SavePhone(f) ==
    /\ f.at = "save"
    /\ phone' = [phone EXCEPT ![f.user] = IF f.phone = f.read THEN @ ELSE f.phone]
    /\ verified' = [verified EXCEPT ![f.user] = @ /\ ~f.wasVerified]
    /\ confirmed' = [confirmed EXCEPT ![f.user] = {}]
    /\ raced' = IF "verify" \in f.beside THEN raced \union {f.user} ELSE raced \ {f.user}
    /\ calls' = (calls \ {f}) \union {Sending(f.request, f.user, f.phone)}
    /\ UNCHANGED <<cached, codes, spent, kept>>

\* sendVerificationCode reads the number; after savePhone it is the one in memory.
ReadPhone(q, u) == Start(Sending(q, u, phone[u]))

\* Arkesel sends a code.
GenerateCode(f) ==
    /\ f.at = "generate" /\ f.phone # NoPhone
    /\ codes' = codes \union {f.phone}
    /\ GoesOn(f, "cache")
    /\ UNCHANGED <<row, cached, history>>

\* generate answers success: false: Arkesel refuses, a null number always.
\* 'failed to send verification code'.
GenerateFails(f) ==
    /\ f.at = "generate"
    /\ Ends(f)
    /\ UNCHANGED <<row, cached, codes, history>>

\* generateOtpForUser notes the code in the cache.
CacheCode(f) ==
    /\ f.at = "cache"
    /\ cached' = cached \union {f.user}
    /\ spent' = spent \ {f.user} /\ kept' = kept \ {f.user}
    /\ Ends(f)
    /\ UNCHANGED <<row, codes, confirmed, raced>>
-----------------------------------------------------------------------------
\* verifyVerificationCode reads the user's number.
StartVerify(q, u) ==
    Start([Sending(q, u, phone[u]) EXCEPT !.kind = "verify", !.at = "lookup"])

\* verifyOtpForUser finds an entry for the user in the cache.
LookUpCode(f) ==
    /\ f.at = "lookup" /\ f.user \in cached
    /\ GoesOn(f, "confirm")
    /\ UNCHANGED <<row, cached, codes, history>>

\* Arkesel accepts the code for the number that was read.  Whether it keeps
\* the code is Expire.
ConfirmCode(f) ==
    /\ f.at = "confirm" /\ f.phone \in codes
    /\ confirmed' = [confirmed EXCEPT ![f.user] = @ \union {f.phone}]
    /\ spent' = spent \union {f.user}
    /\ GoesOn(f, "forget")
    /\ UNCHANGED <<row, cached, codes, raced, kept>>

\* The entry is not there, or the code is wrong: 'invalid verification code'.
RefuseCode(f) ==
    /\ f.at = "confirm" \/ (f.at = "lookup" /\ f.user \notin cached)
    /\ Ends(f)
    /\ UNCHANGED <<row, cached, codes, history>>

\* Mutation: the entry is left to its ten minutes.
LeaveCode(f) ==
    /\ f.at = "forget"
    /\ GoesOn(f, "mark")
    /\ UNCHANGED <<row, cached, codes, history>>

\* The entry is deleted.
ForgetCode(f) ==
    /\ f.at = "forget"
    /\ cached' = cached \ {f.user}
    /\ kept' = kept \ {f.user}
    /\ GoesOn(f, "mark")
    /\ UNCHANGED <<row, codes, confirmed, raced, spent>>

\* markPhoneAsVerified assigns the date to the user it has in memory and flushes that
\* one column.
MarkVerified(f) ==
    /\ f.at = "mark"
    /\ verified' = [verified EXCEPT ![f.user] = TRUE]
    /\ raced' = IF "save" \in f.beside THEN raced \union {f.user} ELSE raced \ {f.user}
    /\ Ends(f)
    /\ UNCHANGED <<phone, cached, codes, confirmed, spent, kept>>
-----------------------------------------------------------------------------
\* The entry's ten minutes are over; or Arkesel drops a code, used or not.
Expire ==
    /\ \/ \E u \in cached : cached' = cached \ {u} /\ UNCHANGED codes
       \/ \E p \in codes : codes' = codes \ {p} /\ UNCHANGED cached
    /\ UNCHANGED <<row, calls, history>>

\* An error of the database or the cache, or the process stops: among others after
\* Arkesel has accepted a code, with the entry still there.
CallLost(f) ==
    /\ Ends(f)
    /\ kept' = IF f.at = "forget" /\ f.user \in cached THEN kept \union {f.user} ELSE kept
    /\ UNCHANGED <<row, cached, codes, confirmed, raced, spent>>

\* PATCH kyc/profile/phone; it goes on to send a code.
Saves == \/ \E q \in Requests, u \in Users, p \in Phones : FindUser(q, u, p)
         \/ \E f \in calls : SavePhone(f)

\* GET kyc/phone/verification/code/send.
Sends == \/ \E q \in Requests, u \in Users : ReadPhone(q, u)
         \/ \E f \in calls : GenerateCode(f) \/ GenerateFails(f) \/ CacheCode(f)

\* POST kyc/phone/verification/code/verify.
Verifies ==
    \/ \E q \in Requests, u \in Users : StartVerify(q, u)
    \/ \E f \in calls :
           LookUpCode(f) \/ ConfirmCode(f) \/ RefuseCode(f) \/ ForgetCode(f) \/ MarkVerified(f)

Next == Saves \/ Sends \/ Verifies \/ Expire \/ (\E f \in calls : CallLost(f))

Spec == Init /\ [][Next]_vars
-----------------------------------------------------------------------------
TypeOK ==
    /\ phone \in [Users -> Phones \union {NoPhone}]
    /\ verified \in [Users -> BOOLEAN]
    /\ cached \subseteq Users
    /\ codes \subseteq Phones
    /\ calls \subseteq Call
    /\ confirmed \in [Users -> SUBSET Phones]
    /\ raced \subseteq Users
    /\ spent \subseteq Users
    /\ kept \subseteq Users

\* The number that is marked verified is one whose own code was accepted since it was
\* saved, unless the last of the user's saves and verifications overlapped one of the
\* other kind.
VerifiedNumberWasConfirmed ==
    \A u \in Users : verified[u] /\ u \notin raced => phone[u] \in confirmed[u]

\* From the moment Arkesel has accepted a user's code until another is sent, only two
\* things let a verification ask Arkesel again: it ran beside another one, or one whose
\* code was accepted was lost before it deleted the entry.
SpentCodesAreRefused ==
    \A f \in calls :
        f.at = "confirm" /\ f.user \in spent => "verify" \in f.beside \/ f.user \in kept
=============================================================================
