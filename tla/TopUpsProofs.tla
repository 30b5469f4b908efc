---------------------------- MODULE TopUpsProofs ----------------------------
(***************************************************************************)
(* Proofs about TopUps, for any sets of wallets, payments, requests and    *)
(* activities, and any bound on callbacks and faults.                      *)
(*                                                                         *)
(* First what activities, jobs and payment rows may look like (AInv); with *)
(* it every step is a step of Wallets, and what is proved there holds      *)
(* here.  Then what ties the credits to the requests (SInv), what bounds   *)
(* the payments of a request (DInv), what is owed to whom has paid (OInv), *)
(* and what the event loop and the workers still have to do (StepsLeft).   *)
(***************************************************************************)
EXTENDS TopUps, FiniteSetTheorems, SequenceTheorems, TLAPS

\* TypeOK without the variables of Wallets.
Types ==
    /\ provider \in {"ZEEPAY", "JUNIPAY"}
    /\ methods \subseteq Owners
    /\ todo \subseteq Requests
    /\ topUpJobs \in Seq(Requests) /\ topUpActive \in BOOLEAN
    /\ payJobs \in Seq([payment : Payments, to : {"COMPLETED", "FAILED"}])
    /\ payment \in [Payments -> PaymentRow]
    /\ asked \subseteq Payments
    /\ callbacks \in [Payments -> 0..MaxCallbacks]
    /\ running \subseteq Activity
    /\ faults \in 0..MaxFaults
    /\ lost \subseteq Payments

Known(p) == p \in Payments /\ payment[p].status # "NONE"

Stages == {"start", "ask", "waiting", "answered", "find", "save", "credit", "flush"}

\* Where an activity may be, and on which route; what it may be about to write.
Sound(act) ==
    \/ act.kind = "topUpInitiated" /\ act.at = "start" /\ act.request \in Requests
    \/ /\ Known(act.payment)
       /\ payment[act.payment].route = "momo"
       /\ \/ act.kind = "topUpInitiated" /\ act.at \in {"ask", "waiting"}
          \/ act.kind = "topUpInitiated" /\ act.at = "answered" /\ act.to \in {"PENDING", "FAILED"}
          \/ act.kind = "zeepayWebhook" /\ act.at \in {"find", "save"} /\ act.to \in {"COMPLETED", "NONE"}
          \/ act.kind = "paymentCompleted" /\ act.at \in {"credit", "flush"}
    \/ /\ Known(act.payment)
       /\ payment[act.payment].route = "paystack"
       /\ \/ act.kind = "initiatePayment" /\ act.at \in {"ask", "waiting"}
          \/ act.kind = "initiatePayment" /\ act.at \in {"find", "save"} /\ act.to = "FAILED"
          \/ act.kind = "paystackWebhook" /\ act.at = "start" /\ act.to \in {"COMPLETED", "FAILED"}
          \/ act.kind = "processPayment" /\ act.at \in {"find", "save"} /\ act.to \in {"COMPLETED", "FAILED"}
          \/ act.kind = "processPayment" /\ act.at \in {"credit", "flush"}

ActsAreSound == \A act \in running : Sound(act)

IdsDiffer == \A a, b \in running : a.id = b.id => a = b

\* One worker at a time runs process-payment, on the head of its queue.
Workers ==
    /\ \A a, b \in running : a.kind = "processPayment" /\ b.kind = "processPayment" => a = b
    /\ \A a \in running : a.kind = "processPayment" => payJobs # <<>>
    /\ topUpActive => topUpJobs # <<>>

\* Jobs and rows come from requests.
RowsAreSound ==
    /\ \A i \in DOMAIN payJobs :
           Known(payJobs[i].payment) /\ payment[payJobs[i].payment].route = "paystack"
    /\ \A p \in Payments : payment[p].status # "NONE" => payment[p].request \in Requests
    /\ \A p \in asked : Known(p)

AInv ==
    /\ Types
    /\ ActsAreSound
    /\ IdsDiffer
    /\ Workers
    /\ RowsAreSound

\* A row, once there, keeps its route and its request.
RowsKept ==
    \A p \in Payments : payment[p].status # "NONE" =>
        /\ payment'[p].status # "NONE"
        /\ payment'[p].route = payment[p].route
        /\ payment'[p].request = payment[p].request

-----------------------------------------------------------------------------
LEMMA AppendFacts ==
    ASSUME NEW S, NEW s \in Seq(S), NEW e \in S
    PROVE  /\ Append(s, e) \in Seq(S)
           /\ Append(s, e) # <<>>
           /\ Len(s) \in Nat
           /\ DOMAIN s = 1..Len(s)
           /\ DOMAIN Append(s, e) = 1..(Len(s) + 1)
           /\ \A i \in 1..Len(s) : Append(s, e)[i] = s[i]
           /\ Append(s, e)[Len(s) + 1] = e
  OBVIOUS

LEMMA TailFacts ==
    ASSUME NEW S, NEW s \in Seq(S), s # <<>>
    PROVE  /\ Tail(s) \in Seq(S) /\ Head(s) \in S /\ Head(s) = s[1] /\ 1 \in DOMAIN s
           /\ \A i \in DOMAIN Tail(s) : i + 1 \in DOMAIN s /\ Tail(s)[i] = s[i + 1] /\ i \in Nat \ {0}
  BY HeadTailProperties, LenProperties, EmptySeq

LEMMA TailShifts ==
    ASSUME NEW S, NEW s \in Seq(S), s # <<>>
    PROVE  \A i \in DOMAIN s : i = 1 \/ \E j \in DOMAIN Tail(s) : Tail(s)[j] = s[i]
  <1>1. Len(s) \in Nat /\ DOMAIN s = 1..Len(s) /\ Len(s) >= 1
    BY LenProperties, EmptySeq
  <1>2. DOMAIN Tail(s) = 1..(Len(s) - 1) /\ \A j \in 1..(Len(s) - 1) : Tail(s)[j] = s[j + 1]
    BY HeadTailProperties, LenProperties, EmptySeq
  <1>3. \A i \in 2..Len(s) : i - 1 \in 1..(Len(s) - 1) /\ (i - 1) + 1 = i
    BY <1>1
  <1>4. ASSUME NEW i \in DOMAIN s, i # 1
        PROVE  i - 1 \in DOMAIN Tail(s) /\ Tail(s)[i - 1] = s[i]
    BY <1>1, <1>2, <1>3, <1>4
  <1>5. QED
    BY <1>4

\* What Move leaves of an activity.
LEMMA MoveFacts ==
    ASSUME NEW act \in Activity, NEW at \in Stages,
           NEW p \in Payments, NEW to \in Statuses, Move(act, at, p, to)
    PROVE  \E new \in Activity :
               /\ running' = (running \ {act}) \union {new}
               /\ new.id = act.id /\ new.kind = act.kind /\ new.request = act.request
               /\ new.at = at /\ new.payment = p /\ new.to = to
  <1> DEFINE a1 == [act EXCEPT !.at = at]
             a2 == [a1 EXCEPT !.payment = p]
             new == [a2 EXCEPT !.to = to]
  <1>1. /\ a1 \in Activity /\ a1.id = act.id /\ a1.kind = act.kind /\ a1.request = act.request
        /\ a1.at = at
    BY DEF Activity, Stages
  <1>2. running' = (running \ {act}) \union {new}
    BY DEF Move
  <1> HIDE DEF a1
  <1>3. /\ a2 \in Activity /\ a2.id = act.id /\ a2.kind = act.kind /\ a2.request = act.request
        /\ a2.at = at /\ a2.payment = p
    BY <1>1 DEF Activity
  <1> HIDE DEF a2
  <1>4. /\ new \in Activity /\ new.id = act.id /\ new.kind = act.kind /\ new.request = act.request
        /\ new.at = at /\ new.payment = p /\ new.to = to
    BY <1>3 DEF Activity
  <1> HIDE DEF new
  <1>5. QED
    BY <1>2, <1>4

\* What Start adds.
LEMMA StartFacts ==
    ASSUME NEW kind \in Kinds, NEW at \in Stages,
           NEW r \in Requests \union {NoRequest}, NEW p \in Payments \union {NoPayment},
           NEW to \in Statuses, Start(kind, at, r, p, to)
    PROVE  \E new \in Activity :
               /\ running' = running \union {new}
               /\ new.id \in Free
               /\ new.kind = kind /\ new.request = r
               /\ new.at = at /\ new.payment = p /\ new.to = to
  <1> DEFINE id == CHOOSE i \in Free : TRUE
             new == [id |-> id, kind |-> kind, at |-> at, request |-> r, payment |-> p, to |-> to]
  <1>1. Free # {}
    BY DEF Start
  <1>2. id \in Free
    BY <1>1
  <1>3. running' = running \union {new}
    BY DEF Start
  <1> HIDE DEF id
  <1>4. /\ new \in Activity /\ new.id = id
        /\ new.kind = kind /\ new.request = r /\ new.at = at /\ new.payment = p /\ new.to = to
    BY <1>2 DEF Activity, Stages, Free
  <1> HIDE DEF new
  <1>5. QED
    BY <1>2, <1>3, <1>4

\* Sound stays sound while rows are kept.
LEMMA SoundStays ==
    ASSUME RowsKept, NEW act, Sound(act)
    PROVE  Sound(act)'
  BY DEF RowsKept, Sound, Known

\* A step that ends at most the activities in gone and adds at most new.
LEMMA ActsOK ==
    ASSUME AInv, RowsKept, NEW gone, NEW new, running' \subseteq (running \ gone) \union {new},
           Sound(new)', \A a \in running \ gone : a.id # new.id
    PROVE  ActsAreSound' /\ IdsDiffer'
  <1>1. ActsAreSound'
    <2> SUFFICES ASSUME NEW a \in running' PROVE Sound(a)'
      BY DEF ActsAreSound
    <2>1. CASE a \in running
      BY <2>1, SoundStays DEF AInv, ActsAreSound
    <2>2. CASE a = new
      BY <2>2
    <2>3. QED
      BY <2>1, <2>2
  <1>2. IdsDiffer'
    BY DEF AInv, IdsDiffer
  <1>3. QED
    BY <1>1, <1>2

\* A step that adds no activity.
LEMMA FewerActsOK ==
    ASSUME AInv, RowsKept, running' \subseteq running
    PROVE  ActsAreSound' /\ IdsDiffer'
  BY SoundStays DEF AInv, ActsAreSound, IdsDiffer

\* Rows that do not change are kept.
LEMMA SameRowsKept ==
    ASSUME payment' = payment
    PROVE  RowsKept
  BY DEF RowsKept

\* What happens to the activities when one becomes new.
LEMMA SwapOK ==
    ASSUME AInv, RowsKept, NEW act \in running, NEW new \in Activity, new.id = act.id,
           running' = (running \ {act}) \union {new}, Sound(new)',
           new.kind = "processPayment" => act.kind = "processPayment",
           UNCHANGED queues
    PROVE  running' \subseteq Activity /\ ActsAreSound' /\ IdsDiffer' /\ Workers'
  <1>1. running' \subseteq Activity
    BY DEF AInv, Types
  <1>2. \A a \in running \ {act} : a.id # new.id
    BY DEF AInv, IdsDiffer
  <1>3. ActsAreSound' /\ IdsDiffer'
    BY <1>2, ActsOK
  <1>4. Workers'
    BY DEF AInv, Workers, queues
  <1>5. QED
    BY <1>1, <1>3, <1>4

\* ... when it moves.
LEMMA MoveOK ==
    ASSUME AInv, RowsKept, NEW act \in running,
           NEW at \in Stages,
           NEW p \in Payments, NEW to \in Statuses, Move(act, at, p, to), UNCHANGED queues,
           \A new \in Activity :
               /\ new.kind = act.kind /\ new.request = act.request
               /\ new.at = at /\ new.payment = p /\ new.to = to
               => Sound(new)'
    PROVE  running' \subseteq Activity /\ ActsAreSound' /\ IdsDiffer' /\ Workers'
  <1>1. act \in Activity
    BY DEF AInv, Types
  <1>2. PICK new \in Activity :
            /\ running' = (running \ {act}) \union {new}
            /\ new.id = act.id /\ new.kind = act.kind /\ new.request = act.request
            /\ new.at = at /\ new.payment = p /\ new.to = to
    BY <1>1, MoveFacts
  <1>3. QED
    BY <1>2, SwapOK

\* ... when one is added.
LEMMA AddOK ==
    ASSUME AInv, RowsKept, NEW kind \in Kinds,
           NEW at \in Stages,
           NEW r \in Requests \union {NoRequest}, NEW p \in Payments \union {NoPayment},
           NEW to \in Statuses, Start(kind, at, r, p, to),
           UNCHANGED payJobs, topUpActive' => topUpJobs' # <<>>,
           kind = "processPayment" =>
               payJobs # <<>> /\ \A a \in running : a.kind # "processPayment",
           \A new \in Activity :
               /\ new.kind = kind /\ new.request = r
               /\ new.at = at /\ new.payment = p /\ new.to = to
               => Sound(new)'
    PROVE  running' \subseteq Activity /\ ActsAreSound' /\ IdsDiffer' /\ Workers'
  <1>1. PICK new \in Activity :
            /\ running' = running \union {new}
            /\ new.id \in Free
            /\ new.kind = kind /\ new.request = r
            /\ new.at = at /\ new.payment = p /\ new.to = to
    BY StartFacts
  <1>2. running' \subseteq Activity
    BY <1>1 DEF AInv, Types
  <1>3. running' \subseteq (running \ {}) \union {new} /\ \A a \in running \ {} : a.id # new.id
    BY <1>1 DEF Free
  <1>4. ActsAreSound' /\ IdsDiffer'
    BY <1>1, <1>3, ActsOK
  <1>5. Workers'
    BY <1>1 DEF AInv, Workers
  <1>6. QED
    BY <1>2, <1>4, <1>5

\* ... when one ends, and what becomes of the queue of process-payment.
LEMMA EndsOK ==
    ASSUME AInv, RowsKept, NEW act \in running, Ends(act)
    PROVE  /\ running' \subseteq Activity /\ ActsAreSound' /\ IdsDiffer' /\ Workers'
           /\ payJobs' \in Seq([payment : Payments, to : {"COMPLETED", "FAILED"}])
           /\ \A i \in DOMAIN payJobs' : \E j \in DOMAIN payJobs : payJobs'[i] = payJobs[j]
  <1>1. running' = running \ {act} /\ UNCHANGED <<topUpJobs, topUpActive>>
    BY DEF Ends
  <1>2. running' \subseteq Activity
    BY <1>1 DEF AInv, Types
  <1>3. ActsAreSound' /\ IdsDiffer'
    BY <1>1, FewerActsOK
  <1>4. CASE act.kind = "processPayment"
    <2>1. payJobs # <<>> /\ payJobs \in Seq([payment : Payments, to : {"COMPLETED", "FAILED"}])
      BY <1>4 DEF AInv, Types, Workers
    <2>2. payJobs' = Tail(payJobs)
      BY <1>4 DEF Ends
    <2>3. \A a \in running' : a.kind # "processPayment"
      BY <1>1, <1>4 DEF AInv, Workers
    <2>4. Workers'
      BY <1>1, <2>3 DEF AInv, Workers
    <2>5. QED
      BY <1>2, <1>3, <2>1, <2>2, <2>4, TailFacts
  <1>5. CASE act.kind # "processPayment"
    <2>1. payJobs' = payJobs
      BY <1>5 DEF Ends
    <2>2. Workers'
      BY <1>1, <2>1 DEF AInv, Workers
    <2>3. QED
      BY <1>2, <1>3, <2>1, <2>2 DEF AInv, Types
  <1>6. QED
    BY <1>4, <1>5

\* Rows and jobs stay sound while rows are kept and no job, row or payment at the
\* provider is added.
LEMMA RowsStay ==
    ASSUME AInv, RowsKept, \A p \in Payments : payment[p].status = "NONE" => payment'[p] = payment[p],
           \A i \in DOMAIN payJobs' : \E j \in DOMAIN payJobs : payJobs'[i] = payJobs[j],
           asked' \subseteq asked
    PROVE  RowsAreSound'
  <1>1. (\A i \in DOMAIN payJobs :
             Known(payJobs[i].payment) /\ payment[payJobs[i].payment].route = "paystack")'
    BY DEF AInv, RowsAreSound, RowsKept, Known
  <1>2. \A p \in Payments : payment'[p].status # "NONE" => payment'[p].request \in Requests
    BY DEF AInv, RowsAreSound, RowsKept
  <1>3. \A p \in asked' : Known(p)'
    BY DEF AInv, RowsAreSound, RowsKept, Known
  <1>4. QED
    BY <1>1, <1>2, <1>3 DEF RowsAreSound

\* A new payment row.
LEMMA NewRow ==
    ASSUME AInv, NEW r \in Requests, NEW route \in {"momo", "paystack"},
           NewPayment(NextPayment, r, route)
    PROVE  /\ NextPayment \in Payments /\ payment[NextPayment].status = "NONE"
           /\ payment' \in [Payments -> PaymentRow]
           /\ payment'[NextPayment] = [status |-> "INITIATED", route |-> route, request |-> r]
           /\ \A q \in Payments \ {NextPayment} : payment'[q] = payment[q]
           /\ RowsKept
  <1> DEFINE p == NextPayment
             row == [status |-> "INITIATED", route |-> route, request |-> r]
  <1>1. p \in Payments /\ payment[p].status = "NONE"
    BY DEF NewPayment, NextPayment, Fresh
  <1>2. payment \in [Payments -> PaymentRow]
    BY DEF AInv, Types
  <1>3. row \in PaymentRow
    BY DEF PaymentRow, Statuses
  <1>4. payment' = [payment EXCEPT ![p] = row]
    BY DEF NewPayment
  <1> HIDE DEF p, row
  <1>5. payment' \in [Payments -> PaymentRow] /\ payment'[p] = row
        /\ \A q \in Payments \ {p} : payment'[q] = payment[q]
    BY <1>1, <1>2, <1>3, <1>4
  <1>6. RowsKept
    BY <1>1, <1>5 DEF RowsKept
  <1>7. QED
    BY <1>1, <1>5, <1>6 DEF p, row

\* A status written over a row.
LEMMA NewStatus ==
    ASSUME AInv, NEW p \in Payments, payment[p].status # "NONE",
           NEW to \in Statuses \ {"NONE"}, payment' = [payment EXCEPT ![p].status = to]
    PROVE  /\ payment' \in [Payments -> PaymentRow]
           /\ payment'[p].status = to
           /\ \A q \in Payments \ {p} : payment'[q] = payment[q]
           /\ RowsKept
           /\ \A q \in Payments : payment[q].status = "NONE" => payment'[q] = payment[q]
  <1>1. payment \in [Payments -> PaymentRow]
    BY DEF AInv, Types
  <1> DEFINE row == [payment[p] EXCEPT !.status = to]
  <1>2. row \in PaymentRow /\ row.status = to /\ row.route = payment[p].route
        /\ row.request = payment[p].request
    BY <1>1 DEF PaymentRow
  <1>3. payment' = [payment EXCEPT ![p] = row]
    OBVIOUS
  <1> HIDE DEF row
  <1>4. /\ payment' \in [Payments -> PaymentRow] /\ payment'[p] = row
        /\ \A q \in Payments \ {p} : payment'[q] = payment[q]
    BY <1>1, <1>2, <1>3
  <1>5. RowsKept
    BY <1>2, <1>4 DEF RowsKept
  <1>6. QED
    BY <1>2, <1>4, <1>5

-----------------------------------------------------------------------------
\* AInv is inductive, and every step keeps the rows it finds.

LEMMA InitOK ==
    ASSUME Init
    PROVE  AInv
  <1>1. payment \in [Payments -> PaymentRow]
    BY DEF Init, NoRow, PaymentRow, Statuses
  <1>2. topUpJobs \in Seq(Requests) /\ payJobs \in Seq([payment : Payments, to : {"COMPLETED", "FAILED"}])
    BY DEF Init
  <1>3. topUpActive \in BOOLEAN
    BY DEF Init
  <1>4. callbacks \in [Payments -> 0..MaxCallbacks] /\ faults \in 0..MaxFaults
    BY BoundsAreNat DEF Init
  <1>5. /\ provider \in {"ZEEPAY", "JUNIPAY"} /\ methods \subseteq Owners /\ todo \subseteq Requests
        /\ asked \subseteq Payments /\ running \subseteq Activity /\ lost \subseteq Payments
    BY GhostsAreIds DEF Init
  <1>6. Types
    BY <1>1, <1>2, <1>3, <1>4, <1>5 DEF Types
  <1>7. ActsAreSound /\ IdsDiffer /\ Workers
    BY DEF Init, ActsAreSound, IdsDiffer, Workers
  <1>8. RowsAreSound
    BY DEF Init, RowsAreSound, NoRow
  <1>9. QED
    BY <1>6, <1>7, <1>8 DEF AInv

LEMMA ClientsOK ==
    ASSUME AInv, Clients
    PROVE  AInv' /\ RowsKept
  <1>1. CASE \E u \in Owners, b \in Openings : OpenWallet(u, b)
    <2>1. UNCHANGED <<queues, outside, payment, running, troubles>>
      BY <1>1 DEF OpenWallet
    <2>2. QED
      BY <2>1 DEF AInv, Types, ActsAreSound, Sound, Known, IdsDiffer, Workers, RowsAreSound,
         RowsKept, queues, outside, troubles
  <1>2. CASE \E r \in Requests : FundWallet(r)
    <2>1. PICK r \in Requests : FundWallet(r)
      BY <1>2
    <2>2. /\ todo' \subseteq Requests /\ topUpJobs' = Append(topUpJobs, r)
          /\ UNCHANGED <<topUpActive, payJobs, provider, methods, asked, callbacks, payment,
                         running, troubles>>
      BY <2>1 DEF FundWallet, AInv, Types
    <2>3. topUpJobs' \in Seq(Requests) /\ topUpJobs' # <<>>
      BY <2>2, AppendFacts DEF AInv, Types
    <2>4. QED
      BY <2>2, <2>3 DEF AInv, Types, ActsAreSound, Sound, Known, IdsDiffer, Workers, RowsAreSound,
         RowsKept, troubles
  <1>3. CASE \E u \in Owners : CreatePaymentMethod(u)
    <2>1. /\ UNCHANGED <<queues, provider, todo, asked, callbacks, payment, running, troubles>>
          /\ methods' \subseteq Owners
      BY <1>3 DEF CreatePaymentMethod, AInv, Types
    <2>2. QED
      BY <2>1 DEF AInv, Types, ActsAreSound, Sound, Known, IdsDiffer, Workers, RowsAreSound,
         RowsKept, queues, troubles
  <1>4. CASE \E r \in Requests : InitiatePayment(r)
    <2>1. PICK r \in Requests : InitiatePayment(r)
      BY <1>4
    <2>2. /\ NewPayment(NextPayment, r, "paystack")
          /\ Start("initiatePayment", "ask", r, NextPayment, "NONE")
          /\ UNCHANGED <<queues, provider, methods, asked, callbacks, troubles>>
          /\ todo' \subseteq Requests
      BY <2>1 DEF InitiatePayment, AInv, Types
    <2>3. /\ NextPayment \in Payments /\ payment[NextPayment].status = "NONE"
          /\ payment' \in [Payments -> PaymentRow]
          /\ payment'[NextPayment] = [status |-> "INITIATED", route |-> "paystack", request |-> r]
          /\ \A q \in Payments \ {NextPayment} : payment'[q] = payment[q]
          /\ RowsKept
      BY <2>2, NewRow
    <2>4. "initiatePayment" \in Kinds /\ "ask" \in Stages /\ "NONE" \in Statuses
      BY DEF Kinds, Stages, Statuses
    <2> DEFINE p == NextPayment
    <2> HIDE DEF p
    <2>5. \A new : new.kind = "initiatePayment" /\ new.at = "ask" /\ new.payment = p => Sound(new)'
      BY <2>3 DEF Sound, Known, p
    <2>6. running' \subseteq Activity /\ ActsAreSound' /\ IdsDiffer' /\ Workers'
      <3>1. topUpActive' => topUpJobs' # <<>>
        BY <2>2 DEF AInv, Workers, queues
      <3>2. UNCHANGED payJobs
        BY <2>2 DEF queues
      <3>3. Start("initiatePayment", "ask", r, p, "NONE") /\ p \in Payments
        BY <2>2, <2>3 DEF p
      <3>4. QED
        BY <2>3, <2>4, <2>5, <3>1, <3>2, <3>3, AddOK
    <2>7. Types'
      BY <2>2, <2>3, <2>6 DEF AInv, Types, queues, troubles
    <2>8. RowsAreSound'
      BY <2>2, <2>3 DEF AInv, RowsAreSound, RowsKept, Known, queues
    <2>9. QED
      BY <2>3, <2>6, <2>7, <2>8 DEF AInv
  <1>5. QED
    BY <1>1, <1>2, <1>3, <1>4 DEF Clients, WalletRoutes, PaymentRoutes

LEMMA ProviderOK ==
    ASSUME AInv, Provider
    PROVE  AInv' /\ RowsKept
  <1>1. PICK p \in Payments :
            \/ ZeepayCallback(p) \/ JunipayCallback(p)
            \/ \E to \in {"COMPLETED", "FAILED"} : PaystackCallback(p, to)
    BY DEF Provider
  <1>2. /\ UNCHANGED <<queues, provider, methods, todo, asked, payment, troubles>>
        /\ CallsBack(p)
    BY <1>1 DEF ZeepayCallback, JunipayCallback, PaystackCallback
  <1>3. RowsKept
    BY <1>2, SameRowsKept
  <1>4. callbacks' \in [Payments -> 0..MaxCallbacks]
    BY <1>2, BoundsAreNat DEF CallsBack, AInv, Types
  <1>5. Known(p)
    BY <1>2 DEF CallsBack, AInv, RowsAreSound
  <1>6. topUpActive' => topUpJobs' # <<>>
    BY <1>2 DEF AInv, Workers, queues
  <1>7. UNCHANGED payJobs
    BY <1>2 DEF queues
  <1>8. running' \subseteq Activity /\ ActsAreSound' /\ IdsDiffer' /\ Workers'
    <2>1. CASE ZeepayCallback(p)
      <3>1. Start("zeepayWebhook", "find", NoRequest, p, "COMPLETED") /\ payment[p].route = "momo"
        BY <2>1 DEF ZeepayCallback
      <3>2. "zeepayWebhook" \in Kinds /\ "find" \in Stages /\ "COMPLETED" \in Statuses
            /\ NoRequest \in Requests \union {NoRequest}
        BY DEF Kinds, Stages, Statuses
      <3>3. \A new : new.kind = "zeepayWebhook" /\ new.at = "find" /\ new.payment = p
                       /\ new.to = "COMPLETED" => Sound(new)'
        BY <1>2, <1>5, <3>1 DEF Sound, Known
      <3>4. QED
        BY <1>3, <1>6, <1>7, <3>1, <3>2, <3>3, AddOK
    <2>2. CASE JunipayCallback(p)
      <3>1. running' = running
        BY <2>2 DEF JunipayCallback
      <3>2. QED
        BY <1>2, <1>3, <3>1, FewerActsOK DEF AInv, Types, Workers, queues
    <2>3. ASSUME NEW to \in {"COMPLETED", "FAILED"}, PaystackCallback(p, to)
          PROVE  running' \subseteq Activity /\ ActsAreSound' /\ IdsDiffer' /\ Workers'
      <3>1. Start("paystackWebhook", "start", NoRequest, p, to) /\ payment[p].route = "paystack"
        BY <2>3 DEF PaystackCallback
      <3>2. "paystackWebhook" \in Kinds /\ "start" \in Stages /\ to \in Statuses
            /\ NoRequest \in Requests \union {NoRequest}
        BY <2>3 DEF Kinds, Stages, Statuses
      <3>3. \A new : new.kind = "paystackWebhook" /\ new.at = "start" /\ new.payment = p
                       /\ new.to = to => Sound(new)'
        BY <1>2, <1>5, <2>3, <3>1 DEF Sound, Known
      <3>4. QED
        BY <1>3, <1>6, <1>7, <3>1, <3>2, <3>3, AddOK
    <2>4. QED
      BY <1>1, <2>1, <2>2, <2>3
  <1>9. Types'
    BY <1>2, <1>4, <1>8 DEF AInv, Types, queues, troubles
  <1>10. RowsAreSound'
    BY <1>2 DEF AInv, RowsAreSound, Known, queues
  <1>11. QED
    BY <1>3, <1>8, <1>9, <1>10 DEF AInv

\* Steps that only move an activity.
Moves(act) ==
    \/ SendRequest(act) \/ PaystackFails(act) \/ JunipayDeclines(act) \/ MomoAccepted(act)
    \/ FindPayment(act) \/ ReadWallet(act)

\* Steps that only end one.
Endings(act) ==
    \/ NoPaymentMethod(act) \/ RequestThrows(act) \/ PaystackAccepted(act) \/ AnswerTooLong(act)
    \/ PaymentNotFound(act) \/ NoWallet(act) \/ FlushWallet(act) \/ DatabaseFails(act)

LEMMA MovesOK ==
    ASSUME AInv, NEW act \in running, Moves(act)
    PROVE  AInv' /\ RowsKept
  <1>1. /\ UNCHANGED <<queues, provider, methods, todo, callbacks, payment, troubles>>
        /\ asked' \subseteq asked \union {act.payment}
        /\ act.at # "start"
    BY DEF Moves, SendRequest, PaystackFails, JunipayDeclines, MomoAccepted, FindPayment, ReadWallet,
       outside
  <1>2. RowsKept
    BY <1>1, SameRowsKept
  <1>3. act \in Activity /\ Sound(act)
    BY DEF AInv, Types, ActsAreSound
  <1>4. CASE act.at # "start"
    <2>1. Known(act.payment)
      BY <1>3, <1>4 DEF Sound
    <2>2. PICK at \in Stages, to \in Statuses :
              /\ Move(act, at, act.payment, to)
              /\ \/ act.at = "ask" /\ at = "waiting"
                 \/ act.at \in {"ask", "waiting"} /\ act.kind = "initiatePayment" /\ at = "find" /\ to = "FAILED"
                 \/ act.at \in {"ask", "waiting"} /\ act.kind = "topUpInitiated" /\ at = "answered" /\ to \in {"PENDING", "FAILED"}
                 \/ /\ act.at = "find" /\ at = "save"
                    /\ to = IF payment[act.payment].status = act.to THEN "NONE" ELSE act.to
                    /\ Matches(act)
                 \/ act.at = "credit" /\ at = "flush"
      <3>1. {"waiting", "find", "answered", "save", "flush"} \subseteq Stages
        BY DEF Stages
      <3>2. {"NONE", "FAILED", "PENDING"} \subseteq Statuses /\ act.to \in Statuses
        BY <1>3 DEF Statuses, Activity
      <3>3. CASE SendRequest(act)
        BY <3>1, <3>2, <3>3 DEF SendRequest
      <3>4. CASE PaystackFails(act)
        BY <3>1, <3>2, <3>4 DEF PaystackFails
      <3>5. CASE JunipayDeclines(act)
        BY <3>1, <3>2, <3>5 DEF JunipayDeclines
      <3>6. CASE MomoAccepted(act)
        BY <3>1, <3>2, <3>6 DEF MomoAccepted
      <3>7. CASE FindPayment(act)
        <4> DEFINE to == IF payment[act.payment].status = act.to THEN "NONE" ELSE act.to
        <4>1. to \in Statuses
          BY <3>2
        <4>2. Move(act, "save", act.payment, to) /\ act.at = "find" /\ Matches(act)
          BY <3>7 DEF FindPayment
        <4>3. QED
          BY <3>1, <4>1, <4>2
      <3>8. CASE ReadWallet(act)
        BY <3>1, <3>2, <3>8 DEF ReadWallet
      <3>9. QED
        BY <3>3, <3>4, <3>5, <3>6, <3>7, <3>8 DEF Moves
    <2>3. ASSUME NEW new, new.kind = act.kind, new.at = at, new.payment = act.payment, new.to = to
          PROVE  Sound(new)'
      BY <1>1, <1>3, <2>1, <2>2, <2>3 DEF Sound, Known, Matches
    <2>4. UNCHANGED queues /\ act.payment \in Payments
      BY <1>1, <2>1 DEF Known
    <2>5. running' \subseteq Activity /\ ActsAreSound' /\ IdsDiffer' /\ Workers'
      BY <1>2, <2>2, <2>3, <2>4, MoveOK
    <2>6. Types'
      BY <1>1, <2>4, <2>5 DEF AInv, Types, queues, troubles
    <2>7. RowsAreSound'
      BY <1>1, <2>1 DEF AInv, RowsAreSound, Known, queues
    <2>8. QED
      BY <1>2, <2>5, <2>6, <2>7 DEF AInv
  <1>5. QED
    BY <1>1, <1>4

LEMMA EndingsOK ==
    ASSUME AInv, NEW act \in running, Endings(act)
    PROVE  AInv' /\ RowsKept
  <1>1. Ends(act) /\ UNCHANGED <<outside, payment>>
    BY DEF Endings, NoPaymentMethod, RequestThrows, PaystackAccepted, AnswerTooLong,
       PaymentNotFound, NoWallet, FlushWallet, DatabaseFails
  <1>2. RowsKept
    BY <1>1, SameRowsKept
  <1>3. /\ running' \subseteq Activity /\ ActsAreSound' /\ IdsDiffer' /\ Workers'
        /\ payJobs' \in Seq([payment : Payments, to : {"COMPLETED", "FAILED"}])
        /\ \A i \in DOMAIN payJobs' : \E j \in DOMAIN payJobs : payJobs'[i] = payJobs[j]
    BY <1>1, <1>2, EndsOK
  <1>4. faults' \in 0..MaxFaults /\ lost' \subseteq Payments
    <2>1. CASE DatabaseFails(act)
      <3>1. faults < MaxFaults /\ faults' = faults + 1
            /\ lost' = lost \union {a.payment : a \in {act} \intersect Confirming}
        BY <2>1 DEF DatabaseFails
      <3>2. \A a \in Confirming : a.payment \in Payments
        BY DEF AInv, ActsAreSound, Sound, Known, Confirming
      <3>3. QED
        BY <3>1, <3>2, BoundsAreNat DEF AInv, Types
    <2>2. CASE ~DatabaseFails(act)
      <3>1. UNCHANGED troubles
        BY <2>2 DEF Endings, NoPaymentMethod, RequestThrows, PaystackAccepted, AnswerTooLong,
           PaymentNotFound, NoWallet, FlushWallet
      <3>2. QED
        BY <3>1 DEF AInv, Types, troubles
    <2>3. QED
      BY <2>1, <2>2
  <1>5. UNCHANGED <<topUpJobs, topUpActive>>
    BY <1>1 DEF Ends
  <1>6. Types'
    BY <1>1, <1>3, <1>4, <1>5 DEF AInv, Types, outside
  <1>7. RowsAreSound'
    BY <1>1, <1>2, <1>3, RowsStay DEF outside
  <1>8. QED
    BY <1>2, <1>3, <1>6, <1>7 DEF AInv

LEMMA JobsOK ==
    ASSUME AInv, EmitTopUpInitiated \/ CompleteTopUpJob \/ StartProcessPayment
    PROVE  AInv' /\ RowsKept
  <1>1. UNCHANGED <<outside, payment, payJobs, troubles>>
    BY DEF EmitTopUpInitiated, CompleteTopUpJob, StartProcessPayment, queues
  <1>2. RowsKept
    BY <1>1, SameRowsKept
  <1>3. topUpJobs \in Seq(Requests) /\ payJobs \in Seq([payment : Payments, to : {"COMPLETED", "FAILED"}])
    BY DEF AInv, Types
  <1>4. topUpActive' \in BOOLEAN
    BY DEF EmitTopUpInitiated, CompleteTopUpJob, StartProcessPayment, queues, AInv, Types
  <1>5. topUpJobs' \in Seq(Requests)
    <2>1. CASE CompleteTopUpJob
      <3>1. topUpJobs # <<>> /\ topUpJobs' = Tail(topUpJobs)
        BY <2>1 DEF CompleteTopUpJob, AInv, Workers
      <3>2. QED
        BY <1>3, <3>1, TailFacts
    <2>2. CASE ~CompleteTopUpJob
      BY <1>3, <2>2 DEF EmitTopUpInitiated, StartProcessPayment, queues
    <2>3. QED
      BY <2>1, <2>2
  <1>6. topUpActive' => topUpJobs' # <<>>
    BY DEF EmitTopUpInitiated, CompleteTopUpJob, StartProcessPayment, queues, AInv, Workers
  <1>7. running' \subseteq Activity /\ ActsAreSound' /\ IdsDiffer' /\ Workers'
    <2>1. CASE EmitTopUpInitiated
      <3>1. topUpJobs # <<>> /\ Start("topUpInitiated", "start", Head(topUpJobs), NoPayment, "NONE")
        BY <2>1 DEF EmitTopUpInitiated
      <3>2. PICK r \in Requests : Start("topUpInitiated", "start", r, NoPayment, "NONE")
        BY <1>3, <3>1, TailFacts
      <3>3. "topUpInitiated" \in Kinds /\ "start" \in Stages /\ "NONE" \in Statuses
            /\ NoPayment \in Payments \union {NoPayment} /\ r \in Requests \union {NoRequest}
        BY <3>2 DEF Kinds, Stages, Statuses
      <3>4. \A new : new.kind = "topUpInitiated" /\ new.at = "start" /\ new.request = r => Sound(new)'
        BY <3>2 DEF Sound
      <3>5. UNCHANGED payJobs
        BY <1>1
      <3>6. QED
        BY <1>2, <1>6, <3>2, <3>3, <3>4, <3>5, AddOK
    <2>2. CASE CompleteTopUpJob
      <3>1. running' = running
        BY <2>2 DEF CompleteTopUpJob
      <3>2. QED
        BY <1>1, <1>2, <1>6, <3>1, FewerActsOK DEF AInv, Types, Workers
    <2>3. CASE StartProcessPayment
      <3>1. /\ payJobs # <<>> /\ \A a \in running : a.kind # "processPayment"
            /\ Start("processPayment", "find", NoRequest, Head(payJobs).payment, Head(payJobs).to)
        BY <2>3 DEF StartProcessPayment
      <3>2. Head(payJobs) = payJobs[1] /\ 1 \in DOMAIN payJobs
            /\ Head(payJobs) \in [payment : Payments, to : {"COMPLETED", "FAILED"}]
        BY <1>3, <3>1, TailFacts
      <3>3. PICK p \in Payments, to \in Statuses :
                /\ Known(p) /\ payment[p].route = "paystack" /\ to \in {"COMPLETED", "FAILED"}
                /\ Start("processPayment", "find", NoRequest, p, to)
        BY <3>1, <3>2 DEF AInv, RowsAreSound, Statuses
      <3>4. "processPayment" \in Kinds /\ "find" \in Stages /\ to \in Statuses
            /\ NoRequest \in Requests \union {NoRequest} /\ p \in Payments \union {NoPayment}
        BY <3>3 DEF Kinds, Stages, Statuses, Known
      <3>5. \A new \in Activity :
                /\ new.kind = "processPayment" /\ new.request = NoRequest
                /\ new.at = "find" /\ new.payment = p /\ new.to = to
                => Sound(new)'
        BY <1>1, <3>3 DEF Sound, Known
      <3>6. UNCHANGED payJobs
        BY <1>1
      <3>7. "processPayment" = "processPayment" =>
                payJobs # <<>> /\ \A a \in running : a.kind # "processPayment"
        BY <3>1
      <3>8. QED
        BY <1>2, <1>6, <3>3, <3>4, <3>5, <3>6, <3>7, AddOK
    <2>4. QED
      BY <2>1, <2>2, <2>3
  <1>8. Types'
    BY <1>1, <1>4, <1>5, <1>7 DEF AInv, Types, outside, troubles
  <1>9. RowsAreSound'
    BY <1>1 DEF AInv, RowsAreSound, Known, outside
  <1>10. QED
    BY <1>2, <1>7, <1>8, <1>9 DEF AInv

LEMMA CreateOK ==
    ASSUME AInv, NEW act \in running, CreatePayment(act)
    PROVE  AInv' /\ RowsKept
  <1> DEFINE p == NextPayment
  <1>1. /\ act.kind = "topUpInitiated" /\ act.at = "start"
        /\ NewPayment(p, act.request, "momo")
        /\ Move(act, "ask", p, "NONE")
        /\ UNCHANGED <<queues, outside, troubles>>
    BY DEF CreatePayment
  <1>2. act.request \in Requests
    BY <1>1 DEF AInv, ActsAreSound, Sound
  <1>3. /\ p \in Payments /\ payment[p].status = "NONE"
        /\ payment' \in [Payments -> PaymentRow]
        /\ payment'[p] = [status |-> "INITIATED", route |-> "momo", request |-> act.request]
        /\ \A q \in Payments \ {p} : payment'[q] = payment[q]
        /\ RowsKept
    BY <1>1, <1>2, NewRow
  <1> HIDE DEF p
  <1>4. "ask" \in Stages /\ "NONE" \in Statuses
    BY DEF Stages, Statuses
  <1>5. \A new : new.kind = act.kind /\ new.at = "ask" /\ new.payment = p => Sound(new)'
    BY <1>1, <1>3 DEF Sound, Known
  <1>6. UNCHANGED queues
    BY <1>1
  <1>7. running' \subseteq Activity /\ ActsAreSound' /\ IdsDiffer' /\ Workers'
    BY <1>1, <1>3, <1>4, <1>5, <1>6, MoveOK
  <1>8. Types'
    BY <1>1, <1>3, <1>7 DEF AInv, Types, queues, outside, troubles
  <1>9. RowsAreSound'
    BY <1>1, <1>2, <1>3 DEF AInv, RowsAreSound, RowsKept, Known, queues, outside
  <1>10. QED
    BY <1>3, <1>7, <1>8, <1>9 DEF AInv

LEMMA EnqueueOK ==
    ASSUME AInv, NEW act \in running, EnqueueProcessPayment(act)
    PROVE  AInv' /\ RowsKept
  <1> DEFINE job == [payment |-> act.payment, to |-> act.to]
  <1>1. /\ act.kind = "paystackWebhook" /\ act.at = "start"
        /\ payJobs' = Append(payJobs, job) /\ running' = running \ {act}
        /\ UNCHANGED <<topUpJobs, topUpActive, outside, payment, troubles>>
    BY DEF EnqueueProcessPayment
  <1>2. RowsKept
    BY <1>1, SameRowsKept
  <1>3. /\ Known(act.payment) /\ payment[act.payment].route = "paystack"
        /\ act.to \in {"COMPLETED", "FAILED"}
    BY <1>1 DEF AInv, ActsAreSound, Sound
  <1>4. job \in [payment : Payments, to : {"COMPLETED", "FAILED"}] /\ job.payment = act.payment
    BY <1>3 DEF Known
  <1> HIDE DEF job
  <1>5. payJobs \in Seq([payment : Payments, to : {"COMPLETED", "FAILED"}])
    BY DEF AInv, Types
  <1>6. /\ payJobs' \in Seq([payment : Payments, to : {"COMPLETED", "FAILED"}]) /\ payJobs' # <<>>
        /\ \A i \in DOMAIN payJobs' : payJobs'[i] = job \/ (i \in DOMAIN payJobs /\ payJobs'[i] = payJobs[i])
    BY <1>1, <1>4, <1>5, AppendFacts
  <1>7. ActsAreSound' /\ IdsDiffer'
    BY <1>1, <1>2, FewerActsOK
  <1>8. Workers'
    BY <1>1, <1>6 DEF AInv, Workers
  <1>9. Types'
    BY <1>1, <1>6 DEF AInv, Types, outside, troubles
  <1>10. RowsAreSound'
    <2>1. (\A i \in DOMAIN payJobs :
             Known(payJobs[i].payment) /\ payment[payJobs[i].payment].route = "paystack")'
      BY <1>1, <1>3, <1>4, <1>6 DEF AInv, RowsAreSound, Known
    <2>2. QED
      BY <1>1, <2>1 DEF AInv, RowsAreSound, Known, outside
  <1>11. QED
    BY <1>2, <1>7, <1>8, <1>9, <1>10 DEF AInv

LEMMA RecordOK ==
    ASSUME AInv, NEW act \in running, RecordAnswer(act)
    PROVE  AInv' /\ RowsKept
  <1>1. /\ payment' = [payment EXCEPT ![act.payment].status = act.to]
        /\ act.at = "answered" /\ Ends(act)
        /\ UNCHANGED <<outside, troubles>>
    BY DEF RecordAnswer
  <1>2. Known(act.payment) /\ act.to \in Statuses \ {"NONE"}
    BY <1>1 DEF AInv, ActsAreSound, Sound, Statuses
  <1>3. /\ payment' \in [Payments -> PaymentRow] /\ RowsKept
        /\ \A q \in Payments : payment[q].status = "NONE" => payment'[q] = payment[q]
    BY <1>1, <1>2, NewStatus DEF Known
  <1>4. /\ running' \subseteq Activity /\ ActsAreSound' /\ IdsDiffer' /\ Workers'
        /\ payJobs' \in Seq([payment : Payments, to : {"COMPLETED", "FAILED"}])
        /\ \A i \in DOMAIN payJobs' : \E j \in DOMAIN payJobs : payJobs'[i] = payJobs[j]
    BY <1>1, <1>3, EndsOK
  <1>5. Types'
    BY <1>1, <1>3, <1>4 DEF AInv, Types, Ends, outside, troubles
  <1>6. RowsAreSound'
    BY <1>1, <1>3, <1>4, RowsStay DEF outside
  <1>7. QED
    BY <1>3, <1>4, <1>5, <1>6 DEF AInv

LEMMA CrashOK ==
    ASSUME AInv, Crash
    PROVE  AInv' /\ RowsKept
  <1>1. /\ faults < MaxFaults /\ faults' = faults + 1 /\ running' = {} /\ topUpActive' = FALSE
        /\ lost' = lost \union {act.payment : act \in Confirming \ Redelivered}
        /\ UNCHANGED <<topUpJobs, payJobs, outside, payment>>
    BY DEF Crash
  <1>2. RowsKept
    BY <1>1, SameRowsKept
  <1>3. \A a \in Confirming : a.payment \in Payments
    BY DEF AInv, ActsAreSound, Sound, Known, Confirming
  <1>4. Types'
    <2>1. topUpActive' \in BOOLEAN
      BY <1>1
    <2>2. faults' \in 0..MaxFaults /\ lost' \subseteq Payments
      BY <1>1, <1>3, BoundsAreNat DEF AInv, Types
    <2>3. QED
      BY <1>1, <2>1, <2>2 DEF AInv, Types, outside
  <1>5. ActsAreSound' /\ IdsDiffer' /\ Workers'
    BY <1>1 DEF ActsAreSound, IdsDiffer, Workers
  <1>6. RowsAreSound'
    BY <1>1 DEF AInv, RowsAreSound, Known, outside
  <1>7. QED
    BY <1>2, <1>4, <1>5, <1>6 DEF AInv

\* What SavePayment leaves of a row and of the activity.
LEMMA SaveFacts ==
    ASSUME AInv, NEW act \in running, SavePayment(act)
    PROVE  /\ act.at = "save" /\ Known(act.payment)
           /\ UNCHANGED <<walletVars, queues, outside, troubles>>
           /\ payment' \in [Payments -> PaymentRow]
           /\ payment'[act.payment].status = IF act.to = "NONE" THEN payment[act.payment].status ELSE act.to
           /\ \A q \in Payments \ {act.payment} : payment'[q] = payment[q]
           /\ RowsKept
           /\ \A q \in Payments : payment[q].status = "NONE" => payment'[q] = payment[q]
           /\ \/ act.kind = "initiatePayment" /\ running' = running \ {act}
              \/ \E new \in Activity :
                     /\ running' = (running \ {act}) \union {new}
                     /\ new.id = act.id /\ new.payment = act.payment
                     /\ new.at = "credit" /\ new.to = "NONE"
                     /\ \/ act.kind = "zeepayWebhook" /\ new.kind = "paymentCompleted"
                        \/ act.kind = "processPayment" /\ new.kind = "processPayment"
  <1> DEFINE p == act.payment
             st == IF act.to = "NONE" THEN payment[p].status ELSE act.to
             more == CASE act.kind = "zeepayWebhook" ->
                         {[act EXCEPT !.kind = "paymentCompleted", !.at = "credit", !.to = "NONE"]}
                       [] act.kind = "processPayment" -> {[act EXCEPT !.at = "credit", !.to = "NONE"]}
                       [] OTHER -> {}
  <1>1. act.at = "save" /\ UNCHANGED <<walletVars, queues, outside, troubles>>
    BY DEF SavePayment
  <1>2. /\ Known(p)
        /\ act.kind \in {"zeepayWebhook", "initiatePayment", "processPayment"}
    BY <1>1 DEF AInv, ActsAreSound, Sound
  <1>3. act \in Activity /\ payment \in [Payments -> PaymentRow]
    BY DEF AInv, Types
  <1>4. st \in Statuses \ {"NONE"}
    BY <1>2, <1>3 DEF Known, Activity, PaymentRow
  <1>5. payment' = [payment EXCEPT ![p] = [payment[p] EXCEPT !.status = st]]
    BY DEF SavePayment
  <1>6. running' = (running \ {act}) \union more
    BY DEF SavePayment
  <1>7. \E to \in Statuses \ {"NONE"} : to = st /\ payment' = [payment EXCEPT ![p].status = to]
    BY <1>4, <1>5
  <1> HIDE DEF st
  <1>8. /\ payment' \in [Payments -> PaymentRow] /\ payment'[p].status = st
        /\ \A q \in Payments \ {p} : payment'[q] = payment[q]
        /\ RowsKept
        /\ \A q \in Payments : payment[q].status = "NONE" => payment'[q] = payment[q]
    BY <1>2, <1>7, NewStatus DEF Known
  <1>9. CASE act.kind = "zeepayWebhook"
    <2> DEFINE a1 == [act EXCEPT !.kind = "paymentCompleted"]
               a2 == [a1 EXCEPT !.at = "credit"]
               a3 == [a2 EXCEPT !.to = "NONE"]
    <2>1. running' = (running \ {act}) \union {a3}
      BY <1>6, <1>9
    <2>2. a1 \in Activity /\ a1.id = act.id /\ a1.payment = act.payment /\ a1.kind = "paymentCompleted"
      BY <1>3 DEF Activity, Kinds
    <2> HIDE DEF a1
    <2>3. a2 \in Activity /\ a2.id = act.id /\ a2.payment = act.payment /\ a2.kind = "paymentCompleted"
          /\ a2.at = "credit"
      BY <2>2 DEF Activity
    <2> HIDE DEF a2
    <2>4. a3 \in Activity /\ a3.id = act.id /\ a3.payment = act.payment /\ a3.kind = "paymentCompleted"
          /\ a3.at = "credit" /\ a3.to = "NONE"
      BY <2>3 DEF Activity, Statuses
    <2> HIDE DEF a3
    <2>5. QED
      BY <1>1, <1>2, <1>8, <1>9, <2>1, <2>4 DEF st
  <1>10. CASE act.kind = "processPayment"
    <2> DEFINE a2 == [act EXCEPT !.at = "credit"]
               a3 == [a2 EXCEPT !.to = "NONE"]
    <2>1. running' = (running \ {act}) \union {a3}
      BY <1>6, <1>10
    <2>2. a2 \in Activity /\ a2.id = act.id /\ a2.payment = act.payment /\ a2.kind = "processPayment"
          /\ a2.at = "credit"
      BY <1>3, <1>10 DEF Activity
    <2> HIDE DEF a2
    <2>3. a3 \in Activity /\ a3.id = act.id /\ a3.payment = act.payment /\ a3.kind = "processPayment"
          /\ a3.at = "credit" /\ a3.to = "NONE"
      BY <2>2 DEF Activity, Statuses
    <2> HIDE DEF a3
    <2>4. QED
      BY <1>1, <1>2, <1>8, <1>10, <2>1, <2>3 DEF st
  <1>11. CASE act.kind = "initiatePayment"
    <2>1. running' = running \ {act}
      BY <1>6, <1>11
    <2>2. QED
      BY <1>1, <1>2, <1>8, <1>11, <2>1 DEF st
  <1>12. QED
    BY <1>2, <1>9, <1>10, <1>11

LEMMA SaveOK ==
    ASSUME AInv, NEW act \in running, SavePayment(act)
    PROVE  AInv' /\ RowsKept
  <1>1. /\ act.at = "save" /\ Known(act.payment)
        /\ UNCHANGED <<queues, outside, troubles>>
        /\ payment' \in [Payments -> PaymentRow]
        /\ RowsKept
        /\ \A q \in Payments : payment[q].status = "NONE" => payment'[q] = payment[q]
    BY SaveFacts
  <1>2. running' \subseteq Activity /\ ActsAreSound' /\ IdsDiffer' /\ Workers'
    <2>1. CASE running' = running \ {act}
      BY <1>1, <2>1, FewerActsOK DEF AInv, Types, Workers, queues
    <2>2. ASSUME NEW new \in Activity,
                 running' = (running \ {act}) \union {new},
                 new.id = act.id, new.payment = act.payment, new.at = "credit",
                 \/ act.kind = "zeepayWebhook" /\ new.kind = "paymentCompleted"
                 \/ act.kind = "processPayment" /\ new.kind = "processPayment"
          PROVE  running' \subseteq Activity /\ ActsAreSound' /\ IdsDiffer' /\ Workers'
      <3>1. Sound(act)
        BY DEF AInv, ActsAreSound
      <3>2. Sound(new)'
        BY <1>1, <2>2, <3>1 DEF Sound, Known, RowsKept
      <3>3. UNCHANGED queues
        BY <1>1
      <3>4. QED
        BY <1>1, <2>2, <3>2, <3>3, SwapOK
    <2>3. QED
      BY <2>1, <2>2, SaveFacts
  <1>3. Types'
    BY <1>1, <1>2 DEF AInv, Types, queues, outside, troubles
  <1>4. RowsAreSound'
    <2>1. \A i \in DOMAIN payJobs' : \E j \in DOMAIN payJobs : payJobs'[i] = payJobs[j]
      BY <1>1 DEF queues
    <2>2. QED
      BY <1>1, <2>1, RowsStay DEF outside
  <1>5. QED
    BY <1>1, <1>2, <1>3, <1>4 DEF AInv

LEMMA NextOK ==
    ASSUME AInv, [Next]_vars
    PROVE  AInv' /\ RowsKept
  <1>1. CASE Clients
    BY <1>1, ClientsOK
  <1>2. CASE Provider
    BY <1>2, ProviderOK
  <1>3. CASE EmitTopUpInitiated \/ CompleteTopUpJob \/ StartProcessPayment
    BY <1>3, JobsOK
  <1>4. ASSUME NEW act \in running,
               \/ Moves(act) \/ Endings(act) \/ CreatePayment(act) \/ EnqueueProcessPayment(act)
               \/ RecordAnswer(act) \/ SavePayment(act)
        PROVE  AInv' /\ RowsKept
    BY <1>4, MovesOK, EndingsOK, CreateOK, EnqueueOK, RecordOK, SaveOK
  <1>5. CASE Crash
    BY <1>5, CrashOK
  <1>6. CASE UNCHANGED vars
    BY <1>6 DEF AInv, Types, ActsAreSound, Sound, Known, IdsDiffer, Workers, RowsAreSound, RowsKept,
       vars, queues, outside, troubles
  <1>7. QED
    BY <1>1, <1>2, <1>3, <1>4, <1>5, <1>6 DEF Next, Works, Faults, Moves, Endings

\* What activities, jobs and payment rows may look like.
THEOREM ShapesHold == Spec => []AInv
  <1>1. AInv /\ [Next]_vars => AInv'
    BY NextOK
  <1>2. QED
    BY InitOK, <1>1, PTL DEF Spec

-----------------------------------------------------------------------------
\* Every step is a step of Wallets, so that what is proved there holds here.

\* The wallet, the amount and the payment of an activity that credits.
LEMMA AskedFor ==
    ASSUME AInv, NEW act \in running, act.at \in {"credit", "flush"}
    PROVE  /\ act.id \in Tasks /\ act.payment \in Payments /\ Known(act.payment)
           /\ payment[act.payment].request \in Requests
           /\ payment[act.payment].request.wallet \in Owners
           /\ payment[act.payment].request.amount \in Amounts
  <1>1. act \in Activity /\ Known(act.payment)
    BY DEF AInv, Types, ActsAreSound, Sound
  <1>2. payment[act.payment].request \in Requests
    BY <1>1 DEF AInv, RowsAreSound, Known
  <1>3. QED
    BY <1>1, <1>2, RequestsAreRecords DEF Activity, Known

LEMMA StepRefines ==
    ASSUME AInv, [Next]_vars
    PROVE  [W!Next]_(W!vars)
  <1>1. CASE UNCHANGED walletVars
    BY <1>1 DEF walletVars, W!vars
  <1>2. ASSUME NEW u \in Owners, NEW b \in Openings, OpenWallet(u, b)
        PROVE  W!Next
    BY <1>2 DEF OpenWallet, W!Next
  <1>3. ASSUME NEW act \in running, ReadWallet(act)
        PROVE  W!Next
    <2> DEFINE r == payment[act.payment].request
    <2>1. act.at = "credit" /\ W!ReadForTopUp(act.id, r.wallet, r.amount, act.payment)
      BY <1>3 DEF ReadWallet
    <2>2. act.id \in Tasks /\ act.payment \in Payments /\ r.wallet \in Owners /\ r.amount \in Amounts
      BY <2>1, AskedFor
    <2> HIDE DEF r
    <2>3. W!Begin
      BY <2>1, <2>2 DEF W!Begin
    <2>4. QED
      BY <2>3 DEF W!Next
  <1>4. ASSUME NEW act \in running, FlushWallet(act) \/ DatabaseFails(act)
        PROVE  [W!Next]_(W!vars)
    <2>1. CASE act.at = "flush"
      <3>1. \E f \in inflight : W!Flush(f) \/ W!RefuseSecondCredit(f) \/ W!FlushFails(f)
        BY <1>4, <2>1 DEF FlushWallet, DatabaseFails
      <3>2. QED
        BY <3>1 DEF W!Next, W!End
    <2>2. CASE act.at # "flush"
      BY <1>1, <1>4, <2>2 DEF FlushWallet, DatabaseFails
    <2>3. QED
      BY <2>1, <2>2
  <1>5. CASE Crash
    <2>1. inflight' = {} /\ UNCHANGED <<wallets, opening, balance, ledger, overlapped>>
      BY <1>5 DEF Crash
    <2>2. CASE inflight = {}
      BY <2>1, <2>2 DEF W!vars
    <2>3. CASE inflight # {}
      BY <2>1, <2>3 DEF W!Next, W!Crash, W!rows
    <2>4. QED
      BY <2>2, <2>3
  <1>6. CASE \/ WalletRoutes \/ PaymentRoutes \/ Provider
            \/ EmitTopUpInitiated \/ CompleteTopUpJob \/ StartProcessPayment
    BY <1>1, <1>6 DEF WalletRoutes, FundWallet, PaymentRoutes, CreatePaymentMethod, InitiatePayment,
       Provider, ZeepayCallback, JunipayCallback, PaystackCallback,
       EmitTopUpInitiated, CompleteTopUpJob, StartProcessPayment
  <1>7. ASSUME NEW act \in running,
               \/ SendRequest(act) \/ PaystackFails(act) \/ JunipayDeclines(act) \/ MomoAccepted(act)
               \/ FindPayment(act) \/ NoPaymentMethod(act) \/ RequestThrows(act)
               \/ PaystackAccepted(act) \/ AnswerTooLong(act) \/ PaymentNotFound(act) \/ NoWallet(act)
               \/ CreatePayment(act) \/ EnqueueProcessPayment(act) \/ RecordAnswer(act)
               \/ SavePayment(act)
        PROVE  UNCHANGED walletVars
    BY <1>7 DEF SendRequest, PaystackFails, JunipayDeclines, MomoAccepted, FindPayment,
       NoPaymentMethod, RequestThrows, PaystackAccepted, AnswerTooLong, PaymentNotFound, NoWallet,
       CreatePayment, EnqueueProcessPayment, RecordAnswer, SavePayment
  <1>8. CASE UNCHANGED vars
    BY <1>1, <1>8 DEF vars
  <1>9. QED
    BY <1>1, <1>2, <1>3, <1>4, <1>5, <1>6, <1>7, <1>8 DEF Next, Clients, Works, Faults

\* Top-ups use the wallets the way WalletRepository lets its callers: what is proved of
\* Wallets, for any callers, is true of the system here.
THEOREM StepsAreWalletSteps == Spec => WalletSteps
  <1>1. Init => W!Init
    BY DEF Init
  <1>2. AInv /\ [Next]_vars => [W!Next]_(W!vars)
    BY StepRefines
  <1>3. QED
    BY <1>1, <1>2, ShapesHold, PTL DEF Spec, WalletSteps, W!Spec

\* The theorems of WalletsProofs, of the wallets here.
WP == INSTANCE WalletsProofs WITH Calls <- Tasks

LEMMA SameInit == W!Init => WP!Init
  BY DEF W!Init, WP!Init

LEMMA SameNext == [W!Next]_(W!vars) => [WP!Next]_(WP!vars)
  <1> SUFFICES ASSUME [W!Next]_(W!vars) PROVE [WP!Next]_(WP!vars)
    OBVIOUS
  <1>1. ASSUME NEW u \in Owners, NEW b \in Openings, W!CreateWallet(u, b)
        PROVE  WP!Next
    <2>1. WP!CreateWallet(u, b)
      BY <1>1 DEF W!CreateWallet, WP!CreateWallet
    <2>2. QED
      BY <2>1 DEF WP!Next
  <1>2. CASE W!Begin
    <2>1. WP!Begin
      BY <1>2 DEF W!Begin, WP!Begin, W!ReadForTopUp, WP!ReadForTopUp, W!ReadForDeduct,
         WP!ReadForDeduct, W!Read, WP!Read, W!rows, WP!rows
    <2>2. QED
      BY <2>1 DEF WP!Next
  <1>3. CASE W!End
    <2>1. WP!End
      BY <1>3 DEF W!End, WP!End, W!Flush, WP!Flush, W!RefuseSecondCredit, WP!RefuseSecondCredit,
         W!FlushFails, WP!FlushFails, W!rows, WP!rows, W!Posted, WP!Posted, W!RowOf, WP!RowOf
    <2>2. QED
      BY <2>1 DEF WP!Next
  <1>4. CASE W!Crash
    <2>1. WP!Crash
      BY <1>4 DEF W!Crash, WP!Crash, W!rows, WP!rows
    <2>2. QED
      BY <2>1 DEF WP!Next
  <1>5. CASE UNCHANGED W!vars
    BY <1>5 DEF W!vars, WP!vars
  <1>6. QED
    BY <1>1, <1>2, <1>3, <1>4, <1>5 DEF W!Next

LEMMA SameSpec == W!Spec => WP!Spec
  BY SameInit, SameNext, PTL DEF W!Spec, WP!Spec

LEMMA WalletAssumptions == WP!PositiveAmounts /\ WP!NaturalOpenings /\ WP!NullIsNoPayment
  BY PositiveAmounts, NaturalOpenings, NullIsNoPayment
  DEF WP!PositiveAmounts, WP!NaturalOpenings, WP!NullIsNoPayment

LEMMA WalletTypes == W!Spec => []W!TypeOK
  <1>1. WP!Spec => []WP!TypeOK
    BY WP!TypeCorrect, WalletAssumptions
  <1>2. WP!TypeOK => W!TypeOK
    BY DEF W!TypeOK, WP!TypeOK, W!Call, WP!Call, W!Row, WP!Row
  <1>3. QED
    BY <1>1, <1>2, SameSpec, PTL

\* However jobs, webhooks and listeners repeat a payment, it tops up at most one wallet,
\* once; and money is neither made nor destroyed in a wallet no two calls have held at
\* once.
THEOREM WalletsAreSafe == Spec => [](W!CreditedOnce /\ W!MoneyConserved)
  <1>1. WP!Spec => []WP!CreditedOnce
    BY WP!AtMostOneCredit, WalletAssumptions
  <1>2. WP!Spec => []WP!MoneyConserved
    BY WP!MoneyIsConserved, WalletAssumptions
  <1>3. WP!CreditedOnce => W!CreditedOnce
    BY DEF W!CreditedOnce, WP!CreditedOnce
  <1>4. WP!MoneyConserved => W!MoneyConserved
    <2>1. \A u, type : W!Units(u, type) = WP!Units(u, type)
      BY DEF W!Units, WP!Units
    <2>2. \A u, type : W!Total(u, type) = WP!Total(u, type)
      BY <2>1 DEF W!Total, WP!Total, W!Cardinality, WP!Cardinality
    <2>3. QED
      BY <2>2 DEF W!MoneyConserved, WP!MoneyConserved
  <1>5. QED
    BY <1>1, <1>2, <1>3, <1>4, SameSpec, StepsAreWalletSteps, PTL DEF WalletSteps

\* Every variable keeps its type, whatever clients, providers and faults do.
THEOREM TypeCorrect == Spec => []TypeOK
  <1>1. AInv /\ W!TypeOK => TypeOK
    BY DEF AInv, Types, TypeOK
  <1>2. QED
    BY <1>1, ShapesHold, StepsAreWalletSteps, WalletTypes, PTL DEF WalletSteps

-----------------------------------------------------------------------------
\* What ties a credit to its request, its payment and its confirmation.

Starters == {act \in running : act.kind \in {"topUpInitiated", "initiatePayment"} /\ act.at # "start"}
Crediting == {act \in running : act.kind = "processPayment" /\ act.at \in {"credit", "flush"}}

\* A wallet read for a top-up belongs to the activity that will flush it, and holds the
\* wallet and the amount of the request.
CallsAreCredits ==
    \A f \in inflight :
        /\ f.type = "CREDIT"
        /\ f.owner = payment[f.payment].request.wallet
        /\ f.amount = payment[f.payment].request.amount
        /\ \E act \in running : act.at = "flush" /\ act.id = f.call /\ act.payment = f.payment

CallsDiffer == \A f, g \in inflight : f.call = g.call => f = g

Called(p) == p \in asked /\ callbacks[p] > 0

\* Only a webhook starts what leads to a credit.
ConfirmedOnly ==
    /\ \A act \in Confirming : Called(act.payment)
    /\ \A i \in DOMAIN payJobs : Called(payJobs[i].payment)

\* One activity puts a payment to its provider; until it does, nobody else touches it.
StartersDiffer == \A a, b \in Starters : a.payment = b.payment => a = b
AskIsFresh ==
    \A act \in running : act.at = "ask" =>
        act.payment \notin asked /\ payment[act.payment].status = "INITIATED"
DeclinedIsNotAsked ==
    \A act \in running : act.at = "answered" /\ act.to = "FAILED" /\ provider = "JUNIPAY" =>
        act.payment \notin asked

\* The worker of process-payment is the only one to credit a Paystack payment, and has
\* found it INITIATED.
CreditedIsSettled ==
    \A p \in Payments : payment[p].route = "paystack" /\ Credited(p) => payment[p].status # "INITIATED"
SavingIsFirst ==
    \A act \in running : act.kind = "processPayment" /\ act.at = "save" =>
        ~Credited(act.payment) /\ payment[act.payment].status \in {"INITIATED", "FAILED"}
CreditingIsFirst ==
    \A act \in Crediting : ~Credited(act.payment) /\ payment[act.payment].status # "INITIATED"

MoneyInv == CallsAreCredits /\ CallsDiffer /\ ConfirmedOnly /\ CreditsAreAskedFor
AskInv == StartersDiffer /\ AskIsFresh /\ DeclinedIsNotAsked /\ FailedMeansRefused
WorkInv == CreditedIsSettled /\ SavingIsFirst /\ CreditingIsFirst
SInv == MoneyInv /\ AskInv /\ WorkInv

-----------------------------------------------------------------------------
\* What bounds the payments of a request.

PaymentsOf(r) == {p \in Payments : payment[p].request = r}

\* The listeners that are about to create a payment.
Openers == {act \in running : act.kind = "topUpInitiated" /\ act.at = "start"}

\* A request that may still lead to a payment, without a further fault.
Open(r) ==
    \/ r \in todo
    \/ \E i \in DOMAIN topUpJobs : topUpJobs[i] = r /\ ~(i = 1 /\ topUpActive)
    \/ \E act \in Openers : act.request = r

JobsDiffer == \A i, j \in DOMAIN topUpJobs : topUpJobs[i] = topUpJobs[j] => i = j
NotAskedTwice ==
    /\ \A i \in DOMAIN topUpJobs : topUpJobs[i] \notin todo
    /\ \A act \in Openers : act.request \notin todo
OneOpener ==
    /\ \A a, b \in Openers : a.request = b.request => a = b
    /\ \A a \in Openers : \A i \in DOMAIN topUpJobs :
           topUpJobs[i] = a.request => i = 1 /\ topUpActive
EmptyRows == \A p \in Payments : payment[p].status = "NONE" => payment[p].request = NoRequest
FewPayments ==
    \A r \in Requests :
        /\ IsFiniteSet(PaymentsOf(r))
        /\ Cardinality(PaymentsOf(r)) <= 1 + faults
        /\ Open(r) => Cardinality(PaymentsOf(r)) <= faults

DInv ==
    /\ JobsDiffer
    /\ NotAskedTwice
    /\ OneOpener
    /\ EmptyRows
    /\ FewPayments

-----------------------------------------------------------------------------
\* SInv is inductive.  First, what each part of it asks of a step that leaves the
\* wallets alone.

LEMMA MoneyStays ==
    ASSUME AInv, AInv', MoneyInv, RowsKept, UNCHANGED <<ledger, inflight>>, asked \subseteq asked',
           \A p \in Payments : callbacks'[p] >= callbacks[p],
           \A a \in running : a.at = "flush" => a \in running',
           \A a \in Confirming' : a \in Confirming \/ (a.payment \in asked' /\ callbacks'[a.payment] > 0),
           \A i \in DOMAIN payJobs' :
               \/ \E j \in DOMAIN payJobs : payJobs'[i] = payJobs[j]
               \/ payJobs'[i].payment \in asked' /\ callbacks'[payJobs'[i].payment] > 0
    PROVE  MoneyInv'
  <1>1. \A p \in Payments : Called(p) => p \in asked' /\ callbacks'[p] > 0
    BY DEF Called, AInv, Types
  <1>2. CallsAreCredits'
    BY DEF MoneyInv, CallsAreCredits, AInv, ActsAreSound, Sound, Known, RowsKept
  <1>3. CallsDiffer'
    BY DEF MoneyInv, CallsDiffer
  <1>4. ConfirmedOnly'
    <2>1. \A a \in Confirming' : a.payment \in asked' /\ callbacks'[a.payment] > 0
      BY <1>1 DEF MoneyInv, ConfirmedOnly, Called, AInv, Types
    <2>2. \A i \in DOMAIN payJobs' : payJobs'[i].payment \in asked' /\ callbacks'[payJobs'[i].payment] > 0
      BY <1>1 DEF MoneyInv, ConfirmedOnly, Called, AInv, Types
    <2>3. QED
      BY <2>1, <2>2 DEF ConfirmedOnly, Called
  <1>5. CreditsAreAskedFor'
    <2> SUFFICES ASSUME NEW u \in Owners, NEW i \in DOMAIN ledger'[u]
                 PROVE  LET row == ledger'[u][i]
                        IN  /\ row.payment \in asked' /\ callbacks'[row.payment] > 0
                            /\ row.amount = payment'[row.payment].request.amount
                            /\ u = payment'[row.payment].request.wallet
      BY DEF CreditsAreAskedFor
    <2> DEFINE row == ledger[u][i]
    <2>1. /\ Called(row.payment) /\ row.amount = payment[row.payment].request.amount
          /\ u = payment[row.payment].request.wallet
      BY DEF MoneyInv, CreditsAreAskedFor, Called
    <2>2. Known(row.payment)
      BY <2>1 DEF AInv, RowsAreSound, Called
    <2> HIDE DEF row
    <2>3. /\ row.payment \in asked' /\ callbacks'[row.payment] > 0
          /\ row.amount = payment'[row.payment].request.amount
          /\ u = payment'[row.payment].request.wallet
      BY <1>1, <2>1, <2>2 DEF Known, RowsKept
    <2>4. QED
      BY <2>3 DEF row
  <1>6. QED
    BY <1>2, <1>3, <1>4, <1>5 DEF MoneyInv

LEMMA AskStays ==
    ASSUME AInv, AInv', AskInv, RowsKept, UNCHANGED <<provider, asked>>,
           \A a \in Starters' : \E b \in Starters : b.payment = a.payment /\ b.id = a.id,
           \A a \in running' : a.at = "ask" => a \in running,
           \A p \in Payments : payment'[p].status # payment[p].status =>
               p \in asked \/ \E b \in Starters : b.at # "ask" /\ b.payment = p,
           \A a \in running' : a.at = "answered" /\ a.to = "FAILED" /\ provider = "JUNIPAY" =>
               a \in running \/ a.payment \notin asked,
           \A p \in Payments :
               payment'[p].route = "momo" /\ payment'[p].status = "FAILED" /\ provider = "JUNIPAY" =>
                   \/ payment[p].route = "momo" /\ payment[p].status = "FAILED"
                   \/ p \notin asked
    PROVE  AskInv'
  <1>1. StartersDiffer'
    BY DEF AskInv, StartersDiffer, AInv, IdsDiffer, Starters
  <1>2. AskIsFresh'
    <2> SUFFICES ASSUME NEW a \in running', a.at = "ask"
                 PROVE  a.payment \notin asked' /\ payment'[a.payment].status = "INITIATED"
      BY DEF AskIsFresh
    <2>1. a \in running /\ Sound(a)
      BY DEF AInv, ActsAreSound
    <2>2. a \in Starters /\ a.payment \in Payments
      BY <2>1 DEF Starters, Sound, Known
    <2>3. QED
      BY <2>1, <2>2 DEF AskInv, AskIsFresh, StartersDiffer
  <1>3. DeclinedIsNotAsked'
    BY DEF AskInv, DeclinedIsNotAsked
  <1>4. FailedMeansRefused'
    BY DEF AskInv, FailedMeansRefused, AInv, Types
  <1>5. QED
    BY <1>1, <1>2, <1>3, <1>4 DEF AskInv

LEMMA WorkStays ==
    ASSUME AInv, AInv', MoneyInv, WorkInv, RowsKept, W!TypeOK, UNCHANGED ledger,
           \A a \in running' : a.kind = "processPayment" /\ a.at = "save" =>
               \/ a \in running
               \/ Known(a.payment) /\ payment[a.payment].route = "paystack" /\ payment[a.payment].status = "INITIATED"
                  /\ payment'[a.payment].status = "INITIATED",
           \A a \in Crediting' :
               \/ a \in Crediting
               \/ /\ payment'[a.payment].status # "INITIATED"
                  /\ \E b \in running : b.kind = "processPayment" /\ b.at = "save" /\ b.payment = a.payment,
           \A p \in Payments :
               payment[p].status # "NONE" /\ payment[p].route = "paystack" /\ payment'[p].status # payment[p].status =>
                   \/ payment'[p].status = "FAILED"
                   \/ /\ payment'[p].status # "INITIATED"
                      /\ \A a \in running' : ~(a.kind = "processPayment" /\ a.at = "save" /\ a.payment = p)
    PROVE  WorkInv'
  <1>1. \A p : Credited(p)' <=> Credited(p)
    BY DEF Credited, W!Posted
  <1>2. \A p \in Payments : Credited(p) => Known(p)
    BY DEF Credited, W!Posted, MoneyInv, CreditsAreAskedFor, AInv, RowsAreSound
  <1>3. CreditedIsSettled'
    BY <1>1, <1>2 DEF WorkInv, CreditedIsSettled, RowsKept, Known
  <1>4. SavingIsFirst'
    <2> SUFFICES ASSUME NEW a \in running', a.kind = "processPayment", a.at = "save"
                 PROVE  ~Credited(a.payment) /\ payment'[a.payment].status \in {"INITIATED", "FAILED"}
      BY <1>1 DEF SavingIsFirst
    <2>1. CASE a \in running
      <3>1. Known(a.payment) /\ payment[a.payment].route = "paystack"
        BY <2>1 DEF AInv, ActsAreSound, Sound
      <3>2. QED
        BY <2>1, <3>1 DEF WorkInv, SavingIsFirst, Known
    <2>2. CASE a \notin running
      BY <2>2 DEF WorkInv, CreditedIsSettled, Known
    <2>3. QED
      BY <2>1, <2>2
  <1>5. CreditingIsFirst'
    <2> SUFFICES ASSUME NEW a \in Crediting'
                 PROVE  ~Credited(a.payment) /\ payment'[a.payment].status # "INITIATED"
      BY <1>1 DEF CreditingIsFirst
    <2>1. CASE a \in Crediting
      <3>1. Known(a.payment) /\ payment[a.payment].route = "paystack"
        BY <2>1 DEF AInv, ActsAreSound, Sound, Crediting
      <3>2. QED
        BY <2>1, <3>1 DEF WorkInv, CreditingIsFirst, Known
    <2>2. CASE a \notin Crediting
      BY <2>2 DEF WorkInv, SavingIsFirst
    <2>3. QED
      BY <2>1, <2>2
  <1>6. QED
    BY <1>3, <1>4, <1>5 DEF WorkInv

\* A step that leaves alone everything SInv speaks of.
LEMMA SilentStep ==
    ASSUME SInv, UNCHANGED <<ledger, inflight, payment, running, asked, callbacks, payJobs, provider>>
    PROVE  SInv'
  <1>1. MoneyInv'
    BY DEF SInv, MoneyInv, CallsAreCredits, CallsDiffer, ConfirmedOnly, Confirming, Called, CreditsAreAskedFor
  <1>2. AskInv'
    BY DEF SInv, AskInv, StartersDiffer, Starters, AskIsFresh, DeclinedIsNotAsked, FailedMeansRefused
  <1>3. WorkInv'
    BY DEF SInv, WorkInv, CreditedIsSettled, SavingIsFirst, CreditingIsFirst, Crediting, Credited, W!Posted
  <1>4. QED
    BY <1>1, <1>2, <1>3 DEF SInv

\* A step that starts an activity, for a payment that may be credited or for none.
LEMMA AddedStep ==
    ASSUME AInv, AInv', SInv, W!TypeOK, NEW new \in Activity, running' = running \union {new},
           UNCHANGED <<ledger, inflight, payment, asked, payJobs, provider>>,
           \A p \in Payments : callbacks'[p] >= callbacks[p],
           \/ new.kind = "topUpInitiated" /\ new.at = "start"
           \/ /\ new.kind \in {"zeepayWebhook", "paystackWebhook", "processPayment"}
              /\ new.at \in {"start", "find"}
              /\ new.payment \in asked /\ callbacks'[new.payment] > 0
    PROVE  SInv'
  <1>1. RowsKept
    BY SameRowsKept
  <1>2. MoneyInv'
    <2>1. \A a \in Confirming' : a \in Confirming \/ (a.payment \in asked' /\ callbacks'[a.payment] > 0)
      BY DEF Confirming
    <2>2. QED
      BY <1>1, <2>1, MoneyStays DEF SInv
  <1>3. AskInv'
    <2>1. \A a \in Starters' : a \in Starters
      BY DEF Starters
    <2>2. \A a \in running' : a.at \in {"ask", "answered"} => a \in running
      OBVIOUS
    <2>3. QED
      BY <1>1, <2>1, <2>2, AskStays DEF SInv
  <1>4. WorkInv'
    <2>1. \A a \in Crediting' : a \in Crediting
      BY DEF Crediting
    <2>2. \A a \in running' : a.at = "save" => a \in running
      OBVIOUS
    <2>3. QED
      BY <1>1, <2>1, <2>2, WorkStays DEF SInv
  <1>5. QED
    BY <1>2, <1>3, <1>4 DEF SInv

\* A step that ends activities which are not about to flush.
LEMMA EndedStep ==
    ASSUME AInv, AInv', SInv, W!TypeOK, RowsKept, running' \subseteq running,
           UNCHANGED <<ledger, inflight, payment, asked, callbacks, provider>>,
           \A a \in running : a.at = "flush" => a \in running',
           \A i \in DOMAIN payJobs' : \/ \E j \in DOMAIN payJobs : payJobs'[i] = payJobs[j]
                                     \/ Called(payJobs'[i].payment)
    PROVE  SInv'
  <1>1. MoneyInv'
    <2>1. \A a \in Confirming' : a \in Confirming
      BY DEF Confirming
    <2>2. \A p \in Payments : callbacks'[p] >= callbacks[p]
      BY DEF AInv, Types
    <2>3. \A i \in DOMAIN payJobs' :
               \/ \E j \in DOMAIN payJobs : payJobs'[i] = payJobs[j]
               \/ payJobs'[i].payment \in asked' /\ callbacks'[payJobs'[i].payment] > 0
      BY DEF Called
    <2>4. QED
      BY <2>1, <2>2, <2>3, MoneyStays DEF SInv
  <1>2. AskInv'
    <2>1. \A a \in Starters' : a \in Starters
      BY DEF Starters
    <2>2. QED
      BY <2>1, AskStays DEF SInv
  <1>3. WorkInv'
    <2>1. \A a \in Crediting' : a \in Crediting
      BY DEF Crediting
    <2>2. QED
      BY <2>1, WorkStays DEF SInv
  <1>4. QED
    BY <1>1, <1>2, <1>3 DEF SInv

\* A step that creates a payment and the activity that will put it to its provider.
LEMMA NewRowStep ==
    ASSUME AInv, AInv', SInv, W!TypeOK, RowsKept, NEW p \in Payments, payment[p].status = "NONE",
           payment'[p].status = "INITIATED", \A q \in Payments \ {p} : payment'[q] = payment[q],
           NEW new \in Activity, new.kind \in {"topUpInitiated", "initiatePayment"}, new.at = "ask",
           new.payment = p, running' \subseteq running \union {new},
           \A a \in running \ running' : a.at = "start",
           UNCHANGED <<ledger, inflight, asked, callbacks, payJobs, provider>>
    PROVE  SInv'
  <1>1. p \notin asked
    BY DEF AInv, RowsAreSound, Known
  <1>2. MoneyInv'
    <2>1. \A a \in Confirming' : a \in Confirming
      BY DEF Confirming
    <2>2. \A q \in Payments : callbacks'[q] >= callbacks[q]
      BY DEF AInv, Types
    <2>3. \A a \in running : a.at = "flush" => a \in running'
      OBVIOUS
    <2>4. \A i \in DOMAIN payJobs' : \E j \in DOMAIN payJobs : payJobs'[i] = payJobs[j]
      OBVIOUS
    <2>5. QED
      BY <2>1, <2>2, <2>3, <2>4, MoneyStays DEF SInv
  <1>3. AskInv'
    <2>1. \A a \in Starters : Known(a.payment) /\ a.payment # p
      BY DEF Starters, AInv, ActsAreSound, Sound, Known
    <2>2. \A a \in Starters' : a \in Starters \/ a = new
      BY DEF Starters
    <2>3. StartersDiffer'
      BY <2>1, <2>2 DEF StartersDiffer, SInv, AskInv
    <2>4. AskIsFresh'
      <3>1. \A a \in running : a.at = "ask" => a \in Starters
        BY DEF Starters, AInv, ActsAreSound, Sound
      <3>2. QED
        BY <1>1, <2>1, <3>1 DEF AskIsFresh, SInv, AskInv, Known
    <2>5. DeclinedIsNotAsked'
      BY DEF DeclinedIsNotAsked, SInv, AskInv
    <2>6. FailedMeansRefused'
      BY DEF FailedMeansRefused, SInv, AskInv
    <2>7. QED
      BY <2>3, <2>4, <2>5, <2>6 DEF AskInv
  <1>4. WorkInv'
    <2>1. \A a \in Crediting' : a \in Crediting
      BY DEF Crediting
    <2>2. \A a \in running' : a.at = "save" => a \in running
      OBVIOUS
    <2>3. QED
      BY <2>1, <2>2, WorkStays DEF SInv
  <1>5. QED
    BY <1>2, <1>3, <1>4 DEF SInv

LEMMA SInitOK ==
    ASSUME Init
    PROVE  SInv
  <1>1. MoneyInv
    BY DEF Init, W!Init, MoneyInv, CallsAreCredits, CallsDiffer, ConfirmedOnly, Confirming, CreditsAreAskedFor
  <1>2. AskInv
    BY DEF Init, AskInv, StartersDiffer, Starters, AskIsFresh, DeclinedIsNotAsked, FailedMeansRefused, NoRow
  <1>3. WorkInv
    BY DEF Init, WorkInv, CreditedIsSettled, SavingIsFirst, CreditingIsFirst, Crediting, NoRow
  <1>4. QED
    BY <1>1, <1>2, <1>3 DEF SInv

LEMMA ClientsSafe ==
    ASSUME AInv, AInv', SInv, W!TypeOK, Clients
    PROVE  SInv'
  <1>1. CASE \E u \in Owners, b \in Openings : OpenWallet(u, b)
    <2>1. UNCHANGED <<ledger, inflight, payment, running, asked, callbacks, payJobs, provider>>
      BY <1>1 DEF OpenWallet, W!CreateWallet, queues, outside
    <2>2. QED
      BY <2>1, SilentStep
  <1>2. CASE WalletRoutes \/ \E u \in Owners : CreatePaymentMethod(u)
    <2>1. UNCHANGED <<ledger, inflight, payment, running, asked, callbacks, payJobs, provider>>
      BY <1>2 DEF WalletRoutes, FundWallet, CreatePaymentMethod, queues, outside, walletVars
    <2>2. QED
      BY <2>1, SilentStep
  <1>3. ASSUME NEW r \in Requests, InitiatePayment(r)
        PROVE  SInv'
    <2> DEFINE p == NextPayment
    <2>1. /\ NewPayment(p, r, "paystack") /\ Start("initiatePayment", "ask", r, p, "NONE")
          /\ UNCHANGED <<walletVars, queues, provider, methods, asked, callbacks, troubles>>
      BY <1>3 DEF InitiatePayment
    <2>2. /\ p \in Payments /\ payment[p].status = "NONE"
          /\ payment' \in [Payments -> PaymentRow]
          /\ payment'[p] = [status |-> "INITIATED", route |-> "paystack", request |-> r]
          /\ \A q \in Payments \ {p} : payment'[q] = payment[q]
          /\ RowsKept
      BY <2>1, NewRow
    <2>3. "initiatePayment" \in Kinds /\ "ask" \in Stages /\ "NONE" \in Statuses
      BY DEF Kinds, Stages, Statuses
    <2> HIDE DEF p
    <2>4. PICK new \in Activity : /\ running' = running \union {new}
                                  /\ new.kind = "initiatePayment" /\ new.at = "ask" /\ new.payment = p
      BY <2>1, <2>2, <2>3, StartFacts
    <2>5. UNCHANGED <<ledger, inflight, asked, callbacks, payJobs, provider>>
      BY <2>1 DEF walletVars, queues
    <2>6. QED
      BY <2>2, <2>4, <2>5, NewRowStep
  <1>4. QED
    BY <1>1, <1>2, <1>3 DEF Clients, PaymentRoutes

LEMMA CreateSafe ==
    ASSUME AInv, AInv', SInv, W!TypeOK, NEW act \in running, CreatePayment(act)
    PROVE  SInv'
  <1> DEFINE p == NextPayment
  <1>1. /\ act.kind = "topUpInitiated" /\ act.at = "start" /\ act \in Activity
        /\ act.request \in Requests
        /\ NewPayment(p, act.request, "momo") /\ Move(act, "ask", p, "NONE")
        /\ UNCHANGED <<walletVars, queues, outside, troubles>>
    BY DEF CreatePayment, AInv, Types, ActsAreSound, Sound
  <1>2. /\ p \in Payments /\ payment[p].status = "NONE"
        /\ payment' \in [Payments -> PaymentRow]
        /\ payment'[p] = [status |-> "INITIATED", route |-> "momo", request |-> act.request]
        /\ \A q \in Payments \ {p} : payment'[q] = payment[q]
        /\ RowsKept
    BY <1>1, NewRow
  <1>3. "ask" \in Stages /\ "NONE" \in Statuses
    BY DEF Stages, Statuses
  <1> HIDE DEF p
  <1>4. PICK new \in Activity : /\ running' = (running \ {act}) \union {new}
                                /\ new.kind = "topUpInitiated" /\ new.at = "ask" /\ new.payment = p
    BY <1>1, <1>2, <1>3, MoveFacts
  <1>5. UNCHANGED <<ledger, inflight, asked, callbacks, payJobs, provider>>
    BY <1>1 DEF walletVars, queues, outside
  <1>6. QED
    BY <1>1, <1>2, <1>4, <1>5, NewRowStep

LEMMA ProviderSafe ==
    ASSUME AInv, AInv', SInv, W!TypeOK, Provider
    PROVE  SInv'
  <1>1. PICK p \in Payments :
            \/ ZeepayCallback(p) \/ JunipayCallback(p)
            \/ \E to \in {"COMPLETED", "FAILED"} : PaystackCallback(p, to)
    BY DEF Provider
  <1>2. /\ UNCHANGED <<ledger, inflight, payment, asked, payJobs, provider>>
        /\ CallsBack(p)
    BY <1>1 DEF ZeepayCallback, JunipayCallback, PaystackCallback, walletVars, queues
  <1>3. p \in asked /\ callbacks'[p] > 0 /\ \A q \in Payments : callbacks'[q] >= callbacks[q]
    BY <1>2, BoundsAreNat DEF CallsBack, AInv, Types
  <1>4. CASE ZeepayCallback(p)
    <2>1. Start("zeepayWebhook", "find", NoRequest, p, "COMPLETED")
      BY <1>4 DEF ZeepayCallback
    <2>2. "zeepayWebhook" \in Kinds /\ "find" \in Stages /\ "COMPLETED" \in Statuses
          /\ NoRequest \in Requests \union {NoRequest}
      BY DEF Kinds, Stages, Statuses
    <2>3. PICK new \in Activity : /\ running' = running \union {new}
                                  /\ new.kind = "zeepayWebhook" /\ new.at = "find" /\ new.payment = p
      BY <2>1, <2>2, StartFacts
    <2>4. QED
      BY <1>2, <1>3, <2>3, AddedStep
  <1>5. CASE JunipayCallback(p)
    <2>1. running' = running
      BY <1>5 DEF JunipayCallback
    <2>2. RowsKept
      BY <1>2, SameRowsKept
    <2>3. MoneyInv'
      <3>1. \A a \in Confirming' : a \in Confirming
        BY <2>1 DEF Confirming
      <3>2. \A i \in DOMAIN payJobs' : \E j \in DOMAIN payJobs : payJobs'[i] = payJobs[j]
        BY <1>2
      <3>3. \A a \in running : a.at = "flush" => a \in running'
        BY <2>1
      <3>4. QED
        BY <1>2, <1>3, <2>2, <3>1, <3>2, <3>3, MoneyStays DEF SInv
    <2>4. AskInv' /\ WorkInv'
      BY <1>2, <2>1 DEF SInv, AskInv, StartersDiffer, Starters, AskIsFresh, DeclinedIsNotAsked,
         FailedMeansRefused, WorkInv, CreditedIsSettled, SavingIsFirst, CreditingIsFirst, Crediting,
         Credited, W!Posted
    <2>5. QED
      BY <2>3, <2>4 DEF SInv
  <1>6. ASSUME NEW to \in {"COMPLETED", "FAILED"}, PaystackCallback(p, to)
        PROVE  SInv'
    <2>1. Start("paystackWebhook", "start", NoRequest, p, to)
      BY <1>6 DEF PaystackCallback
    <2>2. "paystackWebhook" \in Kinds /\ "start" \in Stages /\ to \in Statuses
          /\ NoRequest \in Requests \union {NoRequest}
      BY <1>6 DEF Kinds, Stages, Statuses
    <2>3. PICK new \in Activity : /\ running' = running \union {new}
                                  /\ new.kind = "paystackWebhook" /\ new.at = "start" /\ new.payment = p
      BY <2>1, <2>2, StartFacts
    <2>4. QED
      BY <1>2, <1>3, <2>3, AddedStep
  <1>7. QED
    BY <1>1, <1>4, <1>5, <1>6

LEMMA JobsSafe ==
    ASSUME AInv, AInv', SInv, W!TypeOK, EmitTopUpInitiated \/ CompleteTopUpJob \/ StartProcessPayment
    PROVE  SInv'
  <1>1. /\ UNCHANGED <<ledger, inflight, payment, asked, callbacks, payJobs, provider>>
        /\ \A q \in Payments : callbacks'[q] >= callbacks[q]
    BY DEF EmitTopUpInitiated, CompleteTopUpJob, StartProcessPayment, walletVars, queues, outside,
       AInv, Types
  <1>2. CASE EmitTopUpInitiated
    <2>1. topUpJobs # <<>> /\ Start("topUpInitiated", "start", Head(topUpJobs), NoPayment, "NONE")
      BY <1>2 DEF EmitTopUpInitiated
    <2>2. PICK r \in Requests : Start("topUpInitiated", "start", r, NoPayment, "NONE")
      BY <2>1, TailFacts DEF AInv, Types
    <2>3. "topUpInitiated" \in Kinds /\ "start" \in Stages /\ "NONE" \in Statuses
          /\ NoPayment \in Payments \union {NoPayment} /\ r \in Requests \union {NoRequest}
      BY DEF Kinds, Stages, Statuses
    <2>4. PICK new \in Activity : /\ running' = running \union {new}
                                  /\ new.kind = "topUpInitiated" /\ new.at = "start"
      BY <2>2, <2>3, StartFacts
    <2>5. QED
      BY <1>1, <2>4, AddedStep
  <1>3. CASE CompleteTopUpJob
    <2>1. running' = running
      BY <1>3 DEF CompleteTopUpJob
    <2>2. QED
      BY <1>1, <2>1, SilentStep
  <1>4. CASE StartProcessPayment
    <2>1. /\ payJobs # <<>>
          /\ Start("processPayment", "find", NoRequest, Head(payJobs).payment, Head(payJobs).to)
      BY <1>4 DEF StartProcessPayment
    <2>2. Head(payJobs) = payJobs[1] /\ 1 \in DOMAIN payJobs
          /\ Head(payJobs) \in [payment : Payments, to : {"COMPLETED", "FAILED"}]
      BY <2>1, TailFacts DEF AInv, Types
    <2>3. Called(Head(payJobs).payment)
      BY <2>2 DEF SInv, MoneyInv, ConfirmedOnly
    <2>4. PICK p \in Payments, to \in Statuses :
              Called(p) /\ Start("processPayment", "find", NoRequest, p, to)
      BY <2>1, <2>2, <2>3 DEF Statuses
    <2>5. "processPayment" \in Kinds /\ "find" \in Stages
          /\ NoRequest \in Requests \union {NoRequest}
      BY DEF Kinds, Stages
    <2>6. PICK new \in Activity : /\ running' = running \union {new}
                                  /\ new.kind = "processPayment" /\ new.at = "find" /\ new.payment = p
      BY <2>4, <2>5, StartFacts
    <2>7. new.payment \in asked /\ callbacks'[new.payment] > 0
      BY <1>1, <2>4, <2>6 DEF Called
    <2>8. QED
      BY <1>1, <2>6, <2>7, AddedStep
  <1>5. QED
    BY <1>2, <1>3, <1>4

\* Moving on before the wallet is read.
LEMMA MovesSafe ==
    ASSUME AInv, AInv', SInv, W!TypeOK, NEW act \in running,
           \/ SendRequest(act) \/ PaystackFails(act) \/ JunipayDeclines(act) \/ MomoAccepted(act)
           \/ FindPayment(act)
    PROVE  SInv'
  <1>1. UNCHANGED <<ledger, inflight, payment, callbacks, payJobs, provider>>
    BY DEF SendRequest, PaystackFails, JunipayDeclines, MomoAccepted, FindPayment, walletVars, queues, outside
  <1>2. RowsKept
    BY <1>1, SameRowsKept
  <1>3. act \in Activity /\ Sound(act) /\ act.at \in {"ask", "waiting", "find"}
    BY DEF AInv, Types, ActsAreSound, SendRequest, PaystackFails, JunipayDeclines, MomoAccepted, FindPayment
  <1>4. Known(act.payment)
    BY <1>3 DEF Sound
  <1>5. {"NONE", "FAILED", "PENDING"} \subseteq Statuses /\ {"waiting", "find", "answered", "save"} \subseteq Stages
    BY DEF Statuses, Stages
  <1>6. \E new \in Activity :
            /\ running' = (running \ {act}) \union {new}
            /\ new.id = act.id /\ new.kind = act.kind /\ new.payment = act.payment
            /\ \/ /\ act.at = "ask" /\ new.at = "waiting" /\ asked' = asked \union {act.payment}
               \/ /\ act.kind = "initiatePayment" /\ new.at = "find" /\ asked' = asked
               \/ /\ act.kind = "topUpInitiated" /\ new.at = "answered" /\ asked' = asked
                  /\ new.to = "FAILED" /\ provider = "JUNIPAY" => act.at = "ask"
               \/ /\ act.at = "find" /\ new.at = "save" /\ Matches(act) /\ asked' = asked
    <2>1. CASE SendRequest(act)
      <3>1. /\ act.at = "ask" /\ asked' = asked \union {act.payment}
            /\ Move(act, "waiting", act.payment, "NONE")
        BY <2>1 DEF SendRequest
      <3>2. PICK new \in Activity :
                /\ running' = (running \ {act}) \union {new}
                /\ new.id = act.id /\ new.kind = act.kind /\ new.payment = act.payment
                /\ new.at = "waiting"
        BY <1>3, <1>4, <1>5, <3>1, MoveFacts DEF Known
      <3>3. QED
        BY <3>1, <3>2
    <2>2. CASE PaystackFails(act)
      <3>1. /\ act.kind = "initiatePayment" /\ asked' = asked
            /\ Move(act, "find", act.payment, "FAILED")
        BY <2>2 DEF PaystackFails, outside
      <3>2. PICK new \in Activity :
                /\ running' = (running \ {act}) \union {new}
                /\ new.id = act.id /\ new.kind = act.kind /\ new.payment = act.payment
                /\ new.at = "find"
        BY <1>3, <1>4, <1>5, <3>1, MoveFacts DEF Known
      <3>3. QED
        BY <3>1, <3>2
    <2>3. CASE JunipayDeclines(act)
      <3>1. /\ act.kind = "topUpInitiated" /\ asked' = asked /\ act.at = "ask"
            /\ Move(act, "answered", act.payment, "FAILED")
        BY <2>3 DEF JunipayDeclines, outside
      <3>2. PICK new \in Activity :
                /\ running' = (running \ {act}) \union {new}
                /\ new.id = act.id /\ new.kind = act.kind /\ new.payment = act.payment
                /\ new.at = "answered"
        BY <1>3, <1>4, <1>5, <3>1, MoveFacts DEF Known
      <3>3. QED
        BY <3>1, <3>2
    <2>4. CASE MomoAccepted(act)
      <3>1. PICK to \in Statuses :
                /\ act.kind = "topUpInitiated" /\ asked' = asked
                /\ Move(act, "answered", act.payment, to)
                /\ provider = "JUNIPAY" => to = "PENDING"
        BY <1>5, <2>4 DEF MomoAccepted, outside
      <3>2. PICK new \in Activity :
                /\ running' = (running \ {act}) \union {new}
                /\ new.id = act.id /\ new.kind = act.kind /\ new.payment = act.payment
                /\ new.at = "answered" /\ new.to = to
        BY <1>3, <1>4, <1>5, <3>1, MoveFacts DEF Known
      <3>3. QED
        BY <3>1, <3>2
    <2>5. CASE FindPayment(act)
      <3>1. act.to \in Statuses
        BY <1>3 DEF Activity
      <3>2. PICK to \in Statuses :
                /\ act.at = "find" /\ Matches(act) /\ asked' = asked
                /\ Move(act, "save", act.payment, to)
        BY <1>5, <2>5, <3>1 DEF FindPayment, outside
      <3>3. PICK new \in Activity :
                /\ running' = (running \ {act}) \union {new}
                /\ new.id = act.id /\ new.kind = act.kind /\ new.payment = act.payment
                /\ new.at = "save"
        BY <1>3, <1>4, <1>5, <3>2, MoveFacts DEF Known
      <3>4. QED
        BY <3>2, <3>3
    <2>6. QED
      BY <2>1, <2>2, <2>3, <2>4, <2>5
  <1>7. PICK new \in Activity :
            /\ running' = (running \ {act}) \union {new}
            /\ new.id = act.id /\ new.kind = act.kind /\ new.payment = act.payment
            /\ \/ /\ act.at = "ask" /\ new.at = "waiting" /\ asked' = asked \union {act.payment}
               \/ /\ act.kind = "initiatePayment" /\ new.at = "find" /\ asked' = asked
               \/ /\ act.kind = "topUpInitiated" /\ new.at = "answered" /\ asked' = asked
                  /\ new.to = "FAILED" /\ provider = "JUNIPAY" => act.at = "ask"
               \/ /\ act.at = "find" /\ new.at = "save" /\ Matches(act) /\ asked' = asked
    BY <1>6
  <1>8. MoneyInv'
    <2>1. \A a \in Confirming' : Called(a.payment)
      BY <1>7 DEF SInv, MoneyInv, ConfirmedOnly, Confirming
    <2>2. asked \subseteq asked'
      BY <1>7
    <2>3. \A a \in Confirming' : a.payment \in asked' /\ callbacks'[a.payment] > 0
      BY <1>1, <2>1, <2>2 DEF Called
    <2>4. \A q \in Payments : callbacks'[q] >= callbacks[q]
      BY <1>1 DEF AInv, Types
    <2>5. \A a \in running : a.at = "flush" => a \in running'
      BY <1>3, <1>7
    <2>6. \A i \in DOMAIN payJobs' : \E j \in DOMAIN payJobs : payJobs'[i] = payJobs[j]
      BY <1>1
    <2>7. QED
      BY <1>1, <1>2, <2>2, <2>3, <2>4, <2>5, <2>6, MoneyStays DEF SInv
  <1>9. AskInv'
    <2>1. \A a \in Starters' : a \in Starters \/ (a = new /\ act \in Starters)
      BY <1>3, <1>7 DEF Starters
    <2>2. CASE asked' = asked
      <3>1. \A a \in Starters' : \E b \in Starters : b.payment = a.payment /\ b.id = a.id
        BY <1>7, <2>1
      <3>2. \A a \in running' : a.at = "ask" => a \in running
        BY <1>7
      <3>3. \A a \in running' : a.at = "answered" /\ a.to = "FAILED" /\ provider = "JUNIPAY" =>
                a \in running \/ a.payment \notin asked
        BY <1>7 DEF SInv, AskInv, AskIsFresh
      <3>4. QED
        BY <1>1, <1>2, <2>2, <3>1, <3>2, <3>3, AskStays DEF SInv
    <2>3. CASE act.at = "ask" /\ new.at = "waiting" /\ asked' = asked \union {act.payment}
      <3>1. act \in Starters
        BY <1>3, <2>3 DEF Starters, Sound
      <3>2. StartersDiffer'
        BY <1>7, <2>1 DEF SInv, AskInv, StartersDiffer, Starters
      <3>3. \A a \in running' : a.at \in {"ask", "answered"} => a \in Starters /\ a # act
        BY <1>7, <2>3 DEF AInv, ActsAreSound, IdsDiffer, Sound, Starters
      <3>4. \A a \in running' : a.at \in {"ask", "answered"} => a.payment # act.payment
        BY <3>1, <3>3 DEF SInv, AskInv, StartersDiffer
      <3>5. AskIsFresh'
        BY <1>1, <2>3, <3>3, <3>4 DEF SInv, AskInv, AskIsFresh, Starters
      <3>6. DeclinedIsNotAsked'
        BY <1>1, <2>3, <3>3, <3>4 DEF SInv, AskInv, DeclinedIsNotAsked, Starters
      <3>7. FailedMeansRefused'
        BY <1>1, <2>3 DEF SInv, AskInv, FailedMeansRefused, AskIsFresh
      <3>8. QED
        BY <3>2, <3>5, <3>6, <3>7 DEF AskInv
    <2>4. QED
      BY <1>7, <2>2, <2>3
  <1>10. WorkInv'
    <2>1. \A a \in Crediting' : a \in Crediting
      BY <1>7 DEF Crediting
    <2>2. \A a \in running' : a.kind = "processPayment" /\ a.at = "save" =>
             \/ a \in running
             \/ Known(a.payment) /\ payment[a.payment].route = "paystack" /\ payment[a.payment].status = "INITIATED"
                /\ payment'[a.payment].status = "INITIATED"
      <3> SUFFICES ASSUME new.kind = "processPayment", new.at = "save"
                   PROVE  payment[new.payment].route = "paystack" /\ payment[new.payment].status = "INITIATED"
        BY <1>1, <1>4, <1>7
      <3>1. act.at = "find" /\ Matches(act) /\ act.kind = "processPayment"
        BY <1>7
      <3>2. QED
        BY <1>3, <1>7, <3>1 DEF Sound, Matches
    <2>3. QED
      BY <1>1, <1>2, <2>1, <2>2, WorkStays DEF SInv
  <1>11. QED
    BY <1>8, <1>9, <1>10 DEF SInv

\* topUpWallet has read the wallet.
LEMMA ReadSafe ==
    ASSUME AInv, AInv', SInv, W!TypeOK, NEW act \in running, ReadWallet(act)
    PROVE  SInv'
  <1> DEFINE r == payment[act.payment].request
             f == [call |-> act.id, type |-> "CREDIT", owner |-> r.wallet, amount |-> r.amount,
                   before |-> balance[r.wallet], payment |-> act.payment]
  <1>1. /\ act.at = "credit" /\ Move(act, "flush", act.payment, "NONE")
        /\ act.id \notin {g.call : g \in inflight}
        /\ inflight' = inflight \union {f}
        /\ UNCHANGED <<ledger, payment, asked, callbacks, payJobs, provider>>
    BY DEF ReadWallet, W!ReadForTopUp, W!Read, W!rows, queues, outside
  <1>2. /\ f.call = act.id /\ f.type = "CREDIT" /\ f.owner = payment[f.payment].request.wallet
        /\ f.amount = payment[f.payment].request.amount /\ f.payment = act.payment
    OBVIOUS
  <1> HIDE DEF f, r
  <1>3. RowsKept /\ act \in Activity /\ act.payment \in Payments /\ "flush" \in Stages /\ "NONE" \in Statuses
    BY <1>1, SameRowsKept, AskedFor DEF AInv, Types, Stages, Statuses
  <1>4. PICK new \in Activity :
            /\ running' = (running \ {act}) \union {new}
            /\ new.id = act.id /\ new.kind = act.kind /\ new.payment = act.payment /\ new.at = "flush"
    BY <1>1, <1>3, MoveFacts
  <1>5. MoneyInv'
    <2>1. CallsAreCredits'
      <3>1. \A a \in running : a.at = "flush" => a \in running'
        BY <1>1, <1>4
      <3>2. QED
        BY <1>1, <1>2, <1>4, <3>1 DEF SInv, MoneyInv, CallsAreCredits
    <2>2. CallsDiffer'
      BY <1>1, <1>2 DEF SInv, MoneyInv, CallsDiffer
    <2>3. ConfirmedOnly'
      BY <1>1, <1>4 DEF SInv, MoneyInv, ConfirmedOnly, Confirming, Called
    <2>4. CreditsAreAskedFor'
      BY <1>1 DEF SInv, MoneyInv, CreditsAreAskedFor
    <2>5. QED
      BY <2>1, <2>2, <2>3, <2>4 DEF MoneyInv
  <1>6. AskInv'
    <2>1. \A a \in Starters' : a \in Starters
      <3>1. act.kind \notin {"topUpInitiated", "initiatePayment"}
        BY <1>1 DEF AInv, ActsAreSound, Sound
      <3>2. QED
        BY <1>4, <3>1 DEF Starters
    <2>2. \A a \in running' : a.at \in {"ask", "answered"} => a \in running
      BY <1>4
    <2>3. QED
      BY <1>1, <1>3, <2>1, <2>2, AskStays DEF SInv
  <1>7. WorkInv'
    <2>1. \A p : Credited(p)' <=> Credited(p)
      BY <1>1 DEF Credited, W!Posted
    <2>2. CreditedIsSettled'
      BY <1>1, <2>1 DEF SInv, WorkInv, CreditedIsSettled
    <2>3. SavingIsFirst'
      BY <1>1, <1>4, <2>1 DEF SInv, WorkInv, SavingIsFirst
    <2>4. CreditingIsFirst'
      BY <1>1, <1>4, <2>1 DEF SInv, WorkInv, CreditingIsFirst, Crediting
    <2>5. QED
      BY <2>2, <2>3, <2>4 DEF WorkInv
  <1>8. QED
    BY <1>5, <1>6, <1>7 DEF SInv

LEMMA EnqueueSafe ==
    ASSUME AInv, AInv', SInv, W!TypeOK, NEW act \in running, EnqueueProcessPayment(act)
    PROVE  SInv'
  <1> DEFINE job == [payment |-> act.payment, to |-> act.to]
  <1>1. /\ act.kind = "paystackWebhook" /\ act.at = "start"
        /\ payJobs' = Append(payJobs, job) /\ running' = running \ {act}
        /\ UNCHANGED <<ledger, inflight, payment, asked, callbacks, provider>>
    BY DEF EnqueueProcessPayment, walletVars, outside
  <1>2. RowsKept
    BY <1>1, SameRowsKept
  <1>3. /\ act \in Activity /\ act.payment \in Payments /\ act.to \in {"COMPLETED", "FAILED"}
        /\ Called(act.payment)
    BY <1>1 DEF AInv, Types, ActsAreSound, Sound, Known, SInv, MoneyInv, ConfirmedOnly, Confirming
  <1>4. job \in [payment : Payments, to : {"COMPLETED", "FAILED"}] /\ Called(job.payment)
    BY <1>3
  <1> HIDE DEF job
  <1>5. payJobs \in Seq([payment : Payments, to : {"COMPLETED", "FAILED"}])
    BY DEF AInv, Types
  <1>6. \A i \in DOMAIN payJobs' : payJobs'[i] = job \/ (i \in DOMAIN payJobs /\ payJobs'[i] = payJobs[i])
    BY <1>1, <1>4, <1>5, AppendFacts
  <1>7. \A i \in DOMAIN payJobs' : \/ \E j \in DOMAIN payJobs : payJobs'[i] = payJobs[j]
                                   \/ Called(payJobs'[i].payment)
    BY <1>4, <1>6
  <1>8. QED
    BY <1>1, <1>2, <1>7, EndedStep

\* The endings that leave the wallets alone.
LEMMA EndingsSafe ==
    ASSUME AInv, AInv', SInv, W!TypeOK, NEW act \in running, Endings(act), act.at # "flush"
    PROVE  SInv'
  <1>1. Ends(act) /\ UNCHANGED <<outside, payment>>
    BY DEF Endings, NoPaymentMethod, RequestThrows, PaystackAccepted, AnswerTooLong,
       PaymentNotFound, NoWallet, FlushWallet, DatabaseFails
  <1>2. RowsKept
    BY <1>1, SameRowsKept
  <1>3. UNCHANGED <<ledger, inflight>>
    BY DEF Endings, NoPaymentMethod, RequestThrows, PaystackAccepted, AnswerTooLong,
       PaymentNotFound, NoWallet, FlushWallet, DatabaseFails, walletVars
  <1>4. \A i \in DOMAIN payJobs' : \E j \in DOMAIN payJobs : payJobs'[i] = payJobs[j]
    BY <1>1, <1>2, EndsOK
  <1>5. running' = running \ {act}
    BY <1>1 DEF Ends
  <1>6. QED
    BY <1>1, <1>2, <1>3, <1>4, <1>5, EndedStep DEF outside

\* The answer to a debit of Zeepay or Junipay is written: whatever the row says by now.
LEMMA RecordSafe ==
    ASSUME AInv, AInv', SInv, W!TypeOK, NEW act \in running, RecordAnswer(act)
    PROVE  SInv'
  <1>1. /\ payment' = [payment EXCEPT ![act.payment].status = act.to]
        /\ act.at = "answered" /\ Ends(act)
        /\ UNCHANGED <<ledger, inflight, asked, callbacks, provider>>
    BY DEF RecordAnswer, walletVars, outside
  <1>2. /\ Known(act.payment) /\ act.kind = "topUpInitiated" /\ payment[act.payment].route = "momo"
        /\ act.to \in {"PENDING", "FAILED"} /\ act.to \in Statuses \ {"NONE"}
    BY <1>1 DEF AInv, ActsAreSound, Sound, Statuses
  <1>3. /\ payment'[act.payment].status = act.to
        /\ \A q \in Payments \ {act.payment} : payment'[q] = payment[q]
        /\ RowsKept
        /\ \A q \in Payments : payment[q].status = "NONE" => payment'[q] = payment[q]
    BY <1>1, <1>2, NewStatus DEF Known
  <1>4. /\ running' = running \ {act}
        /\ \A i \in DOMAIN payJobs' : \E j \in DOMAIN payJobs : payJobs'[i] = payJobs[j]
    BY <1>1, <1>3, EndsOK DEF Ends
  <1>5. MoneyInv'
    <2>1. \A a \in Confirming' : a \in Confirming
      BY <1>4 DEF Confirming
    <2>2. \A p \in Payments : callbacks'[p] >= callbacks[p]
      BY <1>1 DEF AInv, Types
    <2>3. \A a \in running : a.at = "flush" => a \in running'
      BY <1>1, <1>4
    <2>4. QED
      BY <1>1, <1>3, <1>4, <2>1, <2>2, <2>3, MoneyStays DEF SInv
  <1>6. AskInv'
    <2>1. \A a \in Starters' : a \in Starters
      BY <1>4 DEF Starters
    <2>2. \A p \in Payments : payment'[p].status # payment[p].status =>
              \E b \in Starters : b.at # "ask" /\ b.payment = p
      BY <1>1, <1>2, <1>3 DEF Starters
    <2>3. \A p \in Payments :
              payment'[p].route = "momo" /\ payment'[p].status = "FAILED" /\ provider = "JUNIPAY" =>
                  (payment[p].route = "momo" /\ payment[p].status = "FAILED") \/ p \notin asked
      BY <1>1, <1>3 DEF SInv, AskInv, DeclinedIsNotAsked
    <2>4. QED
      BY <1>1, <1>3, <1>4, <2>1, <2>2, <2>3, AskStays DEF SInv
  <1>7. WorkInv'
    <2>1. \A a \in Crediting' : a \in Crediting
      BY <1>4 DEF Crediting
    <2>2. \A p \in Payments : payment[p].route = "paystack" => payment'[p] = payment[p]
      BY <1>2, <1>3
    <2>3. QED
      BY <1>1, <1>3, <1>4, <2>1, <2>2, WorkStays DEF SInv
  <1>8. QED
    BY <1>5, <1>6, <1>7 DEF SInv

\* A webhook's status, or the failure of Paystack's answer, is written.
LEMMA SaveSafe ==
    ASSUME AInv, AInv', SInv, W!TypeOK, NEW act \in running, SavePayment(act)
    PROVE  SInv'
  <1>1. /\ act.at = "save" /\ Known(act.payment)
        /\ UNCHANGED <<ledger, inflight, asked, callbacks, payJobs, provider>>
        /\ payment'[act.payment].status = IF act.to = "NONE" THEN payment[act.payment].status ELSE act.to
        /\ \A q \in Payments \ {act.payment} : payment'[q] = payment[q]
        /\ RowsKept
        /\ \A q \in Payments : payment[q].status = "NONE" => payment'[q] = payment[q]
    BY SaveFacts DEF walletVars, queues, outside
  <1>2. /\ \/ act.kind = "zeepayWebhook" /\ payment[act.payment].route = "momo" /\ act.to \in {"COMPLETED", "NONE"}
           \/ act.kind = "initiatePayment" /\ payment[act.payment].route = "paystack" /\ act.to = "FAILED"
           \/ act.kind = "processPayment" /\ payment[act.payment].route = "paystack"
              /\ act.to \in {"COMPLETED", "FAILED"}
    BY <1>1 DEF AInv, ActsAreSound, Sound
  <1>3. act.kind # "initiatePayment" => Called(act.payment)
    BY <1>2 DEF SInv, MoneyInv, ConfirmedOnly, Confirming
  <1>4. \A a \in running' :
            \/ a \in running /\ a # act
            \/ /\ a.payment = act.payment /\ a.at = "credit"
               /\ \/ act.kind = "zeepayWebhook" /\ a.kind = "paymentCompleted"
                  \/ act.kind = "processPayment" /\ a.kind = "processPayment"
    BY SaveFacts
  <1>5. \A a \in running \ {act} : a \in running'
    BY SaveFacts
  <1>6. MoneyInv'
    <2>1. \A a \in Confirming' : a \in Confirming \/ (a.payment \in asked' /\ callbacks'[a.payment] > 0)
      BY <1>1, <1>3, <1>4 DEF Confirming, Called
    <2>2. \A p \in Payments : callbacks'[p] >= callbacks[p]
      BY <1>1 DEF AInv, Types
    <2>3. \A a \in running : a.at = "flush" => a \in running'
      BY <1>1, <1>5
    <2>4. \A i \in DOMAIN payJobs' : \E j \in DOMAIN payJobs : payJobs'[i] = payJobs[j]
      BY <1>1
    <2>5. QED
      BY <1>1, <2>1, <2>2, <2>3, <2>4, MoneyStays DEF SInv
  <1>7. AskInv'
    <2>1. \A a \in Starters' : a \in Starters
      BY <1>4 DEF Starters
    <2>2. \A p \in Payments : payment'[p].status # payment[p].status =>
              p \in asked \/ \E b \in Starters : b.at # "ask" /\ b.payment = p
      BY <1>1, <1>2, <1>3 DEF Starters, Called
    <2>3. \A a \in running' : a.at \in {"ask", "answered"} => a \in running
      BY <1>4
    <2>4. \A p \in Payments :
              payment'[p].route = "momo" /\ payment'[p].status = "FAILED" =>
                  payment[p].route = "momo" /\ payment[p].status = "FAILED"
      BY <1>1, <1>2 DEF Known, RowsKept
    <2>5. QED
      BY <1>1, <2>1, <2>2, <2>3, <2>4, AskStays DEF SInv
  <1>8. WorkInv'
    <2>1. \A a \in Crediting' :
              \/ a \in Crediting
              \/ /\ payment'[a.payment].status # "INITIATED"
                 /\ \E b \in running : b.kind = "processPayment" /\ b.at = "save" /\ b.payment = a.payment
      BY <1>1, <1>2, <1>4 DEF Crediting
    <2>2. \A a \in running' : a.at = "save" => a \in running /\ a # act
      BY <1>4
    <2>3. \A p \in Payments :
              payment[p].status # "NONE" /\ payment[p].route = "paystack" /\ payment'[p].status # payment[p].status =>
                  \/ payment'[p].status = "FAILED"
                  \/ /\ payment'[p].status # "INITIATED"
                     /\ \A a \in running' : ~(a.kind = "processPayment" /\ a.at = "save" /\ a.payment = p)
      BY <1>1, <1>2, <2>2 DEF AInv, Workers
    <2>4. QED
      BY <1>1, <2>1, <2>2, <2>3, WorkStays DEF SInv
  <1>9. QED
    BY <1>6, <1>7, <1>8 DEF SInv

LEMMA CrashSafe ==
    ASSUME AInv, AInv', SInv, W!TypeOK, Crash
    PROVE  SInv'
  <1>1. /\ running' = {} /\ inflight' = {}
        /\ UNCHANGED <<ledger, payment, asked, callbacks, payJobs, provider>>
    BY DEF Crash, outside
  <1>2. MoneyInv'
    BY <1>1 DEF SInv, MoneyInv, CallsAreCredits, CallsDiffer, ConfirmedOnly, Confirming, Called,
       CreditsAreAskedFor
  <1>3. AskInv'
    BY <1>1 DEF SInv, AskInv, StartersDiffer, Starters, AskIsFresh, DeclinedIsNotAsked, FailedMeansRefused
  <1>4. WorkInv'
    BY <1>1 DEF SInv, WorkInv, CreditedIsSettled, SavingIsFirst, CreditingIsFirst, Crediting,
       Credited, W!Posted
  <1>5. QED
    BY <1>2, <1>3, <1>4 DEF SInv

\* The row that topUpWallet commits.
LEMMA FlushedRow ==
    ASSUME W!TypeOK, NEW f \in inflight, f.type = "CREDIT"
    PROVE  /\ ledger \in [Owners -> Seq(W!Row)] /\ f.owner \in Owners
           /\ W!RowOf(f) \in W!Row
           /\ W!RowOf(f).payment = f.payment /\ W!RowOf(f).amount = f.amount
  <1> DEFINE row == W!RowOf(f)
  <1>1. f \in W!Call /\ ledger \in [Owners -> Seq(W!Row)]
    BY DEF W!TypeOK
  <1>2. /\ f.amount \in Amounts /\ f.before \in Nat /\ f.owner \in Owners
        /\ f.payment \in Payments \union {NoPayment}
    BY <1>1 DEF W!Call
  <1>3. f.before + f.amount \in Nat
    <2>1. f.amount \in Nat
      BY <1>2, PositiveAmounts
    <2>2. \A m, n \in Nat : m + n \in Nat
      OBVIOUS
    <2>3. QED
      BY <1>2, <2>1, <2>2
  <1>4. row = [type |-> "CREDIT", amount |-> f.amount, before |-> f.before,
               after |-> f.before + f.amount, payment |-> f.payment]
    BY DEF W!RowOf
  <1> HIDE DEF row
  <1>5. row \in W!Row /\ row.payment = f.payment /\ row.amount = f.amount
    BY <1>2, <1>3, <1>4 DEF W!Row
  <1>6. QED
    BY <1>1, <1>2, <1>5 DEF row

\* topUpWallet flushes, or fails to.
LEMMA FlushSafe ==
    ASSUME AInv, AInv', SInv, W!TypeOK, NEW act \in running, Endings(act), act.at = "flush"
    PROVE  SInv'
  <1>1. Ends(act) /\ UNCHANGED <<asked, callbacks, provider, payment>>
    BY DEF Endings, NoPaymentMethod, RequestThrows, PaystackAccepted, AnswerTooLong,
       PaymentNotFound, NoWallet, FlushWallet, DatabaseFails, outside
  <1>2. PICK f \in inflight :
            f.call = act.id /\ (W!Flush(f) \/ W!RefuseSecondCredit(f) \/ W!FlushFails(f))
    BY DEF Endings, NoPaymentMethod, RequestThrows, PaystackAccepted, AnswerTooLong,
       PaymentNotFound, NoWallet, FlushWallet, DatabaseFails
  <1>3. /\ inflight' = inflight \ {f}
        /\ \/ ledger' = ledger
           \/ ledger' = [ledger EXCEPT ![f.owner] = Append(@, W!RowOf(f))]
    BY <1>2 DEF W!Flush, W!RefuseSecondCredit, W!FlushFails, W!rows
  <1>4. /\ running' = running \ {act}
        /\ \A i \in DOMAIN payJobs' : \E j \in DOMAIN payJobs : payJobs'[i] = payJobs[j]
    BY <1>1, SameRowsKept, EndsOK DEF Ends
  <1>5. /\ f.type = "CREDIT" /\ f.owner = payment[f.payment].request.wallet
        /\ f.amount = payment[f.payment].request.amount /\ f.payment = act.payment
    BY <1>2 DEF SInv, MoneyInv, CallsAreCredits, AInv, IdsDiffer
  <1>6. /\ act.payment \in Payments /\ Known(act.payment) /\ Called(act.payment)
        /\ \/ act.kind = "paymentCompleted" /\ payment[act.payment].route = "momo"
           \/ act.kind = "processPayment" /\ payment[act.payment].route = "paystack"
    BY DEF AInv, ActsAreSound, Sound, Known, SInv, MoneyInv, ConfirmedOnly, Confirming
  <1> DEFINE row == W!RowOf(f)
  <1>7. /\ ledger \in [Owners -> Seq(W!Row)] /\ f.owner \in Owners
        /\ row \in W!Row /\ row.payment = f.payment /\ row.amount = f.amount
    BY <1>5, FlushedRow
  <1> HIDE DEF row
  <1>8. \A u \in Owners : \A i \in DOMAIN ledger'[u] :
            \/ i \in DOMAIN ledger[u] /\ ledger'[u][i] = ledger[u][i]
            \/ u = f.owner /\ ledger'[u][i] = row
    <2>1. CASE ledger' = ledger
      BY <2>1
    <2>2. CASE ledger' = [ledger EXCEPT ![f.owner] = Append(@, row)]
      <3> SUFFICES ASSUME NEW u \in Owners, NEW i \in DOMAIN ledger'[u]
                   PROVE  \/ i \in DOMAIN ledger[u] /\ ledger'[u][i] = ledger[u][i]
                          \/ u = f.owner /\ ledger'[u][i] = row
        OBVIOUS
      <3>1. CASE u # f.owner
        BY <1>7, <2>2, <3>1
      <3>2. CASE u = f.owner
        <4>1. ledger'[u] = Append(ledger[u], row) /\ ledger[u] \in Seq(W!Row)
          BY <1>7, <2>2, <3>2
        <4>2. QED
          BY <1>7, <3>2, <4>1, AppendFacts
      <3>3. QED
        BY <3>1, <3>2
    <2>3. QED
      BY <1>3, <2>1, <2>2 DEF row
  <1>9. \A p : Credited(p)' => Credited(p) \/ p = act.payment
    BY <1>5, <1>7, <1>8 DEF Credited, W!Posted
  <1>10. MoneyInv'
    <2>1. CallsAreCredits'
      <3> SUFFICES ASSUME NEW g \in inflight'
                   PROVE  /\ g.type = "CREDIT" /\ g.owner = payment[g.payment].request.wallet
                          /\ g.amount = payment[g.payment].request.amount
                          /\ \E a \in running' : a.at = "flush" /\ a.id = g.call /\ a.payment = g.payment
        BY <1>1 DEF CallsAreCredits
      <3>1. g \in inflight /\ g.call # act.id
        BY <1>2, <1>3 DEF SInv, MoneyInv, CallsDiffer
      <3>2. QED
        BY <1>4, <3>1 DEF SInv, MoneyInv, CallsAreCredits
    <2>2. CallsDiffer'
      BY <1>3 DEF SInv, MoneyInv, CallsDiffer
    <2>3. ConfirmedOnly'
      BY <1>1, <1>4 DEF SInv, MoneyInv, ConfirmedOnly, Confirming, Called
    <2>4. CreditsAreAskedFor'
      BY <1>1, <1>5, <1>6, <1>7, <1>8 DEF SInv, MoneyInv, CreditsAreAskedFor, Called
    <2>5. QED
      BY <2>1, <2>2, <2>3, <2>4 DEF MoneyInv
  <1>11. AskInv'
    BY <1>1, <1>4 DEF SInv, AskInv, StartersDiffer, Starters, AskIsFresh, DeclinedIsNotAsked,
       FailedMeansRefused
  <1>12. WorkInv'
    <2>1. CreditedIsSettled'
      <3>1. payment[act.payment].route = "paystack" => payment[act.payment].status # "INITIATED"
        BY <1>6 DEF SInv, WorkInv, CreditingIsFirst, Crediting
      <3>2. QED
        BY <1>1, <1>9, <3>1 DEF SInv, WorkInv, CreditedIsSettled
    <2>2. ASSUME NEW a \in running', a.kind = "processPayment"
          PROVE  a \in running /\ a.payment # act.payment
      BY <1>4, <1>6, <2>2 DEF AInv, Workers, ActsAreSound, Sound
    <2>3. SavingIsFirst'
      BY <1>1, <1>9, <2>2 DEF SInv, WorkInv, SavingIsFirst
    <2>4. CreditingIsFirst'
      BY <1>1, <1>9, <2>2 DEF SInv, WorkInv, CreditingIsFirst, Crediting
    <2>5. QED
      BY <2>1, <2>3, <2>4 DEF WorkInv
  <1>13. QED
    BY <1>10, <1>11, <1>12 DEF SInv

LEMMA NextSafe ==
    ASSUME AInv, SInv, W!TypeOK, [Next]_vars
    PROVE  SInv'
  <1>1. AInv'
    BY NextOK
  <1>2. CASE Clients
    BY <1>1, <1>2, ClientsSafe
  <1>3. CASE Provider
    BY <1>1, <1>3, ProviderSafe
  <1>4. CASE EmitTopUpInitiated \/ CompleteTopUpJob \/ StartProcessPayment
    BY <1>1, <1>4, JobsSafe
  <1>5. ASSUME NEW act \in running, Moves(act)
        PROVE  SInv'
    BY <1>1, <1>5, MovesSafe, ReadSafe DEF Moves
  <1>6. ASSUME NEW act \in running, Endings(act)
        PROVE  SInv'
    BY <1>1, <1>6, EndingsSafe, FlushSafe
  <1>7. ASSUME NEW act \in running,
               CreatePayment(act) \/ EnqueueProcessPayment(act) \/ RecordAnswer(act) \/ SavePayment(act)
        PROVE  SInv'
    BY <1>1, <1>7, CreateSafe, EnqueueSafe, RecordSafe, SaveSafe
  <1>8. CASE Crash
    BY <1>1, <1>8, CrashSafe
  <1>9. CASE UNCHANGED vars
    <2>1. UNCHANGED <<ledger, inflight, payment, running, asked, callbacks, payJobs, provider>>
      BY <1>9 DEF vars, walletVars, queues, outside
    <2>2. QED
      BY <2>1, SilentStep
  <1>10. QED
    BY <1>2, <1>3, <1>4, <1>5, <1>6, <1>7, <1>8, <1>9 DEF Next, Works, Faults, Moves, Endings

LEMMA SafetyHolds == Spec => [](AInv /\ W!TypeOK /\ SInv)
  <1>1. AInv /\ W!TypeOK /\ SInv /\ [Next]_vars => SInv'
    BY NextSafe
  <1>2. QED
    BY SInitOK, <1>1, ShapesHold, StepsAreWalletSteps, WalletTypes, PTL DEF Spec, WalletSteps

-----------------------------------------------------------------------------
\* Money appears in a wallet only for a payment that was put to its provider and
\* confirmed by a webhook, and it is the amount and the wallet the client asked for.
THEOREM CreditsFollowRequests == Spec => []CreditsAreAskedFor
  <1>1. SInv => CreditsAreAskedFor
    BY DEF SInv, MoneyInv
  <1>2. QED
    BY <1>1, SafetyHolds, PTL

\* Sizes of sets are the same here, in Wallets and in WalletsProofs.
LEMMA SameSizes ==
    \A S : /\ WP!IsFiniteSet(S) <=> IsFiniteSet(S)
           /\ W!Cardinality(S) = Cardinality(S)
  <1>1. \A S : WP!IsFiniteSet(S) <=> IsFiniteSet(S)
    BY Zenon DEF WP!IsFiniteSet, IsFiniteSet
  <1>2. \A S : W!Cardinality(S) = Cardinality(S)
    BY Zenon DEF W!Cardinality, Cardinality
  <1>3. QED
    BY <1>1, <1>2

LEMMA LedgersAreFinite == Spec => [](\A u \in Owners : IsFiniteSet(W!Units(u, "CREDIT")))
  <1> DEFINE Fin == \A u \in Owners : IsFiniteSet(W!Units(u, "CREDIT"))
  <1>1. WP!Spec => []WP!IInv
    BY WP!Invariance, WalletAssumptions
  <1>2. WP!IInv => Fin
    <2> SUFFICES ASSUME WP!IInv, NEW u \in Owners
                 PROVE  IsFiniteSet(W!Units(u, "CREDIT"))
      OBVIOUS
    <2>1. W!Units(u, "CREDIT") = WP!Units(u, "CREDIT")
      BY Zenon DEF W!Units, WP!Units
    <2>2. QED
      BY <2>1, SameSizes DEF WP!IInv, WP!MoneyMatches
  <1>3. QED
    BY <1>1, <1>2, SameSpec, StepsAreWalletSteps, PTL DEF WalletSteps

\* Nothing is deducted here.
OnlyCredits == \A u \in Owners : \A i \in DOMAIN ledger[u] : ledger[u][i].type = "CREDIT"

LEMMA OnlyCreditsHold == Spec => []OnlyCredits
  <1>1. Init => OnlyCredits
    BY DEF Init, W!Init, OnlyCredits
  <1>2. AInv /\ W!TypeOK /\ SInv /\ OnlyCredits /\ [Next]_vars => OnlyCredits'
    <2> SUFFICES ASSUME AInv, W!TypeOK, SInv, OnlyCredits, [Next]_vars PROVE OnlyCredits'
      OBVIOUS
    <2>1. [W!Next]_(W!vars)
      BY StepRefines
    <2>2. CASE ledger' = ledger
      BY <2>2 DEF OnlyCredits
    <2>3. ASSUME NEW f \in inflight, W!Flush(f)
          PROVE  OnlyCredits'
      <3> DEFINE row == W!RowOf(f)
                 s == ledger[f.owner]
      <3>1. f.type = "CREDIT"
        BY DEF SInv, MoneyInv, CallsAreCredits
      <3>2. ledger \in [Owners -> Seq(W!Row)] /\ f.owner \in Owners /\ row \in W!Row
        BY <3>1, FlushedRow
      <3>3. ledger' = [ledger EXCEPT ![f.owner] = Append(s, row)]
        BY <2>3 DEF W!Flush
      <3>4. row.type = "CREDIT"
        BY <3>1 DEF W!RowOf
      <3> HIDE DEF row
      <3>5. s \in Seq(W!Row)
        BY <3>2
      <3>6. \A i \in DOMAIN Append(s, row) : (i \in DOMAIN s /\ Append(s, row)[i] = s[i]) \/ Append(s, row)[i] = row
        BY <3>2, <3>5
      <3>7. ledger'[f.owner] = Append(s, row) /\ \A u \in Owners \ {f.owner} : ledger'[u] = ledger[u]
        BY <3>2, <3>3
      <3> HIDE DEF s
      <3>8. \A i \in DOMAIN Append(s, row) : Append(s, row)[i].type = "CREDIT"
        BY <3>2, <3>4, <3>6 DEF OnlyCredits, s
      <3>9. QED
        BY <3>7, <3>8 DEF OnlyCredits
    <2>4. QED
      BY <2>1, <2>2, <2>3 DEF W!Next, W!Begin, W!End, W!CreateWallet, W!ReadForTopUp, W!ReadForDeduct,
         W!Read, W!RefuseSecondCredit, W!FlushFails, W!Crash, W!rows, W!vars
  <1>3. QED
    BY <1>1, <1>2, SafetyHolds, PTL DEF Spec

\* One element for every unit of a payment that was asked for u's wallet and credited.
PaidIn(u) ==
    UNION {{p} \X (1..payment[p].request.amount) :
               p \in {q \in Payments : Credited(q) /\ payment[q].request.wallet = u}}

\* The rows of a wallet and the payments that were credited to it move the same units.
LEMMA UnitsArePayments ==
    ASSUME CreditsAreAskedFor, W!CreditedOnce, OnlyCredits, asked \subseteq Payments, NoPayment \notin Payments,
           NEW u \in Owners, IsFiniteSet(W!Units(u, "CREDIT"))
    PROVE  Cardinality(PaidIn(u)) = Cardinality(W!Units(u, "CREDIT"))
  <1> DEFINE U == W!Units(u, "CREDIT")
             f == [x \in U |-> <<ledger[u][x[1]].payment, x[2]>>]
  <1>1. \A x : x \in U <=> \E i \in DOMAIN ledger[u] :
                           \E k \in 1..payment[ledger[u][i].payment].request.amount : x = <<i, k>>
    BY DEF W!Units, OnlyCredits, CreditsAreAskedFor
  <1>2. \A x : x \in PaidIn(u) <=>
            \E p \in Payments : \E k \in 1..payment[p].request.amount :
                Credited(p) /\ payment[p].request.wallet = u /\ x = <<p, k>>
    BY DEF PaidIn
  <1>3. \A i \in DOMAIN ledger[u] : /\ ledger[u][i].payment \in Payments
                                    /\ Credited(ledger[u][i].payment)
                                    /\ payment[ledger[u][i].payment].request.wallet = u
    BY DEF CreditsAreAskedFor, Credited, W!Posted
  <1>4. \A i, j \in DOMAIN ledger[u] : ledger[u][i].payment = ledger[u][j].payment => i = j
    BY <1>3 DEF W!CreditedOnce
  <1>5. \A p \in Payments : Credited(p) /\ payment[p].request.wallet = u =>
            \E i \in DOMAIN ledger[u] : ledger[u][i].payment = p
    BY DEF CreditsAreAskedFor, Credited, W!Posted
  <1> HIDE DEF U
  <1>6. f \in [U -> PaidIn(u)]
    BY <1>1, <1>2, <1>3
  <1>7. \A x, y \in U : f[x] = f[y] => x = y
    <2> SUFFICES ASSUME NEW x \in U, NEW y \in U, f[x] = f[y] PROVE x = y
      OBVIOUS
    <2>1. PICK i \in DOMAIN ledger[u] : \E k : x = <<i, k>>
      BY <1>1
    <2>2. PICK k : x = <<i, k>>
      BY <2>1
    <2>3. PICK j \in DOMAIN ledger[u] : \E l : y = <<j, l>>
      BY <1>1
    <2>4. PICK l : y = <<j, l>>
      BY <2>3
    <2>5. ledger[u][i].payment = ledger[u][j].payment /\ k = l
      BY <2>2, <2>4
    <2>6. QED
      BY <1>4, <2>2, <2>4, <2>5
  <1>8. \A z \in PaidIn(u) : \E x \in U : f[x] = z
    <2> SUFFICES ASSUME NEW z \in PaidIn(u) PROVE \E x \in U : f[x] = z
      OBVIOUS
    <2>1. PICK p \in Payments : /\ Credited(p) /\ payment[p].request.wallet = u
                               /\ \E k \in 1..payment[p].request.amount : z = <<p, k>>
      BY <1>2
    <2>2. PICK k \in 1..payment[p].request.amount : z = <<p, k>>
      BY <2>1
    <2>3. PICK i \in DOMAIN ledger[u] : ledger[u][i].payment = p
      BY <1>5, <2>1
    <2>4. <<i, k>> \in U /\ f[<<i, k>>] = z
      BY <1>1, <2>1, <2>2, <2>3
    <2>5. QED
      BY <2>4
  <1> HIDE DEF f
  <1>9. f \in Bijection(U, PaidIn(u))
    BY <1>6, <1>7, <1>8 DEF Bijection, Injection, Surjection, IsInjective
  <1>10. IsFiniteSet(U) /\ ExistsBijection(U, PaidIn(u))
    BY <1>9 DEF ExistsBijection, U
  <1>11. Cardinality(PaidIn(u)) = Cardinality(U)
    BY <1>10, FS_Bijection
  <1>12. QED
    BY <1>11 DEF U

\* A wallet that two calls never held at once holds what was paid in, and nothing else.
BalanceIsPaidIn == \A u \in wallets \ overlapped : balance[u] = opening[u] + Cardinality(PaidIn(u))

\* The whole way of the money: a wallet that two calls never held at once holds what it was
\* opened with and the amounts that clients asked for in the payments credited to it.
THEOREM WalletsHoldWhatWasAskedFor == Spec => []BalanceIsPaidIn
  <1> DEFINE Fin == \A u \in Owners : IsFiniteSet(W!Units(u, "CREDIT"))
  <1>1. ASSUME AInv, W!TypeOK, SInv, OnlyCredits, Fin, W!CreditedOnce, W!MoneyConserved
        PROVE  BalanceIsPaidIn
    <2> SUFFICES ASSUME NEW u \in wallets \ overlapped
                 PROVE  balance[u] = opening[u] + Cardinality(PaidIn(u))
      BY DEF BalanceIsPaidIn
    <2>1. u \in Owners /\ opening[u] \in Nat
      BY <1>1 DEF W!TypeOK
    <2>2. W!Units(u, "DEBIT") = {}
      BY <1>1, <2>1 DEF W!Units, OnlyCredits
    <2>3. W!Total(u, "DEBIT") = 0
      BY <2>2, SameSizes, FS_EmptySet DEF W!Total
    <2>4. Cardinality(PaidIn(u)) = Cardinality(W!Units(u, "CREDIT"))
      BY <1>1, <2>1, NullIsNoPayment, UnitsArePayments DEF SInv, MoneyInv, AInv, Types
    <2>5. W!Total(u, "CREDIT") = Cardinality(PaidIn(u)) /\ Cardinality(PaidIn(u)) \in Nat
      BY <1>1, <2>1, <2>4, SameSizes, FS_CardinalityType DEF W!Total
    <2>6. balance[u] = opening[u] + W!Total(u, "CREDIT") - W!Total(u, "DEBIT")
      BY <1>1 DEF W!MoneyConserved
    <2>7. QED
      BY <2>1, <2>3, <2>5, <2>6
  <1>2. AInv /\ W!TypeOK /\ SInv /\ OnlyCredits /\ Fin /\ W!CreditedOnce /\ W!MoneyConserved
            => BalanceIsPaidIn
    BY <1>1
  <1>3. QED
    BY <1>2, SafetyHolds, OnlyCreditsHold, LedgersAreFinite, WalletsAreSafe, PTL

\* The process-payment worker starts at most one top-up for a Paystack payment, and none
\* once it is credited.
THEOREM WorkerCreditsOnce == Spec => []PaystackCreditsOnce
  <1>1. ASSUME AInv, SInv
        PROVE  PaystackCreditsOnce
    <2> SUFFICES ASSUME NEW p \in Payments, payment[p].route = "paystack"
                 PROVE  LET crediting == {act \in running : act.payment = p /\ act.at \in {"credit", "flush"}}
                        IN  Cardinality(crediting) + (IF Credited(p) THEN 1 ELSE 0) <= 1
      BY DEF PaystackCreditsOnce
    <2> DEFINE crediting == {act \in running : act.payment = p /\ act.at \in {"credit", "flush"}}
    <2>1. \A a \in crediting : a.kind = "processPayment" /\ a \in Crediting
      BY <1>1 DEF AInv, ActsAreSound, Sound, Crediting
    <2>2. CASE crediting = {}
      BY <2>2, FS_EmptySet
    <2>3. CASE crediting # {}
      <3>1. PICK a : a \in crediting
        BY <2>3
      <3>2. crediting = {a}
        BY <1>1, <2>1, <3>1 DEF AInv, Workers
      <3>3. ~Credited(p)
        BY <1>1, <2>1, <3>1 DEF SInv, WorkInv, CreditingIsFirst
      <3>4. Cardinality(crediting) = 1
        BY <3>2, FS_Singleton
      <3>5. QED
        BY <3>3, <3>4
    <2>4. QED
      BY <2>2, <2>3
  <1>2. QED
    BY <1>1, SafetyHolds, PTL

\* FAILED means that the provider never took a mobile-money request, except at Zeepay.
THEOREM FailedIsRefused == Spec => []FailedMeansRefused
  <1>1. SInv => FailedMeansRefused
    BY DEF SInv, AskInv
  <1>2. QED
    BY <1>1, SafetyHolds, PTL

\* A payment that is COMPLETED loses that status only to the answer of the request that
\* started it.
THEOREM OnlyLateAnswersUndo == Spec => OnlyLateAnswersUndoCompletion
  <1> DEFINE Undone == \A p \in Payments :
                  payment[p].status = "COMPLETED" /\ payment'[p].status # "COMPLETED" =>
                      \E act \in running \ running' :
                          act.payment = p /\ act.kind \in {"topUpInitiated", "initiatePayment"}
  <1>1. ASSUME AInv, SInv, [Next]_vars
        PROVE  Undone
    <2>1. CASE payment' = payment
      BY <2>1
    <2>2. ASSUME NEW r \in Requests, NEW route \in {"momo", "paystack"},
                 NewPayment(NextPayment, r, route)
          PROVE  Undone
      BY <1>1, <2>2, NewRow
    <2>3. ASSUME NEW act \in running, RecordAnswer(act)
          PROVE  Undone
      <3>1. /\ payment' = [payment EXCEPT ![act.payment].status = act.to]
            /\ act.at = "answered" /\ running' = running \ {act}
        BY <2>3 DEF RecordAnswer, Ends
      <3>2. Known(act.payment) /\ act.kind = "topUpInitiated" /\ act.to \in Statuses \ {"NONE"}
        BY <1>1, <3>1 DEF AInv, ActsAreSound, Sound, Statuses
      <3>3. \A q \in Payments \ {act.payment} : payment'[q] = payment[q]
        BY <1>1, <3>1, <3>2, NewStatus DEF Known
      <3>4. QED
        BY <3>1, <3>2, <3>3
    <2>4. ASSUME NEW act \in running, SavePayment(act)
          PROVE  Undone
      <3>1. /\ act.at = "save" /\ Known(act.payment)
            /\ payment'[act.payment].status = IF act.to = "NONE" THEN payment[act.payment].status ELSE act.to
            /\ \A q \in Payments \ {act.payment} : payment'[q] = payment[q]
            /\ act.kind = "initiatePayment" => running' = running \ {act}
        BY <1>1, <2>4, SaveFacts
      <3>2. CASE act.kind = "initiatePayment"
        BY <3>1, <3>2
      <3>3. CASE act.kind = "processPayment"
        BY <1>1, <3>1, <3>3 DEF SInv, WorkInv, SavingIsFirst
      <3>4. CASE act.kind \notin {"initiatePayment", "processPayment"}
        BY <1>1, <3>1, <3>4 DEF AInv, ActsAreSound, Sound
      <3>5. QED
        BY <3>2, <3>3, <3>4
    <2>5. \A act \in running : act.kind = "topUpInitiated" /\ act.at = "start" => act.request \in Requests
      BY <1>1 DEF AInv, ActsAreSound, Sound
    <2>6. CASE Clients \/ Provider \/ Crash \/ UNCHANGED vars
               \/ EmitTopUpInitiated \/ CompleteTopUpJob \/ StartProcessPayment
      BY <2>1, <2>2, <2>6 DEF Clients, OpenWallet, WalletRoutes, FundWallet, PaymentRoutes,
         CreatePaymentMethod, InitiatePayment, Provider, ZeepayCallback, JunipayCallback,
         PaystackCallback, Crash, EmitTopUpInitiated, CompleteTopUpJob, StartProcessPayment, vars
    <2>7. ASSUME NEW act \in running,
                 Moves(act) \/ Endings(act) \/ EnqueueProcessPayment(act)
          PROVE  Undone
      BY <2>1, <2>7 DEF Moves, SendRequest, PaystackFails, JunipayDeclines, MomoAccepted,
         FindPayment, ReadWallet, Endings, NoPaymentMethod, RequestThrows, PaystackAccepted,
         AnswerTooLong, PaymentNotFound, NoWallet, FlushWallet, DatabaseFails, EnqueueProcessPayment
    <2>8. ASSUME NEW act \in running, CreatePayment(act)
          PROVE  Undone
      BY <2>2, <2>5, <2>8 DEF CreatePayment
    <2>9. QED
      BY <1>1, <2>3, <2>4, <2>6, <2>7, <2>8 DEF Next, Works, Faults, Moves, Endings
  <1>2. AInv /\ SInv /\ [Next]_vars => [Undone]_vars
    BY <1>1
  <1> HIDE DEF Undone
  <1>3. Spec => [][Undone]_vars
    BY <1>2, SafetyHolds, PTL DEF Spec
  <1>4. QED
    BY <1>3, PTL DEF OnlyLateAnswersUndoCompletion, Undone

-----------------------------------------------------------------------------
\* DInv is inductive.  First, steps that create no payment: requests may only close, or
\* all of them may open at a new fault.
LEMMA FewStay ==
    ASSUME AInv, AInv', DInv, \A p \in Payments : payment'[p].request = payment[p].request,
           \A p \in Payments : payment'[p].status = "NONE" => payment[p].status = "NONE",
           \/ faults' >= faults /\ \A r \in Requests : Open(r)' => Open(r)
           \/ faults' = faults + 1
    PROVE  EmptyRows' /\ FewPayments'
  <1>1. EmptyRows'
    BY DEF DInv, EmptyRows
  <1>2. \A r : PaymentsOf(r)' = PaymentsOf(r)
    BY DEF PaymentsOf
  <1>3. faults \in Nat /\ faults' \in Nat
    BY BoundsAreNat DEF AInv, Types
  <1>4. ASSUME NEW r \in Requests
        PROVE  (/\ IsFiniteSet(PaymentsOf(r))
                /\ Cardinality(PaymentsOf(r)) <= 1 + faults
                /\ Open(r) => Cardinality(PaymentsOf(r)) <= faults)'
    <2> DEFINE n == Cardinality(PaymentsOf(r))
    <2>1. /\ IsFiniteSet(PaymentsOf(r)) /\ n <= 1 + faults /\ (Open(r) => n <= faults)
      BY DEF DInv, FewPayments
    <2>2. n \in Nat
      BY <2>1, FS_CardinalityType
    <2> HIDE DEF n
    <2>3. n <= 1 + faults' /\ (Open(r)' => n <= faults')
      <3>1. CASE faults' = faults + 1
        <4>1. n <= 1 + faults
          BY <2>1
        <4>2. n <= faults' /\ n <= 1 + faults'
          BY <1>3, <2>2, <3>1, <4>1
        <4>3. QED
          BY <4>2
      <3>2. CASE faults' >= faults /\ (Open(r)' => Open(r))
        <4>1. n <= 1 + faults /\ (Open(r)' => n <= faults)
          BY <2>1, <3>2
        <4>2. \A k, m, l \in Nat : l >= m => (k <= 1 + m => k <= 1 + l) /\ (k <= m => k <= l)
          OBVIOUS
        <4>3. (n <= 1 + faults => n <= 1 + faults') /\ (n <= faults => n <= faults')
          BY <1>3, <2>2, <3>2, <4>2
        <4>4. QED
          BY <4>1, <4>3
      <3>3. QED
        BY <3>1, <3>2
    <2>4. QED
      BY <1>2, <2>1, <2>3 DEF n
  <1>5. QED
    BY <1>1, <1>4 DEF FewPayments

LEMMA CalmFew ==
    ASSUME AInv, AInv', DInv, \A p \in Payments : payment'[p].request = payment[p].request,
           \A p \in Payments : payment'[p].status = "NONE" => payment[p].status = "NONE",
           faults' >= faults, todo' \subseteq todo, UNCHANGED <<topUpJobs, topUpActive>>,
           \A a \in Openers' : a \in Openers
    PROVE  DInv'
  <1>1. JobsDiffer' /\ NotAskedTwice' /\ OneOpener'
    BY DEF DInv, JobsDiffer, NotAskedTwice, OneOpener
  <1>2. \A r \in Requests : Open(r)' => Open(r)
    BY DEF Open
  <1>3. QED
    BY <1>1, <1>2, FewStay DEF DInv

\* A step that creates a payment for a request which is then closed.
LEMMA NewPaymentFew ==
    ASSUME AInv, AInv', DInv, NEW r \in Requests, NEW p \in Payments, payment[p].status = "NONE",
           payment'[p].status # "NONE", payment'[p].request = r,
           \A q \in Payments \ {p} : payment'[q] = payment[q],
           faults' = faults, Open(r), ~Open(r)',
           \A q \in Requests : Open(q)' => Open(q)
    PROVE  EmptyRows' /\ FewPayments'
  <1>1. EmptyRows'
    BY DEF DInv, EmptyRows
  <1>2. faults \in Nat /\ payment[p].request = NoRequest /\ r # NoRequest
    BY BoundsAreNat, NullIsNoRequest DEF AInv, Types, DInv, EmptyRows
  <1>3. ASSUME NEW q \in Requests
        PROVE  (/\ IsFiniteSet(PaymentsOf(q))
                /\ Cardinality(PaymentsOf(q)) <= 1 + faults
                /\ Open(q) => Cardinality(PaymentsOf(q)) <= faults)'
    <2> DEFINE n == Cardinality(PaymentsOf(q))
    <2>1. IsFiniteSet(PaymentsOf(q)) /\ n <= 1 + faults /\ (Open(q) => n <= faults)
      BY DEF DInv, FewPayments
    <2>2. n \in Nat
      BY <2>1, FS_CardinalityType
    <2>3. CASE q = r
      <3>1. PaymentsOf(q)' = PaymentsOf(q) \union {p} /\ p \notin PaymentsOf(q)
        BY <1>2, <2>3 DEF PaymentsOf
      <3>2. IsFiniteSet(PaymentsOf(q)') /\ Cardinality(PaymentsOf(q)') = n + 1
        BY <2>1, <3>1, FS_AddElement
      <3> HIDE DEF n
      <3>3. n + 1 <= 1 + faults'
        BY <1>2, <2>1, <2>2, <2>3
      <3>4. QED
        BY <2>3, <3>2, <3>3
    <2>4. CASE q # r
      <3>1. PaymentsOf(q)' = PaymentsOf(q)
        BY <1>2, <2>4, NullIsNoRequest DEF PaymentsOf
      <3>2. QED
        BY <2>1, <3>1
    <2>5. QED
      BY <2>3, <2>4
  <1>4. QED
    BY <1>1, <1>3 DEF FewPayments

LEMMA DInitOK ==
    ASSUME Init
    PROVE  DInv
  <1>1. JobsDiffer /\ NotAskedTwice /\ OneOpener
    BY DEF Init, JobsDiffer, NotAskedTwice, OneOpener, Openers
  <1>2. EmptyRows
    BY DEF Init, EmptyRows, NoRow
  <1>3. \A r \in Requests : PaymentsOf(r) = {}
    BY NullIsNoRequest DEF Init, PaymentsOf, NoRow
  <1>4. FewPayments
    <2>1. IsFiniteSet({}) /\ Cardinality({}) = 0
      BY FS_EmptySet
    <2>2. faults = 0
      BY DEF Init
    <2>3. QED
      BY <1>3, <2>1, <2>2 DEF FewPayments
  <1>5. QED
    BY <1>1, <1>2, <1>4 DEF DInv

LEMMA FundFew ==
    ASSUME AInv, AInv', DInv, NEW r \in Requests, FundWallet(r)
    PROVE  DInv'
  <1>1. /\ r \in todo /\ todo' = todo \ {r} /\ topUpJobs' = Append(topUpJobs, r)
        /\ UNCHANGED <<topUpActive, payment, running, faults>>
        /\ topUpJobs \in Seq(Requests)
    BY DEF FundWallet, troubles, AInv, Types
  <1>2. /\ Len(topUpJobs) \in Nat /\ DOMAIN topUpJobs = 1..Len(topUpJobs)
        /\ DOMAIN topUpJobs' = 1..(Len(topUpJobs) + 1)
        /\ \A i \in 1..Len(topUpJobs) : topUpJobs'[i] = topUpJobs[i]
        /\ topUpJobs'[Len(topUpJobs) + 1] = r
    BY <1>1, AppendFacts
  <1>3. \A i \in DOMAIN topUpJobs' :
            \/ i \in DOMAIN topUpJobs /\ topUpJobs'[i] = topUpJobs[i] /\ topUpJobs[i] # r
            \/ i = Len(topUpJobs) + 1 /\ topUpJobs'[i] = r
    BY <1>1, <1>2 DEF DInv, NotAskedTwice
  <1>4. JobsDiffer'
    BY <1>3 DEF DInv, JobsDiffer
  <1>5. \A a \in Openers : a.request \notin todo /\ a.request # r
    BY <1>1 DEF DInv, NotAskedTwice
  <1>6. Openers' = Openers
    BY <1>1 DEF Openers
  <1>7. NotAskedTwice'
    BY <1>1, <1>3, <1>5, <1>6 DEF DInv, NotAskedTwice
  <1>8. OneOpener'
    BY <1>1, <1>3, <1>5, <1>6 DEF DInv, OneOpener
  <1>9. \A q \in Requests : Open(q)' => Open(q)
    BY <1>1, <1>3, <1>6 DEF Open
  <1>10. faults' >= faults
    BY <1>1, BoundsAreNat DEF AInv, Types
  <1>11. EmptyRows' /\ FewPayments'
    BY <1>1, <1>9, <1>10, FewStay
  <1>12. QED
    BY <1>4, <1>7, <1>8, <1>11 DEF DInv

LEMMA EmitFew ==
    ASSUME AInv, AInv', DInv, EmitTopUpInitiated
    PROVE  DInv'
  <1>1. /\ topUpJobs # <<>> /\ ~topUpActive /\ topUpActive'
        /\ Start("topUpInitiated", "start", Head(topUpJobs), NoPayment, "NONE")
        /\ UNCHANGED <<topUpJobs, todo, payment, faults>>
        /\ topUpJobs \in Seq(Requests)
    BY DEF EmitTopUpInitiated, outside, troubles, AInv, Types
  <1>2. PICK r \in Requests : r = topUpJobs[1] /\ 1 \in DOMAIN topUpJobs
                              /\ Start("topUpInitiated", "start", r, NoPayment, "NONE")
    BY <1>1, TailFacts
  <1>3. "topUpInitiated" \in Kinds /\ "start" \in Stages /\ "NONE" \in Statuses
        /\ NoPayment \in Payments \union {NoPayment} /\ r \in Requests \union {NoRequest}
    BY DEF Kinds, Stages, Statuses
  <1>4. PICK new \in Activity : /\ running' = running \union {new}
                                /\ new.kind = "topUpInitiated" /\ new.at = "start" /\ new.request = r
    BY <1>2, <1>3, StartFacts
  <1>5. Openers' = Openers \union {new}
    BY <1>4 DEF Openers
  <1>6. \A a \in Openers : \A i \in DOMAIN topUpJobs : topUpJobs[i] # a.request
    BY <1>1 DEF DInv, OneOpener
  <1>7. JobsDiffer'
    BY <1>1 DEF DInv, JobsDiffer
  <1>8. NotAskedTwice'
    BY <1>1, <1>2, <1>4, <1>5 DEF DInv, NotAskedTwice
  <1>9. OneOpener'
    BY <1>1, <1>2, <1>4, <1>5, <1>6 DEF DInv, OneOpener, JobsDiffer
  <1>10. Open(r)
    BY <1>1, <1>2 DEF Open
  <1>11. \A q \in Requests : Open(q)' => Open(q)
    BY <1>1, <1>4, <1>5, <1>10 DEF Open
  <1>12. faults' >= faults
    BY <1>1, BoundsAreNat DEF AInv, Types
  <1>13. EmptyRows' /\ FewPayments'
    BY <1>1, <1>11, <1>12, FewStay
  <1>14. QED
    BY <1>7, <1>8, <1>9, <1>13 DEF DInv

LEMMA CompleteFew ==
    ASSUME AInv, AInv', DInv, CompleteTopUpJob
    PROVE  DInv'
  <1>1. /\ topUpActive /\ ~topUpActive' /\ topUpJobs' = Tail(topUpJobs) /\ topUpJobs # <<>>
        /\ UNCHANGED <<todo, payment, running, faults>> /\ topUpJobs \in Seq(Requests)
    BY DEF CompleteTopUpJob, outside, troubles, AInv, Types, Workers
  <1>2. \A i \in DOMAIN topUpJobs' :
            i + 1 \in DOMAIN topUpJobs /\ topUpJobs'[i] = topUpJobs[i + 1] /\ i \in Nat \ {0}
    BY <1>1, TailFacts
  <1>3. Openers' = Openers
    BY <1>1 DEF Openers
  <1>4. JobsDiffer'
    BY <1>2 DEF DInv, JobsDiffer
  <1>5. NotAskedTwice'
    BY <1>1, <1>2, <1>3 DEF DInv, NotAskedTwice
  <1>6. OneOpener'
    <2>1. \A a \in Openers : \A i \in DOMAIN topUpJobs' : topUpJobs'[i] # a.request
      BY <1>2 DEF DInv, OneOpener
    <2>2. QED
      BY <1>3, <2>1 DEF DInv, OneOpener
  <1>7. \A q \in Requests : Open(q)' => Open(q)
    BY <1>1, <1>2, <1>3 DEF Open
  <1>8. faults' >= faults
    BY <1>1, BoundsAreNat DEF AInv, Types
  <1>9. EmptyRows' /\ FewPayments'
    BY <1>1, <1>7, <1>8, FewStay
  <1>10. QED
    BY <1>4, <1>5, <1>6, <1>9 DEF DInv

\* A crash opens every request again, at the price of one fault.
LEMMA CrashFew ==
    ASSUME AInv, AInv', DInv, Crash
    PROVE  DInv'
  <1>1. /\ running' = {} /\ faults' = faults + 1 /\ UNCHANGED <<todo, topUpJobs, payment>>
    BY DEF Crash, outside
  <1>2. Openers' = {}
    BY <1>1 DEF Openers
  <1>3. JobsDiffer' /\ NotAskedTwice' /\ OneOpener'
    BY <1>1, <1>2 DEF DInv, JobsDiffer, NotAskedTwice, OneOpener
  <1>4. EmptyRows' /\ FewPayments'
    BY <1>1, FewStay
  <1>5. QED
    BY <1>3, <1>4 DEF DInv

LEMMA CreateFew ==
    ASSUME AInv, AInv', DInv, NEW act \in running, CreatePayment(act)
    PROVE  DInv'
  <1> DEFINE p == NextPayment
  <1>1. /\ act.kind = "topUpInitiated" /\ act.at = "start" /\ act \in Activity
        /\ act.request \in Requests
        /\ NewPayment(p, act.request, "momo") /\ Move(act, "ask", p, "NONE")
        /\ UNCHANGED <<topUpJobs, topUpActive, todo, faults>>
    BY DEF CreatePayment, AInv, Types, ActsAreSound, Sound, queues, outside, troubles
  <1>2. /\ p \in Payments /\ payment[p].status = "NONE"
        /\ payment' \in [Payments -> PaymentRow]
        /\ payment'[p] = [status |-> "INITIATED", route |-> "momo", request |-> act.request]
        /\ \A q \in Payments \ {p} : payment'[q] = payment[q]
        /\ RowsKept
    BY <1>1, NewRow
  <1>3. "ask" \in Stages /\ "NONE" \in Statuses
    BY DEF Stages, Statuses
  <1> HIDE DEF p
  <1>4. PICK new \in Activity : /\ running' = (running \ {act}) \union {new}
                                /\ new.kind = "topUpInitiated" /\ new.at = "ask" /\ new.payment = p
    BY <1>1, <1>2, <1>3, MoveFacts
  <1>5. act \in Openers /\ Openers' = Openers \ {act}
    BY <1>1, <1>4 DEF Openers
  <1>6. JobsDiffer' /\ NotAskedTwice' /\ OneOpener'
    BY <1>1, <1>5 DEF DInv, JobsDiffer, NotAskedTwice, OneOpener
  <1>7. Open(act.request) /\ ~Open(act.request)'
    BY <1>1, <1>5 DEF Open, DInv, NotAskedTwice, OneOpener
  <1>8. \A q \in Requests : Open(q)' => Open(q)
    BY <1>1, <1>5 DEF Open
  <1>9. payment'[p].status # "NONE" /\ payment'[p].request = act.request
    BY <1>2
  <1>10. \E r \in Requests : /\ payment'[p].request = r /\ Open(r) /\ ~Open(r)'
    BY <1>1, <1>7, <1>9
  <1>11. EmptyRows' /\ FewPayments'
    BY <1>1, <1>2, <1>8, <1>9, <1>10, NewPaymentFew
  <1>12. QED
    BY <1>6, <1>11 DEF DInv

LEMMA InitiateFew ==
    ASSUME AInv, AInv', DInv, NEW r \in Requests, InitiatePayment(r)
    PROVE  DInv'
  <1> DEFINE p == NextPayment
  <1>1. /\ r \in todo /\ todo' = todo \ {r}
        /\ NewPayment(p, r, "paystack") /\ Start("initiatePayment", "ask", r, p, "NONE")
        /\ UNCHANGED <<topUpJobs, topUpActive, faults>>
    BY DEF InitiatePayment, queues, troubles
  <1>2. /\ p \in Payments /\ payment[p].status = "NONE"
        /\ payment' \in [Payments -> PaymentRow]
        /\ payment'[p] = [status |-> "INITIATED", route |-> "paystack", request |-> r]
        /\ \A q \in Payments \ {p} : payment'[q] = payment[q]
        /\ RowsKept
    BY <1>1, NewRow
  <1>3. "initiatePayment" \in Kinds /\ "ask" \in Stages /\ "NONE" \in Statuses
    BY DEF Kinds, Stages, Statuses
  <1> HIDE DEF p
  <1>4. PICK new \in Activity : /\ running' = running \union {new}
                                /\ new.kind = "initiatePayment" /\ new.at = "ask" /\ new.payment = p
    BY <1>1, <1>2, <1>3, StartFacts
  <1>5. Openers' = Openers
    BY <1>4 DEF Openers
  <1>6. JobsDiffer' /\ NotAskedTwice' /\ OneOpener'
    BY <1>1, <1>5 DEF DInv, JobsDiffer, NotAskedTwice, OneOpener
  <1>7. Open(r) /\ ~Open(r)'
    BY <1>1, <1>5 DEF Open, DInv, NotAskedTwice
  <1>8. \A q \in Requests : Open(q)' => Open(q)
    BY <1>1, <1>5 DEF Open
  <1>9. payment'[p].status # "NONE" /\ payment'[p].request = r
    BY <1>2
  <1>10. EmptyRows' /\ FewPayments'
    BY <1>1, <1>2, <1>7, <1>8, <1>9, NewPaymentFew
  <1>11. QED
    BY <1>6, <1>10 DEF DInv

\* All other steps leave the openers, or take one away.
LEMMA NextFew ==
    ASSUME AInv, DInv, [Next]_vars
    PROVE  DInv'
  <1>1. AInv' /\ RowsKept
    BY NextOK
  <1>2. faults \in Nat /\ faults + 1 >= faults
    BY BoundsAreNat DEF AInv, Types
  <1>3. CASE UNCHANGED <<payment, todo, topUpJobs, topUpActive, running, faults>>
    BY <1>1, <1>2, <1>3, CalmFew DEF Openers
  <1>4. CASE \/ \E u \in Owners, b \in Openings : OpenWallet(u, b)
            \/ \E u \in Owners : CreatePaymentMethod(u)
    BY <1>3, <1>4 DEF OpenWallet, CreatePaymentMethod, queues, outside, troubles
  <1>5. ASSUME NEW r \in Requests, FundWallet(r) \/ InitiatePayment(r)
        PROVE  DInv'
    BY <1>1, <1>5, FundFew, InitiateFew
  <1>6. CASE EmitTopUpInitiated \/ CompleteTopUpJob \/ Crash
    BY <1>1, <1>6, EmitFew, CompleteFew, CrashFew
  <1>7. ASSUME NEW act \in running, CreatePayment(act)
        PROVE  DInv'
    BY <1>1, <1>7, CreateFew
  \* Activities that are not openers come and go.
  <1>8. ASSUME UNCHANGED <<payment, todo, topUpJobs, topUpActive>>, faults' \in {faults, faults + 1},
               NEW new, running' \subseteq running \union {new},
               ~(new.kind = "topUpInitiated" /\ new.at = "start") \/ new \in running
        PROVE  DInv'
    <2>1. \A a \in Openers' : a \in Openers
      BY <1>8 DEF Openers
    <2>2. faults' >= faults
      BY <1>2, <1>8
    <2>3. QED
      BY <1>1, <1>8, <2>1, <2>2, CalmFew
  <1>9. CASE Provider
    <2>1. PICK p \in Payments :
              \/ ZeepayCallback(p) \/ JunipayCallback(p)
              \/ \E to \in {"COMPLETED", "FAILED"} : PaystackCallback(p, to)
      BY <1>9 DEF Provider
    <2>2. UNCHANGED <<payment, todo, topUpJobs, topUpActive, faults>>
      BY <2>1 DEF ZeepayCallback, JunipayCallback, PaystackCallback, queues, troubles
    <2>3. CASE JunipayCallback(p)
      BY <1>3, <2>2, <2>3 DEF JunipayCallback
    <2>4. CASE ZeepayCallback(p) \/ \E to \in {"COMPLETED", "FAILED"} : PaystackCallback(p, to)
      <3>1. \E kind \in {"zeepayWebhook", "paystackWebhook"}, at \in Stages, to \in Statuses :
                Start(kind, at, NoRequest, p, to)
        BY <2>4 DEF ZeepayCallback, PaystackCallback, Stages, Statuses
      <3>2. PICK kind \in Kinds, at \in Stages, to \in Statuses :
                kind # "topUpInitiated" /\ Start(kind, at, NoRequest, p, to)
        BY <3>1 DEF Kinds
      <3>3. PICK new \in Activity : running' = running \union {new} /\ new.kind = kind
        BY <3>2, StartFacts
      <3>4. QED
        BY <1>8, <2>2, <3>2, <3>3
    <2>5. QED
      BY <2>1, <2>3, <2>4
  <1>10. CASE StartProcessPayment
    <2>1. payJobs # <<>> /\ Start("processPayment", "find", NoRequest, Head(payJobs).payment, Head(payJobs).to)
          /\ UNCHANGED <<payment, todo, topUpJobs, topUpActive, faults>>
      BY <1>10 DEF StartProcessPayment, queues, outside, troubles
    <2>2. Head(payJobs) \in [payment : Payments, to : {"COMPLETED", "FAILED"}]
      BY <2>1, TailFacts DEF AInv, Types
    <2>3. PICK kind \in Kinds, at \in Stages, p \in Payments, to \in Statuses :
              kind # "topUpInitiated" /\ Start(kind, at, NoRequest, p, to)
      BY <2>1, <2>2 DEF Kinds, Stages, Statuses
    <2>4. PICK new \in Activity : running' = running \union {new} /\ new.kind = kind
      BY <2>3, StartFacts
    <2>5. QED
      BY <1>8, <2>1, <2>3, <2>4
  <1>11. ASSUME NEW act \in running, Moves(act)
         PROVE  DInv'
    <2>1. /\ UNCHANGED <<payment, todo, topUpJobs, topUpActive, faults>>
          /\ act.at # "start" /\ act \in Activity /\ act.to \in Statuses
      BY <1>11 DEF Moves, SendRequest, PaystackFails, JunipayDeclines, MomoAccepted, FindPayment,
         ReadWallet, queues, outside, troubles, AInv, Types, Activity
    <2>2. act.payment \in Payments
      BY <2>1 DEF AInv, ActsAreSound, Sound, Known
    <2>3. \E at \in Stages, to \in Statuses : at # "start" /\ Move(act, at, act.payment, to)
      BY <1>11, <2>1 DEF Moves, SendRequest, PaystackFails, JunipayDeclines, MomoAccepted, FindPayment,
         ReadWallet, Stages, Statuses
    <2>4. PICK new \in Activity : running' = (running \ {act}) \union {new} /\ new.at # "start"
      BY <2>1, <2>2, <2>3, MoveFacts
    <2>5. QED
      BY <1>8, <2>1, <2>4
  <1>12. ASSUME NEW act \in running, Endings(act) \/ EnqueueProcessPayment(act)
         PROVE  DInv'
    <2>1. /\ running' \subseteq running \union {act} /\ faults' \in {faults, faults + 1}
          /\ UNCHANGED <<payment, todo, topUpJobs, topUpActive>>
      BY <1>12 DEF Endings, NoPaymentMethod, RequestThrows, PaystackAccepted, AnswerTooLong,
         PaymentNotFound, NoWallet, FlushWallet, DatabaseFails, EnqueueProcessPayment, Ends,
         outside, troubles
    <2>2. QED
      BY <1>8, <2>1
  <1>13. ASSUME NEW act \in running, RecordAnswer(act) \/ SavePayment(act)
         PROVE  DInv'
    <2>1. /\ UNCHANGED <<todo, topUpJobs, topUpActive, faults>>
          /\ \A a \in Openers' : a \in Openers
          /\ \A p \in Payments : payment[p].status = "NONE" => payment'[p] = payment[p]
      <3>1. CASE RecordAnswer(act)
        <4>1. /\ payment' = [payment EXCEPT ![act.payment].status = act.to]
              /\ act.at = "answered" /\ running' = running \ {act}
              /\ UNCHANGED <<todo, topUpJobs, topUpActive, faults>>
          BY <3>1 DEF RecordAnswer, Ends, outside, troubles
        <4>2. Known(act.payment) /\ act.to \in Statuses \ {"NONE"}
          BY <4>1 DEF AInv, ActsAreSound, Sound, Statuses
        <4>3. \A p \in Payments : payment[p].status = "NONE" => payment'[p] = payment[p]
          BY <4>1, <4>2, NewStatus DEF Known
        <4>4. QED
          BY <4>1, <4>3 DEF Openers
      <3>2. CASE SavePayment(act)
        BY <3>2, SaveFacts DEF Openers, queues, outside, troubles
      <3>3. QED
        BY <1>13, <3>1, <3>2
    <2>2. \A p \in Payments : payment'[p].request = payment[p].request
      BY <1>1, <2>1 DEF RowsKept
    <2>3. \A p \in Payments : payment'[p].status = "NONE" => payment[p].status = "NONE"
      BY <1>1, <2>1 DEF RowsKept
    <2>4. faults' >= faults
      BY <1>2, <2>1
    <2>5. QED
      BY <1>1, <2>1, <2>2, <2>3, <2>4, CalmFew
  <1>14. CASE Clients
    BY <1>4, <1>5, <1>14 DEF Clients, WalletRoutes, PaymentRoutes
  <1>15. CASE Works
    BY <1>6, <1>7, <1>10, <1>11, <1>12, <1>13, <1>15 DEF Works, Moves, Endings
  <1>16. CASE Faults
    BY <1>6, <1>12, <1>16 DEF Faults, Endings
  <1>17. CASE UNCHANGED vars
    BY <1>3, <1>17 DEF vars, queues, outside, troubles
  <1>18. QED
    BY <1>9, <1>14, <1>15, <1>16, <1>17 DEF Next

\* A request leads to at most one payment, and so to at most one debit of the client's
\* phone, plus one for each fault.
THEOREM DebitsAreBounded == Spec => []OneDebitPerRequest
  <1>1. DInv => OneDebitPerRequest
    BY DEF DInv, FewPayments, PaymentsOf, OneDebitPerRequest
  <1>2. AInv /\ DInv /\ [Next]_vars => DInv'
    BY NextFew
  <1>3. QED
    BY <1>1, <1>2, DInitOK, ShapesHold, PTL DEF Spec

-----------------------------------------------------------------------------
\* What is owed: a confirmed payment, until it is settled, is carried by an activity or a job.

Carried(p) ==
    \/ \E act \in Confirming : act.payment = p
    \/ \E i \in DOMAIN payJobs : payJobs[i].payment = p

\* A request that is under way names a wallet that exists, or one that never will.
NamesAWallet(r) == r.wallet \in wallets \union Ghosts
Reachable ==
    /\ \A i \in DOMAIN topUpJobs : NamesAWallet(topUpJobs[i])
    /\ \A act \in Openers : NamesAWallet(act.request)
    /\ \A p \in Payments : payment[p].status # "NONE" => NamesAWallet(payment[p].request)

\* The worker of process-payment is on the payment of its queue's first job.
WorkerHasHead ==
    \A act \in running : act.kind = "processPayment" => payJobs[1].payment = act.payment

CalledIsAsked == \A p \in Payments : callbacks[p] > 0 => p \in asked

\* Whoever completes a Paystack payment credits it.
PaystackStatuses ==
    \A p \in Payments : payment[p].route = "paystack" => payment[p].status # "PENDING"
CompletedIsOwed ==
    \A p \in Payments :
        payment[p].route = "paystack" /\ payment[p].status = "COMPLETED" =>
            Settled(p) \/ \E act \in Crediting : act.payment = p

OInv ==
    /\ Reachable
    /\ WorkerHasHead
    /\ CalledIsAsked
    /\ PaystackStatuses
    /\ CompletedIsOwed
    /\ ConfirmedIsOnItsWay

\* What a settled payment becomes.
LEMMA SettledStays ==
    ASSUME RowsKept, provider' = provider, lost \subseteq lost',
           NEW p \in Payments, payment[p].status # "NONE", Credited(p) => Credited(p)',
           payment[p].route = "paystack" /\ payment[p].status = "FAILED" =>
               payment'[p].status = "FAILED" \/ \E b \in Crediting' : b.payment = p,
           Settled(p)
    PROVE  Settled(p)' \/ \E b \in Crediting' : b.payment = p
  BY DEF Settled, RowsKept

\* A step that hands on what it finds confirmed, or settles it, keeps everything carried.
LEMMA OwedStays ==
    ASSUME AInv, AInv', OInv, RowsKept, provider' = provider, lost \subseteq lost', asked \subseteq asked',
           \A p \in Payments : Credited(p) => Credited(p)',
           \A p \in Payments :
               callbacks'[p] > 0 => callbacks[p] > 0 \/ (p \in asked /\ (Carried(p)' \/ Settled(p)')),
           \A a \in Confirming :
               \/ Settled(a.payment)'
               \/ \E b \in Confirming' : b.payment = a.payment /\ (a \in Crediting => b \in Crediting')
               \/ a \notin Crediting /\ \E i \in DOMAIN payJobs' : payJobs'[i].payment = a.payment,
           \A i \in DOMAIN payJobs, p \in Payments : payJobs[i].payment = p =>
               Settled(p)' \/ \E j \in DOMAIN payJobs' : payJobs'[j].payment = p,
           \A p \in Payments :
               payment[p].status # "NONE" /\ payment[p].route = "paystack" /\ payment'[p].status # payment[p].status =>
                   \/ payment'[p].status = "FAILED"
                   \/ \E b \in Crediting' : b.payment = p,
           \A p \in Payments : payment[p].status = "NONE" => payment'[p].status \in {"NONE", "INITIATED"}
    PROVE  CalledIsAsked' /\ CompletedIsOwed' /\ ConfirmedIsOnItsWay'
  <1>1. CalledIsAsked'
    BY DEF OInv, CalledIsAsked
  <1>2. \A a \in Crediting : a \in Confirming
    BY DEF Crediting, Confirming
  <1>3. \A b \in Crediting' : b \in Confirming'
    BY DEF Crediting, Confirming
  <1>4. ASSUME NEW p \in Payments, payment[p].status # "NONE", Settled(p)
        PROVE  Settled(p)' \/ \E b \in Crediting' : b.payment = p
    BY <1>4, SettledStays DEF Known
  <1>5. ASSUME NEW p \in Payments, payment'[p].route = "paystack", payment'[p].status = "COMPLETED"
        PROVE  Settled(p)' \/ \E b \in Crediting' : b.payment = p
    <2>1. payment[p].status # "NONE" /\ payment[p].route = "paystack"
      BY <1>5 DEF RowsKept
    <2>2. CASE payment[p].status = "COMPLETED"
      BY <1>2, <1>4, <2>1, <2>2 DEF OInv, CompletedIsOwed
    <2>3. CASE payment[p].status # "COMPLETED"
      BY <1>5, <2>1, <2>3
    <2>4. QED
      BY <2>2, <2>3
  <1>6. CompletedIsOwed'
    BY <1>5 DEF CompletedIsOwed
  <1>7. ASSUME NEW p \in Payments, callbacks'[p] > 0
        PROVE  Settled(p)' \/ Carried(p)'
    <2>1. CASE callbacks[p] > 0
      <3>1. payment[p].status # "NONE"
        BY <2>1 DEF OInv, CalledIsAsked, AInv, RowsAreSound, Known
      <3>2. CASE Settled(p)
        BY <1>3, <1>4, <3>1, <3>2 DEF Carried
      <3>3. ASSUME NEW a \in Confirming, a.payment = p
            PROVE  Settled(p)' \/ Carried(p)'
        BY <3>3, Zenon DEF Carried
      <3>4. ASSUME NEW i \in DOMAIN payJobs, payJobs[i].payment = p
            PROVE  Settled(p)' \/ Carried(p)'
        BY <3>4 DEF Carried
      <3>5. \/ Settled(p)
            \/ \E a \in Confirming : a.payment = p
            \/ \E i \in DOMAIN payJobs : payJobs[i].payment = p
        BY <2>1 DEF OInv, ConfirmedIsOnItsWay
      <3>6. QED
        BY <3>2, <3>3, <3>4, <3>5
    <2>2. CASE ~(callbacks[p] > 0)
      BY <1>7, <2>2
    <2>3. QED
      BY <2>1, <2>2
  <1>8. ConfirmedIsOnItsWay'
    BY <1>7 DEF ConfirmedIsOnItsWay, Carried
  <1>9. QED
    BY <1>1, <1>6, <1>8

\* The worker's job, when activities end or move and jobs are added behind it.
LEMMA HeadStays ==
    ASSUME AInv, WorkerHasHead,
           \A a \in running' : a.kind = "processPayment" =>
               \E b \in running : b.kind = "processPayment" /\ b.payment = a.payment,
           (\E a \in running' : a.kind = "processPayment") /\ payJobs # <<>> => payJobs'[1] = payJobs[1]
    PROVE  WorkerHasHead'
  BY DEF WorkerHasHead, AInv, Workers

\* A step that neither hears from a provider nor goes on with what a webhook has told.
LEMMA CalmOwed ==
    ASSUME AInv, AInv', OInv, RowsKept, Reachable', UNCHANGED <<ledger, payJobs, provider, callbacks, lost>>,
           asked \subseteq asked', Confirming' = Confirming,
           \A p \in Payments :
               /\ payment[p].status = "NONE" => payment'[p].status \in {"NONE", "INITIATED"}
               /\ payment[p].status # "NONE" /\ payment[p].route = "paystack" =>
                      payment'[p].status = payment[p].status
    PROVE  OInv'
  <1>1. \A p \in Payments : Credited(p) => Credited(p)'
    BY DEF Credited, W!Posted
  <1>2. Crediting \subseteq Crediting'
    BY DEF Crediting, Confirming
  <1>3. CalledIsAsked' /\ CompletedIsOwed' /\ ConfirmedIsOnItsWay'
    <2>1. \A a \in Confirming : \E b \in Confirming' :
              b.payment = a.payment /\ (a \in Crediting => b \in Crediting')
      BY <1>2
    <2>2. \A i \in DOMAIN payJobs, p \in Payments : payJobs[i].payment = p =>
              \E j \in DOMAIN payJobs' : payJobs'[j].payment = p
      OBVIOUS
    <2>3. QED
      BY <1>1, <2>1, <2>2, OwedStays
  <1>4. WorkerHasHead'
    <2>1. \A a \in running' : a.kind = "processPayment" => a \in running
      BY DEF Confirming
    <2>2. QED
      BY <2>1, HeadStays DEF OInv
  <1>5. PaystackStatuses'
    BY DEF OInv, PaystackStatuses, RowsKept
  <1>6. QED
    BY <1>3, <1>4, <1>5 DEF OInv

\* Activities that are not about to create a payment come and go.
LEMMA ReachStays ==
    ASSUME AInv, AInv', RowsKept, Reachable, wallets \subseteq wallets',
           \A i \in DOMAIN topUpJobs' : NamesAWallet(topUpJobs[i])',
           \A a \in Openers' : a \in Openers \/ NamesAWallet(a.request)',
           \A p \in Payments : payment[p].status = "NONE" /\ payment'[p].status # "NONE" =>
               NamesAWallet(payment[p].request)'
    PROVE  Reachable'
  <1>1. \A r : NamesAWallet(r) => NamesAWallet(r)'
    BY DEF NamesAWallet
  <1>2. ASSUME NEW p \in Payments, payment'[p].status # "NONE"
        PROVE  NamesAWallet(payment[p].request)'
    BY <1>2 DEF Reachable, RowsKept, NamesAWallet
  <1>3. \A a \in Openers' : NamesAWallet(a.request)'
    BY <1>1 DEF Reachable
  <1>4. QED
    BY <1>2, <1>3 DEF Reachable

LEMMA SameReach ==
    ASSUME AInv, AInv', RowsKept, Reachable, wallets' = wallets, topUpJobs' = topUpJobs,
           \A a \in Openers' : a \in Openers,
           \A p \in Payments : payment[p].status = "NONE" => payment'[p].status = "NONE"
    PROVE  Reachable'
  <1>1. \A r : NamesAWallet(r) => NamesAWallet(r)'
    BY DEF NamesAWallet
  <1>2. QED
    BY <1>1 DEF Reachable, RowsKept

\* An activity that ends has settled its payment, if it held a confirmation.
LEMMA EndedOwed ==
    ASSUME AInv, AInv', OInv, RowsKept, NEW act \in running, Ends(act),
           UNCHANGED <<wallets, payment, provider, callbacks, asked>>, lost \subseteq lost',
           \A p \in Payments : Credited(p) => Credited(p)',
           act \in Confirming => Settled(act.payment)'
    PROVE  OInv'
  <1>1. running' = running \ {act} /\ UNCHANGED <<topUpJobs, topUpActive>>
    BY DEF Ends
  <1>2. Reachable'
    BY <1>1, SameReach DEF OInv, Openers
  <1>3. PaystackStatuses'
    BY DEF OInv, PaystackStatuses
  <1>4. \A a \in Confirming : a = act \/ a \in Confirming'
    BY <1>1 DEF Confirming
  <1>5. \A a \in Crediting : a = act \/ a \in Crediting'
    BY <1>1 DEF Crediting
  <1>6. \A a \in Confirming :
            \/ Settled(a.payment)'
            \/ \E b \in Confirming' : b.payment = a.payment /\ (a \in Crediting => b \in Crediting')
    BY <1>4, <1>5
  <1>7. CASE act.kind = "processPayment"
    <2>1. payJobs # <<>> /\ payJobs \in Seq([payment : Payments, to : {"COMPLETED", "FAILED"}])
          /\ payJobs' = Tail(payJobs)
      BY <1>7 DEF AInv, Types, Workers, Ends
    <2>2. payJobs[1].payment = act.payment
      BY <1>7 DEF OInv, WorkerHasHead
    <2>3. act \in Confirming
      BY <1>7 DEF Confirming
    <2>4. \A i \in DOMAIN payJobs : i = 1 \/ \E j \in DOMAIN payJobs' : payJobs'[j] = payJobs[i]
      BY <2>1, TailShifts
    <2>5. \A i \in DOMAIN payJobs, p \in Payments : payJobs[i].payment = p =>
              Settled(p)' \/ \E j \in DOMAIN payJobs' : payJobs'[j].payment = p
      BY <2>2, <2>3, <2>4
    <2>6. CalledIsAsked' /\ CompletedIsOwed' /\ ConfirmedIsOnItsWay'
      BY <1>6, <2>5, OwedStays
    <2>7. WorkerHasHead'
      BY <1>1, <1>7 DEF WorkerHasHead, AInv, Workers
    <2>8. QED
      BY <1>2, <1>3, <2>6, <2>7 DEF OInv
  <1>8. CASE act.kind # "processPayment"
    <2>1. payJobs' = payJobs
      BY <1>8 DEF Ends
    <2>2. \A i \in DOMAIN payJobs, p \in Payments : payJobs[i].payment = p =>
              \E j \in DOMAIN payJobs' : payJobs'[j].payment = p
      BY <2>1
    <2>3. CalledIsAsked' /\ CompletedIsOwed' /\ ConfirmedIsOnItsWay'
      BY <1>6, <2>2, OwedStays
    <2>4. WorkerHasHead'
      BY <1>1, <2>1, HeadStays DEF OInv
    <2>5. QED
      BY <1>2, <1>3, <2>3, <2>4 DEF OInv
  <1>9. QED
    BY <1>7, <1>8

LEMMA OInitOK ==
    ASSUME Init
    PROVE  OInv
  <1>1. /\ running = {} /\ topUpJobs = <<>> /\ payJobs = <<>>
        /\ \A p \in Payments : callbacks[p] = 0 /\ payment[p].status = "NONE" /\ payment[p].route = "momo"
    BY DEF Init, NoRow
  <1>2. Reachable /\ WorkerHasHead
    BY <1>1 DEF Reachable, Openers, WorkerHasHead
  <1>3. CalledIsAsked /\ PaystackStatuses /\ CompletedIsOwed /\ ConfirmedIsOnItsWay
    BY <1>1 DEF CalledIsAsked, PaystackStatuses, CompletedIsOwed, ConfirmedIsOnItsWay
  <1>4. QED
    BY <1>2, <1>3 DEF OInv

LEMMA ClientsOwed ==
    ASSUME AInv, AInv', OInv, RowsKept, Clients
    PROVE  OInv'
  <1>1. ASSUME UNCHANGED <<payment, running, ledger, payJobs, provider, callbacks, lost, asked>>,
               wallets \subseteq wallets', \A i \in DOMAIN topUpJobs' : NamesAWallet(topUpJobs[i])'
        PROVE  OInv'
    <2>1. Reachable'
      BY <1>1, ReachStays DEF OInv, Openers
    <2>2. Confirming' = Confirming
      BY <1>1 DEF Confirming
    <2>3. QED
      BY <1>1, <2>1, <2>2, CalmOwed
  <1>2. \A i \in DOMAIN topUpJobs : NamesAWallet(topUpJobs[i])
    BY DEF OInv, Reachable
  <1>3. CASE \E u \in Owners, b \in Openings : OpenWallet(u, b)
    <2>1. /\ UNCHANGED <<payment, running, ledger, payJobs, provider, callbacks, lost, asked, topUpJobs>>
          /\ wallets \subseteq wallets'
      BY <1>3 DEF OpenWallet, W!CreateWallet, queues, outside, troubles
    <2>2. QED
      BY <1>1, <1>2, <2>1 DEF NamesAWallet
  <1>4. CASE \E u \in Owners : CreatePaymentMethod(u)
    <2>1. UNCHANGED <<payment, running, ledger, payJobs, provider, callbacks, lost, asked, topUpJobs, wallets>>
      BY <1>4 DEF CreatePaymentMethod, walletVars, queues, troubles
    <2>2. QED
      BY <1>1, <1>2, <2>1 DEF NamesAWallet
  <1>5. ASSUME NEW r \in Requests, FundWallet(r)
        PROVE  OInv'
    <2>1. /\ UNCHANGED <<payment, running, ledger, payJobs, provider, callbacks, lost, asked, wallets>>
          /\ topUpJobs' = Append(topUpJobs, r) /\ topUpJobs \in Seq(Requests)
          /\ NamesAWallet(r)
      BY <1>5 DEF FundWallet, walletVars, troubles, NamesAWallet, AInv, Types
    <2>2. \A i \in DOMAIN topUpJobs' :
              topUpJobs'[i] = r \/ (i \in DOMAIN topUpJobs /\ topUpJobs'[i] = topUpJobs[i])
      BY <2>1, AppendFacts
    <2>3. \A i \in DOMAIN topUpJobs' : NamesAWallet(topUpJobs[i])'
      BY <1>2, <2>1, <2>2 DEF NamesAWallet
    <2>4. QED
      BY <1>1, <2>1, <2>3
  <1>6. ASSUME NEW r \in Requests, InitiatePayment(r)
        PROVE  OInv'
    <2> DEFINE p == NextPayment
    <2>1. /\ NewPayment(p, r, "paystack") /\ Start("initiatePayment", "ask", r, p, "NONE")
          /\ UNCHANGED <<ledger, payJobs, provider, callbacks, lost, asked, wallets, topUpJobs>>
          /\ NamesAWallet(r)
      BY <1>6 DEF InitiatePayment, walletVars, queues, troubles, NamesAWallet
    <2>2. /\ p \in Payments
          /\ payment'[p] = [status |-> "INITIATED", route |-> "paystack", request |-> r]
          /\ payment[p].status = "NONE"
          /\ \A q \in Payments \ {p} : payment'[q] = payment[q]
      BY <2>1, NewRow
    <2>3. "initiatePayment" \in Kinds /\ "ask" \in Stages /\ "NONE" \in Statuses
      BY DEF Kinds, Stages, Statuses
    <2> HIDE DEF p
    <2>4. PICK new \in Activity : /\ running' = running \union {new}
                                  /\ new.kind = "initiatePayment" /\ new.at = "ask" /\ new.payment = p
      BY <2>1, <2>2, <2>3, StartFacts
    <2>5. Confirming' = Confirming /\ Openers' = Openers
      BY <2>4 DEF Confirming, Openers
    <2>6. Reachable'
      BY <1>2, <2>1, <2>2, <2>5, ReachStays DEF OInv, NamesAWallet
    <2>7. \A q \in Payments :
              /\ payment[q].status = "NONE" => payment'[q].status \in {"NONE", "INITIATED"}
              /\ payment[q].status # "NONE" /\ payment[q].route = "paystack" =>
                     payment'[q].status = payment[q].status
      BY <2>2
    <2>8. QED
      BY <2>1, <2>5, <2>6, <2>7, CalmOwed
  <1>7. QED
    BY <1>3, <1>4, <1>5, <1>6 DEF Clients, WalletRoutes, PaymentRoutes

LEMMA CreateOwed ==
    ASSUME AInv, AInv', OInv, RowsKept, NEW act \in running, CreatePayment(act)
    PROVE  OInv'
  <1> DEFINE p == NextPayment
  <1>1. /\ act.kind = "topUpInitiated" /\ act.at = "start" /\ act \in Activity
        /\ act.request \in Requests
        /\ NewPayment(p, act.request, "momo") /\ Move(act, "ask", p, "NONE")
        /\ UNCHANGED <<ledger, payJobs, provider, callbacks, lost, asked, wallets, topUpJobs>>
    BY DEF CreatePayment, AInv, Types, ActsAreSound, Sound, walletVars, queues, outside, troubles
  <1>2. /\ p \in Payments /\ payment[p].status = "NONE"
        /\ payment'[p] = [status |-> "INITIATED", route |-> "momo", request |-> act.request]
        /\ \A q \in Payments \ {p} : payment'[q] = payment[q]
    BY <1>1, NewRow
  <1>3. "ask" \in Stages /\ "NONE" \in Statuses
    BY DEF Stages, Statuses
  <1> HIDE DEF p
  <1>4. PICK new \in Activity : /\ running' = (running \ {act}) \union {new}
                                /\ new.kind = "topUpInitiated" /\ new.at = "ask" /\ new.payment = p
    BY <1>1, <1>2, <1>3, MoveFacts
  <1>5. Confirming' = Confirming
    BY <1>1, <1>4 DEF Confirming
  <1>6. act \in Openers /\ \A a \in Openers' : a \in Openers
    BY <1>1, <1>4 DEF Openers
  <1>7. Reachable'
    <2>1. NamesAWallet(act.request)
      BY <1>6 DEF OInv, Reachable
    <2>2. \A q \in Payments : payment[q].status = "NONE" /\ payment'[q].status # "NONE" =>
              NamesAWallet(payment[q].request)'
      BY <1>1, <1>2, <2>1 DEF NamesAWallet
    <2>3. \A i \in DOMAIN topUpJobs' : NamesAWallet(topUpJobs[i])'
      BY <1>1 DEF OInv, Reachable, NamesAWallet
    <2>4. QED
      BY <1>1, <1>6, <2>2, <2>3, ReachStays DEF OInv
  <1>8. \A q \in Payments :
            /\ payment[q].status = "NONE" => payment'[q].status \in {"NONE", "INITIATED"}
            /\ payment[q].status # "NONE" /\ payment[q].route = "paystack" =>
                   payment'[q].status = payment[q].status
    BY <1>2
  <1>9. QED
    BY <1>1, <1>5, <1>7, <1>8, CalmOwed

LEMMA JobsOwed ==
    ASSUME AInv, AInv', OInv, RowsKept, EmitTopUpInitiated \/ CompleteTopUpJob \/ StartProcessPayment
    PROVE  OInv'
  <1>1. UNCHANGED <<ledger, payJobs, provider, callbacks, lost, asked, wallets, payment>>
    BY DEF EmitTopUpInitiated, CompleteTopUpJob, StartProcessPayment, walletVars, queues, outside, troubles
  <1>2. topUpJobs \in Seq(Requests) /\ payJobs \in Seq([payment : Payments, to : {"COMPLETED", "FAILED"}])
    BY DEF AInv, Types
  <1>3. \A i \in DOMAIN topUpJobs : NamesAWallet(topUpJobs[i])
    BY DEF OInv, Reachable
  <1>4. CASE EmitTopUpInitiated
    <2>1. /\ topUpJobs # <<>> /\ topUpJobs' = topUpJobs
          /\ Start("topUpInitiated", "start", Head(topUpJobs), NoPayment, "NONE")
      BY <1>4 DEF EmitTopUpInitiated
    <2>2. PICK r \in Requests : r = topUpJobs[1] /\ 1 \in DOMAIN topUpJobs
                                /\ Start("topUpInitiated", "start", r, NoPayment, "NONE")
      BY <1>2, <2>1, TailFacts
    <2>3. "topUpInitiated" \in Kinds /\ "start" \in Stages /\ "NONE" \in Statuses
          /\ NoPayment \in Payments \union {NoPayment} /\ r \in Requests \union {NoRequest}
      BY DEF Kinds, Stages, Statuses
    <2>4. PICK new \in Activity : /\ running' = running \union {new}
                                  /\ new.kind = "topUpInitiated" /\ new.request = r
      BY <2>2, <2>3, StartFacts
    <2>5. Confirming' = Confirming
      BY <2>4 DEF Confirming
    <2>6. \A a \in Openers' : a \in Openers \/ NamesAWallet(a.request)'
      BY <1>1, <1>3, <2>2, <2>4 DEF Openers, NamesAWallet
    <2>7. Reachable'
      BY <1>1, <1>3, <2>1, <2>6, ReachStays DEF OInv, NamesAWallet
    <2>8. QED
      BY <1>1, <2>5, <2>7, CalmOwed
  <1>5. CASE CompleteTopUpJob
    <2>1. topUpJobs # <<>> /\ topUpJobs' = Tail(topUpJobs) /\ running' = running
      BY <1>5 DEF CompleteTopUpJob, AInv, Workers
    <2>2. \A i \in DOMAIN topUpJobs' : i + 1 \in DOMAIN topUpJobs /\ topUpJobs'[i] = topUpJobs[i + 1]
      BY <1>2, <2>1, TailFacts
    <2>3. \A i \in DOMAIN topUpJobs' : NamesAWallet(topUpJobs[i])'
      BY <1>1, <1>3, <2>2 DEF NamesAWallet
    <2>4. Confirming' = Confirming /\ Openers' = Openers
      BY <2>1 DEF Confirming, Openers
    <2>5. Reachable'
      BY <1>1, <2>3, <2>4, ReachStays DEF OInv
    <2>6. QED
      BY <1>1, <2>4, <2>5, CalmOwed
  <1>6. CASE StartProcessPayment
    <2>1. /\ payJobs # <<>> /\ topUpJobs' = topUpJobs
          /\ Start("processPayment", "find", NoRequest, Head(payJobs).payment, Head(payJobs).to)
          /\ \A a \in running : a.kind # "processPayment"
      BY <1>6 DEF StartProcessPayment, queues
    <2>2. Head(payJobs) = payJobs[1] /\ Head(payJobs) \in [payment : Payments, to : {"COMPLETED", "FAILED"}]
      BY <1>2, <2>1, TailFacts
    <2>3. PICK p \in Payments, to \in Statuses :
              p = payJobs[1].payment /\ Start("processPayment", "find", NoRequest, p, to)
      BY <2>1, <2>2 DEF Statuses
    <2>4. "processPayment" \in Kinds /\ "find" \in Stages /\ NoRequest \in Requests \union {NoRequest}
      BY DEF Kinds, Stages
    <2>5. PICK new \in Activity : /\ running' = running \union {new}
                                  /\ new.kind = "processPayment" /\ new.at = "find" /\ new.payment = p
      BY <2>3, <2>4, StartFacts
    <2>6. WorkerHasHead'
      BY <1>1, <2>1, <2>3, <2>5 DEF WorkerHasHead
    <2>7. Reachable'
      BY <1>1, <2>1, <2>5, SameReach DEF OInv, Openers
    <2>8. /\ \A p1 \in Payments : Credited(p1) => Credited(p1)'
          /\ \A a \in Confirming : a \in Confirming' /\ (a \in Crediting => a \in Crediting')
      BY <1>1, <2>5 DEF Credited, W!Posted, Confirming, Crediting
    <2>9. \A i \in DOMAIN payJobs, q \in Payments : payJobs[i].payment = q =>
              \E j \in DOMAIN payJobs' : payJobs'[j].payment = q
      BY <1>1
    <2>10. CalledIsAsked' /\ CompletedIsOwed' /\ ConfirmedIsOnItsWay'
      BY <1>1, <2>8, <2>9, OwedStays
    <2>11. PaystackStatuses'
      BY <1>1 DEF OInv, PaystackStatuses
    <2>12. QED
      BY <2>6, <2>7, <2>10, <2>11 DEF OInv
  <1>7. QED
    BY <1>4, <1>5, <1>6

LEMMA ProviderOwed ==
    ASSUME AInv, AInv', OInv, RowsKept, Provider
    PROVE  OInv'
  <1>1. PICK p \in Payments :
            \/ ZeepayCallback(p) \/ JunipayCallback(p)
            \/ \E to \in {"COMPLETED", "FAILED"} : PaystackCallback(p, to)
    BY DEF Provider
  <1>2. /\ UNCHANGED <<ledger, wallets, topUpJobs, payJobs, payment, asked, provider, lost>>
        /\ CallsBack(p)
    BY <1>1 DEF ZeepayCallback, JunipayCallback, PaystackCallback, walletVars, queues, troubles
  <1>3. p \in asked /\ \A q \in Payments \ {p} : callbacks'[q] = callbacks[q]
    BY <1>2 DEF CallsBack, AInv, Types
  \* What is left to show of each webhook: that it hands on p, or settles it.
  <1>4. ASSUME NEW new, running' \in {running, running \union {new}},
               new.kind \notin {"topUpInitiated", "processPayment"},
               Carried(p)' \/ Settled(p)'
        PROVE  OInv'
    <2>1. \A a \in Openers' : a \in Openers
      BY <1>4 DEF Openers
    <2>2. Reachable'
      BY <1>2, <2>1, SameReach DEF OInv
    <2>3. PaystackStatuses'
      BY <1>2 DEF OInv, PaystackStatuses
    <2>4. WorkerHasHead'
      BY <1>2, <1>4 DEF OInv, WorkerHasHead
    <2>5. /\ \A q \in Payments : Credited(q) => Credited(q)'
          /\ \A a \in Confirming : a \in Confirming' /\ (a \in Crediting => a \in Crediting')
      BY <1>2, <1>4 DEF Credited, W!Posted, Confirming, Crediting
    <2>6. \A i \in DOMAIN payJobs, q \in Payments : payJobs[i].payment = q =>
              \E j \in DOMAIN payJobs' : payJobs'[j].payment = q
      BY <1>2
    <2>7. \A q \in Payments :
              callbacks'[q] > 0 => callbacks[q] > 0 \/ (q \in asked /\ (Carried(q)' \/ Settled(q)'))
      BY <1>3, <1>4
    <2>8. CalledIsAsked' /\ CompletedIsOwed' /\ ConfirmedIsOnItsWay'
      BY <1>2, <2>5, <2>6, <2>7, OwedStays
    <2>9. QED
      BY <2>2, <2>3, <2>4, <2>8 DEF OInv
  <1>5. CASE ZeepayCallback(p)
    <2>1. Start("zeepayWebhook", "find", NoRequest, p, "COMPLETED")
      BY <1>5 DEF ZeepayCallback
    <2>2. "zeepayWebhook" \in Kinds /\ "find" \in Stages /\ "COMPLETED" \in Statuses
          /\ NoRequest \in Requests \union {NoRequest}
      BY DEF Kinds, Stages, Statuses
    <2>3. PICK new \in Activity : /\ running' = running \union {new}
                                  /\ new.kind = "zeepayWebhook" /\ new.payment = p
      BY <2>1, <2>2, StartFacts
    <2>4. new \in Confirming'
      BY <2>3 DEF Confirming
    <2>5. QED
      BY <1>4, <2>3, <2>4 DEF Carried
  <1>6. CASE JunipayCallback(p)
    <2>1. running' = running /\ Settled(p)'
      BY <1>2, <1>6 DEF JunipayCallback, Settled
    <2>2. PICK new : new = [kind |-> "zeepayWebhook"]
      OBVIOUS
    <2>3. QED
      BY <1>4, <2>1, <2>2
  <1>7. ASSUME NEW to \in {"COMPLETED", "FAILED"}, PaystackCallback(p, to)
        PROVE  OInv'
    <2>1. Start("paystackWebhook", "start", NoRequest, p, to)
      BY <1>7 DEF PaystackCallback
    <2>2. "paystackWebhook" \in Kinds /\ "start" \in Stages /\ to \in Statuses
          /\ NoRequest \in Requests \union {NoRequest}
      BY <1>7 DEF Kinds, Stages, Statuses
    <2>3. PICK new \in Activity : /\ running' = running \union {new}
                                  /\ new.kind = "paystackWebhook" /\ new.payment = p
      BY <2>1, <2>2, StartFacts
    <2>4. new \in Confirming'
      BY <2>3 DEF Confirming
    <2>5. QED
      BY <1>4, <2>3, <2>4 DEF Carried
  <1>8. QED
    BY <1>1, <1>5, <1>6, <1>7

LEMMA MovesOwed ==
    ASSUME AInv, AInv', OInv, RowsKept, NEW act \in running, Moves(act)
    PROVE  OInv'
  <1>1. /\ UNCHANGED <<ledger, wallets, topUpJobs, payJobs, payment, provider, callbacks, lost>>
        /\ asked \subseteq asked' /\ act.at # "start" /\ act \in Activity /\ act.to \in Statuses
    BY DEF Moves, SendRequest, PaystackFails, JunipayDeclines, MomoAccepted, FindPayment, ReadWallet,
       W!ReadForTopUp, W!Read, W!rows, walletVars, queues, outside, troubles, AInv, Types, Activity
  <1>2. act.payment \in Payments
    BY <1>1 DEF AInv, ActsAreSound, Sound, Known
  <1>3. \E at \in Stages, to \in Statuses :
            /\ at # "start" /\ Move(act, at, act.payment, to)
            /\ act.at \in {"credit", "flush"} => at = "flush"
    BY <1>1 DEF Moves, SendRequest, PaystackFails, JunipayDeclines, MomoAccepted, FindPayment,
       ReadWallet, Stages, Statuses
  <1>4. PICK new \in Activity :
            /\ running' = (running \ {act}) \union {new}
            /\ new.kind = act.kind /\ new.payment = act.payment /\ new.at # "start"
            /\ act.at \in {"credit", "flush"} => new.at = "flush"
    BY <1>1, <1>2, <1>3, MoveFacts
  <1>5. Reachable'
    BY <1>1, <1>4, SameReach DEF OInv, Openers
  <1>6. WorkerHasHead'
    BY <1>1, <1>4 DEF OInv, WorkerHasHead
  <1>7. PaystackStatuses'
    BY <1>1 DEF OInv, PaystackStatuses
  <1>8. \A q \in Payments : Credited(q) => Credited(q)'
    BY <1>1 DEF Credited, W!Posted
  <1>9. \A a \in Confirming :
            \E b \in Confirming' : b.payment = a.payment /\ (a \in Crediting => b \in Crediting')
    BY <1>4 DEF Confirming, Crediting
  <1>10. \A i \in DOMAIN payJobs, q \in Payments : payJobs[i].payment = q =>
             \E j \in DOMAIN payJobs' : payJobs'[j].payment = q
    BY <1>1
  <1>11. CalledIsAsked' /\ CompletedIsOwed' /\ ConfirmedIsOnItsWay'
    BY <1>1, <1>8, <1>9, <1>10, OwedStays
  <1>12. QED
    BY <1>5, <1>6, <1>7, <1>11 DEF OInv

\* Paystack's listener hands the confirmation to the queue.
LEMMA EnqueueOwed ==
    ASSUME AInv, AInv', OInv, RowsKept, NEW act \in running, EnqueueProcessPayment(act)
    PROVE  OInv'
  <1> DEFINE job == [payment |-> act.payment, to |-> act.to]
  <1>1. /\ act.kind = "paystackWebhook" /\ act.at = "start"
        /\ payJobs' = Append(payJobs, job) /\ running' = running \ {act}
        /\ UNCHANGED <<ledger, wallets, topUpJobs, payment, provider, callbacks, asked, lost>>
    BY DEF EnqueueProcessPayment, walletVars, outside, troubles
  <1>2. act.payment \in Payments /\ act.to \in {"COMPLETED", "FAILED"}
    BY <1>1 DEF AInv, ActsAreSound, Sound, Known
  <1>3. job \in [payment : Payments, to : {"COMPLETED", "FAILED"}] /\ job.payment = act.payment
    BY <1>2
  <1> HIDE DEF job
  <1>4. payJobs \in Seq([payment : Payments, to : {"COMPLETED", "FAILED"}])
    BY DEF AInv, Types
  <1>5. /\ \A i \in DOMAIN payJobs : i \in DOMAIN payJobs' /\ payJobs'[i] = payJobs[i]
        /\ \E i \in DOMAIN payJobs' : payJobs'[i] = job
        /\ payJobs # <<>> => 1 \in DOMAIN payJobs
    <2>1. /\ Len(payJobs) \in Nat /\ DOMAIN payJobs = 1..Len(payJobs)
          /\ DOMAIN payJobs' = 1..(Len(payJobs) + 1)
          /\ \A i \in 1..Len(payJobs) : payJobs'[i] = payJobs[i]
          /\ payJobs'[Len(payJobs) + 1] = job
      BY <1>1, <1>3, <1>4, AppendFacts
    <2>2. payJobs # <<>> => 1 \in DOMAIN payJobs
      BY <1>4, TailFacts
    <2>3. QED
      BY <2>1, <2>2
  <1>6. Reachable'
    BY <1>1, SameReach DEF OInv, Openers
  <1>7. WorkerHasHead'
    BY <1>1, <1>5, HeadStays DEF OInv
  <1>8. PaystackStatuses'
    BY <1>1 DEF OInv, PaystackStatuses
  <1>9. \A q \in Payments : Credited(q) => Credited(q)'
    BY <1>1 DEF Credited, W!Posted
  <1>10. \A a \in Confirming :
             \/ a \in Confirming' /\ (a \in Crediting => a \in Crediting')
             \/ a \notin Crediting /\ \E i \in DOMAIN payJobs' : payJobs'[i].payment = a.payment
    BY <1>1, <1>3, <1>5 DEF Confirming, Crediting
  <1>11. \A i \in DOMAIN payJobs, q \in Payments : payJobs[i].payment = q =>
             \E j \in DOMAIN payJobs' : payJobs'[j].payment = q
    BY <1>5
  <1>12. CalledIsAsked' /\ CompletedIsOwed' /\ ConfirmedIsOnItsWay'
    BY <1>1, <1>9, <1>10, <1>11, OwedStays
  <1>13. QED
    BY <1>6, <1>7, <1>8, <1>12 DEF OInv

LEMMA RecordOwed ==
    ASSUME AInv, AInv', OInv, RowsKept, NEW act \in running, RecordAnswer(act)
    PROVE  OInv'
  <1>1. /\ payment' = [payment EXCEPT ![act.payment].status = act.to]
        /\ act.at = "answered" /\ Ends(act)
        /\ UNCHANGED <<ledger, wallets, provider, callbacks, asked, lost>>
    BY DEF RecordAnswer, walletVars, outside, troubles
  <1>2. /\ Known(act.payment) /\ act.kind = "topUpInitiated" /\ payment[act.payment].route = "momo"
        /\ act.to \in Statuses \ {"NONE"}
    BY <1>1 DEF AInv, ActsAreSound, Sound, Statuses
  <1>3. /\ \A q \in Payments \ {act.payment} : payment'[q] = payment[q]
        /\ \A q \in Payments : payment[q].status = "NONE" => payment'[q] = payment[q]
    BY <1>1, <1>2, NewStatus DEF Known
  <1>4. running' = running \ {act} /\ UNCHANGED <<payJobs, topUpJobs>>
    BY <1>1, <1>2 DEF Ends
  <1>5. Confirming' = Confirming /\ \A a \in Openers' : a \in Openers
    BY <1>2, <1>4 DEF Confirming, Openers
  <1>6. Reachable'
    BY <1>1, <1>3, <1>4, <1>5, SameReach DEF OInv
  <1>7. \A q \in Payments :
            /\ payment[q].status = "NONE" => payment'[q].status \in {"NONE", "INITIATED"}
            /\ payment[q].status # "NONE" /\ payment[q].route = "paystack" =>
                   payment'[q].status = payment[q].status
    BY <1>2, <1>3
  <1>8. QED
    BY <1>1, <1>4, <1>5, <1>6, <1>7, CalmOwed

\* A status is written, and whoever has it from a webhook goes on to credit.
LEMMA SaveOwed ==
    ASSUME AInv, AInv', OInv, RowsKept, NEW act \in running, SavePayment(act)
    PROVE  OInv'
  <1>1. /\ act.at = "save" /\ Known(act.payment)
        /\ UNCHANGED <<ledger, wallets, topUpJobs, payJobs, provider, callbacks, asked, lost>>
        /\ payment'[act.payment].status = IF act.to = "NONE" THEN payment[act.payment].status ELSE act.to
        /\ \A q \in Payments \ {act.payment} : payment'[q] = payment[q]
        /\ \A q \in Payments : payment[q].status = "NONE" => payment'[q] = payment[q]
    BY SaveFacts DEF walletVars, queues, outside, troubles
  <1>2. \/ act.kind = "zeepayWebhook" /\ payment[act.payment].route = "momo"
        \/ act.kind = "initiatePayment" /\ payment[act.payment].route = "paystack" /\ act.to = "FAILED"
        \/ act.kind = "processPayment" /\ payment[act.payment].route = "paystack"
           /\ act.to \in {"COMPLETED", "FAILED"}
    BY <1>1 DEF AInv, ActsAreSound, Sound
  <1>3. \A a \in running' :
            \/ a \in running /\ a # act
            \/ /\ a.payment = act.payment /\ a.at = "credit"
               /\ \/ act.kind = "zeepayWebhook" /\ a.kind = "paymentCompleted"
                  \/ act.kind = "processPayment" /\ a.kind = "processPayment"
    BY SaveFacts
  <1>4. /\ \A a \in running \ {act} : a \in running'
        /\ act.kind # "initiatePayment" =>
               \E b \in Confirming' : /\ b.payment = act.payment
                                      /\ act.kind = "processPayment" => b \in Crediting'
    BY SaveFacts DEF Confirming, Crediting
  <1>5. Reachable'
    BY <1>1, <1>3, SameReach DEF OInv, Openers
  <1>6. WorkerHasHead'
    BY <1>1, <1>3, HeadStays DEF OInv
  <1>7. PaystackStatuses'
    BY <1>1, <1>2 DEF OInv, PaystackStatuses, RowsKept, Known
  <1>8. \A q \in Payments : Credited(q) => Credited(q)'
    BY <1>1 DEF Credited, W!Posted
  <1>9. \A a \in Confirming :
            \E b \in Confirming' : b.payment = a.payment /\ (a \in Crediting => b \in Crediting')
    BY <1>1, <1>4 DEF Confirming, Crediting
  <1>10. \A i \in DOMAIN payJobs, q \in Payments : payJobs[i].payment = q =>
             \E j \in DOMAIN payJobs' : payJobs'[j].payment = q
    BY <1>1
  <1>11. \A q \in Payments :
             payment[q].status # "NONE" /\ payment[q].route = "paystack" /\ payment'[q].status # payment[q].status =>
                 payment'[q].status = "FAILED" \/ \E b \in Crediting' : b.payment = q
    BY <1>1, <1>2, <1>4
  <1>12. CalledIsAsked' /\ CompletedIsOwed' /\ ConfirmedIsOnItsWay'
    BY <1>1, <1>8, <1>9, <1>10, <1>11, OwedStays
  <1>13. QED
    BY <1>5, <1>6, <1>7, <1>12 DEF OInv

\* What an ending leaves, wherever it comes from.
LEMMA EndingFacts ==
    ASSUME AInv, SInv, W!TypeOK, NEW act \in running, Endings(act)
    PROVE  /\ Ends(act) /\ UNCHANGED <<wallets, payment, provider, callbacks, asked>>
           /\ lost \subseteq lost'
           /\ \A p \in Payments : Credited(p) => Credited(p)'
           /\ act.at = "flush" => Credited(act.payment)' \/ DatabaseFails(act)
  <1>1. /\ Ends(act) /\ UNCHANGED <<payment, provider, callbacks, asked>>
        /\ lost \subseteq lost'
    BY DEF Endings, NoPaymentMethod, RequestThrows, PaystackAccepted, AnswerTooLong,
       PaymentNotFound, NoWallet, FlushWallet, DatabaseFails, outside, troubles
  <1>2. CASE act.at # "flush"
    <2>1. UNCHANGED <<wallets, ledger>>
      BY <1>2 DEF Endings, NoPaymentMethod, RequestThrows, PaystackAccepted, AnswerTooLong,
         PaymentNotFound, NoWallet, FlushWallet, DatabaseFails, walletVars
    <2>2. QED
      BY <1>1, <1>2, <2>1 DEF Credited, W!Posted
  <1>3. CASE act.at = "flush"
    <2>1. FlushWallet(act) \/ DatabaseFails(act)
      BY <1>3 DEF Endings, NoPaymentMethod, RequestThrows, PaystackAccepted, AnswerTooLong,
         PaymentNotFound, NoWallet, AInv, ActsAreSound, Sound
    <2>2. CASE DatabaseFails(act)
      <3>1. UNCHANGED <<wallets, ledger>>
        BY <1>3, <2>2 DEF DatabaseFails, W!FlushFails, W!rows
      <3>2. QED
        BY <1>1, <2>2, <3>1 DEF Credited, W!Posted
    <2>3. CASE FlushWallet(act)
      <3>1. PICK f \in inflight : f.call = act.id /\ (W!Flush(f) \/ W!RefuseSecondCredit(f))
        BY <2>3 DEF FlushWallet
      <3>2. f.type = "CREDIT" /\ f.payment = act.payment
        BY <1>3, <3>1 DEF SInv, MoneyInv, CallsAreCredits, AInv, IdsDiffer
      <3>3. act.payment \in Payments
        BY <1>3 DEF AInv, ActsAreSound, Sound, Known
      <3>4. CASE W!RefuseSecondCredit(f)
        <4>1. UNCHANGED <<wallets, ledger>> /\ Credited(act.payment)
          BY <3>2, <3>4 DEF W!RefuseSecondCredit, W!rows, Credited
        <4>2. QED
          BY <1>1, <4>1 DEF Credited, W!Posted
      <3>5. CASE W!Flush(f)
        <4> DEFINE row == W!RowOf(f)
        <4>1. /\ ledger \in [Owners -> Seq(W!Row)] /\ f.owner \in Owners
              /\ row \in W!Row /\ row.payment = act.payment
          BY <3>2, FlushedRow
        <4>2. wallets' = wallets /\ ledger' = [ledger EXCEPT ![f.owner] = Append(@, row)]
          BY <3>5 DEF W!Flush
        <4> HIDE DEF row
        <4>3. /\ \A i \in DOMAIN ledger[f.owner] :
                     i \in DOMAIN ledger'[f.owner] /\ ledger'[f.owner][i] = ledger[f.owner][i]
              /\ \E i \in DOMAIN ledger'[f.owner] : ledger'[f.owner][i] = row
          <5>1. ledger'[f.owner] = Append(ledger[f.owner], row) /\ ledger[f.owner] \in Seq(W!Row)
            BY <4>1, <4>2
          <5> DEFINE s == ledger[f.owner]
                     t == ledger'[f.owner]
          <5>2. s \in Seq(W!Row) /\ t = Append(s, row)
            BY <5>1
          <5> HIDE DEF s, t
          <5>3. /\ Len(s) \in Nat /\ DOMAIN s = 1..Len(s) /\ DOMAIN t = 1..(Len(s) + 1)
                /\ \A i \in 1..Len(s) : t[i] = s[i]
                /\ t[Len(s) + 1] = row
            BY <4>1, <5>2, AppendFacts
          <5>4. (\A i \in DOMAIN s : i \in DOMAIN t /\ t[i] = s[i]) /\ \E i \in DOMAIN t : t[i] = row
            BY <5>3
          <5>5. QED
            BY <5>4 DEF s, t
        <4>4. \A u \in Owners \ {f.owner} : ledger'[u] = ledger[u]
          BY <4>1, <4>2
        <4>5. \A p \in Payments : Credited(p) => Credited(p)'
          BY <4>1, <4>3, <4>4 DEF Credited, W!Posted
        <4>6. Credited(act.payment)'
          BY <3>3, <4>1, <4>3 DEF Credited, W!Posted
        <4>7. QED
          BY <1>1, <4>2, <4>5, <4>6
      <3>6. QED
        BY <3>1, <3>4, <3>5
    <2>4. QED
      BY <2>1, <2>2, <2>3
  <1>4. QED
    BY <1>2, <1>3

\* Every ending of an activity that holds a confirmation settles the payment.
LEMMA EndingsOwed ==
    ASSUME AInv, AInv', SInv, W!TypeOK, OInv, RowsKept, NEW act \in running, Endings(act)
    PROVE  OInv'
  <1>1. /\ Ends(act) /\ UNCHANGED <<wallets, payment, provider, callbacks, asked>>
        /\ lost \subseteq lost'
        /\ \A p \in Payments : Credited(p) => Credited(p)'
        /\ act.at = "flush" => Credited(act.payment)' \/ DatabaseFails(act)
    BY EndingFacts
  <1>2. ASSUME act \in Confirming
        PROVE  Settled(act.payment)'
    <2>1. /\ act.kind \notin {"topUpInitiated", "initiatePayment"} /\ Known(act.payment)
          /\ act.at # "answered"
      BY <1>2 DEF Confirming, AInv, ActsAreSound, Sound
    <2>2. \/ PaymentNotFound(act) \/ NoWallet(act) \/ FlushWallet(act) \/ DatabaseFails(act)
      BY <2>1 DEF Endings, NoPaymentMethod, RequestThrows, PaystackAccepted, AnswerTooLong
    <2>3. CASE DatabaseFails(act)
      BY <1>2, <2>3 DEF DatabaseFails, Settled
    <2>4. CASE FlushWallet(act)
      <3>1. CASE DatabaseFails(act)
        BY <2>3, <3>1
      <3>2. CASE Credited(act.payment)'
        BY <3>2 DEF Settled
      <3>3. QED
        BY <1>1, <2>4, <3>1, <3>2 DEF FlushWallet
    <2>5. CASE NoWallet(act)
      <3>1. payment[act.payment].request.wallet \in Ghosts
        BY <2>1, <2>5 DEF NoWallet, OInv, Reachable, NamesAWallet, Known
      <3>2. payment[act.payment].request \in Requests
        BY <2>1 DEF AInv, RowsAreSound, Known
      <3>3. QED
        BY <1>1, <3>1, <3>2 DEF Settled
    <2>6. CASE PaymentNotFound(act)
      <3>1. act.at = "find" /\ ~Matches(act)
        BY <2>6 DEF PaymentNotFound
      <3>2. act.kind = "processPayment" /\ payment[act.payment].route = "paystack"
        BY <2>1, <3>1 DEF AInv, ActsAreSound, Sound, Matches, Known
      <3>3. payment[act.payment].status \in {"FAILED", "COMPLETED"}
        BY <2>1, <3>1, <3>2 DEF Matches, OInv, PaystackStatuses, AInv, Types, Known, PaymentRow, Statuses
      <3>4. \A b \in Crediting : b.payment # act.payment
        BY <3>1, <3>2 DEF Crediting, AInv, Workers
      <3>5. Settled(act.payment)
        BY <2>1, <3>2, <3>3, <3>4 DEF OInv, CompletedIsOwed, Settled, Known
      <3>6. QED
        BY <1>1, <2>1, <3>5 DEF Settled, Known
    <2>7. QED
      BY <2>2, <2>3, <2>4, <2>5, <2>6
  <1>3. QED
    BY <1>1, <1>2, EndedOwed

\* A crash loses what was in memory, except what a job on the queue says again.
LEMMA CrashOwed ==
    ASSUME AInv, AInv', OInv, RowsKept, Crash
    PROVE  OInv'
  <1>1. /\ running' = {}
        /\ lost' = lost \union {a.payment : a \in Confirming \ Redelivered}
        /\ UNCHANGED <<ledger, wallets, topUpJobs, payJobs, payment, provider, callbacks, asked>>
    BY DEF Crash, outside
  <1>2. Reachable'
    BY <1>1, SameReach DEF OInv, Openers
  <1>3. WorkerHasHead' /\ PaystackStatuses'
    BY <1>1 DEF OInv, WorkerHasHead, PaystackStatuses
  <1>4. \A q \in Payments : Credited(q) => Credited(q)'
    BY <1>1 DEF Credited, W!Posted
  <1>5. ASSUME NEW a \in Confirming
        PROVE  \/ Settled(a.payment)'
               \/ a \notin Crediting /\ \E i \in DOMAIN payJobs' : payJobs'[i].payment = a.payment
    <2>1. CASE a \notin Redelivered
      BY <1>1, <2>1 DEF Settled
    <2>2. CASE a \in Redelivered
      <3>1. a \in running /\ a.kind = "processPayment" /\ a \notin Crediting
        BY <2>2 DEF Redelivered, Crediting
      <3>2. payJobs # <<>> /\ payJobs \in Seq([payment : Payments, to : {"COMPLETED", "FAILED"}])
        BY <3>1 DEF AInv, Workers, Types
      <3>3. 1 \in DOMAIN payJobs /\ payJobs[1].payment = a.payment
        BY <3>1, <3>2, TailFacts DEF OInv, WorkerHasHead
      <3>4. QED
        BY <1>1, <3>1, <3>3
    <2>3. QED
      BY <2>1, <2>2
  <1>6. \A i \in DOMAIN payJobs, q \in Payments : payJobs[i].payment = q =>
            \E j \in DOMAIN payJobs' : payJobs'[j].payment = q
    BY <1>1
  <1>7. CalledIsAsked' /\ CompletedIsOwed' /\ ConfirmedIsOnItsWay'
    BY <1>1, <1>4, <1>5, <1>6, OwedStays
  <1>8. QED
    BY <1>2, <1>3, <1>7 DEF OInv

LEMMA NextOwed ==
    ASSUME AInv, SInv, W!TypeOK, OInv, [Next]_vars
    PROVE  OInv'
  <1>1. AInv' /\ RowsKept
    BY NextOK
  <1>2. CASE Clients
    BY <1>1, <1>2, ClientsOwed
  <1>3. CASE Provider
    BY <1>1, <1>3, ProviderOwed
  <1>4. CASE EmitTopUpInitiated \/ CompleteTopUpJob \/ StartProcessPayment
    BY <1>1, <1>4, JobsOwed
  <1>5. ASSUME NEW act \in running,
               \/ CreatePayment(act) \/ Moves(act) \/ Endings(act) \/ EnqueueProcessPayment(act)
               \/ RecordAnswer(act) \/ SavePayment(act)
        PROVE  OInv'
    BY <1>1, <1>5, CreateOwed, MovesOwed, EndingsOwed, EnqueueOwed, RecordOwed, SaveOwed
  <1>6. CASE Crash
    BY <1>1, <1>6, CrashOwed
  <1>7. CASE UNCHANGED vars
    <2>1. UNCHANGED <<ledger, wallets, topUpJobs, payJobs, payment, provider, callbacks, asked, lost, running>>
      BY <1>7 DEF vars, walletVars, queues, outside, troubles
    <2>2. Reachable' /\ Confirming' = Confirming
      BY <1>1, <2>1, SameReach DEF OInv, Openers, Confirming
    <2>3. QED
      BY <1>1, <2>1, <2>2, CalmOwed
  <1>8. QED
    BY <1>2, <1>3, <1>4, <1>5, <1>6, <1>7 DEF Next, Works, Faults, Moves, Endings

LEMMA OwedHolds == Spec => []OInv
  <1>1. AInv /\ W!TypeOK /\ SInv /\ OInv /\ [Next]_vars => OInv'
    BY NextOwed
  <1>2. QED
    BY OInitOK, <1>1, SafetyHolds, PTL DEF Spec

\* A confirmed payment is never forgotten: until it is settled, something in memory or a job
\* holds its confirmation, however webhooks, the provider's answers, redelivered jobs and
\* faults are interleaved.
THEOREM NothingIsForgotten == Spec => []ConfirmedIsOnItsWay
  <1>1. OInv => ConfirmedIsOnItsWay
    BY DEF OInv
  <1>2. QED
    BY <1>1, OwedHolds, PTL

\* So once the queues and the event loop have nothing left to do, every confirmed payment is
\* settled: what is left of ConfirmedIsCredited to fairness is that they come to rest.
THEOREM NothingOwedAtRest ==
    Spec => [](Quiet => \A p \in Payments : callbacks[p] > 0 => Settled(p))
  <1>1. ConfirmedIsOnItsWay => (Quiet => \A p \in Payments : callbacks[p] > 0 => Settled(p))
    BY DEF ConfirmedIsOnItsWay, Quiet, Confirming
  <1>2. QED
    BY <1>1, NothingIsForgotten, PTL

-----------------------------------------------------------------------------
\* What is used up: the steps left.

Busy == \E act \in running : act.kind = "processPayment"
Countable == IsFiniteSet(StepsOf(running))

LEMMA StepsFromIsNat ==
    /\ \A at \in Stages : StepsFrom[at] \in 1..20
    /\ StepsFrom["start"] = 20 /\ StepsFrom["ask"] = 7 /\ StepsFrom["waiting"] = 6
    /\ StepsFrom["answered"] = 5 /\ StepsFrom["find"] = 4 /\ StepsFrom["save"] = 3
    /\ StepsFrom["credit"] = 2 /\ StepsFrom["flush"] = 1
  BY DEF StepsFrom, Stages

\* One activity more.
LEMMA StepsPlus ==
    ASSUME NEW acts, IsFiniteSet(StepsOf(acts)), NEW act, act.at \in Stages, act \notin acts
    PROVE  /\ IsFiniteSet(StepsOf(acts \union {act}))
           /\ Cardinality(StepsOf(acts)) \in Nat
           /\ Cardinality(StepsOf(acts \union {act})) = Cardinality(StepsOf(acts)) + StepsFrom[act.at]
  <1> DEFINE n == StepsFrom[act.at]
             steps == {act} \X (1..n)
  <1>1. n \in 1..20 /\ n = StepsFrom[act.at]
    BY StepsFromIsNat
  <1> HIDE DEF n
  <1>2. IsFiniteSet({act}) /\ Cardinality({act}) = 1 /\ IsFiniteSet(1..n) /\ Cardinality(1..n) = n
    <2>1. IsFiniteSet(1..n) /\ Cardinality(1..n) = IF 1 > n THEN 0 ELSE n - 1 + 1
      BY <1>1, FS_Interval
    <2>2. IsFiniteSet({act}) /\ Cardinality({act}) = 1
      BY FS_Singleton
    <2>3. ~(1 > n) /\ n - 1 + 1 = n
      BY <1>1
    <2>4. QED
      BY <2>1, <2>2, <2>3
  <1>3. IsFiniteSet(steps) /\ Cardinality(steps) = Cardinality({act}) * Cardinality(1..n)
    BY <1>2, FS_Product
  <1>4. Cardinality(steps) = n
    BY <1>1, <1>2, <1>3
  <1>5. StepsOf(acts \union {act}) = StepsOf(acts) \union steps
    BY DEF StepsOf, n
  <1>6. StepsOf(acts) \intersect steps = {}
    BY DEF StepsOf
  <1> HIDE DEF steps
  <1>7. /\ IsFiniteSet(StepsOf(acts) \union steps)
        /\ Cardinality(StepsOf(acts) \union steps) =
               Cardinality(StepsOf(acts)) + Cardinality(steps) - Cardinality(StepsOf(acts) \intersect steps)
    BY <1>3, FS_Union
  <1>8. Cardinality(StepsOf(acts) \intersect steps) = 0 /\ Cardinality(StepsOf(acts)) \in Nat
    BY <1>6, FS_EmptySet, FS_CardinalityType
  <1>9. IsFiniteSet(StepsOf(acts \union {act}))
    BY <1>5, <1>7
  <1>10. Cardinality(StepsOf(acts \union {act})) = Cardinality(StepsOf(acts)) + n - 0
    BY <1>4, <1>5, <1>7, <1>8
  <1>11. \A m \in Nat : m + n - 0 = m + n
    BY <1>1
  <1>12. QED
    BY <1>1, <1>8, <1>9, <1>10, <1>11

\* One less.
LEMMA StepsMinus ==
    ASSUME NEW acts, IsFiniteSet(StepsOf(acts)), NEW act \in acts, act.at \in Stages
    PROVE  /\ IsFiniteSet(StepsOf(acts \ {act}))
           /\ Cardinality(StepsOf(acts \ {act})) \in Nat
           /\ Cardinality(StepsOf(acts)) = Cardinality(StepsOf(acts \ {act})) + StepsFrom[act.at]
  <1>1. StepsOf(acts \ {act}) \subseteq StepsOf(acts)
    BY DEF StepsOf
  <1>2. IsFiniteSet(StepsOf(acts \ {act}))
    BY <1>1, FS_Subset
  <1>3. (acts \ {act}) \union {act} = acts
    OBVIOUS
  <1>4. QED
    BY <1>2, <1>3, StepsPlus

LEMMA CountableStays ==
    ASSUME Countable, NEW new, new.at \in Stages, running' \subseteq running \union {new}
    PROVE  Countable'
  <1>1. IsFiniteSet(StepsOf(running \union {new}))
    <2>1. CASE new \in running
      <3>1. running \union {new} = running
        BY <2>1
      <3>2. QED
        BY <3>1 DEF Countable
    <2>2. CASE new \notin running
      BY <2>2, StepsPlus DEF Countable
    <2>3. QED
      BY <2>1, <2>2
  <1>2. StepsOf(running') \subseteq StepsOf(running \union {new})
    BY DEF StepsOf
  <1>3. StepsOf(running)' = StepsOf(running')
    BY DEF StepsOf
  <1>4. QED
    BY <1>1, <1>2, <1>3, FS_Subset DEF Countable

\* What the steps left are made of.
LEMMA LeftSum ==
    /\ StepsLeft = Cardinality(StepsOf(running))
           + 22 * Len(topUpJobs) - (IF topUpActive THEN 21 ELSE 0)
           + 7 * Len(payJobs) - (IF Busy THEN 6 ELSE 0)
    /\ StepsLeft' = Cardinality(StepsOf(running'))
           + 22 * Len(topUpJobs') - (IF topUpActive' THEN 21 ELSE 0)
           + 7 * Len(payJobs') - (IF Busy' THEN 6 ELSE 0)
  BY DEF StepsLeft, Busy

LEMMA LeftCounted ==
    ASSUME AInv, Countable
    PROVE  /\ Cardinality(StepsOf(running)) \in Nat
           /\ Cardinality(StepsOf(running)) = 0 <=> running = {}
           /\ Len(topUpJobs) \in Nat /\ Len(payJobs) \in Nat
           /\ Len(topUpJobs) = 0 <=> topUpJobs = <<>>
           /\ Len(payJobs) = 0 <=> payJobs = <<>>
  <1>1. Cardinality(StepsOf(running)) \in Nat
    BY FS_CardinalityType DEF Countable
  <1>2. Cardinality(StepsOf(running)) = 0 <=> running = {}
    <2>1. CASE running = {}
      <3>1. StepsOf(running) = {}
        BY <2>1 DEF StepsOf
      <3>2. QED
        BY <2>1, <3>1, FS_EmptySet
    <2>2. ASSUME NEW a \in running
          PROVE  Cardinality(StepsOf(running)) # 0
      <3>1. a.at \in Stages
        BY DEF AInv, Types, Activity, Stages
      <3>2. StepsFrom[a.at] \in 1..20
        BY <3>1, StepsFromIsNat
      <3>3. /\ Cardinality(StepsOf(running \ {a})) \in Nat
            /\ Cardinality(StepsOf(running)) = Cardinality(StepsOf(running \ {a})) + StepsFrom[a.at]
        BY <3>1, StepsMinus DEF Countable
      <3>4. \A m \in Nat, n \in 1..20 : m + n # 0
        OBVIOUS
      <3>5. QED
        BY <3>2, <3>3, <3>4
    <2>3. QED
      BY <2>1, <2>2
  <1>3. QED
    BY <1>1, <1>2, EmptySeq, LenProperties DEF AInv, Types

LEMMA HeldAreThere ==
    ASSUME AInv
    PROVE  /\ topUpActive \in BOOLEAN /\ topUpActive => topUpJobs # <<>>
           /\ Busy => payJobs # <<>>
  BY DEF AInv, Types, Workers, Busy

\* No step is left when all is quiet, and only then.
LEMMA LeftIsNat ==
    ASSUME AInv, Countable
    PROVE  /\ StepsLeft \in Nat
           /\ StepsLeft = 0 <=> Quiet
  <1> DEFINE w == Cardinality(StepsOf(running))
             l == Len(topUpJobs)
             k == Len(payJobs)
             a == IF topUpActive THEN 21 ELSE 0
             b == IF Busy THEN 6 ELSE 0
  <1>1. StepsLeft = w + 22 * l - a + 7 * k - b
    BY LeftSum
  <1>2. w \in Nat /\ l \in Nat /\ k \in Nat
    BY LeftCounted
  <1>3. Quiet <=> w = 0 /\ l = 0 /\ k = 0
    BY LeftCounted DEF Quiet
  <1>4. a \in 0..21 /\ (l = 0 => a = 0)
    <2>1. l = 0 => topUpJobs = <<>>
      BY LeftCounted
    <2>2. CASE topUpActive
      BY <2>1, <2>2, HeldAreThere
    <2>3. CASE ~topUpActive
      BY <2>3
    <2>4. QED
      BY <2>2, <2>3
  <1>5. b \in 0..6 /\ (k = 0 => b = 0)
    <2>1. k = 0 => payJobs = <<>>
      BY LeftCounted
    <2>2. CASE Busy
      BY <2>1, <2>2, HeldAreThere
    <2>3. CASE ~Busy
      BY <2>3
    <2>4. QED
      BY <2>2, <2>3
  <1> HIDE DEF w, l, k, a, b
  <1>6. StepsLeft \in Nat /\ (StepsLeft = 0 <=> w = 0 /\ l = 0 /\ k = 0)
    BY <1>1, <1>2, <1>4, <1>5
  <1>7. QED
    BY <1>3, <1>6

LEMMA TailShorter ==
    ASSUME NEW S, NEW s \in Seq(S), s # <<>>
    PROVE  Len(s) \in Nat /\ Len(s) >= 1 /\ Len(Tail(s)) = Len(s) - 1
  BY HeadTailProperties, LenProperties, EmptySeq

LEMMA AppendLonger ==
    ASSUME NEW S, NEW s \in Seq(S), NEW e \in S
    PROVE  Len(Append(s, e)) = Len(s) + 1
  OBVIOUS

LEMMA ActStages ==
    ASSUME AInv, NEW act \in running
    PROVE  act \in Activity /\ act.at \in Stages
  BY DEF AInv, Types, Activity, Stages

\* An activity comes nearer to its end.
LEMMA SwapCounts ==
    ASSUME AInv, Countable, NEW act \in running, NEW new, new.at \in Stages, new.id = act.id,
           StepsFrom[new.at] < StepsFrom[act.at], running' = (running \ {act}) \union {new},
           new.kind = "processPayment" <=> act.kind = "processPayment", UNCHANGED queues
    PROVE  StepsLeft' < StepsLeft
  <1> DEFINE rest == running \ {act}
             w == Cardinality(StepsOf(running))
             v == Cardinality(StepsOf(rest))
             m == StepsFrom[new.at]
             n == StepsFrom[act.at]
             q == 22 * Len(topUpJobs) - (IF topUpActive THEN 21 ELSE 0)
             j == 7 * Len(payJobs) - (IF Busy THEN 6 ELSE 0)
  <1>1. act.at \in Stages
    BY ActStages
  <1>2. m \in 1..20 /\ n \in 1..20 /\ m < n
    BY <1>1, StepsFromIsNat
  <1>3. IsFiniteSet(StepsOf(rest)) /\ v \in Nat /\ w = v + n
    BY <1>1, StepsMinus DEF Countable
  <1>4. new \notin rest
    BY DEF AInv, IdsDiffer
  <1>5. Cardinality(StepsOf(rest \union {new})) = v + m
    BY <1>3, <1>4, StepsPlus
  <1>6. Busy' <=> Busy
    BY DEF Busy
  <1>7. Len(topUpJobs) \in Nat /\ Len(payJobs) \in Nat
    BY LeftCounted
  <1>8. StepsLeft' = (v + m) + 22 * Len(topUpJobs) - (IF topUpActive THEN 21 ELSE 0)
                         + 7 * Len(payJobs) - (IF Busy THEN 6 ELSE 0)
    BY <1>5, <1>6, LeftSum DEF queues
  <1>9. StepsLeft = (v + n) + 22 * Len(topUpJobs) - (IF topUpActive THEN 21 ELSE 0)
                        + 7 * Len(payJobs) - (IF Busy THEN 6 ELSE 0)
    BY <1>3, LeftSum
  <1>10. \E a, b \in Nat : a = (IF topUpActive THEN 21 ELSE 0) /\ b = (IF Busy THEN 6 ELSE 0)
    OBVIOUS
  <1> HIDE DEF v, w, m, n, q, j
  <1>11. QED
    BY <1>2, <1>3, <1>7, <1>8, <1>9, <1>10

\* An activity ends, and with the worker of process-payment its job.
LEMMA EndCounts ==
    ASSUME AInv, Countable, NEW act \in running, Ends(act)
    PROVE  StepsLeft' < StepsLeft
  <1> DEFINE w == Cardinality(StepsOf(running))
             v == Cardinality(StepsOf(running \ {act}))
             n == StepsFrom[act.at]
             l == 22 * Len(topUpJobs)
             k == Len(payJobs)
             a == IF topUpActive THEN 21 ELSE 0
             b == IF Busy THEN 6 ELSE 0
  <1>1. act.at \in Stages
    BY ActStages
  <1>2. n \in 1..20
    BY <1>1, StepsFromIsNat
  <1>3. v \in Nat /\ w = v + n
    BY <1>1, StepsMinus DEF Countable
  <1>4. l \in Nat /\ k \in Nat /\ a \in Nat /\ b \in Nat
    BY LeftCounted
  <1>5. running' = running \ {act} /\ UNCHANGED <<topUpJobs, topUpActive>>
    BY DEF Ends
  <1>6. StepsLeft = (v + n) + l - a + 7 * k - b
    BY <1>3, LeftSum
  <1>7. StepsLeft' = v + l - a + 7 * k' - b'
    BY <1>5, LeftSum
  <1>8. k' \in Nat /\ b' \in Nat /\ 7 * k' - b' <= 7 * k - b
    <2>1. CASE act.kind = "processPayment"
      <3>1. Busy /\ ~Busy'
        BY <1>5, <2>1 DEF Busy, AInv, Workers
      <3>2. b = 6 /\ b' = 0
        BY <3>1
      <3>3. payJobs # <<>> /\ payJobs \in Seq([payment : Payments, to : {"COMPLETED", "FAILED"}])
            /\ payJobs' = Tail(payJobs)
        BY <2>1 DEF AInv, Types, Workers, Ends
      <3>4. k >= 1 /\ k' = k - 1
        BY <3>3, TailShorter
      <3> HIDE DEF k, b
      <3>5. QED
        BY <1>4, <3>2, <3>4
    <2>2. CASE act.kind # "processPayment"
      <3>1. Busy' <=> Busy
        BY <1>5, <2>2 DEF Busy
      <3>2. payJobs' = payJobs
        BY <2>2 DEF Ends
      <3>3. k' = k /\ b' = b
        BY <3>1, <3>2
      <3> HIDE DEF k, b
      <3>4. QED
        BY <1>4, <3>3
    <2>3. QED
      BY <2>1, <2>2
  <1> HIDE DEF v, w, n, l, k, a, b
  <1>9. \E c, d \in Nat : c = k' /\ d = b'
    BY <1>8
  <1>10. \A c, d \in Nat : 7 * c - d <= 7 * k - b => v + l - a + 7 * c - d < (v + n) + l - a + 7 * k - b
    BY <1>2, <1>3, <1>4
  <1>11. QED
    BY <1>6, <1>7, <1>8, <1>9, <1>10

\* Paystack's listener ends, and leaves a job.
LEMMA EnqueueCounts ==
    ASSUME AInv, Countable, NEW act \in running, EnqueueProcessPayment(act)
    PROVE  StepsLeft' < StepsLeft
  <1> DEFINE w == Cardinality(StepsOf(running))
             v == Cardinality(StepsOf(running \ {act}))
             n == StepsFrom[act.at]
             l == 22 * Len(topUpJobs)
             k == Len(payJobs)
             a == IF topUpActive THEN 21 ELSE 0
             b == IF Busy THEN 6 ELSE 0
             job == [payment |-> act.payment, to |-> act.to]
  <1>1. act.at = "start" /\ act.at \in Stages /\ act.kind = "paystackWebhook"
        /\ running' = running \ {act} /\ UNCHANGED <<topUpJobs, topUpActive>>
        /\ payJobs' = Append(payJobs, job)
    BY ActStages DEF EnqueueProcessPayment
  <1>2. n = 20
    BY <1>1, StepsFromIsNat
  <1>3. v \in Nat /\ w = v + n
    BY <1>1, StepsMinus DEF Countable
  <1>4. l \in Nat /\ k \in Nat /\ a \in Nat /\ b \in Nat
    BY LeftCounted
  <1>5. b' = b
    BY <1>1 DEF Busy
  <1>6. k' = k + 1
    <2>1. job \in [payment : Payments, to : {"COMPLETED", "FAILED"}]
      BY <1>1 DEF AInv, ActsAreSound, Sound, Known
    <2>2. payJobs \in Seq([payment : Payments, to : {"COMPLETED", "FAILED"}])
      BY DEF AInv, Types
    <2> HIDE DEF job
    <2>3. QED
      BY <1>1, <2>1, <2>2, AppendLonger
  <1>7. StepsLeft = (v + n) + l - a + 7 * k - b
    BY <1>3, LeftSum
  <1>8. StepsLeft' = v + l - a + 7 * k' - b'
    BY <1>1, LeftSum
  <1> HIDE DEF v, w, n, l, k, a, b, job
  <1>9. QED
    BY <1>2, <1>3, <1>4, <1>5, <1>6, <1>7, <1>8

\* What the workers start and complete.
LEMMA JobsCount ==
    ASSUME AInv, Countable, EmitTopUpInitiated \/ CompleteTopUpJob \/ StartProcessPayment
    PROVE  StepsLeft' < StepsLeft
  <1> DEFINE w == Cardinality(StepsOf(running))
             l == Len(topUpJobs)
             k == 7 * Len(payJobs)
             a == IF topUpActive THEN 21 ELSE 0
             b == IF Busy THEN 6 ELSE 0
  <1>1. w \in Nat /\ l \in Nat /\ k \in Nat /\ a \in Nat /\ b \in Nat
    BY LeftCounted
  <1>2. StepsLeft = w + 22 * l - a + k - b /\ StepsLeft' = w' + 22 * l' - a' + k' - b'
    BY LeftSum
  <1>3. k' = k
    BY DEF EmitTopUpInitiated, CompleteTopUpJob, StartProcessPayment, queues
  <1>4. topUpJobs \in Seq(Requests) /\ payJobs \in Seq([payment : Payments, to : {"COMPLETED", "FAILED"}])
    BY DEF AInv, Types
  <1>5. ASSUME NEW new \in Activity, running' = running \union {new}, new.id \in Free
        PROVE  w' = w + StepsFrom[new.at]
    <2>1. new \notin running /\ new.at \in Stages
      BY <1>5 DEF Free, Activity, Stages
    <2>2. QED
      BY <1>5, <2>1, StepsPlus DEF Countable
  <1>6. CASE EmitTopUpInitiated
    <2>1. /\ topUpJobs # <<>> /\ l' = l /\ ~topUpActive /\ topUpActive' = TRUE
          /\ Start("topUpInitiated", "start", Head(topUpJobs), NoPayment, "NONE")
      BY <1>6 DEF EmitTopUpInitiated
    <2>2. PICK r \in Requests : Start("topUpInitiated", "start", r, NoPayment, "NONE")
      BY <1>4, <2>1, TailFacts
    <2>3. "topUpInitiated" \in Kinds /\ "start" \in Stages /\ "NONE" \in Statuses
          /\ NoPayment \in Payments \union {NoPayment} /\ r \in Requests \union {NoRequest}
      BY DEF Kinds, Stages, Statuses
    <2>4. PICK new \in Activity : /\ running' = running \union {new} /\ new.id \in Free
                                  /\ new.kind = "topUpInitiated" /\ new.at = "start"
      BY <2>2, <2>3, StartFacts
    <2>5. w' = w + 20
      BY <1>5, <2>4, StepsFromIsNat
    <2>6. a = 0 /\ a' = 21
      BY <2>1
    <2>7. b' = b
      BY <2>4 DEF Busy
    <2> HIDE DEF w, l, k, a, b
    <2>8. QED
      BY <1>1, <1>2, <1>3, <2>1, <2>5, <2>6, <2>7
  <1>7. CASE CompleteTopUpJob
    <2>1. /\ topUpJobs # <<>> /\ topUpJobs' = Tail(topUpJobs) /\ running' = running
          /\ topUpActive /\ topUpActive' = FALSE
      BY <1>7 DEF CompleteTopUpJob, AInv, Workers
    <2>2. l >= 1 /\ l' = l - 1
      BY <1>4, <2>1, TailShorter
    <2>3. w' = w /\ b' = b /\ a = 21 /\ a' = 0
      BY <2>1 DEF Busy
    <2> HIDE DEF w, l, k, a, b
    <2>4. QED
      BY <1>1, <1>2, <1>3, <2>2, <2>3
  <1>8. CASE StartProcessPayment
    <2>1. /\ payJobs # <<>> /\ UNCHANGED <<topUpJobs, topUpActive>>
          /\ Start("processPayment", "find", NoRequest, Head(payJobs).payment, Head(payJobs).to)
          /\ \A act \in running : act.kind # "processPayment"
      BY <1>8 DEF StartProcessPayment, queues
    <2>2. Head(payJobs) \in [payment : Payments, to : {"COMPLETED", "FAILED"}]
      BY <1>4, <2>1, TailFacts
    <2>3. PICK p \in Payments, to \in Statuses : Start("processPayment", "find", NoRequest, p, to)
      BY <2>1, <2>2 DEF Statuses
    <2>4. "processPayment" \in Kinds /\ "find" \in Stages /\ NoRequest \in Requests \union {NoRequest}
      BY DEF Kinds, Stages
    <2>5. PICK new \in Activity : /\ running' = running \union {new} /\ new.id \in Free
                                  /\ new.kind = "processPayment" /\ new.at = "find"
      BY <2>3, <2>4, StartFacts
    <2>6. w' = w + 4
      BY <1>5, <2>5, StepsFromIsNat
    <2>7. ~Busy /\ Busy'
      BY <2>1, <2>5 DEF Busy
    <2>8. l' = l /\ a' = a /\ b = 0 /\ b' = 6
      BY <2>1, <2>7
    <2> HIDE DEF w, l, k, a, b
    <2>9. QED
      BY <1>1, <1>2, <1>3, <2>6, <2>8
  <1>9. QED
    BY <1>6, <1>7, <1>8

LEMMA MovesCount ==
    ASSUME AInv, Countable, NEW act \in running, Moves(act) \/ CreatePayment(act)
    PROVE  StepsLeft' < StepsLeft
  <1>1. act \in Activity /\ act.to \in Statuses /\ UNCHANGED queues
    BY ActStages DEF Moves, SendRequest, PaystackFails, JunipayDeclines, MomoAccepted, FindPayment,
       ReadWallet, CreatePayment, Activity
  <1>2. \E at \in Stages, to \in Statuses, p \in Payments :
            Move(act, at, p, to) /\ StepsFrom[at] < StepsFrom[act.at]
    <2>1. CASE CreatePayment(act)
      <3>1. /\ act.at = "start" /\ Move(act, "ask", NextPayment, "NONE")
            /\ NewPayment(NextPayment, act.request, "momo") /\ act.request \in Requests
        BY <2>1 DEF CreatePayment, AInv, ActsAreSound, Sound
      <3>2. NextPayment \in Payments
        BY <3>1, NewRow
      <3>3. QED
        BY <3>1, <3>2, StepsFromIsNat DEF Stages, Statuses
    <2>2. CASE Moves(act)
      <3>1. act.payment \in Payments
        BY <2>2 DEF Moves, SendRequest, PaystackFails, JunipayDeclines, MomoAccepted, FindPayment,
           ReadWallet, AInv, ActsAreSound, Sound, Known
      <3>2. \E at \in Stages, to \in Statuses :
                /\ Move(act, at, act.payment, to)
                /\ \/ act.at = "ask" /\ at = "waiting"
                   \/ act.at \in {"ask", "waiting"} /\ at \in {"find", "answered"}
                   \/ act.at = "find" /\ at = "save"
                   \/ act.at = "credit" /\ at = "flush"
        BY <1>1, <2>2 DEF Moves, SendRequest, PaystackFails, JunipayDeclines, MomoAccepted,
           FindPayment, ReadWallet, Stages, Statuses
      <3>3. QED
        BY <3>1, <3>2, StepsFromIsNat
    <2>3. QED
      BY <2>1, <2>2
  <1>3. PICK at \in Stages, to \in Statuses, p \in Payments :
            Move(act, at, p, to) /\ StepsFrom[at] < StepsFrom[act.at]
    BY <1>2
  <1>4. PICK new \in Activity :
            /\ running' = (running \ {act}) \union {new}
            /\ new.id = act.id /\ new.kind = act.kind /\ new.at = at
    BY <1>1, <1>3, MoveFacts
  <1>5. QED
    BY <1>1, <1>3, <1>4, SwapCounts

LEMMA SaveCounts ==
    ASSUME AInv, Countable, NEW act \in running, SavePayment(act)
    PROVE  StepsLeft' < StepsLeft
  <1>1. act.at = "save" /\ UNCHANGED queues
    BY SaveFacts
  <1>2. CASE act.kind = "initiatePayment" /\ running' = running \ {act}
    BY <1>1, <1>2, EndCounts DEF Ends, queues
  <1>3. ASSUME NEW new \in Activity,
               /\ running' = (running \ {act}) \union {new}
               /\ new.id = act.id /\ new.at = "credit"
               /\ \/ act.kind = "zeepayWebhook" /\ new.kind = "paymentCompleted"
                  \/ act.kind = "processPayment" /\ new.kind = "processPayment"
        PROVE  StepsLeft' < StepsLeft
    <2>1. new.at \in Stages /\ StepsFrom[new.at] < StepsFrom[act.at]
      BY <1>1, <1>3, StepsFromIsNat DEF Stages
    <2>2. QED
      BY <1>1, <1>3, <2>1, SwapCounts
  <1>4. QED
    BY <1>2, <1>3, SaveFacts

\* Every step of the event loop and the workers.
LEMMA WorksCount ==
    ASSUME AInv, Countable, Works
    PROVE  StepsLeft' < StepsLeft
  <1>1. CASE EmitTopUpInitiated \/ CompleteTopUpJob \/ StartProcessPayment
    BY <1>1, JobsCount
  <1>2. ASSUME NEW act \in running, Moves(act) \/ CreatePayment(act)
        PROVE  StepsLeft' < StepsLeft
    BY <1>2, MovesCount
  <1>3. ASSUME NEW act \in running, Endings(act) \/ RecordAnswer(act)
        PROVE  StepsLeft' < StepsLeft
    <2>1. Ends(act)
      BY <1>3 DEF Endings, NoPaymentMethod, RequestThrows, PaystackAccepted, AnswerTooLong,
         PaymentNotFound, NoWallet, FlushWallet, DatabaseFails, RecordAnswer
    <2>2. QED
      BY <2>1, EndCounts
  <1>4. ASSUME NEW act \in running, SavePayment(act) \/ EnqueueProcessPayment(act)
        PROVE  StepsLeft' < StepsLeft
    BY <1>4, SaveCounts, EnqueueCounts
  <1>5. QED
    BY <1>1, <1>2, <1>3, <1>4 DEF Works, Moves, Endings

\* Nothing else gives more to do, but what a client, a provider or a fault brings.
LEMMA RestBrings ==
    ASSUME AInv, Clients \/ Provider \/ Faults
    PROVE  \/ todo' # todo \/ callbacks' # callbacks \/ faults' > faults
           \/ StepsLeft' = StepsLeft
  <1>1. CASE \/ \E u \in Owners, b \in Openings : OpenWallet(u, b)
            \/ \E u \in Owners : CreatePaymentMethod(u)
    <2>1. UNCHANGED <<running, topUpJobs, topUpActive, payJobs>>
      BY <1>1 DEF OpenWallet, CreatePaymentMethod, queues
    <2>2. Busy' <=> Busy
      BY <2>1 DEF Busy
    <2>3. QED
      BY <2>1, <2>2, LeftSum
  <1>2. ASSUME NEW r \in Requests, FundWallet(r) \/ InitiatePayment(r)
        PROVE  todo' # todo
    BY <1>2 DEF FundWallet, InitiatePayment
  <1>3. CASE Provider
    <2>1. PICK p \in Payments : CallsBack(p)
      BY <1>3 DEF Provider, ZeepayCallback, JunipayCallback, PaystackCallback
    <2>2. callbacks'[p] # callbacks[p]
      BY <2>1, BoundsAreNat DEF CallsBack, AInv, Types
    <2>3. QED
      BY <2>2
  <1>4. CASE Faults
    <2>1. faults' = faults + 1 /\ faults \in Nat
      BY <1>4, BoundsAreNat DEF Faults, Crash, DatabaseFails, AInv, Types
    <2>2. QED
      BY <2>1
  <1>5. QED
    BY <1>1, <1>2, <1>3, <1>4 DEF Clients, WalletRoutes, PaymentRoutes

\* There are never infinitely many activities.
LEMMA NextCountable ==
    ASSUME AInv, Countable, [Next]_vars
    PROVE  Countable'
  <1>1. ASSUME running' \subseteq running
        PROVE  Countable'
    <2>1. StepsOf(running') \subseteq StepsOf(running)
      BY <1>1 DEF StepsOf
    <2>2. IsFiniteSet(StepsOf(running'))
      BY <2>1, FS_Subset DEF Countable
    <2>3. QED
      BY <2>2 DEF Countable
  <1>2. ASSUME NEW kind \in Kinds, NEW at \in Stages, NEW r \in Requests \union {NoRequest},
               NEW p \in Payments \union {NoPayment}, NEW to \in Statuses, Start(kind, at, r, p, to)
        PROVE  Countable'
    BY <1>2, StartFacts, CountableStays
  <1>3. ASSUME NEW act \in running, NEW at \in Stages, NEW p \in Payments, NEW to \in Statuses,
               Move(act, at, p, to)
        PROVE  Countable'
    <2>1. PICK new \in Activity : running' = (running \ {act}) \union {new} /\ new.at = at
      BY <1>3, ActStages, MoveFacts
    <2>2. QED
      BY <2>1, CountableStays
  <1>4. CASE Clients
    <2>1. ASSUME NEW r \in Requests, InitiatePayment(r)
          PROVE  Countable'
      <3>1. Start("initiatePayment", "ask", r, NextPayment, "NONE") /\ NewPayment(NextPayment, r, "paystack")
        BY <2>1 DEF InitiatePayment
      <3>2. NextPayment \in Payments /\ r \in Requests \union {NoRequest}
            /\ "initiatePayment" \in Kinds /\ "ask" \in Stages /\ "NONE" \in Statuses
        BY <3>1, NewRow DEF Kinds, Stages, Statuses
      <3>3. QED
        BY <1>2, <3>1, <3>2
    <2>2. QED
      BY <1>1, <1>4, <2>1 DEF Clients, OpenWallet, WalletRoutes, FundWallet, PaymentRoutes, CreatePaymentMethod
  <1>5. CASE Provider
    <2>1. PICK p \in Payments :
              \/ ZeepayCallback(p) \/ JunipayCallback(p)
              \/ \E to \in {"COMPLETED", "FAILED"} : PaystackCallback(p, to)
      BY <1>5 DEF Provider
    <2>2. CASE JunipayCallback(p)
      BY <1>1, <2>2 DEF JunipayCallback
    <2>3. CASE ~JunipayCallback(p)
      <3>1. \E kind \in Kinds, at \in Stages, to \in Statuses : Start(kind, at, NoRequest, p, to)
        BY <2>1, <2>3 DEF ZeepayCallback, PaystackCallback, Kinds, Stages, Statuses
      <3>2. QED
        BY <1>2, <3>1
    <2>4. QED
      BY <2>2, <2>3
  <1>6. CASE EmitTopUpInitiated
    <2>1. /\ topUpJobs # <<>> /\ topUpJobs \in Seq(Requests)
          /\ Start("topUpInitiated", "start", Head(topUpJobs), NoPayment, "NONE")
      BY <1>6 DEF EmitTopUpInitiated, AInv, Types
    <2>2. Head(topUpJobs) \in Requests \union {NoRequest}
      BY <2>1, TailFacts
    <2>3. "topUpInitiated" \in Kinds /\ "start" \in Stages /\ "NONE" \in Statuses
      BY DEF Kinds, Stages, Statuses
    <2>4. QED
      BY <1>2, <2>1, <2>2, <2>3
  <1>7. CASE StartProcessPayment
    <2>1. /\ payJobs # <<>> /\ payJobs \in Seq([payment : Payments, to : {"COMPLETED", "FAILED"}])
          /\ Start("processPayment", "find", NoRequest, Head(payJobs).payment, Head(payJobs).to)
      BY <1>7 DEF StartProcessPayment, AInv, Types
    <2>2. Head(payJobs) \in [payment : Payments, to : {"COMPLETED", "FAILED"}]
      BY <2>1, TailFacts
    <2>3. PICK p \in Payments, to \in Statuses : Start("processPayment", "find", NoRequest, p, to)
      BY <2>1, <2>2 DEF Statuses
    <2>4. "processPayment" \in Kinds /\ "find" \in Stages
      BY DEF Kinds, Stages
    <2>5. QED
      BY <1>2, <2>3, <2>4
  <1>8. ASSUME NEW act \in running, Moves(act)
        PROVE  Countable'
    <2>1. act.to \in Statuses /\ act.payment \in Payments
      BY <1>8, ActStages DEF Moves, SendRequest, PaystackFails, JunipayDeclines, MomoAccepted,
         FindPayment, ReadWallet, AInv, ActsAreSound, Sound, Known, Activity
    <2>2. \E at \in Stages, to \in Statuses : Move(act, at, act.payment, to)
      BY <1>8, <2>1 DEF Moves, SendRequest, PaystackFails, JunipayDeclines, MomoAccepted, FindPayment,
         ReadWallet, Stages, Statuses
    <2>3. QED
      BY <1>3, <2>1, <2>2
  <1>9. ASSUME NEW act \in running, CreatePayment(act)
        PROVE  Countable'
    <2>1. /\ Move(act, "ask", NextPayment, "NONE")
          /\ NewPayment(NextPayment, act.request, "momo") /\ act.request \in Requests
      BY <1>9 DEF CreatePayment, AInv, ActsAreSound, Sound
    <2>2. NextPayment \in Payments /\ "ask" \in Stages /\ "NONE" \in Statuses
      BY <2>1, NewRow DEF Stages, Statuses
    <2>3. QED
      BY <1>3, <2>1, <2>2
  <1>10. ASSUME NEW act \in running, SavePayment(act)
         PROVE  Countable'
    <2>1. CASE running' = running \ {act}
      BY <1>1, <2>1
    <2>2. ASSUME NEW new \in Activity, running' = (running \ {act}) \union {new}, new.at = "credit"
          PROVE  Countable'
      BY <2>2, CountableStays DEF Stages
    <2>3. QED
      BY <1>10, <2>1, <2>2, SaveFacts
  <1>11. CASE CompleteTopUpJob \/ Crash \/ UNCHANGED vars
    BY <1>1, <1>11 DEF CompleteTopUpJob, Crash, vars
  <1>12. ASSUME NEW act \in running, Endings(act) \/ RecordAnswer(act) \/ EnqueueProcessPayment(act)
         PROVE  Countable'
    BY <1>1, <1>12 DEF Endings, NoPaymentMethod, RequestThrows, PaystackAccepted, AnswerTooLong,
       PaymentNotFound, NoWallet, FlushWallet, DatabaseFails, RecordAnswer, EnqueueProcessPayment, Ends
  <1>13. QED
    BY <1>4, <1>5, <1>6, <1>7, <1>8, <1>9, <1>10, <1>11, <1>12 DEF Next, Works, Faults, Moves, Endings

LEMMA CountableHolds == Spec => []Countable
  <1>1. Init => Countable
    <2>1. ASSUME running = {}
          PROVE  Countable
      <3>1. StepsOf(running) = {}
        BY <2>1 DEF StepsOf
      <3>2. QED
        BY <3>1, FS_EmptySet DEF Countable
    <2>2. QED
      BY <2>1 DEF Init
  <1>2. AInv /\ Countable /\ [Next]_vars => Countable'
    BY NextCountable
  <1>3. QED
    BY <1>1, <1>2, ShapesHold, PTL DEF Spec

\* Every step that the event loop and the workers take by themselves brings the system
\* nearer to rest, and only a client's request, a webhook or a fault gives them more to do.
THEOREM WorkRunsOut == Spec => WorkIsUsedUp
  <1> DEFINE A == /\ Works => StepsLeft' < StepsLeft
                  /\ StepsLeft' > StepsLeft => todo' # todo \/ callbacks' # callbacks \/ faults' > faults
  <1>1. AInv /\ Countable => StepsLeft \in Nat
    BY LeftIsNat
  <1>2. /\ AInv /\ Countable /\ StepsLeft \in Nat /\ (StepsLeft \in Nat)' /\ [Next]_vars
        => [A]_vars
    <2> SUFFICES ASSUME AInv, Countable, StepsLeft \in Nat, StepsLeft' \in Nat, Next
                 PROVE  A
      OBVIOUS
    <2>1. CASE Works
      BY <2>1, WorksCount
    <2>2. CASE ~Works
      <3>1. \/ todo' # todo \/ callbacks' # callbacks \/ faults' > faults
            \/ StepsLeft' = StepsLeft
        BY <2>2, RestBrings DEF Next
      <3>2. QED
        BY <2>2, <3>1
    <2>3. QED
      BY <2>1, <2>2
  <1>3. WorkIsUsedUp <=> [][A]_vars
    BY DEF WorkIsUsedUp
  <1> HIDE DEF A
  <1>4. QED
    BY <1>1, <1>2, <1>3, ShapesHold, CountableHolds, PTL DEF Spec

\* No step is left when all is quiet, and only then.
THEOREM NoStepLeftAtRest == Spec => [](StepsLeft \in Nat /\ (StepsLeft = 0 <=> Quiet))
  <1>1. AInv /\ Countable => StepsLeft \in Nat /\ (StepsLeft = 0 <=> Quiet)
    BY LeftIsNat
  <1>2. QED
    BY <1>1, ShapesHold, CountableHolds, PTL
=============================================================================
