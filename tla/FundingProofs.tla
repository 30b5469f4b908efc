---------------------------- MODULE FundingProofs ----------------------------
(***************************************************************************)
(* Proofs about CampaignFunding, for any sets of users, payments and       *)
(* tasks and any bound on faults.                                          *)
(*                                                                         *)
(* Every step is a step of Wallets.  A deduction in memory belongs to the  *)
(* request of its task, with that request's wallet and budget; so each     *)
(* flushed deduction makes exactly one request go on to its campaign, and  *)
(* counting rows, campaigns and such requests (Counted) is inductive.  So  *)
(* is comparing what they cost with what was deducted (Accounted), which   *)
(* together with the conservation of money proved in WalletsProofs says    *)
(* where the money of a wallet has gone.                                   *)
(***************************************************************************)
EXTENDS CampaignFunding, FiniteSetTheorems, SequenceTheorems, TLAPS

Types ==
    /\ creating \subseteq Request
    /\ IsFiniteSet(creating)
    /\ campaigns \in Seq(Campaign)
    /\ faults \in 0..MaxFaults

\* One request and one call per task.
TasksDiffer == \A r, s \in creating : r.task = s.task => r = s
CallsDiffer == \A f, g \in inflight : f.call = g.call => f = g

\* A call in the task of a request is its deduction.
HeldForRequests ==
    \A f \in inflight, r \in creating : f.call = r.task =>
        f.type = "DEBIT" /\ f.owner = r.user /\ f.amount = r.budget /\ r.at = "flush"

Stages == {"deduct", "flush", "create"}

Paid(u, b) == Cardinality(Created(u, b)) + Cardinality(PaidFor(u, b))

Counted ==
    \A u \in Owners, b \in Amounts :
        /\ Paid(u, b) <= Cardinality(Deductions(u, b))
        /\ faults = 0 => Paid(u, b) = Cardinality(Deductions(u, b))

IInv == Types /\ TasksDiffer /\ CallsDiffer /\ HeldForRequests /\ Counted
-----------------------------------------------------------------------------
LEMMA AppendFacts ==
    ASSUME NEW S, NEW s \in Seq(S), NEW e \in S
    PROVE  /\ Append(s, e) \in Seq(S)
           /\ Len(s) \in Nat
           /\ DOMAIN s = 1..Len(s)
           /\ DOMAIN Append(s, e) = 1..(Len(s) + 1)
           /\ \A i \in 1..Len(s) : Append(s, e)[i] = s[i]
           /\ Append(s, e)[Len(s) + 1] = e
  OBVIOUS

LEMMA MoveFacts ==
    ASSUME NEW r \in Request, NEW at \in Stages, Move(r, at)
    PROVE  \E new \in Request :
               /\ creating' = (creating \ {r}) \union {new}
               /\ new.task = r.task /\ new.user = r.user /\ new.budget = r.budget /\ new.at = at
  <1> DEFINE new == [r EXCEPT !.at = at]
  <1>1. creating' = (creating \ {r}) \union {new}
    BY DEF Move
  <1>2. /\ new \in Request
        /\ new.task = r.task /\ new.user = r.user /\ new.budget = r.budget /\ new.at = at
    BY DEF Request, Stages
  <1> HIDE DEF new
  <1>3. QED
    BY <1>1, <1>2

\* What a step does to the two sets of requests and calls.
LEMMA FewerRequests ==
    ASSUME Types, TasksDiffer, creating' \subseteq creating
    PROVE  creating' \subseteq Request /\ IsFiniteSet(creating)' /\ TasksDiffer'
  BY FS_Subset DEF Types, TasksDiffer

LEMMA MovedRequest ==
    ASSUME Types, TasksDiffer, NEW r \in creating, NEW new \in Request, new.task = r.task,
           creating' = (creating \ {r}) \union {new}
    PROVE  creating' \subseteq Request /\ IsFiniteSet(creating)' /\ TasksDiffer'
  <1>1. IsFiniteSet(creating \ {r})
    BY FS_RemoveElement DEF Types
  <1>2. IsFiniteSet((creating \ {r}) \union {new})
    BY <1>1, FS_AddElement
  <1>3. QED
    BY <1>2 DEF Types, TasksDiffer

\* The sets that are counted are finite.
LEMMA CountsAreNat ==
    ASSUME Types, W!TypeOK, NEW u \in Owners, NEW b
    PROVE  /\ IsFiniteSet(Created(u, b)) /\ Cardinality(Created(u, b)) \in Nat
           /\ IsFiniteSet(PaidFor(u, b)) /\ Cardinality(PaidFor(u, b)) \in Nat
           /\ IsFiniteSet(Deductions(u, b)) /\ Cardinality(Deductions(u, b)) \in Nat
  <1>1. IsFiniteSet(PaidFor(u, b))
    BY FS_Subset DEF Types, PaidFor
  <1>2. IsFiniteSet(Created(u, b))
    <2>1. Len(campaigns) \in Nat /\ DOMAIN campaigns = 1..Len(campaigns)
      BY DEF Types
    <2>2. IsFiniteSet(1..Len(campaigns))
      BY <2>1, FS_Interval
    <2>3. QED
      BY <2>1, <2>2, FS_Subset DEF Created
  <1>3. IsFiniteSet(Deductions(u, b))
    <2>1. ledger[u] \in Seq(W!Row)
      BY DEF W!TypeOK
    <2>2. Len(ledger[u]) \in Nat /\ DOMAIN ledger[u] = 1..Len(ledger[u])
      BY <2>1
    <2>3. IsFiniteSet(1..Len(ledger[u]))
      BY <2>2, FS_Interval
    <2>4. QED
      BY <2>2, <2>3, FS_Subset DEF Deductions
  <1>4. QED
    BY <1>1, <1>2, <1>3, FS_CardinalityType

\* A step that neither pays for a campaign nor creates one.
LEMMA SameCounts ==
    ASSUME Counted, faults' = 0 => faults = 0,
           \A u \in Owners, b \in Amounts :
               /\ Created(u, b)' = Created(u, b) /\ PaidFor(u, b)' = PaidFor(u, b)
               /\ Deductions(u, b)' = Deductions(u, b)
    PROVE  Counted'
  BY DEF Counted, Paid

\* The row a call flushes.
LEMMA FlushFacts ==
    ASSUME W!TypeOK, NEW f \in inflight, W!Flush(f)
    PROVE  /\ \A u, b : (u # f.owner \/ f.type # "DEBIT" \/ b # f.amount) /\ u \in Owners =>
                   Deductions(u, b)' = Deductions(u, b)
           /\ f.type = "DEBIT" =>
                  \E i : /\ i \notin Deductions(f.owner, f.amount)
                        /\ Deductions(f.owner, f.amount)' = Deductions(f.owner, f.amount) \union {i}
           /\ inflight' = inflight \ {f}
  <1>1. /\ f \in W!Call /\ ledger \in [Owners -> Seq(W!Row)]
        /\ ledger' = [ledger EXCEPT ![f.owner] = Append(@, W!RowOf(f))]
        /\ inflight' = inflight \ {f}
    BY DEF W!TypeOK, W!Flush
  <1>2. f.owner \in Owners /\ ledger[f.owner] \in Seq(W!Row)
    BY <1>1 DEF W!Call
  <1> DEFINE row == W!RowOf(f)
             s == ledger[f.owner]
  <1>3. row.type = f.type /\ row.amount = f.amount
    BY DEF W!RowOf
  <1> HIDE DEF row
  <1>4. ledger'[f.owner] = Append(s, row) /\ \A u \in Owners \ {f.owner} : ledger'[u] = ledger[u]
    BY <1>1, <1>2 DEF row
  <1>5. s \in Seq(W!Row \union {row})
    <2>1. \A i \in 1..Len(s) : s[i] \in W!Row
      BY <1>2
    <2>2. QED
      BY <1>2, <2>1, SeqDef
  <1>6. /\ Len(s) \in Nat /\ DOMAIN s = 1..Len(s)
        /\ DOMAIN ledger'[f.owner] = 1..(Len(s) + 1)
        /\ \A i \in 1..Len(s) : ledger'[f.owner][i] = s[i]
        /\ ledger'[f.owner][Len(s) + 1] = row
    BY <1>4, <1>5, AppendFacts
  <1> DEFINE n == Len(s) + 1
             I == 1..Len(s)
  <1>7. n \notin I /\ 1..(Len(s) + 1) = I \union {n}
    BY <1>6
  <1> HIDE DEF n, I
  <1>8. /\ n \notin I /\ DOMAIN s = I /\ DOMAIN ledger'[f.owner] = I \union {n}
        /\ \A i \in I : ledger'[f.owner][i] = s[i]
        /\ ledger'[f.owner][n] = row
    BY <1>6, <1>7 DEF n, I
  <1>9. \A b : f.type # "DEBIT" \/ b # f.amount => Deductions(f.owner, b)' = Deductions(f.owner, b)
    <2>1. ASSUME NEW b, f.type # "DEBIT" \/ b # f.amount
          PROVE  Deductions(f.owner, b)' = Deductions(f.owner, b)
      BY <1>3, <1>8, <2>1 DEF Deductions
    <2>2. QED
      BY <2>1
  <1>10. \A u \in Owners \ {f.owner} : \A b : Deductions(u, b)' = Deductions(u, b)
    BY <1>4 DEF Deductions
  <1>11. f.type = "DEBIT" =>
            /\ n \notin Deductions(f.owner, f.amount)
            /\ Deductions(f.owner, f.amount)' = Deductions(f.owner, f.amount) \union {n}
    BY <1>3, <1>8 DEF Deductions
  <1>12. QED
    BY <1>1, <1>9, <1>10, <1>11

\* A step that only gives requests up, on a fault.
LEMMA LostCounts ==
    ASSUME Types, W!TypeOK, Counted, creating' \subseteq creating, UNCHANGED <<ledger, campaigns>>,
           faults' # 0
    PROVE  Counted'
  <1> SUFFICES ASSUME NEW u \in Owners, NEW b \in Amounts
               PROVE  Paid(u, b)' <= Cardinality(Deductions(u, b))'
    BY DEF Counted
  <1>1. PaidFor(u, b)' \subseteq PaidFor(u, b)
    BY DEF PaidFor
  <1>2. Cardinality(PaidFor(u, b)') <= Cardinality(PaidFor(u, b)) /\ Cardinality(PaidFor(u, b)') \in Nat
    BY <1>1, CountsAreNat, FS_Subset, FS_CardinalityType
  <1>3. Created(u, b)' = Created(u, b) /\ Deductions(u, b)' = Deductions(u, b)
    BY DEF Created, Deductions
  <1>4. Paid(u, b) <= Cardinality(Deductions(u, b))
    BY DEF Counted
  <1>5. QED
    BY <1>2, <1>3, <1>4, CountsAreNat DEF Paid

\* Calls that go, or do not belong to a request that is new where it stands.
LEMMA HeldStays ==
    ASSUME CallsDiffer, HeldForRequests, inflight' \subseteq inflight,
           \A f \in inflight', r \in creating' : f.call = r.task => r \in creating
    PROVE  CallsDiffer' /\ HeldForRequests'
  BY DEF CallsDiffer, HeldForRequests
-----------------------------------------------------------------------------
LEMMA InitOK == Init => IInv
  <1> SUFFICES ASSUME Init PROVE IInv
    OBVIOUS
  <1>1. creating = {} /\ campaigns = <<>> /\ faults = 0 /\ inflight = {} /\ ledger = [u \in Owners |-> <<>>]
    BY DEF Init, W!Init
  <1>2. Types
    <2>1. 0 \in 0..MaxFaults
      BY BoundIsNat
    <2>2. campaigns \in Seq(Campaign)
      BY <1>1
    <2>3. QED
      BY <1>1, <2>1, <2>2, FS_EmptySet DEF Types
  <1>3. TasksDiffer /\ CallsDiffer /\ HeldForRequests
    BY <1>1 DEF TasksDiffer, CallsDiffer, HeldForRequests
  <1>4. ASSUME NEW u \in Owners, NEW b \in Amounts
        PROVE  Created(u, b) = {} /\ PaidFor(u, b) = {} /\ Deductions(u, b) = {}
    <2>1. DOMAIN campaigns = {} /\ DOMAIN ledger[u] = {}
      BY <1>1
    <2>2. QED
      BY <1>1, <2>1 DEF Created, PaidFor, Deductions
  <1>5. Counted
    BY <1>4, FS_EmptySet DEF Counted, Paid
  <1>6. QED
    BY <1>2, <1>3, <1>5 DEF IInv

LEMMA OpenWalletOK ==
    ASSUME IInv, NEW u \in Owners, NEW b \in Openings, OpenWallet(u, b)
    PROVE  IInv'
  <1>1. UNCHANGED <<ledger, inflight, creating, campaigns, faults>>
    BY DEF OpenWallet, W!CreateWallet
  <1>2. Counted'
    BY <1>1, SameCounts DEF IInv, Created, PaidFor, Deductions
  <1>3. QED
    BY <1>1, <1>2 DEF IInv, Types, TasksDiffer, CallsDiffer, HeldForRequests

LEMMA TopUpOK ==
    ASSUME IInv, W!TypeOK, TopUp
    PROVE  IInv'
  <1>1. UNCHANGED <<creating, campaigns, faults>>
    BY DEF TopUp
  <1>2. Types' /\ TasksDiffer'
    BY <1>1 DEF IInv, Types, TasksDiffer
  <1>3. ASSUME NEW t \in Tasks \ Busy, NEW u \in Owners, NEW a \in Amounts, NEW p \in Payments,
               W!ReadForTopUp(t, u, a, p)
        PROVE  CallsDiffer' /\ HeldForRequests' /\ Counted'
    <2>1. PICK g : inflight' = inflight \union {g} /\ g.call = t
      <3> DEFINE g == [call |-> t, type |-> "CREDIT", owner |-> u, amount |-> a,
                       before |-> balance[u], payment |-> p]
      <3>1. inflight' = inflight \union {g}
        BY <1>3 DEF W!ReadForTopUp, W!Read
      <3>2. g.call = t
        OBVIOUS
      <3> HIDE DEF g
      <3>3. QED
        BY <3>1, <3>2
    <2>2. ledger' = ledger
      BY <1>3 DEF W!ReadForTopUp, W!Read, W!rows
    <2>3. \A f \in inflight : f.call # t
      BY <1>3 DEF Busy
    <2>4. \A r \in creating : r.task # t
      BY <1>3 DEF Busy
    <2>5. CallsDiffer'
      BY <2>1, <2>3 DEF IInv, CallsDiffer
    <2>6. HeldForRequests'
      BY <1>1, <2>1, <2>4 DEF IInv, HeldForRequests
    <2>7. Counted'
      BY <1>1, <2>2, SameCounts DEF IInv, Created, PaidFor, Deductions
    <2>8. QED
      BY <2>5, <2>6, <2>7
  <1>4. ASSUME NEW f \in inflight, f.type = "CREDIT", W!Flush(f) \/ W!RefuseSecondCredit(f)
        PROVE  CallsDiffer' /\ HeldForRequests' /\ Counted'
    <2>1. inflight' = inflight \ {f}
      BY <1>4 DEF W!Flush, W!RefuseSecondCredit
    <2>2. \A u \in Owners, b \in Amounts : Deductions(u, b)' = Deductions(u, b)
      <3>1. CASE W!Flush(f)
        BY <1>4, <3>1, FlushFacts
      <3>2. CASE W!RefuseSecondCredit(f)
        BY <3>2 DEF W!RefuseSecondCredit, W!rows, Deductions
      <3>3. QED
        BY <1>4, <3>1, <3>2
    <2>3. Counted'
      BY <1>1, <2>2, SameCounts DEF IInv, Created, PaidFor
    <2>4. QED
      BY <1>1, <2>1, <2>3, HeldStays DEF IInv
  <1>5. QED
    BY <1>2, <1>3, <1>4 DEF TopUp, IInv

LEMMA AskOK ==
    ASSUME IInv, NEW t \in Tasks, NEW u \in Owners, NEW b \in Amounts, Ask(t, u, b)
    PROVE  IInv'
  <1> DEFINE new == [task |-> t, user |-> u, budget |-> b, at |-> "deduct"]
  <1>1. creating' = creating \union {new} /\ t \notin Busy
        /\ UNCHANGED <<inflight, ledger, campaigns, faults>>
    BY DEF Ask, walletVars
  <1>2. new \in Request /\ new.task = t /\ new.at = "deduct"
    BY DEF Request
  <1> HIDE DEF new
  <1>3. (\A f \in inflight : f.call # t) /\ (\A r \in creating : r.task # t)
    BY <1>1 DEF Busy
  <1>4. IsFiniteSet(creating')
    BY <1>1, FS_AddElement DEF IInv, Types
  <1>5. Types'
    BY <1>1, <1>2, <1>4 DEF IInv, Types
  <1>6. TasksDiffer'
    BY <1>1, <1>2, <1>3 DEF IInv, TasksDiffer
  <1>7. CallsDiffer' /\ HeldForRequests'
    BY <1>1, <1>2, <1>3 DEF IInv, CallsDiffer, HeldForRequests
  <1>8. Counted'
    BY <1>1, <1>2, SameCounts DEF IInv, Created, PaidFor, Deductions
  <1>9. QED
    BY <1>5, <1>6, <1>7, <1>8 DEF IInv

LEMMA ReadWalletOK ==
    ASSUME IInv, NEW r \in creating, ReadWallet(r)
    PROVE  IInv'
  <1>1. r.at = "deduct" /\ Move(r, "flush") /\ UNCHANGED <<campaigns, faults>> /\ r \in Request
    BY DEF ReadWallet, IInv, Types
  <1>2. PICK g : /\ inflight' = inflight \union {g}
                 /\ g.call = r.task /\ g.type = "DEBIT" /\ g.owner = r.user /\ g.amount = r.budget
    <2> DEFINE g == [call |-> r.task, type |-> "DEBIT", owner |-> r.user, amount |-> r.budget,
                     before |-> balance[r.user], payment |-> NoPayment]
    <2>1. inflight' = inflight \union {g}
      BY DEF ReadWallet, W!ReadForDeduct, W!Read
    <2>2. g.call = r.task /\ g.type = "DEBIT" /\ g.owner = r.user /\ g.amount = r.budget
      OBVIOUS
    <2> HIDE DEF g
    <2>3. QED
      BY <2>1, <2>2
  <1>3. ledger' = ledger /\ \A f \in inflight : f.call # r.task
    BY DEF ReadWallet, W!ReadForDeduct, W!Read, W!rows
  <1>4. "flush" \in Stages
    BY DEF Stages
  <1>5. PICK new \in Request :
            /\ creating' = (creating \ {r}) \union {new}
            /\ new.task = r.task /\ new.user = r.user /\ new.budget = r.budget /\ new.at = "flush"
    BY <1>1, <1>4, MoveFacts
  <1>6. Types' /\ TasksDiffer'
    BY <1>1, <1>5, MovedRequest DEF IInv, Types
  <1>7. CallsDiffer'
    BY <1>2, <1>3 DEF IInv, CallsDiffer
  <1>8. HeldForRequests'
    <2>1. ASSUME NEW f \in inflight', NEW s \in creating', f.call = s.task
          PROVE  f.type = "DEBIT" /\ f.owner = s.user /\ f.amount = s.budget /\ s.at = "flush"
      <3>1. CASE f \in inflight
        BY <1>3, <1>5, <2>1, <3>1 DEF IInv, HeldForRequests
      <3>2. CASE f = g
        BY <1>2, <1>5, <2>1, <3>2 DEF IInv, TasksDiffer
      <3>3. QED
        BY <1>2, <3>1, <3>2
    <2>2. QED
      BY <2>1 DEF HeldForRequests
  <1>9. Counted'
    BY <1>1, <1>3, <1>5, SameCounts DEF IInv, Created, PaidFor, Deductions
  <1>10. QED
    BY <1>6, <1>7, <1>8, <1>9 DEF IInv

\* A request that is answered without a campaign: refused, or on a fault.
LEMMA AnsweredOK ==
    ASSUME IInv, W!TypeOK, NEW r \in creating,
           RefuseDeduction(r) \/ DeductionFails(r) \/ CreateFails(r)
    PROVE  IInv'
  <1>1. creating' = creating \ {r} /\ inflight' \subseteq inflight /\ UNCHANGED <<ledger, campaigns>>
    BY DEF RefuseDeduction, DeductionFails, CreateFails, Answered, walletVars, W!FlushFails, W!rows
  <1>2. faults \in 0..MaxFaults /\ MaxFaults \in Nat
    BY BoundIsNat DEF IInv, Types
  <1>3. faults' \in 0..MaxFaults
    BY <1>2 DEF RefuseDeduction, DeductionFails, CreateFails
  <1>4. Types' /\ TasksDiffer'
    BY <1>1, <1>3, FewerRequests DEF IInv, Types
  <1>5. CallsDiffer' /\ HeldForRequests'
    BY <1>1, HeldStays DEF IInv
  <1>6. CASE RefuseDeduction(r)
    <2>1. r.at = "deduct" /\ faults' = faults
      BY <1>6 DEF RefuseDeduction
    <2>2. Counted'
      BY <1>1, <2>1, SameCounts DEF IInv, Created, PaidFor, Deductions
    <2>3. QED
      BY <1>4, <1>5, <2>2 DEF IInv
  <1>7. CASE DeductionFails(r) \/ CreateFails(r)
    <2>1. faults' # 0
      BY <1>2, <1>7 DEF DeductionFails, CreateFails
    <2>2. Counted'
      BY <1>1, <2>1, LostCounts DEF IInv
    <2>3. QED
      BY <1>4, <1>5, <2>2 DEF IInv
  <1>8. QED
    BY <1>6, <1>7

LEMMA CrashOK ==
    ASSUME IInv, W!TypeOK, Crash
    PROVE  IInv'
  <1>1. creating' = {} /\ inflight' = {} /\ UNCHANGED <<ledger, campaigns>>
        /\ faults < MaxFaults /\ faults' = faults + 1
    BY DEF Crash
  <1>2. faults \in 0..MaxFaults /\ MaxFaults \in Nat
    BY BoundIsNat DEF IInv, Types
  <1>3. faults' \in 0..MaxFaults /\ faults' # 0
    BY <1>1, <1>2
  <1>4. Types' /\ TasksDiffer'
    BY <1>1, <1>3, FewerRequests DEF IInv, Types
  <1>5. CallsDiffer' /\ HeldForRequests'
    BY <1>1, HeldStays DEF IInv
  <1>6. Counted'
    BY <1>1, <1>3, LostCounts DEF IInv
  <1>7. QED
    BY <1>4, <1>5, <1>6 DEF IInv

\* The deduction of request r is flushed: one more deduction, one more request paid for.
LEMMA FlushWalletOK ==
    ASSUME IInv, W!TypeOK, NEW r \in creating, FlushWallet(r)
    PROVE  IInv'
  <1>1. r.at = "flush" /\ Move(r, "create") /\ UNCHANGED <<campaigns, faults>> /\ r \in Request
    BY DEF FlushWallet, IInv, Types
  <1>2. PICK f \in inflight : f.call = r.task /\ W!Flush(f)
    BY DEF FlushWallet
  <1>3. f.type = "DEBIT" /\ f.owner = r.user /\ f.amount = r.budget
    BY <1>2 DEF IInv, HeldForRequests
  <1>4. "create" \in Stages
    BY DEF Stages
  <1>5. PICK new \in Request :
            /\ creating' = (creating \ {r}) \union {new}
            /\ new.task = r.task /\ new.user = r.user /\ new.budget = r.budget /\ new.at = "create"
    BY <1>1, <1>4, MoveFacts
  <1>6. Types' /\ TasksDiffer'
    BY <1>1, <1>5, MovedRequest DEF IInv, Types
  <1>7. inflight' = inflight \ {f}
    BY <1>2 DEF W!Flush
  <1>8. \A g \in inflight' : g.call # r.task
    BY <1>2, <1>7 DEF IInv, CallsDiffer
  <1>9. CallsDiffer' /\ HeldForRequests'
    BY <1>5, <1>7, <1>8, HeldStays DEF IInv
  <1>10. new \notin creating
    BY <1>1, <1>5 DEF IInv, TasksDiffer
  <1>11. \A u, b : Created(u, b)' = Created(u, b)
    BY <1>1 DEF Created
  <1>12. ASSUME NEW u \in Owners, NEW b \in Amounts, u # r.user \/ b # r.budget
         PROVE  PaidFor(u, b)' = PaidFor(u, b) /\ Deductions(u, b)' = Deductions(u, b)
    <2>1. Deductions(u, b)' = Deductions(u, b)
      BY <1>2, <1>3, <1>12, FlushFacts
    <2>2. PaidFor(u, b)' = PaidFor(u, b)
      BY <1>1, <1>5, <1>12 DEF PaidFor
    <2>3. QED
      BY <2>1, <2>2
  <1> DEFINE D == Deductions(r.user, r.budget)
             P == PaidFor(r.user, r.budget)
  <1>13. r.user \in Owners /\ r.budget \in Amounts
    BY <1>1 DEF Request
  <1>14. PICK i : i \notin D /\ Deductions(r.user, r.budget)' = D \union {i}
    BY <1>2, <1>3, FlushFacts
  <1>15. new \notin P /\ PaidFor(r.user, r.budget)' = P \union {new}
    BY <1>1, <1>5, <1>10 DEF PaidFor
  <1>16. /\ IsFiniteSet(D) /\ Cardinality(D) \in Nat /\ IsFiniteSet(P) /\ Cardinality(P) \in Nat
         /\ Cardinality(Created(r.user, r.budget)) \in Nat
    BY <1>13, CountsAreNat DEF IInv
  <1> HIDE DEF D, P
  <1>17. /\ Cardinality(Deductions(r.user, r.budget)') = Cardinality(D) + 1
         /\ Cardinality(PaidFor(r.user, r.budget)') = Cardinality(P) + 1
    BY <1>14, <1>15, <1>16, FS_AddElement
  <1>18. ASSUME NEW u \in Owners, NEW b \in Amounts
         PROVE  /\ Paid(u, b)' <= Cardinality(Deductions(u, b))'
                /\ faults' = 0 => Paid(u, b)' = Cardinality(Deductions(u, b))'
    <2>1. CASE u = r.user /\ b = r.budget
      <3>1. /\ Cardinality(Created(u, b)) + Cardinality(P) <= Cardinality(D)
            /\ faults = 0 => Cardinality(Created(u, b)) + Cardinality(P) = Cardinality(D)
        BY <2>1 DEF IInv, Counted, Paid, D, P
      <3>2. Paid(u, b)' = Cardinality(Created(u, b)) + (Cardinality(P) + 1)
        BY <1>11, <1>17, <2>1 DEF Paid
      <3>3. QED
        BY <1>1, <1>16, <1>17, <2>1, <3>1, <3>2
    <2>2. CASE u # r.user \/ b # r.budget
      BY <1>1, <1>11, <1>12, <2>2 DEF IInv, Counted, Paid
    <2>3. QED
      BY <2>1, <2>2
  <1>19. Counted'
    BY <1>18 DEF Counted
  <1>20. QED
    BY <1>6, <1>9, <1>19 DEF IInv

\* The campaign of request r is inserted: one more campaign, one request less.
LEMMA CreateCampaignOK ==
    ASSUME IInv, W!TypeOK, NEW r \in creating, CreateCampaign(r)
    PROVE  IInv'
  <1>1. /\ r.at = "create" /\ creating' = creating \ {r} /\ campaigns' = Append(campaigns, RowFor(r))
        /\ UNCHANGED <<ledger, inflight, faults>>
    BY DEF CreateCampaign, Answered, walletVars
  <1>2. r \in Request /\ r.user \in Owners /\ r.budget \in Amounts
    BY DEF IInv, Types, Request
  <1>3. Amounts \subseteq Nat
    BY PositiveAmounts
  <1> DEFINE row == RowFor(r)
             n == Len(campaigns)
  <1>4. row \in Campaign
    <2>1. 100 * r.budget \in Nat
      <3>1. \A k \in Nat : 100 * k \in Nat
        OBVIOUS
      <3>2. r.budget \in Nat
        BY <1>2, <1>3
      <3>3. QED
        BY <3>1, <3>2
    <2>2. QED
      BY <1>2, <2>1 DEF RowFor, Campaign
  <1>5. ASSUME NEW u \in Owners, NEW b \in Amounts
        PROVE  row = [user |-> u, budget |-> 100 * b] <=> u = r.user /\ b = r.budget
    <2>1. b \in Nat /\ r.budget \in Nat
      BY <1>2, <1>3
    <2>2. 100 * b = 100 * r.budget <=> b = r.budget
      BY <2>1
    <2> DEFINE e == [user |-> u, budget |-> 100 * b]
    <2>3. row.user = r.user /\ row.budget = 100 * r.budget /\ e.user = u /\ e.budget = 100 * b
      BY DEF RowFor
    <2>4. u = r.user /\ b = r.budget => row = e
      BY DEF RowFor
    <2>5. QED
      BY <2>2, <2>3, <2>4
  <1> HIDE DEF row
  <1>6. campaigns \in Seq(Campaign)
    BY DEF IInv, Types
  <1>7. /\ campaigns' \in Seq(Campaign)
        /\ n \in Nat /\ DOMAIN campaigns = 1..n /\ DOMAIN campaigns' = 1..(n + 1)
        /\ \A i \in 1..n : campaigns'[i] = campaigns[i]
        /\ campaigns'[n + 1] = row
    BY <1>1, <1>4, <1>6, AppendFacts DEF row
  <1> HIDE DEF n
  <1>8. Types' /\ TasksDiffer'
    BY <1>1, <1>7, FewerRequests DEF IInv, Types
  <1>9. CallsDiffer' /\ HeldForRequests'
    BY <1>1, HeldStays DEF IInv
  <1>10. \A u, b : Deductions(u, b)' = Deductions(u, b)
    BY <1>1 DEF Deductions
  <1>11. ASSUME NEW u \in Owners, NEW b \in Amounts, u # r.user \/ b # r.budget
         PROVE  Created(u, b)' = Created(u, b) /\ PaidFor(u, b)' = PaidFor(u, b)
    <2>1. row # [user |-> u, budget |-> 100 * b]
      BY <1>5, <1>11
    <2>2. Created(u, b)' = Created(u, b)
      BY <1>7, <2>1 DEF Created
    <2>3. PaidFor(u, b)' = PaidFor(u, b)
      BY <1>1, <1>11 DEF PaidFor
    <2>4. QED
      BY <2>2, <2>3
  <1> DEFINE C == Created(r.user, r.budget)
             P == PaidFor(r.user, r.budget)
  <1>12. n + 1 \notin C /\ Created(r.user, r.budget)' = C \union {n + 1}
    <2>1. row = [user |-> r.user, budget |-> 100 * r.budget]
      BY <1>2, <1>5
    <2>2. QED
      BY <1>7, <2>1 DEF Created
  <1>13. r \in P /\ PaidFor(r.user, r.budget)' = P \ {r}
    BY <1>1 DEF PaidFor
  <1>14. /\ IsFiniteSet(C) /\ Cardinality(C) \in Nat /\ IsFiniteSet(P) /\ Cardinality(P) \in Nat
         /\ Cardinality(Deductions(r.user, r.budget)) \in Nat
    BY <1>2, CountsAreNat DEF IInv
  <1> HIDE DEF C, P
  <1>15. /\ Cardinality(Created(r.user, r.budget)') = Cardinality(C) + 1
         /\ Cardinality(PaidFor(r.user, r.budget)') = Cardinality(P) - 1
    BY <1>12, <1>13, <1>14, FS_AddElement, FS_RemoveElement
  <1>16. ASSUME NEW u \in Owners, NEW b \in Amounts
         PROVE  Paid(u, b)' = Paid(u, b)
    <2>1. CASE u = r.user /\ b = r.budget
      <3>1. Paid(u, b)' = (Cardinality(C) + 1) + (Cardinality(P) - 1)
        BY <1>15, <2>1 DEF Paid
      <3>2. Paid(u, b) = Cardinality(C) + Cardinality(P)
        BY <2>1 DEF Paid, C, P
      <3>3. QED
        BY <1>14, <3>1, <3>2
    <2>2. CASE u # r.user \/ b # r.budget
      BY <1>11, <2>2 DEF Paid
    <2>3. QED
      BY <2>1, <2>2
  <1>17. Counted'
    BY <1>1, <1>10, <1>16 DEF IInv, Counted
  <1>18. QED
    BY <1>8, <1>9, <1>17 DEF IInv

LEMMA NextOK ==
    ASSUME IInv, W!TypeOK, [Next]_vars
    PROVE  IInv'
  <1>1. CASE UNCHANGED vars
    <2>1. UNCHANGED <<ledger, inflight, creating, campaigns, faults>>
      BY <1>1 DEF vars, walletVars
    <2>2. Counted'
      BY <2>1, SameCounts DEF IInv, Created, PaidFor, Deductions
    <2>3. QED
      BY <2>1, <2>2 DEF IInv, Types, TasksDiffer, CallsDiffer, HeldForRequests
  <1>2. QED
    BY <1>1, OpenWalletOK, TopUpOK, AskOK, ReadWalletOK, AnsweredOK, FlushWalletOK,
       CreateCampaignOK, CrashOK DEF Next
-----------------------------------------------------------------------------
LEMMA StepRefines ==
    ASSUME Types, [Next]_vars
    PROVE  [W!Next]_(W!vars)
  <1>1. CASE UNCHANGED walletVars
    BY <1>1 DEF walletVars, W!vars
  <1>2. ASSUME NEW u \in Owners, NEW b \in Openings, OpenWallet(u, b)
        PROVE  W!Next
    BY <1>2 DEF OpenWallet, W!Next
  <1>3. CASE TopUp
    <2>1. ASSUME NEW t \in Tasks, NEW u \in Owners, NEW a \in Amounts, NEW p \in Payments,
                 W!ReadForTopUp(t, u, a, p)
          PROVE  W!Next
      BY <2>1 DEF W!Next, W!Begin
    <2>2. ASSUME NEW f \in inflight, W!Flush(f) \/ W!RefuseSecondCredit(f)
          PROVE  W!Next
      BY <2>2 DEF W!Next, W!End
    <2>3. QED
      BY <1>3, <2>1, <2>2 DEF TopUp
  <1>4. ASSUME NEW r \in creating, ReadWallet(r)
        PROVE  W!Next
    <2>1. r.task \in Tasks /\ r.user \in Owners /\ r.budget \in Amounts
      BY DEF Types, Request
    <2>2. W!Begin
      BY <1>4, <2>1 DEF ReadWallet, W!Begin
    <2>3. QED
      BY <2>2 DEF W!Next
  <1>5. ASSUME NEW r \in creating, FlushWallet(r) \/ DeductionFails(r)
        PROVE  W!Next
    <2>1. \E f \in inflight : W!Flush(f) \/ W!FlushFails(f)
      BY <1>5 DEF FlushWallet, DeductionFails
    <2>2. QED
      BY <2>1 DEF W!Next, W!End
  <1>6. CASE Crash
    <2>1. inflight' = {} /\ UNCHANGED <<wallets, opening, balance, ledger, overlapped>>
      BY <1>6 DEF Crash
    <2>2. CASE inflight = {}
      BY <2>1, <2>2 DEF W!vars
    <2>3. CASE inflight # {}
      BY <2>1, <2>3 DEF W!Next, W!Crash, W!rows
    <2>4. QED
      BY <2>2, <2>3
  <1>7. ASSUME NEW t \in Tasks, NEW u \in Owners, NEW b \in Amounts, Ask(t, u, b)
        PROVE  UNCHANGED walletVars
    BY <1>7 DEF Ask
  <1>8. ASSUME NEW r \in creating, RefuseDeduction(r) \/ CreateCampaign(r) \/ CreateFails(r)
        PROVE  UNCHANGED walletVars
    BY <1>8 DEF RefuseDeduction, CreateCampaign, CreateFails
  <1>9. CASE UNCHANGED vars
    BY <1>1, <1>9 DEF vars
  <1>10. QED
    BY <1>1, <1>2, <1>3, <1>4, <1>5, <1>6, <1>7, <1>8, <1>9 DEF Next

\* The theorems of WalletsProofs, of the wallets here.
WP == INSTANCE WalletsProofs WITH Calls <- Tasks

LEMMA SameInit == W!Init => WP!Init
  BY DEF W!Init, WP!Init

LEMMA SameNext == [W!Next]_(W!vars) => [WP!Next]_(WP!vars)
  <1> SUFFICES ASSUME [W!Next]_(W!vars) PROVE [WP!Next]_(WP!vars)
    OBVIOUS
  <1>1. ASSUME NEW u \in Owners, NEW b \in Openings, W!CreateWallet(u, b)
        PROVE  WP!Next
    <2>1. WP!CreateWallet(u, b)
      BY <1>1 DEF W!CreateWallet, WP!CreateWallet
    <2>2. QED
      BY <2>1 DEF WP!Next
  <1>2. CASE W!Begin
    <2>1. WP!Begin
      BY <1>2 DEF W!Begin, WP!Begin, W!ReadForTopUp, WP!ReadForTopUp, W!ReadForDeduct,
         WP!ReadForDeduct, W!Read, WP!Read, W!rows, WP!rows
    <2>2. QED
      BY <2>1 DEF WP!Next
  <1>3. CASE W!End
    <2>1. WP!End
      BY <1>3 DEF W!End, WP!End, W!Flush, WP!Flush, W!RefuseSecondCredit, WP!RefuseSecondCredit,
         W!FlushFails, WP!FlushFails, W!rows, WP!rows, W!Posted, WP!Posted, W!RowOf, WP!RowOf
    <2>2. QED
      BY <2>1 DEF WP!Next
  <1>4. CASE W!Crash
    <2>1. WP!Crash
      BY <1>4 DEF W!Crash, WP!Crash, W!rows, WP!rows
    <2>2. QED
      BY <2>1 DEF WP!Next
  <1>5. CASE UNCHANGED W!vars
    BY <1>5 DEF W!vars, WP!vars
  <1>6. QED
    BY <1>1, <1>2, <1>3, <1>4, <1>5 DEF W!Next

LEMMA SameSpec == W!Spec => WP!Spec
  BY SameInit, SameNext, PTL DEF W!Spec, WP!Spec

LEMMA WalletAssumptions == WP!PositiveAmounts /\ WP!NaturalOpenings /\ WP!NullIsNoPayment
  BY PositiveAmounts, NaturalOpenings, NullIsNoPayment
  DEF WP!PositiveAmounts, WP!NaturalOpenings, WP!NullIsNoPayment

LEMMA WalletTypes == WP!IInv => W!TypeOK
  BY DEF WP!IInv, W!TypeOK, WP!TypeOK, W!Call, WP!Call, W!Row, WP!Row

\* What is counted and what is proved of the wallets hold together: each needs the other's
\* types.
LEMMA Invariance == Spec => [](IInv /\ WP!IInv)
  <1>1. Init => IInv /\ WP!IInv
    BY InitOK, SameInit, WalletAssumptions, WP!InitOK DEF Init
  <1>2. IInv /\ WP!IInv /\ [Next]_vars => IInv' /\ WP!IInv'
    <2> SUFFICES ASSUME IInv, WP!IInv, [Next]_vars PROVE IInv' /\ WP!IInv'
      OBVIOUS
    <2>1. IInv'
      BY WalletTypes, NextOK
    <2>2. [WP!Next]_(WP!vars)
      BY StepRefines, SameNext DEF IInv
    <2>3. WP!IInv'
      BY <2>2, WalletAssumptions, WP!NextOK
    <2>4. QED
      BY <2>1, <2>3
  <1>3. QED
    BY <1>1, <1>2, PTL DEF Spec
-----------------------------------------------------------------------------
\* Campaigns and top-ups use the wallets the way WalletRepository lets its callers: what
\* is proved of Wallets, for any callers, is true of the system here.
THEOREM StepsAreWalletSteps == Spec => WalletSteps
  <1>1. Init => W!Init
    BY DEF Init
  <1>2. IInv /\ [Next]_vars => [W!Next]_(W!vars)
    BY StepRefines DEF IInv
  <1>3. QED
    BY <1>1, <1>2, Invariance, PTL DEF Spec, WalletSteps, W!Spec

\* Every variable keeps its type, whatever requests, top-ups and faults do.
THEOREM TypeCorrect == Spec => []TypeOK
  <1>1. IInv /\ WP!IInv => TypeOK
    BY WalletTypes DEF IInv, Types, TypeOK
  <1>2. QED
    BY <1>1, Invariance, PTL

\* However requests of one user or of several overlap, no campaign is created on the
\* deduction of another.
THEOREM CampaignsHaveDeductions == Spec => []CampaignsArePaid
  <1>1. IInv => CampaignsArePaid
    BY DEF IInv, Counted, Paid, CampaignsArePaid
  <1>2. QED
    BY <1>1, Invariance, PTL

\* As long as nothing fails, each budget taken is one campaign, there or about to be.
THEOREM NothingTakenForNothing == Spec => []BudgetLostOnlyToFaults
  <1>1. IInv => BudgetLostOnlyToFaults
    <2> SUFFICES ASSUME IInv, faults = 0, NEW u \in Owners, NEW b \in Amounts
                 PROVE  Cardinality(Deductions(u, b))
                            <= Cardinality(Created(u, b)) + Cardinality(PaidFor(u, b))
      BY DEF BudgetLostOnlyToFaults
    <2>1. Cardinality(Deductions(u, b)) = Cardinality(Created(u, b)) + Cardinality(PaidFor(u, b))
      BY DEF IInv, Counted, Paid
    <2>2. Paid(u, b) <= Cardinality(Deductions(u, b))
      BY DEF IInv, Counted
    <2>3. QED
      BY <2>1, <2>2 DEF Paid
  <1>2. QED
    BY <1>1, Invariance, PTL
-----------------------------------------------------------------------------
\* What requests and campaigns hold was deducted, and without a fault nothing else was.
Accounted ==
    \A u \in Owners :
        /\ IsFiniteSet(Costs(u)) /\ IsFiniteSet(Taken(u))
        /\ 100 * Cardinality(Taken(u)) + Cardinality(Costs(u)) <= 100 * W!Total(u, "DEBIT")
        /\ faults = 0 =>
               100 * Cardinality(Taken(u)) + Cardinality(Costs(u)) = 100 * W!Total(u, "DEBIT")

\* The units of one more row, or of one more request, are new elements.
LEMMA MoreUnits ==
    ASSUME NEW S, IsFiniteSet(S), NEW k, NEW a \in Nat, \A j : <<k, j>> \notin S
    PROVE  /\ IsFiniteSet(S \union ({k} \X (1..a)))
           /\ Cardinality(S \union ({k} \X (1..a))) = Cardinality(S) + a
  <1> DEFINE new == {k} \X (1..a)
  <1>1. IsFiniteSet({k}) /\ Cardinality({k}) = 1
    BY FS_Singleton
  <1>2. IsFiniteSet(1..a) /\ Cardinality(1..a) = IF 1 > a THEN 0 ELSE a - 1 + 1
    BY FS_Interval
  <1>3. Cardinality(1..a) = a
    BY <1>2
  <1>4. IsFiniteSet(new) /\ Cardinality(new) = a
    <2> DEFINE K == {k}
               J == 1..a
    <2>1. IsFiniteSet(K) /\ IsFiniteSet(J) /\ Cardinality(K) = 1 /\ Cardinality(J) = a
      BY <1>1, <1>2, <1>3
    <2> HIDE DEF K, J
    <2>2. IsFiniteSet(K \X J) /\ Cardinality(K \X J) = Cardinality(K) * Cardinality(J)
      BY <2>1, FS_Product
    <2>3. Cardinality(K \X J) = a
      BY <2>1, <2>2
    <2>4. QED
      BY <2>2, <2>3 DEF K, J
  <1>5. S \intersect new = {}
    OBVIOUS
  <1>6. Cardinality(S \intersect new) = 0 /\ Cardinality(S) \in Nat
    BY <1>5, FS_EmptySet, FS_CardinalityType
  <1> HIDE DEF new
  <1>7. /\ IsFiniteSet(S \union new)
        /\ Cardinality(S \union new)
               = Cardinality(S) + Cardinality(new) - Cardinality(S \intersect new)
    BY <1>4, FS_Union
  <1>8. QED
    BY <1>4, <1>6, <1>7 DEF new

\* Sizes of sets are the same here, in Wallets and in WalletsProofs.
LEMMA SameSizes ==
    \A S : /\ WP!IsFiniteSet(S) <=> IsFiniteSet(S)
           /\ WP!Cardinality(S) = Cardinality(S)
           /\ W!Cardinality(S) = Cardinality(S)
  <1>1. \A S : WP!IsFiniteSet(S) <=> IsFiniteSet(S)
    BY Zenon DEF WP!IsFiniteSet, IsFiniteSet
  <1>2. \A S : WP!Cardinality(S) = Cardinality(S)
    BY Zenon DEF WP!Cardinality, Cardinality
  <1>3. \A S : W!Cardinality(S) = Cardinality(S)
    BY Zenon DEF W!Cardinality, Cardinality
  <1>4. QED
    BY <1>1, <1>2, <1>3

LEMMA TotalIsNat ==
    ASSUME WP!IInv, NEW u \in Owners
    PROVE  /\ W!Total(u, "DEBIT") \in Nat /\ W!Total(u, "CREDIT") \in Nat
           /\ W!Total(u, "DEBIT") = WP!Total(u, "DEBIT")
           /\ W!Total(u, "CREDIT") = WP!Total(u, "CREDIT")
  <1>1. ASSUME NEW type \in {"DEBIT", "CREDIT"}
        PROVE  W!Total(u, type) \in Nat /\ W!Total(u, type) = WP!Total(u, type)
    <2>1. W!Units(u, type) = WP!Units(u, type)
      BY Zenon DEF W!Units, WP!Units
    <2>2. IsFiniteSet(WP!Units(u, type))
      BY SameSizes DEF WP!IInv, WP!MoneyMatches
    <2>3. W!Total(u, type) = Cardinality(WP!Units(u, type)) /\ WP!Total(u, type) = W!Total(u, type)
      BY <2>1, SameSizes DEF W!Total, WP!Total
    <2>4. QED
      BY <2>2, <2>3, FS_CardinalityType
  <1>2. QED
    BY <1>1

\* The total deducted grows by what a deduction flushes, and by nothing else.
LEMMA FlushTotals ==
    ASSUME WP!IInv, NEW f \in inflight, W!Flush(f), NEW u \in Owners
    PROVE  /\ W!Total(u, "DEBIT") \in Nat
           /\ W!Total(u, "DEBIT")' = W!Total(u, "DEBIT")
                  + IF f.owner = u /\ f.type = "DEBIT" THEN f.amount ELSE 0
  <1>1. WP!Flush(f)
    BY DEF W!Flush, WP!Flush, W!Posted, WP!Posted, W!RowOf, WP!RowOf
  <1>2. W!Total(u, "DEBIT") = WP!Total(u, "DEBIT") /\ W!Total(u, "DEBIT")' = WP!Total(u, "DEBIT")'
    <2>1. W!Units(u, "DEBIT") = WP!Units(u, "DEBIT")
      BY Zenon DEF W!Units, WP!Units
    <2>2. W!Units(u, "DEBIT")' = WP!Units(u, "DEBIT")'
      BY Zenon DEF W!Units, WP!Units
    <2>3. QED
      BY <2>1, <2>2, SameSizes DEF W!Total, WP!Total
  <1>3. WP!Total(u, "DEBIT") \in Nat
    BY TotalIsNat
  <1>4. CASE f.owner = u
    <2>1. WP!Total(f.owner, "DEBIT")' =
              WP!Total(f.owner, "DEBIT") + IF f.type = "DEBIT" THEN f.amount ELSE 0
      BY <1>1, WalletAssumptions, WP!FlushMovesUnits
    <2>2. QED
      BY <1>2, <1>3, <1>4, <2>1
  <1>5. CASE f.owner # u
    <2>1. ledger'[u] = ledger[u]
      BY <1>5 DEF W!Flush, WP!IInv, WP!TypeOK
    <2>2. W!Units(u, "DEBIT")' = W!Units(u, "DEBIT")
      BY <2>1 DEF W!Units
    <2>3. QED
      BY <1>2, <1>3, <1>5, <2>2 DEF W!Total
  <1>6. QED
    BY <1>4, <1>5

\* A step that deducts nothing, inserts nothing, and pays for nothing.
LEMMA SameAccounts ==
    ASSUME Accounted, faults' = 0 => faults = 0,
           \A u \in Owners : /\ Costs(u)' = Costs(u) /\ Taken(u)' = Taken(u)
                             /\ W!Total(u, "DEBIT")' = W!Total(u, "DEBIT")
    PROVE  Accounted'
  BY DEF Accounted

\* A request that is not paid for leaves, arrives, or moves towards its deduction.
LEMMA UnpaidAccounts ==
    ASSUME Accounted, UNCHANGED <<ledger, campaigns, faults>>,
           \A r \in creating' : r \in creating \/ r.at # "create",
           \A r \in creating : r \in creating' \/ r.at # "create"
    PROVE  Accounted'
  <1>1. \A u \in Owners : Costs(u)' = Costs(u)
    BY DEF Costs
  <1>2. \A u \in Owners : Taken(u)' = Taken(u)
    <2>1. ASSUME NEW u \in Owners
          PROVE  {s \in creating' : s.user = u /\ s.at = "create"}
                     = {s \in creating : s.user = u /\ s.at = "create"}
      OBVIOUS
    <2>2. QED
      BY <2>1 DEF Taken
  <1>3. \A u \in Owners : W!Total(u, "DEBIT")' = W!Total(u, "DEBIT")
    BY DEF W!Total, W!Units
  <1>4. QED
    BY <1>1, <1>2, <1>3, SameAccounts

\* A step that gives requests up, on a fault.
LEMMA LostAccounts ==
    ASSUME Accounted, WP!IInv, creating' \subseteq creating, UNCHANGED <<ledger, campaigns>>, faults' # 0
    PROVE  Accounted'
  <1> SUFFICES ASSUME NEW u \in Owners
               PROVE  /\ IsFiniteSet(Costs(u)') /\ IsFiniteSet(Taken(u)')
                      /\ 100 * Cardinality(Taken(u)') + Cardinality(Costs(u)')
                             <= 100 * W!Total(u, "DEBIT")'
    BY DEF Accounted
  <1>1. Costs(u)' = Costs(u) /\ W!Total(u, "DEBIT")' = W!Total(u, "DEBIT")
    BY DEF Costs, W!Total, W!Units
  <1>2. Taken(u)' \subseteq Taken(u)
    BY DEF Taken
  <1>3. IsFiniteSet(Costs(u)) /\ IsFiniteSet(Taken(u))
    BY DEF Accounted
  <1>4. IsFiniteSet(Taken(u)') /\ Cardinality(Taken(u)') <= Cardinality(Taken(u))
    BY <1>2, <1>3, FS_Subset
  <1> DEFINE t == Cardinality(Taken(u))
             left == Cardinality(Taken(u)')
             c == Cardinality(Costs(u))
             d == W!Total(u, "DEBIT")
  <1>5. t \in Nat /\ left \in Nat /\ c \in Nat /\ left <= t
    BY <1>3, <1>4, FS_CardinalityType
  <1>6. d \in Nat
    BY TotalIsNat
  <1>7. 100 * t + c <= 100 * d
    BY DEF Accounted
  <1> HIDE DEF t, left, c, d
  <1>8. 100 * left + c <= 100 * d
    BY <1>5, <1>6, <1>7
  <1>9. QED
    BY <1>1, <1>3, <1>4, <1>8 DEF left, c, d

\* The deduction of request r is flushed: as much is deducted as is held for its campaign.
LEMMA FlushAccounts ==
    ASSUME IInv, WP!IInv, Accounted, NEW r \in creating, FlushWallet(r)
    PROVE  Accounted'
  <1>1. r.at = "flush" /\ Move(r, "create") /\ UNCHANGED <<campaigns, faults>> /\ r \in Request
    BY DEF FlushWallet, IInv, Types
  <1>2. PICK f \in inflight : f.call = r.task /\ W!Flush(f)
    BY DEF FlushWallet
  <1>3. f.type = "DEBIT" /\ f.owner = r.user /\ f.amount = r.budget
    BY <1>2 DEF IInv, HeldForRequests
  <1>4. PICK new \in Request :
            /\ creating' = (creating \ {r}) \union {new}
            /\ new.task = r.task /\ new.user = r.user /\ new.budget = r.budget /\ new.at = "create"
    BY <1>1, MoveFacts DEF Stages
  <1>5. new \notin creating /\ r.budget \in Nat
    BY <1>1, <1>4, PositiveAmounts DEF IInv, TasksDiffer, Request
  <1>6. SUFFICES ASSUME NEW u \in Owners
                 PROVE  /\ IsFiniteSet(Costs(u)') /\ IsFiniteSet(Taken(u)')
                        /\ 100 * Cardinality(Taken(u)') + Cardinality(Costs(u)')
                               <= 100 * W!Total(u, "DEBIT")'
                        /\ faults' = 0 => 100 * Cardinality(Taken(u)') + Cardinality(Costs(u)')
                                              = 100 * W!Total(u, "DEBIT")'
    BY <1>1 DEF Accounted
  <1> DEFINE t == Cardinality(Taken(u))
             c == Cardinality(Costs(u))
             d == W!Total(u, "DEBIT")
  <1>7. IsFiniteSet(Costs(u)) /\ IsFiniteSet(Taken(u)) /\ Costs(u)' = Costs(u)
    BY <1>1 DEF Accounted, Costs
  <1>8. t \in Nat /\ c \in Nat /\ d \in Nat
    BY <1>7, FS_CardinalityType, TotalIsNat
  <1>9. 100 * t + c <= 100 * d /\ (faults = 0 => 100 * t + c = 100 * d)
    BY DEF Accounted
  <1>10. CASE u = r.user
    <2>1. W!Total(u, "DEBIT")' = d + r.budget
      BY <1>2, <1>3, <1>10, FlushTotals
    <2>2. Taken(u)' = Taken(u) \union ({new} \X (1..r.budget))
      <3>1. {s \in creating' : s.user = u /\ s.at = "create"}
                = {s \in creating : s.user = u /\ s.at = "create"} \union {new}
        BY <1>1, <1>4, <1>10
      <3>2. QED
        BY <1>4, <3>1 DEF Taken
    <2>3. \A j : <<new, j>> \notin Taken(u)
      BY <1>5 DEF Taken
    <2>4. IsFiniteSet(Taken(u)') /\ Cardinality(Taken(u)') = t + r.budget
      <3> DEFINE S == Taken(u)
                 key == new
                 a == r.budget
      <3>1. IsFiniteSet(S) /\ a \in Nat /\ \A j : <<key, j>> \notin S
        BY <1>5, <1>7, <2>3
      <3> HIDE DEF S, key, a
      <3>2. /\ IsFiniteSet(S \union ({key} \X (1..a)))
            /\ Cardinality(S \union ({key} \X (1..a))) = Cardinality(S) + a
        BY <3>1, MoreUnits
      <3>3. QED
        BY <2>2, <3>2 DEF S, key, a
    <2> HIDE DEF t, c, d
    <2>5. /\ 100 * (t + r.budget) + c <= 100 * (d + r.budget)
          /\ faults = 0 => 100 * (t + r.budget) + c = 100 * (d + r.budget)
      BY <1>5, <1>8, <1>9
    <2>6. QED
      BY <1>1, <1>7, <2>1, <2>4, <2>5 DEF c
  <1>11. CASE u # r.user
    <2>1. W!Total(u, "DEBIT")' = d
      BY <1>2, <1>3, <1>8, <1>11, FlushTotals
    <2>2. {s \in creating' : s.user = u /\ s.at = "create"}
              = {s \in creating : s.user = u /\ s.at = "create"}
      BY <1>4, <1>11
    <2>3. Taken(u)' = Taken(u)
      BY <2>2 DEF Taken
    <2>4. QED
      BY <1>1, <1>7, <1>9, <2>1, <2>3
  <1>12. QED
    BY <1>10, <1>11

\* The campaign of request r is inserted: its cost replaces what was held for it.
LEMMA CreateAccounts ==
    ASSUME IInv, WP!IInv, Accounted, NEW r \in creating, CreateCampaign(r)
    PROVE  Accounted'
  <1>1. /\ r.at = "create" /\ creating' = creating \ {r} /\ campaigns' = Append(campaigns, RowFor(r))
        /\ UNCHANGED <<ledger, faults>>
    BY DEF CreateCampaign, Answered, walletVars
  <1>2. r \in Request /\ r.user \in Owners /\ r.budget \in Nat /\ campaigns \in Seq(Campaign)
    BY PositiveAmounts DEF IInv, Types, Request
  <1> DEFINE n == Len(campaigns)
             b == 100 * r.budget
  <1>3. b \in Nat
    BY <1>2
  <1>4. RowFor(r) \in Campaign /\ RowFor(r).user = r.user /\ RowFor(r).budget = b
    BY <1>2, <1>3 DEF RowFor, Campaign
  <1>5. /\ n \in Nat /\ DOMAIN campaigns = 1..n /\ DOMAIN campaigns' = 1..(n + 1)
        /\ \A i \in 1..n : campaigns'[i] = campaigns[i]
        /\ campaigns'[n + 1] = RowFor(r)
    BY <1>1, <1>2, <1>4, AppendFacts
  <1> HIDE DEF n, b
  <1>6. SUFFICES ASSUME NEW u \in Owners
                 PROVE  /\ IsFiniteSet(Costs(u)') /\ IsFiniteSet(Taken(u)')
                        /\ 100 * Cardinality(Taken(u)') + Cardinality(Costs(u)')
                               = 100 * Cardinality(Taken(u)) + Cardinality(Costs(u))
                        /\ W!Total(u, "DEBIT")' = W!Total(u, "DEBIT")
    BY <1>1 DEF Accounted
  <1>7. W!Total(u, "DEBIT")' = W!Total(u, "DEBIT")
    BY <1>1 DEF W!Total, W!Units
  <1>8. IsFiniteSet(Costs(u)) /\ IsFiniteSet(Taken(u))
    BY DEF Accounted
  <1>9. CASE u = r.user
    <2>1. {i \in DOMAIN campaigns' : campaigns'[i].user = u}
              = {i \in DOMAIN campaigns : campaigns[i].user = u} \union {n + 1}
      BY <1>4, <1>5, <1>9
    <2>2. Costs(u)' = Costs(u) \union ({n + 1} \X (1..b))
      BY <1>4, <1>5, <2>1 DEF Costs
    <2>3. n + 1 \notin DOMAIN campaigns
      BY <1>5
    <2>4. \A j : <<n + 1, j>> \notin Costs(u)
      BY <2>3 DEF Costs
    <2>5. IsFiniteSet(Costs(u)') /\ Cardinality(Costs(u)') = Cardinality(Costs(u)) + b
      <3> DEFINE S == Costs(u)
                 key == n + 1
                 a == b
      <3>1. IsFiniteSet(S) /\ a \in Nat /\ \A j : <<key, j>> \notin S
        BY <1>3, <1>8, <2>4
      <3> HIDE DEF S, key, a
      <3>2. /\ IsFiniteSet(S \union ({key} \X (1..a)))
            /\ Cardinality(S \union ({key} \X (1..a))) = Cardinality(S) + a
        BY <3>1, MoreUnits
      <3>3. QED
        BY <2>2, <3>2 DEF S, key, a
    <2>6. Taken(u) = Taken(u)' \union ({r} \X (1..r.budget))
      <3>1. {s \in creating : s.user = u /\ s.at = "create"}
                = {s \in creating' : s.user = u /\ s.at = "create"} \union {r}
        BY <1>1, <1>9
      <3>2. QED
        BY <3>1 DEF Taken
    <2>7. \A j : <<r, j>> \notin Taken(u)'
      BY <1>1 DEF Taken
    <2>8. IsFiniteSet(Taken(u)')
      BY <1>8, <2>6, FS_Subset
    <2>9. Cardinality(Taken(u)) = Cardinality(Taken(u)') + r.budget
      <3> DEFINE S == Taken(u)'
                 key == r
                 a == r.budget
      <3>1. IsFiniteSet(S) /\ a \in Nat /\ \A j : <<key, j>> \notin S
        BY <1>2, <2>7, <2>8
      <3> HIDE DEF S, key, a
      <3>2. /\ IsFiniteSet(S \union ({key} \X (1..a)))
            /\ Cardinality(S \union ({key} \X (1..a))) = Cardinality(S) + a
        BY <3>1, MoreUnits
      <3>3. QED
        BY <2>6, <3>2 DEF S, key, a
    <2> DEFINE c == Cardinality(Costs(u))
               left == Cardinality(Taken(u)')
    <2>10. c \in Nat /\ left \in Nat
      BY <1>8, <2>8, FS_CardinalityType
    <2> HIDE DEF c, left
    <2>11. 100 * left + (c + b) = 100 * (left + r.budget) + c
      BY <1>2, <2>10 DEF b
    <2>12. QED
      BY <1>7, <2>5, <2>8, <2>9, <2>11 DEF c, left
  <1>10. CASE u # r.user
    <2>1. {i \in DOMAIN campaigns' : campaigns'[i].user = u}
              = {i \in DOMAIN campaigns : campaigns[i].user = u}
      BY <1>4, <1>5, <1>10
    <2>2. Costs(u)' = Costs(u)
      BY <1>5, <2>1 DEF Costs
    <2>3. {s \in creating' : s.user = u /\ s.at = "create"}
              = {s \in creating : s.user = u /\ s.at = "create"}
      BY <1>1, <1>10
    <2>4. Taken(u)' = Taken(u)
      BY <2>3 DEF Taken
    <2>5. QED
      BY <1>7, <1>8, <2>2, <2>4
  <1>11. QED
    BY <1>9, <1>10

LEMMA InitAccounts == Init => Accounted
  <1> SUFFICES ASSUME Init, NEW u \in Owners
               PROVE  Costs(u) = {} /\ Taken(u) = {} /\ W!Total(u, "DEBIT") = 0
    BY FS_EmptySet DEF Accounted
  <1>1. DOMAIN campaigns = {} /\ DOMAIN ledger[u] = {} /\ creating = {}
    BY DEF Init, W!Init
  <1>2. W!Units(u, "DEBIT") = {}
    BY <1>1 DEF W!Units
  <1>3. W!Total(u, "DEBIT") = 0
    BY <1>2, SameSizes, FS_EmptySet DEF W!Total
  <1>4. QED
    BY <1>1, <1>3 DEF Costs, Taken

LEMMA NextAccounts ==
    ASSUME IInv, WP!IInv, Accounted, [Next]_vars
    PROVE  Accounted'
  <1>1. ASSUME NEW u \in Owners, NEW b \in Openings, OpenWallet(u, b)
        PROVE  Accounted'
    BY <1>1, UnpaidAccounts DEF OpenWallet, W!CreateWallet
  <1>2. CASE TopUp
    <2>1. UNCHANGED <<creating, campaigns, faults>>
      BY <1>2 DEF TopUp
    <2>2. ASSUME NEW t \in Tasks \ Busy, NEW u \in Owners, NEW a \in Amounts, NEW p \in Payments,
                 W!ReadForTopUp(t, u, a, p)
          PROVE  Accounted'
      BY <2>1, <2>2, UnpaidAccounts DEF W!ReadForTopUp, W!Read, W!rows
    <2>3. ASSUME NEW f \in inflight, f.type = "CREDIT", W!Flush(f)
          PROVE  Accounted'
      <3>1. \A u \in Owners : W!Total(u, "DEBIT")' = W!Total(u, "DEBIT")
        BY <2>3, FlushTotals
      <3>2. \A u \in Owners : Costs(u)' = Costs(u) /\ Taken(u)' = Taken(u)
        BY <2>1 DEF Costs, Taken
      <3>3. QED
        BY <2>1, <3>1, <3>2, SameAccounts
    <2>4. ASSUME NEW f \in inflight, W!RefuseSecondCredit(f)
          PROVE  Accounted'
      BY <2>1, <2>4, UnpaidAccounts DEF W!RefuseSecondCredit, W!rows
    <2>5. QED
      BY <1>2, <2>2, <2>3, <2>4 DEF TopUp
  <1>3. ASSUME NEW t \in Tasks, NEW u \in Owners, NEW b \in Amounts, Ask(t, u, b)
        PROVE  Accounted'
    BY <1>3, UnpaidAccounts DEF Ask, walletVars
  <1>4. ASSUME NEW r \in creating, ReadWallet(r)
        PROVE  Accounted'
    <2>1. /\ r.at = "deduct" /\ Move(r, "flush") /\ r \in Request
          /\ UNCHANGED <<ledger, campaigns, faults>>
      BY <1>4 DEF ReadWallet, W!ReadForDeduct, W!Read, W!rows, IInv, Types
    <2>2. PICK new \in Request : creating' = (creating \ {r}) \union {new} /\ new.at = "flush"
      BY <2>1, MoveFacts DEF Stages
    <2>3. QED
      BY <2>1, <2>2, UnpaidAccounts
  <1>5. ASSUME NEW r \in creating, RefuseDeduction(r)
        PROVE  Accounted'
    BY <1>5, UnpaidAccounts DEF RefuseDeduction, Answered, walletVars
  <1>6. ASSUME NEW r \in creating, DeductionFails(r) \/ CreateFails(r)
        PROVE  Accounted'
    <2>1. creating' \subseteq creating /\ UNCHANGED <<ledger, campaigns>> /\ faults' = faults + 1
      BY <1>6 DEF DeductionFails, CreateFails, Answered, walletVars, W!FlushFails, W!rows
    <2>2. faults' # 0
      BY <2>1, BoundIsNat DEF IInv, Types
    <2>3. QED
      BY <2>1, <2>2, LostAccounts
  <1>7. CASE Crash
    <2>1. creating' \subseteq creating /\ UNCHANGED <<ledger, campaigns>> /\ faults' = faults + 1
      BY <1>7 DEF Crash
    <2>2. faults' # 0
      BY <2>1, BoundIsNat DEF IInv, Types
    <2>3. QED
      BY <2>1, <2>2, LostAccounts
  <1>8. CASE UNCHANGED vars
    BY <1>8, UnpaidAccounts DEF vars, walletVars
  <1>9. QED
    BY <1>1, <1>2, <1>3, <1>4, <1>5, <1>6, <1>7, <1>8, FlushAccounts, CreateAccounts DEF Next

\* Where nothing overlaps, a wallet's money is all accounted for: what campaigns cost was
\* deducted (Accounted), and what was deducted was put in (MoneyMatches of WalletsProofs).
THEOREM EverythingIsAccountedFor == Spec => []MoneyAccountedFor
  <1>1. Init => Accounted
    BY InitAccounts
  <1>2. IInv /\ WP!IInv /\ Accounted /\ [Next]_vars => Accounted'
    BY NextAccounts
  <1>3. IInv /\ WP!IInv /\ Accounted => MoneyAccountedFor
    <2> SUFFICES ASSUME IInv, WP!IInv, Accounted, NEW u \in wallets \ overlapped
                 PROVE  LET put == 100 * (opening[u] + W!Total(u, "CREDIT"))
                            there == 100 * (balance[u] + Cardinality(Taken(u)))
                                         + Cardinality(Costs(u))
                        IN  there <= put /\ (faults = 0 => there = put)
      BY DEF MoneyAccountedFor
    <2> DEFINE o == opening[u]
               in == W!Total(u, "CREDIT")
               out == W!Total(u, "DEBIT")
               t == Cardinality(Taken(u))
               c == Cardinality(Costs(u))
    <2>1. u \in Owners /\ o \in Nat /\ balance[u] \in Nat
      BY DEF WP!IInv, WP!TypeOK
    <2>2. in \in Nat /\ out \in Nat /\ in = WP!Total(u, "CREDIT") /\ out = WP!Total(u, "DEBIT")
      BY <2>1, TotalIsNat
    <2>3. balance[u] = o + in - out
      BY <2>1, <2>2 DEF WP!IInv, WP!MoneyMatches
    <2>4. t \in Nat /\ c \in Nat
      BY <2>1, FS_CardinalityType DEF Accounted
    <2>5. 100 * t + c <= 100 * out /\ (faults = 0 => 100 * t + c = 100 * out)
      BY <2>1 DEF Accounted
    <2> HIDE DEF o, in, out, t, c
    <2>6. /\ 100 * (balance[u] + t) + c <= 100 * (o + in)
          /\ faults = 0 => 100 * (balance[u] + t) + c = 100 * (o + in)
      BY <2>1, <2>2, <2>3, <2>4, <2>5
    <2>7. QED
      BY <2>6 DEF o, in, t, c
  <1>4. QED
    BY <1>1, <1>2, <1>3, Invariance, PTL DEF Spec

\* What was deducted from a wallet that two calls never held at once was there.
BudgetsAreCovered ==
    \A u \in wallets \ overlapped : W!Total(u, "DEBIT") <= opening[u] + W!Total(u, "CREDIT")

\* What a user's campaigns were paid with was there, and a top-up comes once: what
\* WalletsProofs shows of the ledger holds where campaigns are created and paid for.
THEOREM WalletsAreSafe == Spec => [](W!CreditedOnce /\ BudgetsAreCovered)
  <1>1. WP!Spec => []WP!CreditedOnce
    BY WP!AtMostOneCredit, WalletAssumptions
  <1>2. WP!CreditedOnce => W!CreditedOnce
    BY DEF W!CreditedOnce, WP!CreditedOnce
  <1>3. ASSUME IInv, WP!IInv
        PROVE  BudgetsAreCovered
    <2> SUFFICES ASSUME NEW u \in wallets \ overlapped
                 PROVE  W!Total(u, "DEBIT") <= opening[u] + W!Total(u, "CREDIT")
      BY DEF BudgetsAreCovered
    <2>1. u \in Owners /\ opening[u] \in Nat /\ balance[u] \in Nat
      BY <1>3 DEF WP!IInv, WP!TypeOK
    <2>2. /\ W!Total(u, "DEBIT") \in Nat /\ W!Total(u, "CREDIT") \in Nat
          /\ balance[u] = opening[u] + W!Total(u, "CREDIT") - W!Total(u, "DEBIT")
      BY <1>3, <2>1, TotalIsNat DEF WP!IInv, WP!MoneyMatches
    <2>3. QED
      BY <2>1, <2>2
  <1>4. IInv /\ WP!IInv => BudgetsAreCovered
    BY <1>3
  <1>5. QED
    BY <1>1, <1>2, <1>4, Invariance, SameSpec, StepsAreWalletSteps, PTL DEF WalletSteps
=============================================================================
