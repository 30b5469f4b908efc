---------------------------- MODULE WalletsProofs ----------------------------
(***************************************************************************)
(* Proofs about Wallets, for any sets of owners, payments, amounts and     *)
(* concurrent calls.                                                       *)
(***************************************************************************)
EXTENDS Wallets, FiniteSetTheorems, TLAPS

\* A wallet is opened before anything happens to it.
NothingWithoutWallet ==
    /\ \A u \in Owners \ wallets : ledger[u] = <<>>
    /\ \A f \in inflight : f.owner \in wallets

\* What a call has read is a balance that was committed, and covers a deduction.
ReadsAreCommitted ==
    \A f \in inflight :
        /\ f.before \in BalancesUpTo(f.owner, Len(ledger[f.owner]))
        /\ f.type = "DEBIT" => f.before >= f.amount

\* A call on a wallet that was never shared is alone on it and up to date.
AloneAndFresh ==
    \A f \in inflight : f.owner \notin overlapped =>
        /\ f.before = balance[f.owner]
        /\ \A g \in inflight : g.owner = f.owner => g = f

\* MoneyConserved, over sets that are finite.
MoneyMatches ==
    \A u \in Owners :
        /\ IsFiniteSet(Units(u, "CREDIT")) /\ IsFiniteSet(Units(u, "DEBIT"))
        /\ u \notin overlapped => balance[u] = opening[u] + Total(u, "CREDIT") - Total(u, "DEBIT")

IInv ==
    /\ TypeOK
    /\ NothingWithoutWallet
    /\ ReadsAreCommitted
    /\ AloneAndFresh
    /\ BalanceIsLastAfter
    /\ RowsStartAtCommittedBalances
    /\ CreditedOnce
    /\ ChainedUnlessOverlapped
    /\ MoneyMatches

-----------------------------------------------------------------------------
\* What Append does to a sequence, as the provers use it below.
LEMMA AppendFacts ==
    ASSUME NEW S, NEW s \in Seq(S), NEW e \in S
    PROVE  /\ Append(s, e) \in Seq(S)
           /\ Append(s, e) # <<>>
           /\ Len(s) \in Nat
           /\ Len(Append(s, e)) = Len(s) + 1
           /\ DOMAIN s = 1..Len(s)
           /\ DOMAIN Append(s, e) = 1..(Len(s) + 1)
           /\ \A i \in 1..Len(s) : Append(s, e)[i] = s[i]
           /\ Append(s, e)[Len(s) + 1] = e
  OBVIOUS

\* The row a call flushes is a well-formed row: its balance is a natural number.
LEMMA RowOfIsRow ==
    ASSUME TypeOK, ReadsAreCommitted, NEW f \in inflight
    PROVE  RowOf(f) \in Row
  <1>1. f \in Call
    BY DEF TypeOK
  <1>2. f.amount \in Nat /\ f.before \in Nat
    BY <1>1, PositiveAmounts DEF Call
  <1>3. CASE f.type = "CREDIT"
    BY <1>1, <1>2, <1>3 DEF Call, Row, RowOf
  <1>4. CASE f.type = "DEBIT"
    <2>1. f.before >= f.amount
      BY <1>4 DEF ReadsAreCommitted
    <2>2. f.before - f.amount \in Nat
      BY <1>2, <2>1
    <2>3. QED
      BY <1>1, <1>2, <1>4, <2>2 DEF Call, Row, RowOf
  <1>5. QED
    BY <1>1, <1>3, <1>4 DEF Call

\* Without rows no money has moved.
LEMMA NoRowsNoUnits ==
    ASSUME NEW u \in Owners, DOMAIN ledger[u] = {}
    PROVE  Units(u, "CREDIT") = {} /\ Units(u, "DEBIT") = {}
  BY DEF Units

\* Before the first wallet there is nothing to get wrong.
LEMMA InitOK == Init => IInv
  <1> SUFFICES ASSUME Init PROVE IInv
    OBVIOUS
  <1>1. TypeOK
    BY DEF Init, TypeOK
  <1>2. NothingWithoutWallet /\ ReadsAreCommitted /\ AloneAndFresh
    BY DEF Init, NothingWithoutWallet, ReadsAreCommitted, AloneAndFresh
  <1>3. BalanceIsLastAfter
    BY DEF Init, BalanceIsLastAfter
  <1>4. \A u \in Owners : DOMAIN ledger[u] = {}
    BY DEF Init
  <1>5. RowsStartAtCommittedBalances /\ CreditedOnce /\ ChainedUnlessOverlapped
    BY <1>4 DEF RowsStartAtCommittedBalances, CreditedOnce, ChainedUnlessOverlapped
  <1>6. MoneyMatches
    <2> SUFFICES ASSUME NEW u \in Owners
                 PROVE  /\ IsFiniteSet(Units(u, "CREDIT")) /\ IsFiniteSet(Units(u, "DEBIT"))
                        /\ balance[u] = opening[u] + Total(u, "CREDIT") - Total(u, "DEBIT")
      BY DEF MoneyMatches
    <2>1. Units(u, "CREDIT") = {} /\ Units(u, "DEBIT") = {}
      BY <1>4, NoRowsNoUnits
    <2>2. Total(u, "CREDIT") = 0 /\ Total(u, "DEBIT") = 0
      BY <2>1, FS_EmptySet DEF Total
    <2>3. balance[u] = 0 /\ opening[u] = 0
      BY DEF Init
    <2>4. QED
      BY <2>1, <2>2, <2>3, FS_EmptySet
  <1>7. QED
    BY <1>1, <1>2, <1>3, <1>5, <1>6 DEF IInv

LEMMA CreateWalletOK ==
    ASSUME IInv, NEW u \in Owners, NEW b \in Openings, CreateWallet(u, b)
    PROVE  IInv'
  <1>0. b \in Nat
    BY NaturalOpenings
  <1>1. TypeOK'
    BY <1>0 DEF IInv, TypeOK, CreateWallet
  <1>2. ledger[u] = <<>> /\ \A f \in inflight : f.owner # u
    BY DEF IInv, NothingWithoutWallet, CreateWallet
  <1>3. /\ \A v \in Owners \ {u} : opening'[v] = opening[v] /\ balance'[v] = balance[v]
        /\ opening'[u] = b /\ balance'[u] = b
        /\ UNCHANGED <<ledger, inflight, overlapped>>
    BY DEF IInv, TypeOK, CreateWallet
  <1>4. NothingWithoutWallet'
    BY <1>3 DEF IInv, NothingWithoutWallet, CreateWallet
  <1>5. ReadsAreCommitted'
    <2> SUFFICES ASSUME NEW f \in inflight
                 PROVE  /\ f.before \in BalancesUpTo(f.owner, Len(ledger[f.owner]))'
                        /\ f.type = "DEBIT" => f.before >= f.amount
      BY <1>3 DEF ReadsAreCommitted
    <2>1. f.owner \in Owners \ {u}
      BY <1>2 DEF IInv, TypeOK, Call
    <2>2. BalancesUpTo(f.owner, Len(ledger[f.owner]))' = BalancesUpTo(f.owner, Len(ledger[f.owner]))
      BY <1>3, <2>1 DEF BalancesUpTo
    <2>3. QED
      BY <2>2 DEF IInv, ReadsAreCommitted
  <1>6. AloneAndFresh'
    BY <1>2, <1>3 DEF IInv, TypeOK, Call, AloneAndFresh
  <1>7. BalanceIsLastAfter'
    BY <1>2, <1>3 DEF IInv, BalanceIsLastAfter
  <1>8. RowsStartAtCommittedBalances'
    <2> SUFFICES ASSUME NEW v \in Owners, NEW i \in DOMAIN ledger[v]
                 PROVE  ledger[v][i].before \in BalancesUpTo(v, i - 1)'
      BY <1>3 DEF RowsStartAtCommittedBalances
    <2>1. v # u
      BY <1>2
    <2>2. BalancesUpTo(v, i - 1)' = BalancesUpTo(v, i - 1)
      BY <1>3, <2>1 DEF BalancesUpTo
    <2>3. QED
      BY <2>2 DEF IInv, RowsStartAtCommittedBalances
  <1>9. CreditedOnce'
    BY <1>3 DEF IInv, CreditedOnce
  <1>10. ChainedUnlessOverlapped'
    BY <1>2, <1>3 DEF IInv, ChainedUnlessOverlapped
  <1>11. MoneyMatches'
    <2>1. \A v, type : Units(v, type)' = Units(v, type) /\ Total(v, type)' = Total(v, type)
      BY <1>3 DEF Units, Total
    <2>2. Total(u, "CREDIT") = 0 /\ Total(u, "DEBIT") = 0
      <3>1. DOMAIN ledger[u] = {}
        BY <1>2
      <3>2. QED
        BY <3>1, NoRowsNoUnits, FS_EmptySet DEF Total
    <2>3. QED
      BY <1>0, <1>3, <2>1, <2>2 DEF IInv, MoneyMatches
  <1>12. QED
    BY <1>1, <1>4, <1>5, <1>6, <1>7, <1>8, <1>9, <1>10, <1>11 DEF IInv

\* The balance of a wallet is one of the balances it has had.
LEMMA CurrentBalanceIsCommitted ==
    ASSUME TypeOK, BalanceIsLastAfter, NEW u \in Owners
    PROVE  balance[u] \in BalancesUpTo(u, Len(ledger[u]))
  <1>1. ledger[u] \in Seq(Row)
    BY DEF TypeOK
  <1>2. CASE ledger[u] = <<>>
    BY <1>2 DEF BalanceIsLastAfter, BalancesUpTo
  <1>3. CASE ledger[u] # <<>>
    <2>1. Len(ledger[u]) \in 1..Len(ledger[u])
      BY <1>1, <1>3
    <2>2. QED
      BY <1>3, <2>1 DEF BalanceIsLastAfter, BalancesUpTo
  <1>4. QED
    BY <1>2, <1>3

\* Reading a wallet, for a top-up or for a deduction its balance covers.
\* A step that writes no row moves no money.
LEMMA SameRowsSameMoney ==
    ASSUME IInv, UNCHANGED <<wallets, opening, balance, ledger>>, overlapped \subseteq overlapped'
    PROVE  MoneyMatches'
  <1>1. \A u, type : Units(u, type)' = Units(u, type) /\ Total(u, type)' = Total(u, type)
    BY DEF Units, Total
  <1>2. QED
    BY <1>1 DEF IInv, MoneyMatches

LEMMA ReadOK ==
    ASSUME IInv, NEW c \in Calls, NEW type \in {"CREDIT", "DEBIT"}, NEW u \in Owners,
           NEW a \in Amounts, NEW p \in Payments \union {NoPayment},
           type = "DEBIT" => balance[u] >= a,
           Read(c, type, u, a, p)
    PROVE  IInv'
  <1> DEFINE new == [call |-> c, type |-> type, owner |-> u, amount |-> a,
                     before |-> balance[u], payment |-> p]
  <1>1. /\ inflight' = inflight \union {new}
        /\ UNCHANGED rows
        /\ u \in wallets
    BY DEF Read
  <1>2. new \in Call
    BY DEF IInv, TypeOK, Call
  <1>3. overlapped \subseteq overlapped' /\ overlapped' \subseteq overlapped \union {u}
    BY DEF Read
  <1>4. (\E f \in inflight : f.owner = u) => u \in overlapped'
    BY DEF Read
  <1>5. TypeOK'
    BY <1>1, <1>2, <1>3 DEF IInv, TypeOK, rows
  <1>6. NothingWithoutWallet'
    BY <1>1 DEF IInv, NothingWithoutWallet, rows
  <1>7. ReadsAreCommitted'
    <2>1. new.before \in BalancesUpTo(new.owner, Len(ledger[new.owner]))
      BY CurrentBalanceIsCommitted DEF IInv
    <2>2. \A v, n : BalancesUpTo(v, n)' = BalancesUpTo(v, n)
      BY <1>1 DEF BalancesUpTo, rows
    <2>3. QED
      BY <1>1, <2>1, <2>2 DEF IInv, ReadsAreCommitted, rows
  <1>8. AloneAndFresh'
    <2> SUFFICES ASSUME NEW f \in inflight', f.owner \notin overlapped'
                 PROVE  /\ f.before = balance[f.owner]
                        /\ \A g \in inflight' : g.owner = f.owner => g = f
      BY <1>1 DEF AloneAndFresh, rows
    <2>1. CASE f = new
      BY <1>1, <1>4, <2>1
    <2>2. CASE f \in inflight
      <3>1. f.owner # u
        BY <1>4, <2>2
      <3>2. QED
        BY <1>1, <1>3, <2>2, <3>1 DEF IInv, AloneAndFresh
    <2>3. QED
      BY <1>1, <2>1, <2>2
  <1>9. BalanceIsLastAfter' /\ CreditedOnce'
    BY <1>1 DEF IInv, BalanceIsLastAfter, CreditedOnce, rows
  <1>10. RowsStartAtCommittedBalances'
    BY <1>1 DEF IInv, RowsStartAtCommittedBalances, BalancesUpTo, rows
  <1>11. ChainedUnlessOverlapped'
    BY <1>1, <1>3 DEF IInv, ChainedUnlessOverlapped, rows
  <1>12. MoneyMatches'
    BY <1>1, <1>3, SameRowsSameMoney DEF rows
  <1>13. QED
    BY <1>5, <1>6, <1>7, <1>8, <1>9, <1>10, <1>11, <1>12 DEF IInv

\* Calls that end without writing: a refused second credit, a failed flush, a crash.
LEMMA DropOK ==
    ASSUME IInv, inflight' \subseteq inflight, UNCHANGED <<rows, overlapped>>
    PROVE  IInv'
  <1>1. TypeOK' /\ NothingWithoutWallet' /\ AloneAndFresh'
    BY DEF IInv, TypeOK, NothingWithoutWallet, AloneAndFresh, rows
  <1>2. ReadsAreCommitted'
    BY DEF IInv, ReadsAreCommitted, BalancesUpTo, rows
  <1>3. BalanceIsLastAfter' /\ CreditedOnce' /\ ChainedUnlessOverlapped'
    BY DEF IInv, BalanceIsLastAfter, CreditedOnce, ChainedUnlessOverlapped, rows
  <1>4. RowsStartAtCommittedBalances'
    BY DEF IInv, RowsStartAtCommittedBalances, BalancesUpTo, rows
  <1>5. MoneyMatches'
    BY SameRowsSameMoney DEF rows
  <1>6. QED
    BY <1>1, <1>2, <1>3, <1>4, <1>5 DEF IInv
-----------------------------------------------------------------------------
\* What a flush does to the rows.
LEMMA FlushFacts ==
    ASSUME IInv, NEW f \in inflight, Flush(f)
    PROVE  /\ f \in Call /\ RowOf(f) \in Row
           /\ f.owner \in Owners /\ f.owner \in wallets
           /\ ledger[f.owner] \in Seq(Row)
           /\ ledger'[f.owner] = Append(ledger[f.owner], RowOf(f))
           /\ balance'[f.owner] = RowOf(f).after
           /\ \A v \in Owners \ {f.owner} : ledger'[v] = ledger[v] /\ balance'[v] = balance[v]
           /\ inflight' = inflight \ {f}
           /\ UNCHANGED <<wallets, opening, overlapped>>
           /\ f.payment \notin Posted
  <1>1. f \in Call /\ f.owner \in Owners /\ f.owner \in wallets
    BY DEF IInv, TypeOK, Call, NothingWithoutWallet
  <1>2. RowOf(f) \in Row
    BY RowOfIsRow DEF IInv
  <1>3. ledger \in [Owners -> Seq(Row)] /\ balance \in [Owners -> Nat]
    BY DEF IInv, TypeOK
  <1>4. QED
    BY <1>1, <1>2, <1>3 DEF Flush

\* Rows that were there before a flush stay, and so do the balances up to them.
LEMMA FlushKeepsRows ==
    ASSUME IInv, NEW f \in inflight, Flush(f), NEW v \in Owners
    PROVE  /\ DOMAIN ledger[v] \subseteq DOMAIN ledger'[v]
           /\ DOMAIN ledger[v] = 1..Len(ledger[v])
           /\ Len(ledger[v]) \in Nat
           /\ Len(ledger[v]) <= Len(ledger'[v])
           /\ \A i \in DOMAIN ledger[v] : ledger'[v][i] = ledger[v][i]
           /\ \A n \in 0..Len(ledger[v]) : BalancesUpTo(v, n)' = BalancesUpTo(v, n)
  <1>1. ledger[v] \in Seq(Row)
    BY DEF IInv, TypeOK
  <1>2. /\ DOMAIN ledger[v] \subseteq DOMAIN ledger'[v]
        /\ DOMAIN ledger[v] = 1..Len(ledger[v])
        /\ Len(ledger[v]) \in Nat
        /\ Len(ledger[v]) <= Len(ledger'[v])
        /\ \A i \in DOMAIN ledger[v] : ledger'[v][i] = ledger[v][i]
    <2>1. CASE v = f.owner
      BY <1>1, <2>1, FlushFacts, AppendFacts
    <2>2. CASE v # f.owner
      BY <1>1, <2>2, FlushFacts
    <2>3. QED
      BY <2>1, <2>2
  <1>3. ASSUME NEW n \in 0..Len(ledger[v])
        PROVE  BalancesUpTo(v, n)' = BalancesUpTo(v, n)
    <2>1. \A i \in 1..n : i \in DOMAIN ledger[v]
      BY <1>2
    <2>2. opening' = opening
      BY FlushFacts
    <2>3. {ledger'[v][i].after : i \in 1..n} = {ledger[v][i].after : i \in 1..n}
      BY <1>2, <2>1
    <2>4. QED
      BY <2>2, <2>3 DEF BalancesUpTo
  <1>4. QED
    BY <1>2, <1>3

\* A flush moves the units of its amount, of its type, and no others.
LEMMA FlushMovesUnits ==
    ASSUME IInv, NEW f \in inflight, Flush(f), NEW type \in {"CREDIT", "DEBIT"}
    PROVE  /\ IsFiniteSet(Units(f.owner, type)')
           /\ Total(f.owner, type)' =
                  Total(f.owner, type) + IF f.type = type THEN f.amount ELSE 0
  <1> DEFINE u == f.owner
             n == Len(ledger[u])
             new == {n + 1} \X (1..f.amount)
  <1>1. /\ ledger[u] \in Seq(Row) /\ RowOf(f) \in Row /\ u \in Owners
        /\ ledger'[u] = Append(ledger[u], RowOf(f)) /\ f.amount \in Nat
    BY FlushFacts, PositiveAmounts DEF Call
  <1>2. /\ n \in Nat /\ DOMAIN ledger[u] = 1..n /\ DOMAIN ledger'[u] = 1..(n + 1)
        /\ \A i \in 1..n : ledger'[u][i] = ledger[u][i]
        /\ ledger'[u][n + 1] = RowOf(f)
    BY <1>1, AppendFacts
  <1>3. IsFiniteSet(Units(u, type)) /\ Total(u, type) \in Nat
    BY <1>1, FS_CardinalityType DEF IInv, MoneyMatches, Total
  <1>4. \A i, k : <<i, k>> \in Units(u, type) <=>
            i \in 1..n /\ ledger[u][i].type = type /\ k \in 1..ledger[u][i].amount
    BY <1>2 DEF Units
  <1>5. \A i, k : <<i, k>> \in Units(u, type)' <=>
            i \in 1..(n + 1) /\ ledger'[u][i].type = type /\ k \in 1..ledger'[u][i].amount
    BY <1>2 DEF Units
  <1>6. /\ \A p \in Units(u, type) : p = <<p[1], p[2]>>
        /\ \A p \in Units(u, type)' : p = <<p[1], p[2]>>
    BY DEF Units
  <1>7. RowOf(f).type = f.type /\ RowOf(f).amount = f.amount
    BY DEF RowOf
  <1>8. \A i : i \in 1..(n + 1) <=> i \in 1..n \/ i = n + 1
    BY <1>2
  <1>9. CASE f.type # type
    <2>1. \A i, k : <<i, k>> \in Units(u, type)' <=> <<i, k>> \in Units(u, type)
      BY <1>2, <1>4, <1>5, <1>7, <1>8, <1>9
    <2>2. Units(u, type)' = Units(u, type)
      BY <1>6, <2>1
    <2>3. QED
      BY <1>3, <1>9, <2>2 DEF Total
  <1>10. CASE f.type = type
    <2>1. \A i, k : <<i, k>> \in Units(u, type)' <=>
              <<i, k>> \in Units(u, type) \/ (i = n + 1 /\ k \in 1..f.amount)
      BY <1>2, <1>4, <1>5, <1>7, <1>8, <1>10
    <2>2. Units(u, type)' = Units(u, type) \union new
      BY <1>6, <2>1
    <2>3. Units(u, type) \intersect new = {}
      <3>1. n + 1 \notin 1..n
        BY <1>2
      <3>2. QED
        BY <1>4, <3>1
    <2>4. IsFiniteSet(new) /\ Cardinality(new) = f.amount
      <3>1. IsFiniteSet({n + 1}) /\ Cardinality({n + 1}) = 1
        BY FS_Singleton
      <3>2. IsFiniteSet(1..f.amount) /\ Cardinality(1..f.amount) = f.amount
        <4> DEFINE a == f.amount
        <4>1. a \in Nat
          BY <1>1
        <4> HIDE DEF a
        <4>2. IsFiniteSet(1..a) /\ Cardinality(1..a) = IF 1 > a THEN 0 ELSE a - 1 + 1
          BY <4>1, FS_Interval
        <4>3. IsFiniteSet(1..a) /\ Cardinality(1..a) = a
          BY <4>1, <4>2
        <4>4. QED
          BY <4>3 DEF a
      <3>3. QED
        BY <1>1, <3>1, <3>2, FS_Product
    <2> HIDE DEF new
    <2>5. /\ IsFiniteSet(Units(u, type) \union new)
          /\ Cardinality(Units(u, type) \union new) = Cardinality(Units(u, type)) + f.amount
      <3>1. Cardinality({}) = 0
        BY FS_EmptySet
      <3>2. QED
        <4> DEFINE old == Units(u, type)
        <4>1. IsFiniteSet(old) /\ Cardinality(old) \in Nat /\ Cardinality(old \intersect new) = 0
          BY <1>3, <2>3, <3>1 DEF Total
        <4> HIDE DEF old
        <4>2. /\ IsFiniteSet(old \union new)
              /\ Cardinality(old \union new) = Cardinality(old) + Cardinality(new) - Cardinality(old \intersect new)
          BY <2>4, <4>1, FS_Union
        <4>3. QED
          BY <1>1, <2>4, <4>1, <4>2 DEF old
    <2>6. QED
      BY <1>10, <2>2, <2>5 DEF Total
  <1>11. QED
    BY <1>9, <1>10

LEMMA FlushOK ==
    ASSUME IInv, NEW f \in inflight, Flush(f)
    PROVE  IInv'
  <1> DEFINE u == f.owner
             n == Len(ledger[u])
  <1>1. /\ ledger'[u] = Append(ledger[u], RowOf(f))
        /\ balance'[u] = RowOf(f).after
        /\ \A v \in Owners \ {u} : ledger'[v] = ledger[v] /\ balance'[v] = balance[v]
        /\ inflight' = inflight \ {f}
        /\ wallets' = wallets /\ opening' = opening /\ overlapped' = overlapped
        /\ f \in Call /\ RowOf(f) \in Row /\ u \in Owners /\ u \in wallets
    BY FlushFacts
  <1>2. /\ n \in Nat
        /\ DOMAIN ledger[u] = 1..n
        /\ DOMAIN ledger'[u] = 1..(n + 1)
        /\ Len(ledger'[u]) = n + 1
        /\ ledger'[u] # <<>>
        /\ \A i \in 1..n : ledger'[u][i] = ledger[u][i]
        /\ ledger'[u][n + 1] = RowOf(f)
    BY <1>1, FlushFacts, AppendFacts
  <1>3. /\ RowOf(f).before = f.before
        /\ RowOf(f).payment = f.payment
        /\ RowOf(f).after \in Nat
    BY <1>1 DEF RowOf, Row
  <1>4. TypeOK'
    <2>1. balance' \in [Owners -> Nat]
      BY <1>1, <1>3 DEF IInv, TypeOK, Flush
    <2>2. ledger' \in [Owners -> Seq(Row)]
      BY <1>1, FlushFacts, AppendFacts DEF IInv, TypeOK, Flush
    <2>3. QED
      BY <1>1, <2>1, <2>2 DEF IInv, TypeOK
  <1>5. NothingWithoutWallet'
    BY <1>1 DEF IInv, NothingWithoutWallet
  <1>6. ReadsAreCommitted'
    <2> SUFFICES ASSUME NEW g \in inflight'
                 PROVE  /\ g.before \in BalancesUpTo(g.owner, Len(ledger[g.owner]))'
                        /\ g.type = "DEBIT" => g.before >= g.amount
      BY DEF ReadsAreCommitted
    <2>1. g \in inflight /\ g.owner \in Owners
      BY <1>1 DEF IInv, TypeOK, Call
    <2>2. g.before \in BalancesUpTo(g.owner, Len(ledger[g.owner]))
      BY <2>1 DEF IInv, ReadsAreCommitted
    <2>3. g.before \in BalancesUpTo(g.owner, Len(ledger[g.owner]))'
      <3>1. PICK k \in Nat : k = Len(ledger[g.owner])
        BY <2>1, FlushKeepsRows
      <3>2. /\ BalancesUpTo(g.owner, k)' = BalancesUpTo(g.owner, k)
            /\ k <= Len(ledger'[g.owner])
        BY <2>1, <3>1, FlushKeepsRows
      <3>3. Len(ledger'[g.owner]) \in Nat
        BY <1>4, <2>1 DEF TypeOK
      <3>4. 1..k \subseteq 1..Len(ledger'[g.owner])
        BY <3>2, <3>3
      <3>5. g.before \in BalancesUpTo(g.owner, k)'
        BY <2>2, <3>1, <3>2
      <3>6. QED
        BY <3>4, <3>5 DEF BalancesUpTo
    <2>4. QED
      BY <2>1, <2>3 DEF IInv, ReadsAreCommitted
  <1>7. AloneAndFresh'
    BY <1>1 DEF IInv, TypeOK, Call, AloneAndFresh
  <1>8. BalanceIsLastAfter'
    BY <1>1, <1>2 DEF IInv, BalanceIsLastAfter
  <1>9. RowsStartAtCommittedBalances'
    <2> SUFFICES ASSUME NEW v \in Owners, NEW i \in DOMAIN ledger'[v]
                 PROVE  ledger'[v][i].before \in BalancesUpTo(v, i - 1)'
      BY DEF RowsStartAtCommittedBalances
    <2>1. CASE i \in DOMAIN ledger[v]
      <3>1. i - 1 \in 0..Len(ledger[v])
        BY <2>1, FlushKeepsRows
      <3>2. ledger'[v][i] = ledger[v][i] /\ BalancesUpTo(v, i - 1)' = BalancesUpTo(v, i - 1)
        BY <2>1, <3>1, FlushKeepsRows
      <3>3. QED
        BY <2>1, <3>2 DEF IInv, RowsStartAtCommittedBalances
    <2>2. CASE i \notin DOMAIN ledger[v]
      <3>1. v = u /\ i = n + 1
        BY <1>1, <1>2, <2>2
      <3>2. i - 1 = Len(ledger[v]) /\ i - 1 \in 0..Len(ledger[v])
        BY <1>2, <3>1
      <3>3. f.before \in BalancesUpTo(v, i - 1)
        BY <3>1, <3>2 DEF IInv, ReadsAreCommitted
      <3>4. BalancesUpTo(v, i - 1)' = BalancesUpTo(v, i - 1)
        BY <3>2, FlushKeepsRows
      <3>5. QED
        BY <1>2, <1>3, <3>1, <3>3, <3>4
    <2>3. QED
      BY <2>1, <2>2
  <1>10. CreditedOnce'
    <2> SUFFICES ASSUME NEW v \in Owners, NEW w \in Owners,
                        NEW i \in DOMAIN ledger'[v], NEW j \in DOMAIN ledger'[w],
                        ledger'[v][i].payment = ledger'[w][j].payment,
                        ledger'[v][i].payment # NoPayment
                 PROVE  v = w /\ i = j
      BY DEF CreditedOnce
    <2>1. f.payment \in Payments \union {NoPayment}
      BY <1>1 DEF Call
    <2>2. ASSUME NEW x \in Owners, NEW k \in DOMAIN ledger'[x],
                 k \in DOMAIN ledger[x], ledger'[x][k].payment # NoPayment
          PROVE  ledger'[x][k].payment # f.payment
      BY <2>1, <2>2, FlushFacts, FlushKeepsRows DEF Posted
    <2>3. ASSUME NEW x \in Owners, NEW k \in DOMAIN ledger'[x], k \notin DOMAIN ledger[x]
          PROVE  x = u /\ k = n + 1 /\ ledger'[x][k].payment = f.payment
      BY <1>1, <1>2, <1>3, <2>3
    <2>4. CASE i \in DOMAIN ledger[v] /\ j \in DOMAIN ledger[w]
      BY <2>4, FlushKeepsRows DEF IInv, CreditedOnce
    <2>5. CASE i \notin DOMAIN ledger[v] /\ j \notin DOMAIN ledger[w]
      BY <2>3, <2>5
    <2>6. CASE i \in DOMAIN ledger[v] /\ j \notin DOMAIN ledger[w]
      BY <2>2, <2>3, <2>6
    <2>7. CASE i \notin DOMAIN ledger[v] /\ j \in DOMAIN ledger[w]
      BY <2>2, <2>3, <2>7
    <2>8. QED
      BY <2>4, <2>5, <2>6, <2>7
  <1>11. ChainedUnlessOverlapped'
    <2> SUFFICES ASSUME NEW v \in Owners \ overlapped, NEW i \in DOMAIN ledger'[v]
                 PROVE  ledger'[v][i].before =
                          IF i = 1 THEN opening[v] ELSE ledger'[v][i - 1].after
      BY <1>1 DEF ChainedUnlessOverlapped
    <2>1. CASE i \in DOMAIN ledger[v]
      <3>1. i = 1 \/ i - 1 \in DOMAIN ledger[v]
        BY <2>1, FlushKeepsRows
      <3>2. QED
        BY <2>1, <3>1, FlushKeepsRows DEF IInv, ChainedUnlessOverlapped
    <2>2. CASE i \notin DOMAIN ledger[v]
      <3>1. v = u /\ i = n + 1
        BY <1>1, <1>2, <2>2
      <3>2. ledger'[v][i].before = balance[u]
        BY <1>2, <1>3, <3>1 DEF IInv, AloneAndFresh
      <3>3. CASE n = 0
        <4>1. ledger[u] = <<>>
          BY <1>1, <3>3 DEF IInv, TypeOK
        <4>2. QED
          BY <1>1, <3>1, <3>2, <3>3, <4>1 DEF IInv, BalanceIsLastAfter
      <3>4. CASE n # 0
        <4>1. ledger[u] # <<>> /\ n \in 1..n
          BY <1>2, <3>4
        <4>2. balance[u] = ledger'[u][n].after
          BY <1>1, <1>2, <4>1 DEF IInv, BalanceIsLastAfter
        <4>3. i # 1 /\ i - 1 = n
          BY <1>2, <3>1, <3>4
        <4>4. QED
          BY <3>1, <3>2, <4>2, <4>3
      <3>5. QED
        BY <3>3, <3>4
    <2>3. QED
      BY <2>1, <2>2
  <1>12. MoneyMatches'
    <2> SUFFICES ASSUME NEW v \in Owners
                 PROVE  /\ IsFiniteSet(Units(v, "CREDIT")') /\ IsFiniteSet(Units(v, "DEBIT")')
                        /\ v \notin overlapped =>
                               balance'[v] = opening[v] + Total(v, "CREDIT")' - Total(v, "DEBIT")'
      BY <1>1 DEF MoneyMatches
    <2>1. CASE v # u
      <3>1. ledger'[v] = ledger[v] /\ balance'[v] = balance[v]
        BY <1>1, <2>1
      <3>2. \A type : Units(v, type)' = Units(v, type)
        BY <3>1 DEF Units
      <3>3. QED
        BY <3>1, <3>2 DEF IInv, MoneyMatches, Total
    <2>2. CASE v = u
      <3> DEFINE credit == Total(u, "CREDIT")
                 debit == Total(u, "DEBIT")
      <3>1. /\ IsFiniteSet(Units(u, "CREDIT")) /\ IsFiniteSet(Units(u, "DEBIT"))
            /\ credit \in Nat /\ debit \in Nat
        BY <1>1, FS_CardinalityType DEF IInv, MoneyMatches, Total
      <3>2. ASSUME NEW type \in {"CREDIT", "DEBIT"}
            PROVE  /\ IsFiniteSet(Units(u, type)')
                   /\ Total(u, type)' = Total(u, type) + IF f.type = type THEN f.amount ELSE 0
        BY <1>1, <3>1, <3>2, FlushMovesUnits
      <3>3. ASSUME u \notin overlapped
            PROVE  balance'[u] = opening[u] + Total(u, "CREDIT")' - Total(u, "DEBIT")'
        <4>1. balance[u] = opening[u] + credit - debit /\ f.before = balance[u]
          BY <1>1, <3>3 DEF IInv, MoneyMatches, AloneAndFresh
        <4>2. opening[u] \in Nat /\ f.amount \in Nat /\ f.type \in {"CREDIT", "DEBIT"}
          BY <1>1, PositiveAmounts DEF IInv, TypeOK, Call
        <4>3. CASE f.type = "CREDIT"
          <5>1. Total(u, "CREDIT")' = credit + f.amount /\ Total(u, "DEBIT")' = debit
            BY <3>1, <3>2, <4>3
          <5>2. balance'[u] = f.before + f.amount
            BY <1>1, <4>3 DEF RowOf
          <5> HIDE DEF credit, debit
          <5>3. QED
            BY <3>1, <4>1, <4>2, <5>1, <5>2
        <4>4. CASE f.type = "DEBIT"
          <5>1. Total(u, "CREDIT")' = credit /\ Total(u, "DEBIT")' = debit + f.amount
            BY <3>1, <3>2, <4>4
          <5>2. balance'[u] = f.before - f.amount
            BY <1>1, <4>4 DEF RowOf
          <5> HIDE DEF credit, debit
          <5>3. QED
            BY <3>1, <4>1, <4>2, <5>1, <5>2
        <4>5. QED
          BY <4>2, <4>3, <4>4
      <3>4. QED
        BY <2>2, <3>2, <3>3
    <2>3. QED
      BY <2>1, <2>2
  <1>13. QED
    BY <1>4, <1>5, <1>6, <1>7, <1>8, <1>9, <1>10, <1>11, <1>12 DEF IInv
-----------------------------------------------------------------------------
\* Every step keeps the invariant.
LEMMA NextOK == IInv /\ [Next]_vars => IInv'
  <1> SUFFICES ASSUME IInv, [Next]_vars PROVE IInv'
    OBVIOUS
  <1>1. ASSUME NEW u \in Owners, NEW b \in Openings, CreateWallet(u, b)
        PROVE  IInv'
    BY <1>1, CreateWalletOK
  <1>2. ASSUME NEW c \in Calls, NEW u \in Owners, NEW a \in Amounts, NEW p \in Payments,
               ReadForTopUp(c, u, a, p)
        PROVE  IInv'
    <2>1. Read(c, "CREDIT", u, a, p)
      BY <1>2 DEF ReadForTopUp
    <2>2. QED
      BY <2>1, ReadOK
  <1>3. ASSUME NEW c \in Calls, NEW u \in Owners, NEW a \in Amounts, ReadForDeduct(c, u, a)
        PROVE  IInv'
    <2>1. Read(c, "DEBIT", u, a, NoPayment) /\ balance[u] >= a
      BY <1>3 DEF ReadForDeduct
    <2>2. QED
      BY <2>1, ReadOK
  <1>4. ASSUME NEW f \in inflight, Flush(f)
        PROVE  IInv'
    BY <1>4, FlushOK
  <1>5. ASSUME NEW f \in inflight, RefuseSecondCredit(f) \/ FlushFails(f)
        PROVE  IInv'
    BY <1>5, DropOK DEF RefuseSecondCredit, FlushFails
  <1>6. CASE Crash
    BY <1>6, DropOK DEF Crash
  <1>7. CASE UNCHANGED vars
    BY <1>7, DropOK DEF vars, rows
  <1>8. QED
    BY <1>1, <1>2, <1>3, <1>4, <1>5, <1>6, <1>7 DEF Next, Begin, End

LEMMA Invariance == Spec => []IInv
  BY InitOK, NextOK, PTL DEF Spec

\* Every variable keeps its type; in particular no balance and no row of a ledger
\* is ever negative, although deductFromWallet checks a balance that may be stale.
THEOREM TypeCorrect == Spec => []TypeOK
  <1>1. IInv => TypeOK
    BY DEF IInv
  <1>2. QED
    BY <1>1, Invariance, PTL

\* The balance shown is always the one the last row of the ledger ends at.
THEOREM StatementAgreesWithBalance == Spec => []BalanceIsLastAfter
  <1>1. IInv => BalanceIsLastAfter
    BY DEF IInv
  <1>2. QED
    BY <1>1, Invariance, PTL

\* No row starts from a balance that was never committed.
THEOREM NoDirtySnapshot == Spec => []RowsStartAtCommittedBalances
  <1>1. IInv => RowsStartAtCommittedBalances
    BY DEF IInv
  <1>2. QED
    BY <1>1, Invariance, PTL

\* A payment is credited to at most one wallet, at most once.
THEOREM AtMostOneCredit == Spec => []CreditedOnce
  <1>1. IInv => CreditedOnce
    BY DEF IInv
  <1>2. QED
    BY <1>1, Invariance, PTL

\* Updates of a wallet are lost only when two calls hold it at once.
THEOREM LostOnlyByOverlap == Spec => []ChainedUnlessOverlapped
  <1>1. IInv => ChainedUnlessOverlapped
    BY DEF IInv
  <1>2. QED
    BY <1>1, Invariance, PTL

\* No money is made or destroyed, except where two calls hold a wallet at once.
THEOREM MoneyIsConserved == Spec => []MoneyConserved
  <1>1. IInv => MoneyConserved
    BY DEF IInv, TypeOK, MoneyMatches, MoneyConserved
  <1>2. QED
    BY <1>1, Invariance, PTL

\* What was deducted from a wallet was covered by what was put in.
Covered(u) == Total(u, "DEBIT") <= opening[u] + Total(u, "CREDIT")

\* What deductFromWallet's refusal promises ("balance is insufficient") is true of every
\* wallet that two calls never held at once.  DeductionsCovered of MCWallets, which
\* fails, says it of every wallet.
THEOREM CoveredUnlessOverlapped == Spec => [](\A u \in wallets \ overlapped : Covered(u))
  <1>1. ASSUME IInv, NEW u \in wallets \ overlapped
        PROVE  Covered(u)
    <2>1. u \in Owners /\ balance[u] \in Nat /\ opening[u] \in Nat
      BY <1>1 DEF IInv, TypeOK
    <2>2. Total(u, "CREDIT") \in Nat /\ Total(u, "DEBIT") \in Nat
      BY <1>1, <2>1, FS_CardinalityType DEF IInv, MoneyMatches, Total
    <2>3. balance[u] = opening[u] + Total(u, "CREDIT") - Total(u, "DEBIT")
      BY <1>1, <2>1 DEF IInv, MoneyMatches
    <2>4. QED
      BY <2>1, <2>2, <2>3 DEF Covered
  <1>2. IInv => \A u \in wallets \ overlapped : Covered(u)
    BY <1>1
  <1>3. QED
    BY <1>2, Invariance, PTL

\* The repository implements the ledger it promises: every flush is one posting
\* that starts at a balance the wallet has had, and nothing else touches the rows.
THEOREM Implements == Spec => KeepsPromise
  <1>1. Init => Promise!Init
    BY DEF Init, Promise!Init
  <1>2. IInv /\ [Next]_vars => [Promise!Next]_Promise!vars
    <2> SUFFICES ASSUME IInv, [Next]_vars
                 PROVE  Promise!Next \/ UNCHANGED rows
      BY DEF rows, Promise!vars
    <2>1. ASSUME NEW u \in Owners, NEW b \in Openings, CreateWallet(u, b)
          PROVE  Promise!Next
      BY <2>1 DEF CreateWallet, Promise!Open, Promise!Next
    <2>2. ASSUME NEW f \in inflight, Flush(f)
          PROVE  Promise!Next
      <3>1. /\ f.type \in {"CREDIT", "DEBIT"} /\ f.amount \in Amounts
            /\ f.payment \in Payments \union {NoPayment} /\ f.owner \in Owners
        BY <2>2, FlushFacts DEF Call
      <3>2. f.before \in Promise!BalancesUpTo(f.owner, Len(ledger[f.owner]))
        BY DEF IInv, ReadsAreCommitted, BalancesUpTo, Promise!BalancesUpTo
      <3>3. f.payment \notin Promise!Posted
        BY <2>2, FlushFacts DEF Posted, Promise!Posted
      <3>4. RowOf(f).after \in Nat /\ f.owner \in wallets
        BY <2>2, FlushFacts DEF Row
      <3>5. Promise!Post(f.owner, f.type, f.amount, f.before, f.payment)
        BY <2>2, <3>3, <3>4 DEF Promise!Post, Flush, RowOf
      <3>6. QED
        BY <3>1, <3>2, <3>5 DEF Promise!Next
    <2>3. CASE Begin \/ Crash \/ UNCHANGED vars
      BY <2>3 DEF Begin, Crash, ReadForTopUp, ReadForDeduct, Read, vars, rows
    <2>4. ASSUME NEW f \in inflight, RefuseSecondCredit(f) \/ FlushFails(f)
          PROVE  UNCHANGED rows
      BY <2>4 DEF RefuseSecondCredit, FlushFails
    <2>5. QED
      BY <2>1, <2>2, <2>3, <2>4 DEF Next, End
  <1>3. QED
    BY <1>1, <1>2, Invariance, PTL DEF Spec, KeepsPromise, Promise!Spec
=============================================================================
