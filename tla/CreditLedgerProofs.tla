------------------------- MODULE CreditLedgerProofs -------------------------
(* Theorems about CreditLedger, for any users, groups, keys and bounds.    *)
EXTENDS CreditLedger, FiniteSetTheorems, TLAPS

-----------------------------------------------------------------------------
(* Sums of ledger rows and of holds, counted micro-credit by micro-credit. *)

\* An amount is as many units as it says.
LEMMA UnitsOfAmount ==
  ASSUME NEW n \in Nat
  PROVE  IsFiniteSet(1..n) /\ Cardinality(1..n) = n
<1>0. 1 \in Int /\ n \in Int
  OBVIOUS
<1>1. /\ IsFiniteSet(1..n)
      /\ Cardinality(1..n) = IF 1 > n THEN 0 ELSE n - 1 + 1
  BY <1>0, FS_Interval, Zenon
<1>2. (IF 1 > n THEN 0 ELSE n - 1 + 1) = n
  OBVIOUS
<1>3. QED
  BY <1>1, <1>2

\* One row or one hold of an amount is as many units.
LEMMA UnitsOfOne ==
  ASSUME NEW i, NEW n \in Nat
  PROVE  IsFiniteSet({i} \X (1..n)) /\ Cardinality({i} \X (1..n)) = n
<1>1. IsFiniteSet(1..n) /\ Cardinality(1..n) = n
  BY UnitsOfAmount
<1>2. IsFiniteSet({i}) /\ Cardinality({i}) = 1
  BY FS_Singleton
<1>3. /\ IsFiniteSet({i} \X (1..n))
      /\ Cardinality({i} \X (1..n)) = Cardinality({i}) * Cardinality(1..n)
  BY <1>1, <1>2, FS_Product, Zenon
<1>4. 1 * n = n
  OBVIOUS
<1>5. QED
  BY <1>1, <1>2, <1>3, <1>4, Zenon

\* A sum over ledger rows counts a finite set of units: a natural number.
LEMMA LedgerSumType ==
  ASSUME NEW L \in Seq(LedgerRow), NEW S
  PROVE  IsFiniteSet(LedgerUnits(L, S)) /\ LedgerSum(L, S) \in Nat
<1>1. IsFiniteSet(1..MaxMicros) /\ IsFiniteSet(DOMAIN L)
  BY FS_Interval, CreditAssumption
<1>2. IsFiniteSet((DOMAIN L) \X (1..MaxMicros))
  BY <1>1, FS_Product
<1>3. IsFiniteSet(LedgerUnits(L, S))
  BY <1>2, FS_Subset DEF LedgerUnits
<1>4. QED
  BY <1>3, FS_CardinalityType DEF LedgerSum

\* A sum that no row belongs to is zero.
LEMMA LedgerSumZero ==
  ASSUME NEW L \in Seq(LedgerRow), NEW S, \A i \in DOMAIN L : L[i] \notin S
  PROVE  LedgerSum(L, S) = 0
  BY FS_EmptySet DEF LedgerSum, LedgerUnits

\* Inserting a row adds its amount to the sums it belongs to and to no other.
LEMMA LedgerSumInserted ==
  ASSUME NEW L \in Seq(LedgerRow), NEW S,
         NEW row, row.amount \in 0..MaxMicros, row.amount > 0 => row \in LedgerRow
  PROVE  /\ Inserted(L, row) \in Seq(LedgerRow)
         /\ LedgerSum(Inserted(L, row), S) =
              LedgerSum(L, S) + (IF row \in S THEN row.amount ELSE 0)
<1> DEFINE M == Append(L, row)
           D == IF row \in S THEN {Len(L) + 1} \X (1..row.amount) ELSE {}
<1>0. row.amount \in Nat /\ MaxMicros \in Nat
  BY CreditAssumption
<1>1. CASE ~(row.amount > 0)
  <2>1. row.amount = 0 /\ Inserted(L, row) = L
    BY <1>0, <1>1 DEF Inserted
  <2>2. LedgerSum(L, S) \in Nat
    BY LedgerSumType
  <2>3. QED
    BY <2>1, <2>2
<1>2. CASE row.amount > 0
  <2>1. Inserted(L, row) = M /\ M \in Seq(LedgerRow)
    BY <1>2 DEF Inserted
  <2>2. /\ DOMAIN M = (DOMAIN L) \cup {Len(L) + 1}
        /\ Len(L) + 1 \notin DOMAIN L
        /\ \A i \in DOMAIN L : M[i] = L[i]
        /\ M[Len(L) + 1] = row
    BY <1>2
  <2>3. LedgerUnits(M, S) = LedgerUnits(L, S) \cup D
    <3>1. ASSUME NEW x PROVE x \in LedgerUnits(M, S) <=> x \in LedgerUnits(L, S) \cup D
      <4>1. CASE row \in S
        BY <1>0, <1>2, <2>2, <4>1 DEF LedgerUnits
      <4>2. CASE row \notin S
        BY <1>0, <1>2, <2>2, <4>2 DEF LedgerUnits
      <4>3. QED BY <4>1, <4>2
    <3>2. QED BY <3>1
  <2>4. LedgerUnits(L, S) \cap D = {}
    BY <2>2 DEF LedgerUnits
  <2>5. IsFiniteSet(D) /\ Cardinality(D) = IF row \in S THEN row.amount ELSE 0
    <3>1. /\ IsFiniteSet({Len(L) + 1} \X (1..row.amount))
          /\ Cardinality({Len(L) + 1} \X (1..row.amount)) = row.amount
      BY <1>0, UnitsOfOne
    <3>2. QED
      BY <3>1, FS_EmptySet
  <2>6. IsFiniteSet(LedgerUnits(L, S)) /\ Cardinality(LedgerUnits(L, S)) \in Nat
    BY LedgerSumType DEF LedgerSum
  <2>7. Cardinality(LedgerUnits(L, S) \cap D) = 0
    BY <2>4, FS_EmptySet
  <2>8. Cardinality(LedgerUnits(L, S) \cup D) =
          Cardinality(LedgerUnits(L, S)) + Cardinality(D) - Cardinality(LedgerUnits(L, S) \cap D)
    BY <2>5, <2>6, FS_Union
  <2>9. QED
    BY <1>0, <2>1, <2>3, <2>5, <2>6, <2>7, <2>8 DEF LedgerSum
<1>3. QED
  BY <1>1, <1>2

\* What a user's reservations hold is a natural number.
LEMMA ReservedType ==
  ASSUME NEW u, NEW R
  PROVE  IsFiniteSet(HeldUnits(u, R)) /\ Reserved(u, R) \in Nat
<1>1. IsFiniteSet(1..MaxMicros)
  BY FS_Interval, CreditAssumption
<1>2. IsFiniteSet(Keys \X (1..MaxMicros))
  BY <1>1, FS_Product, CreditAssumption
<1>3. IsFiniteSet(HeldUnits(u, R))
  BY <1>2, FS_Subset DEF HeldUnits
<1>4. QED
  BY <1>3, FS_CardinalityType DEF Reserved

\* The number of the cycle never goes back when the clock goes on.
LEMMA DivMonotone ==
  ASSUME NEW x \in Nat, NEW y \in Nat, NEW p \in Nat, p > 0, x <= y
  PROVE  /\ x \div p \in Nat
         /\ (x \div p) * p <= (y \div p) * p
         /\ (x \div p) * p \in Nat
  OBVIOUS

-----------------------------------------------------------------------------
(* The balance.                                                            *)

\* Every part of a balance is a natural number; what is available fits both
\* the column and what the timed and the permanent credits can pay.
LEMMA BalanceType ==
  ASSUME TypeOK, NoOverdraft, TimedWithinAllowance, NEW u \in Users, NEW R
  PROVE  /\ CycleAnchor(u) \in Nat \ {0}
         /\ CycleStart(u) \in Nat
         /\ TimedUsed(u) \in Nat
         /\ TimedRemaining(u) \in 0..MaxMicros
         /\ Timed(u) => TimedUsed(u) + TimedRemaining(u) = config[group[u]].allowance
         /\ ~Timed(u) => TimedRemaining(u) = 0
         /\ Available(u, R) \in 0..MaxMicros
         /\ Available(u, R) <= TimedRemaining(u) + permanent[u]
<1>1. CycleAnchor(u) \in Nat \ {0}
  BY CreditAssumption DEF TypeOK, CycleAnchor
<1>2. /\ config[group[u]].allowance \in 0..MaxMicros
      /\ config[group[u]].period \in Nat
  BY CreditAssumption DEF TypeOK
<1>3. CycleStart(u) \in Nat
  <2>1. CASE ~Timed(u)
    BY <2>1 DEF CycleStart
  <2>2. CASE Timed(u)
    <3>1. /\ CycleAnchor(u) \in Nat /\ now \in Nat
          /\ config[group[u]].period \in Nat /\ config[group[u]].period > 0
      BY <1>1, <1>2, <2>2 DEF Timed, TypeOK
    <3>2. CASE now > CycleAnchor(u)
      <4>1. now - CycleAnchor(u) \in Nat
        BY <3>1, <3>2
      <4>2. ((now - CycleAnchor(u)) \div config[group[u]].period) * config[group[u]].period \in Nat
        BY <3>1, <4>1, DivMonotone
      <4>3. QED
        BY <2>2, <3>1, <3>2, <4>2 DEF CycleStart, CreditCycleStart
    <3>3. CASE ~(now > CycleAnchor(u))
      BY <2>2, <3>1, <3>3 DEF CycleStart, CreditCycleStart
    <3>4. QED BY <3>2, <3>3
  <2>3. QED BY <2>1, <2>2
<1>4. TimedUsed(u) \in Nat
  BY LedgerSumType DEF TypeOK, TimedUsed
<1>5. /\ TimedRemaining(u) \in 0..MaxMicros
      /\ Timed(u) => TimedUsed(u) + TimedRemaining(u) = config[group[u]].allowance
      /\ ~Timed(u) => TimedRemaining(u) = 0
  BY <1>2, <1>4, CreditAssumption DEF TimedRemaining, TimedWithinAllowance
<1>6. permanent[u] \in 0..MaxMicros
  BY DEF NoOverdraft
<1>7. Reserved(u, R) \in Nat
  BY ReservedType
<1>8. /\ Available(u, R) \in 0..MaxMicros
      /\ Available(u, R) <= TimedRemaining(u) + permanent[u]
  BY <1>5, <1>6, <1>7, CreditAssumption DEF Available, Spendable, Smaller
<1>9. QED
  BY <1>1, <1>3, <1>4, <1>5, <1>8

\* The rows of a ledger after an insertion are the old ones and the new one.
LEMMA InsertedRows ==
  ASSUME NEW L \in Seq(LedgerRow), NEW row, NEW i \in DOMAIN Inserted(L, row)
  PROVE  \/ row.amount > 0 /\ Inserted(L, row)[i] = row
         \/ \E j \in DOMAIN L : Inserted(L, row)[i] = L[j]
<1>1. CASE row.amount > 0
  <2>1. Inserted(L, row) = Append(L, row)
    BY <1>1 DEF Inserted
  <2>2. i \in 1..Len(L) \/ i = Len(L) + 1
    BY <2>1
  <2>3. QED
    BY <1>1, <2>1, <2>2
<1>2. CASE ~(row.amount > 0)
  BY <1>2 DEF Inserted
<1>3. QED
  BY <1>1, <1>2

-----------------------------------------------------------------------------
(* The inductive invariant.                                                *)

\* No overdraft needs the timed part of a debit to be bounded by what is left of
\* the allowance, that bound needs every row to lie behind the cycle of its user,
\* and the two sums relate the ledger to the reservations and to the balance.
IInv == /\ TypeOK
        /\ NoOverdraft
        /\ RowsBehindCycle
        /\ TimedWithinAllowance
        /\ ChargedOnce
        /\ LedgerExplainsBalance

\* What a debit does, whoever calls it: the balance stays in its range, the
\* allowance of the cycle is respected, the amount is charged to its source and
\* user and to no other, and the permanent part is on record.
LEMMA DebitEffect ==
  ASSUME TypeOK, NoOverdraft, RowsBehindCycle, TimedWithinAllowance,
         NEW u \in Users, NEW amount \in 0..MaxMicros,
         NEW source \in Keys \cup {NoKey}, NEW R,
         DebitCreditsTx(u, amount, source, R),
         UNCHANGED <<now, config, group>>
  PROVE  /\ anchor' \in [Users -> Nat] /\ permanent' \in [Users -> Int]
         /\ ledger' \in Seq(LedgerRow)
         /\ NoOverdraft'
         /\ RowsBehindCycle'
         /\ TimedWithinAllowance'
         /\ \A v \in Users, k \in Keys : LedgerSum(ledger', ChargesOf(v, k)) =
              LedgerSum(ledger, ChargesOf(v, k)) + (IF k = source /\ v = u THEN amount ELSE 0)
         /\ \A v \in Users : permanent'[v] + LedgerSum(ledger', PermanentRows(v)) =
              permanent[v] + LedgerSum(ledger, PermanentRows(v))
         /\ \A v \in Users : TimedUsed(v)' <= TimedUsed(v) + (IF v = u THEN TimedPart(u, amount) ELSE 0)
         /\ \A v \in Users : permanent'[v] = permanent[v] - (IF v = u THEN amount - TimedPart(u, amount) ELSE 0)
<1>0. /\ ledger \in Seq(LedgerRow) /\ anchor \in [Users -> Nat]
      /\ permanent \in [Users -> Int] /\ group \in [Users -> Groups]
      /\ \A S : LedgerSum(ledger, S) \in Nat
      /\ MaxMicros \in Nat
  BY LedgerSumType, CreditAssumption DEF TypeOK
<1>1. CASE amount = 0
  <2>1. UNCHANGED <<anchor, ledger, permanent>>
    BY <1>1 DEF DebitCreditsTx
  <2>2. /\ NoOverdraft' /\ RowsBehindCycle' /\ TimedWithinAllowance'
    BY <2>1 DEF NoOverdraft, RowsBehindCycle, TimedWithinAllowance, TimedUsed, TimedRows,
                Timed, CycleStart, CycleAnchor
  <2>3. \A v \in Users, k \in Keys : LedgerSum(ledger', ChargesOf(v, k)) =
              LedgerSum(ledger, ChargesOf(v, k)) + (IF k = source /\ v = u THEN amount ELSE 0)
    BY <1>0, <1>1, <2>1
  <2>4. TimedPart(u, amount) = 0 /\ \A v \in Users : TimedUsed(v)' = TimedUsed(v) /\ TimedUsed(v) \in Nat
    <3>1. TimedRemaining(u) \in 0..MaxMicros
      BY BalanceType
    <3>2. TimedPart(u, amount) = 0
      BY <1>0, <1>1, <3>1 DEF TimedPart, Smaller
    <3>3. QED
      BY <1>0, <2>1, <3>2 DEF TimedUsed, TimedRows, CycleStart, CycleAnchor, Timed
  <2>5. QED
    BY <1>0, <1>1, <2>1, <2>2, <2>3, <2>4
<1>2. CASE amount # 0
  <2> DEFINE timed == TimedPart(u, amount)
             perm == amount - timed
             r1 == Row(u, "timed_debit", timed, source)
             r2 == Row(u, "permanent_debit", perm, source)
             L1 == Inserted(ledger, r1)
             L2 == Inserted(L1, r2)
  <2>1. /\ amount <= Available(u, R)
        /\ anchor' = [anchor EXCEPT ![u] = CycleAnchor(u)]
        /\ ledger' = L2
        /\ permanent' = [permanent EXCEPT ![u] = @ - perm]
    BY <1>2 DEF DebitCreditsTx
  <2>2. /\ CycleAnchor(u) \in Nat \ {0} /\ CycleStart(u) \in Nat
        /\ TimedUsed(u) \in Nat /\ TimedRemaining(u) \in 0..MaxMicros
        /\ Timed(u) => TimedUsed(u) + TimedRemaining(u) = config[group[u]].allowance
        /\ amount <= TimedRemaining(u) + permanent[u]
    <3>1. /\ Available(u, R) \in 0..MaxMicros
          /\ Available(u, R) <= TimedRemaining(u) + permanent[u]
      BY BalanceType
    <3>2. TimedRemaining(u) \in 0..MaxMicros /\ permanent[u] \in Int
      BY <1>0, BalanceType
    <3>3. amount <= TimedRemaining(u) + permanent[u]
      BY <1>0, <2>1, <3>1, <3>2
    <3>4. QED
      BY <3>3, BalanceType
  <2>3. /\ timed \in 0..amount /\ timed <= TimedRemaining(u)
        /\ perm \in 0..amount /\ perm <= permanent[u]
        /\ timed + perm = amount
    <3>1. amount \in Nat /\ TimedRemaining(u) \in Nat /\ permanent[u] \in Nat
      BY <1>0, <2>2 DEF NoOverdraft
    <3>2. QED
      BY <2>2, <3>1 DEF TimedPart, Smaller
  <2> HIDE DEF timed, perm
  <2>4. /\ r1.amount = timed /\ r1.source = source /\ r1.kind = "timed_debit" /\ r1.user = u
        /\ r1.anchor = CycleAnchor(u) /\ r1.start = CycleStart(u) /\ r1.group = group[u]
        /\ r2.amount = perm /\ r2.source = source /\ r2.kind = "permanent_debit" /\ r2.user = u
        /\ r2.anchor = CycleAnchor(u) /\ r2.start = CycleStart(u) /\ r2.group = group[u]
        /\ timed > 0 => r1 \in LedgerRow
        /\ perm > 0 => r2 \in LedgerRow
    BY <1>0, <2>2, <2>3 DEF Row, LedgerRow, Kinds
  <2> HIDE DEF r1, r2
  <2>5. /\ L1 \in Seq(LedgerRow) /\ L2 \in Seq(LedgerRow)
        /\ \A S : LedgerSum(L2, S) = LedgerSum(ledger, S)
                    + (IF r1 \in S THEN timed ELSE 0) + (IF r2 \in S THEN perm ELSE 0)
    <3>1. r1.amount \in 0..MaxMicros /\ r2.amount \in 0..MaxMicros
      BY <1>0, <2>3, <2>4
    <3>2. L1 \in Seq(LedgerRow)
      BY <1>0, <2>4, <3>1, LedgerSumInserted
    <3>3. L2 \in Seq(LedgerRow)
      BY <2>4, <3>1, <3>2, LedgerSumInserted
    <3>4. ASSUME NEW S
          PROVE  LedgerSum(L2, S) = LedgerSum(ledger, S)
                   + (IF r1 \in S THEN timed ELSE 0) + (IF r2 \in S THEN perm ELSE 0)
      <4>1. LedgerSum(L1, S) = LedgerSum(ledger, S) + (IF r1 \in S THEN timed ELSE 0)
        BY <1>0, <2>4, <3>1, LedgerSumInserted
      <4>2. LedgerSum(L2, S) = LedgerSum(L1, S) + (IF r2 \in S THEN perm ELSE 0)
        BY <2>4, <3>1, <3>2, LedgerSumInserted
      <4>3. QED BY <4>1, <4>2
    <3>5. QED BY <3>2, <3>3, <3>4
  <2>6. ASSUME NEW i \in DOMAIN L2
        PROVE  \/ L2[i] = r1 \/ L2[i] = r2
               \/ \E j \in DOMAIN ledger : L2[i] = ledger[j]
    <3>1. CASE L2[i] = r2
      BY <3>1
    <3>2. CASE \E j \in DOMAIN L1 : L2[i] = L1[j]
      <4>1. PICK j \in DOMAIN L1 : L2[i] = L1[j]
        BY <3>2
      <4>2. L1[j] = r1 \/ \E n \in DOMAIN ledger : L1[j] = ledger[n]
        BY <1>0, InsertedRows
      <4>3. QED BY <4>1, <4>2
    <3>3. QED
      BY <2>5, <3>1, <3>2, InsertedRows
  <2> HIDE DEF L1, L2
  <2>7. \A v \in Users : /\ CycleAnchor(v)' = CycleAnchor(v)
                         /\ CycleStart(v)' = CycleStart(v)
                         /\ Timed(v)' = Timed(v)
                         /\ TimedRows(v)' = TimedRows(v)
    <3>1. \A v \in Users : CycleAnchor(v)' = CycleAnchor(v)
      BY <1>0, <2>1, <2>2 DEF CycleAnchor
    <3>2. QED
      BY <3>1 DEF CycleStart, Timed, TimedRows
  <2>8. anchor' \in [Users -> Nat] /\ permanent' \in [Users -> Int] /\ NoOverdraft'
    BY <1>0, <2>1, <2>2, <2>3 DEF NoOverdraft
  <2>9. RowsBehindCycle'
    <3>1. ASSUME NEW i \in DOMAIN ledger', NEW row, row = ledger'[i]
          PROVE  /\ 0 < row.anchor /\ row.anchor <= anchor'[row.user]
                 /\ row.anchor = anchor'[row.user] =>
                      /\ row.group = group'[row.user]
                      /\ row.start <= CycleStart(row.user)'
      <4>0. row = L2[i] /\ i \in DOMAIN L2
        BY <2>1, <3>1
      <4>1. CASE row = r1 \/ row = r2
        <5>1. /\ row.user = u /\ row.group = group[u]
              /\ row.anchor = CycleAnchor(u) /\ row.start = CycleStart(u)
          BY <2>4, <4>1
        <5>2. anchor'[u] = CycleAnchor(u) /\ CycleStart(u)' = CycleStart(u)
          BY <1>0, <2>1, <2>7
        <5>3. QED
          BY <2>2, <5>1, <5>2
      <4>2. CASE \E j \in DOMAIN ledger : row = ledger[j]
        <5>1. PICK j \in DOMAIN ledger : row = ledger[j]
          BY <4>2
        <5>2. row \in LedgerRow
          BY <1>0, <5>1
        <5>3. row.user \in Users /\ row.anchor \in Nat
          BY <5>2 DEF LedgerRow
        <5>4. /\ 0 < row.anchor /\ row.anchor <= anchor[row.user]
              /\ row.anchor = anchor[row.user] => /\ row.group = group[row.user]
                                                  /\ row.start <= CycleStart(row.user)
          BY <5>1 DEF RowsBehindCycle
        <5>5. anchor'[row.user] = anchor[row.user]
          BY <1>0, <2>1, <5>3, <5>4 DEF CycleAnchor
        <5>6. CycleStart(row.user)' = CycleStart(row.user)
          BY <2>7, <5>3
        <5>7. QED
          BY <5>4, <5>5, <5>6
      <4>3. QED BY <2>6, <4>0, <4>1, <4>2
    <3>2. QED
      BY <3>1 DEF RowsBehindCycle, CycleStart, CycleAnchor, Timed
  <2>10. TimedWithinAllowance'
    <3>1. ASSUME NEW v \in Users, Timed(v)
          PROVE  LedgerSum(ledger', TimedRows(v)) <= config[group[v]].allowance
      <4>1. LedgerSum(L2, TimedRows(v)) = LedgerSum(ledger, TimedRows(v))
              + (IF r1 \in TimedRows(v) THEN timed ELSE 0)
              + (IF r2 \in TimedRows(v) THEN perm ELSE 0)
        BY <2>5
      <4>2. r2 \notin TimedRows(v) /\ (r1 \in TimedRows(v) => v = u)
        BY <2>4 DEF TimedRows
      <4>3. LedgerSum(ledger, TimedRows(v)) <= config[group[v]].allowance
        BY <3>1 DEF TimedWithinAllowance, TimedUsed
      <4>4. config[group[v]].allowance \in Nat
        BY CreditAssumption DEF TypeOK
      <4>5. CASE r1 \notin TimedRows(v)
        BY <1>0, <2>1, <4>1, <4>2, <4>3, <4>4, <4>5
      <4>6. CASE r1 \in TimedRows(v)
        <5>1. v = u
          BY <4>2, <4>6
        <5>2. LedgerSum(L2, TimedRows(v)) = TimedUsed(u) + timed
          BY <1>0, <2>3, <4>1, <4>2, <4>6, <5>1 DEF TimedUsed
        <5>3. QED
          BY <2>1, <2>2, <2>3, <3>1, <5>1, <5>2
      <4>7. QED BY <4>5, <4>6
    <3>2. QED
      BY <2>7, <3>1 DEF TimedWithinAllowance, TimedUsed
  <2>11. ASSUME NEW v \in Users, NEW k \in Keys
         PROVE  LedgerSum(ledger', ChargesOf(v, k)) =
              LedgerSum(ledger, ChargesOf(v, k)) + (IF k = source /\ v = u THEN amount ELSE 0)
    <3>1. /\ (IF r1 \in ChargesOf(v, k) THEN timed ELSE 0) = IF k = source /\ v = u THEN timed ELSE 0
          /\ (IF r2 \in ChargesOf(v, k) THEN perm ELSE 0) = IF k = source /\ v = u THEN perm ELSE 0
      BY <2>3, <2>4 DEF ChargesOf
    <3>2. LedgerSum(L2, ChargesOf(v, k)) = LedgerSum(ledger, ChargesOf(v, k))
            + (IF k = source /\ v = u THEN timed ELSE 0) + (IF k = source /\ v = u THEN perm ELSE 0)
      BY <2>5, <3>1
    <3>3. timed \in Nat /\ perm \in Nat /\ timed + perm = amount
      BY <2>3
    <3>4. LedgerSum(ledger, ChargesOf(v, k)) \in Nat
      BY <1>0
    <3>5. QED
      BY <2>1, <3>2, <3>3, <3>4
  <2>12. ASSUME NEW v \in Users
         PROVE  permanent'[v] + LedgerSum(ledger', PermanentRows(v)) =
                  permanent[v] + LedgerSum(ledger, PermanentRows(v))
    <3>1. /\ r1 \notin PermanentRows(v)
          /\ (IF r2 \in PermanentRows(v) THEN perm ELSE 0) = IF v = u THEN perm ELSE 0
      BY <2>3, <2>4 DEF PermanentRows
    <3>2. LedgerSum(ledger', PermanentRows(v)) =
            LedgerSum(ledger, PermanentRows(v)) + (IF v = u THEN perm ELSE 0)
      BY <1>0, <2>1, <2>3, <2>5, <3>1
    <3>3. permanent'[v] = permanent[v] - (IF v = u THEN perm ELSE 0)
      BY <1>0, <2>1, <2>3
    <3>4. QED
      BY <1>0, <2>3, <3>2, <3>3
  <2>13. ASSUME NEW v \in Users
         PROVE  TimedUsed(v)' <= TimedUsed(v) + (IF v = u THEN TimedPart(u, amount) ELSE 0)
    <3>1. /\ r2 \notin TimedRows(v) /\ (r1 \in TimedRows(v) => v = u)
          /\ LedgerSum(ledger, TimedRows(v)) \in Nat /\ timed \in Nat
      BY <1>0, <2>3, <2>4 DEF TimedRows
    <3>2. LedgerSum(L2, TimedRows(v)) = LedgerSum(ledger, TimedRows(v))
            + (IF r1 \in TimedRows(v) THEN timed ELSE 0)
      BY <2>5, <3>1
    <3>3. LedgerSum(L2, TimedRows(v)) <= LedgerSum(ledger, TimedRows(v)) + (IF v = u THEN timed ELSE 0)
      BY <3>1, <3>2
    <3>4. TimedUsed(v)' = LedgerSum(L2, TimedRows(v)) /\ TimedUsed(v) = LedgerSum(ledger, TimedRows(v))
      BY <2>1, <2>7 DEF TimedUsed
    <3>5. QED
      BY <3>3, <3>4 DEF timed
  <2>14. ASSUME NEW v \in Users
         PROVE  permanent'[v] = permanent[v] - (IF v = u THEN amount - TimedPart(u, amount) ELSE 0)
    <3>1. permanent'[v] = permanent[v] - (IF v = u THEN perm ELSE 0)
      BY <1>0, <2>1, <2>3
    <3>2. QED
      BY <3>1 DEF perm, timed
  <2>15. QED
    BY <2>1, <2>5, <2>8, <2>9, <2>10, <2>11, <2>12, <2>13, <2>14
<1>3. QED
  BY <1>1, <1>2

\* The cycle of a user with an anchor does not go back when the clock advances.
LEMMA CycleAdvances ==
  ASSUME TypeOK, Tick, NEW u \in Users, anchor[u] # 0
  PROVE  CycleStart(u) \in Nat /\ CycleStart(u)' \in Nat /\ CycleStart(u) <= CycleStart(u)'
<1> DEFINE p == config[group[u]].period
           a == anchor[u]
<1>1. /\ a \in Nat /\ now \in Nat /\ now' = now + 1 /\ p \in Nat
      /\ UNCHANGED <<config, group, anchor>>
  BY CreditAssumption DEF TypeOK, Tick
<1>2. CASE ~Timed(u)
  BY <1>1, <1>2 DEF CycleStart, Timed
<1>3. CASE Timed(u)
  <2>1. p > 0 /\ Timed(u)'
    BY <1>1, <1>3 DEF Timed
  <2>2. CycleStart(u) = CreditCycleStart(a, p, now) /\ CycleStart(u)' = CreditCycleStart(a, p, now + 1)
    BY <1>1, <1>3, <2>1 DEF CycleStart, CycleAnchor
  <2> HIDE DEF p, a
  <2>3. CASE now > a
    <3>1. now - a \in Nat /\ (now + 1) - a \in Nat /\ now - a <= (now + 1) - a
      BY <1>1, <2>3
    <3>2. /\ ((now - a) \div p) * p \in Nat
          /\ (((now + 1) - a) \div p) * p \in Nat
          /\ ((now - a) \div p) * p <= (((now + 1) - a) \div p) * p
      BY <1>1, <2>1, <3>1, DivMonotone
    <3>3. now + 1 > a
      BY <1>1, <2>3
    <3>4. QED
      BY <1>1, <2>2, <2>3, <3>2, <3>3 DEF CreditCycleStart
  <2>4. CASE ~(now > a)
    <3>1. CASE now + 1 > a
      <4>1. (now + 1) - a \in Nat
        BY <1>1, <3>1
      <4>2. (((now + 1) - a) \div p) * p \in Nat
        BY <1>1, <2>1, <4>1, DivMonotone
      <4>3. QED
        BY <1>1, <2>2, <2>4, <3>1, <4>2 DEF CreditCycleStart
    <3>2. CASE ~(now + 1 > a)
      BY <1>1, <2>2, <2>4, <3>2 DEF CreditCycleStart
    <3>3. QED BY <3>1, <3>2
  <2>5. QED BY <2>3, <2>4
<1>4. QED BY <1>2, <1>3

\* A step that leaves the clock, the groups and the ledger alone keeps the
\* invariants of the cycles.
LEMMA CyclesUntouched ==
  ASSUME RowsBehindCycle, TimedWithinAllowance,
         UNCHANGED <<now, config, group, anchor, ledger>>
  PROVE  RowsBehindCycle' /\ TimedWithinAllowance'
  BY DEF RowsBehindCycle, TimedWithinAllowance, TimedUsed, TimedRows, Timed, CycleStart,
         CycleAnchor

\* The columns of a row of a ledger have their types.
LEMMA RowType ==
  ASSUME NEW L \in Seq(LedgerRow), NEW i \in DOMAIN L
  PROVE  /\ L[i].user \in Users /\ L[i].anchor \in Nat /\ L[i].start \in Nat
<1>1. L[i] \in LedgerRow
  OBVIOUS
<1>2. QED
  BY <1>1 DEF LedgerRow

\* A user either keeps the anchor, the group and its settings, or moves to a later
\* anchor, where nothing is spent.
LEMMA NewCycles ==
  ASSUME TypeOK, RowsBehindCycle, TimedWithinAllowance,
         UNCHANGED <<now, ledger>>,
         config' \in [Groups -> Configs], group' \in [Users -> Groups],
         anchor' \in [Users -> Nat],
         \A v \in Users : \/ anchor'[v] > anchor[v]
                          \/ /\ anchor'[v] = anchor[v] /\ group'[v] = group[v]
                             /\ config'[group[v]] = config[group[v]]
  PROVE  RowsBehindCycle' /\ TimedWithinAllowance'
<1>0. /\ ledger \in Seq(LedgerRow) /\ anchor \in [Users -> Nat]
      /\ \A i \in DOMAIN ledger : ledger[i].user \in Users /\ ledger[i].anchor \in Nat
  BY RowType DEF TypeOK
<1>1. ASSUME NEW v \in Users, ~(anchor'[v] > anchor[v])
      PROVE  /\ CycleAnchor(v)' = CycleAnchor(v) /\ CycleStart(v)' = CycleStart(v)
             /\ Timed(v)' = Timed(v) /\ TimedRows(v)' = TimedRows(v)
             /\ group'[v] = group[v] /\ config'[group'[v]] = config[group[v]]
  BY <1>1 DEF CycleAnchor, CycleStart, Timed, TimedRows
<1>2. RowsBehindCycle'
  <2>1. ASSUME NEW i \in DOMAIN ledger, NEW row, row = ledger[i]
        PROVE  /\ 0 < row.anchor /\ row.anchor <= anchor'[row.user]
               /\ row.anchor = anchor'[row.user] => /\ row.group = group'[row.user]
                                                    /\ row.start <= CycleStart(row.user)'
    <3>1. /\ row.user \in Users /\ row.anchor \in Nat
          /\ anchor[row.user] \in Nat /\ anchor'[row.user] \in Nat
          /\ 0 < row.anchor /\ row.anchor <= anchor[row.user]
          /\ row.anchor = anchor[row.user] => /\ row.group = group[row.user]
                                              /\ row.start <= CycleStart(row.user)
      BY <1>0, <2>1 DEF RowsBehindCycle
    <3>2. CASE anchor'[row.user] > anchor[row.user]
      BY <3>1, <3>2
    <3>3. CASE ~(anchor'[row.user] > anchor[row.user])
      BY <1>1, <3>1, <3>3
    <3>4. QED BY <3>2, <3>3
  <2>2. QED
    BY <2>1 DEF RowsBehindCycle, CycleStart, CycleAnchor, Timed
<1>3. TimedWithinAllowance'
  <2>1. ASSUME NEW v \in Users, Timed(v)'
        PROVE  LedgerSum(ledger', TimedRows(v)') <= config'[group'[v]].allowance
    <3>1. CASE ~(anchor'[v] > anchor[v])
      BY <1>1, <2>1, <3>1 DEF TimedWithinAllowance, TimedUsed
    <3>2. CASE anchor'[v] > anchor[v]
      <4>1. CycleAnchor(v)' = anchor'[v]
        BY <1>0, <3>2 DEF CycleAnchor
      <4>2. ASSUME NEW i \in DOMAIN ledger', ledger'[i] \in TimedRows(v)' PROVE FALSE
        <5>1. ledger[i].user = v /\ ledger[i].anchor = anchor'[v]
          BY <4>1, <4>2 DEF TimedRows
        <5>2. ledger[i].anchor <= anchor[ledger[i].user]
          BY <4>2 DEF RowsBehindCycle
        <5>3. QED
          BY <1>0, <3>2, <5>1, <5>2
      <4>3. LedgerSum(ledger', TimedRows(v)') = 0
        BY <1>0, <4>2, LedgerSumZero
      <4>4. config'[group'[v]].allowance \in Nat
        BY CreditAssumption
      <4>5. QED BY <4>3, <4>4
    <3>3. QED BY <3>1, <3>2
  <2>2. QED
    BY <2>1 DEF TimedWithinAllowance, TimedUsed
<1>4. QED BY <1>2, <1>3

-----------------------------------------------------------------------------
(* The initial states and the steps.                                       *)

\* Every initial state satisfies the inductive invariant.
LEMMA IInvInit == Init => IInv
<1> SUFFICES ASSUME Init PROVE IInv
  OBVIOUS
<1>0. /\ Amounts \cup {0} \subseteq 0..MaxMicros /\ Amounts \cup {0} \subseteq Int
      /\ MaxNow \in Nat /\ MaxNow > 0
      /\ \A c \in Configs : c.allowance \in Nat
  BY CreditAssumption
<1>1. TypeOK
  <2>1. now \in 1..MaxNow /\ anchor \in [Users -> Nat] /\ ledger \in Seq(LedgerRow)
    BY <1>0 DEF Init
  <2>2. permanent \in [Users -> Int] /\ granted \in [Users -> Int]
    BY <1>0 DEF Init
  <2>3. reservations \in [Keys -> Reservation \cup {NoReservation}]
    BY DEF Init
  <2>4. QED
    BY <2>1, <2>2, <2>3 DEF Init, TypeOK
<1>2. NoOverdraft
  BY <1>0 DEF Init, NoOverdraft
<1>3. RowsBehindCycle
  BY DEF Init, RowsBehindCycle
<1>4. ASSUME NEW S PROVE LedgerSum(ledger, S) = 0
  <2>1. ledger \in Seq(LedgerRow) /\ \A i \in DOMAIN ledger : ledger[i] \notin S
    BY DEF Init
  <2>2. QED
    BY <2>1, LedgerSumZero
<1>5. TimedWithinAllowance
  <2>1. \A u \in Users : config[group[u]].allowance \in Nat
    BY <1>0, <1>1 DEF TypeOK
  <2>2. QED
    BY <1>4, <2>1 DEF TimedWithinAllowance, TimedUsed
<1>6. ChargedOnce
  <2>1. \A k \in Keys : reservations[k].status # "settled"
    BY DEF Init, NoReservation
  <2>2. QED
    BY <1>4, <2>1 DEF ChargedOnce
<1>7. LedgerExplainsBalance
  BY <1>1, <1>4 DEF LedgerExplainsBalance, Init, TypeOK
<1>8. QED
  BY <1>1, <1>2, <1>3, <1>5, <1>6, <1>7 DEF IInv

\* A step that charges `a' to the billing key `final', which has no charge yet,
\* and marks exactly that key settled preserves the inductive invariant.
LEMMA ChargeStep ==
  ASSUME IInv, NEW u \in Users, NEW final \in Keys, NEW a \in 0..MaxMicros, NEW R,
         DebitCreditsTx(u, a, final, R),
         UNCHANGED <<now, config, group, granted>>,
         \A v \in Users : LedgerSum(ledger, ChargesOf(v, final)) = 0,
         reservations' \in [Keys -> Reservation \cup {NoReservation}],
         reservations'[final].status = "settled",
         reservations'[final].actual = a,
         reservations'[final].user = u,
         \A k \in Keys \ {final} :
           /\ reservations'[k].status = "settled" <=> reservations[k].status = "settled"
           /\ reservations[k].status = "settled" => reservations'[k] = reservations[k]
  PROVE  IInv'
<1> USE DEF IInv
<1>1. /\ anchor' \in [Users -> Nat] /\ permanent' \in [Users -> Int]
      /\ ledger' \in Seq(LedgerRow) /\ NoOverdraft'
      /\ RowsBehindCycle' /\ TimedWithinAllowance'
      /\ \A v \in Users, k \in Keys : LedgerSum(ledger', ChargesOf(v, k)) =
           LedgerSum(ledger, ChargesOf(v, k)) + (IF k = final /\ v = u THEN a ELSE 0)
      /\ \A v \in Users : permanent'[v] + LedgerSum(ledger', PermanentRows(v)) =
           permanent[v] + LedgerSum(ledger, PermanentRows(v))
  BY DebitEffect
<1>2. \A S : LedgerSum(ledger, S) \in Nat
  BY LedgerSumType DEF TypeOK
<1>3. TypeOK'
  BY <1>1 DEF TypeOK
<1>4. ChargedOnce'
  <2>1. ASSUME NEW v \in Users, NEW k \in Keys
        PROVE  LedgerSum(ledger', ChargesOf(v, k)) =
          IF reservations'[k].status = "settled" /\ reservations'[k].user = v
          THEN reservations'[k].actual ELSE 0
    <3>1. CASE k = final
      <4>1. a \in Nat
        BY CreditAssumption
      <4>2. LedgerSum(ledger', ChargesOf(v, k)) = 0 + (IF v = u THEN a ELSE 0)
        BY <1>1, <3>1
      <4>3. QED BY <3>1, <4>1, <4>2
    <3>2. CASE k # final
      <4>1. LedgerSum(ledger', ChargesOf(v, k)) = LedgerSum(ledger, ChargesOf(v, k)) + 0
        BY <1>1, <3>2
      <4>2. LedgerSum(ledger', ChargesOf(v, k)) = LedgerSum(ledger, ChargesOf(v, k))
        BY <1>2, <4>1
      <4>3. LedgerSum(ledger, ChargesOf(v, k)) =
              IF reservations[k].status = "settled" /\ reservations[k].user = v
              THEN reservations[k].actual ELSE 0
        BY DEF ChargedOnce
      <4>4. QED BY <3>2, <4>2, <4>3
    <3>3. QED BY <3>1, <3>2
  <2>2. QED BY <2>1 DEF ChargedOnce, ChargesOf
<1>5. LedgerExplainsBalance'
  BY <1>1 DEF LedgerExplainsBalance, PermanentRows
<1>6. QED
  BY <1>1, <1>3, <1>4, <1>5

\* Every action preserves the inductive invariant.
LEMMA IInvNext == IInv /\ [Next]_vars => IInv'
<1> SUFFICES ASSUME IInv, [Next]_vars PROVE IInv'
  OBVIOUS
<1> USE DEF IInv
<1>0. /\ Amounts \subseteq 1..MaxMicros /\ MaxMicros \in Nat /\ MaxNow \in Nat /\ TTL \in Nat
      /\ \A c \in Configs : c.allowance \in Nat
  BY CreditAssumption
<1>t. /\ now \in 1..MaxNow /\ config \in [Groups -> Configs] /\ group \in [Users -> Groups]
      /\ anchor \in [Users -> Nat] /\ permanent \in [Users -> Int]
      /\ ledger \in Seq(LedgerRow) /\ granted \in [Users -> Int]
      /\ reservations \in [Keys -> Reservation \cup {NoReservation}]
      /\ \A S : LedgerSum(ledger, S) \in Nat
  BY LedgerSumType DEF TypeOK
<1>h. ASSUME NEW k \in Keys, Held(k)
      PROVE  /\ reservations[k] \in Reservation
             /\ reservations[k].user \in Users
             /\ reservations[k].status = "reserved"
             /\ \A v \in Users : LedgerSum(ledger, ChargesOf(v, k)) = 0
  BY <1>t, <1>h DEF Held, NoReservation, Reservation, ChargedOnce
<1>1. ASSUME NEW u \in Users, NEW a \in Amounts, DebitCredits(u, a)
      PROVE  IInv'
  <2>1. /\ a \in 0..MaxMicros /\ NoKey \in Keys \cup {NoKey}
        /\ DebitCreditsTx(u, a, NoKey, reservations)
        /\ UNCHANGED <<now, config, group, reservations, granted>>
    BY <1>0, <1>1 DEF DebitCredits
  <2>2. /\ anchor' \in [Users -> Nat] /\ permanent' \in [Users -> Int]
        /\ ledger' \in Seq(LedgerRow) /\ NoOverdraft'
        /\ RowsBehindCycle' /\ TimedWithinAllowance'
        /\ \A v \in Users, k \in Keys : LedgerSum(ledger', ChargesOf(v, k)) =
             LedgerSum(ledger, ChargesOf(v, k)) + (IF k = NoKey /\ v = u THEN a ELSE 0)
        /\ \A v \in Users : permanent'[v] + LedgerSum(ledger', PermanentRows(v)) =
             permanent[v] + LedgerSum(ledger, PermanentRows(v))
    BY <2>1, DebitEffect, SMTT(60)
  <2>3. TypeOK'
    BY <1>t, <2>1, <2>2 DEF TypeOK
  <2>4. ChargedOnce'
    <3>1. \A v \in Users, k \in Keys : LedgerSum(ledger', ChargesOf(v, k)) = LedgerSum(ledger, ChargesOf(v, k))
      <4>1. \A k \in Keys : k # NoKey
        BY NoKeyAssumption
      <4>2. \A v \in Users, k \in Keys : LedgerSum(ledger', ChargesOf(v, k)) = LedgerSum(ledger, ChargesOf(v, k)) + 0
        BY <2>2, <4>1
      <4>3. QED
        BY <1>t, <4>2
    <3>2. QED
      BY <2>1, <3>1 DEF ChargedOnce, ChargesOf
  <2>5. LedgerExplainsBalance'
    BY <2>1, <2>2 DEF LedgerExplainsBalance, PermanentRows
  <2>6. QED
    BY <2>2, <2>3, <2>4, <2>5
<1>2. ASSUME NEW u \in Users, NEW k \in Keys, NEW a \in Amounts, ReserveCredits(u, k, a)
      PROVE  IInv'
  <2>1. /\ UNCHANGED <<now, config, group, anchor, permanent, ledger, granted>>
        /\ reservations[k].status = "none"
        /\ reservations' = [reservations EXCEPT ![k] =
             [user |-> u, amount |-> a, actual |-> 0, status |-> "reserved",
              expiresAt |-> now + TTL]]
    BY <1>2 DEF ReserveCredits
  <2>2. [user |-> u, amount |-> a, actual |-> 0, status |-> "reserved",
         expiresAt |-> now + TTL] \in Reservation
    BY <1>0, <1>t DEF Reservation
  <2>3. TypeOK'
    BY <1>t, <2>1, <2>2 DEF TypeOK
  <2>4. ChargedOnce'
    BY <1>t, <2>1 DEF ChargedOnce, ChargesOf
  <2>5. NoOverdraft' /\ LedgerExplainsBalance'
    BY <2>1 DEF NoOverdraft, LedgerExplainsBalance, PermanentRows
  <2>6. QED
    BY <2>1, <2>3, <2>4, <2>5, CyclesUntouched
<1>3. ASSUME NEW k \in Keys, ReleaseCreditReservation(k)
      PROVE  IInv'
  <2>1. /\ UNCHANGED <<now, config, group, anchor, permanent, ledger, granted>>
        /\ reservations' = [reservations EXCEPT ![k].status = "released"]
        /\ Held(k)
    BY <1>3 DEF ReleaseCreditReservation
  <2>2. [reservations[k] EXCEPT !.status = "released"] \in Reservation
    BY <1>h, <2>1 DEF Reservation
  <2>3. TypeOK'
    BY <1>t, <2>1, <2>2 DEF TypeOK
  <2>4. ChargedOnce'
    BY <1>t, <1>h, <2>1, <2>2 DEF ChargedOnce, ChargesOf, Reservation
  <2>5. NoOverdraft' /\ LedgerExplainsBalance'
    BY <2>1 DEF NoOverdraft, LedgerExplainsBalance, PermanentRows
  <2>6. QED
    BY <2>1, <2>3, <2>4, <2>5, CyclesUntouched
<1>4. ASSUME NEW k \in Keys, NEW a \in Amounts \cup {0}, SettleCreditReservation(k, a)
      PROVE  IInv'
  <2>1. /\ Held(k) /\ a \in 0..MaxMicros
        /\ DebitCreditsTx(reservations[k].user, a, k, DuringSettle(k))
        /\ reservations' = [reservations EXCEPT ![k] = Settled(reservations[k], a)]
        /\ UNCHANGED <<now, config, group, granted>>
    BY <1>0, <1>4 DEF SettleCreditReservation
  <2>2. /\ Settled(reservations[k], a) \in Reservation
        /\ Settled(reservations[k], a).status = "settled"
        /\ Settled(reservations[k], a).actual = a
        /\ Settled(reservations[k], a).user = reservations[k].user
    BY <1>h, <2>1 DEF Settled, Reservation
  <2>3. /\ reservations' \in [Keys -> Reservation \cup {NoReservation}]
        /\ reservations'[k] = Settled(reservations[k], a)
        /\ \A j \in Keys \ {k} : reservations'[j] = reservations[j]
    BY <1>t, <2>1, <2>2
  <2>4. QED
    BY <1>h, <2>1, <2>2, <2>3, ChargeStep
<1>5. ASSUME NEW u \in Users, NEW k \in Keys, NEW final \in Keys, AlreadyBilled(u, k, final)
      PROVE  IInv'
  <2>1. /\ UNCHANGED <<now, config, group, anchor, permanent, ledger, granted>>
        /\ reservations' = Released(reservations, u, k)
    BY <1>5 DEF AlreadyBilled
  <2>2. /\ reservations' \in [Keys -> Reservation \cup {NoReservation}]
        /\ \A j \in Keys :
             /\ reservations'[j].status = "settled" <=> reservations[j].status = "settled"
             /\ reservations[j].status = "settled" => reservations'[j] = reservations[j]
    <3>1. CASE Held(k) /\ reservations[k].user = u
      <4>1. reservations' = [reservations EXCEPT ![k] = [reservations[k] EXCEPT !.status = "released"]]
        BY <1>t, <2>1, <3>1 DEF Released, Held
      <4>2. /\ [reservations[k] EXCEPT !.status = "released"] \in Reservation
            /\ [reservations[k] EXCEPT !.status = "released"].status = "released"
        BY <1>h, <3>1 DEF Reservation
      <4>3. QED
        BY <1>t, <3>1, <4>1, <4>2 DEF Held
    <3>2. CASE ~(Held(k) /\ reservations[k].user = u)
      BY <1>t, <2>1, <3>2 DEF Released, Held
    <3>3. QED BY <3>1, <3>2
  <2>3. TypeOK'
    BY <1>t, <2>1, <2>2 DEF TypeOK
  <2>4. ChargedOnce'
    BY <2>1, <2>2 DEF ChargedOnce, ChargesOf
  <2>5. NoOverdraft' /\ LedgerExplainsBalance'
    BY <2>1 DEF NoOverdraft, LedgerExplainsBalance, PermanentRows
  <2>6. QED
    BY <2>1, <2>3, <2>4, <2>5, CyclesUntouched
<1>6. ASSUME NEW u \in Users, NEW k \in Keys, NEW final \in Keys, NEW a \in Amounts,
             SettleOtherAttempt(u, k, final, a)
      PROVE  IInv'
  <2> DEFINE T == [reservations EXCEPT ![final] = Settled(reservations[final], a)]
  <2>1. /\ Held(final) /\ a \in 0..MaxMicros /\ reservations[final].user = u
        /\ DebitCreditsTx(u, a, final, DuringSettle(final))
        /\ reservations' = Released(T, u, k)
        /\ UNCHANGED <<now, config, group, granted>>
    BY <1>0, <1>6 DEF SettleOtherAttempt
  <2>2. /\ Settled(reservations[final], a) \in Reservation
        /\ Settled(reservations[final], a).status = "settled"
        /\ Settled(reservations[final], a).actual = a
        /\ Settled(reservations[final], a).user = reservations[final].user
    BY <1>h, <2>1 DEF Settled, Reservation
  <2>3. /\ T \in [Keys -> Reservation \cup {NoReservation}]
        /\ T[final] = Settled(reservations[final], a)
        /\ \A j \in Keys \ {final} : T[j] = reservations[j]
    BY <1>t, <2>2
  <2> HIDE DEF T
  <2>4. /\ reservations' \in [Keys -> Reservation \cup {NoReservation}]
        /\ reservations'[final] = T[final]
        /\ \A j \in Keys \ {final} :
             /\ reservations'[j].status = "settled" <=> reservations[j].status = "settled"
             /\ reservations[j].status = "settled" => reservations'[j] = reservations[j]
    <3>1. CASE T[k].status = "reserved" /\ T[k].user = u
      <4>1. reservations' = [T EXCEPT ![k] = [T[k] EXCEPT !.status = "released"]]
        BY <2>1, <2>3, <3>1 DEF Released
      <4>2. k # final /\ T[k] \in Reservation
        BY <2>2, <2>3, <3>1 DEF NoReservation
      <4>3. /\ [T[k] EXCEPT !.status = "released"] \in Reservation
            /\ [T[k] EXCEPT !.status = "released"].status = "released"
        BY <4>2 DEF Reservation
      <4>4. QED
        BY <2>3, <3>1, <4>1, <4>2, <4>3
    <3>2. CASE ~(T[k].status = "reserved" /\ T[k].user = u)
      BY <2>1, <2>3, <3>2 DEF Released
    <3>3. QED BY <3>1, <3>2
  <2>5. QED
    BY <1>h, <2>1, <2>2, <2>3, <2>4, ChargeStep
<1>7. ASSUME NEW u \in Users, NEW k \in Keys, NEW final \in Keys, NEW a \in Amounts,
             RekeyAndSettle(u, k, final, a)
      PROVE  IInv'
  <2>1. /\ reservations[final].status = "none" /\ Held(k) /\ a \in 0..MaxMicros
        /\ reservations[k].user = u
        /\ DebitCreditsTx(u, a, final, DuringSettle(k))
        /\ reservations' = [reservations EXCEPT ![k] = NoReservation,
                                                ![final] = Settled(reservations[k], a)]
        /\ UNCHANGED <<now, config, group, granted>>
    BY <1>0, <1>7 DEF RekeyAndSettle
  <2>2. /\ Settled(reservations[k], a) \in Reservation
        /\ Settled(reservations[k], a).status = "settled"
        /\ Settled(reservations[k], a).actual = a
        /\ Settled(reservations[k], a).user = reservations[k].user
    BY <1>h, <2>1 DEF Settled, Reservation
  <2>3. /\ k # final /\ NoReservation.status = "none"
        /\ \A v \in Users : LedgerSum(ledger, ChargesOf(v, final)) = 0
    BY <1>h, <2>1 DEF Held, NoReservation, ChargedOnce
  <2>4. /\ reservations' \in [Keys -> Reservation \cup {NoReservation}]
        /\ reservations'[final] = Settled(reservations[k], a)
        /\ reservations'[k] = NoReservation
        /\ \A j \in Keys \ {k, final} : reservations'[j] = reservations[j]
    BY <1>t, <2>1, <2>2, <2>3
  <2>5. \A j \in Keys \ {final} :
          /\ reservations'[j].status = "settled" <=> reservations[j].status = "settled"
          /\ reservations[j].status = "settled" => reservations'[j] = reservations[j]
    BY <2>1, <2>3, <2>4 DEF Held
  <2>6. QED
    BY <2>1, <2>2, <2>3, <2>4, <2>5, ChargeStep
<1>8. ASSUME NEW u \in Users, NEW a \in Amounts,
             AddPermanentCredits(u, a) \/ RemovePermanentCredits(u, a)
      PROVE  IInv'
  <2>1. UNCHANGED <<now, config, group, anchor, ledger, reservations>>
    BY <1>8 DEF AddPermanentCredits, RemovePermanentCredits
  <2>2. PICK d \in Int :
          /\ permanent[u] + d \in 0..MaxMicros
          /\ permanent' = [permanent EXCEPT ![u] = @ + d]
          /\ granted' = [granted EXCEPT ![u] = @ + d]
    <3>1. permanent[u] \in 0..MaxMicros /\ a \in Nat /\ granted[u] \in Int
      BY <1>0, <1>t DEF NoOverdraft
    <3>2. CASE AddPermanentCredits(u, a)
      <4>1. permanent[u] + a \in 0..MaxMicros /\ a \in Int
        BY <1>0, <3>1, <3>2 DEF AddPermanentCredits
      <4>2. QED
        BY <3>2, <4>1 DEF AddPermanentCredits
    <3>3. CASE RemovePermanentCredits(u, a)
      <4>1. /\ permanent[u] + (0 - a) \in 0..MaxMicros /\ 0 - a \in Int
            /\ permanent[u] + (0 - a) = permanent[u] - a
            /\ granted[u] + (0 - a) = granted[u] - a
        BY <1>0, <3>1, <3>3 DEF RemovePermanentCredits
      <4>2. QED
        BY <3>3, <4>1 DEF RemovePermanentCredits
    <3>4. QED BY <1>8, <3>2, <3>3
  <2>3. TypeOK' /\ NoOverdraft'
    BY <1>t, <2>1, <2>2 DEF TypeOK, NoOverdraft
  <2>4. LedgerExplainsBalance'
    BY <1>t, <2>1, <2>2 DEF LedgerExplainsBalance, PermanentRows
  <2>5. ChargedOnce'
    BY <2>1 DEF ChargedOnce, ChargesOf
  <2>6. QED
    BY <2>1, <2>3, <2>4, <2>5, CyclesUntouched
<1>9. ASSUME NEW u \in Users, NEW g \in Groups, SetUserGroup(u, g)
      PROVE  IInv'
  <2>1. /\ UNCHANGED <<now, config, permanent, ledger, reservations, granted>>
        /\ group' = [group EXCEPT ![u] = g]
        /\ anchor' = [anchor EXCEPT ![u] = NextCreditCycleAnchor(anchor[u])]
    BY <1>9 DEF SetUserGroup
  <2>2. NextCreditCycleAnchor(anchor[u]) \in Nat /\ NextCreditCycleAnchor(anchor[u]) > anchor[u]
    BY <1>t DEF NextCreditCycleAnchor
  <2>3. TypeOK'
    BY <1>t, <2>1, <2>2 DEF TypeOK
  <2>4. \A v \in Users : \/ anchor'[v] > anchor[v]
                         \/ /\ anchor'[v] = anchor[v] /\ group'[v] = group[v]
                            /\ config'[group[v]] = config[group[v]]
    BY <1>t, <2>1, <2>2
  <2>5. RowsBehindCycle' /\ TimedWithinAllowance'
    BY <2>1, <2>3, <2>4, NewCycles DEF TypeOK
  <2>6. NoOverdraft' /\ ChargedOnce' /\ LedgerExplainsBalance'
    BY <2>1 DEF NoOverdraft, ChargedOnce, ChargesOf, LedgerExplainsBalance, PermanentRows
  <2>7. QED
    BY <2>3, <2>5, <2>6
<1>10. ASSUME NEW g \in Groups, NEW c \in Configs, UpdateUserGroup(g, c)
       PROVE  IInv'
  <2>1. /\ UNCHANGED <<now, group, permanent, ledger, reservations, granted>>
        /\ config' = [config EXCEPT ![g] = c]
        /\ anchor' = [u \in Users |-> IF group[u] = g THEN NextCreditCycleAnchor(anchor[u])
                                      ELSE anchor[u]]
    BY <1>10 DEF UpdateUserGroup
  <2>2. \A u \in Users : /\ NextCreditCycleAnchor(anchor[u]) \in Nat
                         /\ NextCreditCycleAnchor(anchor[u]) > anchor[u]
    BY <1>t DEF NextCreditCycleAnchor
  <2>3. TypeOK'
    BY <1>t, <2>1, <2>2 DEF TypeOK
  <2>4. \A v \in Users : \/ anchor'[v] > anchor[v]
                         \/ /\ anchor'[v] = anchor[v] /\ group'[v] = group[v]
                            /\ config'[group[v]] = config[group[v]]
    BY <1>t, <2>1, <2>2
  <2>5. RowsBehindCycle' /\ TimedWithinAllowance'
    BY <2>1, <2>3, <2>4, NewCycles DEF TypeOK
  <2>6. NoOverdraft' /\ ChargedOnce' /\ LedgerExplainsBalance'
    BY <2>1 DEF NoOverdraft, ChargedOnce, ChargesOf, LedgerExplainsBalance, PermanentRows
  <2>7. QED
    BY <2>3, <2>5, <2>6
<1>11. CASE Tick
  <2>1. /\ UNCHANGED <<config, group, anchor, permanent, ledger, reservations, granted>>
        /\ now' = now + 1 /\ now' \in 1..MaxNow
    BY <1>0, <1>t, <1>11 DEF Tick
  <2>2. TypeOK'
    BY <1>t, <2>1 DEF TypeOK
  <2>3. \A i \in DOMAIN ledger :
          /\ ledger[i].user \in Users /\ ledger[i].start \in Nat /\ ledger[i].anchor \in Nat
          /\ ledger[i].anchor > 0 /\ anchor[ledger[i].user] # 0
          /\ ledger[i].anchor <= anchor[ledger[i].user]
          /\ ledger[i].anchor = anchor[ledger[i].user] =>
               /\ ledger[i].group = group[ledger[i].user]
               /\ ledger[i].start <= CycleStart(ledger[i].user)
    BY <1>t, RowType DEF RowsBehindCycle
  <2>4. RowsBehindCycle'
    <3>1. ASSUME NEW i \in DOMAIN ledger, NEW row, row = ledger[i]
          PROVE  /\ 0 < row.anchor /\ row.anchor <= anchor'[row.user]
                 /\ row.anchor = anchor'[row.user] => /\ row.group = group'[row.user]
                                                      /\ row.start <= CycleStart(row.user)'
      <4>1. /\ row.user \in Users /\ row.start \in Nat /\ anchor[row.user] # 0
        BY <2>3, <3>1
      <4>2. /\ CycleStart(row.user) \in Nat /\ CycleStart(row.user)' \in Nat
            /\ CycleStart(row.user) <= CycleStart(row.user)'
        BY <1>11, <4>1, CycleAdvances
      <4>3. QED
        BY <2>1, <2>3, <3>1, <4>1, <4>2
    <3>2. QED
      BY <2>1, <3>1 DEF RowsBehindCycle, CycleStart, CycleAnchor, Timed
  <2>5. TimedWithinAllowance'
    <3>1. ASSUME NEW v \in Users, Timed(v)'
          PROVE  LedgerSum(ledger', TimedRows(v)') <= config'[group'[v]].allowance
      <4>1. config[group[v]].allowance \in Nat
        BY <1>0, <1>t
      <4>2. CASE \E i \in DOMAIN ledger' : ledger'[i] \in TimedRows(v)'
        <5>1. PICK i \in DOMAIN ledger : ledger[i] \in TimedRows(v)'
          BY <2>1, <4>2
        <5>2. /\ ledger[i].user = v /\ anchor[v] # 0
              /\ ledger[i].anchor = CycleAnchor(v)' /\ ledger[i].start = CycleStart(v)'
          BY <2>3, <5>1 DEF TimedRows
        <5>3. CycleAnchor(v)' = anchor[v] /\ CycleAnchor(v) = anchor[v]
          BY <2>1, <5>2 DEF CycleAnchor
        <5>4. CycleStart(v)' <= CycleStart(v)
          BY <2>3, <5>2, <5>3
        <5>5. CycleStart(v)' = CycleStart(v)
          <6>1. /\ CycleStart(v) \in Nat /\ CycleStart(v)' \in Nat
                /\ CycleStart(v) <= CycleStart(v)'
            BY <1>11, <5>2, CycleAdvances
          <6>2. QED BY <5>4, <6>1
        <5>6. TimedRows(v)' = TimedRows(v) /\ Timed(v)
          BY <2>1, <3>1, <5>3, <5>5 DEF TimedRows, Timed
        <5>7. QED
          BY <2>1, <5>6 DEF TimedWithinAllowance, TimedUsed
      <4>3. CASE ~\E i \in DOMAIN ledger' : ledger'[i] \in TimedRows(v)'
        <5>1. LedgerSum(ledger', TimedRows(v)') = 0
          BY <1>t, <2>1, <4>3, LedgerSumZero
        <5>2. QED BY <2>1, <4>1, <5>1
      <4>4. QED BY <4>2, <4>3
    <3>2. QED
      BY <3>1 DEF TimedWithinAllowance, TimedUsed
  <2>6. NoOverdraft' /\ ChargedOnce' /\ LedgerExplainsBalance'
    BY <2>1 DEF NoOverdraft, ChargedOnce, ChargesOf, LedgerExplainsBalance, PermanentRows
  <2>7. QED
    BY <2>2, <2>4, <2>5, <2>6
<1>12. CASE UNCHANGED vars
  <2>1. UNCHANGED <<now, config, group, anchor, permanent, ledger, reservations, granted>>
    BY <1>12 DEF vars
  <2>2. TypeOK' /\ NoOverdraft' /\ ChargedOnce' /\ LedgerExplainsBalance'
    BY <2>1 DEF TypeOK, NoOverdraft, ChargedOnce, ChargesOf, LedgerExplainsBalance, PermanentRows
  <2>3. QED
    BY <2>1, <2>2, CyclesUntouched
<1>13. QED
  BY <1>1, <1>2, <1>3, <1>4, <1>5, <1>6, <1>7, <1>8, <1>9, <1>10, <1>11, <1>12
     DEF Next, SettleCreditReservationByKey

-----------------------------------------------------------------------------
(* The theorems.                                                           *)

\* The inductive invariant holds in every reachable state.
THEOREM Invariant == Spec => []IInv
<1>1. Init => IInv
  BY IInvInit
<1>2. IInv /\ [Next]_vars => IInv'
  BY IInvNext
<1>3. QED
  BY <1>1, <1>2, PTL DEF Spec

\* The tables keep their types.
THEOREM TypeCorrect == Spec => []TypeOK
<1>1. IInv => TypeOK
  BY DEF IInv
<1>2. QED
  BY <1>1, Invariant, PTL

\* No operation of the credit store overdraws a permanent balance.
THEOREM NeverOverdrawn == Spec => []NoOverdraft
<1>1. IInv => NoOverdraft
  BY DEF IInv
<1>2. QED
  BY <1>1, Invariant, PTL

\* The allowance of a cycle is never exceeded, whatever changes of group and of
\* the groups' settings come in between.
THEOREM AllowanceRespected == Spec => []TimedWithinAllowance
<1>1. IInv => TimedWithinAllowance
  BY DEF IInv
<1>2. QED
  BY <1>1, Invariant, PTL

\* Every billing key is charged exactly what its settled reservation records.
THEOREM EachKeyChargedOnce == Spec => []ChargedOnce
<1>1. IInv => ChargedOnce
  BY DEF IInv
<1>2. QED
  BY <1>1, Invariant, PTL

\* The ledger explains every balance.
THEOREM BalanceExplained == Spec => []LedgerExplainsBalance
<1>1. IInv => LedgerExplainsBalance
  BY DEF IInv
<1>2. QED
  BY <1>1, Invariant, PTL

\* Taking a live hold out of the table frees exactly the amount it holds.
LEMMA OwnHoldFreed ==
  ASSUME TypeOK, NEW k \in Keys, Live(k)
  PROVE  Reserved(reservations[k].user, reservations) =
           Reserved(reservations[k].user, DuringSettle(k)) + reservations[k].amount
<1> DEFINE r == reservations[k]
           U == HeldUnits(r.user, reservations)
           V == HeldUnits(r.user, DuringSettle(k))
           D == {k} \X (1..r.amount)
<1>1. /\ r \in Reservation /\ r.amount \in 1..MaxMicros /\ r.status = "reserved"
      /\ r.expiresAt > now /\ MaxMicros \in Nat
  BY CreditAssumption DEF TypeOK, Live, Held, NoReservation, Reservation
<1>2. /\ DuringSettle(k)[k].status = "settling"
      /\ \A j \in Keys \ {k} : DuringSettle(k)[j] = reservations[j]
  BY <1>1 DEF DuringSettle, TypeOK, Reservation
<1>3. U = V \cup D
  <2>1. ASSUME NEW x PROVE x \in U <=> x \in V \cup D
    BY <1>1, <1>2 DEF HeldUnits
  <2>2. QED BY <2>1
<1>4. V \cap D = {}
  BY <1>2 DEF HeldUnits
<1>5. IsFiniteSet(D) /\ Cardinality(D) = r.amount
  <2>1. r.amount \in Nat
    BY <1>1
  <2>2. IsFiniteSet(1..r.amount) /\ Cardinality(1..r.amount) = r.amount
    BY <2>1, UnitsOfAmount
  <2>3. IsFiniteSet({k}) /\ Cardinality({k}) = 1
    BY FS_Singleton
  <2>4. IsFiniteSet(D) /\ Cardinality(D) = 1 * r.amount
    BY <2>2, <2>3, FS_Product, ZenonT(60)
  <2>5. QED BY <2>1, <2>4
<1>6. IsFiniteSet(V) /\ Cardinality(V) \in Nat
  BY ReservedType DEF Reserved
<1>7. Cardinality(V \cup D) = Cardinality(V) + Cardinality(D) - Cardinality(V \cap D)
  BY <1>5, <1>6, FS_Union
<1>8. Cardinality(V \cap D) = 0
  BY <1>4, FS_EmptySet
<1>9. QED
  BY <1>1, <1>3, <1>5, <1>6, <1>7, <1>8 DEF Reserved

\* A hold guarantees its settlement: while the user's holds are covered, settling
\* one of them for the held amount passes the availability check.
THEOREM HoldIsAGuarantee == Spec => []HoldGuaranteesSettlement
<1>1. IInv => HoldGuaranteesSettlement
  <2> SUFFICES ASSUME IInv, NEW k \in Keys, Live(k), Covered(reservations[k].user)
               PROVE  reservations[k].amount <= Available(reservations[k].user, DuringSettle(k))
    BY DEF HoldGuaranteesSettlement
  <2> DEFINE u == reservations[k].user
  <2>1. u \in Users /\ reservations[k].amount \in 1..MaxMicros
    BY DEF IInv, TypeOK, Live, Held, NoReservation, Reservation
  <2>2. Reserved(u, DuringSettle(k)) \in Nat
    BY ReservedType
  <2>3. Reserved(u, reservations) = Reserved(u, DuringSettle(k)) + reservations[k].amount
    BY OwnHoldFreed DEF IInv
  <2>4. Reserved(u, reservations) <= Spendable(u)
    BY DEF Covered
  <2>5. TimedRemaining(u) \in 0..MaxMicros
    BY <2>1, BalanceType DEF IInv
  <2>6. Spendable(u) \in Int
    BY <2>1, <2>5, CreditAssumption DEF Spendable, Smaller, IInv, NoOverdraft
  <2>7. QED
    BY <2>1, <2>2, <2>3, <2>4, <2>6, CreditAssumption DEF Available
<1>2. QED
  BY <1>1, Invariant, PTL

\* A settled or released reservation is final: no later operation changes it.
THEOREM TerminalIsFinal == Spec => TerminalRowsFrozen
<1> DEFINE Frozen == \A k \in Keys : reservations[k].status \in {"settled", "released"}
                       => reservations'[k] = reservations[k]
<1>1. TypeOK /\ [Next]_vars => [Frozen]_vars
  <2> SUFFICES ASSUME TypeOK, Next, NEW j \in Keys,
                      reservations[j].status \in {"settled", "released"}
               PROVE  reservations'[j] = reservations[j]
    OBVIOUS
  <2>t. reservations \in [Keys -> Reservation \cup {NoReservation}]
    BY DEF TypeOK
  <2>1. ASSUME reservations' = reservations PROVE reservations'[j] = reservations[j]
    BY <2>1
  <2>2. ASSUME NEW u \in Users, NEW k \in Keys, NEW a \in Amounts, ReserveCredits(u, k, a)
        PROVE  reservations'[j] = reservations[j]
    BY <2>t, <2>2 DEF ReserveCredits
  <2>3. ASSUME NEW k \in Keys, NEW a, SettleCreditReservation(k, a)
        PROVE  reservations'[j] = reservations[j]
    BY <2>t, <2>3 DEF SettleCreditReservation, Held
  <2>4. ASSUME NEW k \in Keys, ReleaseCreditReservation(k)
        PROVE  reservations'[j] = reservations[j]
    BY <2>t, <2>4 DEF ReleaseCreditReservation, Held
  <2>5. ASSUME NEW u \in Users, NEW k \in Keys, NEW final \in Keys, NEW a \in Amounts,
               SettleCreditReservationByKey(u, k, final, a)
        PROVE  reservations'[j] = reservations[j]
    <3>1. CASE AlreadyBilled(u, k, final)
      BY <2>t, <3>1 DEF AlreadyBilled, Released
    <3>2. CASE SettleOtherAttempt(u, k, final, a)
      <4> DEFINE T == [reservations EXCEPT ![final] = Settled(@, a)]
      <4>1. j # final /\ T[j] = reservations[j] /\ T \in [Keys -> {T[x] : x \in Keys}]
        BY <2>t, <3>2 DEF SettleOtherAttempt, Held
      <4>2. reservations' = Released(T, u, k)
        BY <3>2 DEF SettleOtherAttempt
      <4> HIDE DEF T
      <4>3. QED
        BY <4>1, <4>2 DEF Released
    <3>3. CASE RekeyAndSettle(u, k, final, a)
      BY <2>t, <3>3 DEF RekeyAndSettle, Held
    <3>4. QED
      BY <2>5, <3>1, <3>2, <3>3 DEF SettleCreditReservationByKey
  <2>6. QED
    BY <2>1, <2>2, <2>3, <2>4, <2>5 DEF Next, DebitCredits, AddPermanentCredits,
       RemovePermanentCredits, SetUserGroup, UpdateUserGroup, Tick
<1>2. QED
  BY <1>1, TypeCorrect, PTL DEF Spec, TerminalRowsFrozen

\* A change of group, or of the settings of a group, starts a cycle of which
\* nothing is spent.
THEOREM FreshCycle == Spec => NewCycleIsFresh
<1> DEFINE Fresh == \A u \in Users :
              (group'[u] # group[u] \/ config'[group[u]] # config[group[u]]) => TimedUsed(u)' = 0
<1>1. IInv /\ [Next]_vars => [Fresh]_vars
  <2> SUFFICES ASSUME IInv, Next, NEW v \in Users,
                      group'[v] # group[v] \/ config'[group[v]] # config[group[v]]
               PROVE  TimedUsed(v)' = 0
    OBVIOUS
  <2>t. /\ anchor \in [Users -> Nat] /\ group \in [Users -> Groups]
        /\ config \in [Groups -> Configs] /\ now \in Nat
        /\ ledger \in Seq(LedgerRow) /\ RowsBehindCycle
    BY DEF IInv, TypeOK
  <2>1. ledger' = ledger /\ anchor'[v] > anchor[v]
    <3>1. ASSUME NEW u \in Users, NEW g \in Groups, SetUserGroup(u, g)
          PROVE  ledger' = ledger /\ anchor'[v] > anchor[v]
      BY <2>t, <3>1 DEF SetUserGroup, NextCreditCycleAnchor
    <3>2. ASSUME NEW g \in Groups, NEW c \in Configs, UpdateUserGroup(g, c)
          PROVE  ledger' = ledger /\ anchor'[v] > anchor[v]
      BY <2>t, <3>2 DEF UpdateUserGroup, NextCreditCycleAnchor
    <3>3. ASSUME UNCHANGED <<config, group>> PROVE FALSE
      BY <3>3
    <3>4. QED
      BY <3>1, <3>2, <3>3, ZenonT(60) DEF Next, DebitCredits, ReserveCredits, SettleCreditReservation,
         ReleaseCreditReservation, SettleCreditReservationByKey, AlreadyBilled,
         SettleOtherAttempt, RekeyAndSettle, AddPermanentCredits, RemovePermanentCredits, Tick
  <2>2. CycleAnchor(v)' = anchor'[v] /\ anchor[v] \in Nat
    BY <2>t, <2>1 DEF CycleAnchor
  <2>3. ASSUME NEW i \in DOMAIN ledger', ledger'[i] \in TimedRows(v)' PROVE FALSE
    <3>1. ledger[i].user = v /\ ledger[i].anchor = anchor'[v]
      BY <2>1, <2>2, <2>3 DEF TimedRows
    <3>2. ledger[i].anchor <= anchor[ledger[i].user] /\ ledger[i].anchor \in Nat
      BY <2>1, <2>3, <2>t, RowType DEF RowsBehindCycle
    <3>3. QED
      BY <2>1, <2>2, <3>1, <3>2
  <2>4. LedgerSum(ledger', TimedRows(v)') = 0
    BY <2>t, <2>1, <2>3, LedgerSumZero
  <2>5. QED
    BY <2>4 DEF TimedUsed
<1>2. QED
  BY <1>1, Invariant, PTL DEF Spec, NewCycleIsFresh

-----------------------------------------------------------------------------
(* Holds stay covered.                                                     *)

\* Fewer holds in a table hold no more.
LEMMA FewerHolds ==
  ASSUME NEW U, NEW v, NEW R, U \subseteq HeldUnits(v, R)
  PROVE  IsFiniteSet(U) /\ Cardinality(U) \in Nat /\ Cardinality(U) <= Reserved(v, R)
<1>1. IsFiniteSet(HeldUnits(v, R))
  BY ReservedType
<1>2. IsFiniteSet(U) /\ Cardinality(U) <= Cardinality(HeldUnits(v, R))
  BY <1>1, FS_Subset
<1>3. QED
  BY <1>2, FS_CardinalityType DEF Reserved

\* What a user may spend is a natural number, bounded by what the allowance has left
\* and by the balance.
LEMMA SpendableType ==
  IInv => \A v \in Users :
    /\ TimedUsed(v) \in Nat /\ TimedRemaining(v) \in 0..MaxMicros
    /\ Timed(v) => TimedUsed(v) + TimedRemaining(v) = config[group[v]].allowance
    /\ ~Timed(v) => TimedRemaining(v) = 0
    /\ permanent[v] \in 0..MaxMicros
    /\ Spendable(v) \in 0..MaxMicros
    /\ Spendable(v) <= TimedRemaining(v) + permanent[v]
    /\ \A n \in Nat : n <= MaxMicros /\ n <= TimedRemaining(v) + permanent[v] => n <= Spendable(v)
<1> SUFFICES ASSUME IInv, NEW v \in Users
             PROVE  /\ TimedUsed(v) \in Nat /\ TimedRemaining(v) \in 0..MaxMicros
                    /\ Timed(v) => TimedUsed(v) + TimedRemaining(v) = config[group[v]].allowance
                    /\ ~Timed(v) => TimedRemaining(v) = 0
                    /\ permanent[v] \in 0..MaxMicros
                    /\ Spendable(v) \in 0..MaxMicros
                    /\ Spendable(v) <= TimedRemaining(v) + permanent[v]
                    /\ \A n \in Nat : n <= MaxMicros /\ n <= TimedRemaining(v) + permanent[v]
                                        => n <= Spendable(v)
  OBVIOUS
<1>1. /\ TimedUsed(v) \in Nat /\ TimedRemaining(v) \in 0..MaxMicros
      /\ Timed(v) => TimedUsed(v) + TimedRemaining(v) = config[group[v]].allowance
      /\ ~Timed(v) => TimedRemaining(v) = 0
  BY BalanceType DEF IInv
<1>2. permanent[v] \in 0..MaxMicros /\ MaxMicros \in Nat
  BY CreditAssumption DEF IInv, NoOverdraft
<1>3. /\ Spendable(v) \in 0..MaxMicros
      /\ Spendable(v) <= TimedRemaining(v) + permanent[v]
      /\ \A n \in Nat : n <= MaxMicros /\ n <= TimedRemaining(v) + permanent[v] => n <= Spendable(v)
  BY <1>1, <1>2 DEF Spendable, Smaller
<1>4. QED
  BY <1>1, <1>2, <1>3

\* The same after a step.
LEMMA SpendableTypeNext ==
  IInv' => (\A v \in Users :
    /\ TimedUsed(v) \in Nat /\ TimedRemaining(v) \in 0..MaxMicros
    /\ Timed(v) => TimedUsed(v) + TimedRemaining(v) = config[group[v]].allowance
    /\ ~Timed(v) => TimedRemaining(v) = 0
    /\ permanent[v] \in 0..MaxMicros
    /\ Spendable(v) \in 0..MaxMicros
    /\ Spendable(v) <= TimedRemaining(v) + permanent[v]
    /\ \A n \in Nat : n <= MaxMicros /\ n <= TimedRemaining(v) + permanent[v] => n <= Spendable(v))'
  BY SpendableType, PTL

\* What has been spent of the allowance is not left of it.
LEMMA RemainingFalls ==
  ASSUME IInv, IInv', NEW v \in Users, NEW n \in Nat,
         config' = config, group'[v] = group[v],
         TimedUsed(v)' <= TimedUsed(v) + n, n <= TimedRemaining(v)
  PROVE  TimedRemaining(v)' >= TimedRemaining(v) - n
<1>1. /\ TimedRemaining(v) \in Nat /\ TimedUsed(v) \in Nat
      /\ TimedRemaining(v)' \in Nat /\ TimedUsed(v)' \in Nat
      /\ Timed(v) => TimedUsed(v) + TimedRemaining(v) = config[group[v]].allowance
      /\ ~Timed(v) => TimedRemaining(v) = 0
      /\ Timed(v)' => TimedUsed(v)' + TimedRemaining(v)' = config'[group'[v]].allowance
  BY SpendableType, SpendableTypeNext, CreditAssumption
<1>2. Timed(v)' = Timed(v)
  BY DEF Timed
<1>3. CASE ~Timed(v)
  BY <1>1, <1>3
<1>4. CASE Timed(v)
  <2>1. TimedUsed(v)' + TimedRemaining(v)' = config[group[v]].allowance
    BY <1>1, <1>2, <1>4
  <2>2. config[group[v]].allowance \in Nat
    BY CreditAssumption DEF IInv, TypeOK
  <2>3. QED
    BY <1>1, <1>4, <2>1, <2>2
<1>5. QED
  BY <1>3, <1>4

\* A user who holds no more, has spent no more and has no less stays covered.
LEMMA CoveredStays ==
  ASSUME IInv, IInv', NEW v \in Users, Covered(v),
         config' = config, group'[v] = group[v],
         HeldUnits(v, reservations)' \subseteq HeldUnits(v, reservations),
         TimedUsed(v)' <= TimedUsed(v), permanent'[v] >= permanent[v]
  PROVE  Covered(v)'
<1>1. Cardinality(HeldUnits(v, reservations)') \in Nat
      /\ Cardinality(HeldUnits(v, reservations)') <= Reserved(v, reservations)
  BY FewerHolds
<1>2. Reserved(v, reservations)' \in Nat /\ Reserved(v, reservations)' <= Reserved(v, reservations)
  BY <1>1 DEF Reserved
<1>3. Reserved(v, reservations) \in Nat
  BY ReservedType
<1>4. TimedUsed(v) \in Nat /\ TimedRemaining(v) \in Nat /\ permanent[v] \in Nat
      /\ TimedRemaining(v)' \in Nat /\ permanent'[v] \in Nat
  BY SpendableType, SpendableTypeNext, CreditAssumption
<1>5. TimedRemaining(v)' >= TimedRemaining(v)
  <2>1. 0 \in Nat /\ TimedUsed(v)' <= TimedUsed(v) + 0 /\ 0 <= TimedRemaining(v)
    BY <1>4
  <2>2. TimedRemaining(v)' >= TimedRemaining(v) - 0
    BY <2>1, RemainingFalls
  <2>3. QED
    BY <1>4, <2>2
<1>6. /\ Spendable(v) \in 0..MaxMicros /\ Spendable(v) <= TimedRemaining(v) + permanent[v]
      /\ \A n \in Nat : n <= MaxMicros /\ n <= TimedRemaining(v)' + permanent'[v] => n <= Spendable(v)'
  BY SpendableType, SpendableTypeNext
<1>7. Reserved(v, reservations) <= Spendable(v)
  BY DEF Covered
<1>8. Reserved(v, reservations)' <= Spendable(v)'
  BY <1>2, <1>3, <1>4, <1>5, <1>6, <1>7, CreditAssumption
<1>9. QED
  BY <1>8 DEF Covered

\* A debit is checked against the holds that are there besides it: when those are all
\* that is held afterwards, they are covered.
LEMMA DebitCovers ==
  ASSUME IInv, IInv', NEW u \in Users, NEW amount \in 0..MaxMicros,
         NEW source \in Keys \cup {NoKey}, NEW R,
         DebitCreditsTx(u, amount, source, R), UNCHANGED <<now, config, group>>,
         HeldUnits(u, reservations)' \subseteq HeldUnits(u, R),
         Reserved(u, R) <= Reserved(u, reservations)
  PROVE  \A v \in Users :
           /\ TimedUsed(v)' <= TimedUsed(v) + (IF v = u THEN amount ELSE 0)
           /\ v # u => TimedUsed(v)' <= TimedUsed(v) /\ permanent'[v] = permanent[v]
           /\ v = u /\ Covered(v) => Covered(v)'
<1>1. \A v \in Users :
        /\ TimedUsed(v)' <= TimedUsed(v) + (IF v = u THEN TimedPart(u, amount) ELSE 0)
        /\ permanent'[v] = permanent[v] - (IF v = u THEN amount - TimedPart(u, amount) ELSE 0)
  BY DebitEffect DEF IInv
<1>2. \A v \in Users : TimedUsed(v) \in Nat /\ permanent[v] \in Int /\ TimedUsed(v)' \in Nat
  BY SpendableType, SpendableTypeNext, CreditAssumption
<1>3. /\ TimedRemaining(u) \in 0..MaxMicros /\ permanent[u] \in Nat /\ MaxMicros \in Nat
      /\ permanent'[u] \in Nat /\ TimedRemaining(u)' \in Nat
  BY SpendableType, SpendableTypeNext, CreditAssumption
<1>4. TimedPart(u, amount) \in 0..amount /\ TimedPart(u, amount) <= TimedRemaining(u)
  BY <1>3 DEF TimedPart, Smaller
<1>5. ASSUME Covered(u) PROVE Covered(u)'
  <2>1. /\ Cardinality(HeldUnits(u, reservations)') \in Nat
        /\ Cardinality(HeldUnits(u, reservations)') <= Reserved(u, R)
    BY FewerHolds
  <2>2. Reserved(u, reservations)' \in Nat /\ Reserved(u, reservations)' <= Reserved(u, R)
    BY <2>1 DEF Reserved
  <2>3. Reserved(u, R) \in Nat /\ Reserved(u, reservations) \in Nat
    BY ReservedType
  <2>4. /\ Spendable(u) \in 0..MaxMicros /\ Spendable(u) <= TimedRemaining(u) + permanent[u]
        /\ \A n \in Nat : n <= MaxMicros /\ n <= TimedRemaining(u)' + permanent'[u] => n <= Spendable(u)'
    BY SpendableType, SpendableTypeNext
  <2>5. amount + Reserved(u, R) <= Spendable(u)
    <3>1. CASE amount = 0
      BY <1>5, <2>3, <2>4, <3>1 DEF Covered
    <3>2. CASE amount # 0
      <4>1. amount <= Available(u, R)
        BY <3>2 DEF DebitCreditsTx
      <4>2. QED
        BY <1>3, <2>3, <2>4, <3>2, <4>1 DEF Available
    <3>3. QED BY <3>1, <3>2
  <2>6. TimedRemaining(u)' >= TimedRemaining(u) - TimedPart(u, amount)
    <3>1. TimedUsed(u)' <= TimedUsed(u) + TimedPart(u, amount)
      BY <1>1
    <3>2. TimedPart(u, amount) \in Nat
      BY <1>3, <1>4
    <3>3. QED
      BY <1>4, <3>1, <3>2, RemainingFalls
  <2>7. permanent'[u] = permanent[u] - (amount - TimedPart(u, amount))
    BY <1>1
  <2>8. Reserved(u, reservations)' <= Spendable(u)'
    <3>1. Reserved(u, R) <= TimedRemaining(u)' + permanent'[u] /\ Reserved(u, R) <= MaxMicros
      BY <1>3, <1>4, <2>3, <2>4, <2>5, <2>6, <2>7
    <3>2. QED
      BY <1>3, <2>2, <2>3, <2>4, <3>1
  <2>9. QED
    BY <2>8 DEF Covered
<1>6. QED
  BY <1>1, <1>2, <1>3, <1>4, <1>5
\* What is held in a table is held in another that has the same holds and more.
LEMMA HoldsWithin ==
  ASSUME NEW v, NEW R, now' = now,
         \A k \in Keys : reservations'[k].status = "reserved" => R[k] = reservations'[k]
  PROVE  HeldUnits(v, reservations)' \subseteq HeldUnits(v, R)
  BY DEF HeldUnits

\* A settlement takes its own hold out of the way, and that only.
LEMMA HoldsBesides ==
  ASSUME TypeOK, NEW u, NEW k \in Keys
  PROVE  Reserved(u, DuringSettle(k)) <= Reserved(u, reservations)
<1>1. HeldUnits(u, DuringSettle(k)) \subseteq HeldUnits(u, reservations)
  BY DEF HeldUnits, DuringSettle, TypeOK
<1>2. QED
  BY <1>1, FewerHolds DEF Reserved

\* A later anchor is the beginning of a cycle of which nothing is spent.
LEMMA FreshAnchor ==
  ASSUME TypeOK, RowsBehindCycle, NEW v \in Users, ledger' = ledger,
         anchor'[v] \in Nat, anchor'[v] > anchor[v]
  PROVE  TimedUsed(v)' = 0
<1>1. CycleAnchor(v)' = anchor'[v] /\ anchor[v] \in Nat /\ ledger \in Seq(LedgerRow)
  BY DEF CycleAnchor, TypeOK
<1>2. ASSUME NEW i \in DOMAIN ledger', ledger'[i] \in TimedRows(v)' PROVE FALSE
  <2>1. ledger[i].user = v /\ ledger[i].anchor = anchor'[v]
    BY <1>1, <1>2 DEF TimedRows
  <2>2. ledger[i].anchor <= anchor[ledger[i].user] /\ ledger[i].anchor \in Nat
    BY <1>1, <1>2, RowType DEF RowsBehindCycle
  <2>3. QED
    BY <1>1, <2>1, <2>2
<1>3. LedgerSum(ledger', TimedRows(v)') = 0
  BY <1>1, <1>2, LedgerSumZero
<1>4. QED
  BY <1>3 DEF TimedUsed

\* The passage of time spends nothing: it leaves a user in the cycle, or moves it to
\* one that no row belongs to.
LEMMA TickSpendsNothing ==
  ASSUME TypeOK, RowsBehindCycle, Tick, NEW v \in Users
  PROVE  TimedUsed(v)' <= TimedUsed(v)
<1>1. /\ ledger' = ledger /\ anchor' = anchor /\ group' = group /\ config' = config
      /\ ledger \in Seq(LedgerRow)
  BY DEF Tick, TypeOK
<1>2. TimedUsed(v) \in Nat
  BY <1>1, LedgerSumType DEF TimedUsed
<1>3. CASE \E i \in DOMAIN ledger : ledger[i] \in TimedRows(v)'
  <2>1. PICK i \in DOMAIN ledger : ledger[i] \in TimedRows(v)'
    BY <1>3
  <2>2. /\ ledger[i].user = v /\ ledger[i].anchor = CycleAnchor(v)'
        /\ ledger[i].start = CycleStart(v)' /\ ledger[i].anchor \in Nat
    BY <1>1, <2>1, RowType DEF TimedRows
  <2>3. /\ 0 < ledger[i].anchor /\ ledger[i].anchor <= anchor[v] /\ anchor[v] \in Nat
        /\ ledger[i].anchor = anchor[v] => ledger[i].start <= CycleStart(v)
    BY <2>2 DEF RowsBehindCycle, TypeOK
  <2>4. anchor[v] # 0
    BY <2>2, <2>3
  <2>5. CycleAnchor(v)' = anchor[v] /\ CycleAnchor(v) = anchor[v]
    BY <1>1, <2>4 DEF CycleAnchor
  <2>6. CycleStart(v) \in Nat /\ CycleStart(v)' \in Nat /\ CycleStart(v) <= CycleStart(v)'
    BY <2>4, CycleAdvances
  <2>7. CycleStart(v)' = CycleStart(v)
    BY <2>2, <2>3, <2>5, <2>6
  <2>8. TimedRows(v)' = TimedRows(v)
    BY <1>1, <2>5, <2>7 DEF TimedRows
  <2>9. QED
    BY <1>1, <1>2, <2>8 DEF TimedUsed
<1>4. CASE ~\E i \in DOMAIN ledger : ledger[i] \in TimedRows(v)'
  <2>1. LedgerSum(ledger', TimedRows(v)') = 0
    BY <1>1, <1>4, LedgerSumZero
  <2>2. QED
    BY <1>2, <2>1 DEF TimedUsed
<1>5. QED
  BY <1>3, <1>4

\* A new hold is checked against what the others leave.
LEMMA ReserveCovers ==
  ASSUME IInv, IInv', NEW u \in Users, NEW k \in Keys, NEW a \in Amounts,
         ReserveCredits(u, k, a)
  PROVE  Covered(u)'
<1>1. /\ a <= Available(u, reservations) /\ a \in Nat /\ a > 0 /\ MaxMicros \in Nat
      /\ reservations' = [reservations EXCEPT ![k] =
           [user |-> u, amount |-> a, actual |-> 0, status |-> "reserved",
            expiresAt |-> now + TTL]]
      /\ UNCHANGED <<now, config, group, anchor, permanent, ledger, granted>>
      /\ reservations \in [Keys -> Reservation \cup {NoReservation}]
  BY CreditAssumption DEF ReserveCredits, IInv, TypeOK
<1> DEFINE U == HeldUnits(u, reservations)
           D == {k} \X (1..a)
<1>2. HeldUnits(u, reservations)' \subseteq U \cup D
  BY <1>1 DEF HeldUnits
<1>3. IsFiniteSet(U) /\ Cardinality(U) \in Nat /\ Cardinality(U) = Reserved(u, reservations)
  BY ReservedType DEF Reserved
<1>4. IsFiniteSet(D) /\ Cardinality(D) = a
  BY <1>1, UnitsOfOne
<1> HIDE DEF U, D
<1>5. IsFiniteSet(U \cup D) /\ Cardinality(U \cup D) <= Cardinality(U) + a
  <2>1. /\ IsFiniteSet(U \cup D)
        /\ Cardinality(U \cup D) = Cardinality(U) + Cardinality(D) - Cardinality(U \cap D)
    BY <1>3, <1>4, FS_Union
  <2>2. IsFiniteSet(U \cap D) /\ Cardinality(U \cap D) \in Nat
    BY <1>3, FS_Intersection, FS_CardinalityType
  <2>3. QED
    BY <1>1, <1>3, <1>4, <2>1, <2>2
<1>6. /\ Reserved(u, reservations)' \in Nat
      /\ Reserved(u, reservations)' <= Reserved(u, reservations) + a
  <2>1. /\ IsFiniteSet(HeldUnits(u, reservations)')
        /\ Cardinality(HeldUnits(u, reservations)') <= Cardinality(U \cup D)
    BY <1>2, <1>5, FS_Subset
  <2>2. Cardinality(HeldUnits(u, reservations)') \in Nat /\ Cardinality(U \cup D) \in Nat
    BY <1>5, <2>1, FS_CardinalityType
  <2>3. QED
    BY <1>1, <1>3, <1>5, <2>1, <2>2 DEF Reserved
<1>7. Spendable(u) \in Nat
  BY <1>1, SpendableType
<1>8. Reserved(u, reservations) + a <= Spendable(u)
  BY <1>1, <1>3, <1>7 DEF Available
<1>9. Spendable(u)' = Spendable(u)
  BY <1>1 DEF Spendable, TimedRemaining, TimedUsed, TimedRows, Timed, CycleStart, CycleAnchor
<1>10. QED
  BY <1>1, <1>3, <1>6, <1>7, <1>8, <1>9 DEF Covered

\* Only an administrator can strand a hold, by removing credits or by changing the
\* group or its settings: a debit, a hold and a settlement are checked against the
\* holds beside them, and a release, a top-up and the passage of time only free.
THEOREM HoldsCovered == Spec => HoldsStayCovered
<1> DEFINE Stay == \A u \in Users : Covered(u) /\ ~Covered(u)' =>
              granted'[u] < granted[u] \/ group'[u] # group[u] \/ config' # config
<1>1. IInv /\ [Next]_vars => [Stay]_vars
  <2> SUFFICES ASSUME IInv, Next, NEW v \in Users, Covered(v),
                      group'[v] = group[v], config' = config, ~(granted'[v] < granted[v])
               PROVE  Covered(v)'
    BY Zenon
  <2>i. IInv'
    BY IInvNext
  <2>t. /\ anchor \in [Users -> Nat] /\ group \in [Users -> Groups]
        /\ config \in [Groups -> Configs] /\ now \in Nat
        /\ permanent \in [Users -> Int] /\ granted \in [Users -> Int]
        /\ ledger \in Seq(LedgerRow) /\ RowsBehindCycle /\ TypeOK
        /\ reservations \in [Keys -> Reservation \cup {NoReservation}]
        /\ Amounts \subseteq 1..MaxMicros /\ MaxMicros \in Nat
        /\ TimedUsed(v) \in Nat /\ permanent[v] \in Nat
    <3>1. TypeOK /\ RowsBehindCycle
      BY DEF IInv
    <3>2. Amounts \subseteq 1..MaxMicros /\ MaxMicros \in Nat
      BY CreditAssumption
    <3>3. TimedUsed(v) \in Nat /\ permanent[v] \in Nat
      BY <3>2, SpendableType
    <3>4. QED
      BY <3>1, <3>2, <3>3 DEF TypeOK
  <2>r. ASSUME UNCHANGED <<now, config, group, anchor, ledger>>
        PROVE  TimedUsed(v)' = TimedUsed(v)
    BY <2>r DEF TimedUsed, TimedRows, Timed, CycleStart, CycleAnchor
  \* A debit of u that sees the table R, of which no hold is lost.
  <2>d. ASSUME NEW u \in Users, NEW a \in 0..MaxMicros, NEW source \in Keys \cup {NoKey},
               NEW R, DebitCreditsTx(u, a, source, R), UNCHANGED <<now, config, group>>,
               Reserved(u, R) <= Reserved(u, reservations),
               \A k \in Keys : reservations'[k].status = "reserved" =>
                                 R[k] = reservations'[k] /\ reservations[k] = reservations'[k]
        PROVE  Covered(v)'
    <3>1. /\ HeldUnits(u, reservations)' \subseteq HeldUnits(u, R)
          /\ HeldUnits(v, reservations)' \subseteq HeldUnits(v, reservations)
      BY <2>d, HoldsWithin
    <3>2. /\ v # u => TimedUsed(v)' <= TimedUsed(v) /\ permanent'[v] = permanent[v]
          /\ v = u /\ Covered(v) => Covered(v)'
      BY <2>i, <2>d, <3>1, DebitCovers
    <3>3. CASE v = u
      BY <3>2, <3>3
    <3>4. CASE v # u
      <4>1. TimedUsed(v)' <= TimedUsed(v) /\ permanent'[v] >= permanent[v]
        BY <2>t, <3>2, <3>4
      <4>2. HeldUnits(v, reservations)' \subseteq HeldUnits(v, reservations)
        BY <3>1
      <4>3. QED
        BY <2>i, <4>1, <4>2, CoveredStays
    <3>5. QED BY <3>3, <3>4
  <2>1. ASSUME NEW u \in Users, NEW a \in Amounts, DebitCredits(u, a)
        PROVE  Covered(v)'
    <3>1. /\ a \in 0..MaxMicros /\ NoKey \in Keys \cup {NoKey}
          /\ DebitCreditsTx(u, a, NoKey, reservations)
          /\ UNCHANGED <<now, config, group>> /\ reservations' = reservations
      BY <2>t, <2>1 DEF DebitCredits
    <3>2. Reserved(u, reservations) <= Reserved(u, reservations)
      BY ReservedType
    <3>3. QED
      BY <2>d, <3>1, <3>2
  <2>2. ASSUME NEW u \in Users, NEW k \in Keys, NEW a \in Amounts, ReserveCredits(u, k, a)
        PROVE  Covered(v)'
    <3>1. CASE v = u
      BY <2>i, <2>2, <3>1, ReserveCovers
    <3>2. CASE v # u
      <4>1. /\ UNCHANGED <<now, config, group, anchor, permanent, ledger>>
            /\ HeldUnits(v, reservations)' \subseteq HeldUnits(v, reservations)
        BY <2>t, <2>2, <3>2 DEF ReserveCredits, HeldUnits
      <4>2. TimedUsed(v)' <= TimedUsed(v) /\ permanent'[v] >= permanent[v]
        BY <2>r, <2>t, <4>1
      <4>3. QED
        BY <2>i, <4>1, <4>2, CoveredStays
    <3>3. QED BY <3>1, <3>2
  <2>3. ASSUME NEW k \in Keys, NEW a \in Amounts \cup {0}, SettleCreditReservation(k, a)
        PROVE  Covered(v)'
    <3>1. /\ Held(k) /\ a \in 0..MaxMicros /\ k \in Keys \cup {NoKey}
          /\ DebitCreditsTx(reservations[k].user, a, k, DuringSettle(k))
          /\ reservations' = [reservations EXCEPT ![k] = Settled(reservations[k], a)]
          /\ UNCHANGED <<now, config, group>>
      BY <2>t, <2>3 DEF SettleCreditReservation
    <3>2. reservations[k].user \in Users /\ Settled(reservations[k], a).status = "settled"
      BY <2>t, <3>1 DEF Held, NoReservation, Reservation, Settled
    <3>3. \A j \in Keys : reservations'[j].status = "reserved" =>
            DuringSettle(k)[j] = reservations'[j] /\ reservations[j] = reservations'[j]
      BY <2>t, <3>1, <3>2 DEF DuringSettle
    <3>4. Reserved(reservations[k].user, DuringSettle(k)) <= Reserved(reservations[k].user, reservations)
      BY <2>t, HoldsBesides
    <3>5. QED
      BY <2>d, <3>1, <3>2, <3>3, <3>4
  <2>4. ASSUME NEW u \in Users, NEW k \in Keys, NEW final \in Keys, NEW a \in Amounts,
               SettleOtherAttempt(u, k, final, a)
        PROVE  Covered(v)'
    <3>1. /\ Held(final) /\ a \in 0..MaxMicros /\ final \in Keys \cup {NoKey}
          /\ DebitCreditsTx(u, a, final, DuringSettle(final))
          /\ reservations' =
               Released([reservations EXCEPT ![final] = Settled(reservations[final], a)], u, k)
          /\ UNCHANGED <<now, config, group>>
      BY <2>t, <2>4 DEF SettleOtherAttempt
    <3>2. Settled(reservations[final], a).status = "settled"
      BY <2>t, <3>1 DEF Held, NoReservation, Reservation, Settled
    <3>3. \A j \in Keys : reservations'[j].status = "reserved" =>
            DuringSettle(final)[j] = reservations'[j] /\ reservations[j] = reservations'[j]
      BY <2>t, <3>1, <3>2 DEF DuringSettle, Released, NoReservation, Reservation
    <3>4. Reserved(u, DuringSettle(final)) <= Reserved(u, reservations)
      BY <2>t, HoldsBesides
    <3>5. QED
      BY <2>d, <3>1, <3>3, <3>4
  <2>5. ASSUME NEW u \in Users, NEW k \in Keys, NEW final \in Keys, NEW a \in Amounts,
               RekeyAndSettle(u, k, final, a)
        PROVE  Covered(v)'
    <3>1. /\ Held(k) /\ a \in 0..MaxMicros /\ final \in Keys \cup {NoKey}
          /\ DebitCreditsTx(u, a, final, DuringSettle(k))
          /\ reservations' = [reservations EXCEPT ![k] = NoReservation,
                                                  ![final] = Settled(reservations[k], a)]
          /\ UNCHANGED <<now, config, group>>
      BY <2>t, <2>5 DEF RekeyAndSettle
    <3>2. Settled(reservations[k], a).status = "settled" /\ NoReservation.status = "none"
      BY <2>t, <3>1 DEF Held, NoReservation, Reservation, Settled
    <3>3. \A j \in Keys : reservations'[j].status = "reserved" =>
            DuringSettle(k)[j] = reservations'[j] /\ reservations[j] = reservations'[j]
      BY <2>t, <3>1, <3>2 DEF DuringSettle
    <3>4. Reserved(u, DuringSettle(k)) <= Reserved(u, reservations)
      BY <2>t, HoldsBesides
    <3>5. QED
      BY <2>d, <3>1, <3>3, <3>4
  <2>6. ASSUME UNCHANGED <<now, config, group, anchor, permanent, ledger>>,
               \A j \in Keys : reservations'[j].status = "reserved" =>
                                 reservations[j] = reservations'[j]
        PROVE  Covered(v)'
    <3>1. HeldUnits(v, reservations)' \subseteq HeldUnits(v, reservations)
      BY <2>6, HoldsWithin
    <3>2. TimedUsed(v)' <= TimedUsed(v) /\ permanent'[v] >= permanent[v]
      BY <2>r, <2>t, <2>6
    <3>3. QED
      BY <2>i, <2>6, <3>1, <3>2, CoveredStays
  <2>7. ASSUME NEW k \in Keys, ReleaseCreditReservation(k)
        PROVE  Covered(v)'
    <3>1. /\ UNCHANGED <<now, config, group, anchor, permanent, ledger>>
          /\ \A j \in Keys : reservations'[j].status = "reserved" =>
                               reservations[j] = reservations'[j]
      BY <2>t, <2>7 DEF ReleaseCreditReservation, Held, NoReservation, Reservation
    <3>2. QED BY <2>6, <3>1
  <2>8. ASSUME NEW u \in Users, NEW k \in Keys, NEW final \in Keys, AlreadyBilled(u, k, final)
        PROVE  Covered(v)'
    <3>1. /\ UNCHANGED <<now, config, group, anchor, permanent, ledger>>
          /\ \A j \in Keys : reservations'[j].status = "reserved" =>
                               reservations[j] = reservations'[j]
      BY <2>t, <2>8 DEF AlreadyBilled, Released, NoReservation, Reservation
    <3>2. QED BY <2>6, <3>1
  <2>9. ASSUME UNCHANGED <<now, config, group, anchor, ledger, reservations>>,
               permanent'[v] >= permanent[v]
        PROVE  Covered(v)'
    <3>1. HeldUnits(v, reservations)' \subseteq HeldUnits(v, reservations)
      BY <2>9, HoldsWithin
    <3>2. TimedUsed(v)' <= TimedUsed(v)
      BY <2>r, <2>t, <2>9
    <3>3. QED
      BY <2>i, <2>9, <3>1, <3>2, CoveredStays
  <2>10. ASSUME NEW u \in Users, NEW a \in Amounts, AddPermanentCredits(u, a)
         PROVE  Covered(v)'
    <3>1. /\ UNCHANGED <<now, config, group, anchor, ledger, reservations>>
          /\ permanent'[v] >= permanent[v]
      BY <2>t, <2>10 DEF AddPermanentCredits
    <3>2. QED BY <2>9, <3>1
  <2>11. ASSUME NEW u \in Users, NEW a \in Amounts, RemovePermanentCredits(u, a)
         PROVE  Covered(v)'
    <3>1. v # u
      BY <2>t, <2>11 DEF RemovePermanentCredits
    <3>2. /\ UNCHANGED <<now, config, group, anchor, ledger, reservations>>
          /\ permanent'[v] >= permanent[v]
      BY <2>t, <2>11, <3>1 DEF RemovePermanentCredits
    <3>3. QED BY <2>9, <3>2
  <2>12. ASSUME NEW u \in Users, NEW g \in Groups, SetUserGroup(u, g)
         PROVE  Covered(v)'
    <3>1. /\ UNCHANGED <<now, config, permanent, ledger, reservations>>
          /\ anchor' = [anchor EXCEPT ![u] = NextCreditCycleAnchor(anchor[u])]
          /\ NextCreditCycleAnchor(anchor[u]) \in Nat
          /\ NextCreditCycleAnchor(anchor[u]) > anchor[u]
      BY <2>t, <2>12 DEF SetUserGroup, NextCreditCycleAnchor
    <3>2. HeldUnits(v, reservations)' \subseteq HeldUnits(v, reservations)
      BY <3>1, HoldsWithin
    <3>3. TimedUsed(v)' <= TimedUsed(v)
      <4>1. CASE v = u
        <5>1. TimedUsed(v)' = 0
          BY <2>t, <3>1, <4>1, FreshAnchor
        <5>2. QED BY <2>t, <5>1
      <4>2. CASE v # u
        <5>1. anchor'[v] = anchor[v]
          BY <2>t, <3>1, <4>2
        <5>2. TimedUsed(v)' = TimedUsed(v)
          BY <3>1, <5>1 DEF TimedUsed, TimedRows, Timed, CycleStart, CycleAnchor
        <5>3. QED BY <2>t, <5>2
      <4>3. QED BY <4>1, <4>2
    <3>4. permanent'[v] >= permanent[v]
      BY <2>t, <3>1
    <3>5. QED
      BY <2>i, <3>2, <3>3, <3>4, CoveredStays
  <2>13. ASSUME NEW g \in Groups, NEW c \in Configs, UpdateUserGroup(g, c)
         PROVE  FALSE
    BY <2>t, <2>13 DEF UpdateUserGroup
  <2>14. CASE Tick
    <3>1. /\ now' = now + 1 /\ UNCHANGED <<permanent, reservations>>
      BY <2>14 DEF Tick
    <3>2. HeldUnits(v, reservations)' \subseteq HeldUnits(v, reservations)
      <4>1. ASSUME NEW k \in Keys, reservations[k].status = "reserved",
                   reservations[k].expiresAt > now'
            PROVE  reservations[k].expiresAt > now
        <5>1. reservations[k].expiresAt \in Nat
          BY <2>t, <4>1 DEF Reservation, NoReservation
        <5>2. QED
          BY <2>t, <3>1, <4>1, <5>1
      <4>2. QED
        BY <3>1, <4>1 DEF HeldUnits
    <3>3. TimedUsed(v)' <= TimedUsed(v)
      BY <2>t, <2>14, TickSpendsNothing
    <3>4. permanent'[v] >= permanent[v]
      BY <2>t, <3>1
    <3>5. QED
      BY <2>i, <3>2, <3>3, <3>4, CoveredStays
  <2>15. ASSUME NEW u \in Users, NEW k \in Keys, NEW final \in Keys, NEW a \in Amounts,
                SettleCreditReservationByKey(u, k, final, a)
         PROVE  Covered(v)'
    BY <2>4, <2>5, <2>8, <2>15 DEF SettleCreditReservationByKey
  <2>16. QED
    BY <2>1, <2>2, <2>3, <2>7, <2>10, <2>11, <2>12, <2>13, <2>14, <2>15, ZenonT(60) DEF Next
<1>2. QED
  BY <1>1, Invariant, PTL DEF Spec, HoldsStayCovered
=============================================================================
