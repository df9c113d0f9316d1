------------------------- MODULE UsageBillingProofs -------------------------
(* Theorems about UsageBilling, for any number of calls, any allowances    *)
(* and any costs.                                                          *)
EXTENDS UsageBilling, FiniteSetTheorems, TLAPS

-----------------------------------------------------------------------------
(* Sums of amounts, counted unit by unit.                                  *)

\* The amounts of finitely many calls make finitely many units.
LEMMA TotalType ==
  ASSUME NEW S \in SUBSET Requests, NEW f \in [S -> Nat]
  PROVE  IsFiniteSet(Units(f)) /\ Total(f) \in Nat
<1> DEFINE part(r) == {r} \X (1..f[r])
           parts == {part(r) : r \in S}
<1>1. IsFiniteSet(S)
  BY FS_Subset, UsageAssumption
<1>2. PICK n \in Nat : ExistsSurjection(1..n, S)
  BY <1>1, FS_NatSurjection
<1>3. PICK h \in Surjection(1..n, S) : TRUE
  BY <1>2 DEF ExistsSurjection
<1>4. h \in [1..n -> S] /\ \A r \in S : \E i \in 1..n : h[i] = r
  BY <1>3 DEF Surjection
<1> DEFINE k == [i \in 1..n |-> part(h[i])]
<1>5. k \in [1..n -> parts] /\ \A p \in parts : \E i \in 1..n : k[i] = p
  BY <1>4
<1>6. k \in Surjection(1..n, parts)
  BY <1>5 DEF Surjection
<1>7. IsFiniteSet(parts)
  BY <1>2, <1>6, FS_NatSurjection DEF ExistsSurjection
<1>8. ASSUME NEW p \in parts PROVE IsFiniteSet(p)
  <2>1. PICK r \in S : p = part(r)
    OBVIOUS
  <2>2. f[r] \in Int /\ 1 \in Int
    OBVIOUS
  <2>3. IsFiniteSet(1..f[r]) /\ IsFiniteSet({r})
    BY <2>2, FS_Interval, FS_Singleton, Zenon
  <2> QED BY <2>1, <2>3, FS_Product
<1>9. IsFiniteSet(UNION parts)
  BY <1>7, <1>8, FS_UNION
<1>10. Units(f) = UNION parts
  BY DEF Units
<1> QED BY <1>9, <1>10, FS_CardinalityType DEF Total

\* Units belong to a call whose amount they do not exceed.
LEMMA UnitsOf ==
  ASSUME NEW S, NEW f \in [S -> Nat], NEW p
  PROVE  p \in Units(f) <=> \E r \in S : \E i \in 1..f[r] : p = <<r, i>>
BY DEF Units

\* A sum does not exceed another that covers each of its amounts.
LEMMA TotalCovered ==
  ASSUME NEW S \in SUBSET Requests, NEW T \in SUBSET Requests,
         NEW f \in [S -> Nat], NEW g \in [T -> Nat],
         \A s \in S : f[s] = 0 \/ (s \in T /\ f[s] <= g[s])
  PROVE  Total(f) <= Total(g)
<1>1. IsFiniteSet(Units(g))
  BY TotalType
<1>2. ASSUME NEW p \in Units(f) PROVE p \in Units(g)
  <2>1. PICK r \in S : \E i \in 1..f[r] : p = <<r, i>>
    BY UnitsOf
  <2>2. PICK i \in 1..f[r] : p = <<r, i>>
    BY <2>1
  <2>3. r \in T /\ f[r] <= g[r] /\ g[r] \in Nat /\ f[r] \in Nat
    BY <2>2
  <2>4. i \in 1..g[r]
    BY <2>3
  <2> QED BY <2>2, <2>3, <2>4, UnitsOf
<1> QED BY <1>1, <1>2, FS_Subset DEF Total

\* A sum exceeds another by no more than the one amount that is not covered there.
LEMMA TotalGrows ==
  ASSUME NEW S \in SUBSET Requests, NEW T \in SUBSET Requests,
         NEW f \in [S -> Nat], NEW g \in [T -> Nat], NEW c \in Requests, NEW n \in Nat,
         \A s \in S \ {c} : f[s] = 0 \/ (s \in T /\ f[s] <= g[s]),
         c \in S => f[c] <= n
  PROVE  Total(f) <= Total(g) + n
<1> DEFINE more == {c} \X (1..n)
<1>1. IsFiniteSet(more) /\ Cardinality(more) = n
  <2>1. 1 \in Int /\ n \in Int
    OBVIOUS
  <2>2. IsFiniteSet(1..n) /\ Cardinality(1..n) = IF 1 > n THEN 0 ELSE n - 1 + 1
    BY <2>1, FS_Interval, Zenon
  <2>3. Cardinality(1..n) = n
    BY <2>2
  <2>4. IsFiniteSet({c}) /\ Cardinality({c}) = 1
    BY FS_Singleton
  <2>5. IsFiniteSet(1..n)
    BY <2>2
  <2>6. IsFiniteSet(more) /\ Cardinality(more) = Cardinality({c}) * Cardinality(1..n)
    BY <2>4, <2>5, FS_Product, Zenon
  <2>7. Cardinality({c}) * Cardinality(1..n) = 1 * n
    BY <2>3, <2>4, Zenon
  <2> QED BY <2>6, <2>7
<1>2. IsFiniteSet(Units(g)) /\ Total(g) \in Nat /\ Total(f) \in Nat
  BY TotalType
<1>3. Units(f) \subseteq Units(g) \cup more
  <2>1. ASSUME NEW p \in Units(f) PROVE p \in Units(g) \cup more
    <3>0. PICK r \in S : \E i \in 1..f[r] : p = <<r, i>>
      BY UnitsOf
    <3>1. PICK i \in 1..f[r] : p = <<r, i>>
      BY <3>0
    <3>2. CASE r = c
      BY <3>1, <3>2
    <3>3. CASE r # c
      <4>1. f[r] # 0
        BY <3>1
      <4>2. r \in T /\ f[r] <= g[r] /\ g[r] \in Nat /\ f[r] \in Nat
        BY <3>3, <4>1
      <4>3. i \in 1..g[r]
        BY <4>2
      <4> QED BY <3>1, <4>2, <4>3, UnitsOf
    <3> QED BY <3>2, <3>3
  <2> QED BY <2>1
<1>4. IsFiniteSet(Units(g) \cup more)
      /\ Cardinality(Units(g) \cup more) =
           Cardinality(Units(g)) + Cardinality(more) - Cardinality(Units(g) \cap more)
  BY <1>1, <1>2, FS_Union
<1>5. Cardinality(Units(g) \cap more) \in Nat
  BY <1>1, FS_Subset, FS_CardinalityType
<1>6. Cardinality(Units(f)) <= Cardinality(Units(g) \cup more)
  BY <1>3, <1>4, FS_Subset
<1>7. Cardinality(Units(f)) = Total(f) /\ Cardinality(Units(g)) = Total(g)
  BY DEF Total
<1> HIDE DEF more
<1> QED BY <1>1, <1>2, <1>4, <1>5, <1>6, <1>7

-----------------------------------------------------------------------------
(* Records                                                                 *)

\* A call with its state, its rows and its hold replaced.
Call(x, at, daily, row, hold, pays, keep) ==
  [at |-> at, estimate |-> x.estimate, actual |-> x.actual, day |-> x.day, seen |-> x.seen,
   daily |-> daily, row |-> row, hold |-> hold, pays |-> pays, keep |-> keep]

\* A record of a call is its fields.
LEMMA CallFields ==
  ASSUME NEW x \in RequestType
  PROVE  x = Call(x, x.at, x.daily, x.row, x.hold, x.pays, x.keep)
  BY DEF RequestType, Call

\* The replacements that the actions make.
LEMMA Replaced ==
  ASSUME NEW x \in RequestType
  PROVE  /\ \A a : [x EXCEPT !.at = a] = Call(x, a, x.daily, x.row, x.hold, x.pays, x.keep)
         /\ \A a, v : [x EXCEPT !.at = a, !.daily = v] = Call(x, a, v, x.row, x.hold, x.pays, x.keep)
         /\ \A a, v : [x EXCEPT !.at = a, !.row = v] = Call(x, a, x.daily, v, x.hold, x.pays, x.keep)
         /\ \A a, v : [x EXCEPT !.at = a, !.hold = v] = Call(x, a, x.daily, x.row, v, x.pays, x.keep)
         /\ \A a, v : [x EXCEPT !.at = a, !.pays = v] = Call(x, a, x.daily, x.row, x.hold, v, x.keep)
<1>1. ASSUME NEW a
      PROVE [x EXCEPT !.at = a] = Call(x, a, x.daily, x.row, x.hold, x.pays, x.keep)
  <2>1. [Call(x, x.at, x.daily, x.row, x.hold, x.pays, x.keep) EXCEPT !.at = a]
          = Call(x, a, x.daily, x.row, x.hold, x.pays, x.keep)
    BY DEF Call
  <2> QED BY <2>1, CallFields, Zenon
<1>2. ASSUME NEW a, NEW v
      PROVE  [x EXCEPT !.at = a, !.daily = v] = Call(x, a, v, x.row, x.hold, x.pays, x.keep)
  <2>1. [x EXCEPT !.at = a, !.daily = v] = [[x EXCEPT !.at = a] EXCEPT !.daily = v]
    BY Zenon
  <2>2. [Call(x, a, x.daily, x.row, x.hold, x.pays, x.keep) EXCEPT !.daily = v] = Call(x, a, v, x.row, x.hold, x.pays, x.keep)
    BY DEF Call
  <2> QED BY <1>1, <2>1, <2>2, Zenon
<1>3. ASSUME NEW a, NEW v
      PROVE  [x EXCEPT !.at = a, !.row = v] = Call(x, a, x.daily, v, x.hold, x.pays, x.keep)
  <2>1. [x EXCEPT !.at = a, !.row = v] = [[x EXCEPT !.at = a] EXCEPT !.row = v]
    BY Zenon
  <2>2. [Call(x, a, x.daily, x.row, x.hold, x.pays, x.keep) EXCEPT !.row = v] = Call(x, a, x.daily, v, x.hold, x.pays, x.keep)
    BY DEF Call
  <2> QED BY <1>1, <2>1, <2>2, Zenon
<1>4. ASSUME NEW a, NEW v
      PROVE  [x EXCEPT !.at = a, !.hold = v] = Call(x, a, x.daily, x.row, v, x.pays, x.keep)
  <2>1. [x EXCEPT !.at = a, !.hold = v] = [[x EXCEPT !.at = a] EXCEPT !.hold = v]
    BY Zenon
  <2>2. [Call(x, a, x.daily, x.row, x.hold, x.pays, x.keep) EXCEPT !.hold = v] = Call(x, a, x.daily, x.row, v, x.pays, x.keep)
    BY DEF Call
  <2> QED BY <1>1, <2>1, <2>2, Zenon
<1>5. ASSUME NEW a, NEW v
      PROVE  [x EXCEPT !.at = a, !.pays = v] = Call(x, a, x.daily, x.row, x.hold, v, x.keep)
  <2>1. [x EXCEPT !.at = a, !.pays = v] = [[x EXCEPT !.at = a] EXCEPT !.pays = v]
    BY Zenon
  <2>2. [Call(x, a, x.daily, x.row, x.hold, x.pays, x.keep) EXCEPT !.pays = v] = Call(x, a, x.daily, x.row, x.hold, v, x.keep)
    BY DEF Call
  <2> QED BY <1>1, <2>1, <2>2, Zenon
<1> QED BY <1>1, <1>2, <1>3, <1>4, <1>5

\* What the beginning, the reading of the quota and the answer write besides.
LEMMA Filled ==
  ASSUME NEW x \in RequestType
  PROVE  /\ \A a, e, d : [x EXCEPT !.at = a, !.estimate = e, !.day = d]
                         = [at |-> a, estimate |-> e, actual |-> x.actual, day |-> d, seen |-> x.seen,
                            daily |-> x.daily, row |-> x.row, hold |-> x.hold, pays |-> x.pays, keep |-> x.keep]
         /\ \A a, q : [x EXCEPT !.at = a, !.seen = q]
                      = [at |-> a, estimate |-> x.estimate, actual |-> x.actual, day |-> x.day, seen |-> q,
                         daily |-> x.daily, row |-> x.row, hold |-> x.hold, pays |-> x.pays, keep |-> x.keep]
         /\ \A a, c, k : [x EXCEPT !.at = a, !.actual = c, !.keep = k]
                         = [at |-> a, estimate |-> x.estimate, actual |-> c, day |-> x.day, seen |-> x.seen,
                            daily |-> x.daily, row |-> x.row, hold |-> x.hold, pays |-> x.pays, keep |-> k]
<1> DEFINE moved(a) == Call(x, a, x.daily, x.row, x.hold, x.pays, x.keep)
<1>1. \A a : [x EXCEPT !.at = a] = moved(a)
  BY Replaced
<1>2. ASSUME NEW a, NEW e, NEW d
      PROVE  [x EXCEPT !.at = a, !.estimate = e, !.day = d]
             = [at |-> a, estimate |-> e, actual |-> x.actual, day |-> d, seen |-> x.seen,
                daily |-> x.daily, row |-> x.row, hold |-> x.hold, pays |-> x.pays, keep |-> x.keep]
  <2> DEFINE y == [at |-> a, estimate |-> e, actual |-> x.actual, day |-> x.day, seen |-> x.seen,
                   daily |-> x.daily, row |-> x.row, hold |-> x.hold, pays |-> x.pays, keep |-> x.keep]
  <2>1. [x EXCEPT !.at = a, !.estimate = e, !.day = d]
          = [[[x EXCEPT !.at = a] EXCEPT !.estimate = e] EXCEPT !.day = d]
    BY Zenon
  <2>2. [moved(a) EXCEPT !.estimate = e] = y
    BY DEF Call
  <2>3. [y EXCEPT !.day = d]
          = [at |-> a, estimate |-> e, actual |-> x.actual, day |-> d, seen |-> x.seen,
             daily |-> x.daily, row |-> x.row, hold |-> x.hold, pays |-> x.pays, keep |-> x.keep]
    OBVIOUS
  <2> HIDE DEF moved, y
  <2> QED BY <1>1, <2>1, <2>2, <2>3, Zenon
<1>3. ASSUME NEW a, NEW q
      PROVE  [x EXCEPT !.at = a, !.seen = q]
             = [at |-> a, estimate |-> x.estimate, actual |-> x.actual, day |-> x.day, seen |-> q,
                daily |-> x.daily, row |-> x.row, hold |-> x.hold, pays |-> x.pays, keep |-> x.keep]
  <2>1. [x EXCEPT !.at = a, !.seen = q] = [[x EXCEPT !.at = a] EXCEPT !.seen = q]
    BY Zenon
  <2>2. [moved(a) EXCEPT !.seen = q]
          = [at |-> a, estimate |-> x.estimate, actual |-> x.actual, day |-> x.day, seen |-> q,
             daily |-> x.daily, row |-> x.row, hold |-> x.hold, pays |-> x.pays, keep |-> x.keep]
    BY DEF Call
  <2> HIDE DEF moved
  <2> QED BY <1>1, <2>1, <2>2, Zenon
<1>4. ASSUME NEW a, NEW c, NEW k
      PROVE  [x EXCEPT !.at = a, !.actual = c, !.keep = k]
             = [at |-> a, estimate |-> x.estimate, actual |-> c, day |-> x.day, seen |-> x.seen,
                daily |-> x.daily, row |-> x.row, hold |-> x.hold, pays |-> x.pays, keep |-> k]
  <2> DEFINE y == [at |-> a, estimate |-> x.estimate, actual |-> c, day |-> x.day, seen |-> x.seen,
                   daily |-> x.daily, row |-> x.row, hold |-> x.hold, pays |-> x.pays, keep |-> x.keep]
  <2>1. [x EXCEPT !.at = a, !.actual = c, !.keep = k]
          = [[[x EXCEPT !.at = a] EXCEPT !.actual = c] EXCEPT !.keep = k]
    BY Zenon
  <2>2. [moved(a) EXCEPT !.actual = c] = y
    BY DEF Call
  <2>3. [y EXCEPT !.keep = k]
          = [at |-> a, estimate |-> x.estimate, actual |-> c, day |-> x.day, seen |-> x.seen,
             daily |-> x.daily, row |-> x.row, hold |-> x.hold, pays |-> x.pays, keep |-> k]
    OBVIOUS
  <2> HIDE DEF moved, y
  <2> QED BY <1>1, <2>1, <2>2, <2>3, Zenon
<1> QED BY <1>2, <1>3, <1>4

\* What is left of a call that has ended.
Left(at, row, daily, hold) ==
  [at |-> at, estimate |-> 0, actual |-> 0, day |-> 0, seen |-> [kind |-> "none", limit |-> 0],
   daily |-> daily, row |-> row, hold |-> hold, pays |-> FALSE, keep |-> FALSE]

\* A call that ends, as a record.
LEMMA Ended ==
  ASSUME NEW at, NEW row, NEW daily, NEW hold
  PROVE  [NoRequest EXCEPT !.at = at, !.row = row, !.daily = daily, !.hold = hold]
           = Left(at, row, daily, hold)
<1> DEFINE left(a, w, d, h, no) ==
             [at |-> a, estimate |-> 0, actual |-> 0, day |-> 0, seen |-> [kind |-> "none", limit |-> 0],
              daily |-> d, row |-> w, hold |-> h, pays |-> no, keep |-> no]
<1>1. ASSUME NEW no
      PROVE  /\ [left("new", NoRow, NoRow, NoHold, no) EXCEPT !.at = at] = left(at, NoRow, NoRow, NoHold, no)
             /\ [left(at, NoRow, NoRow, NoHold, no) EXCEPT !.row = row] = left(at, row, NoRow, NoHold, no)
             /\ [left(at, row, NoRow, NoHold, no) EXCEPT !.daily = daily] = left(at, row, daily, NoHold, no)
             /\ [left(at, row, daily, NoHold, no) EXCEPT !.hold = hold] = left(at, row, daily, hold, no)
  OBVIOUS
<1>2. NoRequest = left("new", NoRow, NoRow, NoHold, FALSE) /\ Left(at, row, daily, hold) = left(at, row, daily, hold, FALSE)
  BY Zenon DEF NoRequest, Left
<1>3. [NoRequest EXCEPT !.at = at, !.row = row, !.daily = daily, !.hold = hold]
        = [[[[NoRequest EXCEPT !.at = at] EXCEPT !.row = row] EXCEPT !.daily = daily] EXCEPT !.hold = hold]
  BY Zenon
<1> HIDE DEF left
<1>4. [NoRequest EXCEPT !.at = at] = left(at, NoRow, NoRow, NoHold, FALSE)
  BY <1>1, <1>2, Zenon
<1>5. [[NoRequest EXCEPT !.at = at] EXCEPT !.row = row] = left(at, row, NoRow, NoHold, FALSE)
  BY <1>1, <1>4, Zenon
<1>6. [[[NoRequest EXCEPT !.at = at] EXCEPT !.row = row] EXCEPT !.daily = daily]
        = left(at, row, daily, NoHold, FALSE)
  BY <1>1, <1>5, Zenon
<1>7. [[[[NoRequest EXCEPT !.at = at] EXCEPT !.row = row] EXCEPT !.daily = daily] EXCEPT !.hold = hold]
        = left(at, row, daily, hold, FALSE)
  BY <1>1, <1>6, Zenon
<1> QED BY <1>2, <1>3, <1>7, Zenon

\* A row and a hold that are settled or released keep what they were admitted for.
LEMMA RowEnds ==
  ASSUME NEW w \in Rows, NEW n \in Nat
  PROVE  /\ Finalized(w, n) \in Rows /\ Released(w) \in Rows
         /\ w.status # "reserved" => Finalized(w, n) = w /\ Released(w) = w
         /\ w.status = "reserved" =>
              Finalized(w, n) = [status |-> "finalized", cycle |-> w.cycle, window |-> w.window,
                                 limit |-> w.limit, reserved |-> w.reserved, actual |-> n]
         /\ w.status = "reserved" =>
              Released(w) = [status |-> "released", cycle |-> w.cycle, window |-> w.window,
                             limit |-> w.limit, reserved |-> w.reserved, actual |-> w.actual]
<1> DEFINE finalized == [status |-> "finalized", cycle |-> w.cycle, window |-> w.window,
                         limit |-> w.limit, reserved |-> w.reserved, actual |-> w.actual]
<1>1. [w EXCEPT !.status = "finalized"] = finalized
  BY DEF Rows
<1>2. [w EXCEPT !.status = "released"]
        = [status |-> "released", cycle |-> w.cycle, window |-> w.window,
           limit |-> w.limit, reserved |-> w.reserved, actual |-> w.actual]
  BY DEF Rows
<1>3. [w EXCEPT !.status = "finalized", !.actual = n]
        = [status |-> "finalized", cycle |-> w.cycle, window |-> w.window,
           limit |-> w.limit, reserved |-> w.reserved, actual |-> n]
  <2>1. [w EXCEPT !.status = "finalized", !.actual = n]
          = [[w EXCEPT !.status = "finalized"] EXCEPT !.actual = n]
    BY Zenon
  <2>2. [finalized EXCEPT !.actual = n]
          = [status |-> "finalized", cycle |-> w.cycle, window |-> w.window,
             limit |-> w.limit, reserved |-> w.reserved, actual |-> n]
    OBVIOUS
  <2> HIDE DEF finalized
  <2> QED BY <1>1, <2>1, <2>2, Zenon
<1>4. /\ w.status # "reserved" => Finalized(w, n) = w /\ Released(w) = w
      /\ w.status = "reserved" => Finalized(w, n) = [w EXCEPT !.status = "finalized", !.actual = n]
      /\ w.status = "reserved" => Released(w) = [w EXCEPT !.status = "released"]
  BY Zenon DEF Finalized, Released
<1>5. Finalized(w, n) \in Rows /\ Released(w) \in Rows
  <2>1. CASE w.status = "reserved"
    BY <1>2, <1>3, <1>4, <2>1 DEF Rows
  <2>2. CASE w.status # "reserved"
    BY <1>4, <2>2
  <2> QED BY <2>1, <2>2
<1> QED BY <1>2, <1>3, <1>4, <1>5, Zenon

\* A hold that is settled or released keeps what it held.
LEMMA HoldEnds ==
  ASSUME NEW h \in Holds, NEW n \in Nat
  PROVE  /\ [h EXCEPT !.status = "settled", !.charged = n]
              = [status |-> "settled", held |-> h.held, charged |-> n]
         /\ h.status = "reserved" =>
              ReleasedHold(h) = [status |-> "released", held |-> h.held, charged |-> h.charged]
         /\ h.status # "reserved" => ReleasedHold(h) = h
<1> DEFINE settled == [status |-> "settled", held |-> h.held, charged |-> h.charged]
<1>1. /\ [h EXCEPT !.status = "settled"] = settled
      /\ [h EXCEPT !.status = "released"] = [status |-> "released", held |-> h.held, charged |-> h.charged]
  BY DEF Holds
<1>2. [h EXCEPT !.status = "settled", !.charged = n] = [[h EXCEPT !.status = "settled"] EXCEPT !.charged = n]
  BY Zenon
<1>3. [settled EXCEPT !.charged = n] = [status |-> "settled", held |-> h.held, charged |-> n]
  OBVIOUS
<1>4. /\ h.status # "reserved" => ReleasedHold(h) = h
      /\ h.status = "reserved" => ReleasedHold(h) = [h EXCEPT !.status = "released"]
  BY Zenon DEF ReleasedHold
<1> HIDE DEF settled
<1> QED BY <1>1, <1>2, <1>3, <1>4, Zenon
-----------------------------------------------------------------------------
(* The inductive invariant.                                                *)

\* What credits have to pay for, as Overage and Due work it out, from a record.
OverageOf(x) ==
  IF x.seen.kind = "cost" /\ x.actual > x.row.reserved THEN x.actual - x.row.reserved ELSE 0
DueOf(x) == IF x.pays THEN x.actual ELSE OverageOf(x)

Admission == {"new", "daily", "read", "model", "overage", "credits", "undo", "run"}
Settlement == {"settle daily", "settle row", "hold", "charge", "drop", "settled", "unsettled"}

\* Where a call is in its admission or settlement says what it has reserved: in
\* the order daily tokens, allowance, credits, undone or settled in the same order.
Admitting(x) ==
  /\ x.at \in Admission => ~x.keep /\ x.daily.status \in {"none", "reserved"}
  /\ x.at \in {"new", "daily"} => x.daily.status = "none"
  /\ x.at \in {"new", "daily", "read"} => x.seen.kind = "none"
  /\ x.at \in {"new", "daily", "read", "model"} => ~x.pays
  /\ x.at \in {"new", "daily", "read", "model", "credits"} => x.row.status = "none" /\ x.hold.status = "none"
  /\ x.at = "credits" => x.pays
  /\ x.at = "overage" => /\ ~x.pays /\ x.row.status = "reserved" /\ x.hold.status = "none"
                         /\ x.estimate > x.row.reserved
  /\ x.at = "undo" => x.row.status \in {"none", "released"} /\ x.hold.status = "none"

\* A call under way has reserved from the allowance, or pays with credits, or neither
\* when its allowance has no limit.
Running(x) ==
  x.at \in {"run", "settle daily"} =>
    /\ x.daily.status \in {"none", "reserved"} /\ x.row.status \in {"none", "reserved"}
    /\ x.hold.status \in {"none", "reserved"}
    /\ x.pays => x.row.status = "none"
    /\ ~x.pays /\ x.row.status = "none" => x.hold.status = "none" /\ x.seen.kind = "none"

\* A settlement finalizes the rows before it charges the hold.
Settling(x) ==
  /\ x.at \in Settlement => x.keep
  /\ x.at = "settle row" => /\ ~x.pays /\ x.row.status = "reserved" /\ x.hold.status \in {"none", "reserved"}
                            /\ x.daily.status \in {"none", "finalized"}
  /\ x.at \in {"hold", "charge", "drop", "settled"} =>
       x.daily.status \in {"none", "finalized"} /\ x.row.status \in {"none", "finalized"}
  /\ x.at = "hold" => x.hold.status = "none"
  /\ x.at = "charge" => x.hold.status = "reserved"
  /\ x.at = "drop" => /\ x.hold.status = "reserved" /\ ~x.pays
                      /\ x.row.status = "finalized" /\ OverageOf(x) = 0
  /\ x.at = "settled" => x.hold.status # "reserved" /\ x.hold.charged = DueOf(x)

\* Only a settled hold has charged; what is kept is not released; what is over holds
\* nothing.
Kept(x) ==
  /\ x.hold.status # "settled" => x.hold.charged = 0
  /\ x.keep => /\ x.daily.status # "released" /\ x.row.status # "released"
               /\ x.hold.status = "released" => x.row.status = "finalized" /\ OverageOf(x) = 0
  /\ x.at \in {"refused", "over"} =>
       x.daily.status # "reserved" /\ x.row.status # "reserved" /\ x.hold.status # "reserved"

Sound(x) == Admitting(x) /\ Running(x) /\ Settling(x) /\ Kept(x)

\* A row that counts against its limit.
Holding(row) == row.status \in {"reserved", "finalized"}

\* No row is of a later cycle than the present one, and the rows of the present one
\* were admitted under the present limit: a change of the allowance moves the anchor.
RowsFollowTheQuota ==
  \A r \in Requests : Holding(request[r].row) =>
    /\ request[r].row.cycle <= anchor
    /\ request[r].row.cycle = anchor => request[r].row.limit = quota.limit

\* The inductive invariant.
IInv ==
  /\ TypeOK
  /\ \A r \in Requests : Sound(request[r])
  /\ RowsFollowTheQuota
  /\ FreeUseIsCapped
  /\ DailyTokensAreCapped

\* One row is another, or the same one settled or released.
Less(v, w) ==
  \/ w = v
  \/ /\ v.status = "reserved" /\ w.status \in {"finalized", "released"}
     /\ w.cycle = v.cycle /\ w.window = v.window /\ w.limit = v.limit /\ w.reserved = v.reserved

\* What a row takes from its limit is no more than what it counts, and settling or
\* releasing it takes no more.
LEMMA TakenType ==
  ASSUME NEW w \in Rows
  PROVE  /\ Taken(w) \in Nat /\ Counts(w) \in Nat /\ Taken(w) <= Counts(w)
         /\ ~Holding(w) => Taken(w) = 0 /\ Counts(w) = 0
         /\ w.status = "reserved" => Taken(w) = w.reserved
  BY DEF Rows, Taken, Counts, Holding

\* Settling or releasing a row takes no more from its limit.
LEMMA LessTaken ==
  ASSUME NEW v \in Rows, NEW w \in Rows, Less(v, w)
  PROVE  /\ Taken(w) <= Taken(v)
         /\ w.cycle = v.cycle /\ w.window = v.window /\ w.limit = v.limit
         /\ Holding(w) => Holding(v)
  BY DEF Rows, Taken, Counts, Holding, Less

\* What the calls take from one window of one cycle, and from one day.
InWindow(req, c, w) == {s \in Requests : req[s].row.cycle = c /\ req[s].row.window = w}
FreeUse(req, c, w) == Total([s \in InWindow(req, c, w) |-> Taken(req[s].row)])
OfDay(req, d) == {s \in Requests : req[s].daily.window = d}
DayUse(req, d) == Total([s \in OfDay(req, d) |-> Taken(req[s].daily)])

\* The rows of the calls have their types.
Fields(req) == \A s \in Requests : req[s].row \in Rows /\ req[s].daily \in Rows

\* When rows are settled or released, no sum grows.
LEMMA UseShrinks ==
  ASSUME NEW req, NEW new, Fields(req), Fields(new)
  PROVE  /\ (\A s \in Requests : Less(req[s].row, new[s].row)) =>
              \A c, w : FreeUse(new, c, w) <= FreeUse(req, c, w)
         /\ (\A s \in Requests : Less(req[s].daily, new[s].daily)) =>
              \A d : DayUse(new, d) <= DayUse(req, d)
<1>1. ASSUME NEW c, NEW w, \A s \in Requests : Less(req[s].row, new[s].row)
      PROVE  FreeUse(new, c, w) <= FreeUse(req, c, w)
  <2> DEFINE f == [s \in InWindow(new, c, w) |-> Taken(new[s].row)]
             g == [s \in InWindow(req, c, w) |-> Taken(req[s].row)]
  <2>1. /\ InWindow(new, c, w) \in SUBSET Requests /\ InWindow(req, c, w) \in SUBSET Requests
        /\ f \in [InWindow(new, c, w) -> Nat] /\ g \in [InWindow(req, c, w) -> Nat]
    BY TakenType DEF InWindow, Fields
  <2>2. ASSUME NEW s \in InWindow(new, c, w)
        PROVE  s \in InWindow(req, c, w) /\ f[s] <= g[s]
    <3>1. s \in Requests /\ new[s].row \in Rows /\ req[s].row \in Rows
      BY DEF InWindow, Fields
    <3>2. /\ Taken(new[s].row) <= Taken(req[s].row)
          /\ new[s].row.cycle = req[s].row.cycle /\ new[s].row.window = req[s].row.window
      BY <1>1, <3>1, LessTaken
    <3> QED BY <3>1, <3>2 DEF InWindow
  <2> HIDE DEF f, g
  <2>3. Total(f) <= Total(g)
    BY <2>1, <2>2, TotalCovered
  <2> QED BY <2>3 DEF f, g, FreeUse
<1>2. ASSUME NEW d, \A s \in Requests : Less(req[s].daily, new[s].daily)
      PROVE  DayUse(new, d) <= DayUse(req, d)
  <2> DEFINE f == [s \in OfDay(new, d) |-> Taken(new[s].daily)]
             g == [s \in OfDay(req, d) |-> Taken(req[s].daily)]
  <2>1. /\ OfDay(new, d) \in SUBSET Requests /\ OfDay(req, d) \in SUBSET Requests
        /\ f \in [OfDay(new, d) -> Nat] /\ g \in [OfDay(req, d) -> Nat]
    BY TakenType DEF OfDay, Fields
  <2>2. ASSUME NEW s \in OfDay(new, d)
        PROVE  s \in OfDay(req, d) /\ f[s] <= g[s]
    <3>1. s \in Requests /\ new[s].daily \in Rows /\ req[s].daily \in Rows
      BY DEF OfDay, Fields
    <3>2. Taken(new[s].daily) <= Taken(req[s].daily) /\ new[s].daily.window = req[s].daily.window
      BY <1>2, <3>1, LessTaken
    <3> QED BY <3>1, <3>2 DEF OfDay
  <2> HIDE DEF f, g
  <2>3. Total(f) <= Total(g)
    BY <2>1, <2>2, TotalCovered
  <2> QED BY <2>3 DEF f, g, DayUse
<1> QED BY <1>1, <1>2

\* What is taken from a window or a day is a natural number.
LEMMA UseType ==
  ASSUME NEW req, Fields(req)
  PROVE  \A c, w : FreeUse(req, c, w) \in Nat /\ DayUse(req, c) \in Nat
<1>1. ASSUME NEW c, NEW w PROVE FreeUse(req, c, w) \in Nat
  <2> DEFINE g == [s \in InWindow(req, c, w) |-> Taken(req[s].row)]
  <2>1. InWindow(req, c, w) \in SUBSET Requests /\ g \in [InWindow(req, c, w) -> Nat]
    BY TakenType DEF InWindow, Fields
  <2> HIDE DEF g
  <2>2. Total(g) \in Nat
    BY <2>1, TotalType
  <2> QED BY <2>2 DEF g, FreeUse
<1>2. ASSUME NEW d PROVE DayUse(req, d) \in Nat
  <2> DEFINE g == [s \in OfDay(req, d) |-> Taken(req[s].daily)]
  <2>1. OfDay(req, d) \in SUBSET Requests /\ g \in [OfDay(req, d) -> Nat]
    BY TakenType DEF OfDay, Fields
  <2> HIDE DEF g
  <2>2. Total(g) \in Nat
    BY <2>1, TotalType
  <2> QED BY <2>2 DEF g, DayUse
<1> QED BY <1>1, <1>2

-----------------------------------------------------------------------------
(* Steps of a call.                                                        *)

\* A new record for one call.
LEMMA OneCall ==
  ASSUME TypeOK, NEW r \in Requests, NEW y \in RequestType, request' = [request EXCEPT ![r] = y]
  PROVE  /\ request' \in [Requests -> RequestType]
         /\ \A s \in Requests : request'[s] = IF s = r THEN y ELSE request[s]
         /\ Fields(request) /\ Fields(request')
<1>1. /\ request' \in [Requests -> RequestType]
      /\ \A s \in Requests : request'[s] = IF s = r THEN y ELSE request[s]
  BY DEF TypeOK
<1>2. Fields(request) /\ Fields(request')
  BY <1>1 DEF TypeOK, Fields, RequestType
<1> QED BY <1>1, <1>2

\* The caps, as sums over the calls.
LEMMA CapsAreSums ==
  /\ FreeUseIsCapped <=> \A r \in Requests : Holding(request[r].row) =>
       FreeUse(request, request[r].row.cycle, request[r].row.window) <= request[r].row.limit
  /\ FreeUseIsCapped' <=> \A r \in Requests : Holding(request'[r].row) =>
       FreeUse(request', request'[r].row.cycle, request'[r].row.window) <= request'[r].row.limit
  /\ DailyTokensAreCapped <=>
       \A d \in 0..(MaxNow \div Day) : (d + 1) * Day > now => DayUse(request, d) <= DailyLimit
  /\ DailyTokensAreCapped' <=>
       \A d \in 0..(MaxNow \div Day) : (d + 1) * Day > now' => DayUse(request', d) <= DailyLimit
<1>1. /\ FreeUseIsCapped <=> \A r \in Requests : Holding(request[r].row) =>
           FreeUse(request, request[r].row.cycle, request[r].row.window) <= request[r].row.limit
      /\ FreeUseIsCapped' <=> \A r \in Requests : Holding(request'[r].row) =>
           FreeUse(request', request'[r].row.cycle, request'[r].row.window) <= request'[r].row.limit
  BY Zenon DEF FreeUseIsCapped, FreeUse, InWindow, Holding
<1>2. /\ DailyTokensAreCapped <=>
           \A d \in 0..(MaxNow \div Day) : (d + 1) * Day > now => DayUse(request, d) <= DailyLimit
      /\ DailyTokensAreCapped' <=>
           \A d \in 0..(MaxNow \div Day) : (d + 1) * Day > now' => DayUse(request', d) <= DailyLimit
  BY Zenon DEF DailyTokensAreCapped, DayUse, OfDay
<1> QED BY <1>1, <1>2

\* A call whose row is settled, released or left alone stays within the allowance.
LEMMA RowLess ==
  ASSUME IInv, NEW r \in Requests, NEW y \in RequestType, request' = [request EXCEPT ![r] = y],
         UNCHANGED <<quota, anchor>>, Less(request[r].row, y.row)
  PROVE  RowsFollowTheQuota' /\ FreeUseIsCapped'
<1>1. /\ \A s \in Requests : request'[s] = IF s = r THEN y ELSE request[s]
      /\ Fields(request) /\ Fields(request')
  BY OneCall DEF IInv
<1>2. \A s \in Requests : Less(request[s].row, request'[s].row)
  BY <1>1 DEF Less
<1>3. \A s \in Requests : /\ request'[s].row.cycle = request[s].row.cycle
                          /\ request'[s].row.window = request[s].row.window
                          /\ request'[s].row.limit = request[s].row.limit
                          /\ Holding(request'[s].row) => Holding(request[s].row)
                          /\ request[s].row.limit \in Nat
  BY <1>1, <1>2, LessTaken DEF Fields, Rows
<1>4. RowsFollowTheQuota'
  BY <1>3 DEF IInv, RowsFollowTheQuota
<1>5. \A c, w : /\ FreeUse(request', c, w) <= FreeUse(request, c, w)
                /\ FreeUse(request', c, w) \in Nat /\ FreeUse(request, c, w) \in Nat
  BY <1>1, <1>2, UseShrinks, UseType
<1>6. ASSUME NEW s \in Requests, Holding(request'[s].row)
      PROVE  FreeUse(request', request'[s].row.cycle, request'[s].row.window) <= request'[s].row.limit
  <2>1. FreeUse(request, request[s].row.cycle, request[s].row.window) <= request[s].row.limit
    BY <1>3, <1>6, CapsAreSums DEF IInv
  <2>2. FreeUse(request', request'[s].row.cycle, request'[s].row.window)
          = FreeUse(request', request[s].row.cycle, request[s].row.window)
    BY <1>3
  <2> DEFINE a == FreeUse(request', request[s].row.cycle, request[s].row.window)
             b == FreeUse(request, request[s].row.cycle, request[s].row.window)
  <2>3. a <= b /\ a \in Nat /\ b \in Nat
    BY <1>5
  <2>4. a <= request[s].row.limit
    <3> HIDE DEF a
    <3> QED BY <1>3, <2>1, <2>3
  <2> QED BY <1>3, <2>2, <2>4
<1> QED BY <1>4, <1>6, CapsAreSums

\* The same of its row in the day.
LEMMA DailyLess ==
  ASSUME IInv, NEW r \in Requests, NEW y \in RequestType, request' = [request EXCEPT ![r] = y],
         now' = now, Less(request[r].daily, y.daily)
  PROVE  DailyTokensAreCapped'
<1>1. /\ \A s \in Requests : request'[s] = IF s = r THEN y ELSE request[s]
      /\ Fields(request) /\ Fields(request')
  BY OneCall DEF IInv
<1>2. \A s \in Requests : Less(request[s].daily, request'[s].daily)
  BY <1>1 DEF Less
<1>3. \A d : /\ DayUse(request', d) <= DayUse(request, d)
             /\ DayUse(request', d) \in Nat /\ DayUse(request, d) \in Nat
  BY <1>1, <1>2, UseShrinks, UseType
<1>4. ASSUME NEW d \in 0..(MaxNow \div Day), (d + 1) * Day > now
      PROVE  DayUse(request', d) <= DailyLimit
  <2>1. DayUse(request, d) <= DailyLimit
    BY <1>4, CapsAreSums DEF IInv
  <2> DEFINE a == DayUse(request', d)
             b == DayUse(request, d)
  <2>2. a <= b /\ a \in Nat /\ b \in Nat /\ b <= DailyLimit /\ DailyLimit \in Nat
    BY <1>3, <2>1, UsageAssumption
  <2> HIDE DEF a, b
  <2>3. a <= DailyLimit
    BY <2>2
  <2> QED BY <2>3 DEF a
<1> QED BY <1>4, CapsAreSums

\* The conjuncts of the invariant, of a step of one call.
LEMMA CallStep ==
  ASSUME IInv, NEW r \in Requests, NEW y \in RequestType, request' = [request EXCEPT ![r] = y],
         UNCHANGED <<now, quota, anchor>>, Sound(y),
         RowsFollowTheQuota' /\ FreeUseIsCapped', DailyTokensAreCapped'
  PROVE  IInv'
<1>1. /\ request' \in [Requests -> RequestType]
      /\ \A s \in Requests : request'[s] = IF s = r THEN y ELSE request[s]
  BY OneCall DEF IInv
<1>2. \A s \in Requests : Sound(request'[s])
  BY <1>1 DEF IInv
<1>3. TypeOK'
  BY <1>1 DEF IInv, TypeOK
<1> QED BY <1>2, <1>3 DEF IInv

\* Most steps of a call settle, release or leave alone its rows.
Lessens(r) ==
  \E y \in RequestType :
    /\ request' = [request EXCEPT ![r] = y] /\ Sound(y)
    /\ Less(request[r].row, y.row) /\ Less(request[r].daily, y.daily)

\* Such a step preserves the invariant.
LEMMA LesserStep ==
  ASSUME IInv, NEW r \in Requests, UNCHANGED <<now, quota, anchor>>, Lessens(r)
  PROVE  IInv'
<1>1. PICK y \in RequestType :
        /\ request' = [request EXCEPT ![r] = y] /\ Sound(y)
        /\ Less(request[r].row, y.row) /\ Less(request[r].daily, y.daily)
  BY DEF Lessens
<1>2. RowsFollowTheQuota' /\ FreeUseIsCapped'
  BY <1>1, RowLess
<1>3. DailyTokensAreCapped'
  BY <1>1, DailyLess
<1> QED BY <1>1, <1>2, <1>3, CallStep

\* What the invariant says of a call.
LEMMA CallKnown ==
  ASSUME IInv, NEW r \in Requests
  PROVE  /\ request[r] \in RequestType /\ Sound(request[r])
         /\ request[r].row \in Rows /\ request[r].daily \in Rows /\ request[r].hold \in Holds
         /\ request[r].estimate \in Nat /\ request[r].actual \in Nat /\ request[r].day \in Nat
         /\ request[r].pays \in BOOLEAN /\ request[r].keep \in BOOLEAN
<1>1. request[r] \in RequestType /\ Sound(request[r])
  BY DEF IInv, TypeOK
<1> QED BY <1>1 DEF RequestType

\* A record of a call is of its type when its fields are.
LEMMA CallType ==
  ASSUME NEW x \in RequestType, NEW daily \in Rows, NEW row \in Rows, NEW hold \in Holds,
         NEW pays \in BOOLEAN, NEW keep \in BOOLEAN,
         NEW at \in {"new", "daily", "read", "model", "overage", "credits", "undo", "refused", "run", "release",
                     "over", "leaked", "settle daily", "settle row", "hold", "charge", "drop", "settled",
                     "unsettled"}
  PROVE  /\ Call(x, at, daily, row, hold, pays, keep) \in RequestType
         /\ Left(at, row, daily, hold) \in RequestType
  BY ZenonT(60) DEF RequestType, Call, Left

\* A step that only moves a call on.
LEMMA Moves ==
  ASSUME IInv, NEW r \in Requests,
         NEW at \in {"undo", "run", "release", "unsettled"}, Goto(r, at),
         LET y == Call(request[r], at, request[r].daily, request[r].row, request[r].hold,
                       request[r].pays, request[r].keep) IN Sound(y)
  PROVE  Lessens(r)
<1> DEFINE y == Call(request[r], at, request[r].daily, request[r].row, request[r].hold,
                     request[r].pays, request[r].keep)
<1>1. y \in RequestType
  BY CallKnown, CallType, ZenonT(60)
<1>2. [request[r] EXCEPT !.at = at] = y
  BY CallKnown, Replaced, Zenon
<1>3. request' = [request EXCEPT ![r] = y]
  BY <1>2, Zenon DEF Goto, Become
<1>4. y.row = request[r].row /\ y.daily = request[r].daily
  BY DEF Call
<1> QED BY <1>1, <1>3, <1>4 DEF Lessens, Less

\* A step after which nothing is left of a call but its rows and its hold.
LEMMA Ends ==
  ASSUME IInv, NEW r \in Requests,
         NEW at \in {"refused", "over", "leaked"},
         NEW row \in Rows, NEW daily \in Rows, NEW hold \in Holds,
         End(r, at, row, daily, hold),
         Less(request[r].row, row), Less(request[r].daily, daily),
         hold.status # "settled" => hold.charged = 0,
         at \in {"refused", "over"} =>
           daily.status # "reserved" /\ row.status # "reserved" /\ hold.status # "reserved"
  PROVE  Lessens(r)
<1> DEFINE y == Left(at, row, daily, hold)
<1>1. y \in RequestType
  BY CallKnown, CallType
<1>2. request' = [request EXCEPT ![r] = y]
  BY Ended, Zenon DEF End, Become
<1>3. y.row = row /\ y.daily = daily /\ y.hold = hold /\ y.at = at /\ y.keep = FALSE
  BY DEF Left
<1> HIDE DEF y
<1>4. Sound(y)
  BY <1>3 DEF Sound, Admitting, Running, Settling, Kept, Admission, Settlement
<1> QED BY <1>1, <1>2, <1>3, <1>4 DEF Lessens

\* A call that fails in between keeps what it has reserved.
LEMMA EndsAt ==
  ASSUME IInv, NEW r \in Requests, EndAt(r, "leaked")
  PROVE  Lessens(r)
  BY Ends, CallKnown DEF EndAt, Less, Sound, Kept

\* A crash leaves rows and hold where they are.
LEMMA CrashLessens ==
  ASSUME IInv, NEW r \in Requests, Crash(r)
  PROVE  Lessens(r)
  BY EndsAt DEF Crash

\* A failing call of the database ends an admission with what it has reserved.
LEMMA AdmissionFailsLessens ==
  ASSUME IInv, NEW r \in Requests, AdmissionFails(r)
  PROVE  Lessens(r)
<1> DEFINE x == request[r]
           y == Call(x, "undo", x.daily, x.row, x.hold, x.pays, x.keep)
<1>1. Sound(x) /\ x.at \in {"daily", "read", "model", "credits"}
  BY CallKnown DEF AdmissionFails
<1>2. Sound(y)
  BY <1>1 DEF Call, Sound, Admitting, Running, Settling, Kept, Admission, Settlement, OverageOf, DueOf
<1> HIDE DEF y
<1> QED BY <1>2, Moves DEF AdmissionFails, y

\* The beginning reserves nothing.
LEMMA BeginLessens ==
  ASSUME IInv, NEW r \in Requests, Begin(r)
  PROVE  Lessens(r)
<1> DEFINE x == request[r]
<1>1. PICK estimate \in Estimates :
        request' = [request EXCEPT ![r] =
          [x EXCEPT !.at = IF estimate > 0 THEN "daily" ELSE "read", !.estimate = estimate, !.day = now \div Day]]
  BY Zenon DEF Begin, Become
<1> DEFINE at == IF estimate > 0 THEN "daily" ELSE "read"
           y == [at |-> at, estimate |-> estimate, actual |-> x.actual, day |-> now \div Day, seen |-> x.seen,
                 daily |-> x.daily, row |-> x.row, hold |-> x.hold, pays |-> x.pays, keep |-> x.keep]
<1>2. request' = [request EXCEPT ![r] = y]
  <2> HIDE DEF at
  <2>1. request' = [request EXCEPT ![r] = [x EXCEPT !.at = at, !.estimate = estimate, !.day = now \div Day]]
    BY <1>1, Zenon DEF at
  <2>2. [x EXCEPT !.at = at, !.estimate = estimate, !.day = now \div Day] = y
    <3>1. \A a, e, d : [x EXCEPT !.at = a, !.estimate = e, !.day = d]
                       = [at |-> a, estimate |-> e, actual |-> x.actual, day |-> d, seen |-> x.seen,
                          daily |-> x.daily, row |-> x.row, hold |-> x.hold, pays |-> x.pays, keep |-> x.keep]
      BY CallKnown, Filled
    <3> QED BY ONLY <3>1, Zenon
  <2> QED BY <2>1, <2>2, Zenon
<1>3. /\ estimate \in Nat /\ now \div Day \in Nat
      /\ x \in RequestType /\ Sound(x) /\ x.at = "new" /\ at \in {"daily", "read"}
  BY CallKnown, UsageAssumption DEF Begin, At, IInv, TypeOK
<1> HIDE DEF at
<1>4. y \in RequestType
  BY <1>3 DEF RequestType
<1>5. Sound(y)
  BY <1>3 DEF Sound, Admitting, Running, Settling, Kept, Admission, Settlement
<1>6. y.row = x.row /\ y.daily = x.daily
  OBVIOUS
<1> HIDE DEF y
<1> QED BY <1>2, <1>4, <1>5, <1>6 DEF Lessens, Less

\* Reading the quota reserves nothing.
LEMMA ReadQuotaLessens ==
  ASSUME IInv, NEW r \in Requests, ReadQuota(r)
  PROVE  Lessens(r)
<1> DEFINE x == request[r]
<1>1. x \in RequestType /\ Sound(x) /\ x.at = "read" /\ x.row \in Rows /\ x.daily \in Rows /\ x.hold \in Holds
  BY CallKnown DEF ReadQuota, At
<1>2. CASE Become(r, [x EXCEPT !.at = "credits", !.pays = TRUE])
  <2> DEFINE y == Call(x, "credits", x.daily, x.row, x.hold, TRUE, x.keep)
  <2>1. [x EXCEPT !.at = "credits", !.pays = TRUE] = y
    BY <1>1, Replaced, Zenon
  <2>2. request' = [request EXCEPT ![r] = y]
    BY <1>2, <2>1, Zenon DEF Become
  <2>3. y \in RequestType
    BY <1>1, CallType, CallKnown
  <2>4. Sound(y) /\ y.row = x.row /\ y.daily = x.daily
    BY <1>1 DEF Call, Sound, Admitting, Running, Settling, Kept, Admission, Settlement, OverageOf, DueOf
  <2> HIDE DEF y
  <2> QED BY <2>2, <2>3, <2>4 DEF Lessens, Less
<1>3. CASE Goto(r, "run")
  <2>1. Sound(Call(x, "run", x.daily, x.row, x.hold, x.pays, x.keep))
    BY <1>1 DEF Call, Sound, Admitting, Running, Settling, Kept, Admission, Settlement, OverageOf, DueOf
  <2> QED BY <1>3, <2>1, Moves
<1>4. CASE quota.kind # "none" /\ quota.limit # 0 /\ Become(r, [x EXCEPT !.at = "model", !.seen = quota])
  <2> DEFINE y == [at |-> "model", estimate |-> x.estimate, actual |-> x.actual, day |-> x.day, seen |-> quota,
                   daily |-> x.daily, row |-> x.row, hold |-> x.hold, pays |-> x.pays, keep |-> x.keep]
  <2>1. [x EXCEPT !.at = "model", !.seen = quota] = y
    BY <1>1, Filled, Zenon
  <2>2. request' = [request EXCEPT ![r] = y]
    BY <1>4, <2>1, Zenon DEF Become
  <2>3. quota \in [kind : {"none", "count", "cost"}, limit : Nat]
    BY UsageAssumption DEF IInv, TypeOK
  <2>4. y \in RequestType
    BY <1>1, <2>3 DEF RequestType
  <2>5. Sound(y) /\ y.row = x.row /\ y.daily = x.daily
    BY <1>1 DEF Call, Sound, Admitting, Running, Settling, Kept, Admission, Settlement, OverageOf, DueOf
  <2> HIDE DEF y
  <2> QED BY <2>2, <2>4, <2>5 DEF Lessens, Less
<1> QED BY <1>2, <1>3, <1>4, Zenon DEF ReadQuota

\* An overage is held beside the row, or the row is released.
LEMMA ReserveOverageLessens ==
  ASSUME IInv, NEW r \in Requests, ReserveOverage(r)
  PROVE  Lessens(r)
<1> DEFINE x == request[r]
           held == [status |-> "reserved", held |-> x.estimate - x.row.reserved, charged |-> 0]
<1>1. x \in RequestType /\ Sound(x) /\ x.at = "overage" /\ x.row \in Rows /\ x.daily \in Rows /\ x.hold \in Holds
  BY CallKnown DEF ReserveOverage, At
<1>2. CASE Become(r, [x EXCEPT !.at = "run", !.hold = held])
  <2> DEFINE y == Call(x, "run", x.daily, x.row, held, x.pays, x.keep)
  <2>1. [x EXCEPT !.at = "run", !.hold = held] = y
    BY <1>1, Replaced, Zenon
  <2>2. request' = [request EXCEPT ![r] = y]
    BY <1>2, <2>1, Zenon DEF Become
  <2>3. held \in Holds
    BY <1>1, CallKnown DEF Holds, Rows, Sound, Admitting
  <2>4. y \in RequestType
    BY <1>1, <2>3, CallType, CallKnown, ZenonT(60)
  <2>5. Sound(y) /\ y.row = x.row /\ y.daily = x.daily
    BY <1>1 DEF Call, Sound, Admitting, Running, Settling, Kept, Admission, Settlement, OverageOf, DueOf
  <2> HIDE DEF y
  <2> QED BY <2>2, <2>4, <2>5 DEF Lessens, Less
<1>3. CASE Become(r, [x EXCEPT !.at = "undo", !.row = Released(x.row)])
  <2> DEFINE y == Call(x, "undo", x.daily, Released(x.row), x.hold, x.pays, x.keep)
  <2>1. [x EXCEPT !.at = "undo", !.row = Released(x.row)] = y
    BY <1>1, Replaced, Zenon
  <2>2. request' = [request EXCEPT ![r] = y]
    BY <1>3, <2>1, Zenon DEF Become
  <2>3. Released(x.row) \in Rows /\ Released(x.row).status = "released" /\ Less(x.row, Released(x.row))
    BY <1>1, RowEnds DEF Less, Sound, Admitting
  <2>4. y \in RequestType
    BY <1>1, <2>3, CallType, CallKnown
  <2>5. Sound(y) /\ y.row = Released(x.row) /\ y.daily = x.daily
    BY <1>1, <2>3 DEF Call, Sound, Admitting, Running, Settling, Kept, Admission, Settlement, OverageOf, DueOf
  <2> HIDE DEF y
  <2> QED BY <2>2, <2>3, <2>4, <2>5 DEF Lessens, Less
<1>4. CASE EndAt(r, "leaked")
  BY <1>4, EndsAt
<1> QED BY <1>2, <1>3, <1>4, Zenon DEF ReserveOverage

\* A call that pays with credits is held whole, where it has an estimate.
LEMMA ReserveCallLessens ==
  ASSUME IInv, NEW r \in Requests, ReserveCall(r)
  PROVE  Lessens(r)
<1> DEFINE x == request[r]
           held == [status |-> "reserved", held |-> x.estimate, charged |-> 0]
<1>1. x \in RequestType /\ Sound(x) /\ x.at = "credits" /\ x.row \in Rows /\ x.daily \in Rows /\ x.hold \in Holds
  BY CallKnown DEF ReserveCall, At
<1>2. CASE Goto(r, "run")
  <2>1. Sound(Call(x, "run", x.daily, x.row, x.hold, x.pays, x.keep))
    BY <1>1 DEF Call, Sound, Admitting, Running, Settling, Kept, Admission, Settlement, OverageOf, DueOf
  <2> QED BY <1>2, <2>1, Moves
<1>3. CASE Become(r, [x EXCEPT !.at = "run", !.hold = held])
  <2> DEFINE y == Call(x, "run", x.daily, x.row, held, x.pays, x.keep)
  <2>1. [x EXCEPT !.at = "run", !.hold = held] = y
    BY <1>1, Replaced, Zenon
  <2>2. request' = [request EXCEPT ![r] = y]
    BY <1>3, <2>1, Zenon DEF Become
  <2>3. held \in Holds
    BY <1>1, CallKnown DEF Holds
  <2>4. y \in RequestType
    BY <1>1, <2>3, CallType, CallKnown, ZenonT(60)
  <2>5. Sound(y) /\ y.row = x.row /\ y.daily = x.daily
    BY <1>1 DEF Call, Sound, Admitting, Running, Settling, Kept, Admission, Settlement, OverageOf, DueOf
  <2> HIDE DEF y
  <2> QED BY <2>2, <2>4, <2>5 DEF Lessens, Less
<1> QED BY <1>2, <1>3, Zenon DEF ReserveCall

\* Releasing a row lets go of it, and of nothing else.
LEMMA Releasing ==
  ASSUME NEW w \in Rows
  PROVE  Released(w) \in Rows /\ Less(w, Released(w)) /\ Less(w, w) /\ Released(w).status # "reserved"
  BY RowEnds DEF Less

\* A released hold has charged what it had charged.
LEMMA HoldReleasing ==
  ASSUME NEW h \in Holds
  PROVE  /\ ReleasedHold(h) \in Holds /\ ReleasedHold(h).status # "reserved"
         /\ ReleasedHold(h).charged = h.charged
         /\ ReleasedHold(h).status = "settled" <=> h.status = "settled"
<1>1. 0 \in Nat
  OBVIOUS
<1>2. /\ h.status = "reserved" =>
           ReleasedHold(h) = [status |-> "released", held |-> h.held, charged |-> h.charged]
      /\ h.status # "reserved" => ReleasedHold(h) = h
  BY <1>1, HoldEnds
<1> QED BY <1>2 DEF Holds

\* Undoing an admission releases the tokens of the day.
LEMMA ReleaseDailyLessens ==
  ASSUME IInv, NEW r \in Requests, ReleaseDaily(r)
  PROVE  Lessens(r)
<1> DEFINE x == request[r]
<1>1. /\ x.row \in Rows /\ x.daily \in Rows /\ x.hold \in Holds
      /\ x.row.status # "reserved" /\ x.hold.status = "none" /\ x.hold.charged = 0
  BY CallKnown DEF ReleaseDaily, At, Sound, Admitting, Kept
<1>2. CASE End(r, "refused", x.row, Released(x.daily), x.hold)
  BY <1>1, <1>2, Releasing, Ends
<1>3. CASE EndAt(r, "leaked")
  BY <1>3, EndsAt
<1> QED BY <1>2, <1>3, Zenon DEF ReleaseDaily

\* The deferred release leaves a kept call alone and releases the others, as far as it can.
LEMMA ReleaseLessens ==
  ASSUME IInv, NEW r \in Requests, ReleaseUsageBilling(r)
  PROVE  Lessens(r)
<1> DEFINE x == request[r]
<1>1. x \in RequestType /\ Sound(x) /\ x.at = "release" /\ x.row \in Rows /\ x.daily \in Rows /\ x.hold \in Holds
  BY CallKnown DEF ReleaseUsageBilling, At
<1>2. CASE x.keep /\ Goto(r, "unsettled")
  <2>1. Sound(Call(x, "unsettled", x.daily, x.row, x.hold, x.pays, x.keep))
    BY <1>1, <1>2 DEF Call, Sound, Admitting, Running, Settling, Kept, Admission, Settlement, OverageOf, DueOf
  <2> QED BY <1>2, <2>1, Moves
<1>3. ASSUME NEW failed \in SUBSET {"row", "daily", "hold"},
             End(r, IF failed = {} THEN "over" ELSE "leaked",
                 IF "row" \in failed THEN x.row ELSE Released(x.row),
                 IF "daily" \in failed THEN x.daily ELSE Released(x.daily),
                 IF "hold" \in failed THEN x.hold ELSE ReleasedHold(x.hold))
      PROVE  Lessens(r)
  <2> DEFINE at == IF failed = {} THEN "over" ELSE "leaked"
             row == IF "row" \in failed THEN x.row ELSE Released(x.row)
             daily == IF "daily" \in failed THEN x.daily ELSE Released(x.daily)
             hold == IF "hold" \in failed THEN x.hold ELSE ReleasedHold(x.hold)
  <2>1. /\ row \in Rows /\ Less(x.row, row) /\ daily \in Rows /\ Less(x.daily, daily)
        /\ failed = {} => row.status # "reserved" /\ daily.status # "reserved"
    BY <1>1, Releasing
  <2>2. /\ hold \in Holds
        /\ failed = {} => hold.status # "reserved"
        /\ hold.status # "settled" => hold.charged = 0
    BY <1>1, HoldReleasing DEF Sound, Kept
  <2>3. at \in {"refused", "over", "leaked"} /\ (at \in {"refused", "over"} => failed = {})
    OBVIOUS
  <2>4. End(r, at, row, daily, hold)
    BY <1>3
  <2> HIDE DEF at, row, daily, hold
  <2> QED BY <2>1, <2>2, <2>3, <2>4, Ends
<1> QED BY <1>2, <1>3, Zenon DEF ReleaseUsageBilling

\* An answer is kept, whatever it came to.
LEMMA ProduceLessens ==
  ASSUME IInv, NEW r \in Requests, Produce(r)
  PROVE  Lessens(r)
<1> DEFINE x == request[r]
<1>1. /\ x \in RequestType /\ Sound(x) /\ x.at = "run"
  BY CallKnown DEF Produce, At
<1>2. PICK actual \in Actuals :
        Become(r, [x EXCEPT !.at = "settle daily", !.actual = actual, !.keep = TRUE])
  BY Zenon DEF Produce
<1> DEFINE y == [at |-> "settle daily", estimate |-> x.estimate, actual |-> actual, day |-> x.day,
                 seen |-> x.seen, daily |-> x.daily, row |-> x.row, hold |-> x.hold, pays |-> x.pays,
                 keep |-> TRUE]
<1>3. [x EXCEPT !.at = "settle daily", !.actual = actual, !.keep = TRUE] = y
  <2>1. \A a, c, k : [x EXCEPT !.at = a, !.actual = c, !.keep = k]
                     = [at |-> a, estimate |-> x.estimate, actual |-> c, day |-> x.day, seen |-> x.seen,
                        daily |-> x.daily, row |-> x.row, hold |-> x.hold, pays |-> x.pays, keep |-> k]
    BY <1>1, Filled
  <2> QED BY ONLY <2>1, Zenon
<1>4. request' = [request EXCEPT ![r] = y]
  BY <1>2, <1>3, Zenon DEF Become
<1>5. actual \in Nat
  BY UsageAssumption
<1>6. y \in RequestType
  BY <1>1, <1>5 DEF RequestType
<1>7. Sound(y) /\ y.row = x.row /\ y.daily = x.daily
  BY <1>1 DEF Call, Sound, Admitting, Running, Settling, Kept, Admission, Settlement, OverageOf, DueOf
<1> HIDE DEF y
<1> QED BY <1>4, <1>6, <1>7 DEF Lessens, Less

\* A call that came to nothing changes no row yet.
LEMMA ProduceNothingLessens ==
  ASSUME IInv, NEW r \in Requests, ProduceNothing(r)
  PROVE  Lessens(r)
<1> DEFINE x == request[r]
<1>1. Sound(x) /\ x.at = "run" /\ Goto(r, "release")
  BY CallKnown DEF ProduceNothing, At
<1>2. Sound(Call(x, "release", x.daily, x.row, x.hold, x.pays, x.keep))
  BY <1>1 DEF Call, Sound, Admitting, Running, Settling, Kept, Admission, Settlement, OverageOf, DueOf
<1> QED BY <1>1, <1>2, Moves

\* A settlement that fails leaves what it has not finalized reserved.
LEMMA SettleFailsLessens ==
  ASSUME IInv, NEW r \in Requests, SettleFails(r)
  PROVE  Lessens(r)
<1> DEFINE x == request[r]
<1>1. /\ Sound(x) /\ Goto(r, "release")
      /\ x.at \in {"settle daily", "settle row", "hold", "charge", "drop"}
  BY CallKnown DEF SettleFails
<1>2. Sound(Call(x, "release", x.daily, x.row, x.hold, x.pays, x.keep))
  BY <1>1 DEF Call, Sound, Admitting, Running, Settling, Kept, Admission, Settlement, OverageOf, DueOf
<1> QED BY <1>1, <1>2, Moves

\* Settling a row keeps what it was admitted for.
LEMMA Finalizing ==
  ASSUME NEW w \in Rows, NEW n \in Nat
  PROVE  /\ Finalized(w, n) \in Rows /\ Less(w, Finalized(w, n)) /\ Finalized(w, n).reserved = w.reserved
         /\ w.status = "none" => Finalized(w, n).status = "none"
         /\ w.status = "reserved" => Finalized(w, n).status = "finalized"
  BY RowEnds DEF Less

\* The tokens of the day are finalized first.
LEMMA SettleDailyLessens ==
  ASSUME IInv, NEW r \in Requests, SettleDaily(r)
  PROVE  Lessens(r)
<1> DEFINE x == request[r]
           daily == Finalized(x.daily, x.actual)
           at == IF x.row.status # "none" THEN "settle row"
                 ELSE IF ~x.pays THEN "settled"
                 ELSE IF x.hold.status = "none" /\ x.actual = 0 THEN "settled"
                 ELSE IF x.hold.status = "none" THEN "hold" ELSE "charge"
           y == Call(x, at, daily, x.row, x.hold, x.pays, x.keep)
<1>1. x \in RequestType /\ Sound(x) /\ x.at = "settle daily" /\ x.row \in Rows /\ x.daily \in Rows /\ x.hold \in Holds
  BY CallKnown DEF SettleDaily, At
<1>2. Become(r, [x EXCEPT !.at = at, !.daily = daily])
  BY Zenon DEF SettleDaily
<1>3. [x EXCEPT !.at = at, !.daily = daily] = y
  <2> HIDE DEF at, daily
  <2> QED BY <1>1, Replaced, Zenon
<1>4. request' = [request EXCEPT ![r] = y]
  <2> HIDE DEF at, daily
  <2> QED BY <1>2, <1>3, Zenon DEF Become
<1>5. /\ daily \in Rows /\ Less(x.daily, daily)
      /\ x.daily.status \in {"none", "reserved"} => daily.status \in {"none", "finalized"}
  BY <1>1, CallKnown, Finalizing
<1>6. at \in {"settle row", "settled", "hold", "charge"}
  OBVIOUS
<1>7. y \in RequestType
  <2> HIDE DEF at, daily
  <2> QED BY <1>1, <1>5, <1>6, CallKnown, CallType, ZenonT(60)
<1>8. Sound(y) /\ y.row = x.row /\ y.daily = daily
  <2> HIDE DEF daily
  <2> QED BY <1>1, <1>5, ZenonT(60) DEF Call, Sound, Admitting, Running, Settling, Kept, Admission, Settlement, OverageOf, DueOf
<1> HIDE DEF y, daily
<1> QED BY <1>4, <1>5, <1>7, <1>8 DEF Lessens, Less

\* Then the row of the allowance.
LEMMA SettleRowLessens ==
  ASSUME IInv, NEW r \in Requests, SettleRow(r)
  PROVE  Lessens(r)
<1> DEFINE x == request[r]
           n == IF x.seen.kind = "cost" THEN x.actual ELSE 1
           row == Finalized(x.row, n)
           at == IF OverageOf(x) = 0 THEN (IF x.hold.status = "reserved" THEN "drop" ELSE "settled")
                 ELSE IF x.hold.status = "none" THEN "hold" ELSE "charge"
           y == Call(x, at, x.daily, row, x.hold, x.pays, x.keep)
<1>1. x \in RequestType /\ Sound(x) /\ x.at = "settle row" /\ x.row \in Rows /\ x.daily \in Rows /\ x.hold \in Holds
  BY CallKnown DEF SettleRow, At
<1>2. Become(r, [x EXCEPT !.at = at, !.row = row])
  BY Zenon DEF SettleRow, Overage, OverageOf
<1>3. [x EXCEPT !.at = at, !.row = row] = y
  <2> HIDE DEF at, row
  <2> QED BY <1>1, Replaced, Zenon
<1>4. request' = [request EXCEPT ![r] = y]
  <2> HIDE DEF at, row
  <2> QED BY <1>2, <1>3, Zenon DEF Become
<1>5. row \in Rows /\ Less(x.row, row) /\ row.status = "finalized" /\ row.reserved = x.row.reserved
  <2>1. n \in Nat /\ x.row.status = "reserved"
    BY <1>1, CallKnown DEF Sound, Settling
  <2> HIDE DEF n
  <2> QED BY <1>1, <2>1, Finalizing
<1>6. at \in {"drop", "settled", "hold", "charge"}
  OBVIOUS
<1>7. y \in RequestType
  <2> HIDE DEF at, row
  <2> QED BY <1>1, <1>5, <1>6, CallKnown, CallType
<1>8. y.row = row /\ y.daily = x.daily /\ y.hold = x.hold /\ y.pays = x.pays /\ y.keep = x.keep /\ y.at = at
      /\ y.seen = x.seen /\ y.actual = x.actual
  BY DEF Call
<1>9. OverageOf(y) = OverageOf(x)
  <2> HIDE DEF y, row
  <2> QED BY <1>5, <1>8 DEF OverageOf
<1>10. Sound(y)
  <2> HIDE DEF y, row
  <2> QED BY <1>1, <1>5, <1>8, <1>9 DEF Sound, Admitting, Running, Settling, Kept, Admission, Settlement, DueOf
<1> HIDE DEF y, row
<1> QED BY <1>4, <1>5, <1>7, <1>8, <1>10 DEF Lessens, Less

\* The last steps touch the hold alone.
LEMMA HoldMoves ==
  ASSUME IInv, NEW r \in Requests, NEW hold \in Holds, NEW at \in {"charge", "settled"},
         Become(r, [request[r] EXCEPT !.at = at, !.hold = hold]),
         Sound(Call(request[r], at, request[r].daily, request[r].row, hold, request[r].pays, request[r].keep))
  PROVE  Lessens(r)
<1> DEFINE x == request[r]
           y == Call(x, at, x.daily, x.row, hold, x.pays, x.keep)
<1>1. [x EXCEPT !.at = at, !.hold = hold] = y
  BY CallKnown, Replaced, Zenon
<1>2. request' = [request EXCEPT ![r] = y]
  BY <1>1, Zenon DEF Become
<1>3. y \in RequestType
  BY CallKnown, CallType
<1>4. y.row = x.row /\ y.daily = x.daily
  BY DEF Call
<1> HIDE DEF y
<1> QED BY <1>2, <1>3, <1>4 DEF Lessens, Less, y

\* What is due is a natural number, and is the one of the record.
LEMMA DueType ==
  ASSUME IInv, NEW r \in Requests
  PROVE  Due(r) = DueOf(request[r]) /\ Overage(r) = OverageOf(request[r]) /\ Due(r) \in Nat
<1>1. request[r].row.reserved \in Nat /\ request[r].actual \in Nat
  BY CallKnown DEF Rows
<1> QED BY <1>1 DEF Due, DueOf, Overage, OverageOf

\* A call without a hold gets one for what is due.
LEMMA SettleHoldLessens ==
  ASSUME IInv, NEW r \in Requests, SettleHold(r)
  PROVE  Lessens(r)
<1> DEFINE x == request[r]
           hold == [status |-> "reserved", held |-> Due(r), charged |-> 0]
<1>1. Sound(x) /\ x.at = "hold"
  BY CallKnown DEF SettleHold, At
<1>2. Become(r, [x EXCEPT !.at = "charge", !.hold = hold])
  BY Zenon DEF SettleHold
<1>3. hold \in Holds
  BY DueType DEF Holds
<1>4. Sound(Call(x, "charge", x.daily, x.row, hold, x.pays, x.keep))
  BY <1>1 DEF Call, Sound, Admitting, Running, Settling, Kept, Admission, Settlement, OverageOf, DueOf
<1> HIDE DEF hold
<1> QED BY <1>2, <1>3, <1>4, HoldMoves

\* A hold is settled for what is due.
LEMMA ChargeLessens ==
  ASSUME IInv, NEW r \in Requests, Charge(r)
  PROVE  Lessens(r)
<1> DEFINE x == request[r]
           hold == [status |-> "settled", held |-> x.hold.held, charged |-> Due(r)]
<1>1. Sound(x) /\ x.at = "charge" /\ x.hold \in Holds
  BY CallKnown DEF Charge, At
<1>2. Become(r, [x EXCEPT !.at = "settled", !.hold = [x.hold EXCEPT !.status = "settled", !.charged = Due(r)]])
  BY Zenon DEF Charge
<1>3. [x.hold EXCEPT !.status = "settled", !.charged = Due(r)] = hold
  BY <1>1, DueType, HoldEnds, Zenon
<1>4. hold \in Holds
  BY <1>1, DueType DEF Holds
<1>5. Sound(Call(x, "settled", x.daily, x.row, hold, x.pays, x.keep))
  BY <1>1, DueType DEF Call, Sound, Admitting, Running, Settling, Kept, Admission, Settlement, OverageOf, DueOf
<1>6. Become(r, [x EXCEPT !.at = "settled", !.hold = hold])
  BY <1>2, <1>3, Zenon
<1> HIDE DEF hold
<1> QED BY <1>4, <1>5, <1>6, HoldMoves

\* A hold for an overage that did not come is released.
LEMMA DropHoldLessens ==
  ASSUME IInv, NEW r \in Requests, DropHold(r)
  PROVE  Lessens(r)
<1> DEFINE x == request[r]
           hold == ReleasedHold(x.hold)
<1>1. Sound(x) /\ x.at = "drop" /\ x.hold \in Holds
  BY CallKnown DEF DropHold, At
<1>2. Become(r, [x EXCEPT !.at = "settled", !.hold = hold])
  BY Zenon DEF DropHold
<1>3. hold \in Holds /\ hold.status # "reserved" /\ hold.charged = x.hold.charged
      /\ (hold.status = "settled" <=> x.hold.status = "settled")
  BY <1>1, HoldReleasing
<1> HIDE DEF hold
<1>4. Sound(Call(x, "settled", x.daily, x.row, hold, x.pays, x.keep))
  BY <1>1, <1>3 DEF Call, Sound, Admitting, Running, Settling, Kept, Admission, Settlement, OverageOf, DueOf
<1> QED BY <1>2, <1>3, <1>4, HoldMoves

-----------------------------------------------------------------------------
(* The two reservations.                                                   *)

\* What an admission adds to a day fits into what the day has left.
LEMMA DailyReserved ==
  ASSUME IInv, NEW r \in Requests, NEW y \in RequestType, request' = [request EXCEPT ![r] = y],
         now' = now, y.daily.status = "reserved",
         y.daily.reserved + DailyUsed(y.daily.window) <= DailyLimit
  PROVE  DailyTokensAreCapped'
<1>1. /\ \A s \in Requests : request'[s] = IF s = r THEN y ELSE request[s]
      /\ Fields(request) /\ Fields(request')
  BY OneCall DEF IInv
<1>2. ASSUME NEW d \in 0..(MaxNow \div Day), (d + 1) * Day > now
      PROVE  DayUse(request', d) <= DailyLimit
  <2> DEFINE f == [s \in OfDay(request', d) |-> Taken(request'[s].daily)]
             g == [s \in OfDay(request, d) |-> Taken(request[s].daily)]
             u == [s \in OfDay(request, d) |-> Counts(request[s].daily)]
  <2>1. /\ OfDay(request', d) \in SUBSET Requests /\ OfDay(request, d) \in SUBSET Requests
        /\ f \in [OfDay(request', d) -> Nat] /\ g \in [OfDay(request, d) -> Nat]
        /\ u \in [OfDay(request, d) -> Nat]
    BY <1>1, TakenType DEF OfDay, Fields
  <2>2. CASE y.daily.window # d
    <3>1. ASSUME NEW s \in OfDay(request', d)
          PROVE  s \in OfDay(request, d) /\ f[s] <= g[s]
      <4>1. s \in Requests /\ s # r /\ request'[s] = request[s]
        BY <1>1, <2>2 DEF OfDay
      <4>2. s \in OfDay(request, d)
        BY <4>1 DEF OfDay
      <4>3. f[s] = g[s] /\ g[s] \in Nat
        BY <2>1, <4>1, <4>2
      <4> HIDE DEF f, g
      <4> QED BY <4>2, <4>3
    <3>2. Total(f) <= Total(g) /\ Total(f) \in Nat /\ Total(g) \in Nat
      <4> HIDE DEF f, g
      <4> QED BY <2>1, <3>1, TotalCovered, TotalType
    <3>3. Total(g) <= DailyLimit
      BY <1>2, CapsAreSums DEF IInv, DayUse
    <3>4. Total(f) <= DailyLimit
      <4> HIDE DEF f, g
      <4> QED BY <3>2, <3>3, UsageAssumption
    <3> QED BY <3>4 DEF DayUse
  <2>3. CASE y.daily.window = d
    <3>1. DailyUsed(d) = Total(u)
      BY <1>2 DEF DailyUsed, OfDay
    <3>2. y.daily \in Rows /\ y.daily.reserved \in Nat
      BY DEF RequestType, Rows
    <3>3. r \in OfDay(request', d) => f[r] <= y.daily.reserved
      BY <1>1, <3>2, TakenType
    <3>4. ASSUME NEW s \in OfDay(request', d) \ {r}
          PROVE  s \in OfDay(request, d) /\ f[s] <= u[s]
      <4>1. s \in Requests /\ request'[s] = request[s]
        BY <1>1 DEF OfDay
      <4>2. s \in OfDay(request, d)
        BY <4>1 DEF OfDay
      <4>3. Taken(request[s].daily) <= Counts(request[s].daily)
        BY <1>1, <4>1, TakenType DEF Fields
      <4> QED BY <4>1, <4>2, <4>3
    <3>5. Total(f) <= Total(u) + y.daily.reserved /\ Total(f) \in Nat /\ Total(u) \in Nat
      <4> HIDE DEF f, u
      <4> QED BY <2>1, <3>2, <3>3, <3>4, TotalGrows, TotalType
    <3>6. Total(f) <= DailyLimit
      <4> HIDE DEF f, u
      <4> QED BY <2>3, <3>1, <3>2, <3>5, UsageAssumption
    <3> QED BY <3>6 DEF DayUse
  <2> QED BY <2>2, <2>3
<1> QED BY <1>2, CapsAreSums

\* The window of the present cycle lasts.
LEMMA WindowLasts ==
  ASSUME IInv
  PROVE  WindowStart \in Nat /\ WindowStart + Period > now
<1>1. now \in Nat /\ anchor \in Nat /\ Period \in Nat \ {0}
  BY UsageAssumption DEF IInv, TypeOK
<1>2. CASE now > anchor
  <2> DEFINE n == now - anchor
             q == n \div Period
  <2>1. n \in Nat /\ now = anchor + n /\ WindowStart = anchor + q * Period
    BY <1>1, <1>2 DEF WindowStart
  <2>2. q \in Nat /\ q * Period \in Nat /\ q * Period + Period > n
    <3> HIDE DEF n
    <3> QED BY <1>1, <2>1
  <2> HIDE DEF n, q
  <2> QED BY <1>1, <2>1, <2>2
<1>3. CASE ~(now > anchor)
  BY <1>1, <1>3 DEF WindowStart
<1> QED BY <1>2, <1>3

\* What an admission takes from the allowance fits into what its window has left.
LEMMA ModelReserved ==
  ASSUME IInv, NEW r \in Requests, NEW y \in RequestType, request' = [request EXCEPT ![r] = y],
         UNCHANGED <<now, quota, anchor>>,
         y.row.status = "reserved", y.row.cycle = anchor, y.row.window = WindowStart,
         y.row.limit = quota.limit, y.row.reserved + ModelUsed <= quota.limit
  PROVE  RowsFollowTheQuota' /\ FreeUseIsCapped'
<1>1. /\ \A s \in Requests : request'[s] = IF s = r THEN y ELSE request[s]
      /\ Fields(request) /\ Fields(request')
  BY OneCall DEF IInv
<1>2. anchor \in Nat /\ quota.limit \in Nat
  BY UsageAssumption DEF IInv, TypeOK
<1>3. RowsFollowTheQuota'
  BY <1>1, <1>2 DEF IInv, RowsFollowTheQuota
<1>4. ASSUME NEW s \in Requests, Holding(request'[s].row)
      PROVE  FreeUse(request', request'[s].row.cycle, request'[s].row.window) <= request'[s].row.limit
  <2> DEFINE c == request'[s].row.cycle
             w == request'[s].row.window
             f == [t \in InWindow(request', c, w) |-> Taken(request'[t].row)]
             g == [t \in InWindow(request, c, w) |-> Taken(request[t].row)]
             u == [t \in InWindow(request, c, w) |-> Counts(request[t].row)]
  <2>1. /\ InWindow(request', c, w) \in SUBSET Requests /\ InWindow(request, c, w) \in SUBSET Requests
        /\ f \in [InWindow(request', c, w) -> Nat] /\ g \in [InWindow(request, c, w) -> Nat]
        /\ u \in [InWindow(request, c, w) -> Nat]
    <3> HIDE DEF c, w
    <3> QED BY <1>1, TakenType DEF InWindow, Fields
  <2>2. CASE c = anchor /\ w = WindowStart
    <3>1. ModelUsed = Total(u)
      <4> HIDE DEF c, w
      <4> QED BY <2>2, WindowLasts DEF ModelUsed, InWindow
    <3>2. y.row \in Rows /\ y.row.reserved \in Nat
      BY DEF RequestType, Rows
    <3>3. r \in InWindow(request', c, w) => f[r] <= y.row.reserved
      <4> HIDE DEF c, w
      <4> QED BY <1>1, <3>2, TakenType
    <3>4. ASSUME NEW t \in InWindow(request', c, w) \ {r}
          PROVE  t \in InWindow(request, c, w) /\ f[t] <= u[t]
      <4> HIDE DEF c, w
      <4>1. t \in Requests /\ request'[t] = request[t]
        BY <1>1 DEF InWindow
      <4>2. t \in InWindow(request, c, w)
        BY <4>1 DEF InWindow
      <4>3. Taken(request[t].row) <= Counts(request[t].row)
        BY <1>1, <4>1, TakenType DEF Fields
      <4> QED BY <4>1, <4>2, <4>3
    <3>5. Total(f) <= Total(u) + y.row.reserved /\ Total(f) \in Nat /\ Total(u) \in Nat
      <4> HIDE DEF f, u, c, w
      <4> QED BY <2>1, <3>2, <3>3, <3>4, TotalGrows, TotalType
    <3>6. request'[s].row.limit = quota.limit
      BY <1>3, <1>4, <2>2 DEF RowsFollowTheQuota
    <3>7. Total(f) <= request'[s].row.limit
      <4> HIDE DEF f, u
      <4> QED BY <1>2, <3>1, <3>2, <3>5, <3>6
    <3> QED BY <3>7 DEF FreeUse
  <2>3. CASE ~(c = anchor /\ w = WindowStart)
    <3>1. s # r /\ request'[s] = request[s]
      BY <1>1, <2>3
    <3>2. ASSUME NEW t \in InWindow(request', c, w)
          PROVE  t \in InWindow(request, c, w) /\ f[t] <= g[t]
      <4> HIDE DEF c, w
      <4>1. t \in Requests /\ t # r /\ request'[t] = request[t]
        BY <1>1, <2>3 DEF InWindow
      <4>2. t \in InWindow(request, c, w)
        BY <4>1 DEF InWindow
      <4>3. f[t] = g[t] /\ g[t] \in Nat
        BY <2>1, <4>1, <4>2
      <4> HIDE DEF f, g
      <4> QED BY <4>2, <4>3
    <3>3. Total(f) <= Total(g) /\ Total(f) \in Nat /\ Total(g) \in Nat
      <4> HIDE DEF f, g, c, w
      <4> QED BY <2>1, <3>2, TotalCovered, TotalType
    <3>4. FreeUse(request, request[s].row.cycle, request[s].row.window) <= request[s].row.limit
      BY <1>4, <3>1, CapsAreSums DEF IInv
    <3>5. Total(g) <= request'[s].row.limit /\ request'[s].row.limit \in Nat
      BY <1>1, <3>1, <3>4 DEF FreeUse, Fields, Rows
    <3>6. Total(f) <= request'[s].row.limit
      <4> HIDE DEF f, g
      <4> QED BY <3>3, <3>5
    <3> QED BY <3>6 DEF FreeUse
  <2> QED BY <2>2, <2>3
<1> QED BY <1>3, <1>4, CapsAreSums

\* What a day has used, and what a window has, are natural numbers.
LEMMA UsedType ==
  ASSUME IInv
  PROVE  ModelUsed \in Nat /\ \A d : DailyUsed(d) \in Nat
<1>1. \A s \in Requests : request[s].row \in Rows /\ request[s].daily \in Rows
  BY CallKnown
<1>2. ModelUsed \in Nat
  <2> DEFINE S == {s \in Requests : /\ request[s].row.cycle = anchor /\ request[s].row.window = WindowStart
                                    /\ WindowStart + Period > now}
             f == [s \in S |-> Counts(request[s].row)]
  <2>1. S \in SUBSET Requests /\ f \in [S -> Nat]
    BY <1>1, TakenType
  <2> HIDE DEF S, f
  <2>2. Total(f) \in Nat
    BY <2>1, TotalType
  <2> QED BY <2>2, Zenon DEF ModelUsed, f, S
<1>3. ASSUME NEW d PROVE DailyUsed(d) \in Nat
  <2> DEFINE S == {s \in Requests : request[s].daily.window = d /\ (d + 1) * Day > now}
             f == [s \in S |-> Counts(request[s].daily)]
  <2>1. S \in SUBSET Requests /\ f \in [S -> Nat]
    BY <1>1, TakenType
  <2> HIDE DEF S, f
  <2>2. Total(f) \in Nat
    BY <2>1, TotalType
  <2> QED BY <2>2, Zenon DEF DailyUsed, f, S
<1> QED BY <1>2, <1>3

\* The tokens of the day are reserved only while the day has as many left.
LEMMA ReserveDailyTokensKeeps ==
  ASSUME IInv, NEW r \in Requests, ReserveDailyTokens(r)
  PROVE  IInv'
<1> DEFINE x == request[r]
           daily == [status |-> "reserved", cycle |-> 0, window |-> x.day, limit |-> DailyLimit,
                     reserved |-> x.estimate, actual |-> 0]
           y == Call(x, "read", daily, x.row, x.hold, x.pays, x.keep)
<1>1. /\ x \in RequestType /\ Sound(x) /\ x.at = "daily"
      /\ x.row \in Rows /\ x.daily \in Rows /\ x.hold \in Holds /\ x.estimate \in Nat /\ x.day \in Nat
      /\ UNCHANGED <<now, quota, anchor>>
  BY CallKnown DEF ReserveDailyTokens, At
<1>2. CASE EndAt(r, "refused")
  <2>1. /\ x.row.status = "none" /\ x.daily.status = "none" /\ x.hold.status = "none" /\ x.hold.charged = 0
        /\ Less(x.row, x.row) /\ Less(x.daily, x.daily)
    BY <1>1 DEF Sound, Admitting, Kept, Less
  <2>2. Lessens(r)
    BY <1>1, <1>2, <2>1, Ends DEF EndAt
  <2> QED BY <1>1, <2>2, LesserStep
<1>3. CASE /\ ~(x.estimate > DailyLimit - DailyUsed(x.day))
           /\ Become(r, [x EXCEPT !.at = "read", !.daily = daily])
  <2>1. [x EXCEPT !.at = "read", !.daily = daily] = y
    <3> HIDE DEF daily
    <3> QED BY <1>1, Replaced, Zenon
  <2>2. request' = [request EXCEPT ![r] = y]
    <3> HIDE DEF daily
    <3> QED BY <1>3, <2>1, Zenon DEF Become
  <2>3. daily \in Rows
    BY <1>1, UsageAssumption DEF Rows
  <2>4. y \in RequestType
    <3> HIDE DEF daily
    <3> QED BY <1>1, <2>3, CallKnown, CallType
  <2>5. y.row = x.row /\ y.daily = daily
    BY DEF Call
  <2>6. Sound(y)
    BY <1>1 DEF Call, Sound, Admitting, Running, Settling, Kept, Admission, Settlement, OverageOf, DueOf
  <2>7. daily.reserved + DailyUsed(daily.window) <= DailyLimit /\ daily.status = "reserved"
    BY <1>1, <1>3, UsedType, UsageAssumption
  <2> HIDE DEF y, daily
  <2>8. DailyTokensAreCapped'
    BY <1>1, <2>2, <2>4, <2>5, <2>7, DailyReserved
  <2>9. RowsFollowTheQuota' /\ FreeUseIsCapped'
    BY <1>1, <2>2, <2>4, <2>5, RowLess DEF Less
  <2> QED BY <1>1, <2>2, <2>4, <2>6, <2>8, <2>9, CallStep
<1> QED BY <1>2, <1>3, Zenon DEF ReserveDailyTokens

\* The allowance is reserved only while its window has as much left, and under the
\* quota that was read.
LEMMA ReserveModelQuotaKeeps ==
  ASSUME IInv, NEW r \in Requests, ReserveModelQuota(r)
  PROVE  IInv'
<1> DEFINE x == request[r]
           row == [status |-> "reserved", cycle |-> anchor, window |-> WindowStart, limit |-> quota.limit,
                   reserved |-> Asked(r), actual |-> 0]
           at == IF quota.kind = "cost" /\ x.estimate > Asked(r) THEN "overage" ELSE "run"
           pays == TRUE
<1>1. /\ x \in RequestType /\ Sound(x) /\ x.at = "model"
      /\ x.row \in Rows /\ x.daily \in Rows /\ x.hold \in Holds /\ x.estimate \in Nat
      /\ UNCHANGED <<now, quota, anchor>>
  BY CallKnown DEF ReserveModelQuota, At
<1>2. CASE Goto(r, "undo")
  <2>1. Sound(Call(x, "undo", x.daily, x.row, x.hold, x.pays, x.keep))
    BY <1>1 DEF Call, Sound, Admitting, Running, Settling, Kept, Admission, Settlement, OverageOf, DueOf
  <2> QED BY <1>1, <1>2, <2>1, Moves, LesserStep
<1>3. CASE Become(r, [x EXCEPT !.at = "credits", !.pays = TRUE])
  <2> DEFINE y == Call(x, "credits", x.daily, x.row, x.hold, pays, x.keep)
  <2>1. [x EXCEPT !.at = "credits", !.pays = pays] = y
    <3> HIDE DEF pays
    <3> QED BY <1>1, Replaced, Zenon
  <2>2. request' = [request EXCEPT ![r] = y]
    BY <1>3, <2>1, Zenon DEF Become
  <2>3. y \in RequestType
    BY <1>1, CallType, CallKnown
  <2>4. Sound(y) /\ y.row = x.row /\ y.daily = x.daily
    BY <1>1 DEF Call, Sound, Admitting, Running, Settling, Kept, Admission, Settlement, OverageOf, DueOf
  <2> HIDE DEF y
  <2>5. Lessens(r)
    BY <2>2, <2>3, <2>4 DEF Lessens, Less
  <2> QED BY <1>1, <2>5, LesserStep
<1>4. CASE /\ ~(ModelUsed >= quota.limit \/ Asked(r) > quota.limit - ModelUsed)
           /\ Become(r, [x EXCEPT !.at = at, !.row = row])
  <2> DEFINE y == Call(x, at, x.daily, row, x.hold, x.pays, x.keep)
  <2>1. [x EXCEPT !.at = at, !.row = row] = y
    <3> HIDE DEF at, row
    <3> QED BY <1>1, Replaced, Zenon
  <2>2. request' = [request EXCEPT ![r] = y]
    <3> HIDE DEF at, row
    <3> QED BY <1>4, <2>1, Zenon DEF Become
  <2>3. /\ Asked(r) \in Nat /\ Asked(r) + ModelUsed <= quota.limit
        /\ quota.limit \in Nat /\ anchor \in Nat /\ WindowStart \in Nat
    <3>1. quota.limit \in Nat /\ anchor \in Nat /\ WindowStart \in Nat /\ ModelUsed \in Nat
      BY UsageAssumption, UsedType, WindowLasts DEF IInv, TypeOK
    <3> QED BY <1>4, <3>1 DEF Asked
  <2>4. row \in Rows
    BY <2>3 DEF Rows
  <2>5. at \in {"overage", "run"} /\ (at = "overage" => x.estimate > Asked(r))
    OBVIOUS
  <2>6. y \in RequestType
    <3> HIDE DEF at, row
    <3> QED BY <1>1, <2>4, <2>5, CallKnown, CallType
  <2>7. y.row = row /\ y.daily = x.daily
    BY DEF Call
  <2>8. Sound(y)
    <3> HIDE DEF at
    <3> QED BY <1>1, <2>5 DEF Call, Sound, Admitting, Running, Settling, Kept, Admission, Settlement, OverageOf, DueOf
  <2>9. /\ row.status = "reserved" /\ row.cycle = anchor /\ row.window = WindowStart
        /\ row.limit = quota.limit /\ row.reserved + ModelUsed <= quota.limit
    BY <2>3
  <2> HIDE DEF y, row, at
  <2>10. RowsFollowTheQuota' /\ FreeUseIsCapped'
    BY <1>1, <2>2, <2>6, <2>7, <2>9, ModelReserved
  <2>11. DailyTokensAreCapped'
    BY <1>1, <2>2, <2>6, <2>7, DailyLess DEF Less
  <2> QED BY <1>1, <2>2, <2>6, <2>8, <2>10, <2>11, CallStep
<1> QED BY <1>2, <1>3, <1>4, Zenon DEF ReserveModelQuota

-----------------------------------------------------------------------------
(* The steps of the calls, of administrators and of the clock.             *)

\* Every step of a call preserves the invariant.
LEMMA CallsKeep ==
  ASSUME IInv, NEW r \in Requests, AdmissionStep(r) \/ SettlementStep(r) \/ Crash(r)
  PROVE  IInv'
<1>1. CASE Begin(r)
  BY <1>1, BeginLessens, LesserStep DEF Begin
<1>2. CASE ReserveDailyTokens(r)
  BY <1>2, ReserveDailyTokensKeeps
<1>3. CASE AdmissionFails(r)
  BY <1>3, AdmissionFailsLessens, LesserStep DEF AdmissionFails
<1>4. CASE ReadQuota(r)
  BY <1>4, ReadQuotaLessens, LesserStep DEF ReadQuota
<1>5. CASE ReserveModelQuota(r)
  BY <1>5, ReserveModelQuotaKeeps
<1>6. CASE ReserveOverage(r)
  BY <1>6, ReserveOverageLessens, LesserStep DEF ReserveOverage
<1>7. CASE ReserveCall(r)
  BY <1>7, ReserveCallLessens, LesserStep DEF ReserveCall
<1>8. CASE ReleaseDaily(r)
  BY <1>8, ReleaseDailyLessens, LesserStep DEF ReleaseDaily
<1>9. CASE Produce(r)
  BY <1>9, ProduceLessens, LesserStep DEF Produce
<1>10. CASE ProduceNothing(r)
  BY <1>10, ProduceNothingLessens, LesserStep DEF ProduceNothing
<1>11. CASE ReleaseUsageBilling(r)
  BY <1>11, ReleaseLessens, LesserStep DEF ReleaseUsageBilling
<1>12. CASE SettleFails(r)
  BY <1>12, SettleFailsLessens, LesserStep DEF SettleFails
<1>13. CASE SettleDaily(r)
  BY <1>13, SettleDailyLessens, LesserStep DEF SettleDaily
<1>14. CASE SettleRow(r)
  BY <1>14, SettleRowLessens, LesserStep DEF SettleRow
<1>15. CASE SettleHold(r)
  BY <1>15, SettleHoldLessens, LesserStep DEF SettleHold
<1>16. CASE Charge(r)
  BY <1>16, ChargeLessens, LesserStep DEF Charge
<1>17. CASE DropHold(r)
  BY <1>17, DropHoldLessens, LesserStep DEF DropHold
<1>18. CASE Crash(r)
  BY <1>18, CrashLessens, LesserStep DEF Crash
<1>19. CASE AdmissionStep(r)
  BY <1>1, <1>2, <1>3, <1>4, <1>5, <1>6, <1>7, <1>8, <1>19, Zenon DEF AdmissionStep
<1>20. CASE SettlementStep(r)
  BY <1>9, <1>10, <1>11, <1>12, <1>13, <1>14, <1>15, <1>16, <1>17, <1>20, Zenon DEF SettlementStep
<1> QED BY <1>18, <1>19, <1>20

\* A new cycle leaves the rows where they are: none of them belongs to it.
LEMMA NewCycle ==
  ASSUME IInv, NEW q \in Quotas, quota' = q, anchor' = NextAnchor, NextAnchor <= MaxAnchor,
         UNCHANGED <<now, request>>
  PROVE  IInv'
<1>1. NextAnchor \in Nat /\ NextAnchor > anchor /\ anchor \in Nat
  BY DEF NextAnchor, IInv, TypeOK
<1>2. TypeOK'
  BY <1>1, UsageAssumption DEF IInv, TypeOK
<1>3. \A s \in Requests : request[s].row.cycle \in Nat
  BY CallKnown DEF Rows
<1>4. RowsFollowTheQuota'
  BY <1>1, <1>3 DEF IInv, RowsFollowTheQuota
<1>5. FreeUseIsCapped' /\ DailyTokensAreCapped'
  BY CapsAreSums DEF IInv
<1> QED BY <1>2, <1>4, <1>5 DEF IInv

\* Time only ends days.
LEMMA TickKeeps ==
  ASSUME IInv, Tick
  PROVE  IInv'
<1>1. TypeOK' /\ now' > now /\ now \in Nat /\ now' \in Nat
  BY UsageAssumption DEF IInv, TypeOK, Tick
<1>2. RowsFollowTheQuota' /\ FreeUseIsCapped'
  BY CapsAreSums DEF IInv, RowsFollowTheQuota, Tick
<1>3. ASSUME NEW d \in 0..(MaxNow \div Day), (d + 1) * Day > now'
      PROVE  DayUse(request', d) <= DailyLimit
  <2>1. (d + 1) * Day > now
    <3>1. (d + 1) * Day \in Nat
      BY UsageAssumption
    <3> QED BY <1>1, <1>3, <3>1
  <2> QED BY <2>1, CapsAreSums DEF IInv, Tick
<1>4. DailyTokensAreCapped'
  BY <1>3, CapsAreSums
<1> QED BY <1>1, <1>2, <1>4 DEF IInv, Tick

\* Init establishes the invariant: nothing is reserved.
LEMMA InitInv == Init => IInv
<1> SUFFICES ASSUME Init PROVE IInv
  OBVIOUS
<1>1. TypeOK
  <2>1. NoRequest \in RequestType
    BY DEF NoRequest, NoRow, NoHold, RequestType, Rows, Holds
  <2> QED BY <2>1, UsageAssumption DEF Init, TypeOK
<1>2. \A r \in Requests : Sound(request[r])
  <2>1. Sound(NoRequest)
    BY DEF NoRequest, NoRow, NoHold, Sound, Admitting, Running, Settling, Kept, Admission, Settlement
  <2> QED BY <2>1 DEF Init
<1>3. \A r \in Requests : request[r].row.status = "none" /\ request[r].daily.status = "none"
                          /\ request[r].row \in Rows /\ request[r].daily \in Rows
  BY DEF Init, NoRequest, NoRow, Rows
<1>4. RowsFollowTheQuota /\ FreeUseIsCapped
  BY <1>3, CapsAreSums DEF RowsFollowTheQuota, Holding
<1>5. ASSUME NEW d PROVE DayUse(request, d) <= DailyLimit
  <2> DEFINE f == [s \in OfDay(request, d) |-> Taken(request[s].daily)]
             none == [s \in {} |-> 0]
  <2>1. /\ OfDay(request, d) \in SUBSET Requests /\ f \in [OfDay(request, d) -> Nat]
        /\ {} \in SUBSET Requests /\ none \in [{} -> Nat]
        /\ \A s \in OfDay(request, d) : f[s] = 0
    BY <1>3, TakenType DEF OfDay, Holding
  <2>2. Total(none) = 0
    <3>1. Units(none) = {}
      BY DEF Units
    <3> QED BY <3>1, FS_EmptySet DEF Total
  <2>3. Total(f) <= Total(none) /\ Total(f) \in Nat
    <3> HIDE DEF f, none
    <3> QED BY <2>1, TotalCovered, TotalType
  <2>4. Total(f) <= DailyLimit
    <3> HIDE DEF f, none
    <3> QED BY <2>2, <2>3, UsageAssumption
  <2> QED BY <2>4 DEF DayUse
<1>6. DailyTokensAreCapped
  BY <1>5, CapsAreSums
<1> QED BY <1>1, <1>2, <1>4, <1>6 DEF IInv

\* Every step preserves the invariant.
LEMMA StepInv == IInv /\ [Next]_vars => IInv'
<1> SUFFICES ASSUME IInv, [Next]_vars PROVE IInv'
  OBVIOUS
<1>1. CASE \E r \in Requests : AdmissionStep(r) \/ SettlementStep(r) \/ Crash(r)
  BY <1>1, CallsKeep
<1>2. ASSUME NEW q \in Quotas, SetModelQuotas(q) PROVE IInv'
  BY <1>2, NewCycle DEF SetModelQuotas
<1>3. CASE MembershipBegins
  BY <1>3, NewCycle DEF MembershipBegins, IInv, TypeOK
<1>4. CASE Tick
  BY <1>4, TickKeeps
<1>5. CASE UNCHANGED vars
  <2>1. TypeOK' /\ RowsFollowTheQuota' /\ FreeUseIsCapped' /\ DailyTokensAreCapped'
    BY <1>5, CapsAreSums DEF vars, IInv, TypeOK, RowsFollowTheQuota
  <2> QED BY <1>5, <2>1 DEF vars, IInv
<1> QED BY <1>1, <1>2, <1>3, <1>4, <1>5 DEF Next

\* The inductive invariant: where a call is says what it has reserved and paid, the
\* rows of the present cycle are of the present allowance, and both caps hold.
THEOREM Invariant == Spec => []IInv
  BY InitInv, StepInv, PTL DEF Spec

\* However many calls are admitted at the same time, and whatever an administrator
\* changes meanwhile, the calls of one window of one cycle have free of charge no more
\* than the allowance they were admitted under (ReserveModelQuota).
THEOREM FreeUseCapped == Spec => []FreeUseIsCapped
<1>1. IInv => FreeUseIsCapped
  BY DEF IInv
<1> QED BY <1>1, Invariant, PTL

\* The calls that count towards a day were admitted for no more tokens than the day has,
\* whatever they came to (ReserveDailyTokenQuota).
THEOREM DailyTokensCapped == Spec => []DailyTokensAreCapped
<1>1. IInv => DailyTokensAreCapped
  BY DEF IInv
<1> QED BY <1>1, Invariant, PTL

\* A settled call has paid exactly what its allowance did not cover, and holds nothing
\* any more, at whichever step others of its steps may have failed (settleUsageBilling).
THEOREM SettledPaid == Spec => []SettledIsPaid
<1>1. IInv => SettledIsPaid
  BY CallKnown, DueType DEF SettledIsPaid, At, Sound, Settling
<1> QED BY <1>1, Invariant, PTL

\* When a settlement fails, what the call had reserved stays reserved or settled; a call
\* that was refused or came to nothing holds nothing (KeepReserved, releaseUsageBilling).
THEOREM HoldsFollow == Spec => []HoldsFollowTheWork
<1>1. IInv => HoldsFollowTheWork
  BY CallKnown, DueType DEF HoldsFollowTheWork, IInv, Sound, Kept
<1> QED BY <1>1, Invariant, PTL
=============================================================================
