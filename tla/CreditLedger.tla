---------------------------- MODULE CreditLedger ----------------------------
(***************************************************************************)
(* The credit store: a user's permanent balance, the timed allowance that  *)
(* the user's group grants per cycle, the append-only ledger of debits and *)
(* the reservations (holds) that protect work in progress.                 *)
(*                                                                         *)
(* Every operation is one database transaction that locks the user's row   *)
(* (Postgres) or the whole database (SQLite), so every operation is one    *)
(* action; a refused operation rolls back and is a stuttering step.        *)
(* Amounts are micro-credits.                                              *)
(***************************************************************************)
EXTENDS Integers, FiniteSets, Sequences

CONSTANTS
  Users,        \* the accounts
  Groups,       \* the user groups (tiers)
  Keys,         \* billing keys: a (source_type, source_id) pair
  Amounts,      \* the positive amounts a caller may ask for
  Configs,      \* the [allowance, period] settings an administrator may save
  TTL,          \* lifetime of a reservation
  MaxMicros,    \* math.MaxInt64
  MaxNow,       \* bound on the clock
  MaxAnchor,    \* bound on the cycle anchors
  MaxLedger     \* bound on the rows of the ledger

ASSUME CreditAssumption ==
  /\ IsFiniteSet(Users) /\ IsFiniteSet(Keys)
  /\ MaxMicros \in Nat /\ MaxNow \in Nat \ {0} /\ MaxAnchor \in Nat
  /\ MaxLedger \in Nat /\ TTL \in Nat \ {0}
  /\ Amounts \subseteq 1..MaxMicros
  \* validateCreditConfig: a positive allowance needs a positive period.
  /\ Configs \subseteq {c \in [allowance : 0..MaxMicros, period : Nat] :
                          c.allowance > 0 => c.period > 0}

\* The source of a direct debit (DebitCredits is called with an empty id).
NoKey == "no-key"
ASSUME NoKeyAssumption == NoKey \notin Keys

VARIABLES
  now,           \* time.Now().Unix()
  config,        \* user_groups: credit_allowance_micros, credit_period_seconds
  group,         \* users.group_id
  anchor,        \* users.credit_cycle_anchor (0: not set yet)
  permanent,     \* users.credits_permanent_micros
  ledger,        \* credit_ledger, in insertion order
  reservations,  \* credit_reservations by (source_type, source_id)
  granted        \* history: permanent credits put in minus those an admin took out

vars == <<now, config, group, anchor, permanent, ledger, reservations, granted>>

Kinds == {"timed_debit", "permanent_debit"}

LedgerRow == [user : Users, group : Groups, anchor : Nat, start : Nat,
              kind : Kinds, amount : 1..MaxMicros, source : Keys \cup {NoKey}]

Reservation == [user : Users, amount : 1..MaxMicros, actual : 0..MaxMicros,
                status : {"reserved", "settled", "released"}, expiresAt : Nat]

NoReservation == [status |-> "none"]

-----------------------------------------------------------------------------
(* The balance of a user, as creditBalanceFrom computes it.                *)

Smaller(a, b) == IF a <= b THEN a ELSE b

\* The cycle that contains time t, for cycles of length p that begin at a.
CreditCycleStart(a, p, t) == IF t > a THEN a + ((t - a) \div p) * p ELSE a

CycleAnchor(u) == IF anchor[u] = 0 THEN now ELSE anchor[u]

Timed(u) == config[group[u]].allowance > 0 /\ config[group[u]].period > 0

CycleStart(u) ==
  IF Timed(u) THEN CreditCycleStart(CycleAnchor(u), config[group[u]].period, now) ELSE 0

\* SUM(amount_micros) over the rows of ledger L that belong to a set of rows,
\* counted micro-credit by micro-credit.
LedgerUnits(L, rows) == {pu \in (DOMAIN L) \X (1..MaxMicros) :
                           pu[2] <= L[pu[1]].amount /\ L[pu[1]] \in rows}
LedgerSum(L, rows) == Cardinality(LedgerUnits(L, rows))

TimedRows(u) == {row \in LedgerRow : /\ row.user = u
                                     /\ row.group = group[u]
                                     /\ row.anchor = CycleAnchor(u)
                                     /\ row.start = CycleStart(u)
                                     /\ row.kind = "timed_debit"}
TimedUsed(u) == LedgerSum(ledger, TimedRows(u))

\* Mutant: what the cycle has spent already does not count.
AllowanceAgain(u) == IF Timed(u) THEN config[group[u]].allowance ELSE 0

TimedRemaining(u) ==
  IF Timed(u) /\ TimedUsed(u) < config[group[u]].allowance
  THEN config[group[u]].allowance - TimedUsed(u) ELSE 0

\* SUM(amount_micros) over u's reservations in table R that still hold credits.
HeldUnits(u, R) == {ku \in Keys \X (1..MaxMicros) :
                      /\ R[ku[1]].status = "reserved"
                      /\ R[ku[1]].user = u
                      /\ R[ku[1]].expiresAt > now
                      /\ ku[2] <= R[ku[1]].amount}
Reserved(u, R) == Cardinality(HeldUnits(u, R))

Spendable(u) == Smaller(MaxMicros, TimedRemaining(u) + permanent[u])

\* Mutant: the holds are left out of the balance.
AvailableIgnoringHolds(u, R) == Spendable(u)

Available(u, R) ==
  IF Reserved(u, R) < Spendable(u) THEN Spendable(u) - Reserved(u, R) ELSE 0

-----------------------------------------------------------------------------
(* debitCreditsTx: refuse what is not available, spend the timed allowance *)
(* first and the permanent balance for the rest, one ledger row for each.  *)

Row(u, kind, amount, source) ==
  [user |-> u, group |-> group[u], anchor |-> CycleAnchor(u), start |-> CycleStart(u),
   kind |-> kind, amount |-> amount, source |-> source]

\* A part of a debit that is zero leaves no row.
Inserted(L, row) == IF row.amount > 0 THEN Append(L, row) ELSE L

TimedPart(u, amount) == Smaller(amount, TimedRemaining(u))

\* R is the reservation table the transaction sees: a settlement has already
\* moved its own hold out of the way.
DebitCreditsTx(u, amount, source, R) ==
  IF amount = 0 THEN UNCHANGED <<anchor, ledger, permanent>>
  ELSE LET timed == TimedPart(u, amount)
           perm == amount - timed
       IN /\ amount <= Available(u, R)
          /\ anchor' = [anchor EXCEPT ![u] = CycleAnchor(u)]
          /\ ledger' = Inserted(Inserted(ledger, Row(u, "timed_debit", timed, source)),
                              Row(u, "permanent_debit", perm, source))
          /\ Len(ledger') <= MaxLedger
          /\ permanent' = [permanent EXCEPT ![u] = @ - perm]

DebitCredits(u, amount) ==
  /\ DebitCreditsTx(u, amount, NoKey, reservations)
  /\ UNCHANGED <<now, config, group, reservations, granted>>

-----------------------------------------------------------------------------
(* Reservations.                                                           *)

Held(k) == reservations[k].status = "reserved"
Live(k) == Held(k) /\ reservations[k].expiresAt > now

\* A key that has a row already is answered with that row (same user, same
\* amount, not released) or refused: neither changes the table.
ReserveCredits(u, k, amount) ==
  /\ reservations[k].status = "none"
  /\ amount <= Available(u, reservations)
  /\ reservations' = [reservations EXCEPT ![k] =
       [user |-> u, amount |-> amount, actual |-> 0, status |-> "reserved",
        expiresAt |-> now + TTL]]
  /\ UNCHANGED <<now, config, group, anchor, permanent, ledger, granted>>

\* Mutant: the debit comes before the hold is marked 'settling'.
DebitBeforeMark(k) == reservations

\* The table after the first statement of a settlement: the hold is 'settling'
\* and no longer counts against the balance that has to pay for it.
DuringSettle(k) == [reservations EXCEPT ![k].status = "settling"]

\* Mutant: the settlement records what was held.
SettledAsHeld(r, actual) == [r EXCEPT !.status = "settled", !.actual = r.amount]

Settled(r, actual) == [r EXCEPT !.status = "settled", !.actual = actual]

\* A settled key answers with the recorded amount, a released or unknown one
\* with an error. An expired hold can still be settled.
SettleCreditReservation(k, actual) ==
  /\ Held(k)
  /\ DebitCreditsTx(reservations[k].user, actual, k, DuringSettle(k))
  /\ reservations' = [reservations EXCEPT ![k] = Settled(@, actual)]
  /\ UNCHANGED <<now, config, group, granted>>

ReleaseCreditReservation(k) ==
  /\ Held(k)
  /\ reservations' = [reservations EXCEPT ![k].status = "released"]
  /\ UNCHANGED <<now, config, group, anchor, permanent, ledger, granted>>

\* The table with hold k of user u released, if it is one (releaseReservationTx).
Released(R, u, k) ==
  IF R[k].status = "reserved" /\ R[k].user = u
  THEN [R EXCEPT ![k].status = "released"] ELSE R

\* SettleCreditReservationByKey, case 1: the final key already has a row that is
\* not a hold. Nothing is charged and the caller's own hold is given back.
AlreadyBilled(u, k, final) ==
  /\ reservations[final].status \in {"settled", "released"}
  /\ reservations[final].user = u
  /\ reservations' = Released(reservations, u, k)
  /\ UNCHANGED <<now, config, group, anchor, permanent, ledger, granted>>

\* Case 2: another attempt holds the final key. That hold is settled and the
\* caller's own one is given back.
SettleOtherAttempt(u, k, final, actual) ==
  /\ Held(final)
  /\ reservations[final].user = u
  /\ DebitCreditsTx(u, actual, final, DuringSettle(final))
  /\ reservations' =
       Released([reservations EXCEPT ![final] = Settled(@, actual)], u, k)
  /\ UNCHANGED <<now, config, group, granted>>

\* Case 3: the final key is new. The caller's hold is moved onto it and charged.
RekeyAndSettle(u, k, final, actual) ==
  /\ reservations[final].status = "none"
  /\ Held(k)
  /\ reservations[k].user = u
  /\ DebitCreditsTx(u, actual, final, DuringSettle(k))
  /\ reservations' = [reservations EXCEPT ![k] = NoReservation,
                                          ![final] = Settled(reservations[k], actual)]
  /\ UNCHANGED <<now, config, group, granted>>

SettleCreditReservationByKey(u, k, final, actual) ==
  \/ AlreadyBilled(u, k, final)
  \/ SettleOtherAttempt(u, k, final, actual)
  \/ RekeyAndSettle(u, k, final, actual)

-----------------------------------------------------------------------------
(* Top-ups, administrator adjustments, and the changes of group or of a    *)
(* group's credit settings, each of which starts a new cycle.              *)

\* Payments and redeem codes. A sum beyond MaxInt64 is refused.
AddPermanentCredits(u, amount) ==
  /\ amount <= MaxMicros - permanent[u]
  /\ permanent' = [permanent EXCEPT ![u] = @ + amount]
  /\ granted' = [granted EXCEPT ![u] = @ + amount]
  /\ UNCHANGED <<now, config, group, anchor, ledger, reservations>>

\* The removing direction of AdjustPermanentCredits (the adding one is
\* AddPermanentCredits). It looks at the balance and not at the holds.
RemovePermanentCredits(u, amount) ==
  /\ amount <= permanent[u]
  /\ permanent' = [permanent EXCEPT ![u] = @ - amount]
  /\ granted' = [granted EXCEPT ![u] = @ - amount]
  /\ UNCHANGED <<now, config, group, anchor, ledger, reservations>>

\* Strictly later than the current anchor, also within one second.
NextCreditCycleAnchor(current) == IF current >= now THEN current + 1 ELSE now

\* A new membership, of another group or, once the current one has elapsed, of
\* the same: an administrator, a purchase, a code, an expiry or the deletion of
\* the group. Module Membership says when each of them happens.
SetUserGroup(u, g) ==
  /\ anchor[u] < MaxAnchor
  /\ group' = [group EXCEPT ![u] = g]
  /\ anchor' = [anchor EXCEPT ![u] = NextCreditCycleAnchor(@)]
  /\ UNCHANGED <<now, config, permanent, ledger, reservations, granted>>

UpdateUserGroup(g, c) ==
  /\ c # config[g]
  /\ \A u \in Users : anchor[u] < MaxAnchor
  /\ config' = [config EXCEPT ![g] = c]
  /\ anchor' = [u \in Users |-> IF group[u] = g THEN NextCreditCycleAnchor(anchor[u])
                                ELSE anchor[u]]
  /\ UNCHANGED <<now, group, permanent, ledger, reservations, granted>>

Tick ==
  /\ now < MaxNow
  /\ now' = now + 1
  /\ UNCHANGED <<config, group, anchor, permanent, ledger, reservations, granted>>

-----------------------------------------------------------------------------
Init ==
  /\ now = 1
  /\ config \in [Groups -> Configs]
  /\ group \in [Users -> Groups]
  /\ anchor \in [Users -> {0, 1}]       \* a legacy row, or one created now
  /\ permanent \in [Users -> Amounts \cup {0}]
  /\ ledger = <<>>
  /\ reservations = [k \in Keys |-> NoReservation]
  /\ granted = permanent

Next ==
  \/ \E u \in Users, a \in Amounts : DebitCredits(u, a)
  \/ \E u \in Users, k \in Keys, a \in Amounts : ReserveCredits(u, k, a)
  \/ \E k \in Keys, a \in Amounts \cup {0} : SettleCreditReservation(k, a)
  \/ \E k \in Keys : ReleaseCreditReservation(k)
  \/ \E u \in Users, k, final \in Keys, a \in Amounts :
       SettleCreditReservationByKey(u, k, final, a)
  \/ \E u \in Users, a \in Amounts : AddPermanentCredits(u, a)
  \/ \E u \in Users, a \in Amounts : RemovePermanentCredits(u, a)
  \/ \E u \in Users, g \in Groups : SetUserGroup(u, g)
  \/ \E g \in Groups, c \in Configs : UpdateUserGroup(g, c)
  \/ Tick

Spec == Init /\ [][Next]_vars

-----------------------------------------------------------------------------
(* Properties.                                                             *)

\* The columns of the tables have their types. permanent is an integer column
\* (BIGINT): that it never goes below zero is NoOverdraft, not a type.
TypeOK ==
  /\ now \in 1..MaxNow
  /\ config \in [Groups -> Configs]
  /\ group \in [Users -> Groups]
  /\ anchor \in [Users -> Nat]
  /\ permanent \in [Users -> Int]
  /\ ledger \in Seq(LedgerRow)
  /\ reservations \in [Keys -> Reservation \cup {NoReservation}]
  /\ granted \in [Users -> Int]

\* No sequence of holds, settlements above the held amount, direct debits,
\* top-ups and removals takes a permanent balance below zero or beyond the
\* width of its column.
NoOverdraft == \A u \in Users : permanent[u] \in 0..MaxMicros

\* No row is ahead of the cycle its user is in: rows of an earlier membership
\* carry a smaller anchor, and those of the present one belong to its group and
\* to no later cycle. (The strengthening TimedWithinAllowance needs.)
RowsBehindCycle ==
  \A i \in DOMAIN ledger :
    LET row == ledger[i] IN
    /\ 0 < row.anchor /\ row.anchor <= anchor[row.user]
    /\ row.anchor = anchor[row.user] => /\ row.group = group[row.user]
                                       /\ row.start <= CycleStart(row.user)

\* Within one cycle a user spends at most the allowance of the group, however
\* the group, its allowance and its period are changed in between: every change
\* moves the user onto a cycle anchor that no earlier row carries.
TimedWithinAllowance ==
  \A u \in Users : Timed(u) => TimedUsed(u) <= config[group[u]].allowance

ChargesOf(u, k) == {row \in LedgerRow : row.user = u /\ row.source = k}

\* A billing key is charged exactly once, to its owner: the ledger rows of a settled
\* key add up to the amount recorded in its reservation and are those of the user
\* who holds it, and a key that is held, released, re-keyed or unknown has none.
\* Replayed settlements, a second attempt for the same final key, a key that another
\* user presents and a settlement that races a release all have to keep to this.
ChargedOnce ==
  \A u \in Users, k \in Keys : LedgerSum(ledger, ChargesOf(u, k)) =
    IF reservations[k].status = "settled" /\ reservations[k].user = u
    THEN reservations[k].actual ELSE 0

PermanentRows(u) ==
  {row \in LedgerRow : row.user = u /\ row.kind = "permanent_debit"}

\* The balance is explained by the ledger: what was put in is what is left plus
\* the permanent debits on record.
LedgerExplainsBalance ==
  \A u \in Users : granted[u] = permanent[u] + LedgerSum(ledger, PermanentRows(u))

Covered(u) == Reserved(u, reservations) <= Spendable(u)

\* A hold is a guarantee: as long as the user's live holds are covered, settling
\* any one of them for the held amount is not refused, because the hold itself
\* does not count against the balance that pays for it.
HoldGuaranteesSettlement ==
  \A k \in Keys : Live(k) /\ Covered(reservations[k].user)
    => reservations[k].amount <= Available(reservations[k].user, DuringSettle(k))

\* Only an administrator can strand a hold, by removing credits or by changing
\* the group or its settings; no debit, hold, settlement, release, top-up or
\* passage of time does.
HoldsStayCovered ==
  [][\A u \in Users : Covered(u) /\ ~Covered(u)' =>
       granted'[u] < granted[u] \/ group'[u] # group[u] \/ config' # config]_vars

\* A change of group or of a group's settings starts a cycle with nothing spent.
NewCycleIsFresh ==
  [][\A u \in Users : (group'[u] # group[u] \/ config'[group[u]] # config[group[u]])
       => TimedUsed(u)' = 0]_vars

\* A settled or a released reservation is never touched again.
TerminalRowsFrozen ==
  [][\A k \in Keys : reservations[k].status \in {"settled", "released"}
       => reservations'[k] = reservations[k]]_vars
=============================================================================
