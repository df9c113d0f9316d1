---------------------------- MODULE UsageBilling ----------------------------
(***************************************************************************)
(* How a call of a model is admitted and paid for: the daily token limit,  *)
(* the free allowance that the user's group has for the model, and the     *)
(* credits for what the allowance does not cover. The calls of one user    *)
(* reserve and settle concurrently; every database call is a step, any of  *)
(* them may fail, and the replica may stop between two of them. Meanwhile  *)
(* time passes and an administrator changes the allowance, which begins a  *)
(* new cycle.                                                              *)
(*                                                                         *)
(* The rows of quota_ledger and the credit hold of a call are kept with    *)
(* the call. One unit of cost stands for a unit of tokens as well, and a   *)
(* call counts once. Whether credits suffice is the business of            *)
(* CreditLedger: here a hold is granted or not.                            *)
(***************************************************************************)
EXTENDS Integers, FiniteSets

CONSTANTS
  Requests,     \* the calls
  Estimates,    \* what a call may be expected to cost
  Actuals,      \* what it may come to
  Quotas,       \* the rows of model_group_quotas, [kind, limit]
  DailyLimit,   \* the setting daily_token_limit
  Day,          \* the length of a day
  Period,       \* period_seconds of the allowance
  MaxNow,       \* the bound on the time
  MaxAnchor     \* the bound on quota_cycle_anchor

ASSUME UsageAssumption ==
  /\ IsFiniteSet(Requests)
  /\ DailyLimit \in Nat /\ Day \in Nat \ {0} /\ Period \in Nat \ {0}
  /\ MaxNow \in Nat \ {0} /\ MaxAnchor \in Nat \ {0}
  /\ Estimates \subseteq Nat /\ Actuals \subseteq Nat
  /\ Quotas \subseteq [kind : {"none", "count", "cost"}, limit : Nat]

VARIABLES
  now,
  quota,      \* the row for the model and the group
  anchor,     \* users.quota_cycle_anchor
  request     \* the call, its rows and its hold

vars == <<now, quota, anchor, request>>

NoRow == [status |-> "none", cycle |-> 0, window |-> 0, limit |-> 0, reserved |-> 0, actual |-> 0]
NoHold == [status |-> "none", held |-> 0, charged |-> 0]
NoRequest == [at |-> "new", estimate |-> 0, actual |-> 0, day |-> 0,
              seen |-> [kind |-> "none", limit |-> 0], daily |-> NoRow, row |-> NoRow, hold |-> NoHold,
              pays |-> FALSE, keep |-> FALSE]

Init ==
  /\ now = 1 /\ anchor = 1 /\ quota \in Quotas
  /\ request = [r \in Requests |-> NoRequest]

At(r, at) == request[r].at = at
Become(r, new) == request' = [request EXCEPT ![r] = new]
Goto(r, at) == Become(r, [request[r] EXCEPT !.at = at])

\* The call ends: what is left are its rows and its hold.
End(r, at, row, daily, hold) ==
  Become(r, [NoRequest EXCEPT !.at = at, !.row = row, !.daily = daily, !.hold = hold])
EndAt(r, at) == End(r, at, request[r].row, request[r].daily, request[r].hold)

-----------------------------------------------------------------------------
(* quota_ledger                                                            *)

\* Mutant: what is only reserved does not count.
CountsFinalized(row) == IF row.status = "finalized" THEN row.actual ELSE 0

\* What a row counts against its limit while its window lasts.
Counts(row) ==
  CASE row.status = "finalized" -> row.actual
    [] row.status = "reserved" -> row.reserved
    [] OTHER -> 0

\* The sum of the amounts of some calls, counted unit by unit.
Units(amounts) == UNION {{r} \X (1..amounts[r]) : r \in DOMAIN amounts}
Total(amounts) == Cardinality(Units(amounts))

DailyUsed(d) ==
  Total([r \in {r \in Requests : request[r].daily.window = d /\ (d + 1) * Day > now} |->
           Counts(request[r].daily)])

WindowStart == anchor + (IF now > anchor THEN ((now - anchor) \div Period) * Period ELSE 0)

ModelUsed ==
  Total([r \in {r \in Requests : /\ request[r].row.cycle = anchor
                                 /\ request[r].row.window = WindowStart
                                 /\ WindowStart + Period > now} |-> Counts(request[r].row)])

Finalized(row, actual) ==
  IF row.status = "reserved" THEN [row EXCEPT !.status = "finalized", !.actual = actual] ELSE row
Released(row) == IF row.status = "reserved" THEN [row EXCEPT !.status = "released"] ELSE row
ReleasedHold(hold) == IF hold.status = "reserved" THEN [hold EXCEPT !.status = "released"] ELSE hold

-----------------------------------------------------------------------------
(* reserveUsageBilling                                                     *)

\* ReserveDailyTokenQuota works out the day before its transaction begins. A call
\* without an estimate of its tokens does not come to it.
Begin(r) ==
  /\ At(r, "new")
  /\ \E estimate \in Estimates :
       Become(r, [request[r] EXCEPT !.at = IF estimate > 0 THEN "daily" ELSE "read",
                                    !.estimate = estimate, !.day = now \div Day])
  /\ UNCHANGED <<now, quota, anchor>>

\* ReserveFixedQuota
ReserveDailyTokens(r) ==
  /\ At(r, "daily")
  /\ IF request[r].estimate > DailyLimit - DailyUsed(request[r].day)
     THEN EndAt(r, "refused")
     ELSE Become(r, [request[r] EXCEPT !.at = "read",
            !.daily = [status |-> "reserved", cycle |-> 0, window |-> request[r].day,
                       limit |-> DailyLimit, reserved |-> request[r].estimate, actual |-> 0]])
  /\ UNCHANGED <<now, quota, anchor>>

\* A database call before the reservation of the allowance fails.
AdmissionFails(r) ==
  /\ request[r].at \in {"daily", "read", "model", "credits"}
  /\ Goto(r, "undo")
  /\ UNCHANGED <<now, quota, anchor>>

\* GetModelQuota: no allowance, an unlimited one, or one to reserve from.
ReadQuota(r) ==
  /\ At(r, "read")
  /\ \/ /\ quota.kind = "none"
        /\ Become(r, [request[r] EXCEPT !.at = "credits", !.pays = TRUE])
     \/ /\ quota.kind # "none" /\ quota.limit = 0
        /\ Goto(r, "run")
     \/ /\ quota.kind # "none" /\ quota.limit # 0
        /\ Become(r, [request[r] EXCEPT !.at = "model", !.seen = quota])
  /\ UNCHANGED <<now, quota, anchor>>

\* What a call asks of the allowance: all of it for a cost, one of a count.
Asked(r) == IF quota.kind = "cost" THEN quota.limit - ModelUsed ELSE 1

\* ReserveModelQuota
ReserveModelQuota(r) ==
  /\ At(r, "model")
  /\ \/ /\ quota # request[r].seen
        /\ Goto(r, "undo")
     \/ /\ quota = request[r].seen
        /\ IF ModelUsed >= quota.limit \/ Asked(r) > quota.limit - ModelUsed
           THEN Become(r, [request[r] EXCEPT !.at = "credits", !.pays = TRUE])
           ELSE Become(r, [request[r] EXCEPT
                  !.at = IF quota.kind = "cost" /\ request[r].estimate > Asked(r) THEN "overage" ELSE "run",
                  !.row = [status |-> "reserved", cycle |-> anchor, window |-> WindowStart,
                           limit |-> quota.limit, reserved |-> Asked(r), actual |-> 0]])
  /\ UNCHANGED <<now, quota, anchor>>

\* The credits for what the estimate exceeds the allowance by, or neither.
ReserveOverage(r) ==
  /\ At(r, "overage")
  /\ \/ Become(r, [request[r] EXCEPT !.at = "run",
          !.hold = [status |-> "reserved", held |-> request[r].estimate - request[r].row.reserved,
                    charged |-> 0]])
     \/ Become(r, [request[r] EXCEPT !.at = "undo", !.row = Released(@)])
     \/ EndAt(r, "leaked")    \* ... and the release fails
  /\ UNCHANGED <<now, quota, anchor>>

\* The credits for the whole call, where it has an estimate.
ReserveCall(r) ==
  /\ At(r, "credits")
  /\ \/ /\ request[r].estimate = 0
        /\ Goto(r, "run")
     \/ /\ request[r].estimate > 0
        /\ Become(r, [request[r] EXCEPT !.at = "run",
             !.hold = [status |-> "reserved", held |-> request[r].estimate, charged |-> 0]])
  /\ UNCHANGED <<now, quota, anchor>>

\* The deferred release of the daily tokens of a call that was not admitted.
ReleaseDaily(r) ==
  /\ At(r, "undo")
  /\ \/ End(r, "refused", request[r].row, Released(request[r].daily), request[r].hold)
     \/ EndAt(r, "leaked")
  /\ UNCHANGED <<now, quota, anchor>>

-----------------------------------------------------------------------------
(* The call, and releaseUsageBilling                                       *)

\* The provider answered, or had produced something when it was stopped.
Produce(r) ==
  /\ At(r, "run")
  /\ \E actual \in Actuals :
       Become(r, [request[r] EXCEPT !.at = "settle daily", !.actual = actual, !.keep = TRUE])
  /\ UNCHANGED <<now, quota, anchor>>

\* The provider failed and nothing was consumed.
ProduceNothing(r) ==
  /\ At(r, "run")
  /\ Goto(r, "release")
  /\ UNCHANGED <<now, quota, anchor>>

\* Mutant: the deferred release does not look at KeepReserved.
ReleaseKept(r) ==
  /\ At(r, "release")
  /\ Become(r, [request[r] EXCEPT !.at = "over", !.row = Released(@), !.daily = Released(@),
                                  !.hold = ReleasedHold(@)])
  /\ UNCHANGED <<now, quota, anchor>>

\* Each of the releases is tried, and may fail, unless the call is to be kept.
ReleaseUsageBilling(r) ==
  /\ At(r, "release")
  /\ \/ /\ request[r].keep
        /\ Goto(r, "unsettled")
     \/ /\ ~request[r].keep
        /\ \E failed \in SUBSET {"row", "daily", "hold"} :
             End(r, IF failed = {} THEN "over" ELSE "leaked",
                 IF "row" \in failed THEN request[r].row ELSE Released(request[r].row),
                 IF "daily" \in failed THEN request[r].daily ELSE Released(request[r].daily),
                 IF "hold" \in failed THEN request[r].hold ELSE ReleasedHold(request[r].hold))
  /\ UNCHANGED <<now, quota, anchor>>

-----------------------------------------------------------------------------
(* settleUsageBilling. A step that fails ends the settlement.              *)

SettleFails(r) ==
  /\ request[r].at \in {"settle daily", "settle row", "hold", "charge", "drop"}
  /\ Goto(r, "release")
  /\ UNCHANGED <<now, quota, anchor>>

SettleDaily(r) ==
  /\ At(r, "settle daily")
  /\ Become(r, [request[r] EXCEPT
       !.at = IF request[r].row.status # "none" THEN "settle row"
              ELSE IF ~request[r].pays THEN "settled"
              ELSE IF request[r].hold.status = "none" /\ request[r].actual = 0 THEN "settled"
              ELSE IF request[r].hold.status = "none" THEN "hold" ELSE "charge",
       !.daily = Finalized(@, request[r].actual)])
  /\ UNCHANGED <<now, quota, anchor>>

\* What credits have to pay for: what exceeds the reservation, of a cost.
Overage(r) ==
  IF request[r].seen.kind = "cost" /\ request[r].actual > request[r].row.reserved
  THEN request[r].actual - request[r].row.reserved ELSE 0

SettleRow(r) ==
  /\ At(r, "settle row")
  /\ Become(r, [request[r] EXCEPT
       !.at = IF Overage(r) = 0 THEN (IF request[r].hold.status = "reserved" THEN "drop" ELSE "settled")
              ELSE IF request[r].hold.status = "none" THEN "hold" ELSE "charge",
       !.row = Finalized(@, IF request[r].seen.kind = "cost" THEN request[r].actual ELSE 1)])
  /\ UNCHANGED <<now, quota, anchor>>

\* The amount that credits have to pay.
Due(r) == IF request[r].pays THEN request[r].actual ELSE Overage(r)

\* A hold that was not needed before: ReserveCredits
SettleHold(r) ==
  /\ At(r, "hold")
  /\ Become(r, [request[r] EXCEPT !.at = "charge",
       !.hold = [status |-> "reserved", held |-> Due(r), charged |-> 0]])
  /\ UNCHANGED <<now, quota, anchor>>

\* Mutant: what was held is charged, not what is due.
ChargeHeld(r) ==
  /\ At(r, "charge")
  /\ Become(r, [request[r] EXCEPT !.at = "settled",
       !.hold = [@ EXCEPT !.status = "settled", !.charged = request[r].hold.held]])
  /\ UNCHANGED <<now, quota, anchor>>

\* SettleCreditReservation
Charge(r) ==
  /\ At(r, "charge")
  /\ Become(r, [request[r] EXCEPT !.at = "settled",
       !.hold = [@ EXCEPT !.status = "settled", !.charged = Due(r)]])
  /\ UNCHANGED <<now, quota, anchor>>

\* ReleaseCreditReservation
DropHold(r) ==
  /\ At(r, "drop")
  /\ Become(r, [request[r] EXCEPT !.at = "settled", !.hold = ReleasedHold(@)])
  /\ UNCHANGED <<now, quota, anchor>>

-----------------------------------------------------------------------------
\* The replica stops.
Crash(r) ==
  /\ request[r].at \notin {"new", "refused", "over", "leaked", "settled", "unsettled"}
  /\ EndAt(r, "leaked")
  /\ UNCHANGED <<now, quota, anchor>>

\* Mutant: two changes in one second begin one cycle.
AnchorIsNow == now

\* The anchor of the cycle that a change of the allowance begins.
NextAnchor == IF anchor >= now THEN anchor + 1 ELSE now

\* SetModelQuotas: a row that differs begins a new cycle.
SetModelQuotas(q) ==
  /\ q # quota /\ NextAnchor <= MaxAnchor
  /\ quota' = q /\ anchor' = NextAnchor
  /\ UNCHANGED <<now, request>>

\* A new group, or the same membership bought again, with the same allowance.
MembershipBegins ==
  /\ NextAnchor <= MaxAnchor
  /\ anchor' = NextAnchor
  /\ UNCHANGED <<now, quota, request>>

Tick ==
  /\ now < MaxNow
  /\ now' = now + 1
  /\ UNCHANGED <<quota, anchor, request>>

AdmissionStep(r) ==
  \/ Begin(r)
  \/ ReserveDailyTokens(r)
  \/ AdmissionFails(r)
  \/ ReadQuota(r)
  \/ ReserveModelQuota(r)
  \/ ReserveOverage(r)
  \/ ReserveCall(r)
  \/ ReleaseDaily(r)

SettlementStep(r) ==
  \/ Produce(r)
  \/ ProduceNothing(r)
  \/ ReleaseUsageBilling(r)
  \/ SettleFails(r)
  \/ SettleDaily(r)
  \/ SettleRow(r)
  \/ SettleHold(r)
  \/ Charge(r)
  \/ DropHold(r)

Next ==
  \/ \E r \in Requests : AdmissionStep(r) \/ SettlementStep(r) \/ Crash(r)
  \/ \E q \in Quotas : SetModelQuotas(q)
  \/ MembershipBegins
  \/ Tick

Spec == Init /\ [][Next]_vars

-----------------------------------------------------------------------------
(* What must hold                                                          *)

Rows == [status : {"none", "reserved", "finalized", "released"}, cycle : Nat, window : Nat,
         limit : Nat, reserved : Nat, actual : Nat]
Holds == [status : {"none", "reserved", "settled", "released"}, held : Nat, charged : Nat]
RequestType ==
  [at : {"new", "daily", "read", "model", "overage", "credits", "undo", "refused", "run", "release",
         "over", "leaked", "settle daily", "settle row", "hold", "charge", "drop", "settled", "unsettled"},
   estimate : Nat, actual : Nat, day : Nat, seen : [kind : {"none", "count", "cost"}, limit : Nat],
   daily : Rows, row : Rows, hold : Holds, pays : BOOLEAN, keep : BOOLEAN]

TypeOK ==
  /\ now \in 1..MaxNow /\ anchor \in 1..MaxAnchor /\ quota \in Quotas
  /\ request \in [Requests -> RequestType]

\* What a row takes from its limit: what credits pay for is not taken from it.
Taken(row) == IF row.status = "finalized" /\ row.actual > row.reserved THEN row.reserved ELSE Counts(row)

\* Concurrent calls never use more of an allowance than it grants: in one window of
\* one cycle they hold and use, free of charge, at most the limit they were all
\* admitted under, whatever an administrator changes meanwhile (ReserveModelQuota).
FreeUseIsCapped ==
  \A r \in Requests : request[r].row.status \in {"reserved", "finalized"} =>
    Total([s \in {s \in Requests : /\ request[s].row.cycle = request[r].row.cycle
                                   /\ request[s].row.window = request[r].row.window} |->
             Taken(request[s].row)]) <= request[r].row.limit

\* The calls that count towards a day were not admitted for more tokens than the day
\* has (ReserveDailyTokenQuota: "share the same hard gate").
DailyTokensAreCapped ==
  \A d \in 0..(MaxNow \div Day) : (d + 1) * Day > now =>
    Total([r \in {r \in Requests : request[r].daily.window = d} |-> Taken(request[r].daily)])
      <= DailyLimit

\* A call that was settled is paid for exactly: what its allowance did not cover was
\* charged, once, and nothing is held any more (settleUsageBilling).
SettledIsPaid ==
  \A r \in Requests : At(r, "settled") =>
    /\ request[r].hold.status # "reserved" /\ request[r].hold.charged = Due(r)
    /\ request[r].daily.status \in {"none", "finalized"} /\ request[r].row.status \in {"none", "finalized"}

\* What was consumed never looks free: when a settlement fails, whatever was reserved
\* for the call and is not settled stays reserved (KeepReserved). A call that was
\* refused, or that came to nothing, holds nothing: no tokens of the day, no allowance
\* and no credits.
HoldsFollowTheWork ==
  /\ TypeOK
  /\ \A r \in Requests : request[r].keep =>
       /\ request[r].daily.status # "released"
       /\ request[r].row.status # "released"
       /\ request[r].hold.status = "released" => request[r].row.status = "finalized" /\ Overage(r) = 0
  /\ \A r \in Requests : request[r].at \in {"refused", "over"} =>
       /\ request[r].daily.status # "reserved" /\ request[r].row.status # "reserved"
       /\ request[r].hold.status # "reserved"
=============================================================================
