----------------------------- MODULE Membership -----------------------------
(***************************************************************************)
(* Paid tiers: which group a user belongs to, until when, and the group to *)
(* fall back to. Administrators, payment orders and redeem codes grant     *)
(* memberships; an elapsed one is ended lazily by whichever request reads  *)
(* the user next, or by a sweep; a group can be deleted in between.        *)
(*                                                                         *)
(* A single SQL statement or a transaction that locks its rows is one      *)
(* action. maybeExpireGroup, SetUserGroup and (on Postgres) the first part *)
(* of a redemption read without a lock, so each is a request of several    *)
(* steps that interleave with the others. Every change of membership       *)
(* writes the credit and the quota cycle anchor alike: one field models    *)
(* both. An order is open while paymentOrderMayStillFulfill says so.       *)
(***************************************************************************)
EXTENDS Integers, FiniteSets

CONSTANTS
  Users,
  Groups,          \* every user group that ever exists
  DefaultGroup,    \* ug_free, which cannot be deleted
  Codes,           \* redeem codes
  CodeOf,          \* what a code grants: [kind, group, duration, maxUses]
  Orders,          \* payment orders for a user group
  BillingCycle,    \* length of the window one order buys
  AdminExpiries,   \* the group_expires_at values an administrator may send
  Requests,        \* concurrent requests
  MaxNow,          \* bound on the clock
  MaxAnchor        \* bound on the cycle anchor an administrator's change starts from

NoGroup == ""

ASSUME MembershipAssumption ==
  /\ DefaultGroup \in Groups /\ NoGroup \notin Groups
  /\ IsFiniteSet(Users) /\ IsFiniteSet(Codes) /\ IsFiniteSet(Orders)
  /\ BillingCycle \in Nat \ {0} /\ AdminExpiries \subseteq Nat
  /\ MaxNow \in Nat \ {0} /\ MaxAnchor \in Nat
  /\ CodeOf \in [Codes -> [kind : {"group", "credits"}, group : Groups,
                           duration : Nat, maxUses : Nat \ {0}]]
  \* a credits code carries the default group as a placeholder
  /\ \A c \in Codes : CodeOf[c].kind = "credits" => CodeOf[c].group = DefaultGroup

Idle == [at |-> "idle"]

VARIABLES
  now,
  groups,        \* the rows of user_groups
  member,        \* users: group_id, group_expires_at (0: permanent), previous_group_id, anchor
  codes,         \* the rows of redeem_codes
  used,          \* redeem_codes.used_count
  redemptions,   \* redeem_redemptions: [code, user, group]
  orders,        \* payment_orders of product type user_group
  request,       \* what each request has read so far
  baseline,      \* history: the tier each user may fall back to
  rewritten      \* history: users in the situation SetUserGroupWrite describes

vars == <<now, groups, member, codes, used, redemptions, orders, request, baseline, rewritten>>

Member == [group : Groups, expiresAt : Nat, previous : Groups \cup {NoGroup}, anchor : Nat]

NoOrder == [status |-> "none"]
Order == [user : Users, group : Groups, status : {"open", "fulfilled", "closed"}]

\* A request that has read an elapsed membership and not ended it yet.
ExpiryType == [at : {"expire_check", "expire_write"}, user : Users, now : 1..MaxNow,
               expiresAt : Nat, group : Groups]
RequestType == {Idle} \cup ExpiryType
  \cup [at : {"set_group"}, user : Users, group : Groups]
  \cup [at : {"redeem"}, user : Users, code : Codes]
Expiring(r) == request[r].at \in {"expire_check", "expire_write"}

Lapsed(u) == member[u].expiresAt > 0 /\ member[u].expiresAt <= now

Exists(g) == g \in groups

\* The tier an elapsed membership falls back to.
Fallback(m) == IF m.previous = NoGroup THEN DefaultGroup ELSE m.previous

NextCreditCycleAnchor(current, t) == IF current >= t THEN current + 1 ELSE t

\* The anchor after u is granted group g: a new cycle unless u renews.
GrantAnchor(u, g) ==
  IF member[u].group # g \/ Lapsed(u)
  THEN NextCreditCycleAnchor(member[u].anchor, now) ELSE member[u].anchor

\* The row after membership m has been ended at time t.
Demoted(m, g, t) == [group |-> g, expiresAt |-> 0, previous |-> NoGroup,
                     anchor |-> NextCreditCycleAnchor(m.anchor, t)]

-----------------------------------------------------------------------------
(* Lazy expiry, one request: read the user row, look the fallback up,      *)
(* demote the user if the expiry is still the one that was read.           *)

ExpireRead(r, u) ==
  /\ request[r] = Idle
  /\ Lapsed(u)
  /\ request' = [request EXCEPT ![r] = [at |-> "expire_check", user |-> u, now |-> now,
                   expiresAt |-> member[u].expiresAt, group |-> Fallback(member[u])]]
  /\ UNCHANGED <<now, groups, member, codes, used, redemptions, orders, baseline, rewritten>>

ExpireCheck(r) ==
  LET g == request[r].group
  IN /\ request[r].at = "expire_check"
     /\ request' = [request EXCEPT ![r] =
          [@ EXCEPT !.at = "expire_write", !.group = IF Exists(g) THEN g ELSE DefaultGroup]]
     /\ UNCHANGED <<now, groups, member, codes, used, redemptions, orders, baseline, rewritten>>

\* Mutant: the UPDATE does not compare the expiry with the one that was read.
ExpireBlindly(r) ==
  /\ request[r].at = "expire_write"
  /\ member' = [member EXCEPT ![request[r].user] = Demoted(@, request[r].group, request[r].now)]
  /\ request' = [request EXCEPT ![r] = Idle]
  /\ UNCHANGED <<now, groups, codes, used, redemptions, orders, baseline, rewritten>>

ExpireWrite(r) ==
  /\ request[r].at = "expire_write"
  /\ member' = [member EXCEPT ![request[r].user] =
       IF @.expiresAt = request[r].expiresAt THEN Demoted(@, request[r].group, request[r].now) ELSE @]
  /\ request' = [request EXCEPT ![r] = Idle]
  /\ UNCHANGED <<now, groups, codes, used, redemptions, orders, baseline, rewritten>>

\* The sweep is a single statement over all users.
ExpireDueUserGroups ==
  /\ \E u \in Users : Lapsed(u)
  /\ member' = [u \in Users |->
       IF Lapsed(u)
       THEN Demoted(member[u], IF Exists(Fallback(member[u])) THEN Fallback(member[u])
                               ELSE DefaultGroup, now)
       ELSE member[u]]
  /\ UNCHANGED <<now, groups, codes, used, redemptions, orders, request, baseline, rewritten>>

-----------------------------------------------------------------------------
(* Administrators.                                                         *)
(* SetUserGroup checks the group and then writes the user row.             *)

SetUserGroupCheck(r, u, g) ==
  /\ request[r] = Idle
  /\ Exists(g)
  /\ request' = [request EXCEPT ![r] = [at |-> "set_group", user |-> u, group |-> g]]
  /\ UNCHANGED <<now, groups, member, codes, used, redemptions, orders, baseline, rewritten>>

\* A finite assignment falls back to the default tier: nothing is held for good.
\* An expiry that has passed already is not refused. When it is the one a pending
\* expiry has read, that request takes the assignment for the membership it read
\* and ends it with the tier it looked up: the user is "rewritten".
SetUserGroupWrite(r, expiresAt) ==
  LET u == request[r].user
      g == request[r].group
  IN /\ request[r].at = "set_group"
     /\ member[u].anchor < MaxAnchor
     /\ member' = [member EXCEPT ![u] = [group |-> g, expiresAt |-> expiresAt,
                                         previous |-> NoGroup, anchor |-> GrantAnchor(u, g)]]
     /\ baseline' = [baseline EXCEPT ![u] = IF expiresAt = 0 THEN g ELSE DefaultGroup]
     /\ rewritten' = IF \E p \in Requests : Expiring(p) /\ request[p].user = u
                                                 /\ request[p].expiresAt = expiresAt
                     THEN rewritten \cup {u} ELSE rewritten \ {u}
     /\ request' = [request EXCEPT ![r] = Idle]
     /\ UNCHANGED <<now, groups, codes, used, redemptions, orders>>

OpenOrder(o) == orders[o].status = "open"

\* Members move to the default tier; fallbacks to g are cleared; the foreign keys
\* of redeem_codes and redeem_redemptions cascade.
DeleteUserGroup(g) ==
  /\ Exists(g) /\ g # DefaultGroup
  /\ \A o \in Orders : OpenOrder(o) => orders[o].group # g
  /\ groups' = groups \ {g}
  /\ member' = [u \in Users |->
       IF member[u].group = g THEN Demoted(member[u], DefaultGroup, now)
       ELSE IF member[u].previous = g THEN [member[u] EXCEPT !.previous = NoGroup]
       ELSE member[u]]
  /\ codes' = {c \in codes : CodeOf[c].group # g}
  /\ redemptions' = {d \in redemptions : d.code \in codes' /\ d.group # g}
  /\ baseline' = [u \in Users |-> IF member[u].group = g \/ baseline[u] = g
                                  THEN DefaultGroup ELSE baseline[u]]
  /\ UNCHANGED <<now, used, orders, request, rewritten>>

\* The rows of the code's redemptions go with it.
DeleteRedeemCode(c) ==
  /\ c \in codes
  /\ codes' = codes \ {c}
  /\ redemptions' = {d \in redemptions : d.code # c}
  /\ UNCHANGED <<now, groups, member, used, orders, request, baseline, rewritten>>

-----------------------------------------------------------------------------
(* Payment orders for a tier.                                              *)

\* The group row is locked FOR KEY SHARE: it exists when the order commits. A
\* tier the user holds for good is not sold.
CreatePaymentOrder(o, u, g) ==
  /\ orders[o] = NoOrder
  /\ Exists(g) /\ g # DefaultGroup
  /\ ~(member[u].group = g /\ member[u].expiresAt = 0)
  /\ ~(member[u].previous = g /\ member[u].expiresAt > 0)
  /\ orders' = [orders EXCEPT ![o] = [user |-> u, group |-> g, status |-> "open"]]
  /\ UNCHANGED <<now, groups, member, codes, used, redemptions, request, baseline, rewritten>>

\* The order failed, expired, was cancelled at the gateway, or was deleted after
\* an administrator declared the gateway final.
ClosePaymentOrder(o) ==
  /\ OpenOrder(o)
  /\ orders' = [orders EXCEPT ![o].status = "closed"]
  /\ UNCHANGED <<now, groups, member, codes, used, redemptions, request, baseline, rewritten>>

\* The membership u has at this moment: an elapsed one counts as ended, and what
\* it falls back to is held for good.
Effective(u) ==
  IF Lapsed(u) THEN [group |-> Fallback(member[u]), previous |-> NoGroup, permanent |-> TRUE]
  ELSE [group |-> member[u].group, previous |-> member[u].previous,
        permanent |-> member[u].expiresAt = 0]

\* Mutant: the tier that is replaced becomes the fallback, finite or not.
FallbackToReplaced(u, g) ==
  LET e == Effective(u)
  IN IF e.group = g THEN e.previous ELSE IF e.group # DefaultGroup THEN e.group ELSE NoGroup

\* Only a tier held for good may become the fallback of a purchase.
PurchaseFallback(u, g) ==
  LET e == Effective(u)
  IN IF e.group = g \/ ~e.permanent THEN e.previous
     ELSE IF e.group # DefaultGroup THEN e.group ELSE NoGroup

\* Mutant: the window always starts now.
PurchaseFromNow(u, g) == now + BillingCycle

\* A purchase of the tier held for good changes nothing; one of the current
\* finite tier extends it; any other starts now.
PurchaseExpiry(u, g) ==
  LET e == Effective(u)
  IN IF e.group = g /\ e.permanent THEN 0
     ELSE IF e.group = g THEN member[u].expiresAt + BillingCycle
     ELSE now + BillingCycle

FulfillPaymentOrder(o) ==
  LET u == orders[o].user
      g == orders[o].group
  IN /\ OpenOrder(o)
     /\ Exists(g)
     /\ member' = [member EXCEPT ![u] =
          [group |-> g, expiresAt |-> PurchaseExpiry(u, g),
           previous |-> PurchaseFallback(u, g), anchor |-> GrantAnchor(u, g)]]
     /\ orders' = [orders EXCEPT ![o].status = "fulfilled"]
     /\ UNCHANGED <<now, groups, codes, used, redemptions, request, baseline, rewritten>>

-----------------------------------------------------------------------------
(* Redeem codes.                                                           *)

\* The code and its group are read and checked without a lock.
RedeemRead(r, u, c) ==
  /\ request[r] = Idle
  /\ c \in codes /\ used[c] < CodeOf[c].maxUses
  /\ CodeOf[c].kind = "group" => Exists(CodeOf[c].group)
  /\ request' = [request EXCEPT ![r] = [at |-> "redeem", user |-> u, code |-> c]]
  /\ UNCHANGED <<now, groups, member, codes, used, redemptions, orders, baseline, rewritten>>

RedeemedMember(u, code) ==
  LET m == member[u]
      renewal == m.group = code.group
  IN [group |-> code.group,
      expiresAt |-> IF code.duration = 0 THEN 0
                    ELSE IF renewal /\ m.expiresAt > now THEN m.expiresAt + code.duration
                    ELSE now + code.duration,
      previous |-> IF code.duration = 0 THEN NoGroup
                   ELSE IF renewal THEN m.previous
                   ELSE IF m.group # DefaultGroup THEN m.group ELSE NoGroup,
      anchor |-> GrantAnchor(u, code.group)]

SlotLeft(c) == c \in codes /\ used[c] < CodeOf[c].maxUses

\* With the user row locked: the user has no redemption of the code yet, a slot
\* is left, and the audit row's foreign key holds. A switch of tier is asked
\* twice, the second time confirmed; only that one changes anything.
RedeemCommit(r) ==
  LET u == request[r].user
      c == request[r].code
      code == CodeOf[c]
      g == IF code.kind = "credits" THEN member[u].group ELSE code.group
  IN /\ request[r].at = "redeem"
     /\ \A d \in redemptions : ~(d.code = c /\ d.user = u)
     /\ SlotLeft(c)
     /\ Exists(g)
     /\ used' = [used EXCEPT ![c] = @ + 1]
     /\ redemptions' = redemptions \cup {[code |-> c, user |-> u, group |-> g]}
     /\ IF code.kind = "credits" THEN UNCHANGED <<member, baseline, rewritten>>
        ELSE /\ member' = [member EXCEPT ![u] = RedeemedMember(u, code)]
             /\ baseline' = [baseline EXCEPT ![u] =
                  IF code.duration = 0 THEN g
                  ELSE IF member[u].group \in {g, DefaultGroup} THEN @ ELSE member[u].group]
     /\ request' = [request EXCEPT ![r] = Idle]
     /\ UNCHANGED <<now, groups, codes, orders, rewritten>>

\* The transaction rolls back: refused, or not confirmed.
RedeemAbort(r) ==
  /\ request[r].at = "redeem"
  /\ request' = [request EXCEPT ![r] = Idle]
  /\ UNCHANGED <<now, groups, member, codes, used, redemptions, orders, baseline, rewritten>>

-----------------------------------------------------------------------------
Tick ==
  /\ now < MaxNow
  /\ now' = now + 1
  /\ UNCHANGED <<groups, member, codes, used, redemptions, orders, request, baseline, rewritten>>

Init ==
  /\ now = 1
  /\ groups = Groups
  /\ \E g \in [Users -> Groups] :
       /\ member = [u \in Users |-> [group |-> g[u], expiresAt |-> 0, previous |-> NoGroup,
                                     anchor |-> 1]]
       /\ baseline = g
  /\ codes = Codes
  /\ used = [c \in Codes |-> 0]
  /\ redemptions = {}
  /\ orders = [o \in Orders |-> NoOrder]
  /\ request = [r \in Requests |-> Idle]
  /\ rewritten = {}

Next ==
  \/ \E r \in Requests, u \in Users : ExpireRead(r, u)
  \/ \E r \in Requests : ExpireCheck(r)
  \/ \E r \in Requests : ExpireWrite(r)
  \/ ExpireDueUserGroups
  \/ \E r \in Requests, u \in Users, g \in Groups : SetUserGroupCheck(r, u, g)
  \/ \E r \in Requests, e \in AdminExpiries : SetUserGroupWrite(r, e)
  \/ \E g \in Groups : DeleteUserGroup(g)
  \/ \E c \in Codes : DeleteRedeemCode(c)
  \/ \E o \in Orders, u \in Users, g \in Groups : CreatePaymentOrder(o, u, g)
  \/ \E o \in Orders : ClosePaymentOrder(o)
  \/ \E o \in Orders : FulfillPaymentOrder(o)
  \/ \E r \in Requests, u \in Users, c \in Codes : RedeemRead(r, u, c)
  \/ \E r \in Requests : RedeemCommit(r)
  \/ \E r \in Requests : RedeemAbort(r)
  \/ Tick

Spec == Init /\ [][Next]_vars

-----------------------------------------------------------------------------
(* Properties.                                                             *)

\* The rows have their types; a membership that ends has an end.
TypeOK ==
  /\ now \in 1..MaxNow
  /\ groups \subseteq Groups /\ DefaultGroup \in groups
  /\ member \in [Users -> Member]
  /\ codes \subseteq Codes
  /\ used \in [Codes -> Nat]
  /\ redemptions \subseteq [code : codes, user : Users, group : Groups]
  /\ orders \in [Orders -> Order \cup {NoOrder}]
  /\ request \in [Requests -> RequestType]
  /\ baseline \in [Users -> Groups]
  /\ rewritten \subseteq Users

\* A tier without an end is one the user was given for good (at registration, by
\* an administrator, by a permanent code), and so is the fallback; only a finite
\* code makes the tier it replaces the fallback too. No purchase, renewal, expiry
\* or deletion turns a bought window into a tier for ever. A group that is gone
\* confers nothing, and no order that may still be paid is for one, whatever an
\* administrator deletes while the buyer is at the gateway. The code breaks the
\* first two for a user whose elapsed expiry an administrator writes once more
\* while a request that read it is under way (SetUserGroupWrite).
TierIsEntitled ==
  /\ TypeOK
  /\ \A u \in Users \ rewritten :
       /\ member[u].expiresAt = 0 /\ Exists(member[u].group)
            => member[u].group \in {DefaultGroup, baseline[u]}
       /\ Exists(member[u].previous) => member[u].previous = baseline[u]
  /\ \A o \in Orders : OpenOrder(o) => Exists(orders[o].group)

\* m2 ends no earlier than m; 0 is no end at all.
EndsNoEarlier(m, m2) ==
  m2.expiresAt = 0 \/ (m.expiresAt # 0 /\ m2.expiresAt >= m.expiresAt)

\* Buying the tier one is in never takes time away, nor does redeeming a code for
\* it while it has an end. (A finite code gives a tier held for good an end.)
PaidTimeIsKept ==
  [][\A u \in Users : ~Lapsed(u) /\ member'[u].group = member[u].group =>
       /\ (\E o \in Orders : OpenOrder(o) /\ orders'[o].status = "fulfilled")
            => EndsNoEarlier(member[u], member'[u])
       /\ used' # used /\ member[u].expiresAt # 0
            => EndsNoEarlier(member[u], member'[u])]_vars

\* A request that read an elapsed membership never ends the one that replaced it
\* in the meantime, by a renewal, a purchase, a code or an administrator.
RunningMembershipSurvivesExpiry ==
  [][\A r \in Requests : request[r].at = "expire_write" /\ request'[r] = Idle =>
       \A u \in Users : ~Lapsed(u) => member'[u] = member[u]]_vars
=============================================================================
