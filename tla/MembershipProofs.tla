-------------------------- MODULE MembershipProofs ---------------------------
(***************************************************************************)
(* Nobody keeps for ever a tier that was bought for a time, buying never   *)
(* takes time away, and a late expiry ends no running membership, for any  *)
(* users, groups, codes, orders and requests.                              *)
(***************************************************************************)
EXTENDS Membership, TLAPS

\* What u has for good, or falls back to, is what was given for good.
Entitled(u) ==
  u \notin rewritten =>
    /\ member[u].expiresAt = 0 /\ Exists(member[u].group)
         => member[u].group \in {DefaultGroup, baseline[u]}
    /\ Exists(member[u].previous) => member[u].previous = baseline[u]

\* No order that may still be paid is for a group that is gone.
OrdersAreOpen == \A o \in Orders : OpenOrder(o) => Exists(orders[o].group)

\* A pending expiry has read an expiry that has passed; if it is still the one
\* in the row, what the request writes is what the user may fall back to.
Remembers(r) ==
  LET u == request[r].user
      g == request[r].group
  IN Expiring(r) =>
       /\ request[r].expiresAt > 0 /\ request[r].expiresAt <= now
       /\ u \notin rewritten /\ member[u].expiresAt = request[r].expiresAt /\ Exists(g)
            => g \in {DefaultGroup, baseline[u]}

\* The inductive invariant.
IInv ==
  /\ TypeOK
  /\ OrdersAreOpen
  /\ \A u \in Users : Entitled(u)
  /\ \A r \in Requests : Remembers(r)

-----------------------------------------------------------------------------
(* The records.                                                            *)

\* The fields of a row of users.
LEMMA MemberFields ==
  ASSUME NEW g \in Groups, NEW e \in Nat, NEW p \in Groups \cup {NoGroup}, NEW a \in Nat,
         NEW m, m = [group |-> g, expiresAt |-> e, previous |-> p, anchor |-> a]
  PROVE  /\ m \in Member
         /\ m.group = g /\ m.expiresAt = e /\ m.previous = p /\ m.anchor = a
BY DEF Member

\* A row that only loses its fallback.
LEMMA ForgetFallback ==
  ASSUME NEW m \in Member
  PROVE  /\ [m EXCEPT !.previous = NoGroup] \in Member
         /\ [m EXCEPT !.previous = NoGroup].group = m.group
         /\ [m EXCEPT !.previous = NoGroup].expiresAt = m.expiresAt
         /\ [m EXCEPT !.previous = NoGroup].previous = NoGroup
<1>1. PICK g \in Groups, e \in Nat, p \in Groups \cup {NoGroup}, a \in Nat :
        m = [group |-> g, expiresAt |-> e, previous |-> p, anchor |-> a]
  BY DEF Member
<1>2. [m EXCEPT !.previous = NoGroup]
        = [group |-> g, expiresAt |-> e, previous |-> NoGroup, anchor |-> a]
  BY <1>1
<1> QED BY <1>1, <1>2, MemberFields

\* What a request holds depends on how far it is.
LEMMA RequestForms ==
  ASSUME NEW x \in RequestType
  PROVE  /\ x.at \in {"expire_check", "expire_write"} => x \in ExpiryType
         /\ x.at = "set_group" => x.user \in Users /\ x.group \in Groups
         /\ x.at = "redeem" => x.user \in Users /\ x.code \in Codes
         /\ x.at \in {"idle", "expire_check", "expire_write", "set_group", "redeem"}
         /\ x.at = "idle" => x = Idle
BY DEF RequestType, ExpiryType, Idle

\* The request whose fallback has been looked up.
LEMMA Checked ==
  ASSUME NEW x \in ExpiryType, NEW g \in Groups
  PROVE  /\ [x EXCEPT !.at = "expire_write", !.group = g] \in ExpiryType
         /\ [x EXCEPT !.at = "expire_write", !.group = g].at = "expire_write"
         /\ [x EXCEPT !.at = "expire_write", !.group = g].user = x.user
         /\ [x EXCEPT !.at = "expire_write", !.group = g].expiresAt = x.expiresAt
         /\ [x EXCEPT !.at = "expire_write", !.group = g].group = g
<1>1. PICK a \in {"expire_check", "expire_write"}, u \in Users, t \in 1..MaxNow, e \in Nat,
           h \in Groups : x = [at |-> a, user |-> u, now |-> t, expiresAt |-> e, group |-> h]
  BY DEF ExpiryType
<1>2. [x EXCEPT !.at = "expire_write", !.group = g]
        = [[x EXCEPT !.at = "expire_write"] EXCEPT !.group = g]
  BY Zenon
<1>3. [x EXCEPT !.at = "expire_write"]
        = [at |-> "expire_write", user |-> u, now |-> t, expiresAt |-> e, group |-> h]
  BY <1>1
<1>4. [[at |-> "expire_write", user |-> u, now |-> t, expiresAt |-> e, group |-> h]
         EXCEPT !.group = g]
        = [at |-> "expire_write", user |-> u, now |-> t, expiresAt |-> e, group |-> g]
  OBVIOUS
<1>5. [x EXCEPT !.at = "expire_write", !.group = g]
        = [at |-> "expire_write", user |-> u, now |-> t, expiresAt |-> e, group |-> g]
  BY <1>2, <1>3, <1>4
<1> QED BY <1>1, <1>5 DEF ExpiryType

\* An order that moves on keeps its user and its group.
LEMMA OrderMoves ==
  ASSUME NEW x \in Order, NEW s \in {"open", "fulfilled", "closed"}
  PROVE  /\ [x EXCEPT !.status = s] \in Order
         /\ [x EXCEPT !.status = s].status = s
<1>1. PICK u \in Users, g \in Groups, t \in {"open", "fulfilled", "closed"} :
        x = [user |-> u, group |-> g, status |-> t]
  BY DEF Order
<1>2. [x EXCEPT !.status = s] = [user |-> u, group |-> g, status |-> s]
  BY <1>1
<1> QED BY <1>1, <1>2 DEF Order

-----------------------------------------------------------------------------
(* The operators.                                                          *)

\* What TypeOK says of one user.
LEMMA OneUser ==
  ASSUME TypeOK, NEW u \in Users
  PROVE  /\ member[u] \in Member
         /\ member[u].group \in Groups /\ member[u].expiresAt \in Nat
         /\ member[u].previous \in Groups \cup {NoGroup} /\ member[u].anchor \in Nat
         /\ baseline[u] \in Groups /\ now \in Nat /\ now > 0
BY MembershipAssumption DEF TypeOK, Member

\* The tier fallen back to is a group.
LEMMA FallbackType ==
  ASSUME TypeOK, NEW u \in Users
  PROVE  Fallback(member[u]) \in Groups
BY OneUser, MembershipAssumption DEF Fallback

\* The anchor stays a number.
LEMMA AnchorType ==
  ASSUME TypeOK, NEW u \in Users, NEW g
  PROVE  GrantAnchor(u, g) \in Nat
BY OneUser DEF GrantAnchor, NextCreditCycleAnchor

\* The row of a membership that has ended.
LEMMA DemotedFields ==
  ASSUME NEW m \in Member, NEW g \in Groups, NEW t \in Nat
  PROVE  /\ Demoted(m, g, t) \in Member
         /\ Demoted(m, g, t).group = g /\ Demoted(m, g, t).expiresAt = 0
         /\ Demoted(m, g, t).previous = NoGroup
<1>1. NextCreditCycleAnchor(m.anchor, t) \in Nat
  BY DEF NextCreditCycleAnchor, Member
<1>2. NoGroup \in Groups \cup {NoGroup} /\ 0 \in Nat
  OBVIOUS
<1> DEFINE a == NextCreditCycleAnchor(m.anchor, t)
<1> HIDE DEF a
<1>3. a \in Nat
  BY <1>1 DEF a
<1>4. Demoted(m, g, t) = [group |-> g, expiresAt |-> 0, previous |-> NoGroup, anchor |-> a]
  BY DEF Demoted, a
<1> QED BY <1>2, <1>3, <1>4, MemberFields

\* What a purchase of group g does for a user whose membership runs.
LEMMA RunningPurchase ==
  ASSUME NEW u, NEW g, ~Lapsed(u)
  PROVE  /\ member[u].group = g => PurchaseFallback(u, g) = member[u].previous
         /\ member[u].expiresAt # 0 => PurchaseFallback(u, g) = member[u].previous
         /\ member[u].group # g /\ member[u].expiresAt = 0
              => PurchaseFallback(u, g)
                   = IF member[u].group # DefaultGroup THEN member[u].group ELSE NoGroup
         /\ member[u].group = g /\ member[u].expiresAt = 0 => PurchaseExpiry(u, g) = 0
         /\ member[u].group = g /\ member[u].expiresAt # 0
              => PurchaseExpiry(u, g) = member[u].expiresAt + BillingCycle
         /\ member[u].group # g => PurchaseExpiry(u, g) = now + BillingCycle
<1> DEFINE e == Effective(u)
<1>1. /\ e.group = member[u].group /\ e.previous = member[u].previous
      /\ e.permanent <=> member[u].expiresAt = 0
  BY Zenon DEF Effective
<1>2. /\ PurchaseFallback(u, g)
           = IF e.group = g \/ ~e.permanent THEN e.previous
             ELSE IF e.group # DefaultGroup THEN e.group ELSE NoGroup
      /\ PurchaseExpiry(u, g)
           = IF e.group = g /\ e.permanent THEN 0
             ELSE IF e.group = g THEN member[u].expiresAt + BillingCycle
             ELSE now + BillingCycle
  BY Zenon DEF PurchaseFallback, PurchaseExpiry
<1> HIDE DEF e
<1> QED BY <1>1, <1>2, Zenon

\* What a purchase writes: types, and an end that is none or lies ahead.
LEMMA PurchaseTypes ==
  ASSUME TypeOK, NEW u \in Users, NEW g \in Groups
  PROVE  /\ PurchaseExpiry(u, g) \in Nat
         /\ PurchaseExpiry(u, g) = 0 \/ PurchaseExpiry(u, g) > now
         /\ PurchaseFallback(u, g) \in Groups \cup {NoGroup}
<1>1. CASE Lapsed(u)
  BY <1>1, OneUser, FallbackType, MembershipAssumption
     DEF PurchaseExpiry, PurchaseFallback, Effective
<1>2. CASE ~Lapsed(u)
  BY <1>2, RunningPurchase, OneUser, MembershipAssumption
     DEF Lapsed
<1> QED BY <1>1, <1>2

\* A purchase makes nothing permanent that was not.
LEMMA PurchaseEntitles ==
  ASSUME TypeOK, NEW u \in Users, NEW g \in groups, Entitled(u), u \notin rewritten
  PROVE  /\ PurchaseExpiry(u, g) = 0 => g \in {DefaultGroup, baseline[u]}
         /\ Exists(PurchaseFallback(u, g)) => PurchaseFallback(u, g) = baseline[u]
<1>0. NoGroup \notin groups
  BY MembershipAssumption DEF TypeOK
<1>1. CASE Lapsed(u)
  BY <1>0, <1>1, OneUser, MembershipAssumption
     DEF PurchaseExpiry, PurchaseFallback, Effective, Fallback, Entitled, Exists
<1>2. CASE ~Lapsed(u)
  BY <1>0, <1>2, RunningPurchase, OneUser, MembershipAssumption
     DEF Lapsed, Entitled, Exists
<1> QED BY <1>1, <1>2

\* What a code writes.
LEMMA RedeemedFields ==
  ASSUME TypeOK, NEW u \in Users, NEW c \in Codes
  PROVE  /\ RedeemedMember(u, CodeOf[c]) \in Member
         /\ RedeemedMember(u, CodeOf[c]).group = CodeOf[c].group
         /\ RedeemedMember(u, CodeOf[c]).expiresAt
              = IF CodeOf[c].duration = 0 THEN 0
                ELSE IF member[u].group = CodeOf[c].group /\ member[u].expiresAt > now
                THEN member[u].expiresAt + CodeOf[c].duration ELSE now + CodeOf[c].duration
         /\ RedeemedMember(u, CodeOf[c]).previous
              = IF CodeOf[c].duration = 0 THEN NoGroup
                ELSE IF member[u].group = CodeOf[c].group THEN member[u].previous
                ELSE IF member[u].group # DefaultGroup THEN member[u].group ELSE NoGroup
<1> DEFINE g == CodeOf[c].group
           d == CodeOf[c].duration
           e == IF d = 0 THEN 0 ELSE IF member[u].group = g /\ member[u].expiresAt > now
                THEN member[u].expiresAt + d ELSE now + d
           p == IF d = 0 THEN NoGroup ELSE IF member[u].group = g THEN member[u].previous
                ELSE IF member[u].group # DefaultGroup THEN member[u].group ELSE NoGroup
           a == GrantAnchor(u, g)
<1>1. g \in Groups /\ d \in Nat
  BY MembershipAssumption
<1>2. e \in Nat /\ p \in Groups \cup {NoGroup}
  BY <1>1, OneUser
<1>3. a \in Nat
  BY AnchorType
<1>4. RedeemedMember(u, CodeOf[c]) = [group |-> g, expiresAt |-> e, previous |-> p, anchor |-> a]
  BY DEF RedeemedMember
<1> HIDE DEF g, d, e, p, a
<1>5. /\ RedeemedMember(u, CodeOf[c]) \in Member
      /\ RedeemedMember(u, CodeOf[c]).group = g /\ RedeemedMember(u, CodeOf[c]).expiresAt = e
      /\ RedeemedMember(u, CodeOf[c]).previous = p
  BY <1>1, <1>2, <1>3, <1>4, MemberFields
<1> QED BY <1>5 DEF g, d, e, p

-----------------------------------------------------------------------------
(* What a step does to the rows and the requests.                          *)

\* The end of a membership that a request has read.
LEMMA ExpireWriteRow ==
  ASSUME TypeOK, NEW r \in Requests, ExpireWrite(r)
  PROVE  LET u == request[r].user
             g == request[r].group
         IN /\ u \in Users /\ g \in Groups /\ Expiring(r) /\ request[r].now \in Nat
            /\ \A v \in Users : v # u \/ member[u].expiresAt # request[r].expiresAt
                                  => member'[v] = member[v]
            /\ member[u].expiresAt = request[r].expiresAt
                 => /\ member'[u].group = g /\ member'[u].expiresAt = 0
                    /\ member'[u].previous = NoGroup
            /\ member' \in [Users -> Member]
            /\ UNCHANGED <<now, groups, orders, baseline, rewritten>>
            /\ request' = [request EXCEPT ![r] = Idle]
<1> DEFINE u == request[r].user
           g == request[r].group
           t == request[r].now
<1>1. request[r].at = "expire_write" /\ request[r] \in ExpiryType
  BY RequestForms DEF ExpireWrite, TypeOK
<1>2. u \in Users /\ g \in Groups /\ t \in Nat
  BY <1>1, MembershipAssumption DEF ExpiryType
<1>3. member \in [Users -> Member]
  BY DEF TypeOK
<1>4. member' = [member EXCEPT ![u] =
         IF member[u].expiresAt = request[r].expiresAt
         THEN Demoted(member[u], g, t) ELSE member[u]]
  BY DEF ExpireWrite
<1>5. /\ Demoted(member[u], g, t) \in Member
      /\ Demoted(member[u], g, t).group = g /\ Demoted(member[u], g, t).expiresAt = 0
      /\ Demoted(member[u], g, t).previous = NoGroup
  BY <1>2, <1>3, DemotedFields
<1>6. member' \in [Users -> Member]
  BY <1>3, <1>4, <1>5
<1>7. UNCHANGED <<now, groups, orders, baseline, rewritten>>
      /\ request' = [request EXCEPT ![r] = Idle] /\ Expiring(r)
  BY <1>1 DEF ExpireWrite, Expiring
<1> QED BY <1>2, <1>3, <1>4, <1>5, <1>6, <1>7

\* What the sweep does to one user.
LEMMA SweptRow ==
  ASSUME TypeOK, NEW u \in Users, ExpireDueUserGroups
  PROVE  LET g == IF Exists(Fallback(member[u])) THEN Fallback(member[u]) ELSE DefaultGroup
         IN /\ ~Lapsed(u) => member'[u] = member[u]
            /\ Lapsed(u) => /\ member'[u].group = g /\ member'[u].expiresAt = 0
                            /\ member'[u].previous = NoGroup
            /\ member'[u] \in Member
<1> DEFINE g == IF Exists(Fallback(member[u])) THEN Fallback(member[u]) ELSE DefaultGroup
<1>1. member'[u] = IF Lapsed(u) THEN Demoted(member[u], g, now) ELSE member[u]
  BY DEF ExpireDueUserGroups
<1>2. g \in Groups /\ member[u] \in Member /\ now \in Nat
  BY FallbackType, OneUser, MembershipAssumption
<1>3. /\ Demoted(member[u], g, now) \in Member
      /\ Demoted(member[u], g, now).group = g /\ Demoted(member[u], g, now).expiresAt = 0
      /\ Demoted(member[u], g, now).previous = NoGroup
  BY <1>2, DemotedFields
<1> QED BY <1>1, <1>2, <1>3

\* What an administrator writes.
LEMMA AssignedRow ==
  ASSUME TypeOK, NEW r \in Requests, NEW e \in AdminExpiries, SetUserGroupWrite(r, e)
  PROVE  LET u == request[r].user
             g == request[r].group
         IN /\ u \in Users /\ g \in Groups /\ request[r].at = "set_group"
            /\ \A v \in Users : v # u => member'[v] = member[v] /\ baseline'[v] = baseline[v]
            /\ member'[u].group = g /\ member'[u].expiresAt = e /\ member'[u].previous = NoGroup
            /\ baseline'[u] = (IF e = 0 THEN g ELSE DefaultGroup)
            /\ member' \in [Users -> Member] /\ baseline' \in [Users -> Groups]
<1> DEFINE u == request[r].user
           g == request[r].group
           a == GrantAnchor(u, g)
           m == [group |-> g, expiresAt |-> e, previous |-> NoGroup, anchor |-> a]
<1>1. request[r].at = "set_group" /\ u \in Users /\ g \in Groups
  BY RequestForms DEF SetUserGroupWrite, TypeOK
<1>2. member \in [Users -> Member] /\ baseline \in [Users -> Groups]
  BY DEF TypeOK
<1>3. member' = [member EXCEPT ![u] = m]
      /\ baseline' = [baseline EXCEPT ![u] = IF e = 0 THEN g ELSE DefaultGroup]
  BY DEF SetUserGroupWrite
<1>4. a \in Nat /\ e \in Nat /\ NoGroup \in Groups \cup {NoGroup}
  BY <1>1, AnchorType, MembershipAssumption
<1> HIDE DEF a
<1>5. m \in Member /\ m.group = g /\ m.expiresAt = e /\ m.previous = NoGroup
  BY <1>1, <1>4, MemberFields, SMTT(60)
<1> HIDE DEF m
<1> QED BY <1>1, <1>2, <1>3, <1>5, MembershipAssumption

\* What the deletion of a group does to one user.
LEMMA DeletedRow ==
  ASSUME TypeOK, NEW g \in Groups, NEW u \in Users, DeleteUserGroup(g)
  PROVE  /\ member[u].group = g => /\ member'[u].group = DefaultGroup
                                   /\ member'[u].expiresAt = 0
                                   /\ member'[u].previous = NoGroup
         /\ member[u].group # g => /\ member'[u].group = member[u].group
                                   /\ member'[u].expiresAt = member[u].expiresAt
                                   /\ member[u].previous = g => member'[u].previous = NoGroup
                                   /\ member[u].previous # g
                                        => member'[u].previous = member[u].previous
         /\ member'[u] \in Member
<1>1. member'[u] = IF member[u].group = g THEN Demoted(member[u], DefaultGroup, now)
                   ELSE IF member[u].previous = g THEN [member[u] EXCEPT !.previous = NoGroup]
                   ELSE member[u]
  BY DEF DeleteUserGroup
<1>2. member[u] \in Member /\ now \in Nat /\ DefaultGroup \in Groups
  BY OneUser, MembershipAssumption
<1>3. CASE member[u].group = g
  BY <1>1, <1>2, <1>3, DemotedFields
<1>4. CASE member[u].group # g /\ member[u].previous = g
  <2>1. member'[u] = [member[u] EXCEPT !.previous = NoGroup]
    BY <1>1, <1>4, Zenon
  <2> HIDE <1>1
  <2> DEFINE m == [member[u] EXCEPT !.previous = NoGroup]
  <2>2. /\ m \in Member /\ m.group = member[u].group /\ m.expiresAt = member[u].expiresAt
        /\ m.previous = NoGroup
    BY <1>2, ForgetFallback, Zenon
  <2> HIDE DEF m
  <2>3. member'[u] = m
    BY <2>1 DEF m
  <2> QED BY <1>4, <2>2, <2>3
<1>5. CASE member[u].group # g /\ member[u].previous # g
  <2>1. member'[u] = member[u]
    BY <1>1, <1>5, Zenon
  <2> QED BY <1>2, <1>5, <2>1
<1> QED BY <1>3, <1>4, <1>5

\* What the delivery of an order writes.
LEMMA PurchasedRow ==
  ASSUME TypeOK, NEW o \in Orders, FulfillPaymentOrder(o)
  PROVE  LET u == orders[o].user
             g == orders[o].group
         IN /\ u \in Users /\ g \in groups /\ g \in Groups
            /\ \A v \in Users : v # u => member'[v] = member[v]
            /\ member'[u].group = g /\ member'[u].expiresAt = PurchaseExpiry(u, g)
            /\ member'[u].previous = PurchaseFallback(u, g)
            /\ member' \in [Users -> Member]
            /\ orders[o] \in Order
<1> DEFINE u == orders[o].user
           g == orders[o].group
           a == GrantAnchor(u, g)
           e == PurchaseExpiry(u, g)
           p == PurchaseFallback(u, g)
           m == [group |-> g, expiresAt |-> e, previous |-> p, anchor |-> a]
<1>1. orders[o] \in Order
  BY DEF FulfillPaymentOrder, TypeOK, OpenOrder, NoOrder
<1>2. u \in Users /\ g \in groups /\ g \in Groups
  BY <1>1 DEF Order, FulfillPaymentOrder, Exists
<1>3. member \in [Users -> Member] /\ member' = [member EXCEPT ![u] = m]
  BY DEF TypeOK, FulfillPaymentOrder
<1>4. a \in Nat /\ e \in Nat /\ p \in Groups \cup {NoGroup}
  BY <1>2, AnchorType, PurchaseTypes
<1> HIDE DEF a, e, p
<1>5. m \in Member /\ m.group = g /\ m.expiresAt = e /\ m.previous = p
  BY <1>2, <1>4, MemberFields
<1> HIDE DEF m
<1>6. /\ \A v \in Users : v # u => member'[v] = member[v]
      /\ member'[u] = m /\ member' \in [Users -> Member]
  BY <1>2, <1>3, <1>5
<1> QED BY <1>1, <1>2, <1>5, <1>6 DEF e, p

\* What a code that grants a group writes.
LEMMA RedeemedRow ==
  ASSUME TypeOK, NEW r \in Requests, RedeemCommit(r)
  PROVE  LET u == request[r].user
             c == request[r].code
         IN /\ request[r].at = "redeem" /\ u \in Users /\ c \in Codes
            /\ CodeOf[c].kind = "credits" => UNCHANGED <<member, baseline>>
            /\ CodeOf[c].kind # "credits" =>
                 /\ \A v \in Users : v # u => member'[v] = member[v] /\ baseline'[v] = baseline[v]
                 /\ member'[u] = RedeemedMember(u, CodeOf[c])
                 /\ baseline'[u]
                      = IF CodeOf[c].duration = 0 THEN CodeOf[c].group
                        ELSE IF member[u].group \in {CodeOf[c].group, DefaultGroup} THEN baseline[u]
                        ELSE member[u].group
            /\ member' \in [Users -> Member] /\ baseline' \in [Users -> Groups]
<1> DEFINE u == request[r].user
           c == request[r].code
           m == RedeemedMember(u, CodeOf[c])
           b == IF CodeOf[c].duration = 0 THEN CodeOf[c].group
                ELSE IF member[u].group \in {CodeOf[c].group, DefaultGroup} THEN baseline[u]
                ELSE member[u].group
<1>1. request[r].at = "redeem" /\ u \in Users /\ c \in Codes
  BY RequestForms DEF RedeemCommit, TypeOK
<1>2. member \in [Users -> Member] /\ baseline \in [Users -> Groups]
  BY DEF TypeOK
<1>3. m \in Member
  BY <1>1, RedeemedFields
<1>4. b \in Groups
  BY <1>1, OneUser, MembershipAssumption
<1>5. CASE CodeOf[c].kind = "credits"
  <2>1. UNCHANGED <<member, baseline>>
    BY <1>5 DEF RedeemCommit
  <2> QED BY <1>1, <1>2, <1>5, <2>1
<1>6. CASE CodeOf[c].kind # "credits"
  <2>1. member' = [member EXCEPT ![u] = m] /\ baseline' = [baseline EXCEPT ![u] = b]
    BY <1>6 DEF RedeemCommit
  <2> HIDE DEF m, b
  <2>2. /\ \A v \in Users : v # u => member'[v] = member[v] /\ baseline'[v] = baseline[v]
        /\ member'[u] = m /\ baseline'[u] = b
        /\ member' \in [Users -> Member] /\ baseline' \in [Users -> Groups]
    BY <1>1, <1>2, <1>3, <1>4, <2>1
  <2> QED BY <1>1, <1>6, <2>2 DEF m, b
<1> QED BY <1>5, <1>6

\* The groups only go, and the clock only advances.
LEMMA Onwards ==
  ASSUME TypeOK, Next
  PROVE  groups' \subseteq groups /\ now \in Nat /\ now' \in Nat /\ now' >= now
<1>1. now \in Nat
  BY MembershipAssumption DEF TypeOK
<1>2. ASSUME NEW g \in Groups, DeleteUserGroup(g)
      PROVE  groups' \subseteq groups /\ now' = now
  BY <1>2 DEF DeleteUserGroup
<1>3. ASSUME Tick PROVE groups' = groups /\ now' = now + 1
  BY <1>3 DEF Tick
<1>4. ASSUME ~(\E g \in Groups : DeleteUserGroup(g)), ~Tick
      PROVE  groups' = groups /\ now' = now
  BY <1>4, Zenon DEF Next, ExpireRead, ExpireCheck, ExpireWrite, ExpireDueUserGroups,
    SetUserGroupCheck, SetUserGroupWrite, DeleteRedeemCode, CreatePaymentOrder, ClosePaymentOrder,
    FulfillPaymentOrder, RedeemRead, RedeemCommit, RedeemAbort
<1> QED BY <1>1, <1>2, <1>3, <1>4

\* A step changes one request at most, and only ExpireWrite one that is about to
\* end a membership.
LEMMA RequestSteps ==
  ASSUME TypeOK, Next
  PROVE  \/ request' = request
         \/ \E q \in Requests :
              /\ \A p \in Requests : p # q => request'[p] = request[p]
              /\ request[q].at # "expire_write" \/ ExpireWrite(q)
<1> DEFINE Only(q) == \A p \in Requests : p # q => request'[p] = request[p]
<1>0. ASSUME NEW q \in Requests, NEW x, request' = [request EXCEPT ![q] = x] PROVE Only(q)
  BY <1>0 DEF TypeOK
<1> HIDE DEF Only
<1>1. ASSUME NEW q \in Requests, NEW u \in Users, ExpireRead(q, u)
      PROVE  request[q].at # "expire_write" /\ Only(q)
  <2>1. request[q].at # "expire_write"
    BY <1>1 DEF ExpireRead, Idle
  <2> QED BY <1>0, <1>1, <2>1, Zenon DEF ExpireRead
<1>2. ASSUME NEW q \in Requests, ExpireCheck(q)
      PROVE  request[q].at # "expire_write" /\ Only(q)
  <2>1. request[q].at = "expire_check"
    BY <1>2, Zenon DEF ExpireCheck
  <2>2. Only(q)
    BY <1>0, <1>2, Zenon DEF ExpireCheck
  <2> QED BY <2>1, <2>2
<1>3. ASSUME NEW q \in Requests, ExpireWrite(q)
      PROVE  Only(q)
  BY <1>0, <1>3, Zenon DEF ExpireWrite
<1>4. ASSUME NEW q \in Requests, NEW u \in Users, NEW g \in Groups, SetUserGroupCheck(q, u, g)
      PROVE  request[q].at # "expire_write" /\ Only(q)
  <2>1. request[q].at # "expire_write"
    BY <1>4 DEF SetUserGroupCheck, Idle
  <2> QED BY <1>0, <1>4, <2>1, Zenon DEF SetUserGroupCheck
<1>5. ASSUME NEW q \in Requests, NEW e \in AdminExpiries, SetUserGroupWrite(q, e)
      PROVE  request[q].at # "expire_write" /\ Only(q)
  <2>1. request[q].at # "expire_write"
    BY <1>5 DEF SetUserGroupWrite
  <2> QED BY <1>0, <1>5, <2>1, Zenon DEF SetUserGroupWrite
<1>6. ASSUME NEW q \in Requests, NEW u \in Users, NEW c \in Codes, RedeemRead(q, u, c)
      PROVE  request[q].at # "expire_write" /\ Only(q)
  <2>1. request[q].at # "expire_write"
    BY <1>6 DEF RedeemRead, Idle
  <2> QED BY <1>0, <1>6, <2>1, Zenon DEF RedeemRead
<1>7. ASSUME NEW q \in Requests, RedeemCommit(q) \/ RedeemAbort(q)
      PROVE  request[q].at # "expire_write" /\ Only(q)
  <2>1. request[q].at # "expire_write"
    BY <1>7 DEF RedeemCommit, RedeemAbort
  <2>2. request' = [request EXCEPT ![q] = Idle]
    BY <1>7, Zenon DEF RedeemCommit, RedeemAbort
  <2> QED BY <1>0, <2>1, <2>2, Zenon
<1>8. ASSUME \/ ExpireDueUserGroups
             \/ \E g \in Groups : DeleteUserGroup(g)
             \/ \E c \in Codes : DeleteRedeemCode(c)
             \/ \E o \in Orders, u \in Users, g \in Groups : CreatePaymentOrder(o, u, g)
             \/ \E o \in Orders : ClosePaymentOrder(o)
             \/ \E o \in Orders : FulfillPaymentOrder(o)
             \/ Tick
      PROVE  request' = request
  BY <1>8, Zenon DEF ExpireDueUserGroups, DeleteUserGroup, DeleteRedeemCode, CreatePaymentOrder,
    ClosePaymentOrder, FulfillPaymentOrder, Tick
<1> QED BY <1>1, <1>2, <1>3, <1>4, <1>5, <1>6, <1>7, <1>8, Zenon DEF Next, Only

-----------------------------------------------------------------------------
(* Type correctness.                                                       *)

\* The rows have their types at first.
LEMMA InitTypes == Init => TypeOK
<1> SUFFICES ASSUME Init PROVE TypeOK
  OBVIOUS
<1>1. PICK g \in [Users -> Groups] :
        /\ member = [u \in Users |-> [group |-> g[u], expiresAt |-> 0, previous |-> NoGroup,
                                      anchor |-> 1]]
        /\ baseline = g
  BY DEF Init
<1>2. member \in [Users -> Member]
  BY <1>1 DEF Member
<1> QED BY <1>1, <1>2, MembershipAssumption DEF Init, TypeOK, RequestType

\* Every step keeps the types.
LEMMA StepTypes ==
  ASSUME TypeOK, Next
  PROVE  TypeOK'
<1>0. member \in [Users -> Member] /\ request \in [Requests -> RequestType]
  BY DEF TypeOK
<1>i. Idle \in RequestType
  BY DEF RequestType
<1>1. ASSUME NEW r \in Requests, NEW u \in Users, ExpireRead(r, u)
      PROVE  TypeOK'
  <2> DEFINE x == [at |-> "expire_check", user |-> u, now |-> now,
                   expiresAt |-> member[u].expiresAt, group |-> Fallback(member[u])]
  <2>1. x \in ExpiryType
    BY OneUser, FallbackType DEF ExpiryType, TypeOK
  <2>2. request' = [request EXCEPT ![r] = x]
    BY <1>1 DEF ExpireRead
  <2> HIDE DEF x
  <2>3. request' \in [Requests -> RequestType]
    BY <1>0, <2>1, <2>2 DEF RequestType
  <2> QED BY <1>1, <2>3 DEF TypeOK, ExpireRead
<1>2. ASSUME NEW r \in Requests, ExpireCheck(r)
      PROVE  TypeOK'
  <2> DEFINE g == IF Exists(request[r].group) THEN request[r].group ELSE DefaultGroup
             x == [request[r] EXCEPT !.at = "expire_write", !.group = g]
  <2>1. request[r] \in ExpiryType
    BY <1>2, RequestForms DEF ExpireCheck, TypeOK
  <2>2. g \in Groups
    BY <2>1, MembershipAssumption DEF ExpiryType
  <2>3. request' = [request EXCEPT ![r] = x]
    BY <1>2, <1>0, Zenon DEF ExpireCheck
  <2> HIDE DEF g
  <2>4. x \in ExpiryType
    BY <2>1, <2>2, Checked, Zenon
  <2> HIDE DEF x
  <2>5. request' \in [Requests -> RequestType]
    BY <1>0, <2>4, <2>3 DEF RequestType
  <2> QED BY <1>2, <2>5 DEF TypeOK, ExpireCheck
<1>3. ASSUME NEW r \in Requests, ExpireWrite(r)
      PROVE  TypeOK'
  <2>1. request' \in [Requests -> RequestType] /\ member' \in [Users -> Member]
    BY <1>0, <1>3, <1>i, ExpireWriteRow
  <2> QED BY <1>3, <2>1 DEF TypeOK, ExpireWrite
<1>4. ASSUME ExpireDueUserGroups PROVE TypeOK'
  <2>1. \A u \in Users : member'[u] \in Member
    BY <1>4, SweptRow
  <2>2. member' = [u \in Users |-> member'[u]]
    BY <1>4 DEF ExpireDueUserGroups
  <2>3. member' \in [Users -> Member]
    BY <2>1, <2>2
  <2> QED BY <1>4, <2>3 DEF TypeOK, ExpireDueUserGroups
<1>5. ASSUME NEW r \in Requests, NEW u \in Users, NEW g \in Groups, SetUserGroupCheck(r, u, g)
      PROVE  TypeOK'
  <2>1. request' \in [Requests -> RequestType]
    BY <1>0, <1>5 DEF SetUserGroupCheck, RequestType
  <2> QED BY <1>5, <2>1 DEF TypeOK, SetUserGroupCheck
<1>6. ASSUME NEW r \in Requests, NEW e \in AdminExpiries, SetUserGroupWrite(r, e)
      PROVE  TypeOK'
  <2>1. /\ member' \in [Users -> Member] /\ baseline' \in [Users -> Groups]
        /\ request[r].user \in Users
    BY <1>6, AssignedRow
  <2>2. request' \in [Requests -> RequestType] /\ rewritten' \subseteq Users
    BY <1>0, <1>6, <1>i, <2>1 DEF SetUserGroupWrite, TypeOK
  <2> QED BY <1>6, <2>1, <2>2 DEF TypeOK, SetUserGroupWrite
<1>7. ASSUME NEW g \in Groups, DeleteUserGroup(g) PROVE TypeOK'
  <2>1. \A u \in Users : member'[u] \in Member
    BY <1>7, DeletedRow
  <2>2. member' = [u \in Users |-> member'[u]]
    BY <1>7 DEF DeleteUserGroup
  <2>3. member' \in [Users -> Member]
    BY <2>1, <2>2
  <2>4. baseline' \in [Users -> Groups]
    BY <1>7, OneUser, MembershipAssumption DEF DeleteUserGroup
  <2>5. redemptions' \subseteq [code : codes', user : Users, group : Groups]
    BY <1>7 DEF DeleteUserGroup, TypeOK
  <2> QED BY <1>7, <2>3, <2>4, <2>5 DEF TypeOK, DeleteUserGroup
<1>8. ASSUME NEW c \in Codes, DeleteRedeemCode(c) PROVE TypeOK'
  <2>1. redemptions' \subseteq [code : codes', user : Users, group : Groups]
    BY <1>8 DEF DeleteRedeemCode, TypeOK
  <2> QED BY <1>8, <2>1 DEF TypeOK, DeleteRedeemCode
<1>9. ASSUME NEW o \in Orders, NEW u \in Users, NEW g \in Groups, CreatePaymentOrder(o, u, g)
      PROVE  TypeOK'
  <2>1. orders' \in [Orders -> Order \cup {NoOrder}]
    BY <1>9 DEF CreatePaymentOrder, TypeOK, Order
  <2> QED BY <1>9, <2>1 DEF TypeOK, CreatePaymentOrder
<1>10. ASSUME NEW o \in Orders, ClosePaymentOrder(o) PROVE TypeOK'
  <2>1. orders[o] \in Order
    BY <1>10 DEF ClosePaymentOrder, TypeOK, OpenOrder, NoOrder
  <2> DEFINE x == [orders[o] EXCEPT !.status = "closed"]
  <2>2. orders' = [orders EXCEPT ![o] = x] /\ orders \in [Orders -> Order \cup {NoOrder}]
    BY <1>10, Zenon DEF ClosePaymentOrder, TypeOK
  <2>3. x \in Order
    BY <2>1, OrderMoves
  <2> HIDE DEF x
  <2>4. orders' \in [Orders -> Order \cup {NoOrder}]
    BY <2>2, <2>3
  <2> QED BY <1>10, <2>4 DEF TypeOK, ClosePaymentOrder
<1>11. ASSUME NEW o \in Orders, FulfillPaymentOrder(o) PROVE TypeOK'
  <2>1. orders[o] \in Order /\ member' \in [Users -> Member]
    BY <1>11, PurchasedRow
  <2> DEFINE x == [orders[o] EXCEPT !.status = "fulfilled"]
  <2>2. orders' = [orders EXCEPT ![o] = x] /\ orders \in [Orders -> Order \cup {NoOrder}]
    BY <1>11, Zenon DEF FulfillPaymentOrder, TypeOK
  <2>3. x \in Order
    BY <2>1, OrderMoves
  <2> HIDE DEF x
  <2>4. orders' \in [Orders -> Order \cup {NoOrder}]
    BY <2>2, <2>3
  <2> QED BY <1>11, <2>1, <2>4 DEF TypeOK, FulfillPaymentOrder
<1>12. ASSUME NEW r \in Requests, NEW u \in Users, NEW c \in Codes, RedeemRead(r, u, c)
       PROVE  TypeOK'
  <2>1. request' \in [Requests -> RequestType]
    BY <1>0, <1>12 DEF RedeemRead, RequestType
  <2> QED BY <1>12, <2>1 DEF TypeOK, RedeemRead
<1>13. ASSUME NEW r \in Requests, RedeemCommit(r) PROVE TypeOK'
  <2> DEFINE c == request[r].code
             u == request[r].user
             g == IF CodeOf[c].kind = "credits" THEN member[u].group ELSE CodeOf[c].group
  <2>1. /\ c \in Codes /\ u \in Users
        /\ member' \in [Users -> Member] /\ baseline' \in [Users -> Groups]
    BY <1>13, RedeemedRow
  <2>2. request' \in [Requests -> RequestType]
    BY <1>0, <1>13, <1>i DEF RedeemCommit
  <2>3. used' = [used EXCEPT ![c] = @ + 1] /\ c \in codes
    BY <1>13 DEF RedeemCommit, SlotLeft
  <2>4. used' \in [Codes -> Nat]
    BY <2>1, <2>3 DEF TypeOK
  <2>5. g \in Groups
    BY <2>1, OneUser, MembershipAssumption
  <2>6. redemptions' = redemptions \cup {[code |-> c, user |-> u, group |-> g]}
    BY <1>13 DEF RedeemCommit
  <2> HIDE DEF c, u, g
  <2>7. redemptions' \subseteq [code : codes, user : Users, group : Groups]
    BY <2>1, <2>3, <2>5, <2>6 DEF TypeOK
  <2> QED BY <1>13, <2>1, <2>2, <2>4, <2>7 DEF TypeOK, RedeemCommit
<1>14. ASSUME NEW r \in Requests, RedeemAbort(r) PROVE TypeOK'
  <2>1. request' \in [Requests -> RequestType]
    BY <1>0, <1>14, <1>i DEF RedeemAbort
  <2> QED BY <1>14, <2>1 DEF TypeOK, RedeemAbort
<1>15. ASSUME Tick PROVE TypeOK'
  <2>1. now' \in 1..MaxNow
    BY <1>15, MembershipAssumption DEF Tick, TypeOK
  <2> QED BY <1>15, <2>1 DEF TypeOK, Tick
<1> QED
  BY <1>1, <1>2, <1>3, <1>4, <1>5, <1>6, <1>7, <1>8, <1>9, <1>10, <1>11, <1>12, <1>13, <1>14,
     <1>15 DEF Next

-----------------------------------------------------------------------------
(* The invariant holds at first, and every step keeps each part of it.     *)

\* Everyone begins with the tier given at registration.
LEMMA InitInvariant == Init => IInv
<1> SUFFICES ASSUME Init PROVE IInv
  OBVIOUS
<1>1. TypeOK
  BY InitTypes
<1>2. OrdersAreOpen
  BY DEF Init, OrdersAreOpen, OpenOrder, NoOrder
<1>3. ASSUME NEW u \in Users PROVE Entitled(u)
  <2>1. NoGroup \notin groups
    BY <1>1, MembershipAssumption DEF TypeOK
  <2>2. member[u].group = baseline[u] /\ member[u].previous = NoGroup
    BY DEF Init
  <2> QED BY <2>1, <2>2 DEF Entitled, Exists
<1>4. ASSUME NEW r \in Requests PROVE Remembers(r)
  BY DEF Init, Remembers, Expiring, Idle
<1> QED BY <1>1, <1>2, <1>3, <1>4 DEF IInv

\* A group with an open order is not deleted, and no order is opened for one that
\* is gone.
LEMMA OrdersStayOpen ==
  ASSUME IInv, Next
  PROVE  OrdersAreOpen'
<1>0. TypeOK /\ OrdersAreOpen /\ TypeOK' /\ groups' \subseteq groups
  BY StepTypes, Onwards DEF IInv
<1>1. ASSUME NEW g \in Groups, DeleteUserGroup(g) PROVE OrdersAreOpen'
  BY <1>0, <1>1 DEF DeleteUserGroup, OrdersAreOpen, OpenOrder, Exists
<1>2. ASSUME NEW o \in Orders, NEW u \in Users, NEW g \in Groups, CreatePaymentOrder(o, u, g)
      PROVE  OrdersAreOpen'
  <2>1. /\ \A q \in Orders : q # o => orders'[q] = orders[q]
        /\ orders'[o].group = g /\ groups' = groups /\ g \in groups
    BY <1>0, <1>2 DEF CreatePaymentOrder, TypeOK, Exists
  <2> QED BY <1>0, <2>1 DEF OrdersAreOpen, OpenOrder, Exists
<1>3. ASSUME NEW o \in Orders, ClosePaymentOrder(o) \/ FulfillPaymentOrder(o)
      PROVE  OrdersAreOpen'
  <2>1. OpenOrder(o)
    BY <1>3, Zenon DEF ClosePaymentOrder, FulfillPaymentOrder
  <2>2. orders[o] \in Order
    BY <1>0, <2>1 DEF TypeOK, OpenOrder, NoOrder
  <2>3. PICK s \in {"fulfilled", "closed"} :
          orders' = [orders EXCEPT ![o] = [orders[o] EXCEPT !.status = s]]
    BY <1>3, Zenon DEF ClosePaymentOrder, FulfillPaymentOrder
  <2> DEFINE x == [orders[o] EXCEPT !.status = s]
  <2>4. x.status = s /\ s # "open"
    BY <2>2, OrderMoves
  <2>5. orders' = [orders EXCEPT ![o] = x]
    BY <2>3
  <2> HIDE DEF x
  <2>6. groups' = groups
    BY <1>3, Zenon DEF ClosePaymentOrder, FulfillPaymentOrder
  <2>7. orders'[o].status # "open" /\ \A q \in Orders : q # o => orders'[q] = orders[q]
    BY <1>0, <2>4, <2>5 DEF TypeOK
  <2> QED BY <1>0, <2>6, <2>7 DEF OrdersAreOpen, OpenOrder, Exists
<1>4. ASSUME ~(\E g \in Groups : DeleteUserGroup(g)),
             ~(\E o \in Orders, u \in Users, g \in Groups : CreatePaymentOrder(o, u, g)),
             ~(\E o \in Orders : ClosePaymentOrder(o)),
             ~(\E o \in Orders : FulfillPaymentOrder(o))
      PROVE  OrdersAreOpen'
  <2>1. groups' = groups /\ orders' = orders
    BY <1>4, Zenon DEF Next, ExpireRead, ExpireCheck, ExpireWrite, ExpireDueUserGroups,
      SetUserGroupCheck, SetUserGroupWrite, DeleteRedeemCode, RedeemRead, RedeemCommit,
      RedeemAbort, Tick
  <2> QED BY <1>0, <2>1 DEF OrdersAreOpen, OpenOrder, Exists
<1> QED BY <1>1, <1>2, <1>3, <1>4

\* What a user has or falls back to stays what was given for good.
LEMMA EntitlementsHold ==
  ASSUME IInv, Next, NEW v \in Users
  PROVE  Entitled(v)'
<1>0. /\ TypeOK /\ TypeOK' /\ groups' \subseteq groups /\ Entitled(v)
      /\ NoGroup \notin groups /\ NoGroup \notin groups'
  BY StepTypes, Onwards, MembershipAssumption DEF IInv, TypeOK
<1>f. /\ member[v].group \in Groups /\ member[v].expiresAt \in Nat
      /\ member[v].previous \in Groups \cup {NoGroup} /\ baseline[v] \in Groups
  BY <1>0, OneUser
<1>s. ASSUME member'[v] = member[v], baseline'[v] = baseline[v],
             v \notin rewritten' => v \notin rewritten
      PROVE  Entitled(v)'
  BY <1>0, <1>s DEF Entitled, Exists
<1>1. ASSUME NEW r \in Requests, ExpireWrite(r) PROVE Entitled(v)'
  <2> DEFINE u == request[r].user
  <2>1. /\ \A w \in Users : w # u \/ member[u].expiresAt # request[r].expiresAt
                              => member'[w] = member[w]
        /\ member[u].expiresAt = request[r].expiresAt
             => member'[u].group = request[r].group /\ member'[u].previous = NoGroup
        /\ UNCHANGED <<groups, baseline, rewritten>> /\ Expiring(r)
    BY <1>0, <1>1, ExpireWriteRow
  <2>2. CASE v # u \/ member[u].expiresAt # request[r].expiresAt
    BY <2>1, <2>2, <1>s
  <2>3. CASE v = u /\ member[u].expiresAt = request[r].expiresAt
    <3>1. Remembers(r)
      BY DEF IInv
    <3> QED BY <1>0, <2>1, <2>3, <3>1 DEF Remembers, Entitled, Exists
  <2> QED BY <2>2, <2>3
<1>2. ASSUME ExpireDueUserGroups PROVE Entitled(v)'
  <2>1. UNCHANGED <<groups, baseline, rewritten>>
    BY <1>2 DEF ExpireDueUserGroups
  <2>2. /\ ~Lapsed(v) => member'[v] = member[v]
        /\ Lapsed(v) => /\ member'[v].group = IF Exists(Fallback(member[v]))
                                              THEN Fallback(member[v]) ELSE DefaultGroup
                        /\ member'[v].previous = NoGroup
    BY <1>0, <1>2, SweptRow
  <2> QED BY <1>0, <1>f, <1>s, <2>1, <2>2 DEF Entitled, Exists, Fallback
<1>3. ASSUME NEW r \in Requests, NEW e \in AdminExpiries, SetUserGroupWrite(r, e)
      PROVE  Entitled(v)'
  <2> DEFINE u == request[r].user
  <2>1. /\ \A w \in Users : w # u => member'[w] = member[w] /\ baseline'[w] = baseline[w]
        /\ member'[u].group = request[r].group /\ member'[u].expiresAt = e
        /\ member'[u].previous = NoGroup
        /\ baseline'[u] = (IF e = 0 THEN request[r].group ELSE DefaultGroup)
    BY <1>0, <1>3, AssignedRow
  <2>2. rewritten \ {u} \subseteq rewritten'
    BY <1>3 DEF SetUserGroupWrite
  <2>3. CASE v # u
    BY <2>1, <2>2, <2>3, <1>s
  <2>4. CASE v = u
    BY <1>0, <2>1, <2>4 DEF Entitled, Exists
  <2> QED BY <2>3, <2>4
<1>4. ASSUME NEW g \in Groups, DeleteUserGroup(g) PROVE Entitled(v)'
  <2>1. /\ member[v].group = g => /\ member'[v].group = DefaultGroup
                                  /\ member'[v].previous = NoGroup
        /\ member[v].group # g => /\ member'[v].group = member[v].group
                                  /\ member'[v].expiresAt = member[v].expiresAt
                                  /\ member[v].previous = g => member'[v].previous = NoGroup
                                  /\ member[v].previous # g
                                       => member'[v].previous = member[v].previous
    BY <1>0, <1>4, DeletedRow
  <2>2. /\ baseline'[v] = IF member[v].group = g \/ baseline[v] = g THEN DefaultGroup
                          ELSE baseline[v]
        /\ groups' = groups \ {g} /\ rewritten' = rewritten
    BY <1>4 DEF DeleteUserGroup
  <2> QED BY <1>0, <2>1, <2>2 DEF Entitled, Exists
<1>5. ASSUME NEW o \in Orders, FulfillPaymentOrder(o) PROVE Entitled(v)'
  <2> DEFINE u == orders[o].user
             g == orders[o].group
  <2>1. /\ u \in Users /\ g \in groups /\ g \in Groups
        /\ \A w \in Users : w # u => member'[w] = member[w]
        /\ member'[u].group = g /\ member'[u].expiresAt = PurchaseExpiry(u, g)
        /\ member'[u].previous = PurchaseFallback(u, g)
    BY <1>0, <1>5, PurchasedRow
  <2>2. UNCHANGED <<groups, baseline, rewritten>>
    BY <1>5 DEF FulfillPaymentOrder
  <2> HIDE DEF u, g
  <2>3. CASE v # u
    BY <2>1, <2>2, <2>3, <1>s
  <2>4. CASE v = u /\ u \notin rewritten
    <3>1. /\ PurchaseExpiry(u, g) = 0 => g \in {DefaultGroup, baseline[u]}
          /\ Exists(PurchaseFallback(u, g)) => PurchaseFallback(u, g) = baseline[u]
      BY <1>0, <2>1, <2>4, PurchaseEntitles
    <3> QED BY <2>1, <2>2, <2>4, <3>1 DEF Entitled, Exists
  <2>5. CASE v = u /\ u \in rewritten
    BY <2>2, <2>5 DEF Entitled
  <2> QED BY <2>3, <2>4, <2>5
<1>6. ASSUME NEW r \in Requests, RedeemCommit(r) PROVE Entitled(v)'
  <2> DEFINE u == request[r].user
             c == request[r].code
  <2>1. /\ u \in Users /\ c \in Codes
        /\ CodeOf[c].kind = "credits" => UNCHANGED <<member, baseline>>
        /\ CodeOf[c].kind # "credits" =>
             /\ \A w \in Users : w # u => member'[w] = member[w] /\ baseline'[w] = baseline[w]
             /\ member'[u] = RedeemedMember(u, CodeOf[c])
             /\ baseline'[u]
                  = IF CodeOf[c].duration = 0 THEN CodeOf[c].group
                    ELSE IF member[u].group \in {CodeOf[c].group, DefaultGroup} THEN baseline[u]
                    ELSE member[u].group
    BY <1>0, <1>6, RedeemedRow
  <2>2. UNCHANGED <<groups, rewritten>>
    BY <1>6 DEF RedeemCommit
  <2> HIDE DEF u, c
  <2>3. CASE v # u \/ CodeOf[c].kind = "credits"
    BY <2>1, <2>2, <2>3, <1>s
  <2>4. CASE v = u /\ CodeOf[c].kind # "credits"
    <3>1. /\ member'[v].group = CodeOf[c].group
          /\ member'[v].expiresAt
               = IF CodeOf[c].duration = 0 THEN 0
                 ELSE IF member[v].group = CodeOf[c].group /\ member[v].expiresAt > now
                 THEN member[v].expiresAt + CodeOf[c].duration ELSE now + CodeOf[c].duration
          /\ member'[v].previous
               = IF CodeOf[c].duration = 0 THEN NoGroup
                 ELSE IF member[v].group = CodeOf[c].group THEN member[v].previous
                 ELSE IF member[v].group # DefaultGroup THEN member[v].group ELSE NoGroup
      BY <1>0, <2>1, <2>4, RedeemedFields
    <3>2. CodeOf[c].duration \in Nat /\ now \in Nat /\ now > 0
      BY <1>0, <2>1, OneUser, MembershipAssumption
    <3> QED BY <1>0, <1>f, <2>1, <2>2, <2>4, <3>1, <3>2 DEF Entitled, Exists
  <2> QED BY <2>3, <2>4
<1>7. ASSUME ~(\E r \in Requests : ExpireWrite(r)), ~ExpireDueUserGroups,
             ~(\E r \in Requests, e \in AdminExpiries : SetUserGroupWrite(r, e)),
             ~(\E g \in Groups : DeleteUserGroup(g)),
             ~(\E o \in Orders : FulfillPaymentOrder(o)),
             ~(\E r \in Requests : RedeemCommit(r))
      PROVE  Entitled(v)'
  <2>1. UNCHANGED <<member, baseline, rewritten>>
    BY <1>7, Zenon DEF Next, ExpireRead, ExpireCheck, SetUserGroupCheck, DeleteRedeemCode,
      CreatePaymentOrder, ClosePaymentOrder, RedeemRead, RedeemAbort, Tick
  <2> QED BY <2>1, <1>s
<1> QED BY <1>1, <1>2, <1>3, <1>4, <1>5, <1>6, <1>7

\* What a pending expiry has read stays true of the row, or is not in it any more.
LEMMA RequestsRemember ==
  ASSUME IInv, Next, NEW q \in Requests
  PROVE  Remembers(q)'
<1> DEFINE v == request[q].user
           t == request[q].expiresAt
<1>0. /\ TypeOK /\ TypeOK' /\ groups' \subseteq groups /\ Remembers(q)
      /\ now \in Nat /\ now' \in Nat /\ now' >= now
      /\ request \in [Requests -> RequestType]
      /\ Expiring(q) => request[q] \in ExpiryType
  BY StepTypes, Onwards, RequestForms DEF IInv, TypeOK, Expiring
<1>v. Expiring(q) => v \in Users /\ t \in Nat /\ t > 0 /\ t <= now
  BY <1>0 DEF ExpiryType, Remembers
<1>s. ASSUME request'[q] = request[q],
             Expiring(q) => \/ /\ member'[v] = member[v] /\ baseline'[v] = baseline[v]
                               /\ v \notin rewritten' => v \notin rewritten
                            \/ member'[v].expiresAt # t
      PROVE  Remembers(q)'
  BY <1>0, <1>v, <1>s DEF Remembers, Expiring, Exists
<1>i. ASSUME request'[q].at \in {"idle", "set_group", "redeem"} PROVE Remembers(q)'
  BY <1>i DEF Remembers, Expiring
<1>1. ASSUME NEW r \in Requests, NEW u \in Users, ExpireRead(r, u) PROVE Remembers(q)'
  <2>1. UNCHANGED <<now, groups, member, baseline, rewritten>>
    BY <1>1 DEF ExpireRead
  <2>2. CASE q # r
    BY <1>1, <1>s, <2>1, <2>2 DEF ExpireRead
  <2>3. CASE q = r
    <3> DEFINE x == [at |-> "expire_check", user |-> u, now |-> now,
                     expiresAt |-> member[u].expiresAt, group |-> Fallback(member[u])]
    <3>1. request'[q] = x
      BY <1>0, <1>1, <2>3 DEF ExpireRead
    <3>2. x.user = u /\ x.expiresAt = member[u].expiresAt /\ x.group = Fallback(member[u])
      OBVIOUS
    <3> HIDE DEF x
    <3>3. member[u].expiresAt > 0 /\ member[u].expiresAt <= now
      BY <1>1 DEF ExpireRead, Lapsed
    <3>4. Entitled(u) /\ NoGroup \notin groups
      BY <1>0, MembershipAssumption DEF IInv, TypeOK
    <3>5. u \notin rewritten /\ Exists(Fallback(member[u]))
            => Fallback(member[u]) \in {DefaultGroup, baseline[u]}
      BY <3>4 DEF Entitled, Fallback, Exists
    <3> QED BY <2>1, <3>1, <3>2, <3>3, <3>5 DEF Remembers, Exists
  <2> QED BY <2>2, <2>3
<1>2. ASSUME NEW r \in Requests, ExpireCheck(r) PROVE Remembers(q)'
  <2>1. UNCHANGED <<now, groups, member, baseline, rewritten>>
    BY <1>2, Zenon DEF ExpireCheck
  <2> DEFINE g == IF Exists(request[r].group) THEN request[r].group ELSE DefaultGroup
             x == [request[r] EXCEPT !.at = "expire_write", !.group = g]
  <2>2. request' = [request EXCEPT ![r] = x] /\ request[r].at = "expire_check"
    BY <1>2, Zenon DEF ExpireCheck
  <2>3. CASE q # r
    <3>1. request'[q] = request[q]
      BY <1>0, <2>2, <2>3, Zenon
    <3> QED BY <1>s, <2>1, <3>1
  <2>4. CASE q = r
    <3>1. request[q] \in ExpiryType /\ Expiring(q)
      BY <1>0, <2>2, <2>4 DEF Expiring
    <3>2. g \in Groups
      BY <3>1, <2>4, MembershipAssumption DEF ExpiryType
    <3>3. request[q].group = request[r].group
      BY <2>4
    <3>4. g = IF Exists(request[q].group) THEN request[q].group ELSE DefaultGroup
      BY <3>3
    <3> HIDE DEF g
    <3>5. x.user = v /\ x.expiresAt = t /\ x.group = g
      BY <2>4, <3>1, <3>2, Checked, Zenon
    <3>6. request'[q] = x
      BY <1>0, <2>2, <2>4, Zenon
    <3> HIDE DEF x
    <3> QED BY <1>0, <1>v, <2>1, <3>1, <3>4, <3>5, <3>6 DEF Remembers, Exists
  <2> QED BY <2>3, <2>4
<1>3. ASSUME NEW r \in Requests, ExpireWrite(r) PROVE Remembers(q)'
  <2> DEFINE u == request[r].user
  <2>1. /\ \A w \in Users : w # u \/ member[u].expiresAt # request[r].expiresAt
                              => member'[w] = member[w]
        /\ member[u].expiresAt = request[r].expiresAt => member'[u].expiresAt = 0
        /\ UNCHANGED <<groups, baseline, rewritten>>
        /\ request' = [request EXCEPT ![r] = Idle]
    BY <1>0, <1>3, ExpireWriteRow
  <2>2. CASE q = r
    BY <1>0, <1>i, <2>1, <2>2 DEF Idle
  <2>3. CASE q # r
    <3>1. request'[q] = request[q]
      BY <2>1, <2>3
    <3>2. Expiring(q) => member'[v] = member[v] \/ member'[v].expiresAt = 0
      BY <1>v, <2>1
    <3> QED BY <1>s, <1>v, <2>1, <3>1, <3>2
  <2> QED BY <2>2, <2>3
<1>4. ASSUME ExpireDueUserGroups PROVE Remembers(q)'
  <2>1. UNCHANGED <<request, groups, baseline, rewritten>>
    BY <1>4 DEF ExpireDueUserGroups
  <2>2. Expiring(q) => member'[v] = member[v] \/ member'[v].expiresAt = 0
    BY <1>0, <1>4, <1>v, SweptRow
  <2> QED BY <1>s, <1>v, <2>1, <2>2
<1>5. ASSUME NEW r \in Requests, NEW u \in Users, NEW g \in Groups, SetUserGroupCheck(r, u, g)
      PROVE  Remembers(q)'
  <2>1. UNCHANGED <<member, baseline, rewritten>>
    BY <1>5 DEF SetUserGroupCheck
  <2>2. q # r => request'[q] = request[q]
    BY <1>0, <1>5 DEF SetUserGroupCheck
  <2>3. q = r => request'[q].at = "set_group"
    BY <1>0, <1>5 DEF SetUserGroupCheck
  <2> QED BY <1>s, <1>i, <2>1, <2>2, <2>3
<1>6. ASSUME NEW r \in Requests, NEW e \in AdminExpiries, SetUserGroupWrite(r, e)
      PROVE  Remembers(q)'
  <2> DEFINE u == request[r].user
  <2>1. /\ \A w \in Users : w # u => member'[w] = member[w] /\ baseline'[w] = baseline[w]
        /\ member'[u].expiresAt = e
    BY <1>0, <1>6, AssignedRow
  <2>2. /\ request' = [request EXCEPT ![r] = Idle]
        /\ rewritten \ {u} \subseteq rewritten'
        /\ Expiring(q) /\ request[q].user = u /\ request[q].expiresAt = e => u \in rewritten'
    BY <1>6, Zenon DEF SetUserGroupWrite
  <2>3. CASE q = r
    BY <1>0, <1>i, <2>2, <2>3 DEF Idle
  <2>4. CASE q # r /\ v # u
    <3>1. request'[q] = request[q]
      BY <2>2, <2>4
    <3> QED BY <1>s, <1>v, <2>1, <2>2, <2>4, <3>1
  <2>5. CASE q # r /\ v = u /\ e # t
    <3>1. request'[q] = request[q]
      BY <2>2, <2>5
    <3> QED BY <1>s, <2>1, <2>5, <3>1
  <2>6. CASE q # r /\ v = u /\ e = t
    <3>1. request'[q] = request[q]
      BY <2>2, <2>6
    <3>2. Expiring(q) => v \in rewritten'
      BY <2>2, <2>6
    <3> QED BY <1>0, <1>v, <3>1, <3>2 DEF Remembers, Expiring
  <2> QED BY <2>3, <2>4, <2>5, <2>6
<1>7. ASSUME NEW g \in Groups, DeleteUserGroup(g) PROVE Remembers(q)'
  <2>1. request' = request /\ rewritten' = rewritten /\ groups' = groups \ {g}
    BY <1>7 DEF DeleteUserGroup
  <2>2. Expiring(q) =>
          /\ member[v].group = g => member'[v].expiresAt = 0
          /\ member[v].group # g => member'[v].expiresAt = member[v].expiresAt
          /\ baseline'[v] = IF member[v].group = g \/ baseline[v] = g THEN DefaultGroup
                            ELSE baseline[v]
    BY <1>0, <1>7, <1>v, DeletedRow DEF DeleteUserGroup
  <2> QED BY <1>0, <1>v, <2>1, <2>2 DEF Remembers, Expiring, Exists
<1>8. ASSUME NEW o \in Orders, FulfillPaymentOrder(o) PROVE Remembers(q)'
  <2> DEFINE u == orders[o].user
             g == orders[o].group
  <2>1. /\ u \in Users /\ g \in Groups
        /\ \A w \in Users : w # u => member'[w] = member[w]
        /\ member'[u].expiresAt = PurchaseExpiry(u, g)
    BY <1>0, <1>8, PurchasedRow
  <2>2. UNCHANGED <<request, baseline, rewritten>>
    BY <1>8 DEF FulfillPaymentOrder
  <2> HIDE DEF u, g
  <2>3. PurchaseExpiry(u, g) \in Nat
        /\ (PurchaseExpiry(u, g) = 0 \/ PurchaseExpiry(u, g) > now)
    BY <1>0, <2>1, PurchaseTypes
  <2>4. Expiring(q) => member'[v] = member[v] \/ member'[v].expiresAt # t
    BY <1>0, <1>v, <2>1, <2>3
  <2> QED BY <1>s, <2>2, <2>4
<1>9. ASSUME NEW r \in Requests, RedeemCommit(r) PROVE Remembers(q)'
  <2> DEFINE u == request[r].user
             c == request[r].code
  <2>1. /\ u \in Users /\ c \in Codes
        /\ CodeOf[c].kind = "credits" => UNCHANGED <<member, baseline>>
        /\ CodeOf[c].kind # "credits" =>
             /\ \A w \in Users : w # u => member'[w] = member[w] /\ baseline'[w] = baseline[w]
             /\ member'[u] = RedeemedMember(u, CodeOf[c])
    BY <1>0, <1>9, RedeemedRow
  <2>2. rewritten' = rewritten /\ request' = [request EXCEPT ![r] = Idle]
    BY <1>9 DEF RedeemCommit
  <2> HIDE DEF u, c
  <2>3. CASE q = r
    BY <1>0, <1>i, <2>2, <2>3 DEF Idle
  <2>4. CASE q # r
    <3>1. request'[q] = request[q]
      BY <2>2, <2>4
    <3>2. RedeemedMember(u, CodeOf[c]).expiresAt
            = IF CodeOf[c].duration = 0 THEN 0
              ELSE IF member[u].group = CodeOf[c].group /\ member[u].expiresAt > now
              THEN member[u].expiresAt + CodeOf[c].duration ELSE now + CodeOf[c].duration
      BY <1>0, <2>1, RedeemedFields
    <3>3. CodeOf[c].duration \in Nat /\ member[u].expiresAt \in Nat
      BY <1>0, <2>1, OneUser, MembershipAssumption
    <3>4. \/ RedeemedMember(u, CodeOf[c]).expiresAt = 0
          \/ /\ RedeemedMember(u, CodeOf[c]).expiresAt \in Nat
             /\ RedeemedMember(u, CodeOf[c]).expiresAt > now
      BY <1>0, <3>2, <3>3
    <3>5. Expiring(q) => \/ member'[v] = member[v] /\ baseline'[v] = baseline[v]
                         \/ member'[v].expiresAt # t
      BY <1>0, <1>v, <2>1, <3>4
    <3> QED BY <1>s, <2>2, <3>1, <3>5
  <2> QED BY <2>3, <2>4
<1>10. ASSUME NEW r \in Requests, NEW u \in Users, NEW c \in Codes, RedeemRead(r, u, c)
       PROVE  Remembers(q)'
  <2>1. UNCHANGED <<member, baseline, rewritten>>
    BY <1>10 DEF RedeemRead
  <2>2. q # r => request'[q] = request[q]
    BY <1>0, <1>10 DEF RedeemRead
  <2>3. q = r => request'[q].at = "redeem"
    BY <1>0, <1>10 DEF RedeemRead
  <2> QED BY <1>s, <1>i, <2>1, <2>2, <2>3
<1>11. ASSUME NEW r \in Requests, RedeemAbort(r) PROVE Remembers(q)'
  <2>1. UNCHANGED <<member, baseline, rewritten>> /\ request' = [request EXCEPT ![r] = Idle]
    BY <1>11 DEF RedeemAbort
  <2>2. q # r => request'[q] = request[q]
    BY <2>1
  <2>3. q = r => request'[q].at = "idle"
    BY <1>0, <2>1 DEF Idle
  <2> QED BY <1>s, <1>i, <2>1, <2>2, <2>3
<1>12. ASSUME \/ \E c \in Codes : DeleteRedeemCode(c)
              \/ \E o \in Orders, u \in Users, g \in Groups : CreatePaymentOrder(o, u, g)
              \/ \E o \in Orders : ClosePaymentOrder(o)
              \/ Tick
       PROVE  Remembers(q)'
  <2>1. UNCHANGED <<request, member, baseline, rewritten>>
    BY <1>12, Zenon DEF DeleteRedeemCode, CreatePaymentOrder, ClosePaymentOrder, Tick
  <2> QED BY <1>s, <2>1
<1> QED
  BY <1>1, <1>2, <1>3, <1>4, <1>5, <1>6, <1>7, <1>8, <1>9, <1>10, <1>11, <1>12, Zenon DEF Next

\* A step that changes nothing keeps everything.
LEMMA Stutter ==
  ASSUME IInv, UNCHANGED vars
  PROVE  IInv'
BY DEF vars, IInv, TypeOK, OrdersAreOpen, OpenOrder, Exists, Entitled, Remembers, Expiring

\* The invariant holds in every reachable state.
THEOREM Invariant == Spec => []IInv
<1>1. IInv /\ Next => IInv'
  BY StepTypes, OrdersStayOpen, EntitlementsHold, RequestsRemember DEF IInv
<1>2. IInv /\ [Next]_vars => IInv'
  BY <1>1, Stutter
<1> QED BY InitInvariant, <1>2, PTL DEF Spec

-----------------------------------------------------------------------------
(* The properties.                                                         *)

\* Nobody holds for ever a tier that was not given for good, and every order that
\* may still be paid can be delivered (store/users.go:156, payments.go:1991,
\* redeem_codes.go:519, user_groups.go:419): for all but the users whose elapsed expiry
\* an administrator has written again during an expiry.
THEOREM TiersAreEntitled == Spec => []TierIsEntitled
<1>1. IInv => TierIsEntitled
  BY DEF IInv, TierIsEntitled, Entitled, OrdersAreOpen
<1> QED BY Invariant, <1>1, PTL

\* A request that ends a membership ends the one it has read: the comparison of the
\* expiry (store/users.go:186) tells every running one from it.
THEOREM RunningSurvives == Spec => RunningMembershipSurvivesExpiry
<1> DEFINE Kept == \A r \in Requests : request[r].at = "expire_write" /\ request'[r] = Idle =>
                     \A u \in Users : ~Lapsed(u) => member'[u] = member[u]
<1>1. ASSUME IInv, Next PROVE Kept
  <2> SUFFICES ASSUME NEW r \in Requests, request[r].at = "expire_write", request'[r] = Idle,
                      NEW u \in Users, ~Lapsed(u)
               PROVE  member'[u] = member[u]
    OBVIOUS
  <2>0. TypeOK /\ Remembers(r) /\ request \in [Requests -> RequestType]
    BY <1>1 DEF IInv, TypeOK
  <2>1. CASE ExpireWrite(r)
    <3> DEFINE w == request[r].user
    <3>1. /\ \A v \in Users : v # w \/ member[w].expiresAt # request[r].expiresAt
                                => member'[v] = member[v]
          /\ Expiring(r)
      BY <2>0, <2>1, ExpireWriteRow
    <3>2. CASE u = w /\ member[w].expiresAt = request[r].expiresAt
      BY <2>0, <3>1, <3>2 DEF Remembers, Lapsed
    <3> QED BY <3>1, <3>2
  <2>2. CASE ~ExpireWrite(r)
    <3>1. request[r] # Idle
      BY DEF Idle
    <3>2. PICK q \in Requests : /\ \A p \in Requests : p # q => request'[p] = request[p]
                                /\ request[q].at # "expire_write" \/ ExpireWrite(q)
      BY <1>1, <2>0, <3>1, RequestSteps
    <3>3. q # r
      BY <2>2, <3>2
    <3> QED BY <3>1, <3>2, <3>3
  <2> QED BY <2>1, <2>2
<1>2. IInv /\ [Next]_vars => [Kept]_vars
  BY <1>1
<1> QED BY Invariant, <1>2, PTL DEF Spec, RunningMembershipSurvivesExpiry

\* Buying or redeeming the tier one is in never takes time away
\* (store/payments.go:2004-2028, redeem_codes.go:519-562).
THEOREM PaidTimeKept == Spec => PaidTimeIsKept
<1> DEFINE Bought == \E o \in Orders : OpenOrder(o) /\ orders'[o].status = "fulfilled"
           Kept(u) == /\ Bought => EndsNoEarlier(member[u], member'[u])
                      /\ used' # used /\ member[u].expiresAt # 0
                           => EndsNoEarlier(member[u], member'[u])
           AllKept == \A u \in Users : ~Lapsed(u) /\ member'[u].group = member[u].group => Kept(u)
<1>1. ASSUME IInv, Next PROVE AllKept
  <2> SUFFICES ASSUME NEW u \in Users, ~Lapsed(u), member'[u].group = member[u].group
               PROVE  Kept(u)
    BY Zenon
  <2>0. /\ TypeOK /\ member[u].group \in Groups /\ member[u].expiresAt \in Nat
        /\ now \in Nat /\ now > 0
        /\ member[u].expiresAt = 0 \/ member[u].expiresAt > now
    BY <1>1, OneUser DEF IInv, Lapsed
  <2>1. member'[u] = member[u] => EndsNoEarlier(member[u], member'[u])
    BY <2>0 DEF EndsNoEarlier
  <2>2. ASSUME NEW o \in Orders, FulfillPaymentOrder(o) PROVE Kept(u)
    <3> DEFINE w == orders[o].user
               g == orders[o].group
    <3>1. /\ \A v \in Users : v # w => member'[v] = member[v]
          /\ member'[w].group = g /\ member'[w].expiresAt = PurchaseExpiry(w, g)
      BY <2>0, <2>2, PurchasedRow
    <3>2. used' = used
      BY <2>2, Zenon DEF FulfillPaymentOrder
    <3> HIDE DEF w, g
    <3>3. CASE u # w
      BY <2>1, <3>1, <3>2, <3>3
    <3>4. CASE u = w
      <4>1. /\ member[u].expiresAt = 0 => PurchaseExpiry(u, g) = 0
            /\ member[u].expiresAt # 0 => PurchaseExpiry(u, g) = member[u].expiresAt + BillingCycle
        BY <3>1, <3>4, RunningPurchase
      <4>2. EndsNoEarlier(member[u], member'[u])
        BY <2>0, <3>1, <3>4, <4>1, MembershipAssumption DEF EndsNoEarlier
      <4> QED BY <3>2, <4>2
    <3> QED BY <3>3, <3>4
  <2>3. ASSUME NEW r \in Requests, RedeemCommit(r) PROVE Kept(u)
    <3> DEFINE w == request[r].user
               c == request[r].code
    <3>1. /\ w \in Users /\ c \in Codes
          /\ CodeOf[c].kind = "credits" => UNCHANGED <<member, baseline>>
          /\ CodeOf[c].kind # "credits" =>
               /\ \A v \in Users : v # w => member'[v] = member[v]
               /\ member'[w] = RedeemedMember(w, CodeOf[c])
      BY <2>0, <2>3, RedeemedRow
    <3>2. orders' = orders
      BY <2>3 DEF RedeemCommit
    <3>3. ~Bought
      BY <3>2 DEF OpenOrder
    <3> HIDE DEF w, c, Bought
    <3>4. CASE u # w \/ CodeOf[c].kind = "credits"
      BY <2>1, <3>1, <3>3, <3>4
    <3>5. CASE u = w /\ CodeOf[c].kind # "credits"
      <4>1. /\ member'[u].group = CodeOf[c].group
            /\ member'[u].expiresAt
                 = IF CodeOf[c].duration = 0 THEN 0
                   ELSE IF member[u].group = CodeOf[c].group /\ member[u].expiresAt > now
                   THEN member[u].expiresAt + CodeOf[c].duration ELSE now + CodeOf[c].duration
        BY <2>0, <3>1, <3>5, RedeemedFields
      <4>2. CodeOf[c].duration \in Nat
        BY <3>1, MembershipAssumption
      <4>5. member[u].group = CodeOf[c].group
        BY <4>1
      <4>3. member[u].expiresAt # 0
              => member'[u].expiresAt = 0 \/ member'[u].expiresAt >= member[u].expiresAt
        BY <2>0, <4>1, <4>2, <4>5
      <4>4. member[u].expiresAt # 0 => EndsNoEarlier(member[u], member'[u])
        BY <4>3, Zenon DEF EndsNoEarlier
      <4> QED BY <3>3, <4>4
    <3> QED BY <3>4, <3>5
  <2>4. ASSUME ~(\E o \in Orders : FulfillPaymentOrder(o)), ~(\E r \in Requests : RedeemCommit(r))
        PROVE  Kept(u)
    <3>1. used' = used
      BY <1>1, <2>4, Zenon DEF Next, ExpireRead, ExpireCheck, ExpireWrite, ExpireDueUserGroups,
        SetUserGroupCheck, SetUserGroupWrite, DeleteUserGroup, DeleteRedeemCode,
        CreatePaymentOrder, ClosePaymentOrder, RedeemRead, RedeemAbort, Tick
    <3>2. ASSUME NEW o \in Orders, ClosePaymentOrder(o) PROVE ~Bought
      <4>1. OpenOrder(o) /\ orders \in [Orders -> Order \cup {NoOrder}]
        BY <2>0, <3>2, Zenon DEF ClosePaymentOrder, TypeOK
      <4>2. orders[o] \in Order
        BY <4>1 DEF OpenOrder, NoOrder
      <4> DEFINE x == [orders[o] EXCEPT !.status = "closed"]
      <4>3. orders' = [orders EXCEPT ![o] = x]
        BY <3>2, Zenon DEF ClosePaymentOrder
      <4>4. x.status = "closed"
        BY <4>2, OrderMoves
      <4> HIDE DEF x
      <4> QED BY <4>1, <4>3, <4>4 DEF OpenOrder
    <3>3. ASSUME NEW o \in Orders, NEW v \in Users, NEW g \in Groups, CreatePaymentOrder(o, v, g)
          PROVE  ~Bought
      <4>1. orders \in [Orders -> Order \cup {NoOrder}]
        BY <2>0 DEF TypeOK
      <4> QED BY <3>3, <4>1 DEF CreatePaymentOrder, OpenOrder
    <3>4. ASSUME ~(\E o \in Orders : ClosePaymentOrder(o)),
                 ~(\E o \in Orders, v \in Users, g \in Groups : CreatePaymentOrder(o, v, g))
          PROVE  ~Bought
      <4>1. orders' = orders
        BY <1>1, <2>4, <3>4, Zenon DEF Next, ExpireRead, ExpireCheck, ExpireWrite,
          ExpireDueUserGroups, SetUserGroupCheck, SetUserGroupWrite, DeleteUserGroup,
          DeleteRedeemCode, RedeemRead, RedeemAbort, Tick
      <4> QED BY <4>1 DEF OpenOrder
    <3> QED BY <3>1, <3>2, <3>3, <3>4
  <2> QED BY <2>2, <2>3, <2>4
<1>2. IInv /\ [Next]_vars => [AllKept]_vars
  BY <1>1
<1> QED BY Invariant, <1>2, PTL DEF Spec, PaidTimeIsKept
=============================================================================
