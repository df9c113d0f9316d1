--------------------------- MODULE PaymentOrders ---------------------------
(***************************************************************************)
(* One payment order from its checkout to its delivery: the buyer's        *)
(* requests to start and to resume it, the administrator's requests to     *)
(* reconcile, close and delete it, and the callbacks of the gateway, which *)
(* come late, twice, in any order and at any step of a request. A request  *)
(* reads the order, talks to the gateway and writes the order in separate  *)
(* steps and may end at any of them.                                       *)
(*                                                                         *)
(* Orders share nothing that these operations write, so one is enough. The *)
(* gateways are modelled from what the reconcilers and the webhook parsers *)
(* distinguish. Amounts, currencies and identities always match.           *)
(***************************************************************************)
EXTENDS Naturals

CONSTANTS
  Requests,    \* the requests of the buyer and of administrators
  Providers    \* the gateways the order may be made for

ASSUME ProviderAssumption == Providers \subseteq {"stripe", "waffo", "epay"}

VARIABLES
  provider,    \* payment_orders.provider
  status,      \* payment_orders.status, "none" before and "deleted" after
  code,        \* payment_orders.failure_code, where it matters
  known,       \* the session of the gateway is on the order
  attempt,     \* the merchant reference of an EPay order
  events,      \* payment_events
  gateway,     \* the session at the gateway
  late,        \* the time of the session is up
  link,        \* the buyer has been given the link or the form
  sent,        \* the callbacks the gateway makes until they are acknowledged
  acked,
  request,     \* what each request knows and how far it is
  delivered    \* how often the entitlement was granted

orderVars == <<status, code, known, attempt, events, delivered>>
gatewayVars == <<gateway, late, link, sent>>
vars == <<provider, orderVars, gatewayVars, acked, request>>

Hosted == provider \in {"stripe", "waffo"}
Mutable == status \in {"pending", "processing"}

\* The ids of the events: of a callback, and of a reconciliation that saw the same.
Callbacks == {"paid", "processing", "failed", "expired"}
Reconciled == {"seen paid", "seen processing", "seen expired"}
PaidEvents == {"paid", "seen paid"}

NoRequest == [kind |-> "none", at |-> "idle", event |-> "none"]
Over(r) == [request EXCEPT ![r] = [@ EXCEPT !.at = "over", !.event = "none"]]
At(r, kind, at) == request[r].kind = kind /\ request[r].at = at
Goto(r, at) == [request EXCEPT ![r].at = at]

Init ==
  /\ provider \in Providers /\ status = "none" /\ code = "" /\ known = FALSE
  /\ attempt = "none" /\ events = {} /\ delivered = 0
  /\ gateway = "none" /\ late = FALSE /\ link = FALSE /\ sent = {} /\ acked = {}
  /\ request = [r \in Requests |-> NoRequest]

-----------------------------------------------------------------------------
(* The writes of the store. Each is one statement or one transaction.      *)

\* The order can still be paid, as far as this side knows.
MayStillFulfill == Mutable \/ (status = "cancelled" /\ code = "admin_manual_close")

\* MarkPaymentOrderCheckoutStarted, with or without the session.
MarkStarted(session) ==
  /\ status' = IF Mutable THEN "processing" ELSE status
  /\ known' = IF Mutable THEN known \/ session ELSE known
  /\ UNCHANGED <<code, attempt, events, delivered>>

\* Mutant: the status is not part of the condition.
MarkClosedAnyway(to) ==
  /\ status' = to
  /\ UNCHANGED <<code, known, attempt, events, delivered>>

\* MarkPaymentOrderFailed, MarkPaymentOrderExpired
MarkClosed(to) ==
  /\ status' = IF Mutable THEN to ELSE status
  /\ UNCHANGED <<code, known, attempt, events, delivered>>

\* Mutant: the event is recorded before the transaction that delivers.
FulfillAfterRecording(e) ==
  /\ status # "deleted"
  /\ attempt' = IF attempt = "issued" THEN "paid" ELSE attempt
  /\ events' = events \cup {e}
  /\ IF e \notin events /\ MayStillFulfill
     THEN status' = "fulfilled" /\ code' = "" /\ known' = TRUE /\ delivered' = delivered + 1
     ELSE UNCHANGED <<status, code, known, delivered>>

\* FulfillPaymentOrder commits: an event that is known changes nothing more, one
\* for a fulfilled order is recorded, and one for an order that may be fulfilled
\* delivers. In every other state the transaction is rolled back.
FulfillPaymentOrder(e) ==
  /\ status # "deleted"
  /\ e \in events \/ status = "fulfilled" \/ MayStillFulfill
  /\ attempt' = IF attempt = "issued" THEN "paid" ELSE attempt
  /\ IF e \in events THEN UNCHANGED <<status, code, known, events, delivered>>
     ELSE /\ events' = events \cup {e}
          /\ IF status = "fulfilled" THEN UNCHANGED <<status, code, known, delivered>>
             ELSE status' = "fulfilled" /\ code' = "" /\ known' = TRUE /\ delivered' = delivered + 1

\* The part of applyProviderEvent that follows RecordPaymentEvent. What it read
\* before may be stale, but every write has the status in its condition.
ApplyUnpaid(e, session) ==
  CASE e \in {"processing", "seen processing"} -> MarkStarted(session)
    [] e = "failed" -> MarkClosed("failed")
    [] e \in {"expired", "seen expired"} -> MarkClosed("expired")

-----------------------------------------------------------------------------
(* The gateway.                                                            *)

\* The buyer pays. An asynchronous method completes the session and settles later.
Pay ==
  /\ link /\ gateway = "open" /\ (Hosted => ~late)
  /\ \/ gateway' = "paid" /\ sent' = sent \cup {"paid"}
     \/ provider = "stripe" /\ gateway' = "pending" /\ sent' = sent \cup {"processing"}
  /\ UNCHANGED <<provider, orderVars, late, link, acked, request>>

Settle ==
  /\ gateway = "pending"
  /\ \/ gateway' = "paid" /\ sent' = sent \cup {"paid"}
     \/ gateway' = "failed" /\ sent' = sent \cup {"failed"}
  /\ UNCHANGED <<provider, orderVars, late, link, acked, request>>

\* The time of a hosted session passes; it is closed some time after.
TimeUp ==
  /\ Hosted /\ gateway # "none" /\ ~late /\ late' = TRUE
  /\ UNCHANGED <<provider, orderVars, gateway, link, sent, acked, request>>

SessionExpires ==
  /\ late /\ gateway = "open" /\ gateway' = "expired"
  /\ sent' = IF provider = "stripe" THEN sent \cup {"expired"} ELSE sent
  /\ UNCHANGED <<provider, orderVars, late, link, acked, request>>

-----------------------------------------------------------------------------
(* paymentWebhookHandler. A callback is made at least once, and again until *)
(* it has been acknowledged or for no reason at all.                       *)

CallbackPaid ==
  /\ "paid" \in sent
  /\ FulfillPaymentOrder("paid")
  /\ acked' = acked \cup {"paid"}
  /\ UNCHANGED <<provider, gatewayVars, request>>

\* Another event is recorded first.
CallbackRecorded(e) ==
  /\ e \in sent \ {"paid"} /\ status # "deleted"
  /\ events' = events \cup {e}
  /\ UNCHANGED <<provider, status, code, known, attempt, delivered, gatewayVars, acked, request>>

CallbackApplied(e) ==
  /\ e \in sent \ {"paid"} /\ e \in events
  /\ ApplyUnpaid(e, TRUE)
  /\ acked' = acked \cup {e}
  /\ UNCHANGED <<provider, gatewayVars, request>>

-----------------------------------------------------------------------------
(* createPaymentCheckoutHandler                                            *)

CreatePaymentOrder(r) ==
  /\ request[r] = NoRequest /\ status = "none"
  /\ status' = "pending"
  /\ request' = [request EXCEPT ![r] = [kind |-> "checkout", at |-> "created", event |-> "none"]]
  /\ UNCHANGED <<provider, code, known, attempt, events, delivered, gatewayVars, acked>>

\* The channel is unavailable or its configuration invalid.
ChannelUnavailable(r) ==
  /\ At(r, "checkout", "created")
  /\ MarkClosed("failed")
  /\ request' = Over(r)
  /\ UNCHANGED <<provider, gatewayVars, acked>>

\* CreatePaymentOrderAttempt: an EPay order gets its merchant reference once, as
\* long as it is open, and no other one ever.
CreatePaymentOrderAttempt(r, to) ==
  /\ provider = "epay"
  /\ IF Mutable /\ attempt # "paid"
     THEN attempt' = "issued" /\ request' = Goto(r, to)
     ELSE attempt' = attempt /\ request' = Over(r)
  /\ UNCHANGED <<provider, status, code, known, events, delivered, gatewayVars, acked>>

CheckoutAttempt(r) == At(r, "checkout", "created") /\ CreatePaymentOrderAttempt(r, "attempted")

\* The gateway is asked for a session and answers, refuses, or the answer is lost.
\* The form of EPay is made without asking.
AskForSession(r) ==
  /\ request[r].kind = "checkout" /\ request[r].at = IF Hosted THEN "created" ELSE "attempted"
  /\ \E answer \in {"ok", "refused", "unknown"} :
       /\ answer = "unknown" => Hosted
       /\ gateway' \in IF answer = "ok" /\ Hosted THEN {"open"}
                       ELSE IF answer = "unknown" THEN {"open", "none"} ELSE {gateway}
       /\ request' = Goto(r, answer)
  /\ UNCHANGED <<provider, orderVars, late, link, sent, acked>>

\* The link is handed out when the order has the session, or was fulfilled first.
CheckoutAnswered(r) ==
  /\ At(r, "checkout", "ok")
  /\ MarkStarted(Hosted)
  /\ link' = (link \/ Mutable \/ status = "fulfilled")
  /\ gateway' = IF ~Hosted /\ Mutable /\ gateway = "none" THEN "open" ELSE gateway
  /\ request' = Over(r)
  /\ UNCHANGED <<provider, late, sent, acked>>

CheckoutRefused(r) ==
  /\ At(r, "checkout", "refused")
  /\ MarkClosed("failed")
  /\ request' = Over(r)
  /\ UNCHANGED <<provider, gatewayVars, acked>>

\* The order stays open to be reconciled.
CheckoutUnknown(r) ==
  /\ At(r, "checkout", "unknown")
  /\ MarkStarted(FALSE)
  /\ request' = Over(r)
  /\ UNCHANGED <<provider, gatewayVars, acked>>

\* Any request may end where it is: a crash, a timeout or a failing database.
RequestDies(r) ==
  /\ request[r].at \notin {"idle", "over"}
  /\ request' = Over(r)
  /\ UNCHANGED <<provider, orderVars, gatewayVars, acked>>

-----------------------------------------------------------------------------
(* resumePaymentOrderHandler and reconcilePaymentOrderAdmin                *)

\* Both look at the status first.
Begin(r, kind) ==
  /\ request[r] = NoRequest /\ Mutable
  /\ request' = [request EXCEPT ![r] = [kind |-> kind, at |-> "read", event |-> "none"]]
  /\ UNCHANGED <<provider, orderVars, gatewayVars, acked>>

ResumeAttempt(r) == At(r, "resume", "read") /\ CreatePaymentOrderAttempt(r, "link")

Sees(r, event) ==
  request' = [request EXCEPT ![r] = [@ EXCEPT !.at = "sees", !.event = event]]

\* Mutant: a session that is complete is closed like an open one.
StripeClosesAnything(r) ==
  /\ gateway # "none"
  /\ IF request[r].kind = "close" /\ gateway # "paid"
     THEN /\ gateway' = IF gateway = "open" THEN "expired" ELSE gateway
          /\ sent' = IF gateway = "open" THEN sent \cup {"expired"} ELSE sent
          /\ Sees(r, "seen expired")
     ELSE /\ UNCHANGED <<gateway, sent>>
          /\ Sees(r, CASE gateway = "paid" -> "seen paid"
                       [] gateway = "expired" -> "seen expired"
                       [] OTHER -> "seen processing")

\* StripeReconciler: the session is retrieved, or searched for and found, and an
\* administrator who closes has an open one expired. One that is complete and not
\* paid cannot be closed: the request ends in an error, which is RequestDies.
StripeReconcile(r) ==
  /\ gateway # "none"
  /\ IF request[r].kind = "close" /\ gateway # "paid"
     THEN /\ gateway \in {"open", "expired"} /\ gateway' = "expired"
          /\ sent' = IF gateway = "open" THEN sent \cup {"expired"} ELSE sent
          /\ Sees(r, "seen expired")
     ELSE /\ UNCHANGED <<gateway, sent>>
          /\ Sees(r, CASE gateway = "paid" -> "seen paid"
                       [] gateway = "expired" -> "seen expired"
                       [] OTHER -> "seen processing")

\* WaffoReconciler queries payments and orders. A payment decides, a cancelled
\* order is closed, a pending order is closed on demand, and without an order the
\* clock decides in a step of its own.
WaffoReconcile(r) ==
  \/ gateway = "paid" /\ Sees(r, "seen paid") /\ UNCHANGED <<gateway, sent>>
  \/ gateway = "expired" /\ Sees(r, "seen expired") /\ UNCHANGED <<gateway, sent>>
  \/ /\ gateway = "open" /\ UNCHANGED sent
     /\ IF request[r].kind = "close" THEN gateway' = "expired" /\ Sees(r, "seen expired")
        ELSE gateway' = gateway /\ Sees(r, "seen processing")
  \/ gateway \notin {"paid", "pending"} /\ request' = Goto(r, "no order") /\ UNCHANGED <<gateway, sent>>

Reconcile(r) ==
  /\ Hosted /\ request[r].kind \in {"resume", "reconcile", "close"} /\ request[r].at = "read"
  /\ IF provider = "stripe" THEN StripeReconcile(r) ELSE WaffoReconcile(r)
  /\ UNCHANGED <<provider, orderVars, late, link, acked>>

\* The session's own expiry, which the order knows when it knows the session. An
\* administrator cannot close before it.
WaffoClock(r) ==
  /\ request[r].at = "no order"
  /\ \/ known /\ late /\ Sees(r, "seen expired")
     \/ ~(known /\ late) /\ request[r].kind # "close" /\ Sees(r, "seen processing")
  /\ UNCHANGED <<provider, orderVars, gatewayVars, acked>>

\* What is left for the request when the event has been applied.
After(r) == IF request[r].kind = "resume" /\ status' \in {"pending", "processing"} THEN Goto(r, "resuming")
            ELSE Over(r)

\* The request applies what the reconciliation saw, as the callback would.
ReconcilePaid(r) ==
  /\ request[r].at = "sees" /\ request[r].event = "seen paid"
  /\ FulfillPaymentOrder("seen paid")
  /\ request' = Over(r)
  /\ UNCHANGED <<provider, gatewayVars, acked>>

\* A close that found the order expired is noted on it.
ReconcileApplied(r) ==
  /\ request[r].at = "sees" /\ request[r].event \in Reconciled \ {"seen paid"} /\ status # "deleted"
  /\ events' = events \cup {request[r].event}
  /\ status' = IF ~Mutable THEN status
               ELSE IF request[r].event = "seen expired" THEN "expired" ELSE "processing"
  /\ known' = IF Mutable /\ provider = "stripe" THEN TRUE ELSE known
  /\ code' = IF request[r].kind = "close" /\ status' = "expired" THEN "admin_reconciled_close" ELSE code
  /\ request' = After(r)
  /\ UNCHANGED <<provider, attempt, delivered, gatewayVars, acked>>

\* ResumeCheckout: a session whose time is up is expired, whatever its state at
\* the gateway; one that is not open cannot be resumed (RequestDies).
ResumeExpired(r) ==
  /\ At(r, "resume", "resuming") /\ known
  /\ late \/ (provider = "stripe" /\ gateway = "expired")
  /\ MarkClosed("expired")
  /\ request' = Over(r)
  /\ UNCHANGED <<provider, gatewayVars, acked>>

ResumeCheckout(r) ==
  /\ At(r, "resume", "resuming") /\ known /\ ~late
  /\ provider = "stripe" => gateway = "open"
  /\ request' = Goto(r, "link")
  /\ UNCHANGED <<provider, orderVars, gatewayVars, acked>>

\* The link is handed out only while the order is open.
ResumeAnswered(r) ==
  /\ At(r, "resume", "link")
  /\ MarkStarted(Hosted)
  /\ link' = (link \/ Mutable)
  /\ gateway' = IF ~Hosted /\ Mutable /\ gateway = "none" THEN "open" ELSE gateway
  /\ request' = Over(r)
  /\ UNCHANGED <<provider, late, sent, acked>>

\* CancelPaymentOrderByAdmin: EPay has nothing to ask, so the close is local.
ManualClose(r) ==
  /\ At(r, "close", "read") /\ provider = "epay"
  /\ status' = IF Mutable THEN "cancelled" ELSE status
  /\ code' = IF Mutable THEN "admin_manual_close" ELSE code
  /\ request' = Over(r)
  /\ UNCHANGED <<provider, known, attempt, events, delivered, gatewayVars, acked>>

\* Mutant: a manual close needs no confirmation.
DeleteUnconfirmed(confirmed) ==
  /\ status \in {"fulfilled", "failed", "expired", "cancelled"}
  /\ status' = "deleted" /\ attempt' = "none" /\ events' = {}
  /\ code' = IF confirmed THEN "confirmed" ELSE ""
  /\ UNCHANGED <<provider, known, delivered, gatewayVars, acked, request>>

\* DeletePaymentOrder, with its attempts and events. For a manual close the
\* administrator confirms that the gateway is done with it.
DeletePaymentOrder(confirmed) ==
  /\ status \in {"fulfilled", "failed", "expired", "cancelled"}
  /\ status = "cancelled" /\ code = "admin_manual_close" => confirmed
  /\ status' = "deleted" /\ attempt' = "none" /\ events' = {}
  /\ code' = IF confirmed THEN "confirmed" ELSE ""
  /\ UNCHANGED <<provider, known, delivered, gatewayVars, acked, request>>

-----------------------------------------------------------------------------
Checkout(r) ==
  \/ CreatePaymentOrder(r) \/ ChannelUnavailable(r) \/ CheckoutAttempt(r) \/ AskForSession(r)
  \/ CheckoutAnswered(r) \/ CheckoutRefused(r) \/ CheckoutUnknown(r)

Resume(r) == ResumeAttempt(r) \/ ResumeExpired(r) \/ ResumeCheckout(r) \/ ResumeAnswered(r)

Inquiry(r) ==
  \/ \E kind \in {"resume", "reconcile", "close"} : Begin(r, kind)
  \/ Reconcile(r) \/ WaffoClock(r) \/ ReconcilePaid(r) \/ ReconcileApplied(r) \/ ManualClose(r)

Next ==
  \/ \E r \in Requests : Checkout(r) \/ Resume(r) \/ Inquiry(r) \/ RequestDies(r)
  \/ \E e \in Callbacks : CallbackRecorded(e) \/ CallbackApplied(e)
  \/ CallbackPaid \/ Pay \/ Settle \/ TimeUp \/ SessionExpires
  \/ \E confirmed \in BOOLEAN : DeletePaymentOrder(confirmed)

\* A callback is repeated until it has been acknowledged: when applying one fails
\* the handler answers with an error.
Fairness == WF_vars(CallbackPaid /\ "paid" \notin acked)

Spec == Init /\ [][Next]_vars /\ Fairness
-----------------------------------------------------------------------------
(* Properties.                                                             *)

\* What a request knows, and how far it can be.
RequestType ==
  [kind : {"none", "checkout", "resume", "reconcile", "close"},
   at : {"idle", "created", "attempted", "ok", "refused", "unknown", "read", "no order",
         "sees", "resuming", "link", "over"},
   event : Reconciled \cup {"none"}]

TypeOK ==
  /\ provider \in Providers /\ known \in BOOLEAN /\ late \in BOOLEAN /\ link \in BOOLEAN
  /\ status \in {"none", "pending", "processing", "fulfilled", "failed", "expired", "cancelled", "deleted"}
  /\ code \in {"", "admin_manual_close", "admin_reconciled_close", "confirmed"}
  /\ attempt \in {"none", "issued", "paid"}
  /\ events \subseteq Callbacks \cup Reconciled
  /\ gateway \in {"none", "open", "pending", "paid", "failed", "expired"}
  /\ sent \subseteq Callbacks /\ acked \subseteq sent
  /\ request \in [Requests -> RequestType]
  /\ delivered \in Nat

\* The duplicate of a paid event is acknowledged without a look at the order, so
\* the event may be on record only when its order has been delivered; and nothing
\* is delivered unless the gateway has the money.
RecordedMeansDelivered ==
  /\ TypeOK
  /\ events \cap PaidEvents # {} => status = "fulfilled" /\ delivered = 1
  /\ delivered > 0 => gateway = "paid"

\* An order an administrator has closed with Stripe can never be charged.
ClosedWithGateway ==
  provider = "stripe" /\ code = "admin_reconciled_close" => gateway = "expired"

\* An EPay charge is delivered in the end, whatever the administrator closed or
\* deleted in between, unless he confirmed that the gateway was done or a checkout
\* request that a resume had overtaken failed the order.
EPayChargeIsDelivered ==
  (provider = "epay" /\ gateway = "paid" /\ status \notin {"failed", "deleted"})
    ~> (delivered = 1 \/ code = "confirmed" \/ status = "failed")

\* The state of the order as OrderPromise sees it: parked is closed on this side only.
OrderState ==
  CASE Mutable -> "open"
    [] status = "none" -> "none"
    [] status = "fulfilled" -> "delivered"
    [] status = "deleted" -> "gone"
    [] MayStillFulfill /\ ~Mutable -> "parked"
    [] OTHER -> "closed"

Promise == INSTANCE OrderPromise WITH state <- OrderState

\* The order keeps the promise of OrderPromise: what was bought is delivered once
\* at most, however many callbacks and reconciliations report the payment, and no
\* request or callback reopens, closes or delivers an order that is over.
KeepsOrderPromise == Promise!Spec

\* The comment on paymentOrderMayStillFulfillSQL: it covers every order that can
\* still produce a verified payment, and so one whose payment is being settled.
AwaitedPaymentIsDeliverable ==
  gateway = "pending" => MayStillFulfill \/ status = "deleted"
=============================================================================
