------------------------- MODULE PaymentOrdersProofs -------------------------
(***************************************************************************)
(* What a payment order guarantees, for any number of requests and any     *)
(* gateways: it is on record as paid only when it was delivered, once and  *)
(* for money the gateway has; an order that was closed with Stripe cannot  *)
(* be charged; and it implements OrderPromise.                             *)
(***************************************************************************)
EXTENDS PaymentOrders, TLAPS

\* Before the order exists nobody has asked for anything.
NothingBefore ==
  status = "none" => gateway = "none" /\ \A r \in Requests : request[r] = NoRequest

\* One request creates the order, and until it has asked the gateway, there is
\* nothing there that asking could overwrite.
OneCheckout ==
  /\ \A r, s \in Requests : request[r].kind = "checkout" /\ request[s].kind = "checkout" => r = s
  /\ \A r \in Requests : At(r, "checkout", "created") /\ Hosted => gateway = "none"

\* What was delivered was delivered once and is paid, and the order says so.
DeliveredOnce ==
  /\ delivered > 0 => delivered = 1 /\ gateway = "paid" /\ status \in {"fulfilled", "deleted"}
  /\ status = "fulfilled" => delivered = 1
  /\ events \cap PaidEvents # {} => status = "fulfilled"

\* A payment that is reported, by a callback or to a request, has been made.
ReportsAreTrue ==
  /\ "paid" \in sent => gateway = "paid"
  /\ \A r \in Requests : request[r].at = "sees" /\ request[r].event = "seen paid" => gateway = "paid"

\* What a request was told about a session of Stripe that is over stays true; one
\* that is to close the order was told that it is.
SeenExpired ==
  \A r \in Requests : provider = "stripe" =>
    /\ request[r].at # "no order"
    /\ /\ request[r].at = "sees" /\ request[r].event # "seen paid"
       /\ request[r].event = "seen expired" \/ request[r].kind = "close"
       => gateway = "expired"

\* The inductive invariant.
IInv ==
  /\ TypeOK /\ NothingBefore /\ OneCheckout /\ DeliveredOnce /\ ReportsAreTrue
  /\ SeenExpired /\ ClosedWithGateway

\* Init establishes the invariant.
LEMMA InitInv == Init => IInv
  <1> SUFFICES ASSUME Init PROVE IInv
    OBVIOUS
  <1> USE DEF Init, NoRequest
  <1>1. NoRequest \in RequestType
    BY DEF RequestType
  <1>2. TypeOK
    BY <1>1 DEF TypeOK
  <1>3. NothingBefore /\ OneCheckout
    BY DEF NothingBefore, OneCheckout, At
  <1>4. DeliveredOnce
    <2>1. events = {} /\ delivered = 0 /\ status = "none"
      OBVIOUS
    <2>2. events \cap PaidEvents = {}
      BY <2>1
    <2> HIDE DEF Init
    <2> QED
      BY <2>1, <2>2 DEF DeliveredOnce
  <1>5. ReportsAreTrue /\ SeenExpired /\ ClosedWithGateway
    BY DEF ReportsAreTrue, SeenExpired, ClosedWithGateway
  <1> QED
    BY <1>2, <1>3, <1>4, <1>5 DEF IInv

\* A request that moves on remains one.
LEMMA RequestMoves ==
  ASSUME TypeOK, NEW r \in Requests
  PROVE  /\ Over(r) \in [Requests -> RequestType]
         /\ \A at \in {"attempted", "ok", "refused", "unknown", "no order", "resuming", "link"} :
              Goto(r, at) \in [Requests -> RequestType]
         /\ \A e \in Reconciled : Sees(r, e) => request' \in [Requests -> RequestType]
  <1>1. request \in [Requests -> RequestType]
    BY DEF TypeOK
  <1>2. request[r] \in RequestType
    BY <1>1
  <1>3. ASSUME NEW at \in {"attempted", "ok", "refused", "unknown", "no order", "resuming", "link", "sees", "over"},
               NEW e \in Reconciled \cup {"none"}
        PROVE  /\ [request[r] EXCEPT !.at = at] \in RequestType
               /\ [request[r] EXCEPT !.at = at, !.event = e] \in RequestType
    BY <1>2 DEF RequestType
  <1>4. Over(r) \in [Requests -> RequestType]
    BY <1>1, <1>3 DEF Over
  <1>5. ASSUME NEW at \in {"attempted", "ok", "refused", "unknown", "no order", "resuming", "link"}
        PROVE  Goto(r, at) \in [Requests -> RequestType]
    <2>1. [request[r] EXCEPT !.at = at] \in RequestType
      BY <1>3
    <2> QED
      BY <1>1, <2>1 DEF Goto
  <1>6. ASSUME NEW e \in Reconciled, Sees(r, e) PROVE request' \in [Requests -> RequestType]
    <2>1. [request[r] EXCEPT !.at = "sees", !.event = e] \in RequestType
      BY <1>3
    <2> QED
      BY <1>1, <1>6, <2>1 DEF Sees
  <1> QED
    BY <1>4, <1>5, <1>6

\* A request r has moved on to at with what it knows, and no other request has.
Moved(r, at, event) ==
  /\ request'[r].kind = request[r].kind /\ request'[r].at = at /\ request'[r].event = event
  /\ \A s \in Requests \ {r} : request'[s] = request[s]

\* What Over, Goto and Sees do.
LEMMA RequestAfter ==
  ASSUME TypeOK, NEW r \in Requests
  PROVE  /\ request' = Over(r) => Moved(r, "over", "none")
         /\ \A at : request' = Goto(r, at) => Moved(r, at, request[r].event)
         /\ \A event : Sees(r, event) => Moved(r, "sees", event)
  <1>1. /\ request \in [Requests -> RequestType] /\ request[r] \in RequestType
    BY DEF TypeOK
  <1>2. ASSUME NEW at, NEW event
        PROVE  /\ [request[r] EXCEPT !.at = at].kind = request[r].kind
               /\ [request[r] EXCEPT !.at = at].at = at
               /\ [request[r] EXCEPT !.at = at].event = request[r].event
               /\ [request[r] EXCEPT !.at = at, !.event = event].kind = request[r].kind
               /\ [request[r] EXCEPT !.at = at, !.event = event].at = at
               /\ [request[r] EXCEPT !.at = at, !.event = event].event = event
    BY <1>1 DEF RequestType
  <1>3. ASSUME request' = Over(r) PROVE Moved(r, "over", "none")
    BY <1>1, <1>2, <1>3 DEF Over, Moved
  <1>4. ASSUME NEW at, request' = Goto(r, at) PROVE Moved(r, at, request[r].event)
    BY <1>1, <1>2, <1>4 DEF Goto, Moved
  <1>5. ASSUME NEW event, Sees(r, event) PROVE Moved(r, "sees", event)
    BY <1>1, <1>2, <1>5 DEF Sees, Moved
  <1> QED
    BY <1>3, <1>4, <1>5

\* A request that has begun has an order.
LEMMA OrderExists ==
  ASSUME IInv, NEW r \in Requests, request[r].at # "idle" \/ request[r].kind # "none"
  PROVE  status # "none"
  BY DEF IInv, NothingBefore, NoRequest

\* The delivery of an order keeps the types of what it writes.
LEMMA FulfillType ==
  ASSUME TypeOK, NEW e \in PaidEvents, FulfillPaymentOrder(e)
  PROVE  /\ status' \in {status, "fulfilled"} /\ code' \in {code, ""} /\ attempt' \in {attempt, "paid"}
         /\ known' \in BOOLEAN /\ delivered' \in Nat
         /\ (events \subseteq Callbacks \cup Reconciled)'
  <1> USE DEF FulfillPaymentOrder
  <1>1. e \in Callbacks \cup Reconciled
    BY DEF PaidEvents, Callbacks, Reconciled
  <1>2. CASE e \in events
    BY <1>2 DEF TypeOK
  <1>3. CASE e \notin events /\ status = "fulfilled"
    BY <1>1, <1>3 DEF TypeOK
  <1>4. CASE e \notin events /\ status # "fulfilled"
    <2>1. /\ events' = events \cup {e} /\ attempt' \in {attempt, "paid"}
          /\ status' = "fulfilled" /\ code' = "" /\ known' = TRUE /\ delivered' = delivered + 1
      BY <1>4
    <2>2. events \subseteq Callbacks \cup Reconciled /\ delivered \in Nat
      BY DEF TypeOK
    <2> HIDE DEF FulfillPaymentOrder
    <2>3. (events \subseteq Callbacks \cup Reconciled)'
      <3>1. events' \subseteq Callbacks \cup Reconciled
        BY <1>1, <2>1, <2>2, Zenon
      <3> QED
        BY <3>1 DEF Callbacks, Reconciled
    <2>4. known' \in BOOLEAN
      BY <2>1
    <2>5. delivered' = delivered + 1
      BY <2>1
    <2>6. delivered' \in Nat
      BY <2>2, <2>5
    <2> QED
      BY <2>1, <2>3, <2>4, <2>6, Zenon
  <1> QED
    BY <1>2, <1>3, <1>4

\* What a callback reports, apart from a payment, starts or closes the order.
LEMMA AppliedIsMarked ==
  ASSUME TypeOK, NEW e \in sent \ {"paid"}, NEW session, ApplyUnpaid(e, session)
  PROVE  \E to \in {"failed", "expired"} : MarkStarted(session) \/ MarkClosed(to)
  BY DEF ApplyUnpaid, TypeOK, Callbacks

\* Every step preserves the types.
LEMMA StepType == TypeOK /\ [Next]_vars => TypeOK'
  <1> SUFFICES ASSUME TypeOK, [Next]_vars PROVE TypeOK'
    OBVIOUS
  <1> USE DEF TypeOK, orderVars, gatewayVars, At, MarkStarted, MarkClosed, Mutable, Callbacks,
              Reconciled
  <1>1. ASSUME NEW r \in Requests, Checkout(r) PROVE TypeOK'
    <2>1. CASE CreatePaymentOrder(r)
      BY <2>1 DEF CreatePaymentOrder, RequestType
    <2>2. CASE ChannelUnavailable(r)
      BY <2>2, RequestMoves DEF ChannelUnavailable
    <2>3. CASE CheckoutAttempt(r)
      <3>1. request' \in [Requests -> RequestType]
        BY <2>3, RequestMoves DEF CheckoutAttempt, CreatePaymentOrderAttempt
      <3> QED
        BY <2>3, <3>1, ZenonT(60) DEF CheckoutAttempt, CreatePaymentOrderAttempt
    <2>4. CASE AskForSession(r)
      <3>1. request' \in [Requests -> RequestType]
        BY <2>4, RequestMoves DEF AskForSession
      <3> QED
        BY <2>4, <3>1, ZenonT(60) DEF AskForSession
    <2>5. CASE CheckoutAnswered(r)
      BY <2>5, RequestMoves DEF CheckoutAnswered, Hosted
    <2>6. CASE CheckoutRefused(r)
      BY <2>6, RequestMoves DEF CheckoutRefused
    <2>7. CASE CheckoutUnknown(r)
      BY <2>7, RequestMoves DEF CheckoutUnknown
    <2> QED
      BY <1>1, <2>1, <2>2, <2>3, <2>4, <2>5, <2>6, <2>7 DEF Checkout
  <1>2. ASSUME NEW r \in Requests, Resume(r) PROVE TypeOK'
    <2>1. CASE ResumeAttempt(r)
      BY <2>1, RequestMoves, ZenonT(60) DEF ResumeAttempt, CreatePaymentOrderAttempt
    <2>2. CASE ResumeExpired(r)
      BY <2>2, RequestMoves DEF ResumeExpired
    <2>3. CASE ResumeCheckout(r)
      BY <2>3, RequestMoves DEF ResumeCheckout
    <2>4. CASE ResumeAnswered(r)
      BY <2>4, RequestMoves DEF ResumeAnswered, Hosted
    <2> QED
      BY <1>2, <2>1, <2>2, <2>3, <2>4 DEF Resume
  <1>3. ASSUME NEW r \in Requests, Inquiry(r) PROVE TypeOK'
    <2>1. CASE \E kind \in {"resume", "reconcile", "close"} : Begin(r, kind)
      <3>1. request' \in [Requests -> RequestType]
        <4>1. \A kind \in {"resume", "reconcile", "close"} :
                [kind |-> kind, at |-> "read", event |-> "none"] \in RequestType
          BY DEF RequestType
        <4> QED
          BY <2>1, <4>1 DEF Begin
      <3> QED
        BY <2>1, <3>1 DEF Begin
    <2>2. CASE Reconcile(r)
      <3>1. CASE StripeReconcile(r)
        <4>1. request' \in [Requests -> RequestType]
          BY <2>2, <3>1, RequestMoves DEF Reconcile, StripeReconcile
        <4> QED
          BY <2>2, <3>1, <4>1, ZenonT(60) DEF Reconcile, StripeReconcile
      <3>2. CASE WaffoReconcile(r)
        <4>1. request' \in [Requests -> RequestType]
          BY <2>2, <3>2, RequestMoves DEF Reconcile, WaffoReconcile
        <4>2. /\ gateway' \in {gateway, "expired"}
              /\ UNCHANGED <<provider, orderVars, late, link, sent, acked>>
          BY <2>2, <3>2 DEF Reconcile, WaffoReconcile
        <4> QED
          BY <4>1, <4>2, ZenonT(60)
      <3> QED
        BY <2>2, <3>1, <3>2 DEF Reconcile
    <2>3. CASE WaffoClock(r)
      <3>1. request' \in [Requests -> RequestType]
        BY <2>3, RequestMoves DEF WaffoClock
      <3> QED
        BY <2>3, <3>1, ZenonT(60) DEF WaffoClock
    <2>4. CASE ReconcilePaid(r)
      <3>1. request' \in [Requests -> RequestType]
        BY <2>4, RequestMoves DEF ReconcilePaid
      <3> QED
        BY <2>4, <3>1, FulfillType, ZenonT(60) DEF ReconcilePaid, PaidEvents
    <2>5. CASE ReconcileApplied(r)
      BY <2>5, RequestMoves DEF ReconcileApplied, After
    <2>6. CASE ManualClose(r)
      BY <2>6, RequestMoves DEF ManualClose
    <2> QED
      BY <1>3, <2>1, <2>2, <2>3, <2>4, <2>5, <2>6 DEF Inquiry
  <1>4. ASSUME NEW r \in Requests, RequestDies(r) PROVE TypeOK'
    <2>1. request' \in [Requests -> RequestType]
      BY <1>4, RequestMoves DEF RequestDies
    <2> QED
      BY <1>4, <2>1, ZenonT(60) DEF RequestDies
  <1>5. ASSUME NEW e \in Callbacks, CallbackRecorded(e) PROVE TypeOK'
    <2>1. (events \subseteq Callbacks \cup Reconciled)'
      BY <1>5 DEF CallbackRecorded
    <2> QED
      BY <1>5, <2>1, ZenonT(60) DEF CallbackRecorded
  <1>6. ASSUME NEW e \in Callbacks, CallbackApplied(e) PROVE TypeOK'
    <2>1. \E to \in {"failed", "expired"} : MarkStarted(TRUE) \/ MarkClosed(to)
      BY <1>6, AppliedIsMarked DEF CallbackApplied
    <2>2. (acked \subseteq sent)' /\ UNCHANGED <<provider, gatewayVars, request>>
      BY <1>6 DEF CallbackApplied
    <2>3. CASE MarkStarted(TRUE)
      BY <2>2, <2>3
    <2>4. ASSUME NEW to \in {"failed", "expired"}, MarkClosed(to) PROVE TypeOK'
      BY <2>2, <2>4
    <2> QED
      BY <2>1, <2>3, <2>4
  <1>7. CASE CallbackPaid
    <2>1. FulfillPaymentOrder("paid") /\ acked' = acked \cup {"paid"} /\ "paid" \in sent
          /\ UNCHANGED <<provider, gatewayVars, request>>
      BY <1>7 DEF CallbackPaid
    <2> QED
      BY <2>1, FulfillType, ZenonT(60) DEF PaidEvents
  <1>8. CASE Pay
    BY <1>8 DEF Pay
  <1>9. CASE Settle
    BY <1>9 DEF Settle
  <1>10. CASE TimeUp
    BY <1>10 DEF TimeUp
  <1>11. CASE SessionExpires
    BY <1>11 DEF SessionExpires
  <1>12. ASSUME NEW confirmed \in BOOLEAN, DeletePaymentOrder(confirmed) PROVE TypeOK'
    BY <1>12 DEF DeletePaymentOrder
  <1>13. CASE UNCHANGED vars
    BY <1>13, ZenonT(60) DEF vars
  <1> QED
    BY <1>1, <1>2, <1>3, <1>4, <1>5, <1>6, <1>7, <1>8, <1>9, <1>10, <1>11, <1>12, <1>13 DEF Next

\* A request that moves on is not another one's checkout, and does not create the
\* session of another one's checkout.
LEMMA MoveKeepsCheckout ==
  ASSUME IInv, provider' = provider, NEW r \in Requests, NEW at, NEW event, Moved(r, at, event),
         at # "created", Hosted /\ gateway = "none" => gateway' = "none" \/ request[r].kind = "checkout"
  PROVE  OneCheckout'
  <1>1. \A s \in Requests : request'[s].kind = request[s].kind
    BY DEF Moved
  <1>2. \A s \in Requests : request'[s].at = "created" => s # r /\ request[s].at = "created"
    BY DEF Moved
  <1>3. \A s, t \in Requests : request[s].kind = "checkout" /\ request[t].kind = "checkout" => s = t
    BY DEF IInv, OneCheckout
  <1>4. \A s \in Requests : At(s, "checkout", "created") /\ Hosted => gateway = "none"
    BY DEF IInv, OneCheckout
  <1>5. ASSUME NEW s \in Requests, At(s, "checkout", "created")', Hosted' PROVE gateway' = "none"
    <2>1. s # r /\ At(s, "checkout", "created") /\ Hosted
      BY <1>1, <1>2, <1>5 DEF At, Hosted
    <2>2. gateway = "none" /\ request[r].kind # "checkout"
      BY <1>3, <1>4, <2>1 DEF At
    <2> QED
      BY <2>1, <2>2
  <1> QED
    BY <1>1, <1>3, <1>5 DEF OneCheckout

\* A request that moves on knows of a payment or of the end of a session only what
\* is so, and no request knows less than before.
LEMMA MoveKeepsReports ==
  ASSUME IInv, provider' = provider, NEW r \in Requests, NEW at, NEW event, Moved(r, at, event),
         "paid" \in sent' => "paid" \in sent, gateway \in {"paid", "expired"} => gateway' = gateway,
         at = "sees" /\ event = "seen paid" => gateway' = "paid",
         provider = "stripe" => at # "no order",
         provider = "stripe" /\ at = "sees" /\ event # "seen paid"
           /\ (event = "seen expired" \/ request[r].kind = "close") => gateway' = "expired"
  PROVE  ReportsAreTrue' /\ SeenExpired'
  <1>1. ReportsAreTrue'
    BY DEF IInv, ReportsAreTrue, Moved
  <1>2. ASSUME NEW s \in Requests, provider = "stripe", s # r
        PROVE  /\ request'[s].at # "no order"
               /\ /\ request'[s].at = "sees" /\ request'[s].event # "seen paid"
                  /\ request'[s].event = "seen expired" \/ request'[s].kind = "close"
                  => gateway' = "expired"
    BY <1>2 DEF IInv, SeenExpired, Moved
  <1>3. SeenExpired'
    BY <1>2 DEF SeenExpired, Moved
  <1> QED
    BY <1>1, <1>3

\* A payment that has been made is delivered when it has not been.
LEMMA FulfillOnce ==
  ASSUME IInv, NEW e \in PaidEvents, FulfillPaymentOrder(e), gateway = "paid",
         UNCHANGED <<provider, gateway>>
  PROVE  DeliveredOnce' /\ ClosedWithGateway'
  <1> USE DEF IInv, DeliveredOnce, ClosedWithGateway, FulfillPaymentOrder
  <1>1. ClosedWithGateway'
    OBVIOUS
  <1>2. CASE e \in events
    BY <1>2
  <1>3. CASE e \notin events /\ status = "fulfilled"
    BY <1>3
  <1>4. CASE e \notin events /\ status # "fulfilled"
    <2>1. MayStillFulfill /\ status' = "fulfilled" /\ delivered' = delivered + 1
      BY <1>4
    <2>2. delivered \in Nat /\ ~(delivered > 0)
      BY <2>1 DEF TypeOK, MayStillFulfill, Mutable
    <2>3. status' = "fulfilled" /\ gateway' = "paid" /\ delivered' = delivered + 1
      BY <2>1
    <2> HIDE DEF IInv, FulfillPaymentOrder
    <2>4. delivered' = 1
      BY <2>2, <2>3
    <2> QED
      BY <1>1, <2>3, <2>4
  <1> QED
    BY <1>1, <1>2, <1>3, <1>4

\* What the invariant says besides the types.
Rest ==
  NothingBefore /\ OneCheckout /\ DeliveredOnce /\ ReportsAreTrue /\ SeenExpired /\ ClosedWithGateway

\* The steps of a checkout preserve it.
LEMMA CheckoutInv ==
  ASSUME IInv, NEW r \in Requests, Checkout(r)
  PROVE  Rest'
  <1> USE DEF At, Mutable, Hosted, orderVars, gatewayVars, Reconciled, MarkStarted, MarkClosed
  <1>t. TypeOK
    BY DEF IInv
  <1>1. CASE CreatePaymentOrder(r)
    <2> DEFINE created == [kind |-> "checkout", at |-> "created", event |-> "none"]
    <2>0. /\ request \in [Requests -> RequestType] /\ request' = [request EXCEPT ![r] = created]
          /\ \A s \in Requests : request[s] = NoRequest
      BY <1>1, <1>t DEF CreatePaymentOrder, TypeOK, IInv, NothingBefore
    <2>1. \A s \in Requests : request'[s] = IF s = r THEN created ELSE NoRequest
      BY <2>0
    <2>2. NothingBefore' /\ OneCheckout'
      BY <1>1, <2>1 DEF CreatePaymentOrder, IInv, NothingBefore, OneCheckout, NoRequest
    <2>3. DeliveredOnce' /\ ClosedWithGateway'
      BY <1>1, <2>1 DEF IInv, DeliveredOnce, ClosedWithGateway, PaidEvents, CreatePaymentOrder
    <2>4. ReportsAreTrue' /\ SeenExpired'
      <3>1. UNCHANGED <<provider, gateway, sent>>
        BY <1>1 DEF CreatePaymentOrder
      <3>2. \A s \in Requests : request'[s].at = IF s = r THEN "created" ELSE "idle"
        BY <2>1 DEF NoRequest
      <3> QED
        BY <3>1, <3>2 DEF IInv, ReportsAreTrue, SeenExpired
    <2> QED
      BY <2>2, <2>3, <2>4 DEF Rest
  <1>2. CASE ChannelUnavailable(r)
    <2>1. Moved(r, "over", "none")
      BY <1>2, <1>t, RequestAfter DEF ChannelUnavailable
    <2>2. NothingBefore' /\ OneCheckout'
      BY <1>2, <2>1, MoveKeepsCheckout, OrderExists DEF NothingBefore, ChannelUnavailable
    <2>3. DeliveredOnce' /\ ClosedWithGateway'
      BY <1>2, <2>1 DEF IInv, DeliveredOnce, ClosedWithGateway, PaidEvents, ChannelUnavailable
    <2>4. ReportsAreTrue' /\ SeenExpired'
      BY <1>2, <2>1 DEF IInv, ReportsAreTrue, SeenExpired, Moved, ChannelUnavailable
    <2> QED
      BY <2>2, <2>3, <2>4 DEF Rest
  <1>3. CASE CheckoutAttempt(r)
    <2>1. Moved(r, "over", "none") \/ Moved(r, "attempted", request[r].event)
      BY <1>3, <1>t, RequestAfter DEF CheckoutAttempt, CreatePaymentOrderAttempt
    <2>2. NothingBefore' /\ OneCheckout'
      BY <1>3, <2>1, MoveKeepsCheckout, OrderExists DEF NothingBefore, CheckoutAttempt, CreatePaymentOrderAttempt
    <2>3. DeliveredOnce' /\ ClosedWithGateway'
      BY <1>3, <2>1 DEF IInv, DeliveredOnce, ClosedWithGateway, PaidEvents, CheckoutAttempt, CreatePaymentOrderAttempt
    <2>4. ReportsAreTrue' /\ SeenExpired'
      BY <1>3, <2>1 DEF IInv, ReportsAreTrue, SeenExpired, Moved, CheckoutAttempt, CreatePaymentOrderAttempt
    <2> QED
      BY <2>2, <2>3, <2>4 DEF Rest
  <1>4. CASE AskForSession(r)
    <2>1. \E answer \in {"ok", "refused", "unknown"} : Moved(r, answer, request[r].event)
      BY <1>4, <1>t, RequestAfter DEF AskForSession
    <2>2. NothingBefore' /\ OneCheckout'
      BY <1>4, <2>1, MoveKeepsCheckout, OrderExists DEF NothingBefore, AskForSession, OneCheckout
    <2>3. DeliveredOnce' /\ ClosedWithGateway'
      BY <1>4, <2>1 DEF IInv, DeliveredOnce, ClosedWithGateway, PaidEvents, AskForSession, OneCheckout
    <2>4. ReportsAreTrue' /\ SeenExpired'
      BY <1>4, <2>1, ZenonT(60) DEF IInv, ReportsAreTrue, SeenExpired, Moved, AskForSession, OneCheckout
    <2> QED
      BY <2>2, <2>3, <2>4 DEF Rest
  <1>5. CASE CheckoutAnswered(r)
    <2>1. Moved(r, "over", "none")
      BY <1>5, <1>t, RequestAfter DEF CheckoutAnswered
    <2>2. NothingBefore' /\ OneCheckout'
      BY <1>5, <2>1, MoveKeepsCheckout, OrderExists DEF NothingBefore, CheckoutAnswered
    <2>3. DeliveredOnce' /\ ClosedWithGateway'
      BY <1>5, <2>1 DEF IInv, DeliveredOnce, ClosedWithGateway, PaidEvents, CheckoutAnswered
    <2>4. ReportsAreTrue' /\ SeenExpired'
      BY <1>5, <2>1 DEF IInv, ReportsAreTrue, SeenExpired, Moved, CheckoutAnswered
    <2> QED
      BY <2>2, <2>3, <2>4 DEF Rest
  <1>6. CASE CheckoutRefused(r)
    <2>1. Moved(r, "over", "none")
      BY <1>6, <1>t, RequestAfter DEF CheckoutRefused
    <2>2. NothingBefore' /\ OneCheckout'
      BY <1>6, <2>1, MoveKeepsCheckout, OrderExists DEF NothingBefore, CheckoutRefused
    <2>3. DeliveredOnce' /\ ClosedWithGateway'
      BY <1>6, <2>1 DEF IInv, DeliveredOnce, ClosedWithGateway, PaidEvents, CheckoutRefused
    <2>4. ReportsAreTrue' /\ SeenExpired'
      BY <1>6, <2>1 DEF IInv, ReportsAreTrue, SeenExpired, Moved, CheckoutRefused
    <2> QED
      BY <2>2, <2>3, <2>4 DEF Rest
  <1>7. CASE CheckoutUnknown(r)
    <2>1. Moved(r, "over", "none")
      BY <1>7, <1>t, RequestAfter DEF CheckoutUnknown
    <2>2. NothingBefore' /\ OneCheckout'
      BY <1>7, <2>1, MoveKeepsCheckout, OrderExists DEF NothingBefore, CheckoutUnknown
    <2>3. DeliveredOnce' /\ ClosedWithGateway'
      BY <1>7, <2>1 DEF IInv, DeliveredOnce, ClosedWithGateway, PaidEvents, CheckoutUnknown
    <2>4. ReportsAreTrue' /\ SeenExpired'
      BY <1>7, <2>1 DEF IInv, ReportsAreTrue, SeenExpired, Moved, CheckoutUnknown
    <2> QED
      BY <2>2, <2>3, <2>4 DEF Rest
  <1> QED
    BY <1>1, <1>2, <1>3, <1>4, <1>5, <1>6, <1>7 DEF Checkout

\* The steps of a resumption preserve it.
LEMMA ResumeInv ==
  ASSUME IInv, NEW r \in Requests, Resume(r)
  PROVE  Rest'
  <1> USE DEF At, Mutable, Hosted, orderVars, gatewayVars, Reconciled, MarkStarted, MarkClosed
  <1>t. TypeOK
    BY DEF IInv
  <1>1. CASE ResumeAttempt(r)
    <2>1. Moved(r, "over", "none") \/ Moved(r, "link", request[r].event)
      BY <1>1, <1>t, RequestAfter DEF ResumeAttempt, CreatePaymentOrderAttempt
    <2>2. NothingBefore' /\ OneCheckout'
      BY <1>1, <2>1, MoveKeepsCheckout, OrderExists DEF NothingBefore, ResumeAttempt, CreatePaymentOrderAttempt
    <2>3. DeliveredOnce' /\ ClosedWithGateway'
      BY <1>1, <2>1 DEF IInv, DeliveredOnce, ClosedWithGateway, PaidEvents, ResumeAttempt, CreatePaymentOrderAttempt
    <2>4. ReportsAreTrue' /\ SeenExpired'
      BY <1>1, <2>1 DEF IInv, ReportsAreTrue, SeenExpired, Moved, ResumeAttempt, CreatePaymentOrderAttempt
    <2> QED
      BY <2>2, <2>3, <2>4 DEF Rest
  <1>2. CASE ResumeExpired(r)
    <2>1. Moved(r, "over", "none")
      BY <1>2, <1>t, RequestAfter DEF ResumeExpired
    <2>2. NothingBefore' /\ OneCheckout'
      BY <1>2, <2>1, MoveKeepsCheckout, OrderExists DEF NothingBefore, ResumeExpired
    <2>3. DeliveredOnce' /\ ClosedWithGateway'
      BY <1>2, <2>1 DEF IInv, DeliveredOnce, ClosedWithGateway, PaidEvents, ResumeExpired
    <2>4. ReportsAreTrue' /\ SeenExpired'
      BY <1>2, <2>1 DEF IInv, ReportsAreTrue, SeenExpired, Moved, ResumeExpired
    <2> QED
      BY <2>2, <2>3, <2>4 DEF Rest
  <1>3. CASE ResumeCheckout(r)
    <2>1. Moved(r, "link", request[r].event)
      BY <1>3, <1>t, RequestAfter DEF ResumeCheckout
    <2>2. NothingBefore' /\ OneCheckout'
      BY <1>3, <2>1, MoveKeepsCheckout, OrderExists DEF NothingBefore, ResumeCheckout
    <2>3. DeliveredOnce' /\ ClosedWithGateway'
      BY <1>3, <2>1 DEF IInv, DeliveredOnce, ClosedWithGateway, PaidEvents, ResumeCheckout
    <2>4. ReportsAreTrue' /\ SeenExpired'
      BY <1>3, <2>1 DEF IInv, ReportsAreTrue, SeenExpired, Moved, ResumeCheckout
    <2> QED
      BY <2>2, <2>3, <2>4 DEF Rest
  <1>4. CASE ResumeAnswered(r)
    <2>1. Moved(r, "over", "none")
      BY <1>4, <1>t, RequestAfter DEF ResumeAnswered
    <2>2. NothingBefore' /\ OneCheckout'
      BY <1>4, <2>1, MoveKeepsCheckout, OrderExists DEF NothingBefore, ResumeAnswered
    <2>3. DeliveredOnce' /\ ClosedWithGateway'
      BY <1>4, <2>1 DEF IInv, DeliveredOnce, ClosedWithGateway, PaidEvents, ResumeAnswered
    <2>4. ReportsAreTrue' /\ SeenExpired'
      BY <1>4, <2>1 DEF IInv, ReportsAreTrue, SeenExpired, Moved, ResumeAnswered
    <2> QED
      BY <2>2, <2>3, <2>4 DEF Rest
  <1> QED
    BY <1>1, <1>2, <1>3, <1>4 DEF Resume

\* The steps of an inquiry preserve it.
LEMMA InquiryInv ==
  ASSUME IInv, NEW r \in Requests, Inquiry(r)
  PROVE  Rest'
  <1> USE DEF At, Mutable, Hosted, orderVars, gatewayVars, Reconciled, MarkStarted, MarkClosed
  <1>t. TypeOK
    BY DEF IInv
  <1>1. CASE \E kind \in {"resume", "reconcile", "close"} : Begin(r, kind)
    <2>1. /\ request'[r].kind # "checkout" /\ request'[r].at = "read"
          /\ \A s \in Requests \ {r} : request'[s] = request[s]
      <3>1. PICK kind \in {"resume", "reconcile", "close"} :
              request' = [request EXCEPT ![r] = [kind |-> kind, at |-> "read", event |-> "none"]]
        BY <1>1 DEF Begin
      <3>2. request'[r] = [kind |-> kind, at |-> "read", event |-> "none"]
        BY <1>t, <3>1 DEF TypeOK
      <3> QED
        BY <1>t, <3>1, <3>2 DEF TypeOK
    <2>2. NothingBefore' /\ OneCheckout'
      BY <1>1, <2>1 DEF Begin, IInv, NothingBefore, OneCheckout
    <2>3. DeliveredOnce' /\ ClosedWithGateway'
      BY <1>1, <2>1 DEF IInv, DeliveredOnce, ClosedWithGateway, PaidEvents, Begin
    <2>4. ReportsAreTrue' /\ SeenExpired'
      BY <1>1, <2>1 DEF IInv, ReportsAreTrue, SeenExpired, Begin
    <2> QED
      BY <2>2, <2>3, <2>4 DEF Rest
  <1>2. CASE Reconcile(r) /\ provider = "stripe" /\ StripeReconcile(r)
    <2>1. \E e \in Reconciled :
             /\ Moved(r, "sees", e)
             /\ e = "seen paid" => gateway = "paid" /\ gateway' = "paid"
             /\ e # "seen paid" /\ (e = "seen expired" \/ request[r].kind = "close") => gateway' = "expired"
      BY <1>2, <1>t, RequestAfter DEF Reconcile, StripeReconcile
    <2>2. NothingBefore' /\ OneCheckout'
      BY <1>2, <2>1, MoveKeepsCheckout, OrderExists DEF NothingBefore, Reconcile, StripeReconcile
    <2>3. DeliveredOnce' /\ ClosedWithGateway'
      BY <1>2, <2>1 DEF IInv, DeliveredOnce, ClosedWithGateway, PaidEvents, Reconcile, StripeReconcile
    <2>4. ReportsAreTrue' /\ SeenExpired'
      BY <1>2, <2>1, MoveKeepsReports DEF Reconcile, StripeReconcile
    <2> QED
      BY <2>2, <2>3, <2>4 DEF Rest
  <1>3. CASE Reconcile(r) /\ provider # "stripe" /\ WaffoReconcile(r)
    <2>1. \/ \E e \in Reconciled : Moved(r, "sees", e) /\ (e = "seen paid" => gateway = "paid")
          \/ Moved(r, "no order", request[r].event)
      BY <1>3, <1>t, RequestAfter DEF Reconcile, WaffoReconcile
    <2>2. NothingBefore' /\ OneCheckout'
      BY <1>3, <2>1, MoveKeepsCheckout, OrderExists DEF NothingBefore, Reconcile, WaffoReconcile
    <2>3. DeliveredOnce' /\ ClosedWithGateway'
      BY <1>3, <2>1 DEF IInv, DeliveredOnce, ClosedWithGateway, PaidEvents, Reconcile, WaffoReconcile
    <2>4. ReportsAreTrue' /\ SeenExpired'
      BY <1>3, <2>1, MoveKeepsReports DEF Reconcile, WaffoReconcile
    <2> QED
      BY <2>2, <2>3, <2>4 DEF Rest
  <1>4. CASE WaffoClock(r)
    <2>1. \E e \in Reconciled \ {"seen paid"} : Moved(r, "sees", e)
      BY <1>4, <1>t, RequestAfter DEF WaffoClock
    <2>2. NothingBefore' /\ OneCheckout'
      BY <1>4, <2>1, MoveKeepsCheckout, OrderExists DEF NothingBefore, WaffoClock
    <2>3. DeliveredOnce' /\ ClosedWithGateway'
      BY <1>4, <2>1 DEF IInv, DeliveredOnce, ClosedWithGateway, PaidEvents, WaffoClock
    <2>4. ReportsAreTrue' /\ SeenExpired'
      BY <1>4, <2>1, MoveKeepsReports DEF IInv, SeenExpired, WaffoClock
    <2> QED
      BY <2>2, <2>3, <2>4 DEF Rest
  <1>5. CASE ReconcilePaid(r)
    <2>1. Moved(r, "over", "none")
      BY <1>5, <1>t, RequestAfter DEF ReconcilePaid
    <2>2. NothingBefore' /\ OneCheckout'
      BY <1>5, <2>1, MoveKeepsCheckout, OrderExists DEF NothingBefore, ReconcilePaid, FulfillPaymentOrder, MayStillFulfill
    <2>3. DeliveredOnce' /\ ClosedWithGateway'
      BY <1>5, FulfillOnce DEF ReconcilePaid, PaidEvents, IInv, ReportsAreTrue
    <2>4. ReportsAreTrue' /\ SeenExpired'
      BY <1>5, <2>1 DEF IInv, ReportsAreTrue, SeenExpired, Moved, ReconcilePaid, FulfillPaymentOrder, MayStillFulfill
    <2> QED
      BY <2>2, <2>3, <2>4 DEF Rest
  <1>6. CASE ReconcileApplied(r)
    <2>1. Moved(r, "over", "none") \/ Moved(r, "resuming", request[r].event)
      BY <1>6, <1>t, RequestAfter DEF ReconcileApplied, After
    <2>2. NothingBefore' /\ OneCheckout'
      BY <1>6, <2>1, MoveKeepsCheckout, OrderExists DEF NothingBefore, ReconcileApplied
    <2>3. DeliveredOnce' /\ ClosedWithGateway'
      <3>1. DeliveredOnce'
        BY <1>6 DEF IInv, DeliveredOnce, PaidEvents, ReconcileApplied
      <3>2. code' = "admin_reconciled_close" => \/ code = "admin_reconciled_close"
                                               \/ request[r].kind = "close"
        BY <1>6 DEF ReconcileApplied
      <3>3. UNCHANGED <<provider, gateway>> /\ request[r].at = "sees" /\ request[r].event # "seen paid"
        BY <1>6 DEF ReconcileApplied
      <3> QED
        BY <3>1, <3>2, <3>3 DEF IInv, ClosedWithGateway, SeenExpired
    <2>4. ReportsAreTrue' /\ SeenExpired'
      BY <1>6, <2>1 DEF IInv, ReportsAreTrue, SeenExpired, Moved, ReconcileApplied
    <2> QED
      BY <2>2, <2>3, <2>4 DEF Rest
  <1>7. CASE ManualClose(r)
    <2>1. Moved(r, "over", "none")
      BY <1>7, <1>t, RequestAfter DEF ManualClose
    <2>2. NothingBefore' /\ OneCheckout'
      BY <1>7, <2>1, MoveKeepsCheckout, OrderExists DEF NothingBefore, ManualClose
    <2>3. DeliveredOnce' /\ ClosedWithGateway'
      BY <1>7, <2>1 DEF IInv, DeliveredOnce, ClosedWithGateway, PaidEvents, ManualClose
    <2>4. ReportsAreTrue' /\ SeenExpired'
      BY <1>7, <2>1 DEF IInv, ReportsAreTrue, SeenExpired, Moved, ManualClose
    <2> QED
      BY <2>2, <2>3, <2>4 DEF Rest
  <1> QED
    BY <1>1, <1>2, <1>3, <1>4, <1>5, <1>6, <1>7 DEF Inquiry, Reconcile

\* The end of a request preserves it, and so do the callbacks, the gateway and the
\* deletion of the order.
LEMMA OthersInv ==
  ASSUME IInv,
         \/ \E r \in Requests : RequestDies(r)
         \/ \E e \in Callbacks : CallbackRecorded(e) \/ CallbackApplied(e)
         \/ CallbackPaid \/ Pay \/ Settle \/ TimeUp \/ SessionExpires
         \/ \E confirmed \in BOOLEAN : DeletePaymentOrder(confirmed)
  PROVE  Rest'
  <1> USE DEF At, Mutable, Hosted, orderVars, gatewayVars
  <1>t. TypeOK
    BY DEF IInv
  <1>1. ASSUME NEW r \in Requests, RequestDies(r) PROVE Rest'
    <2>1. Moved(r, "over", "none")
      BY <1>1, <1>t, RequestAfter DEF RequestDies
    <2>2. NothingBefore' /\ OneCheckout'
      BY <1>1, <2>1, MoveKeepsCheckout, OrderExists DEF NothingBefore, RequestDies
    <2>3. DeliveredOnce' /\ ClosedWithGateway'
      BY <1>1 DEF IInv, DeliveredOnce, ClosedWithGateway, RequestDies
    <2>4. ReportsAreTrue' /\ SeenExpired'
      BY <1>1, <2>1, MoveKeepsReports DEF RequestDies
    <2> QED
      BY <2>2, <2>3, <2>4 DEF Rest
  <1>2. CASE \E e \in Callbacks : CallbackRecorded(e)
    <2>1. NothingBefore' /\ OneCheckout'
      BY <1>2 DEF IInv, NothingBefore, OneCheckout, CallbackRecorded
    <2>2. events' \cap PaidEvents = events \cap PaidEvents
      BY <1>2 DEF CallbackRecorded, Callbacks, PaidEvents
    <2>3. UNCHANGED <<provider, status, code, delivered, gateway>>
      BY <1>2 DEF CallbackRecorded
    <2>4. DeliveredOnce' /\ ClosedWithGateway'
      BY <2>2, <2>3 DEF IInv, DeliveredOnce, ClosedWithGateway
    <2>5. ReportsAreTrue' /\ SeenExpired'
      BY <1>2 DEF IInv, ReportsAreTrue, SeenExpired, CallbackRecorded
    <2> QED
      BY <2>1, <2>4, <2>5 DEF Rest
  <1>3. CASE \E e \in Callbacks : CallbackApplied(e)
    <2>1. \E to \in {"failed", "expired"} : MarkStarted(TRUE) \/ MarkClosed(to)
      BY <1>3, <1>t, AppliedIsMarked DEF CallbackApplied
    <2>2. \E to \in {"processing", "failed", "expired"} : status' = IF Mutable THEN to ELSE status
      BY <2>1 DEF MarkStarted, MarkClosed
    <2>3. UNCHANGED <<provider, code, events, delivered, gateway, sent, request>>
      BY <1>3, <2>1 DEF CallbackApplied, MarkStarted, MarkClosed
    <2>4. NothingBefore' /\ OneCheckout'
      BY <2>2, <2>3 DEF IInv, NothingBefore, OneCheckout
    <2>5. DeliveredOnce' /\ ClosedWithGateway'
      BY <2>2, <2>3 DEF IInv, DeliveredOnce, ClosedWithGateway
    <2>6. ReportsAreTrue' /\ SeenExpired'
      BY <2>3 DEF IInv, ReportsAreTrue, SeenExpired
    <2> QED
      BY <2>4, <2>5, <2>6 DEF Rest
  <1>4. CASE CallbackPaid
    <2>1. NothingBefore' /\ OneCheckout'
      BY <1>4 DEF IInv, NothingBefore, OneCheckout, CallbackPaid, FulfillPaymentOrder, MayStillFulfill
    <2>2. DeliveredOnce' /\ ClosedWithGateway'
      BY <1>4, FulfillOnce DEF CallbackPaid, PaidEvents, IInv, ReportsAreTrue
    <2>3. ReportsAreTrue' /\ SeenExpired'
      BY <1>4 DEF IInv, ReportsAreTrue, SeenExpired, CallbackPaid
    <2> QED
      BY <2>1, <2>2, <2>3 DEF Rest
  <1>5. CASE Pay
    <2>1. NothingBefore' /\ OneCheckout'
      BY <1>5 DEF IInv, NothingBefore, OneCheckout, Pay
    <2>2. DeliveredOnce' /\ ClosedWithGateway'
      BY <1>5 DEF IInv, DeliveredOnce, ClosedWithGateway, PaidEvents, Pay
    <2>3. ReportsAreTrue' /\ SeenExpired'
      BY <1>5 DEF IInv, ReportsAreTrue, SeenExpired, Pay
    <2> QED
      BY <2>1, <2>2, <2>3 DEF Rest
  <1>6. CASE Settle
    <2>1. NothingBefore' /\ OneCheckout'
      BY <1>6 DEF IInv, NothingBefore, OneCheckout, Settle
    <2>2. DeliveredOnce' /\ ClosedWithGateway'
      BY <1>6 DEF IInv, DeliveredOnce, ClosedWithGateway, PaidEvents, Settle
    <2>3. ReportsAreTrue' /\ SeenExpired'
      BY <1>6 DEF IInv, ReportsAreTrue, SeenExpired, Settle
    <2> QED
      BY <2>1, <2>2, <2>3 DEF Rest
  <1>7. CASE TimeUp
    <2>1. NothingBefore' /\ OneCheckout'
      BY <1>7 DEF IInv, NothingBefore, OneCheckout, TimeUp
    <2>2. DeliveredOnce' /\ ClosedWithGateway'
      BY <1>7 DEF IInv, DeliveredOnce, ClosedWithGateway, PaidEvents, TimeUp
    <2>3. ReportsAreTrue' /\ SeenExpired'
      BY <1>7 DEF IInv, ReportsAreTrue, SeenExpired, TimeUp
    <2> QED
      BY <2>1, <2>2, <2>3 DEF Rest
  <1>8. CASE SessionExpires
    <2>1. NothingBefore' /\ OneCheckout'
      BY <1>8 DEF IInv, NothingBefore, OneCheckout, SessionExpires
    <2>2. DeliveredOnce' /\ ClosedWithGateway'
      BY <1>8 DEF IInv, DeliveredOnce, ClosedWithGateway, PaidEvents, SessionExpires
    <2>3. ReportsAreTrue' /\ SeenExpired'
      BY <1>8 DEF IInv, ReportsAreTrue, SeenExpired, SessionExpires
    <2> QED
      BY <2>1, <2>2, <2>3 DEF Rest
  <1>9. CASE \E confirmed \in BOOLEAN : DeletePaymentOrder(confirmed)
    <2>1. NothingBefore' /\ OneCheckout'
      BY <1>9 DEF IInv, NothingBefore, OneCheckout, DeletePaymentOrder
    <2>2. DeliveredOnce' /\ ClosedWithGateway'
      BY <1>9 DEF IInv, DeliveredOnce, ClosedWithGateway, PaidEvents, DeletePaymentOrder
    <2>3. ReportsAreTrue' /\ SeenExpired'
      BY <1>9 DEF IInv, ReportsAreTrue, SeenExpired, DeletePaymentOrder
    <2> QED
      BY <2>1, <2>2, <2>3 DEF Rest
  <1> QED
    BY <1>1, <1>2, <1>3, <1>4, <1>5, <1>6, <1>7, <1>8, <1>9

\* Every step preserves the invariant.
LEMMA StepInv == IInv /\ [Next]_vars => IInv'
  <1> SUFFICES ASSUME IInv, [Next]_vars PROVE IInv'
    OBVIOUS
  <1>1. TypeOK'
    BY StepType DEF IInv
  <1>2. CASE UNCHANGED vars
    BY <1>1, <1>2 DEF IInv, vars, orderVars, gatewayVars, NothingBefore, OneCheckout, DeliveredOnce, ReportsAreTrue,
                      SeenExpired, ClosedWithGateway, At, Hosted
  <1>3. CASE Next
    <2>1. Rest'
      BY <1>3, CheckoutInv, ResumeInv, InquiryInv, OthersInv DEF Next
    <2> QED
      BY <1>1, <2>1 DEF IInv, Rest
  <1> QED
    BY <1>2, <1>3

\* The invariant holds of every reachable state.
THEOREM Invariant == Spec => []IInv
  BY InitInv, StepInv, PTL DEF Spec

\* The types of the variables, for any requests and any choice of the gateways.
THEOREM TypeCorrect == Spec => []TypeOK
  <1>1. IInv => TypeOK
    BY DEF IInv
  <1> QED
    BY <1>1, Invariant, PTL

\* A payment is on record only with an order that was delivered, once, and nothing
\* is delivered without the money: the webhook handler may acknowledge a duplicate
\* without a look at the order.
THEOREM PaymentsAreDelivered == Spec => []RecordedMeansDelivered
  <1>1. IInv => RecordedMeansDelivered
    BY DEF IInv, DeliveredOnce, RecordedMeansDelivered
  <1> QED
    BY <1>1, Invariant, PTL

\* An order an administrator has closed with Stripe can never be charged: the close
\* waits until the gateway has confirmed that its session is over
\* (reconcilePaymentOrderAdmin).
THEOREM ClosedIsClosed == Spec => []ClosedWithGateway
  <1>1. IInv => ClosedWithGateway
    BY DEF IInv
  <1> QED
    BY <1>1, Invariant, PTL

\* What the state of the order is, case by case.
StateByCase ==
  /\ Mutable => OrderState = "open"
  /\ status = "none" => OrderState = "none"
  /\ status = "fulfilled" => OrderState = "delivered"
  /\ status = "deleted" => OrderState = "gone"
  /\ status = "cancelled" /\ code = "admin_manual_close" => OrderState = "parked"
  /\ status = "cancelled" /\ code # "admin_manual_close" => OrderState = "closed"
  /\ status \in {"failed", "expired"} => OrderState = "closed"

\* The cases are what OrderState says.
LEMMA OrderStateValue == StateByCase
  <1>1. ASSUME Mutable, status \notin {"none", "fulfilled", "deleted"} PROVE OrderState = "open"
    BY <1>1 DEF OrderState
  <1>2. ASSUME ~Mutable, ~MayStillFulfill, status = "none", status \notin {"fulfilled", "deleted"}
        PROVE  OrderState = "none"
    BY <1>2 DEF OrderState
  <1>3. ASSUME ~Mutable, ~MayStillFulfill, status = "fulfilled", status \notin {"none", "deleted"}
        PROVE  OrderState = "delivered"
    BY <1>3 DEF OrderState
  <1>4. ASSUME ~Mutable, ~MayStillFulfill, status = "deleted", status \notin {"none", "fulfilled"}
        PROVE  OrderState = "gone"
    BY <1>4 DEF OrderState
  <1>5. ASSUME ~Mutable, MayStillFulfill, status \notin {"none", "fulfilled", "deleted"}
        PROVE  OrderState = "parked"
    BY <1>5 DEF OrderState
  <1>6. ASSUME ~Mutable, ~MayStillFulfill, status \notin {"none", "fulfilled", "deleted"}
        PROVE  OrderState = "closed"
    BY <1>6 DEF OrderState
  <1> QED
    BY <1>1, <1>2, <1>3, <1>4, <1>5, <1>6 DEF StateByCase, Mutable, MayStillFulfill

\* They are so after every step as well.
LEMMA OrderStateAfter == StateByCase'
  BY OrderStateValue, PTL

\* The initial order is one that OrderPromise starts with.
LEMMA RefineInit == Init => Promise!Init
  BY InitInv, OrderStateValue DEF StateByCase, Init, IInv, Promise!Init

\* What OrderPromise sees of the order changes with its status and its code only.
LEMMA SameOrder ==
  ASSUME UNCHANGED <<status, code, delivered>>
  PROVE  UNCHANGED <<OrderState, delivered>>
  BY DEF OrderState, Mutable, MayStillFulfill

\* MarkPaymentOrderCheckoutStarted is no step of OrderPromise, the other writes are
\* Close, and so are the writes of an inquiry.
LEMMA WriteSteps ==
  ASSUME IInv, TypeOK', delivered' = delivered,
         \/ UNCHANGED <<status, code>>
         \/ status = "expired" /\ status' = "expired"
         \/ Mutable /\ status' \in {"processing", "failed", "expired", "cancelled"}
  PROVE  [Promise!Next]_<<OrderState, delivered>>
  <1> USE DEF Promise!Next, Promise!Close
  <1>0. TypeOK
    BY DEF IInv
  <1>1. CASE UNCHANGED <<status, code>>
    BY <1>1, SameOrder
  <1>2. CASE Mutable /\ status' = "processing"
    <2>1. OrderState = "open" /\ OrderState' = "open"
      BY <1>0, <1>2, OrderStateValue, OrderStateAfter DEF StateByCase, Mutable
    <2> QED
      BY <2>1
  <1>3. CASE Mutable /\ status' \in {"failed", "expired", "cancelled"}
    <2>1. OrderState = "open" /\ OrderState' \in {"closed", "parked"}
      BY <1>0, <1>3, OrderStateValue, OrderStateAfter DEF StateByCase
    <2> QED
      BY <2>1
  <1>4. CASE status = "expired" /\ status' = "expired"
    BY <1>4, OrderStateValue, OrderStateAfter DEF StateByCase
  <1> QED
    BY <1>1, <1>2, <1>3, <1>4

\* A delivery is Deliver, whether the order is open or parked.
LEMMA FulfillSteps ==
  ASSUME IInv, TypeOK', NEW e \in PaidEvents, FulfillPaymentOrder(e)
  PROVE  [Promise!Next]_<<OrderState, delivered>>
  <1>0. TypeOK
    BY DEF IInv
  <1>1. CASE e \in events \/ status = "fulfilled"
    <2>1. UNCHANGED <<status, code, delivered>>
      BY <1>1 DEF FulfillPaymentOrder
    <2> QED
      BY <2>1, SameOrder
  <1>2. CASE ~(e \in events \/ status = "fulfilled")
    <2>1. MayStillFulfill /\ status' = "fulfilled" /\ delivered' = delivered + 1
      BY <1>2 DEF FulfillPaymentOrder
    <2>2. OrderState \in {"open", "parked"} /\ OrderState' = "delivered"
      BY <1>0, <2>1, OrderStateValue, OrderStateAfter DEF StateByCase, MayStillFulfill
    <2> QED
      BY <2>1, <2>2 DEF Promise!Next, Promise!Deliver
  <1> QED
    BY <1>1, <1>2

\* Every step of the system is one of OrderPromise, or none that it sees.
LEMMA RefineStep == IInv /\ [Next]_vars => [Promise!Next]_<<OrderState, delivered>>
  <1> SUFFICES ASSUME IInv, [Next]_vars PROVE [Promise!Next]_<<OrderState, delivered>>
    OBVIOUS
  <1> USE DEF orderVars, gatewayVars
  <1>0. TypeOK /\ TypeOK'
    BY StepType DEF IInv
  <1>1. ASSUME NEW r \in Requests, CreatePaymentOrder(r) PROVE Promise!Next
    <2>1. status = "none" /\ status' = "pending" /\ delivered' = delivered
      BY <1>1 DEF CreatePaymentOrder
    <2>2. OrderState = "none" /\ OrderState' = "open"
      BY <1>0, <2>1, OrderStateValue, OrderStateAfter DEF StateByCase, Mutable
    <2> QED
      BY <2>1, <2>2 DEF Promise!Next, Promise!Open
  <1>2. ASSUME NEW r \in Requests,
               \/ CheckoutAttempt(r) \/ AskForSession(r) \/ ResumeAttempt(r) \/ ResumeCheckout(r)
               \/ (\E kind \in {"resume", "reconcile", "close"} : Begin(r, kind))
               \/ Reconcile(r) \/ WaffoClock(r) \/ RequestDies(r)
        PROVE  UNCHANGED <<OrderState, delivered>>
    <2>1. UNCHANGED <<status, code, delivered>>
      BY <1>2 DEF CheckoutAttempt, AskForSession, ResumeAttempt, ResumeCheckout, CreatePaymentOrderAttempt,
                  Begin, Reconcile, WaffoClock, RequestDies
    <2> QED
      BY <2>1, SameOrder
  <1>3. ASSUME NEW r \in Requests,
               \/ ChannelUnavailable(r) \/ CheckoutAnswered(r) \/ CheckoutRefused(r) \/ CheckoutUnknown(r)
               \/ ResumeExpired(r) \/ ResumeAnswered(r) \/ ManualClose(r) \/ ReconcileApplied(r)
        PROVE  [Promise!Next]_<<OrderState, delivered>>
    <2>1. CASE ManualClose(r)
      BY <2>1, <1>0, WriteSteps DEF ManualClose
    <2>2. CASE ReconcileApplied(r)
      <3>1. /\ Mutable => status' \in {"processing", "expired"}
            /\ ~Mutable => status' = status /\ (code' = code \/ status = "expired")
            /\ delivered' = delivered
        BY <2>2 DEF ReconcileApplied
      <3> QED
        BY <3>1, <1>0, WriteSteps
    <2>3. CASE ~(ManualClose(r) \/ ReconcileApplied(r))
      <3>1. (\E session : MarkStarted(session)) \/ (\E to \in {"failed", "expired"} : MarkClosed(to))
        BY <1>3, <2>3 DEF ChannelUnavailable, CheckoutAnswered, CheckoutRefused, CheckoutUnknown, ResumeExpired,
                          ResumeAnswered
      <3> QED
        BY <3>1, <1>0, WriteSteps DEF MarkStarted, MarkClosed
    <2> QED
      BY <2>1, <2>2, <2>3
  <1>4. ASSUME NEW r \in Requests, ReconcilePaid(r) PROVE [Promise!Next]_<<OrderState, delivered>>
    BY <1>0, <1>4, FulfillSteps DEF ReconcilePaid, PaidEvents
  <1>5. CASE CallbackPaid
    BY <1>0, <1>5, FulfillSteps DEF CallbackPaid, PaidEvents
  <1>6. ASSUME NEW e \in Callbacks, CallbackApplied(e) PROVE [Promise!Next]_<<OrderState, delivered>>
    <2>1. \E to \in {"failed", "expired"} : MarkStarted(TRUE) \/ MarkClosed(to)
      BY <1>0, <1>6, AppliedIsMarked DEF CallbackApplied
    <2> QED
      BY <2>1, <1>0, WriteSteps DEF MarkStarted, MarkClosed
  <1>7. ASSUME \/ \E e \in Callbacks : CallbackRecorded(e)
               \/ Pay \/ Settle \/ TimeUp \/ SessionExpires
               \/ UNCHANGED vars
        PROVE  UNCHANGED <<OrderState, delivered>>
    <2>1. UNCHANGED <<status, code, delivered>>
      BY <1>7 DEF CallbackRecorded, Pay, Settle, TimeUp, SessionExpires, vars
    <2> QED
      BY <2>1, SameOrder
  <1>8. ASSUME NEW confirmed \in BOOLEAN, DeletePaymentOrder(confirmed) PROVE Promise!Next
    <2>1. status \in {"fulfilled", "failed", "expired", "cancelled"} /\ status' = "deleted"
          /\ delivered' = delivered
      BY <1>8 DEF DeletePaymentOrder
    <2>2. OrderState \in {"parked", "closed", "delivered"} /\ OrderState' = "gone"
      BY <1>0, <2>1, OrderStateValue, OrderStateAfter DEF StateByCase
    <2> QED
      BY <2>1, <2>2 DEF Promise!Next, Promise!Forget
  <1> QED
    BY <1>1, <1>2, <1>3, <1>4, <1>5, <1>6, <1>7, <1>8 DEF Next, Checkout, Resume, Inquiry

\* The order implements OrderPromise: what was bought is delivered once at most,
\* however many callbacks and reconciliations report the payment, and no request
\* or callback reopens, closes or delivers an order that is over.
THEOREM Implements == Spec => KeepsOrderPromise
  BY RefineInit, RefineStep, Invariant, PTL DEF Spec, KeepsOrderPromise, Promise!Spec
=============================================================================
