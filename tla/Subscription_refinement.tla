------------------------ MODULE Subscription_refinement ------------------------
(***************************************************************************)
(* Subscription implements ChargeLedger: every step of a handler, of a     *)
(* webhook, of the sweep or of the gateway moves one charge to its next    *)
(* stage, gives up the waiting plan, or does nothing a charge can tell.    *)
(***************************************************************************)
EXTENDS Subscription_proofs

\* No charge changes its stage; at most the waiting plan is given up.
Quiet ==
  /\ payment' = payment
  /\ scheduledBy' \in {scheduledBy, NoCheckout}
  /\ \A c \in Checkouts :
       /\ gateway'[c].session = "paid" <=> gateway[c].session = "paid"
       /\ gateway'[c].refunds = gateway[c].refunds
       /\ checkout'[c].refund = "refunded" <=> checkout[c].refund = "refunded"

LEMMA QuietStep == ASSUME Quiet PROVE [Ledger!Next]_(Ledger!ledger)
  <1>1. /\ {c \in Checkouts : gateway[c].session = "paid"}'
             = {c \in Checkouts : gateway[c].session = "paid"}
        /\ [c \in Checkouts |-> gateway[c].refunds]' = [c \in Checkouts |-> gateway[c].refunds]
        /\ {c \in Checkouts : checkout[c].refund = "refunded"}'
             = {c \in Checkouts : checkout[c].refund = "refunded"}
    BY DEF Quiet
  <1>2. CASE scheduledBy' = scheduledBy
    BY <1>1, <1>2 DEF Quiet, Ledger!ledger
  <1>3. CASE scheduledBy' = NoCheckout
    BY <1>1, <1>3 DEF Quiet, Ledger!Next, Ledger!Withdraw
  <1> QED
    BY <1>2, <1>3 DEF Quiet

\* A step of one charge is a step of the ledger.
LEMMA ChargeStep ==
  ASSUME NEW c \in Checkouts,
         Ledger!Capture(c) \/ Ledger!Grant(c) \/ Ledger!PayBack(c) \/ Ledger!Record(c)
  PROVE  [Ledger!Next]_(Ledger!ledger)
  BY DEF Ledger!Next

LEMMA InitLedger == Init => Ledger!Init
  BY DEF Init, Ledger!Init, NoRow

\* Payment, refunds and the queue are not touched by a step that leaves these
\* variables alone.
LEMMA UntouchedStep ==
  ASSUME UNCHANGED <<checkout, payment, gateway>>, scheduledBy' \in {scheduledBy, NoCheckout}
  PROVE  Quiet
  BY DEF Quiet

LEMMA GrantStep ==
  ASSUME IInv, NEW c \in Checkouts, FinalizeSuccessfulCheckout(c),
         gateway[c].session = "paid", UNCHANGED gateway
  PROVE  [Ledger!Next]_(Ledger!ledger)
  <1>1. CASE checkout[c].status = "completed" \/ c \in payment
    BY <1>1, UntouchedStep, QuietStep DEF FinalizeSuccessfulCheckout
  <1>2. CASE ~(checkout[c].status = "completed" \/ c \in payment)
    <2>1. /\ payment' = payment \union {c} /\ c \notin payment
          /\ scheduledBy' \in {c, NoCheckout}
      BY <1>2 DEF FinalizeSuccessfulCheckout
    <2>2. \A d \in Checkouts : checkout'[d].refund = checkout[d].refund
      BY <1>2 DEF FinalizeSuccessfulCheckout, IInv, TypeOK, CheckoutRows
    <2>3. Ledger!Grant(c)
      BY <2>1, <2>2 DEF Ledger!Grant
    <2> QED
      BY <2>3, ChargeStep
  <1> QED
    BY <1>1, <1>2

LEMMA PayBackStep ==
  ASSUME IInv, ~GatewayFaults, NEW h \in Handlers, SubmitRefund(h)
  PROVE  [Ledger!Next]_(Ledger!ledger)
  <1>1. PICK c \in Checkouts :
          c = handler[h].co /\ c \in payment /\ gateway[c].refunds = 0
    BY DEF IInv, TypeOK, HandlersAgree, HandlerAgrees, ClaimsAgree, Asking, SubmitRefund, At
  <1>2. CASE UNCHANGED gateway
    BY <1>2, UntouchedStep, QuietStep DEF SubmitRefund
  <1>3. CASE ~UNCHANGED gateway
    <2>1. gateway' = [gateway EXCEPT ![c].refunds = @ + 1]
      BY <1>1, <1>3 DEF SubmitRefund
    <2>2. /\ \A d \in Checkouts : gateway'[d].session = gateway[d].session
          /\ gateway'[c].refunds = 1
          /\ \A d \in Checkouts : d # c => gateway'[d].refunds = gateway[d].refunds
      BY <1>1, <2>1 DEF IInv, TypeOK, GatewayRows
    <2>3. UNCHANGED <<checkout, payment, scheduledBy>>
      BY DEF SubmitRefund
    <2>4. Ledger!PayBack(c)
      BY <1>1, <2>2, <2>3 DEF Ledger!PayBack
    <2> QED
      BY <1>1, <2>4, ChargeStep
  <1> QED
    BY <1>2, <1>3

LEMMA RecordStep ==
  ASSUME IInv, IInv', NEW h \in Handlers, handler[h].at \in {"settle", "confirm"},
         RecordRefund(h), UNCHANGED <<payment, gateway>>
  PROVE  [Ledger!Next]_(Ledger!ledger)
  <1>1. PICK c \in Checkouts : c = handler[h].co /\ c \in payment /\ gateway[c].settled
    BY DEF IInv, TypeOK, HandlersAgree, HandlerAgrees
  <1>2. gateway[c].refunds > 0
    BY <1>1 DEF IInv, RowsAgree, RowAgrees
  <1>3. /\ checkout'[c].refund = "refunded"
        /\ \A d \in Checkouts : d # c => checkout'[d] = checkout[d]
    BY <1>1 DEF RecordRefund, IInv, TypeOK, CheckoutRows
  <1>4. scheduledBy' \in {scheduledBy, NoCheckout}
    BY DEF RecordRefund, DropPending
  <1>5. scheduledBy' # c
    BY <1>1, <1>3 DEF IInv, QueueAgrees, Checkouts, NoCheckout
  <1>6. CASE checkout[c].refund = "refunded"
    <2>1. Quiet
      BY <1>3, <1>4, <1>6 DEF Quiet
    <2> QED
      BY <2>1, QuietStep
  <1>7. CASE checkout[c].refund # "refunded"
    <2>1. Ledger!Record(c)
      BY <1>1, <1>2, <1>3, <1>4, <1>5, <1>7 DEF Ledger!Record
    <2> QED
      BY <1>1, <2>1, ChargeStep
  <1> QED
    BY <1>6, <1>7

----------------------------------------------------------------------------
(* Steps that a charge cannot tell from a stutter *)

\* A checkout is bought, opened, expired, cancelled or declined.
LEMMA CheckoutsQuiet ==
  ASSUME IInv, UNCHANGED <<payment, scheduledBy>>,
         \A c \in Checkouts :
           /\ checkout'[c].refund = checkout[c].refund
           /\ gateway'[c].session = "paid" <=> gateway[c].session = "paid"
           /\ gateway'[c].refunds = gateway[c].refunds
  PROVE  [Ledger!Next]_(Ledger!ledger)
  BY QuietStep DEF Quiet

LEMMA CreateStep ==
  ASSUME IInv, NEW p, NEW purpose, CreateOrgCheckout(p, purpose)
  PROVE  [Ledger!Next]_(Ledger!ledger)
  <1>1. PICK c \in Checkouts, stale \in SUBSET Pending :
          /\ checkout[c].status = "absent"
          /\ checkout' = [d \in Checkouts |->
               IF d = c THEN [NoRow EXCEPT !.status = "pending", !.plan = p]
               ELSE [checkout[d] EXCEPT !.status = IF d \in stale   THEN "expired"
                                              ELSE IF d \in Pending THEN "cancelled"
                                              ELSE @]]
    BY DEF CreateOrgCheckout
  <1>2. checkout[c].refund = "none"
    BY <1>1 DEF IInv, RowsAgree, RowAgrees
  <1>3. \A d \in Checkouts : checkout'[d].refund = checkout[d].refund
    BY <1>1, <1>2 DEF IInv, TypeOK, CheckoutRows, NoRow
  <1> QED
    BY <1>3, CheckoutsQuiet DEF CreateOrgCheckout

LEMMA OpenStep ==
  ASSUME IInv, NEW c \in Checkouts, OpenSession(c)
  PROVE  [Ledger!Next]_(Ledger!ledger)
  <1>1. \A d \in Checkouts : checkout'[d].refund = checkout[d].refund
    BY DEF OpenSession, IInv, TypeOK, CheckoutRows
  <1>2. \A d \in Checkouts : /\ gateway'[d].session = "paid" <=> gateway[d].session = "paid"
                             /\ gateway'[d].refunds = gateway[d].refunds
    BY DEF OpenSession, IInv, TypeOK, GatewayRows
  <1> QED
    BY <1>1, <1>2, CheckoutsQuiet DEF OpenSession

LEMMA FailStep ==
  ASSUME IInv, NEW c \in Checkouts, MarkCheckoutFailed(c),
         UNCHANGED <<payment, scheduledBy, gateway>>
  PROVE  [Ledger!Next]_(Ledger!ledger)
  <1>1. \A d \in Checkouts : checkout'[d].refund = checkout[d].refund
    BY DEF MarkCheckoutFailed, IInv, TypeOK, CheckoutRows
  <1> QED
    BY <1>1, CheckoutsQuiet

LEMMA StatusReadStep ==
  ASSUME IInv, NEW h \in Handlers, StatusRead(h)
  PROVE  [Ledger!Next]_(Ledger!ledger)
  <1>1. \A d \in Checkouts : checkout'[d].refund = checkout[d].refund
    BY DEF StatusRead, ExpireStaleCheckouts, IInv, TypeOK, CheckoutRows
  <1> QED
    BY <1>1, CheckoutsQuiet DEF StatusRead

LEMMA GatewayStep ==
  ASSUME IInv, NEW c \in Checkouts,
         CustomerPays(c) \/ GatewayDeclines(c) \/ GatewaySettlesRefund(c) \/ GatewayCaptures(c)
  PROVE  [Ledger!Next]_(Ledger!ledger)
  <1>1. CASE CustomerPays(c) \/ GatewayDeclines(c) \/ GatewaySettlesRefund(c)
    <2>1. \A d \in Checkouts : /\ gateway'[d].session = "paid" <=> gateway[d].session = "paid"
                               /\ gateway'[d].refunds = gateway[d].refunds
      BY <1>1 DEF CustomerPays, GatewayDeclines, GatewaySettlesRefund, IInv, TypeOK, GatewayRows
    <2> QED
      BY <1>1, <2>1, CheckoutsQuiet
      DEF CustomerPays, GatewayDeclines, GatewaySettlesRefund
  <1>2. CASE GatewayCaptures(c)
    <2>1. /\ gateway[c].session # "paid" /\ gateway'[c].session = "paid"
          /\ \A d \in Checkouts : d # c => gateway'[d].session = gateway[d].session
          /\ \A d \in Checkouts : gateway'[d].refunds = gateway[d].refunds
      BY <1>2 DEF GatewayCaptures, IInv, TypeOK, GatewayRows
    <2>2. Ledger!Capture(c)
      BY <1>2, <2>1 DEF Ledger!Capture, GatewayCaptures
    <2> QED
      BY <2>2, ChargeStep
  <1> QED
    BY <1>1, <1>2

\* The claim on a refund, and its roll back, stay short of "refunded".
LEMMA ClaimStep ==
  ASSUME IInv, NEW h \in Handlers, ClaimRefund(h) \/ RollBackClaim(h)
  PROVE  [Ledger!Next]_(Ledger!ledger)
  <1> DEFINE c == handler[h].co
  <1>1. UNCHANGED <<payment, scheduledBy, gateway>>
    BY DEF ClaimRefund, RollBackClaim
  <1>2. \A d \in Checkouts : checkout'[d].refund = "refunded" <=> checkout[d].refund = "refunded"
    <2>1. c \in Checkouts
      BY RefundingKnows DEF ClaimRefund, RollBackClaim, At
    <2>2. CASE UNCHANGED checkout
      BY <2>2
    <2>3. CASE ClaimRefund(h) /\ ~UNCHANGED checkout
      <3>1. checkout' = [checkout EXCEPT ![c].refund = "pending"] /\ checkout[c].refund = "none"
        BY <2>3 DEF ClaimRefund
      <3> QED
        BY <2>1, <3>1, RefundColumn DEF IInv
    <2>4. CASE RollBackClaim(h)
      <3>1. checkout' = [checkout EXCEPT ![c].refund = IF @ = "pending" THEN "none" ELSE @]
        BY <2>4 DEF RollBackClaim
      <3> QED
        BY <2>1, <3>1 DEF IInv, TypeOK, CheckoutRows
    <2> QED
      BY <2>2, <2>3, <2>4
  <1> QED
    BY <1>1, <1>2, QuietStep DEF Quiet

\* Steps that leave the checkouts, the payments and the gateway alone.
LEMMA OrgStep ==
  ASSUME UNCHANGED <<checkout, payment, gateway>>, scheduledBy' \in {scheduledBy, NoCheckout}
  PROVE  [Ledger!Next]_(Ledger!ledger)
  BY UntouchedStep, QuietStep

----------------------------------------------------------------------------
(* Every step *)

LEMMA ProceedLedger ==
  ASSUME ~GatewayFaults, IInv, IInv', NEW h \in Handlers, Proceed(h)
  PROVE  [Ledger!Next]_(Ledger!ledger)
  <1>1. CASE StatusFlip(h) \/ StatusReconcile(h) \/ CancelRecheck(h) \/ InquireRefund(h)
             \/ ConfirmRead(h) \/ VoidSelfRequest(h)
    BY <1>1, OrgStep
    DEF StatusFlip, StatusReconcile, CancelRecheck, InquireRefund, ConfirmRead, VoidSelfRequest
  <1>2. CASE ReconcilePaid(h)
    <2>1. handler[h].co \in Checkouts /\ gateway[handler[h].co].session = "paid"
      BY <1>2 DEF ReconcilePaid, IInv, HandlersAgree, HandlerAgrees
    <2> QED
      BY <1>2, <2>1, GrantStep DEF ReconcilePaid
  <1>3. CASE ReconcileUnpaid(h)
    <2>1. handler[h].co \in Checkouts
      BY <1>3 DEF ReconcileUnpaid, IInv, HandlersAgree, HandlerAgrees
    <2> QED
      BY <1>3, <2>1, FailStep DEF ReconcileUnpaid
  <1>4. CASE ClaimRefund(h) \/ RollBackClaim(h)
    BY <1>4, ClaimStep
  <1>5. CASE SubmitRefund(h)
    BY <1>5, PayBackStep
  <1>6. CASE SettleRefund(h) \/ ConfirmRefund(h)
    BY <1>6, RecordStep DEF SettleRefund, ConfirmRefund, At
  <1> QED
    BY <1>1, <1>2, <1>3, <1>4, <1>5, <1>6 DEF Proceed

LEMMA WebhookLedger ==
  ASSUME IInv, NEW c \in Checkouts,
         WebhookSucceeded(c) \/ WebhookFailed(c) \/ WebhookRefundedUnconfirmed(c)
  PROVE  [Ledger!Next]_(Ledger!ledger)
  <1>1. CASE WebhookSucceeded(c)
    <2>1. gateway[c].session = "paid"
      BY <1>1 DEF WebhookSucceeded, IInv, RowsAgree, RowAgrees
    <2> QED
      BY <1>1, <2>1, GrantStep DEF WebhookSucceeded
  <1>2. CASE WebhookFailed(c)
    BY <1>2, FailStep DEF WebhookFailed
  <1>3. CASE WebhookRefundedUnconfirmed(c)
    BY <1>3, OrgStep DEF WebhookRefundedUnconfirmed
  <1> QED
    BY <1>1, <1>2, <1>3

LEMMA NextLedger ==
  ASSUME ~GatewayFaults, IInv, IInv', [Next]_vars
  PROVE  [Ledger!Next]_(Ledger!ledger)
  <1>1. CASE UNCHANGED vars
    BY <1>1, OrgStep DEF vars
  <1>2. CASE Tick \/ Sweep
    BY <1>2, OrgStep
    DEF Tick, Sweep, ApplyScheduledChange, ApplyLapseToFree, RepairPlanlessOrganization
  <1>3. CASE AdminStep
    BY <1>3, OrgStep DEF AdminStep, SetOrganizationSubscription, CancelOrganizationSubscription
  <1>4. CASE \E p \in PaidPlans, purpose \in {"subscribe", "change_plan"} :
               CreateOrgCheckout(p, purpose)
    BY <1>4, CreateStep
  <1>5. CASE \/ \E p \in Plans : SelfSubscribe(p)
             \/ ConfirmSelfSubscriptionRequest
             \/ CancelSelfSubscriptionRequest
    BY <1>5, OrgStep
    DEF SelfSubscribe, ConfirmSelfSubscriptionRequest, CancelSelfSubscriptionRequest
  <1>6. ASSUME NEW c \in Checkouts,
               \/ OpenSession(c) \/ CustomerPays(c) \/ GatewayCaptures(c) \/ GatewayDeclines(c)
               \/ GatewaySettlesRefund(c)
               \/ WebhookSucceeded(c) \/ WebhookFailed(c) \/ WebhookRefundedUnconfirmed(c)
        PROVE  [Ledger!Next]_(Ledger!ledger)
    BY <1>6, OpenStep, GatewayStep, WebhookLedger
  <1>7. ASSUME NEW h \in Handlers,
               \/ Proceed(h) \/ Crash(h) \/ StatusRead(h)
               \/ CancelWithoutRefund(h) \/ CancelRead(h)
               \/ \E c \in Checkouts : WebhookRefunded(h, c)
        PROVE  [Ledger!Next]_(Ledger!ledger)
    <2>1. CASE Proceed(h)
      BY <2>1, ProceedLedger
    <2>2. CASE StatusRead(h)
      BY <2>2, StatusReadStep
    <2>3. CASE Crash(h) \/ CancelWithoutRefund(h) \/ CancelRead(h)
               \/ \E c \in Checkouts : WebhookRefunded(h, c)
      BY <2>3, OrgStep DEF Crash, CancelWithoutRefund, DropPending, CancelRead, WebhookRefunded
    <2> QED
      BY <1>7, <2>1, <2>2, <2>3
  <1> QED
    BY <1>1, <1>2, <1>3, <1>4, <1>5, <1>6, <1>7 DEF Next

\* As long as no answer of the gateway is lost, every charge is captured, then
\* granted, then paid back at most once, then recorded, and a recorded refund
\* leaves no plan of its own waiting (payment.service.js and
\* subscriptionCheckout.service.js together implement ChargeLedger).
THEOREM Refinement ==
  ASSUME ~GatewayFaults PROVE Spec => ChargesFollowTheLedger
  <1>1. IInv /\ IInv' /\ [Next]_vars => [Ledger!Next]_(Ledger!ledger)
    BY NextLedger
  <1> QED
    BY <1>1, InitLedger, Invariance, PTL DEF Spec, Ledger!Spec, ChargesFollowTheLedger

----------------------------------------------------------------------------
\* What the ledger's own promises add up to.
LedgerInv == Ledger!LedgerTypeOK /\ Ledger!Consistent

LEMMA InitLedgerInv == Ledger!Init => LedgerInv
  BY DEF Ledger!Init, LedgerInv, Ledger!LedgerTypeOK, Ledger!Consistent

LEMMA StepLedgerInv == ASSUME LedgerInv, [Ledger!Next]_(Ledger!ledger) PROVE LedgerInv'
  <1>1. CASE Ledger!Withdraw
    BY <1>1 DEF Ledger!Withdraw, LedgerInv, Ledger!LedgerTypeOK, Ledger!Consistent
  <1>2. ASSUME NEW c \in Checkouts, Ledger!Capture(c) PROVE LedgerInv'
    BY <1>2 DEF Ledger!Capture, LedgerInv, Ledger!LedgerTypeOK, Ledger!Consistent
  <1>3. ASSUME NEW c \in Checkouts, Ledger!Grant(c) PROVE LedgerInv'
    BY <1>3 DEF Ledger!Grant, LedgerInv, Ledger!LedgerTypeOK, Ledger!Consistent
  <1>4. ASSUME NEW c \in Checkouts, Ledger!PayBack(c) PROVE LedgerInv'
    <2> DEFINE refunds  == [d \in Checkouts |-> gateway[d].refunds]
               captured == {d \in Checkouts : gateway[d].session = "paid"}
               recorded == {d \in Checkouts : checkout[d].refund = "refunded"}
    <2>1. /\ c \in payment /\ refunds[c] = 0 /\ refunds' = [refunds EXCEPT ![c] = 1]
          /\ captured' = captured /\ recorded' = recorded
          /\ UNCHANGED <<payment, scheduledBy>>
      BY <1>4 DEF Ledger!PayBack
    <2>2. /\ refunds \in [Checkouts -> Nat] /\ payment \subseteq captured
          /\ \A d \in Checkouts : refunds[d] <= 1 /\ (refunds[d] = 1 => d \in payment)
          /\ \A d \in recorded : refunds[d] = 1
          /\ scheduledBy # NoCheckout => scheduledBy \in payment \ recorded
          /\ captured \subseteq Checkouts /\ recorded \subseteq Checkouts
          /\ payment \subseteq Checkouts
          /\ scheduledBy \in Checkouts \union {NoCheckout}
      BY DEF LedgerInv, Ledger!LedgerTypeOK, Ledger!Consistent
    <2> HIDE DEF refunds, captured, recorded
    <2>3. /\ refunds' \in [Checkouts -> Nat] /\ payment' \subseteq captured'
          /\ \A d \in Checkouts : refunds'[d] <= 1 /\ (refunds'[d] = 1 => d \in payment')
          /\ \A d \in recorded' : refunds'[d] = 1
          /\ scheduledBy' # NoCheckout => scheduledBy' \in payment' \ recorded'
      BY <2>1, <2>2
    <2>4. /\ captured' \subseteq Checkouts /\ recorded' \subseteq Checkouts
          /\ payment' \subseteq Checkouts /\ scheduledBy' \in Checkouts \union {NoCheckout}
      BY <2>1, <2>2
    <2> QED
      BY <2>3, <2>4 DEF LedgerInv, Ledger!LedgerTypeOK, Ledger!Consistent, refunds, captured, recorded
  <1>5. ASSUME NEW c \in Checkouts, Ledger!Record(c) PROVE LedgerInv'
    BY <1>5 DEF Ledger!Record, LedgerInv, Ledger!LedgerTypeOK, Ledger!Consistent
  <1>6. CASE UNCHANGED Ledger!ledger
    BY <1>6 DEF Ledger!ledger, LedgerInv, Ledger!LedgerTypeOK, Ledger!Consistent
  <1> QED
    BY <1>1, <1>2, <1>3, <1>4, <1>5, <1>6 DEF Ledger!Next

\* Each stage of a charge rests on the one before it, as long as no answer of the
\* gateway is lost: no money goes back for a plan that was not granted, none is
\* granted that was not paid, what is shown as refunded was returned once, and the
\* waiting plan belongs to a charge that is not shown as refunded.
THEOREM ChargesAreConsistent ==
  ASSUME ~GatewayFaults PROVE Spec => []Ledger!Consistent
  <1>1. LedgerInv => Ledger!Consistent
    BY DEF LedgerInv
  <1> QED
    BY <1>1, InitLedgerInv, StepLedgerInv, Refinement, PTL DEF ChargesFollowTheLedger, Ledger!Spec
================================================================================
