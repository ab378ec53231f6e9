----------------------------- MODULE Subscription -----------------------------
(***************************************************************************)
(* One organization's subscription: its row, the Safepay checkouts that    *)
(* pay for it, the payment ledger, the manual self-subscription request,   *)
(* the hourly lifecycle sweep, and every handler that touches them.        *)
(*                                                                         *)
(* A database transaction that locks the organization row is one step.  A  *)
(* handler that awaits between two statements outside a transaction is     *)
(* several steps, so other handlers, webhooks and the sweep run between    *)
(* them; handler[h] keeps where request h is and what it read before.      *)
(*                                                                         *)
(* The gateway is external: a checkout session, the refunds it accepted,   *)
(* whether a refund has settled, and the webhook events it still owes us.  *)
(* Events are delivered in any order, any number of times, until answered. *)
(***************************************************************************)
EXTENDS SubscriptionRules, FiniteSets

CONSTANTS
  MaxCheckouts,  \* bound: rows of subscription_checkouts
  Handlers,      \* requests the server can be serving at once
  Requests,      \* kinds of request the organization and the admins send
  MaxLate,       \* bound: ticks the sweep can be behind an expiry
  MaxRefunds,    \* bound: refunds the gateway accepts for one tracker
  GatewayFaults  \* can an answer of the gateway be lost?

RequestKinds == {"checkout", "cancel", "status", "self_subscribe", "admin_set", "admin_cancel"}

ASSUME BoundAssumption ==
  /\ MaxCheckouts \in Nat \ {0}
  /\ Requests \subseteq RequestKinds
  /\ MaxLate \in Nat
  /\ MaxRefunds \in Nat \ {0}
  /\ GatewayFaults \in BOOLEAN

\* Ids are handed out in increasing order; 0 is SQL NULL.
Checkouts  == 1 .. MaxCheckouts
NoCheckout == 0

VARIABLES
  org,          \* the organizations row
  checkout,     \* subscription_checkouts, by id
  payment,      \* trackers in the payment table (UNIQUE uq_payment_txn_ref)
  selfRequest,  \* plan of the pending self_subscription_requests row, or NoPlan
  gateway,      \* Safepay's record of each checkout
  events,       \* webhooks not yet answered with 200
  handler,      \* the requests in progress
  scheduledBy   \* history: the checkout whose payment set org.pending

vars == <<org, checkout, payment, selfRequest, gateway, events, handler, scheduledBy>>

CheckoutStatuses ==
  {"absent", "pending", "completed", "cancelled", "expired", "failed", "refunded"}

CheckoutRows == [status    : CheckoutStatuses,
                 plan      : Plans \union {NoPlan},
                 tracker   : BOOLEAN,                        \* gateway_tracker_id is set
                 completed : Nat,                            \* order of completed_at
                 resulted  : Plans \union {NoPlan},          \* resulted_in_pending_plan_id
                 refund    : {"none", "pending", "refunded"}]

NoRow == [status |-> "absent", plan |-> NoPlan, tracker |-> FALSE,
          completed |-> 0, resulted |-> NoPlan, refund |-> "none"]

GatewayRows == [session : {"none", "open", "processing", "paid"},
                refunds : Nat,
                settled : BOOLEAN]

EventTypes == {"succeeded", "failed", "refunded"}

\* Where a request is, between two of its steps.
Labels == {"idle",
           "flip", "reconcile", "paid", "unpaid",        \* getOrgSubscriptionStatus
           "claim", "submit", "refused", "inquire", "settle", "recheck",
                                                         \* refundScheduledChange
           "confirm_read", "confirm",                    \* confirmRefundSettled
           "void"}                                       \* cancelOrganizationSubscription

HandlerStates == [at   : Labels,
                  co   : Checkouts \union {NoCheckout},
                  seen : Plans \union {NoPlan},    \* the pending plan it read
                  hook : BOOLEAN]                  \* is it serving a webhook?

Idle == [at |-> "idle", co |-> NoCheckout, seen |-> NoPlan, hook |-> FALSE]

TypeOK ==
  /\ org \in OrgRows
  /\ checkout \in [Checkouts -> CheckoutRows]
  /\ payment \subseteq Checkouts
  /\ selfRequest \in Plans \union {NoPlan}
  /\ gateway \in [Checkouts -> GatewayRows]
  /\ events \subseteq (EventTypes \X Checkouts)
  /\ handler \in [Handlers -> HandlerStates]
  /\ scheduledBy \in Checkouts \union {NoCheckout}

\* An organization just created, one the repair still has to heal, or one an
\* admin has put on a paid plan for a full period.
Init ==
  /\ \/ org = FreeOrg
     \/ org = PlanlessOrg
     \/ \E p \in PaidPlans : org = ApplySubscriptionChange(FreeOrg, p, "activate_now")
  /\ checkout    = [c \in Checkouts |-> NoRow]
  /\ payment     = {}
  /\ selfRequest = NoPlan
  /\ gateway     = [c \in Checkouts |-> [session |-> "none", refunds |-> 0, settled |-> FALSE]]
  /\ events      = {}
  /\ handler     = [h \in Handlers |-> Idle]
  /\ scheduledBy = NoCheckout

----------------------------------------------------------------------------
(* Requests in progress *)

At(h, label) == handler[h].at = label

Goto(h, label, c, p) ==
  handler' = [handler EXCEPT ![h] = [@ EXCEPT !.at = label, !.co = c, !.seen = p]]

Done(h) == handler' = [handler EXCEPT ![h] = Idle]

\* The process dies: the request stops where it is.
Crash(h) ==
  /\ ~At(h, "idle")
  /\ Done(h)
  /\ UNCHANGED <<org, checkout, payment, selfRequest, gateway, events, scheduledBy>>

\* An event answered with 200 is not sent again, unless it was already resent.
Answered(e) == events' \in {events, events \ {e}}

AnswerIfHook(h) ==
  IF handler[h].hook THEN Answered(<<"refunded", handler[h].co>>) ELSE UNCHANGED events

\* Time passes.
Tick ==
  /\ org.left # NoExpiry
  /\ org.left > -MaxLate
  /\ org' = [org EXCEPT !.left = @ - 1]
  /\ UNCHANGED <<checkout, payment, selfRequest, gateway, events, handler, scheduledBy>>

----------------------------------------------------------------------------
(* Buying a plan *)

Pending == {c \in Checkouts : checkout[c].status = "pending"}

\* Checkouts older than two hours; which ones they are is left open.
ExpireStaleCheckouts(stale) ==
  [c \in Checkouts |->
     IF c \in stale THEN [checkout[c] EXCEPT !.status = "expired"] ELSE checkout[c]]

\* One transaction: stale checkouts expire, the other pending ones are
\* cancelled, the new row is inserted.  A Free plan is refused by createCheckout.
CreateOrgCheckout(p, purpose) ==
  /\ "checkout" \in Requests
  /\ org.status # "pending_payment"
  /\ purpose = "change_plan" => IsSubscriptionValid(org)
  /\ \E c \in Checkouts, stale \in SUBSET Pending :
       /\ checkout[c].status = "absent"
       /\ \A d \in 1 .. (c - 1) : checkout[d].status # "absent"
       /\ checkout' = [d \in Checkouts |->
            IF d = c THEN [NoRow EXCEPT !.status = "pending", !.plan = p]
            ELSE [checkout[d] EXCEPT !.status = IF d \in stale   THEN "expired"
                                           ELSE IF d \in Pending THEN "cancelled"
                                           ELSE @]]
  /\ UNCHANGED <<org, payment, selfRequest, gateway, events, handler, scheduledBy>>

\* The rest of createOrgCheckout, after the commit: the session is created at
\* the gateway, its tracker saved and the URL handed to the customer.  If the
\* process dies first the row keeps no tracker.
OpenSession(c) ==
  /\ checkout[c].status # "absent"
  /\ gateway[c].session = "none"
  /\ gateway' = [gateway EXCEPT ![c].session = "open"]
  /\ checkout' = [checkout EXCEPT ![c].tracker = TRUE]
  /\ UNCHANGED <<org, payment, selfRequest, events, handler, scheduledBy>>

\* Mutant: a tracker that is already in the ledger is granted again.
FinalizeWithoutDedup(c) ==
  LET plan      == checkout[c].plan
      action    == ResolveSubscriptionChange(org, plan, FALSE)
      scheduled == action = "change_scheduled"
  IN IF checkout[c].status = "completed"
     THEN UNCHANGED <<org, checkout, payment, scheduledBy>>
     ELSE /\ org' = ApplySubscriptionChange(org, plan, action)
          /\ checkout' = [checkout EXCEPT
               ![c].status    = "completed",
               ![c].completed = Cardinality(payment) + 1,
               ![c].resulted  = IF scheduled THEN plan ELSE @]
          /\ payment' = payment \union {c}
          /\ scheduledBy' = IF scheduled THEN c ELSE NoCheckout

\* The organization's change takes effect, the checkout is completed and its
\* tracker enters the ledger, all or nothing.  A tracker already in the ledger
\* (ER_DUP_ENTRY) rolls the whole transaction back.
FinalizeSuccessfulCheckout(c) ==
  LET plan      == checkout[c].plan
      action    == ResolveSubscriptionChange(org, plan, FALSE)
      scheduled == action = "change_scheduled"
  IN IF checkout[c].status = "completed" \/ c \in payment
     THEN UNCHANGED <<org, checkout, payment, scheduledBy>>
     ELSE /\ org' = ApplySubscriptionChange(org, plan, action)
          /\ checkout' = [checkout EXCEPT
               ![c].status    = "completed",
               ![c].completed = Cardinality(payment) + 1,
               ![c].resulted  = IF scheduled THEN plan ELSE @]
          /\ payment' = payment \union {c}
          /\ scheduledBy' = IF scheduled THEN c ELSE NoCheckout

MarkCheckoutFailed(c) ==
  checkout' = [checkout EXCEPT ![c].status = IF @ \in {"completed", "failed"} THEN @ ELSE "failed"]

----------------------------------------------------------------------------
(* The gateway and its webhooks *)

CustomerPays(c) ==
  /\ gateway[c].session = "open"
  /\ gateway' = [gateway EXCEPT ![c].session = "processing"]
  /\ UNCHANGED <<org, checkout, payment, selfRequest, events, handler, scheduledBy>>

GatewayCaptures(c) ==
  /\ gateway[c].session = "processing"
  /\ gateway' = [gateway EXCEPT ![c].session = "paid"]
  /\ events' = events \union {<<"succeeded", c>>}
  /\ UNCHANGED <<org, checkout, payment, selfRequest, handler, scheduledBy>>

\* A declined card; the customer may try again in the same session.
GatewayDeclines(c) ==
  /\ gateway[c].session = "processing"
  /\ gateway' = [gateway EXCEPT ![c].session = "open"]
  /\ events' = events \union {<<"failed", c>>}
  /\ UNCHANGED <<org, checkout, payment, selfRequest, handler, scheduledBy>>

GatewaySettlesRefund(c) ==
  /\ gateway[c].refunds > 0
  /\ ~gateway[c].settled
  /\ gateway' = [gateway EXCEPT ![c].settled = TRUE]
  /\ events' = events \union {<<"refunded", c>>}
  /\ UNCHANGED <<org, checkout, payment, selfRequest, handler, scheduledBy>>

\* Mutant: a payment for a checkout that is no longer pending is ignored.
WebhookSucceededIfPending(c) ==
  /\ <<"succeeded", c>> \in events
  /\ IF checkout[c].status = "pending"
     THEN FinalizeSuccessfulCheckout(c)
     ELSE UNCHANGED <<org, checkout, payment, scheduledBy>>
  /\ Answered(<<"succeeded", c>>)
  /\ UNCHANGED <<selfRequest, gateway, handler>>

\* handlePaymentWebhook, payment.succeeded.
WebhookSucceeded(c) ==
  /\ <<"succeeded", c>> \in events
  /\ FinalizeSuccessfulCheckout(c)
  /\ Answered(<<"succeeded", c>>)
  /\ UNCHANGED <<selfRequest, gateway, handler>>

\* handlePaymentWebhook, payment.failed.
WebhookFailed(c) ==
  /\ <<"failed", c>> \in events
  /\ MarkCheckoutFailed(c)
  /\ Answered(<<"failed", c>>)
  /\ UNCHANGED <<org, payment, selfRequest, gateway, handler, scheduledBy>>

\* Mutant: a refund event is of an unsupported type.
WebhookRefundedIgnored(h, c) ==
  /\ At(h, "idle")
  /\ <<"refunded", c>> \in events
  /\ Answered(<<"refunded", c>>)
  /\ UNCHANGED <<org, checkout, payment, selfRequest, gateway, handler, scheduledBy>>

\* handlePaymentWebhook, a refund event: the gateway is asked again before
\* anything is believed ...
WebhookRefunded(h, c) ==
  /\ At(h, "idle")
  /\ <<"refunded", c>> \in events
  /\ handler' = [handler EXCEPT ![h] =
                   [at |-> "confirm_read", co |-> c, seen |-> NoPlan, hook |-> TRUE]]
  /\ UNCHANGED <<org, checkout, payment, selfRequest, gateway, events, scheduledBy>>

\* ... and when it cannot be asked the event is answered with 200 all the same.
WebhookRefundedUnconfirmed(c) ==
  /\ GatewayFaults
  /\ <<"refunded", c>> \in events
  /\ Answered(<<"refunded", c>>)
  /\ UNCHANGED <<org, checkout, payment, selfRequest, gateway, handler, scheduledBy>>

----------------------------------------------------------------------------
(* Showing the subscription: getOrgSubscriptionStatus                      *)
(* (getMyPlan and the admins' organization list end after the flip)        *)

\* The row is read without a lock.
StatusRead(h) ==
  /\ "status" \in Requests
  /\ At(h, "idle")
  /\ \E stale \in SUBSET Pending : checkout' = ExpireStaleCheckouts(stale)
  /\ LET lapsed == org.plan # FreePlan /\ org.status = "active" /\ Past(org)
     IN Goto(h, IF lapsed THEN "flip" ELSE "reconcile", NoCheckout, NoPlan)
  /\ UNCHANGED <<org, payment, selfRequest, gateway, events, scheduledBy>>

\* UPDATE organizations SET subscription_status='expired' WHERE id=?
StatusFlip(h) ==
  /\ At(h, "flip")
  /\ org' = [org EXCEPT !.status = "expired"]
  /\ Goto(h, "reconcile", NoCheckout, NoPlan)
  /\ UNCHANGED <<checkout, payment, selfRequest, gateway, events, scheduledBy>>

\* The newest pending checkout is looked up at the gateway.
StatusReconcile(h) ==
  /\ At(h, "reconcile")
  /\ LET open == {c \in Pending : \A d \in Pending : d <= c}
     IN \/ \E c \in open :
             /\ checkout[c].tracker
             /\ \/ gateway[c].session = "paid" /\ Goto(h, "paid", c, NoPlan)
                \/ gateway[c].session = "processing" /\ Goto(h, "unpaid", c, NoPlan)
        \/ /\ \A c \in open :
                \/ ~checkout[c].tracker
                \/ gateway[c].session = "open"
                \/ GatewayFaults
           /\ Done(h)
  /\ UNCHANGED <<org, checkout, payment, selfRequest, gateway, events, scheduledBy>>

ReconcilePaid(h) ==
  /\ At(h, "paid")
  /\ FinalizeSuccessfulCheckout(handler[h].co)
  /\ Done(h)
  /\ UNCHANGED <<selfRequest, gateway, events>>

ReconcileUnpaid(h) ==
  /\ At(h, "unpaid")
  /\ MarkCheckoutFailed(handler[h].co)
  /\ Done(h)
  /\ UNCHANGED <<org, payment, selfRequest, gateway, events, scheduledBy>>

----------------------------------------------------------------------------
(* Cancelling a scheduled change: refundScheduledChange                    *)

\* The checkouts whose payment once scheduled plan p, and the last of them
\* (ORDER BY completed_at DESC LIMIT 1).
Produced(p) == {c \in Checkouts : checkout[c].resulted = p}
Latest(p)   == {c \in Produced(p) :
                  \A d \in Produced(p) : checkout[d].completed <= checkout[c].completed}

DropPending ==
  /\ org' = [org EXCEPT !.pending = NoPlan]
  /\ scheduledBy' = NoCheckout

\* The first transaction.  Nothing was paid for the scheduled change, or what
\* was paid has already been returned: only the intent is left to clear.
CancelWithoutRefund(h) ==
  /\ "cancel" \in Requests
  /\ At(h, "idle")
  /\ org.pending # NoPlan
  /\ \A c \in Latest(org.pending) :
       checkout[c].status = "refunded" \/ checkout[c].refund = "refunded"
  /\ DropPending
  /\ UNCHANGED <<checkout, payment, selfRequest, gateway, events, handler>>

\* The first transaction.  A refund asked for earlier is looked up again;
\* otherwise one is going to be asked for.
CancelRead(h) ==
  /\ "cancel" \in Requests
  /\ At(h, "idle")
  /\ org.pending # NoPlan
  /\ \E c \in Latest(org.pending) :
       /\ checkout[c].status # "refunded"
       /\ checkout[c].refund # "refunded"
       /\ Goto(h, IF checkout[c].refund = "pending" THEN "recheck" ELSE "claim", c, org.pending)
  /\ UNCHANGED <<org, checkout, payment, selfRequest, gateway, events, scheduledBy>>

\* Mutant: a refund that was submitted counts as settled.
CancelRecheckTrusting(h) ==
  /\ At(h, "recheck")
  /\ Goto(h, "confirm_read", handler[h].co, NoPlan)
  /\ UNCHANGED <<org, checkout, payment, selfRequest, gateway, events, scheduledBy>>

CancelRecheck(h) ==
  /\ At(h, "recheck")
  /\ LET c == handler[h].co
     IN \/ gateway[c].settled /\ Goto(h, "confirm_read", c, NoPlan)
        \/ (~gateway[c].settled \/ GatewayFaults) /\ Done(h)
  /\ UNCHANGED <<org, checkout, payment, selfRequest, gateway, events, scheduledBy>>

\* Mutant: the claim is not conditional on refund_status.
ClaimRefundUnguarded(h) ==
  /\ At(h, "claim")
  /\ checkout' = [checkout EXCEPT ![handler[h].co].refund = "pending"]
  /\ Goto(h, "submit", handler[h].co, handler[h].seen)
  /\ UNCHANGED <<org, payment, selfRequest, gateway, events, scheduledBy>>

\* UPDATE ... SET refund_status='pending' WHERE id=? AND refund_status='none'
ClaimRefund(h) ==
  /\ At(h, "claim")
  /\ LET c == handler[h].co
     IN IF checkout[c].refund = "none"
        THEN /\ checkout' = [checkout EXCEPT ![c].refund = "pending"]
             /\ Goto(h, "submit", c, handler[h].seen)
        ELSE UNCHANGED checkout /\ Done(h)
  /\ UNCHANGED <<org, payment, selfRequest, gateway, events, scheduledBy>>

\* The gateway accepts the refund, refuses it, or accepts it and the answer is
\* lost; the code sees the last two as the same exception.
SubmitRefund(h) ==
  /\ At(h, "submit")
  /\ LET c == handler[h].co
         accepted == /\ gateway[c].refunds < MaxRefunds
                     /\ gateway' = [gateway EXCEPT ![c].refunds = @ + 1]
     IN \/ accepted /\ Goto(h, "inquire", c, handler[h].seen)
        \/ UNCHANGED gateway /\ Goto(h, "refused", c, handler[h].seen)
        \/ GatewayFaults /\ accepted /\ Goto(h, "refused", c, handler[h].seen)
  /\ UNCHANGED <<org, checkout, payment, selfRequest, events, scheduledBy>>

\* UPDATE ... SET refund_status='none' WHERE id=? AND refund_status='pending'
RollBackClaim(h) ==
  /\ At(h, "refused")
  /\ LET c == handler[h].co
     IN checkout' = [checkout EXCEPT ![c].refund = IF @ = "pending" THEN "none" ELSE @]
  /\ Done(h)
  /\ UNCHANGED <<org, payment, selfRequest, gateway, events, scheduledBy>>

\* Submitting is not settling: the gateway is asked which of the two it is.
InquireRefund(h) ==
  /\ At(h, "inquire")
  /\ LET c == handler[h].co
     IN \/ gateway[c].settled /\ Goto(h, "settle", c, handler[h].seen)
        \/ (~gateway[c].settled \/ GatewayFaults) /\ Done(h)
  /\ UNCHANGED <<org, checkout, payment, selfRequest, gateway, events, scheduledBy>>

\* Mutant: the money goes back and the change stays.
RecordRefundOnly(h) ==
  /\ checkout' = [checkout EXCEPT ![handler[h].co].status = "refunded",
                                  ![handler[h].co].refund = "refunded"]
  /\ UNCHANGED <<org, scheduledBy>>

\* The checkout becomes refunded, and the scheduled change is dropped if the
\* pending plan is the one that was read earlier.
RecordRefund(h) ==
  LET c == handler[h].co
  IN /\ checkout' = [checkout EXCEPT ![c].status = "refunded", ![c].refund = "refunded"]
     /\ IF handler[h].seen # NoPlan /\ org.pending = handler[h].seen
        THEN DropPending
        ELSE UNCHANGED <<org, scheduledBy>>

SettleRefund(h) ==
  /\ At(h, "settle")
  /\ RecordRefund(h)
  /\ Done(h)
  /\ UNCHANGED <<payment, selfRequest, gateway, events>>

\* confirmRefundSettled: two reads without a lock, then one transaction.
ConfirmRead(h) ==
  /\ At(h, "confirm_read")
  /\ LET c == handler[h].co
     IN IF checkout[c].refund = "refunded"
        THEN Done(h) /\ AnswerIfHook(h)
        ELSE Goto(h, "confirm", c, org.pending) /\ UNCHANGED events
  /\ UNCHANGED <<org, checkout, payment, selfRequest, gateway, scheduledBy>>

ConfirmRefund(h) ==
  /\ At(h, "confirm")
  /\ RecordRefund(h)
  /\ Done(h)
  /\ AnswerIfHook(h)
  /\ UNCHANGED <<payment, selfRequest, gateway>>

----------------------------------------------------------------------------
(* The hourly sweep: applyDueSubscriptionChanges.  Each organization is     *)
(* handled in a transaction of its own that checks again under the lock.    *)

ApplyScheduledChange ==
  /\ org.pending # NoPlan
  /\ Due(org)
  /\ org' = [status |-> "active", plan |-> org.pending, pending |-> NoPlan,
             left |-> ExpiryForPlan(org.pending, org.left)]
  /\ scheduledBy' = NoCheckout
  /\ UNCHANGED <<checkout, payment, selfRequest, gateway, events, handler>>

\* Mutants: the old expiry stays; an organization shown as expired is missed.
LapseKeepsExpiry ==
  /\ org.pending = NoPlan
  /\ org.plan \in PaidPlans
  /\ Due(org)
  /\ org' = [org EXCEPT !.status = "active", !.plan = FreePlan]
  /\ UNCHANGED <<checkout, payment, selfRequest, gateway, events, handler, scheduledBy>>

LapseOfActiveOnly ==
  /\ org.pending = NoPlan
  /\ org.plan \in PaidPlans
  /\ org.status = "active"
  /\ Due(org)
  /\ org' = FreeOrg
  /\ UNCHANGED <<checkout, payment, selfRequest, gateway, events, handler, scheduledBy>>

ApplyLapseToFree ==
  /\ org.pending = NoPlan
  /\ org.plan \in PaidPlans
  /\ Due(org)
  /\ org' = [org EXCEPT !.status = "active", !.plan = FreePlan, !.left = NoExpiry]
  /\ UNCHANGED <<checkout, payment, selfRequest, gateway, events, handler, scheduledBy>>

RepairPlanlessOrganization ==
  /\ org.pending = NoPlan
  /\ org.plan = NoPlan \/ org.status = "none"
  /\ org' = IF org.plan = NoPlan
            THEN [org EXCEPT !.status = "active", !.plan = FreePlan, !.left = NoExpiry]
            ELSE [org EXCEPT !.status = "active"]
  /\ UNCHANGED <<checkout, payment, selfRequest, gateway, events, handler, scheduledBy>>

----------------------------------------------------------------------------
(* Manual billing: self-subscription requests and the admins               *)

SelfSubscribe(p) ==
  /\ "self_subscribe" \in Requests
  /\ org.status \notin {"active", "pending_payment"}
  /\ selfRequest = NoPlan
  /\ selfRequest' = p
  /\ org' = [org EXCEPT !.status = "pending_payment", !.plan = p, !.pending = NoPlan]
  /\ scheduledBy' = NoCheckout
  /\ UNCHANGED <<checkout, payment, gateway, events, handler>>

ConfirmSelfSubscriptionRequest ==
  /\ selfRequest # NoPlan
  /\ org' = ActivateOrgSubscription(org, selfRequest)
  /\ selfRequest' = NoPlan
  /\ scheduledBy' = NoCheckout
  /\ UNCHANGED <<checkout, payment, gateway, events, handler>>

\* Mutant: the request is cancelled and the organization is left waiting.
CancelRequestOnly ==
  /\ selfRequest # NoPlan
  /\ selfRequest' = NoPlan
  /\ UNCHANGED <<org, checkout, payment, gateway, events, handler, scheduledBy>>

\* assignFreePlanToOrg, unless the organization stopped waiting meanwhile.
CancelSelfSubscriptionRequest ==
  /\ selfRequest # NoPlan
  /\ selfRequest' = NoPlan
  /\ IF org.status = "pending_payment"
     THEN org' = FreeOrg /\ scheduledBy' = NoCheckout
     ELSE UNCHANGED <<org, scheduledBy>>
  /\ UNCHANGED <<checkout, payment, gateway, events, handler>>

SetOrganizationSubscription(p, force) ==
  /\ "admin_set" \in Requests
  /\ org' = ApplySubscriptionChange(org, p, ResolveSubscriptionChange(org, p, force))
  /\ selfRequest' = NoPlan
  /\ scheduledBy' = NoCheckout
  /\ UNCHANGED <<checkout, payment, gateway, events, handler>>

\* Two statements, no transaction: the plan first, then the request.
CancelOrganizationSubscription(h) ==
  /\ "admin_cancel" \in Requests
  /\ At(h, "idle")
  /\ org' = FreeOrg
  /\ scheduledBy' = NoCheckout
  /\ Goto(h, "void", NoCheckout, NoPlan)
  /\ UNCHANGED <<checkout, payment, selfRequest, gateway, events>>

VoidSelfRequest(h) ==
  /\ At(h, "void")
  /\ selfRequest' = NoPlan
  /\ Done(h)
  /\ UNCHANGED <<org, checkout, payment, gateway, events, scheduledBy>>

----------------------------------------------------------------------------
Sweep == ApplyScheduledChange \/ ApplyLapseToFree \/ RepairPlanlessOrganization

AdminStep ==
  \/ \E p \in Plans, force \in BOOLEAN : SetOrganizationSubscription(p, force)
  \/ \E h \in Handlers : CancelOrganizationSubscription(h)

\* The rest of a request that has begun.
Proceed(h) ==
  \/ StatusFlip(h) \/ StatusReconcile(h) \/ ReconcilePaid(h) \/ ReconcileUnpaid(h)
  \/ CancelRecheck(h) \/ ClaimRefund(h) \/ SubmitRefund(h) \/ RollBackClaim(h)
  \/ InquireRefund(h) \/ SettleRefund(h) \/ ConfirmRead(h) \/ ConfirmRefund(h)
  \/ VoidSelfRequest(h)

Next ==
  \/ Tick
  \/ Sweep
  \/ AdminStep
  \/ \E p \in PaidPlans, purpose \in {"subscribe", "change_plan"} : CreateOrgCheckout(p, purpose)
  \/ \E p \in Plans : SelfSubscribe(p)
  \/ ConfirmSelfSubscriptionRequest
  \/ CancelSelfSubscriptionRequest
  \/ \E c \in Checkouts :
       \/ OpenSession(c) \/ CustomerPays(c) \/ GatewayCaptures(c) \/ GatewayDeclines(c)
       \/ GatewaySettlesRefund(c)
       \/ WebhookSucceeded(c) \/ WebhookFailed(c) \/ WebhookRefundedUnconfirmed(c)
  \/ \E h \in Handlers :
       \/ Proceed(h)
       \/ Crash(h)
       \/ StatusRead(h)
       \/ CancelWithoutRefund(h)
       \/ CancelRead(h)
       \/ \E c \in Checkouts : WebhookRefunded(h, c)

Spec == Init /\ [][Next]_vars

\* The sweep runs every hour, time passes, the gateway settles what it accepted
\* and resends an event until it is answered, and a request that has begun goes
\* on unless its process dies.  Confirming a refund is fair in the strong sense:
\* the process does not die every time it gets there, and a place among the
\* Handlers (a bound of the model, the server has none) is free now and then.
FairSpec ==
  /\ Spec
  /\ WF_vars(Tick)
  /\ WF_vars(ApplyScheduledChange) /\ WF_vars(ApplyLapseToFree)
  /\ WF_vars(RepairPlanlessOrganization)
  /\ \A c \in Checkouts :
       /\ WF_vars(WebhookSucceeded(c))
       /\ WF_vars(GatewaySettlesRefund(c))
       /\ SF_vars(\E h \in Handlers : WebhookRefunded(h, c))
       /\ SF_vars(\E h \in Handlers : handler[h].co = c /\ ConfirmRead(h))
       /\ SF_vars(\E h \in Handlers : handler[h].co = c /\ ConfirmRefund(h))
  /\ \A h \in Handlers : WF_vars(Proceed(h))

----------------------------------------------------------------------------
(* Why the promises about refunds hold: what each stage rests on.          *)

\* The rows of the database and of the gateway agree on how far a charge is.
RowAgrees(c) ==
  /\ checkout[c].status # "absent" => checkout[c].plan \in Plans
  /\ gateway[c].session # "none" => checkout[c].status # "absent"
  /\ <<"failed", c>> \in events => gateway[c].session # "none"
  /\ <<"succeeded", c>> \in events => gateway[c].session = "paid"
  /\ c \in payment => gateway[c].session = "paid"
  /\ checkout[c].resulted # NoPlan => c \in payment
  /\ checkout[c].refund # "none" => c \in payment
  /\ gateway[c].refunds > 0 => c \in payment
  /\ gateway[c].settled => gateway[c].refunds > 0
  /\ <<"refunded", c>> \in events => gateway[c].settled
  /\ checkout[c].refund = "refunded" => gateway[c].settled

RowsAgree == \A c \in Checkouts : RowAgrees(c)

\* What a request read before its last await is still true where it matters.
HandlerAgrees(h) ==
  LET c == handler[h].co
  IN /\ At(h, "paid") => c \in Checkouts /\ gateway[c].session = "paid"
     /\ At(h, "unpaid") => c \in Checkouts /\ gateway[c].session # "none"
     /\ handler[h].at \in {"claim", "submit", "refused", "inquire", "settle", "recheck",
                           "confirm_read", "confirm"} => c \in payment
     /\ handler[h].at \in {"claim", "submit", "refused", "inquire", "settle"} =>
          handler[h].seen # NoPlan /\ handler[h].seen = checkout[c].resulted
     /\ handler[h].at \in {"settle", "confirm_read", "confirm"} => gateway[c].settled
     /\ At(h, "confirm") /\ scheduledBy = c => handler[h].seen = org.pending

HandlersAgree == \A h \in Handlers : HandlerAgrees(h)

\* The change that waits is the one its charge produced.
QueueAgrees ==
  scheduledBy # NoCheckout =>
    /\ scheduledBy \in payment
    /\ checkout[scheduledBy].refund # "refunded"
    /\ org.pending = checkout[scheduledBy].resulted
    /\ org.pending # NoPlan

\* A refund is being asked for by the one request whose claim is on the row.
Asking(h) == handler[h].at \in {"submit", "refused"}

ClaimsAgree ==
  ~GatewayFaults =>
    /\ \A c \in Checkouts :
         gateway[c].refunds <= 1 /\ (gateway[c].refunds = 1 => checkout[c].refund # "none")
    /\ \A h \in Handlers : Asking(h) =>
         /\ checkout[handler[h].co].refund = "pending"
         /\ gateway[handler[h].co].refunds = 0
         /\ \A g \in Handlers : Asking(g) /\ handler[g].co = handler[h].co => g = h

\* Inductive; the theorems of Subscription_proofs rest on it.
IInv == TypeOK /\ RowsAgree /\ HandlersAgree /\ QueueAgrees /\ ClaimsAgree

----------------------------------------------------------------------------
(* What is promised *)

\* Every charge goes through the stages of ChargeLedger, in order and once
\* (payment.service.js and subscriptionCheckout.service.js together).
Ledger == INSTANCE ChargeLedger WITH
            Charges  <- Checkouts,
            NoCharge <- NoCheckout,
            captured <- {c \in Checkouts : gateway[c].session = "paid"},
            granted  <- payment,
            paidBack <- [c \in Checkouts |-> gateway[c].refunds],
            recorded <- {c \in Checkouts : checkout[c].refund = "refunded"},
            queued   <- scheduledBy

ChargesFollowTheLedger == Ledger!Spec

\* From the moment a charge is recorded as refunded its change no longer waits,
\* and the plan that waits is the one its charge bought: the sweep does not grant
\* a change that is on record as refunded (refundScheduledChange,
\* confirmRefundSettled).  It says nothing of the time between the gateway's answer
\* and the record, when the sweep may grant what is being paid back.
RefundedChangeNeverQueued ==
  scheduledBy # NoCheckout =>
    /\ checkout[scheduledBy].refund # "refunded"
    /\ org.pending = checkout[scheduledBy].resulted

\* No charge is returned twice, however many requests cancel the same change
\* (the claim on refund_status in refundScheduledChange).
RefundedAtMostOnce == \A c \in Checkouts : gateway[c].refunds <= 1

\* A checkout is completed only by the delivery that granted it: neither a
\* repeated webhook nor one that arrives after the refund completes it again
\* (finalizeSuccessfulCheckout).
CompletedOnce ==
  [][\A c \in Checkouts :
       checkout[c].status # "completed" /\ checkout'[c].status = "completed" =>
         c \notin payment /\ c \in payment']_vars

\* While a paid period runs (isSubscriptionValid), nothing but an admin takes time
\* from it or puts the organization on a lower plan, whatever is bought, cancelled
\* or swept (resolveSubscriptionChange, applySubscriptionChange), and it stays
\* active, but for one step: the flip of a status page, which was decided on an
\* earlier read and may land on a period that a payment has renewed since.
PaidTimeKept ==
  [][IsSubscriptionValid(org) /\ org.plan \in PaidPlans /\ ~Tick /\ ~AdminStep =>
       /\ \/ org'.plan = org.plan /\ org'.left >= org.left
          \/ Tier[org'.plan] > Tier[org.plan] /\ org'.left = Period[org'.plan]
       /\ org'.status = "active" \/ \E h \in Handlers : StatusFlip(h)]_vars

\* An organization that waits for a manual payment has the request an admin
\* can confirm (selfSubscribe, confirm- and cancelSelfSubscriptionRequest).
PendingPaymentHasRequest == org.status = "pending_payment" => selfRequest # NoPlan

\* An active organization runs without an end exactly when it is on Free: no
\* paid plan is given away for ever and Free never lapses.
OnlyFreeIsUnlimited ==
  org.status = "active" => (org.left = NoExpiry <=> org.plan = FreePlan)

\* A paid plan that ran out ends on Free or on a new period
\* (applyDueSubscriptionChanges).
LapseResolved ==
  (org.plan \in PaidPlans /\ Due(org)) ~> (org.plan = FreePlan \/ ~Due(org))

\* Money the gateway has taken is granted, whether the webhook or a status
\* page gets there first.
CapturedIsGranted ==
  \A c \in Checkouts : gateway[c].session = "paid" ~> c \in payment

\* A refund the gateway accepted is in the end shown as refunded, provided the
\* gateway's answers arrive (~GatewayFaults).  With a lost one it may never be: the
\* event is answered with 200 and not resent (handlePaymentWebhook).
RefundIsRecorded ==
  \A c \in Checkouts : gateway[c].refunds > 0 ~> checkout[c].refund = "refunded"

\* A subscription does not stay 'expired' for ever (payment.controller.js,
\* getMyPlan: the lifecycle job moves it onto Free).
ExpiredIsResolved == org.status = "expired" ~> org.status # "expired"

\* A refund that is recorded drops the change it returns and no other.
RefundDropsOnlyItsChange ==
  [][\A c, d \in Checkouts :
       /\ c # d /\ scheduledBy = d
       /\ checkout[c].refund # "refunded" /\ checkout'[c].refund = "refunded"
       => scheduledBy' = d]_vars
============================================================================
