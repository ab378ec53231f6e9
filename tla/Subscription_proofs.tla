-------------------------- MODULE Subscription_proofs --------------------------
(* Theorems about Subscription, for every number of checkouts and requests. *)
EXTENDS Subscription, FiniteSetTheorems, TLAPS

LEMMA ApplyTyped ==
  ASSUME NEW o \in OrgRows, NEW p \in Plans, NEW action
  PROVE  ApplySubscriptionChange(o, p, action) \in OrgRows
  BY PlanAssumption
  DEF ApplySubscriptionChange, OrgRows, ExpiryForPlan, Statuses

LEMMA LedgerCount ==
  ASSUME payment \subseteq Checkouts
  PROVE  Cardinality(payment) \in Nat
  <1>1. IsFiniteSet(Checkouts)
    BY BoundAssumption, FS_Interval DEF Checkouts
  <1>2. IsFiniteSet(payment)
    BY <1>1, FS_Subset
  <1> QED
    BY <1>2, FS_CardinalityType

LEMMA InitInv == Init => IInv
  <1> SUFFICES ASSUME Init PROVE IInv
    OBVIOUS
  <1>1. FreeOrg \in OrgRows /\ PlanlessOrg \in OrgRows
    BY PlanAssumption DEF FreeOrg, PlanlessOrg, OrgRows, Statuses
  <1>2. TypeOK
    BY <1>1, ApplyTyped, PlanAssumption
    DEF Init, TypeOK, PaidPlans, CheckoutRows, NoRow, CheckoutStatuses, GatewayRows,
        EventTypes, HandlerStates, Idle, Labels, NoCheckout
  <1>3. RowsAgree
    BY DEF Init, RowsAgree, RowAgrees, NoRow
  <1>4. HandlersAgree
    BY DEF Init, HandlersAgree, HandlerAgrees, Idle, At
  <1>5. QueueAgrees
    BY DEF Init, QueueAgrees
  <1>6. ClaimsAgree
    BY DEF Init, ClaimsAgree, Idle, Asking
  <1> QED
    BY <1>2, <1>3, <1>4, <1>5, <1>6 DEF IInv

----------------------------------------------------------------------------
(* What the steps have in common *)

\* Nothing a request in progress relies on is taken back.
Keeps ==
  /\ payment \subseteq payment'
  /\ \A c \in Checkouts :
       /\ gateway[c].session # "none" => gateway'[c].session # "none"
       /\ gateway[c].session = "paid" => gateway'[c].session = "paid"
       /\ gateway[c].settled => gateway'[c].settled
  /\ \A c \in payment :
       /\ checkout'[c].resulted = checkout[c].resulted
       /\ scheduledBy' = c => scheduledBy = c /\ org'.pending = org.pending

\* Only request h moves.
Moves(h) ==
  /\ handler' \in [Handlers -> HandlerStates]
  /\ \A g \in Handlers : g # h => handler'[g] = handler[g]

LEMMA HandlersStep ==
  ASSUME TypeOK, HandlersAgree, Keeps,
         \/ UNCHANGED handler
         \/ \E h \in Handlers : Moves(h) /\ HandlerAgrees(h)'
  PROVE  HandlersAgree'
  <1> SUFFICES ASSUME NEW g \in Handlers PROVE HandlerAgrees(g)'
    BY DEF HandlersAgree
  <1>1. CASE handler'[g] = handler[g]
    <2>1. HandlerAgrees(g)
      BY DEF HandlersAgree
    <2>2. handler[g].co \in payment => handler[g].co \in Checkouts
      BY DEF TypeOK
    <2> QED
      BY <1>1, <2>1, <2>2 DEF HandlerAgrees, Keeps, At
  <1>2. CASE handler'[g] # handler[g]
    BY <1>2 DEF Moves
  <1> QED
    BY <1>1, <1>2

LEMMA ClaimsStep ==
  ASSUME TypeOK, ClaimsAgree,
         \A c \in Checkouts : /\ checkout'[c].refund = checkout[c].refund
                              /\ gateway'[c].refunds = gateway[c].refunds,
         HandlersAgree,
         \/ UNCHANGED handler
         \/ \E h \in Handlers : Moves(h) /\ ~Asking(h)'
  PROVE  ClaimsAgree'
  <1>1. \A g \in Handlers : Asking(g)' => Asking(g) /\ handler'[g] = handler[g]
    BY DEF Moves, Asking
  <1>2. \A g \in Handlers : Asking(g) => handler[g].co \in Checkouts
    BY DEF HandlersAgree, HandlerAgrees, Asking, TypeOK
  <1> QED
    BY <1>1, <1>2 DEF ClaimsAgree

\* A step that leaves the checkouts, the ledger and the gateway alone.
LEMMA CalmStep ==
  ASSUME IInv, org' \in OrgRows,
         UNCHANGED <<checkout, payment, gateway>>,
         selfRequest' \in Plans \union {NoPlan},
         events' \subseteq events,
         \/ scheduledBy' = NoCheckout
         \/ scheduledBy' = scheduledBy /\ org'.pending = org.pending,
         \/ UNCHANGED handler
         \/ \E h \in Handlers : Moves(h) /\ HandlerAgrees(h)' /\ ~Asking(h)'
  PROVE  IInv'
  <1>1. TypeOK'
    BY DEF IInv, TypeOK, Moves
  <1>2. RowsAgree'
    BY DEF IInv, RowsAgree, RowAgrees
  <1>3. Keeps
    BY DEF IInv, TypeOK, Keeps, NoCheckout, Checkouts
  <1>4. HandlersAgree'
    BY <1>3, HandlersStep DEF IInv
  <1>5. QueueAgrees'
    BY DEF IInv, QueueAgrees
  <1>6. ClaimsAgree'
    BY ClaimsStep DEF IInv
  <1> QED
    BY <1>1, <1>2, <1>4, <1>5, <1>6 DEF IInv

\* A request goes on: its place, its checkout and what it has seen change.
LEMMA GotoStep ==
  ASSUME TypeOK, NEW h \in Handlers, NEW label \in Labels,
         NEW c \in Checkouts \union {NoCheckout}, NEW p \in Plans \union {NoPlan},
         Goto(h, label, c, p)
  PROVE  /\ Moves(h)
         /\ handler'[h].at = label /\ handler'[h].co = c /\ handler'[h].seen = p
  <1>1. handler' = [handler EXCEPT ![h] = [handler[h] EXCEPT !.at = label, !.co = c, !.seen = p]]
    BY DEF Goto
  <1>2. handler[h] \in HandlerStates
    BY DEF TypeOK
  <1>3. [handler[h] EXCEPT !.at = label, !.co = c, !.seen = p] \in HandlerStates
    BY <1>2 DEF HandlerStates
  <1> QED
    BY <1>1, <1>2, <1>3 DEF Moves, TypeOK, HandlerStates

LEMMA IdleAgrees ==
  ASSUME NEW h \in Handlers, handler'[h].at \in {"idle", "flip", "reconcile", "void"}
  PROVE  HandlerAgrees(h)' /\ ~Asking(h)'
  BY DEF HandlerAgrees, Asking, At

LEMMA DoneStep ==
  ASSUME TypeOK, NEW h \in Handlers, Done(h)
  PROVE  Moves(h) /\ handler'[h].at = "idle"
  <1>1. Idle \in HandlerStates
    BY DEF Idle, HandlerStates, Labels
  <1> QED
    BY <1>1 DEF Done, Moves, TypeOK, Idle

----------------------------------------------------------------------------
(* Steps that touch the organization, the requests and the events only *)

LEMMA CrashInv == ASSUME IInv, NEW h \in Handlers, Crash(h) PROVE IInv'
  BY DoneStep, IdleAgrees, CalmStep DEF Crash, IInv, TypeOK

LEMMA TickInv == ASSUME IInv, Tick PROVE IInv'
  <1>1. org' \in OrgRows /\ org'.pending = org.pending
    BY PlanAssumption DEF IInv, TypeOK, Tick, OrgRows
  <1> QED
    BY <1>1, CalmStep DEF Tick, IInv, TypeOK

LEMMA StatusFlipInv == ASSUME IInv, NEW h \in Handlers, StatusFlip(h) PROVE IInv'
  <1>1. org' \in OrgRows /\ org'.pending = org.pending
    BY DEF IInv, TypeOK, StatusFlip, OrgRows, Statuses
  <1>2. Moves(h) /\ handler'[h].at = "reconcile"
    BY GotoStep DEF StatusFlip, IInv, Labels
  <1> QED
    BY <1>1, <1>2, IdleAgrees, CalmStep DEF StatusFlip, IInv, TypeOK

LEMMA StatusReconcileInv ==
  ASSUME IInv, NEW h \in Handlers, StatusReconcile(h) PROVE IInv'
  <1>1. CASE Done(h)
    BY <1>1, DoneStep, IdleAgrees, CalmStep DEF StatusReconcile, IInv, TypeOK
  <1>2. CASE ~Done(h)
    <2>1. PICK c \in Checkouts :
            \/ gateway[c].session = "paid" /\ Goto(h, "paid", c, NoPlan)
            \/ gateway[c].session = "processing" /\ Goto(h, "unpaid", c, NoPlan)
      BY <1>2 DEF StatusReconcile, Pending
    <2>2. /\ Moves(h) /\ handler'[h].co = c
          /\ \/ handler'[h].at = "paid" /\ gateway[c].session = "paid"
             \/ handler'[h].at = "unpaid" /\ gateway[c].session = "processing"
      BY <2>1, GotoStep DEF IInv, Labels
    <2>3. HandlerAgrees(h)' /\ ~Asking(h)'
      BY <2>2 DEF HandlerAgrees, Asking, At, StatusReconcile
    <2> QED
      BY <2>2, <2>3, CalmStep DEF StatusReconcile, IInv, TypeOK
  <1> QED
    BY <1>1, <1>2

LEMMA WebhookRefundedInv ==
  ASSUME IInv, NEW h \in Handlers, NEW c \in Checkouts, WebhookRefunded(h, c) PROVE IInv'
  <1>1. [at |-> "confirm_read", co |-> c, seen |-> NoPlan, hook |-> TRUE] \in HandlerStates
    BY DEF HandlerStates, Labels
  <1>2. Moves(h) /\ handler'[h].at = "confirm_read" /\ handler'[h].co = c
    BY <1>1 DEF WebhookRefunded, Moves, IInv, TypeOK
  <1>3. c \in payment /\ gateway[c].settled
    BY DEF WebhookRefunded, IInv, RowsAgree, RowAgrees
  <1>4. HandlerAgrees(h)' /\ ~Asking(h)'
    BY <1>2, <1>3 DEF HandlerAgrees, Asking, At, WebhookRefunded
  <1> QED
    BY <1>2, <1>4, CalmStep DEF WebhookRefunded, IInv, TypeOK

LEMMA AnsweredStep ==
  ASSUME NEW e, Answered(e) PROVE events' \subseteq events
  BY DEF Answered

LEMMA WebhookRefundedUnconfirmedInv ==
  ASSUME IInv, NEW c \in Checkouts, WebhookRefundedUnconfirmed(c) PROVE IInv'
  BY AnsweredStep, CalmStep DEF WebhookRefundedUnconfirmed, IInv, TypeOK

LEMMA CancelWithoutRefundInv ==
  ASSUME IInv, NEW h \in Handlers, CancelWithoutRefund(h) PROVE IInv'
  <1>1. org' \in OrgRows /\ scheduledBy' = NoCheckout
    BY DEF CancelWithoutRefund, DropPending, IInv, TypeOK, OrgRows
  <1> QED
    BY <1>1, CalmStep DEF CancelWithoutRefund, IInv, TypeOK

LEMMA CancelReadInv == ASSUME IInv, NEW h \in Handlers, CancelRead(h) PROVE IInv'
  <1>1. PICK c \in Checkouts :
          /\ checkout[c].resulted = org.pending
          /\ Goto(h, IF checkout[c].refund = "pending" THEN "recheck" ELSE "claim",
                  c, org.pending)
    BY DEF CancelRead, Latest, Produced
  <1>2. org.pending \in Plans /\ org.pending # NoPlan
    BY DEF CancelRead, IInv, TypeOK, OrgRows
  <1>3. /\ Moves(h) /\ handler'[h].at \in {"recheck", "claim"}
        /\ handler'[h].co = c /\ handler'[h].seen = org.pending
    BY <1>1, <1>2, GotoStep DEF IInv, Labels
  <1>4. c \in payment
    BY <1>1, <1>2 DEF IInv, RowsAgree, RowAgrees
  <1>5. HandlerAgrees(h)' /\ ~Asking(h)'
    BY <1>1, <1>2, <1>3, <1>4 DEF HandlerAgrees, Asking, At, CancelRead
  <1> QED
    BY <1>3, <1>5, CalmStep DEF CancelRead, IInv, TypeOK

LEMMA CancelRecheckInv == ASSUME IInv, NEW h \in Handlers, CancelRecheck(h) PROVE IInv'
  <1>1. CASE Done(h)
    BY <1>1, DoneStep, IdleAgrees, CalmStep DEF CancelRecheck, IInv, TypeOK
  <1>2. CASE ~Done(h)
    <2> DEFINE c == handler[h].co
    <2>1. c \in payment /\ c \in Checkouts
      BY DEF CancelRecheck, At, IInv, HandlersAgree, HandlerAgrees, TypeOK
    <2>2. Goto(h, "confirm_read", c, NoPlan) /\ gateway[c].settled
      BY <1>2 DEF CancelRecheck
    <2>3. Moves(h) /\ handler'[h].at = "confirm_read" /\ handler'[h].co = c
      BY <2>1, <2>2, GotoStep DEF IInv, Labels
    <2>4. HandlerAgrees(h)' /\ ~Asking(h)'
      BY <2>1, <2>2, <2>3 DEF HandlerAgrees, Asking, At, CancelRecheck
    <2> QED
      BY <2>3, <2>4, CalmStep DEF CancelRecheck, IInv, TypeOK
  <1> QED
    BY <1>1, <1>2

LEMMA InquireRefundInv == ASSUME IInv, NEW h \in Handlers, InquireRefund(h) PROVE IInv'
  <1>1. CASE Done(h)
    BY <1>1, DoneStep, IdleAgrees, CalmStep DEF InquireRefund, IInv, TypeOK
  <1>2. CASE ~Done(h)
    <2> DEFINE c == handler[h].co
               p == handler[h].seen
    <2>1. /\ c \in payment /\ c \in Checkouts
          /\ p # NoPlan /\ p = checkout[c].resulted
      BY DEF InquireRefund, At, IInv, HandlersAgree, HandlerAgrees, TypeOK
    <2>2. p \in Plans
      BY <2>1 DEF IInv, TypeOK, HandlerStates
    <2>3. Goto(h, "settle", c, p) /\ gateway[c].settled
      BY <1>2 DEF InquireRefund
    <2>4. /\ Moves(h) /\ handler'[h].at = "settle"
          /\ handler'[h].co = c /\ handler'[h].seen = p
      BY <2>1, <2>2, <2>3, GotoStep DEF IInv, Labels
    <2>5. HandlerAgrees(h)' /\ ~Asking(h)'
      BY <2>1, <2>3, <2>4 DEF HandlerAgrees, Asking, At, InquireRefund
    <2> QED
      BY <2>4, <2>5, CalmStep DEF InquireRefund, IInv, TypeOK
  <1> QED
    BY <1>1, <1>2

LEMMA ConfirmReadInv == ASSUME IInv, NEW h \in Handlers, ConfirmRead(h) PROVE IInv'
  <1> DEFINE c == handler[h].co
  <1>1. c \in payment /\ c \in Checkouts /\ gateway[c].settled
    BY DEF ConfirmRead, At, IInv, HandlersAgree, HandlerAgrees, TypeOK
  <1>2. events' \subseteq events
    BY AnsweredStep DEF ConfirmRead, AnswerIfHook
  <1>3. CASE checkout[c].refund = "refunded"
    BY <1>2, <1>3, DoneStep, IdleAgrees, CalmStep DEF ConfirmRead, IInv, TypeOK
  <1>4. CASE checkout[c].refund # "refunded"
    <2>1. org.pending \in Plans \union {NoPlan}
      BY DEF IInv, TypeOK, OrgRows
    <2>2. /\ Moves(h) /\ handler'[h].at = "confirm"
          /\ handler'[h].co = c /\ handler'[h].seen = org.pending
      BY <1>1, <1>4, <2>1, GotoStep DEF ConfirmRead, IInv, Labels
    <2>3. HandlerAgrees(h)' /\ ~Asking(h)'
      BY <1>1, <2>2 DEF HandlerAgrees, Asking, At, ConfirmRead
    <2> QED
      BY <1>2, <2>2, <2>3, CalmStep DEF ConfirmRead, IInv, TypeOK
  <1> QED
    BY <1>3, <1>4

LEMMA SweepInv == ASSUME IInv, Sweep PROVE IInv'
  <1>1. CASE ApplyScheduledChange
    <2>1. org.pending \in Plans /\ org.left \in Int
      BY <1>1 DEF ApplyScheduledChange, Due, IInv, TypeOK, OrgRows
    <2>2. ExpiryForPlan(org.pending, org.left) \in Int \union {NoExpiry}
      BY <2>1, PlanAssumption DEF ExpiryForPlan
    <2>3. org' \in OrgRows
      BY <1>1, <2>1, <2>2 DEF ApplyScheduledChange, OrgRows, Statuses
    <2> QED
      BY <1>1, <2>3, CalmStep DEF ApplyScheduledChange, IInv, TypeOK
  <1>2. CASE ApplyLapseToFree
    <2>1. org' \in OrgRows /\ org'.pending = org.pending
      BY <1>2, PlanAssumption DEF ApplyLapseToFree, IInv, TypeOK, OrgRows, Statuses
    <2> QED
      BY <1>2, <2>1, CalmStep DEF ApplyLapseToFree, IInv, TypeOK
  <1>3. CASE RepairPlanlessOrganization
    <2>1. org' \in OrgRows /\ org'.pending = org.pending
      BY <1>3, PlanAssumption
      DEF RepairPlanlessOrganization, IInv, TypeOK, OrgRows, Statuses
    <2> QED
      BY <1>3, <2>1, CalmStep DEF RepairPlanlessOrganization, IInv, TypeOK
  <1> QED
    BY <1>1, <1>2, <1>3 DEF Sweep

LEMMA ManualBillingInv ==
  ASSUME IInv,
         \/ \E p \in Plans : SelfSubscribe(p)
         \/ ConfirmSelfSubscriptionRequest
         \/ CancelSelfSubscriptionRequest
  PROVE  IInv'
  <1>1. FreeOrg \in OrgRows
    BY PlanAssumption DEF FreeOrg, OrgRows, Statuses
  <1>2. ASSUME NEW p \in Plans, SelfSubscribe(p) PROVE IInv'
    <2>1. org' \in OrgRows
      BY <1>2 DEF SelfSubscribe, IInv, TypeOK, OrgRows, Statuses
    <2> QED
      BY <1>2, <2>1, CalmStep DEF SelfSubscribe, IInv, TypeOK
  <1>3. CASE ConfirmSelfSubscriptionRequest
    <2>1. org' \in OrgRows
      BY <1>3, ApplyTyped
      DEF ConfirmSelfSubscriptionRequest, ActivateOrgSubscription, IInv, TypeOK
    <2> QED
      BY <1>3, <2>1, CalmStep DEF ConfirmSelfSubscriptionRequest, IInv, TypeOK
  <1>4. CASE CancelSelfSubscriptionRequest
    <2>1. /\ org' \in OrgRows
          /\ \/ scheduledBy' = NoCheckout
             \/ scheduledBy' = scheduledBy /\ org'.pending = org.pending
      BY <1>1, <1>4 DEF CancelSelfSubscriptionRequest, IInv, TypeOK
    <2> QED
      BY <1>4, <2>1, CalmStep DEF CancelSelfSubscriptionRequest, IInv, TypeOK
  <1> QED
    BY <1>2, <1>3, <1>4

LEMMA AdminInv ==
  ASSUME IInv, AdminStep \/ \E h \in Handlers : VoidSelfRequest(h)
  PROVE  IInv'
  <1>1. FreeOrg \in OrgRows
    BY PlanAssumption DEF FreeOrg, OrgRows, Statuses
  <1>2. ASSUME NEW p \in Plans, NEW force \in BOOLEAN, SetOrganizationSubscription(p, force)
        PROVE  IInv'
    <2>1. org' \in OrgRows
      BY <1>2, ApplyTyped DEF SetOrganizationSubscription, IInv, TypeOK
    <2> QED
      BY <1>2, <2>1, CalmStep DEF SetOrganizationSubscription, IInv, TypeOK
  <1>3. ASSUME NEW h \in Handlers, CancelOrganizationSubscription(h) PROVE IInv'
    <2>1. Moves(h) /\ handler'[h].at = "void"
      BY <1>3, GotoStep DEF CancelOrganizationSubscription, IInv, Labels
    <2> QED
      BY <1>1, <1>3, <2>1, IdleAgrees, CalmStep
      DEF CancelOrganizationSubscription, IInv, TypeOK
  <1>4. ASSUME NEW h \in Handlers, VoidSelfRequest(h) PROVE IInv'
    BY <1>4, DoneStep, IdleAgrees, CalmStep DEF VoidSelfRequest, IInv, TypeOK
  <1> QED
    BY <1>2, <1>3, <1>4 DEF AdminStep

----------------------------------------------------------------------------
(* Steps that change a checkout or the gateway *)

\* Checkouts keep their rows except for a status, a tracker or a webhook.
LEMMA CheckoutStep ==
  ASSUME IInv, TypeOK', RowsAgree', UNCHANGED <<org, payment, scheduledBy>>,
         \A c \in Checkouts :
           /\ c \in payment => checkout'[c].resulted = checkout[c].resulted
           /\ checkout'[c].refund = checkout[c].refund
           /\ gateway'[c].refunds = gateway[c].refunds
           /\ gateway[c].session # "none" => gateway'[c].session # "none"
           /\ gateway[c].session = "paid" => gateway'[c].session = "paid"
           /\ gateway[c].settled => gateway'[c].settled,
         \/ UNCHANGED handler
         \/ \E h \in Handlers : Moves(h) /\ HandlerAgrees(h)' /\ ~Asking(h)'
  PROVE  IInv'
  <1>1. Keeps
    BY DEF IInv, TypeOK, Keeps
  <1>2. HandlersAgree'
    BY <1>1, HandlersStep DEF IInv
  <1>3. QueueAgrees'
    BY DEF IInv, QueueAgrees, TypeOK
  <1>4. ClaimsAgree'
    BY ClaimsStep DEF IInv
  <1> QED
    BY <1>2, <1>3, <1>4 DEF IInv

LEMMA CreateOrgCheckoutInv ==
  ASSUME IInv, NEW p \in PaidPlans, NEW purpose, CreateOrgCheckout(p, purpose)
  PROVE  IInv'
  <1>1. PICK c \in Checkouts, stale \in SUBSET Pending :
          /\ checkout[c].status = "absent"
          /\ checkout' = [d \in Checkouts |->
               IF d = c THEN [NoRow EXCEPT !.status = "pending", !.plan = p]
               ELSE [checkout[d] EXCEPT !.status = IF d \in stale   THEN "expired"
                                              ELSE IF d \in Pending THEN "cancelled"
                                              ELSE @]]
    BY DEF CreateOrgCheckout
  <1>2. p \in Plans /\ NoRow \in CheckoutRows
    BY DEF PaidPlans, NoRow, CheckoutRows, CheckoutStatuses
  <1>3. checkout'[c] = [NoRow EXCEPT !.status = "pending", !.plan = p]
    BY <1>1
  <1>4. ASSUME NEW d \in Checkouts, d # c
        PROVE  \E st \in CheckoutStatuses :
                 /\ checkout'[d] = [checkout[d] EXCEPT !.status = st]
                 /\ st = "absent" => checkout[d].status = "absent"
                 /\ checkout[d].status = "absent" => st = "absent"
    <2> DEFINE st == IF d \in stale   THEN "expired"
                ELSE IF d \in Pending THEN "cancelled"
                ELSE checkout[d].status
    <2>1. checkout'[d] = [checkout[d] EXCEPT !.status = st]
      BY <1>1, <1>4
    <2>2. stale \subseteq Pending
      BY <1>1
    <2>3. st \in CheckoutStatuses
      BY DEF IInv, TypeOK, CheckoutRows, CheckoutStatuses
    <2> QED
      BY <2>1, <2>2, <2>3 DEF Pending
  <1>5. checkout' \in [Checkouts -> CheckoutRows]
    <2>1. checkout'[c] \in CheckoutRows
      BY <1>2, <1>3 DEF CheckoutRows, CheckoutStatuses
    <2>2. ASSUME NEW d \in Checkouts, d # c PROVE checkout'[d] \in CheckoutRows
      <3>1. checkout[d] \in CheckoutRows
        BY DEF IInv, TypeOK
      <3> QED
        BY <1>4, <2>2, <3>1 DEF CheckoutRows
    <2>3. checkout' = [d \in Checkouts |-> checkout'[d]]
      BY <1>1
    <2> QED
      BY <2>1, <2>2, <2>3
  <1>6. TypeOK'
    BY <1>5 DEF CreateOrgCheckout, IInv, TypeOK
  <1>7. c \notin payment /\ checkout[c].refund = "none" /\ gateway[c].session = "none"
    BY <1>1 DEF IInv, RowsAgree, RowAgrees
  <1>8. \A d \in Checkouts :
          /\ d # c => /\ checkout'[d].resulted = checkout[d].resulted
                      /\ checkout'[d].plan = checkout[d].plan
                      /\ checkout'[d].status = "absent" => checkout[d].status = "absent"
                      /\ checkout[d].status = "absent" => checkout'[d].status = "absent"
          /\ checkout'[d].refund = checkout[d].refund
    <2>1. checkout'[c].refund = "none"
      BY <1>2, <1>3 DEF CheckoutRows, NoRow
    <2>2. ASSUME NEW d \in Checkouts, d # c
          PROVE  /\ checkout'[d].resulted = checkout[d].resulted
                 /\ checkout'[d].plan = checkout[d].plan
                 /\ checkout'[d].status = "absent" => checkout[d].status = "absent"
                 /\ checkout[d].status = "absent" => checkout'[d].status = "absent"
                 /\ checkout'[d].refund = checkout[d].refund
      <3>1. checkout[d] \in CheckoutRows
        BY DEF IInv, TypeOK
      <3> QED
        BY <1>4, <2>2, <3>1 DEF CheckoutRows
    <2> QED
      BY <1>7, <2>1, <2>2
  <1>9. /\ checkout'[c].status = "pending" /\ checkout'[c].plan = p
        /\ checkout'[c].resulted = NoPlan
    BY <1>3 DEF NoRow
  <1>10. RowsAgree'
    BY <1>2, <1>7, <1>8, <1>9 DEF IInv, RowsAgree, RowAgrees, CreateOrgCheckout
  <1> QED
    BY <1>6, <1>7, <1>8, <1>10, CheckoutStep DEF CreateOrgCheckout

\* One checkout gets another status or tracker, and its plan and refund stay.
LEMMA OneCheckout ==
  ASSUME TypeOK, NEW c \in Checkouts, NEW st \in CheckoutStatuses, NEW t \in BOOLEAN,
         checkout' = [checkout EXCEPT ![c].status = st, ![c].tracker = t]
  PROVE  /\ checkout' \in [Checkouts -> CheckoutRows]
         /\ checkout'[c].status = st
         /\ \A d \in Checkouts : /\ d # c => checkout'[d].status = checkout[d].status
                                 /\ checkout'[d].plan = checkout[d].plan
                                 /\ checkout'[d].resulted = checkout[d].resulted
                                 /\ checkout'[d].refund = checkout[d].refund
  <1>1. checkout[c] \in CheckoutRows
    BY DEF TypeOK
  <1>2. [checkout[c] EXCEPT !.status = st, !.tracker = t] \in CheckoutRows
    BY <1>1 DEF CheckoutRows
  <1>3. checkout' = [checkout EXCEPT ![c] = [checkout[c] EXCEPT !.status = st, !.tracker = t]]
    BY <1>1 DEF TypeOK, CheckoutRows
  <1> QED
    BY <1>1, <1>2, <1>3 DEF TypeOK, CheckoutRows

LEMMA MarkFailedStep ==
  ASSUME IInv, NEW c \in Checkouts, MarkCheckoutFailed(c), gateway[c].session # "none",
         UNCHANGED <<org, payment, selfRequest, gateway, scheduledBy>>, events' \subseteq events,
         \/ UNCHANGED handler
         \/ \E h \in Handlers : Moves(h) /\ HandlerAgrees(h)' /\ ~Asking(h)'
  PROVE  IInv'
  <1> DEFINE st == IF checkout[c].status \in {"completed", "failed"}
                   THEN checkout[c].status ELSE "failed"
  <1>1. checkout[c] \in CheckoutRows /\ checkout[c].status # "absent"
    BY DEF IInv, TypeOK, RowsAgree, RowAgrees
  <1>2. st \in CheckoutStatuses /\ st # "absent"
    BY <1>1 DEF CheckoutStatuses
  <1>3. [checkout EXCEPT ![c].status = st]
          = [checkout EXCEPT ![c].status = st, ![c].tracker = checkout[c].tracker]
    BY <1>1 DEF IInv, TypeOK, CheckoutRows
  <1>4. checkout' = [checkout EXCEPT ![c].status = st, ![c].tracker = checkout[c].tracker]
    BY <1>3 DEF MarkCheckoutFailed
  <1>5. checkout[c].tracker \in BOOLEAN
    BY <1>1 DEF CheckoutRows
  <1>6. /\ checkout' \in [Checkouts -> CheckoutRows]
        /\ checkout'[c].status = st
        /\ \A d \in Checkouts : /\ d # c => checkout'[d].status = checkout[d].status
                                /\ checkout'[d].plan = checkout[d].plan
                                /\ checkout'[d].resulted = checkout[d].resulted
                                /\ checkout'[d].refund = checkout[d].refund
    BY <1>2, <1>4, <1>5, OneCheckout DEF IInv
  <1>7. TypeOK'
    BY <1>6 DEF IInv, TypeOK, Moves
  <1>8. RowsAgree'
    BY <1>1, <1>2, <1>6 DEF IInv, RowsAgree, RowAgrees
  <1> QED
    BY <1>6, <1>7, <1>8, CheckoutStep

LEMMA WebhookFailedInv ==
  ASSUME IInv, NEW c \in Checkouts, WebhookFailed(c) PROVE IInv'
  <1>1. gateway[c].session # "none"
    BY DEF WebhookFailed, IInv, RowsAgree, RowAgrees
  <1> QED
    BY <1>1, AnsweredStep, MarkFailedStep DEF WebhookFailed

LEMMA ReconcileUnpaidInv ==
  ASSUME IInv, NEW h \in Handlers, ReconcileUnpaid(h) PROVE IInv'
  <1>1. handler[h].co \in Checkouts /\ gateway[handler[h].co].session # "none"
    BY DEF ReconcileUnpaid, IInv, HandlersAgree, HandlerAgrees
  <1>2. Moves(h) /\ HandlerAgrees(h)' /\ ~Asking(h)'
    BY DoneStep, IdleAgrees DEF ReconcileUnpaid, IInv
  <1> QED
    BY <1>1, <1>2, MarkFailedStep DEF ReconcileUnpaid

LEMMA OpenSessionInv == ASSUME IInv, NEW c \in Checkouts, OpenSession(c) PROVE IInv'
  <1>1. checkout[c] \in CheckoutRows /\ gateway[c] \in GatewayRows
    BY DEF IInv, TypeOK
  <1>2. checkout' = [checkout EXCEPT ![c].status = checkout[c].status, ![c].tracker = TRUE]
    BY <1>1 DEF OpenSession, IInv, TypeOK, CheckoutRows
  <1>3. checkout[c].status \in CheckoutStatuses
    BY <1>1 DEF CheckoutRows
  <1>4. /\ checkout' \in [Checkouts -> CheckoutRows]
        /\ \A d \in Checkouts : /\ checkout'[d].status = checkout[d].status
                                /\ checkout'[d].plan = checkout[d].plan
                                /\ checkout'[d].resulted = checkout[d].resulted
                                /\ checkout'[d].refund = checkout[d].refund
    BY <1>2, <1>3, OneCheckout DEF IInv
  <1>5. /\ gateway' \in [Checkouts -> GatewayRows]
        /\ gateway'[c].session = "open"
        /\ \A d \in Checkouts : /\ d # c => gateway'[d].session = gateway[d].session
                                /\ gateway'[d].refunds = gateway[d].refunds
                                /\ gateway'[d].settled = gateway[d].settled
    BY <1>1 DEF OpenSession, IInv, TypeOK, GatewayRows
  <1>6. TypeOK'
    BY <1>4, <1>5 DEF OpenSession, IInv, TypeOK
  <1>7. RowsAgree'
    <2>1. UNCHANGED <<payment, events>> /\ checkout[c].status # "absent"
      BY DEF OpenSession
    <2>2. c \notin payment /\ <<"succeeded", c>> \notin events
      BY DEF OpenSession, IInv, RowsAgree, RowAgrees
    <2>3. ASSUME NEW d \in Checkouts PROVE RowAgrees(d)'
      <3>1. CASE d = c
        BY <1>4, <1>5, <2>1, <2>2, <3>1 DEF IInv, RowsAgree, RowAgrees
      <3>2. CASE d # c
        BY <1>4, <1>5, <2>1, <3>2 DEF IInv, RowsAgree, RowAgrees
      <3> QED
        BY <3>1, <3>2
    <2> QED
      BY <2>3 DEF RowsAgree
  <1> QED
    BY <1>4, <1>5, <1>6, <1>7, CheckoutStep DEF OpenSession

LEMMA GatewayInv ==
  ASSUME IInv, NEW c \in Checkouts,
         CustomerPays(c) \/ GatewayCaptures(c) \/ GatewayDeclines(c) \/ GatewaySettlesRefund(c)
  PROVE  IInv'
  <1>1. gateway[c] \in GatewayRows
    BY DEF IInv, TypeOK
  <1>2. CASE CustomerPays(c)
    <2>1. /\ gateway' \in [Checkouts -> GatewayRows]
          /\ gateway'[c].session = "processing"
          /\ \A d \in Checkouts : /\ d # c => gateway'[d].session = gateway[d].session
                                  /\ gateway'[d].refunds = gateway[d].refunds
                                  /\ gateway'[d].settled = gateway[d].settled
      BY <1>1, <1>2 DEF CustomerPays, IInv, TypeOK, GatewayRows
    <2>2. TypeOK'
      BY <1>2, <2>1 DEF CustomerPays, IInv, TypeOK
    <2>3. RowsAgree'
      BY <1>2, <2>1 DEF CustomerPays, IInv, RowsAgree, RowAgrees
    <2> QED
      BY <1>2, <2>1, <2>2, <2>3, CheckoutStep DEF CustomerPays
  <1>3. CASE GatewayCaptures(c)
    <2>1. /\ gateway' \in [Checkouts -> GatewayRows]
          /\ gateway'[c].session = "paid"
          /\ \A d \in Checkouts : /\ d # c => gateway'[d].session = gateway[d].session
                                  /\ gateway'[d].refunds = gateway[d].refunds
                                  /\ gateway'[d].settled = gateway[d].settled
      BY <1>1, <1>3 DEF GatewayCaptures, IInv, TypeOK, GatewayRows
    <2>2. TypeOK'
      BY <1>3, <2>1 DEF GatewayCaptures, IInv, TypeOK, EventTypes
    <2>3. RowsAgree'
      BY <1>3, <2>1 DEF GatewayCaptures, IInv, RowsAgree, RowAgrees
    <2> QED
      BY <1>3, <2>1, <2>2, <2>3, CheckoutStep DEF GatewayCaptures
  <1>4. CASE GatewayDeclines(c)
    <2>1. /\ gateway' \in [Checkouts -> GatewayRows]
          /\ gateway'[c].session = "open"
          /\ \A d \in Checkouts : /\ d # c => gateway'[d].session = gateway[d].session
                                  /\ gateway'[d].refunds = gateway[d].refunds
                                  /\ gateway'[d].settled = gateway[d].settled
      BY <1>1, <1>4 DEF GatewayDeclines, IInv, TypeOK, GatewayRows
    <2>2. TypeOK'
      BY <1>4, <2>1 DEF GatewayDeclines, IInv, TypeOK, EventTypes
    <2>3. RowsAgree'
      BY <1>4, <2>1 DEF GatewayDeclines, IInv, RowsAgree, RowAgrees
    <2> QED
      BY <1>4, <2>1, <2>2, <2>3, CheckoutStep DEF GatewayDeclines
  <1>5. CASE GatewaySettlesRefund(c)
    <2>1. /\ gateway' \in [Checkouts -> GatewayRows]
          /\ gateway'[c].settled
          /\ \A d \in Checkouts : /\ d # c => gateway'[d].settled = gateway[d].settled
                                  /\ gateway'[d].refunds = gateway[d].refunds
                                  /\ gateway'[d].session = gateway[d].session
      BY <1>1, <1>5 DEF GatewaySettlesRefund, IInv, TypeOK, GatewayRows
    <2>2. TypeOK'
      BY <1>5, <2>1 DEF GatewaySettlesRefund, IInv, TypeOK, EventTypes
    <2>3. RowsAgree'
      BY <1>5, <2>1 DEF GatewaySettlesRefund, IInv, RowsAgree, RowAgrees
    <2> QED
      BY <1>5, <2>1, <2>2, <2>3, CheckoutStep DEF GatewaySettlesRefund
  <1> QED
    BY <1>2, <1>3, <1>4, <1>5

LEMMA StatusReadInv == ASSUME IInv, NEW h \in Handlers, StatusRead(h) PROVE IInv'
  <1>1. PICK stale \in SUBSET Pending : checkout' = ExpireStaleCheckouts(stale)
    BY DEF StatusRead
  <1>2. ASSUME NEW c \in Checkouts
        PROVE  /\ checkout'[c] \in CheckoutRows
               /\ checkout'[c].plan = checkout[c].plan
               /\ checkout'[c].resulted = checkout[c].resulted
               /\ checkout'[c].refund = checkout[c].refund
               /\ checkout'[c].status = "absent" <=> checkout[c].status = "absent"
    <2>1. checkout[c] \in CheckoutRows
      BY DEF IInv, TypeOK
    <2>2. CASE c \in stale
      <3>1. checkout'[c] = [checkout[c] EXCEPT !.status = "expired"]
        BY <1>1, <2>2 DEF ExpireStaleCheckouts
      <3>2. checkout[c].status = "pending"
        BY <1>1, <2>2 DEF Pending
      <3> QED
        BY <2>1, <3>1, <3>2 DEF CheckoutRows, CheckoutStatuses
    <2>3. CASE c \notin stale
      BY <1>1, <2>1, <2>3 DEF ExpireStaleCheckouts
    <2> QED
      BY <2>2, <2>3
  <1>3. checkout' \in [Checkouts -> CheckoutRows]
    BY <1>1, <1>2 DEF ExpireStaleCheckouts
  <1>4. Moves(h) /\ handler'[h].at \in {"flip", "reconcile"}
    BY GotoStep DEF StatusRead, IInv, Labels
  <1>5. TypeOK'
    BY <1>3, <1>4 DEF StatusRead, IInv, TypeOK, Moves
  <1>6. RowsAgree'
    BY <1>2 DEF StatusRead, IInv, RowsAgree, RowAgrees
  <1> QED
    BY <1>2, <1>4, <1>5, <1>6, IdleAgrees, CheckoutStep DEF StatusRead

----------------------------------------------------------------------------
(* Refunds *)

\* What a request that is refunding knows.
LEMMA RefundingKnows ==
  ASSUME IInv, NEW h \in Handlers,
         handler[h].at \in {"claim", "submit", "refused", "inquire", "settle"}
  PROVE  /\ handler[h].co \in payment /\ handler[h].co \in Checkouts
         /\ handler[h].seen \in Plans /\ handler[h].seen # NoPlan
         /\ handler[h].seen = checkout[handler[h].co].resulted
         /\ checkout[handler[h].co] \in CheckoutRows
         /\ gateway[handler[h].co] \in GatewayRows
  BY DEF IInv, TypeOK, HandlersAgree, HandlerAgrees, HandlerStates

\* Only the refund column of checkout c changes.
LEMMA RefundColumn ==
  ASSUME TypeOK, NEW c \in Checkouts, NEW r \in {"none", "pending", "refunded"},
         checkout' = [checkout EXCEPT ![c].refund = r]
  PROVE  /\ checkout' \in [Checkouts -> CheckoutRows]
         /\ checkout'[c].refund = r
         /\ \A d \in Checkouts : /\ d # c => checkout'[d].refund = checkout[d].refund
                                 /\ checkout'[d].status = checkout[d].status
                                 /\ checkout'[d].plan = checkout[d].plan
                                 /\ checkout'[d].resulted = checkout[d].resulted
  <1>1. checkout[c] \in CheckoutRows
    BY DEF TypeOK
  <1>2. [checkout[c] EXCEPT !.refund = r] \in CheckoutRows
    BY <1>1 DEF CheckoutRows
  <1> QED
    BY <1>1, <1>2 DEF TypeOK, CheckoutRows

LEMMA ClaimRefundInv == ASSUME IInv, NEW h \in Handlers, ClaimRefund(h) PROVE IInv'
  <1> DEFINE c == handler[h].co
             p == handler[h].seen
  <1>1. At(h, "claim")
    BY DEF ClaimRefund
  <1>2. /\ c \in payment /\ c \in Checkouts
        /\ p \in Plans /\ p # NoPlan /\ p = checkout[c].resulted
        /\ checkout[c] \in CheckoutRows
    BY <1>1, RefundingKnows DEF At
  <1>3. CASE checkout[c].refund # "none"
    BY <1>3, DoneStep, IdleAgrees, CalmStep DEF ClaimRefund, IInv, TypeOK
  <1>4. CASE checkout[c].refund = "none"
    <2>1. /\ checkout' = [checkout EXCEPT ![c].refund = "pending"]
          /\ Goto(h, "submit", c, p)
      BY <1>4 DEF ClaimRefund
    <2>2. /\ checkout' \in [Checkouts -> CheckoutRows]
          /\ checkout'[c].refund = "pending"
          /\ \A d \in Checkouts : /\ d # c => checkout'[d].refund = checkout[d].refund
                                  /\ checkout'[d].status = checkout[d].status
                                  /\ checkout'[d].plan = checkout[d].plan
                                  /\ checkout'[d].resulted = checkout[d].resulted
      BY <1>2, <2>1, RefundColumn DEF IInv
    <2>3. /\ Moves(h) /\ handler'[h].at = "submit"
          /\ handler'[h].co = c /\ handler'[h].seen = p
      BY <1>2, <2>1, GotoStep DEF IInv, Labels
    <2>4. TypeOK'
      BY <2>2, <2>3 DEF ClaimRefund, IInv, TypeOK, Moves
    <2>5. RowsAgree'
      BY <1>2, <2>2 DEF ClaimRefund, IInv, RowsAgree, RowAgrees
    <2>6. HandlerAgrees(h)'
      BY <1>2, <2>2, <2>3 DEF HandlerAgrees, At, ClaimRefund
    <2>7. Keeps
      BY <2>2 DEF Keeps, ClaimRefund, IInv, TypeOK
    <2>8. HandlersAgree'
      BY <2>3, <2>6, <2>7, HandlersStep DEF IInv
    <2>9. QueueAgrees'
      BY <2>2 DEF ClaimRefund, IInv, QueueAgrees, TypeOK
    <2>10. ClaimsAgree'
      <3> SUFFICES ASSUME ~GatewayFaults PROVE ClaimsAgree'
        BY DEF ClaimsAgree
      <3>1. gateway[c].refunds = 0
        <4>1. gateway[c].refunds \in Nat
          BY <1>2 DEF IInv, TypeOK, GatewayRows
        <4>2. gateway[c].refunds <= 1 /\ gateway[c].refunds # 1
          BY <1>2, <1>4 DEF IInv, ClaimsAgree
        <4> QED
          BY <4>1, <4>2
      <3>2. \A g \in Handlers : Asking(g) =>
              handler[g].co \in Checkouts /\ handler[g].co # c
        BY <1>4, RefundingKnows DEF IInv, ClaimsAgree, Asking
      <3>3. \A g \in Handlers : g # h => handler'[g] = handler[g]
        BY <2>3 DEF Moves
      <3>4. \A g \in Handlers : g # h => (Asking(g)' <=> Asking(g))
        BY <3>3 DEF Asking
      <3> QED
        BY <1>2, <2>2, <2>3, <3>1, <3>2, <3>3, <3>4 DEF ClaimsAgree, IInv, ClaimRefund
    <2> QED
      BY <2>4, <2>5, <2>8, <2>9, <2>10 DEF IInv
  <1> QED
    BY <1>3, <1>4

LEMMA RollBackClaimInv == ASSUME IInv, NEW h \in Handlers, RollBackClaim(h) PROVE IInv'
  <1> DEFINE c == handler[h].co
             r == IF checkout[c].refund = "pending" THEN "none" ELSE checkout[c].refund
  <1>1. At(h, "refused")
    BY DEF RollBackClaim
  <1>2. c \in payment /\ c \in Checkouts /\ checkout[c] \in CheckoutRows
    BY <1>1, RefundingKnows DEF At
  <1>3. r \in {"none", "pending", "refunded"} /\ (r = "refunded" => checkout[c].refund = r)
    BY <1>2 DEF CheckoutRows
  <1>4. checkout' = [checkout EXCEPT ![c].refund = r]
    BY DEF RollBackClaim
  <1>5. /\ checkout' \in [Checkouts -> CheckoutRows]
        /\ checkout'[c].refund = r
        /\ \A d \in Checkouts : /\ d # c => checkout'[d].refund = checkout[d].refund
                                /\ checkout'[d].status = checkout[d].status
                                /\ checkout'[d].plan = checkout[d].plan
                                /\ checkout'[d].resulted = checkout[d].resulted
    BY <1>2, <1>3, <1>4, RefundColumn DEF IInv
  <1>6. Moves(h) /\ handler'[h].at = "idle" /\ HandlerAgrees(h)' /\ ~Asking(h)'
    BY DoneStep, IdleAgrees DEF RollBackClaim, IInv
  <1>7. TypeOK'
    BY <1>5, <1>6 DEF RollBackClaim, IInv, TypeOK, Moves
  <1>8. RowsAgree'
    <2>1. ASSUME NEW d \in Checkouts PROVE RowAgrees(d)'
      <3>1. RowAgrees(d) /\ UNCHANGED <<gateway, events, payment>>
        BY DEF IInv, RowsAgree, RollBackClaim
      <3>2. CASE d = c
        BY <1>2, <1>3, <1>5, <3>1, <3>2 DEF RowAgrees
      <3>3. CASE d # c
        BY <1>5, <3>1, <3>3 DEF RowAgrees
      <3> QED
        BY <3>2, <3>3
    <2> QED
      BY <2>1 DEF RowsAgree
  <1>9. Keeps
    BY <1>5 DEF Keeps, RollBackClaim, IInv, TypeOK
  <1>10. HandlersAgree'
    BY <1>6, <1>9, HandlersStep DEF IInv
  <1>11. QueueAgrees'
    BY <1>3, <1>5 DEF RollBackClaim, IInv, QueueAgrees, TypeOK
  <1>12. ClaimsAgree'
    <2> SUFFICES ASSUME ~GatewayFaults PROVE ClaimsAgree'
      BY DEF ClaimsAgree
    <2>1. gateway[c].refunds = 0
      BY <1>1 DEF IInv, ClaimsAgree, Asking, At
    <2>2. \A g \in Handlers : Asking(g) /\ g # h =>
            handler[g].co \in Checkouts /\ handler[g].co # c
      BY <1>1, RefundingKnows DEF IInv, ClaimsAgree, Asking, At
    <2>3. \A g \in Handlers : Asking(g)' => g # h /\ Asking(g) /\ handler'[g] = handler[g]
      BY <1>6 DEF Moves, Asking
    <2> QED
      BY <1>2, <1>5, <2>1, <2>2, <2>3 DEF ClaimsAgree, IInv, RollBackClaim
  <1> QED
    BY <1>7, <1>8, <1>10, <1>11, <1>12 DEF IInv

LEMMA SubmitRefundInv == ASSUME IInv, NEW h \in Handlers, SubmitRefund(h) PROVE IInv'
  <1> DEFINE c == handler[h].co
             p == handler[h].seen
  <1>1. At(h, "submit")
    BY DEF SubmitRefund
  <1>2. /\ c \in payment /\ c \in Checkouts
        /\ p \in Plans /\ p # NoPlan /\ p = checkout[c].resulted
        /\ gateway[c] \in GatewayRows
    BY <1>1, RefundingKnows DEF At
  <1>3. /\ \/ gateway' = [gateway EXCEPT ![c].refunds = @ + 1]
           \/ UNCHANGED gateway
        /\ \/ Goto(h, "inquire", c, p)
           \/ Goto(h, "refused", c, p) /\ (GatewayFaults \/ UNCHANGED gateway)
    BY DEF SubmitRefund
  <1>4. /\ gateway' \in [Checkouts -> GatewayRows]
        /\ gateway'[c].refunds \in {gateway[c].refunds, gateway[c].refunds + 1}
        /\ \A d \in Checkouts : /\ d # c => gateway'[d].refunds = gateway[d].refunds
                                /\ gateway'[d].session = gateway[d].session
                                /\ gateway'[d].settled = gateway[d].settled
    BY <1>2, <1>3 DEF IInv, TypeOK, GatewayRows
  <1>5. /\ Moves(h) /\ handler'[h].at \in {"inquire", "refused"}
        /\ handler'[h].co = c /\ handler'[h].seen = p
    BY <1>2, <1>3, GotoStep DEF IInv, Labels
  <1>6. HandlerAgrees(h)'
    BY <1>2, <1>5 DEF HandlerAgrees, At, SubmitRefund
  <1>7. TypeOK'
    BY <1>4, <1>5 DEF SubmitRefund, IInv, TypeOK, Moves
  <1>8. RowsAgree'
    <2>1. gateway[c].refunds \in Nat
      BY <1>2 DEF GatewayRows
    <2>2. ASSUME NEW d \in Checkouts PROVE RowAgrees(d)'
      <3>1. RowAgrees(d) /\ UNCHANGED <<checkout, events, payment>>
        BY DEF IInv, RowsAgree, SubmitRefund
      <3>2. CASE d = c
        BY <1>2, <1>4, <2>1, <3>1, <3>2 DEF RowAgrees
      <3>3. CASE d # c
        BY <1>4, <3>1, <3>3 DEF RowAgrees
      <3> QED
        BY <3>2, <3>3
    <2> QED
      BY <2>2 DEF RowsAgree
  <1>9. Keeps
    BY <1>4 DEF Keeps, SubmitRefund, IInv, TypeOK
  <1>10. HandlersAgree'
    BY <1>5, <1>6, <1>9, HandlersStep DEF IInv
  <1>11. QueueAgrees'
    BY DEF SubmitRefund, IInv, QueueAgrees
  <1>12. ClaimsAgree'
    <2> SUFFICES ASSUME ~GatewayFaults PROVE ClaimsAgree'
      BY DEF ClaimsAgree
    <2>1. gateway[c].refunds = 0 /\ checkout[c].refund = "pending"
      BY <1>1 DEF IInv, ClaimsAgree, Asking, At
    <2>2. \A g \in Handlers : Asking(g) /\ g # h =>
            handler[g].co \in Checkouts /\ handler[g].co # c
      BY <1>1, RefundingKnows DEF IInv, ClaimsAgree, Asking, At
    <2>3. \A g \in Handlers : g # h => handler'[g] = handler[g]
      BY <1>5 DEF Moves
    <2>4. \A g \in Handlers : g # h => (Asking(g)' <=> Asking(g))
      BY <2>3 DEF Asking
    <2>5. Asking(h)' => gateway'[c].refunds = 0
      <3>1. Asking(h)' => Goto(h, "refused", c, p)
        BY <1>2, <1>3, GotoStep DEF IInv, Asking, Labels
      <3>2. CASE UNCHANGED gateway
        BY <2>1, <3>2
      <3>3. CASE ~UNCHANGED gateway
        <4>1. Goto(h, "inquire", c, p)
          BY <1>3, <3>3
        <4>2. handler'[h].at = "inquire"
          BY <1>2, <4>1, GotoStep DEF IInv, Labels
        <4> QED
          BY <4>2 DEF Asking
      <3> QED
        BY <3>2, <3>3
    <2>6. gateway'[c].refunds <= 1
      BY <1>4, <2>1
    <2> QED
      BY <1>2, <1>4, <1>5, <2>1, <2>2, <2>3, <2>4, <2>5, <2>6
      DEF ClaimsAgree, IInv, SubmitRefund
  <1> QED
    BY <1>7, <1>8, <1>10, <1>11, <1>12 DEF IInv

\* The checkout of h becomes refunded, and its change no longer waits.
LEMMA RecordRefundStep ==
  ASSUME IInv, NEW h \in Handlers, handler[h].at \in {"settle", "confirm"},
         RecordRefund(h), Done(h),
         UNCHANGED <<payment, selfRequest, gateway>>, events' \subseteq events
  PROVE  IInv'
  <1> DEFINE c == handler[h].co
  <1>1. /\ c \in payment /\ c \in Checkouts /\ gateway[c].settled
        /\ checkout[c] \in CheckoutRows
    BY DEF IInv, TypeOK, HandlersAgree, HandlerAgrees
  <1>2. checkout' = [checkout EXCEPT ![c] =
                       [checkout[c] EXCEPT !.status = "refunded", !.refund = "refunded"]]
    BY <1>1 DEF RecordRefund, IInv, TypeOK, CheckoutRows
  <1>3. [checkout[c] EXCEPT !.status = "refunded", !.refund = "refunded"] \in CheckoutRows
    BY <1>1 DEF CheckoutRows, CheckoutStatuses
  <1>4. /\ checkout' \in [Checkouts -> CheckoutRows]
        /\ checkout'[c].refund = "refunded"
        /\ \A d \in Checkouts : d # c => checkout'[d] = checkout[d]
        /\ \A d \in Checkouts : /\ checkout'[d].plan = checkout[d].plan
                                /\ checkout'[d].resulted = checkout[d].resulted
                                /\ checkout[d].status # "absent" <=> checkout'[d].status # "absent"
    <2>1. checkout[c].status # "absent"
      BY <1>1 DEF IInv, RowsAgree, RowAgrees
    <2> QED
      BY <1>1, <1>2, <1>3, <2>1 DEF IInv, TypeOK, CheckoutRows
  <1>5. Moves(h) /\ HandlerAgrees(h)' /\ ~Asking(h)'
    BY DoneStep, IdleAgrees DEF IInv
  <1>6. \/ org' = [org EXCEPT !.pending = NoPlan] /\ scheduledBy' = NoCheckout
        \/ UNCHANGED <<org, scheduledBy>>
    BY DEF RecordRefund, DropPending
  <1>7. org' \in OrgRows
    BY <1>6 DEF IInv, TypeOK, OrgRows
  <1>8. TypeOK'
    BY <1>4, <1>5, <1>6, <1>7 DEF IInv, TypeOK, Moves
  <1>9. RowsAgree'
    <2>1. ASSUME NEW d \in Checkouts PROVE RowAgrees(d)'
      <3>1. RowAgrees(d)
        BY DEF IInv, RowsAgree
      <3>2. CASE d = c
        BY <1>1, <1>4, <3>1, <3>2 DEF RowAgrees
      <3>3. CASE d # c
        BY <1>4, <3>1, <3>3 DEF RowAgrees
      <3> QED
        BY <3>2, <3>3
    <2> QED
      BY <2>1 DEF RowsAgree
  <1>10. Keeps
    BY <1>4, <1>6 DEF Keeps, IInv, TypeOK, Checkouts, NoCheckout
  <1>11. HandlersAgree'
    BY <1>5, <1>10, HandlersStep DEF IInv
  <1>12. scheduledBy = c => scheduledBy' = NoCheckout
    <2> SUFFICES ASSUME scheduledBy = c PROVE scheduledBy' = NoCheckout
      OBVIOUS
    <2>1. c # NoCheckout
      BY <1>1 DEF Checkouts, NoCheckout
    <2>2. org.pending = checkout[c].resulted /\ org.pending # NoPlan
      BY <2>1 DEF IInv, QueueAgrees
    <2>3. handler[h].seen = org.pending
      BY <2>2 DEF IInv, HandlersAgree, HandlerAgrees, At
    <2> QED
      BY <2>2, <2>3 DEF RecordRefund, DropPending
  <1>13. QueueAgrees'
    <2> SUFFICES ASSUME scheduledBy' # NoCheckout PROVE QueueAgrees'
      BY DEF QueueAgrees
    <2>1. scheduledBy' = scheduledBy /\ org' = org /\ scheduledBy # c
      BY <1>6, <1>12
    <2>2. scheduledBy \in Checkouts
      BY <2>1 DEF IInv, TypeOK
    <2> QED
      BY <1>4, <2>1, <2>2 DEF IInv, QueueAgrees
  <1>14. ClaimsAgree'
    <2> SUFFICES ASSUME ~GatewayFaults PROVE ClaimsAgree'
      BY DEF ClaimsAgree
    <2>1. gateway[c].refunds # 0
      <3>1. c \in Checkouts /\ gateway[c].settled
        BY <1>1
      <3>2. gateway[c].refunds > 0
        BY <3>1 DEF IInv, RowsAgree, RowAgrees
      <3> QED
        BY <3>2
    <2>2. \A g \in Handlers : Asking(g) =>
            handler[g].co \in Checkouts /\ handler[g].co # c
      BY <2>1, RefundingKnows DEF IInv, ClaimsAgree, Asking
    <2>3. \A g \in Handlers : Asking(g)' => Asking(g) /\ handler'[g] = handler[g]
      BY <1>5 DEF Moves, Asking
    <2> QED
      BY <1>1, <1>4, <2>2, <2>3 DEF ClaimsAgree, IInv
  <1> QED
    BY <1>8, <1>9, <1>11, <1>13, <1>14 DEF IInv

LEMMA SettleRefundInv == ASSUME IInv, NEW h \in Handlers, SettleRefund(h) PROVE IInv'
  BY RecordRefundStep DEF SettleRefund, At

LEMMA ConfirmRefundInv == ASSUME IInv, NEW h \in Handlers, ConfirmRefund(h) PROVE IInv'
  <1>1. events' \subseteq events
    BY AnsweredStep DEF ConfirmRefund, AnswerIfHook
  <1> QED
    BY <1>1, RecordRefundStep DEF ConfirmRefund, At

----------------------------------------------------------------------------
(* Granting what was paid *)

LEMMA FinalizeStep ==
  ASSUME IInv, NEW c \in Checkouts, FinalizeSuccessfulCheckout(c),
         gateway[c].session = "paid",
         UNCHANGED <<selfRequest, gateway>>, events' \subseteq events,
         \/ UNCHANGED handler
         \/ \E h \in Handlers : Moves(h) /\ HandlerAgrees(h)' /\ ~Asking(h)'
  PROVE  IInv'
  <1> DEFINE plan      == checkout[c].plan
             action    == ResolveSubscriptionChange(org, plan, FALSE)
             scheduled == action = "change_scheduled"
             resulted  == IF scheduled THEN plan ELSE checkout[c].resulted
             count     == Cardinality(payment) + 1
  <1>1. CASE checkout[c].status = "completed" \/ c \in payment
    BY <1>1, CalmStep DEF FinalizeSuccessfulCheckout, IInv, TypeOK
  <1>2. CASE ~(checkout[c].status = "completed" \/ c \in payment)
    <2>1. /\ org' = ApplySubscriptionChange(org, plan, action)
          /\ checkout' = [checkout EXCEPT ![c].status    = "completed",
                                          ![c].completed = count,
                                          ![c].resulted  = IF scheduled THEN plan ELSE @]
          /\ payment' = payment \union {c}
          /\ scheduledBy' = IF scheduled THEN c ELSE NoCheckout
      BY <1>2 DEF FinalizeSuccessfulCheckout
    <2>2. plan \in Plans /\ plan # NoPlan /\ checkout[c] \in CheckoutRows
      BY PlanAssumption DEF IInv, RowsAgree, RowAgrees, TypeOK
    <2>3. count \in Nat
      BY LedgerCount DEF IInv, TypeOK
    <2>4. resulted \in Plans \union {NoPlan}
      BY <2>2 DEF CheckoutRows
    <2>5. checkout' = [checkout EXCEPT ![c] =
             [checkout[c] EXCEPT !.status = "completed", !.completed = count,
                                 !.resulted = resulted]]
      BY <2>1, <2>2 DEF IInv, TypeOK, CheckoutRows
    <2>6. [checkout[c] EXCEPT !.status = "completed", !.completed = count,
                              !.resulted = resulted] \in CheckoutRows
      BY <2>2, <2>3, <2>4 DEF CheckoutRows, CheckoutStatuses
    <2>7. /\ checkout' \in [Checkouts -> CheckoutRows]
          /\ checkout'[c].plan = plan /\ checkout'[c].refund = checkout[c].refund
          /\ checkout'[c].status = "completed" /\ checkout'[c].resulted = resulted
          /\ \A d \in Checkouts : d # c => checkout'[d] = checkout[d]
      BY <2>2, <2>5, <2>6 DEF IInv, TypeOK, CheckoutRows
    <2>8. org' \in OrgRows /\ (scheduled => org'.pending = plan)
      BY <2>1, <2>2, ApplyTyped DEF IInv, TypeOK, ApplySubscriptionChange, OrgRows
    <2>9. c \notin payment /\ checkout[c].refund = "none"
      BY <1>2 DEF IInv, RowsAgree, RowAgrees
    <2>10. TypeOK'
      BY <2>1, <2>7, <2>8 DEF IInv, TypeOK, Moves
    <2>11. RowsAgree'
      <3>1. ASSUME NEW d \in Checkouts PROVE RowAgrees(d)'
        <4>1. RowAgrees(d)
          BY DEF IInv, RowsAgree
        <4>2. CASE d = c
          BY <2>1, <2>2, <2>7, <4>1, <4>2 DEF RowAgrees
        <4>3. CASE d # c
          BY <2>1, <2>7, <4>1, <4>3 DEF RowAgrees
        <4> QED
          BY <4>2, <4>3
      <3> QED
        BY <3>1 DEF RowsAgree
    <2>12. Keeps
      <3>1. \A d \in payment : d \in Checkouts /\ d # c /\ d # NoCheckout
        BY <2>9 DEF IInv, TypeOK, Checkouts, NoCheckout
      <3> QED
        BY <2>1, <2>7, <3>1 DEF Keeps
    <2>13. HandlersAgree'
      BY <2>12, HandlersStep DEF IInv
    <2>14. QueueAgrees'
      BY <2>1, <2>2, <2>7, <2>8, <2>9 DEF QueueAgrees
    <2>15. ClaimsAgree'
      BY <2>7, ClaimsStep DEF IInv
    <2> QED
      BY <2>10, <2>11, <2>13, <2>14, <2>15 DEF IInv
  <1> QED
    BY <1>1, <1>2

LEMMA WebhookSucceededInv ==
  ASSUME IInv, NEW c \in Checkouts, WebhookSucceeded(c) PROVE IInv'
  <1>1. gateway[c].session = "paid"
    BY DEF WebhookSucceeded, IInv, RowsAgree, RowAgrees
  <1> QED
    BY <1>1, AnsweredStep, FinalizeStep DEF WebhookSucceeded

LEMMA ReconcilePaidInv == ASSUME IInv, NEW h \in Handlers, ReconcilePaid(h) PROVE IInv'
  <1>1. handler[h].co \in Checkouts /\ gateway[handler[h].co].session = "paid"
    BY DEF ReconcilePaid, IInv, HandlersAgree, HandlerAgrees
  <1>2. Moves(h) /\ HandlerAgrees(h)' /\ ~Asking(h)'
    BY DoneStep, IdleAgrees DEF ReconcilePaid, IInv
  <1> QED
    BY <1>1, <1>2, FinalizeStep DEF ReconcilePaid

----------------------------------------------------------------------------
(* The invariant *)

LEMMA ProceedInv == ASSUME IInv, NEW h \in Handlers, Proceed(h) PROVE IInv'
  BY StatusFlipInv, StatusReconcileInv, ReconcilePaidInv, ReconcileUnpaidInv,
     CancelRecheckInv, ClaimRefundInv, SubmitRefundInv, RollBackClaimInv,
     InquireRefundInv, SettleRefundInv, ConfirmReadInv, ConfirmRefundInv, AdminInv
  DEF Proceed

LEMMA NextInv == IInv /\ [Next]_vars => IInv'
  <1> SUFFICES ASSUME IInv, [Next]_vars PROVE IInv'
    OBVIOUS
  <1>1. CASE UNCHANGED vars
    BY <1>1, CalmStep DEF vars, IInv, TypeOK
  <1>2. CASE Tick \/ Sweep \/ AdminStep
    BY <1>2, TickInv, SweepInv, AdminInv
  <1>3. CASE \E p \in PaidPlans, purpose \in {"subscribe", "change_plan"} :
               CreateOrgCheckout(p, purpose)
    BY <1>3, CreateOrgCheckoutInv
  <1>4. CASE \/ \E p \in Plans : SelfSubscribe(p)
             \/ ConfirmSelfSubscriptionRequest
             \/ CancelSelfSubscriptionRequest
    BY <1>4, ManualBillingInv
  <1>5. ASSUME NEW c \in Checkouts,
               \/ OpenSession(c) \/ CustomerPays(c) \/ GatewayCaptures(c) \/ GatewayDeclines(c)
               \/ GatewaySettlesRefund(c)
               \/ WebhookSucceeded(c) \/ WebhookFailed(c) \/ WebhookRefundedUnconfirmed(c)
        PROVE  IInv'
    BY <1>5, OpenSessionInv, GatewayInv, WebhookSucceededInv, WebhookFailedInv,
       WebhookRefundedUnconfirmedInv
  <1>6. ASSUME NEW h \in Handlers,
               \/ Proceed(h) \/ Crash(h) \/ StatusRead(h)
               \/ CancelWithoutRefund(h) \/ CancelRead(h)
               \/ \E c \in Checkouts : WebhookRefunded(h, c)
        PROVE  IInv'
    BY <1>6, ProceedInv, CrashInv, StatusReadInv, CancelWithoutRefundInv, CancelReadInv,
       WebhookRefundedInv
  <1> QED
    BY <1>1, <1>2, <1>3, <1>4, <1>5, <1>6 DEF Next

\* The inductive invariant holds for every number of checkouts and requests.
THEOREM Invariance == Spec => []IInv
  BY InitInv, NextInv, PTL DEF Spec

\* Every row, event and request keeps its type.
THEOREM TypeCorrect == Spec => []TypeOK
  <1>1. IInv => TypeOK
    BY DEF IInv
  <1> QED
    BY <1>1, Invariance, PTL

\* No change waits whose charge is shown as refunded (refundScheduledChange,
\* confirmRefundSettled), even when answers of the gateway are lost.
THEOREM RefundSafety == Spec => []RefundedChangeNeverQueued
  <1>1. IInv => RefundedChangeNeverQueued
    BY DEF IInv, QueueAgrees, RefundedChangeNeverQueued
  <1> QED
    BY <1>1, Invariance, PTL

\* No charge is returned twice as long as no answer of the gateway is lost
\* (the claim on refund_status).
THEOREM SingleRefund ==
  ASSUME ~GatewayFaults PROVE Spec => []RefundedAtMostOnce
  <1>1. IInv => RefundedAtMostOnce
    BY DEF IInv, ClaimsAgree, RefundedAtMostOnce
  <1> QED
    BY <1>1, Invariance, PTL

----------------------------------------------------------------------------
(* The billing columns *)

\* What a step does to the organization and the request it waits for.
Billed ==
  \/ UNCHANGED <<org, selfRequest>>
  \/ Tick \/ Sweep \/ AdminStep
  \/ \E p \in Plans : SelfSubscribe(p)
  \/ ConfirmSelfSubscriptionRequest \/ CancelSelfSubscriptionRequest
  \/ \E h \in Handlers : VoidSelfRequest(h)
  \/ /\ UNCHANGED selfRequest
     /\ \/ \E h \in Handlers : StatusFlip(h) /\ org' = [org EXCEPT !.status = "expired"]
        \/ org' = [org EXCEPT !.pending = NoPlan]
        \/ \E p \in Plans : org' = ActivateOrgSubscription(org, p)

\* A payment is for a plan, and is granted by the rules.
LEMMA PurchaseBills ==
  ASSUME IInv, NEW c \in Checkouts, gateway[c].session = "paid",
         FinalizeSuccessfulCheckout(c), UNCHANGED selfRequest
  PROVE  Billed
  <1>1. checkout[c].plan \in Plans
    BY DEF IInv, RowsAgree, RowAgrees
  <1> QED
    BY <1>1 DEF FinalizeSuccessfulCheckout, ActivateOrgSubscription, Billed

LEMMA ProceedBills == ASSUME IInv, NEW h \in Handlers, Proceed(h) PROVE Billed
  <1>1. CASE StatusFlip(h)
    BY <1>1 DEF StatusFlip, Billed
  <1>2. CASE ReconcilePaid(h)
    <2>1. handler[h].co \in Checkouts /\ gateway[handler[h].co].session = "paid"
      BY <1>2 DEF ReconcilePaid, IInv, HandlersAgree, HandlerAgrees
    <2> QED
      BY <1>2, <2>1, PurchaseBills DEF ReconcilePaid
  <1>3. CASE SettleRefund(h) \/ ConfirmRefund(h)
    BY <1>3 DEF SettleRefund, ConfirmRefund, RecordRefund, DropPending, Billed
  <1>4. CASE VoidSelfRequest(h)
    BY <1>4 DEF Billed
  <1>5. CASE StatusReconcile(h) \/ ReconcileUnpaid(h) \/ CancelRecheck(h) \/ ClaimRefund(h)
    BY <1>5 DEF StatusReconcile, ReconcileUnpaid, CancelRecheck, ClaimRefund, Billed
  <1>6. CASE SubmitRefund(h) \/ RollBackClaim(h) \/ InquireRefund(h) \/ ConfirmRead(h)
    BY <1>6 DEF SubmitRefund, RollBackClaim, InquireRefund, ConfirmRead, Billed
  <1> QED
    BY <1>1, <1>2, <1>3, <1>4, <1>5, <1>6 DEF Proceed

LEMMA NextBills == ASSUME IInv, [Next]_vars PROVE Billed
  <1>1. CASE UNCHANGED vars
    BY <1>1 DEF vars, Billed
  <1>2. CASE \/ Tick \/ Sweep \/ AdminStep
             \/ \E p \in Plans : SelfSubscribe(p)
             \/ ConfirmSelfSubscriptionRequest
             \/ CancelSelfSubscriptionRequest
    BY <1>2 DEF Billed
  <1>3. ASSUME NEW p \in PaidPlans, NEW purpose, CreateOrgCheckout(p, purpose) PROVE Billed
    BY <1>3 DEF CreateOrgCheckout, Billed
  <1>4. ASSUME NEW c \in Checkouts, WebhookSucceeded(c) PROVE Billed
    <2>1. gateway[c].session = "paid"
      BY <1>4 DEF WebhookSucceeded, IInv, RowsAgree, RowAgrees
    <2> QED
      BY <1>4, <2>1, PurchaseBills DEF WebhookSucceeded
  <1>5. ASSUME NEW c \in Checkouts,
               \/ OpenSession(c) \/ CustomerPays(c) \/ GatewayCaptures(c) \/ GatewayDeclines(c)
               \/ GatewaySettlesRefund(c) \/ WebhookFailed(c) \/ WebhookRefundedUnconfirmed(c)
        PROVE  Billed
    BY <1>5 DEF OpenSession, CustomerPays, GatewayCaptures, GatewayDeclines,
                GatewaySettlesRefund, WebhookFailed, WebhookRefundedUnconfirmed, Billed
  <1>6. ASSUME NEW h \in Handlers,
               \/ Crash(h) \/ StatusRead(h) \/ CancelWithoutRefund(h) \/ CancelRead(h)
               \/ \E c \in Checkouts : WebhookRefunded(h, c)
        PROVE  Billed
    BY <1>6 DEF Crash, StatusRead, CancelWithoutRefund, DropPending, CancelRead,
                WebhookRefunded, Billed
  <1> QED
    BY <1>1, <1>2, <1>3, <1>4, <1>5, <1>6, ProceedBills DEF Next

\* What the rules make of a row: a change that waits leaves the rest of it
\* alone, any other gives the plan a period of its own.
LEMMA Activation ==
  ASSUME NEW o \in OrgRows, NEW p \in Plans, NEW force \in BOOLEAN
  PROVE  LET new == ApplySubscriptionChange(o, p, ResolveSubscriptionChange(o, p, force))
         IN \/ IsSubscriptionValid(o) /\ new = [o EXCEPT !.pending = p]
            \/ /\ new.status = "active" /\ new.plan = p /\ new.left = ExpiryForPlan(p, 0)
               /\ IsSubscriptionValid(o) /\ ~force => Tier[p] > Tier[o.plan]
  BY DEF ApplySubscriptionChange, ResolveSubscriptionChange, ComparePlanTier

LEMMA PeriodsEnd ==
  ASSUME NEW p \in Plans, NEW base \in Int
  PROVE  /\ p = FreePlan => ExpiryForPlan(p, base) = NoExpiry
         /\ p # FreePlan => ExpiryForPlan(p, base) \in Int
  BY PlanAssumption DEF ExpiryForPlan

BillingInv ==
  /\ org.status = "none" => org.plan = NoPlan
  /\ OnlyFreeIsUnlimited

LEMMA BillingInit == Init => BillingInv
  <1> SUFFICES ASSUME Init PROVE BillingInv
    OBVIOUS
  <1>1. CASE org = FreeOrg \/ org = PlanlessOrg
    BY <1>1, PlanAssumption DEF FreeOrg, PlanlessOrg, BillingInv, OnlyFreeIsUnlimited
  <1>2. ASSUME NEW p \in PaidPlans, org = ApplySubscriptionChange(FreeOrg, p, "activate_now")
        PROVE  BillingInv
    <2>1. org.status = "active" /\ org.plan = p /\ org.left = ExpiryForPlan(p, 0)
      BY <1>2 DEF ApplySubscriptionChange
    <2>2. p \in Plans /\ p # FreePlan
      BY DEF PaidPlans
    <2> QED
      BY <2>1, <2>2, PeriodsEnd, PlanAssumption DEF BillingInv, OnlyFreeIsUnlimited
  <1> QED
    BY <1>1, <1>2 DEF Init

\* A row the rules were applied to.
LEMMA ActivationKeeps ==
  ASSUME IInv, BillingInv, NEW p \in Plans, NEW force \in BOOLEAN,
         org' = ApplySubscriptionChange(org, p, ResolveSubscriptionChange(org, p, force))
  PROVE  BillingInv' /\ org'.status = "active"
  <1>1. org \in OrgRows
    BY DEF IInv, TypeOK
  <1>2. CASE IsSubscriptionValid(org) /\ org' = [org EXCEPT !.pending = p]
    BY <1>1, <1>2 DEF OrgRows, IsSubscriptionValid, BillingInv, OnlyFreeIsUnlimited
  <1>3. CASE org'.status = "active" /\ org'.plan = p /\ org'.left = ExpiryForPlan(p, 0)
    BY <1>3, PeriodsEnd, PlanAssumption DEF BillingInv, OnlyFreeIsUnlimited
  <1> QED
    BY <1>1, <1>2, <1>3, Activation

LEMMA BillingStep == BillingInv /\ IInv /\ [Next]_vars => BillingInv'
  <1> SUFFICES ASSUME BillingInv, IInv, [Next]_vars PROVE BillingInv'
    OBVIOUS
  <1>1. org \in OrgRows /\ selfRequest \in Plans \union {NoPlan}
    BY DEF IInv, TypeOK
  <1>2. CASE UNCHANGED org
    BY <1>2 DEF BillingInv, OnlyFreeIsUnlimited
  <1>3. CASE Tick
    <2>1. org.left \in Int /\ org.left - 1 \in Int
      BY <1>1, <1>3 DEF Tick, OrgRows
    <2>2. org'.status = org.status /\ org'.plan = org.plan /\ org'.left = org.left - 1
      BY <1>1, <1>3 DEF Tick, OrgRows
    <2> QED
      BY <2>1, <2>2, PlanAssumption DEF BillingInv, OnlyFreeIsUnlimited
  <1>4. CASE ApplyScheduledChange
    <2>1. org.pending \in Plans /\ org.left \in Int
      BY <1>1, <1>4 DEF ApplyScheduledChange, Due, OrgRows
    <2>2. /\ org'.status = "active" /\ org'.plan = org.pending
          /\ org'.left = ExpiryForPlan(org.pending, org.left)
      BY <1>4 DEF ApplyScheduledChange
    <2> QED
      BY <2>1, <2>2, PeriodsEnd, PlanAssumption DEF BillingInv, OnlyFreeIsUnlimited
  <1>5. CASE ApplyLapseToFree
    BY <1>1, <1>5 DEF ApplyLapseToFree, OrgRows, BillingInv, OnlyFreeIsUnlimited
  <1>6. CASE RepairPlanlessOrganization
    BY <1>1, <1>6 DEF RepairPlanlessOrganization, OrgRows, BillingInv, OnlyFreeIsUnlimited
  <1>7. ASSUME NEW p \in Plans, NEW force \in BOOLEAN, SetOrganizationSubscription(p, force)
        PROVE  BillingInv'
    BY <1>7, ActivationKeeps DEF SetOrganizationSubscription
  <1>8. CASE org' = FreeOrg
    BY <1>8 DEF FreeOrg, BillingInv, OnlyFreeIsUnlimited
  <1>9. ASSUME NEW p \in Plans, SelfSubscribe(p) PROVE BillingInv'
    BY <1>1, <1>9 DEF SelfSubscribe, OrgRows, BillingInv, OnlyFreeIsUnlimited
  <1>10. ASSUME NEW p \in Plans, org' = ActivateOrgSubscription(org, p) PROVE BillingInv'
    BY <1>10, ActivationKeeps DEF ActivateOrgSubscription
  <1>11. CASE org' = [org EXCEPT !.status = "expired"] \/ org' = [org EXCEPT !.pending = NoPlan]
    BY <1>1, <1>11 DEF OrgRows, BillingInv, OnlyFreeIsUnlimited
  <1>12. CASE ConfirmSelfSubscriptionRequest \/ CancelSelfSubscriptionRequest
    BY <1>1, <1>2, <1>8, <1>10, <1>12
    DEF ConfirmSelfSubscriptionRequest, CancelSelfSubscriptionRequest
  <1>13. CASE AdminStep
    BY <1>7, <1>8, <1>13 DEF AdminStep, CancelOrganizationSubscription
  <1>14. CASE \E h \in Handlers : VoidSelfRequest(h)
    BY <1>2, <1>14 DEF VoidSelfRequest
  <1> QED
    BY <1>2, <1>3, <1>4, <1>5, <1>6, <1>9, <1>10, <1>11, <1>12, <1>13, <1>14, NextBills
    DEF Billed, Sweep

\* An active organization has no end exactly when it is on Free, whatever is
\* bought, granted by hand, cancelled or swept (resolveSubscriptionChange,
\* applyDueSubscriptionChanges).
THEOREM UnlimitedIsFree == Spec => []OnlyFreeIsUnlimited
  <1>1. Spec => []BillingInv
    BY BillingInit, BillingStep, Invariance, PTL DEF Spec
  <1>2. BillingInv => OnlyFreeIsUnlimited
    BY DEF BillingInv
  <1> QED
    BY <1>1, <1>2, PTL

\* A running paid period is not shortened, nor exchanged for a lower plan, but
\* by time and by an administrator (resolveSubscriptionChange, the sweep, and
\* refundScheduledChange), and only the late flip of a status page, which writes
\* 'expired' over whatever it finds, takes it out of 'active'
\* (getOrgSubscriptionStatus).
THEOREM PaidTimeIsKept == Spec => PaidTimeKept
  <1> DEFINE SamePeriod == org'.plan = org.plan /\ org'.left >= org.left
             Better     == Tier[org'.plan] > Tier[org.plan] /\ org'.left = Period[org'.plan]
             Flipped    == \E h \in Handlers : StatusFlip(h)
             Kept       == (SamePeriod \/ Better) /\ (org'.status = "active" \/ Flipped)
  <1>1. ASSUME IInv, [Next]_vars, IsSubscriptionValid(org), org.plan \in PaidPlans,
               ~Tick, ~AdminStep
        PROVE  Kept
    <2>1. /\ org \in OrgRows /\ selfRequest \in Plans \union {NoPlan}
          /\ org.status = "active" /\ org.left \in Int /\ org.left > 0
          /\ org.plan \in Plans /\ org.plan # FreePlan /\ org.plan # NoPlan
      BY <1>1, PlanAssumption DEF IInv, TypeOK, IsSubscriptionValid, OrgRows, PaidPlans
    <2>2. ASSUME org'.plan = org.plan, org'.left = org.left PROVE SamePeriod
      BY <2>1, <2>2
    <2>3. ~Sweep
      BY <2>1 DEF Sweep, ApplyScheduledChange, ApplyLapseToFree, RepairPlanlessOrganization, Due
    <2>4. ASSUME NEW p \in Plans, org' = ActivateOrgSubscription(org, p) PROVE Kept
      <3>1. CASE org' = [org EXCEPT !.pending = p]
        BY <2>1, <2>2, <3>1 DEF OrgRows
      <3>2. CASE /\ org'.status = "active" /\ org'.plan = p
                 /\ org'.left = ExpiryForPlan(p, 0) /\ Tier[p] > Tier[org.plan]
        <4>1. p # FreePlan
          BY <2>1, <3>2, PlanAssumption
        <4> QED
          BY <3>2, <4>1, PlanAssumption DEF ExpiryForPlan
      <3> QED
        BY <1>1, <2>1, <2>4, <3>1, <3>2, Activation DEF ActivateOrgSubscription
    <2>5. CASE Flipped /\ org' = [org EXCEPT !.status = "expired"]
      BY <2>1, <2>2, <2>5 DEF OrgRows
    <2>6. CASE org' = [org EXCEPT !.pending = NoPlan]
      BY <2>1, <2>2, <2>6 DEF OrgRows
    <2>7. CASE UNCHANGED org
      BY <2>1, <2>2, <2>7
    <2> QED
      BY <1>1, <2>1, <2>3, <2>4, <2>5, <2>6, <2>7, NextBills
      DEF Billed, SelfSubscribe, ConfirmSelfSubscriptionRequest, CancelSelfSubscriptionRequest,
          VoidSelfRequest
  <1>2. IInv /\ [Next]_vars =>
          [IsSubscriptionValid(org) /\ org.plan \in PaidPlans /\ ~Tick /\ ~AdminStep => Kept]_vars
    BY <1>1
  <1> QED
    BY <1>2, Invariance, PTL DEF Spec, PaidTimeKept

\* Without the administrators' cancel no request is about to drop what an
\* organization waits for.
WaitingInv == PendingPaymentHasRequest /\ \A h \in Handlers : ~At(h, "void")

\* Nobody gets there by going on.
LEMMA NobodyVoids ==
  ASSUME IInv, "admin_cancel" \notin Requests, [Next]_vars, \A h \in Handlers : ~At(h, "void")
  PROVE  \A h \in Handlers : ~At(h, "void")'
  <1>1. /\ handler \in [Handlers -> HandlerStates]
        /\ \A h \in Handlers : handler[h].at # "void"
    BY DEF IInv, TypeOK, At
  <1>2. ASSUME NEW h \in Handlers, NEW label, NEW c, NEW p,
               label # "void", Goto(h, label, c, p)
        PROVE  \A g \in Handlers : handler'[g].at # "void"
    <2>1. handler'[h].at = label
      BY <1>1, <1>2 DEF Goto, HandlerStates
    <2> QED
      BY <1>1, <1>2, <2>1 DEF Goto
  <1>3. ASSUME NEW h \in Handlers, Done(h) PROVE \A g \in Handlers : handler'[g].at # "void"
    BY <1>1, <1>3 DEF Done, Idle
  <1>4. CASE UNCHANGED handler
    BY <1>1, <1>4 DEF At
  <1>5. ASSUME NEW h \in Handlers, Proceed(h) PROVE \A g \in Handlers : handler'[g].at # "void"
    <2>1. CASE StatusFlip(h) \/ StatusReconcile(h) \/ ReconcilePaid(h) \/ ReconcileUnpaid(h)
      BY <1>2, <1>3, <2>1 DEF StatusFlip, StatusReconcile, ReconcilePaid, ReconcileUnpaid
    <2>2. CASE CancelRecheck(h) \/ ClaimRefund(h) \/ SubmitRefund(h) \/ RollBackClaim(h)
      BY <1>2, <1>3, <2>2 DEF CancelRecheck, ClaimRefund, SubmitRefund, RollBackClaim
    <2>3. CASE InquireRefund(h) \/ SettleRefund(h) \/ ConfirmRead(h) \/ ConfirmRefund(h)
               \/ VoidSelfRequest(h)
      BY <1>2, <1>3, <2>3
      DEF InquireRefund, SettleRefund, ConfirmRead, ConfirmRefund, VoidSelfRequest
    <2> QED
      BY <1>5, <2>1, <2>2, <2>3 DEF Proceed
  <1>6. ASSUME NEW h \in Handlers,
               \/ Crash(h) \/ StatusRead(h) \/ CancelRead(h) \/ CancelWithoutRefund(h)
        PROVE  \A g \in Handlers : handler'[g].at # "void"
    <2>1. CASE Crash(h) \/ CancelRead(h)
      BY <1>2, <1>3, <2>1 DEF Crash, CancelRead
    <2>2. CASE StatusRead(h)
      BY <1>2, <2>2 DEF StatusRead
    <2>3. CASE CancelWithoutRefund(h)
      BY <1>1, <2>3 DEF CancelWithoutRefund
    <2> QED
      BY <1>6, <2>1, <2>2, <2>3
  <1>7. ASSUME NEW h \in Handlers, NEW c \in Checkouts, WebhookRefunded(h, c)
        PROVE  \A g \in Handlers : handler'[g].at # "void"
    BY <1>1, <1>7 DEF WebhookRefunded
  <1>8. CASE AdminStep
    BY <1>4, <1>8 DEF AdminStep, SetOrganizationSubscription, CancelOrganizationSubscription
  <1>9. CASE \/ UNCHANGED vars \/ Tick \/ Sweep
             \/ \E p \in Plans : SelfSubscribe(p)
             \/ ConfirmSelfSubscriptionRequest
             \/ CancelSelfSubscriptionRequest
             \/ \E p \in PaidPlans, purpose \in {"subscribe", "change_plan"} :
                  CreateOrgCheckout(p, purpose)
    BY <1>4, <1>9
    DEF vars, Tick, Sweep, ApplyScheduledChange, ApplyLapseToFree, RepairPlanlessOrganization,
        SelfSubscribe, ConfirmSelfSubscriptionRequest, CancelSelfSubscriptionRequest,
        CreateOrgCheckout
  <1>10. ASSUME NEW c \in Checkouts,
                \/ OpenSession(c) \/ CustomerPays(c) \/ GatewayCaptures(c) \/ GatewayDeclines(c)
                \/ GatewaySettlesRefund(c)
                \/ WebhookSucceeded(c) \/ WebhookFailed(c) \/ WebhookRefundedUnconfirmed(c)
         PROVE  UNCHANGED handler
    BY <1>10 DEF OpenSession, CustomerPays, GatewayCaptures, GatewayDeclines,
                 GatewaySettlesRefund, WebhookSucceeded, WebhookFailed,
                 WebhookRefundedUnconfirmed
  <1> QED
    BY <1>1, <1>4, <1>5, <1>6, <1>7, <1>8, <1>9, <1>10 DEF Next, At

LEMMA WaitingStep ==
  ASSUME "admin_cancel" \notin Requests
  PROVE  IInv /\ BillingInv /\ WaitingInv /\ [Next]_vars => WaitingInv'
  <1> SUFFICES ASSUME IInv, BillingInv, WaitingInv, [Next]_vars PROVE WaitingInv'
    OBVIOUS
  <1>1. \A h \in Handlers : ~At(h, "void")'
    BY NobodyVoids DEF WaitingInv
  <1>2. org \in OrgRows /\ selfRequest \in Plans \union {NoPlan}
    BY DEF IInv, TypeOK
  <1>3. CASE org'.status # "pending_payment"
    BY <1>1, <1>3 DEF WaitingInv, PendingPaymentHasRequest
  <1>4. CASE org'.status = org.status /\ UNCHANGED selfRequest
    BY <1>1, <1>4 DEF WaitingInv, PendingPaymentHasRequest
  <1>5. CASE UNCHANGED <<org, selfRequest>> \/ Tick
    BY <1>2, <1>4, <1>5 DEF Tick, OrgRows
  <1>6. CASE Sweep
    <2>1. org'.status = "active"
      <3>1. CASE ApplyScheduledChange
        BY <3>1 DEF ApplyScheduledChange
      <3>2. CASE ApplyLapseToFree \/ RepairPlanlessOrganization
        BY <1>2, <3>2 DEF ApplyLapseToFree, RepairPlanlessOrganization, OrgRows
      <3> QED
        BY <1>6, <3>1, <3>2 DEF Sweep
    <2> QED
      BY <1>3, <2>1
  <1>7. ASSUME NEW p \in Plans, NEW force \in BOOLEAN,
               org' = ApplySubscriptionChange(org, p, ResolveSubscriptionChange(org, p, force))
        PROVE  WaitingInv'
    BY <1>3, <1>7, ActivationKeeps
  <1>8. CASE org' = FreeOrg
    BY <1>3, <1>8 DEF FreeOrg
  <1>9. CASE AdminStep
    BY <1>7, <1>8, <1>9 DEF AdminStep, SetOrganizationSubscription, CancelOrganizationSubscription
  <1>10. ASSUME NEW p \in Plans, SelfSubscribe(p) PROVE WaitingInv'
    BY <1>1, <1>10, PlanAssumption DEF SelfSubscribe, WaitingInv, PendingPaymentHasRequest
  <1>11. ASSUME NEW p \in Plans, org' = ActivateOrgSubscription(org, p) PROVE WaitingInv'
    BY <1>7, <1>11 DEF ActivateOrgSubscription
  <1>12. CASE ConfirmSelfSubscriptionRequest
    BY <1>2, <1>11, <1>12 DEF ConfirmSelfSubscriptionRequest
  <1>13. CASE CancelSelfSubscriptionRequest
    BY <1>2, <1>3, <1>8, <1>13 DEF CancelSelfSubscriptionRequest
  <1>14. CASE UNCHANGED selfRequest /\ \/ org' = [org EXCEPT !.status = "expired"]
                                       \/ org' = [org EXCEPT !.pending = NoPlan]
    BY <1>2, <1>3, <1>4, <1>14 DEF OrgRows
  <1>15. ~ \E h \in Handlers : VoidSelfRequest(h)
    BY DEF VoidSelfRequest, WaitingInv
  <1> QED
    BY <1>5, <1>6, <1>9, <1>10, <1>11, <1>12, <1>13, <1>14, <1>15, NextBills DEF Billed

\* An organization that waits for a manual payment has the request it waits
\* for, unless administrators cancel subscriptions, which takes two statements
\* (selfSubscribe, confirm- and cancelSelfSubscriptionRequest).
THEOREM WaitingIsForARequest ==
  ASSUME "admin_cancel" \notin Requests PROVE Spec => []PendingPaymentHasRequest
  <1>1. Init => WaitingInv
    <2> SUFFICES ASSUME Init PROVE WaitingInv
      OBVIOUS
    <2>1. org.status # "pending_payment"
      BY DEF Init, FreeOrg, PlanlessOrg, ApplySubscriptionChange
    <2>2. \A h \in Handlers : ~At(h, "void")
      BY DEF Init, At, Idle
    <2> QED
      BY <2>1, <2>2 DEF WaitingInv, PendingPaymentHasRequest
  <1>2. WaitingInv => PendingPaymentHasRequest
    BY DEF WaitingInv
  <1> QED
    BY <1>1, <1>2, BillingInit, BillingStep, WaitingStep, Invariance, PTL DEF Spec

----------------------------------------------------------------------------
(* Completion *)

CompletesOnce ==
  \A c \in Checkouts :
    checkout[c].status # "completed" /\ checkout'[c].status = "completed" =>
      c \notin payment /\ c \in payment'

\* The status of one checkout is written.
LEMMA StatusWritten ==
  ASSUME IInv, NEW c \in Checkouts, NEW r,
         r.status = checkout[c].status \/ r.status # "completed",
         checkout' = [checkout EXCEPT ![c] = r]
  PROVE  CompletesOnce
  BY DEF IInv, TypeOK, CompletesOnce

LEMMA GrantCompletesOnce ==
  ASSUME IInv, NEW c \in Checkouts, FinalizeSuccessfulCheckout(c)
  PROVE  CompletesOnce
  <1>1. CASE UNCHANGED checkout
    BY <1>1 DEF CompletesOnce
  <1>2. CASE ~UNCHANGED checkout
    <2> DEFINE plan      == checkout[c].plan
               scheduled == ResolveSubscriptionChange(org, plan, FALSE) = "change_scheduled"
    <2>1. /\ c \notin payment /\ payment' = payment \union {c}
          /\ checkout' = [checkout EXCEPT ![c].status    = "completed",
                                          ![c].completed = Cardinality(payment) + 1,
                                          ![c].resulted  = IF scheduled THEN plan ELSE @]
      BY <1>2 DEF FinalizeSuccessfulCheckout
    <2>2. \A d \in Checkouts : d # c => checkout'[d] = checkout[d]
      BY <2>1 DEF IInv, TypeOK
    <2> QED
      BY <2>1, <2>2 DEF CompletesOnce
  <1> QED
    BY <1>1, <1>2

LEMMA FailureCompletesNothing ==
  ASSUME IInv, NEW c \in Checkouts, MarkCheckoutFailed(c)
  PROVE  CompletesOnce
  <1>1. checkout \in [Checkouts -> CheckoutRows] /\ checkout[c] \in CheckoutRows
    BY DEF IInv, TypeOK
  <1> DEFINE s == IF checkout[c].status \in {"completed", "failed"}
                  THEN checkout[c].status ELSE "failed"
  <1>2. checkout' = [checkout EXCEPT ![c] = [checkout[c] EXCEPT !.status = s]]
    BY <1>1 DEF MarkCheckoutFailed
  <1>3. [checkout[c] EXCEPT !.status = s].status = s
    BY <1>1 DEF CheckoutRows
  <1>4. s = checkout[c].status \/ s # "completed"
    OBVIOUS
  <1> HIDE DEF s
  <1> QED
    BY <1>2, <1>3, <1>4, StatusWritten

LEMMA RefundCompletesNothing ==
  ASSUME IInv, NEW h \in Handlers, handler[h].co \in Checkouts, RecordRefund(h)
  PROVE  CompletesOnce
  <1> DEFINE c == handler[h].co
             r == [checkout[c] EXCEPT !.status = "refunded", !.refund = "refunded"]
  <1>1. checkout \in [Checkouts -> CheckoutRows] /\ checkout[c] \in CheckoutRows
    BY DEF IInv, TypeOK
  <1>2. checkout' = [checkout EXCEPT ![c] = r]
    BY <1>1 DEF RecordRefund
  <1>3. r.status = "refunded"
    BY <1>1 DEF CheckoutRows
  <1> QED
    BY <1>2, <1>3, StatusWritten

LEMMA ProceedCompletesOnce == ASSUME IInv, NEW h \in Handlers, Proceed(h) PROVE CompletesOnce
  <1> DEFINE c == handler[h].co
  <1>1. checkout \in [Checkouts -> CheckoutRows] /\ payment \subseteq Checkouts
    BY DEF IInv, TypeOK
  <1>2. CASE UNCHANGED checkout
    BY <1>2 DEF CompletesOnce
  <1>3. CASE ReconcilePaid(h)
    BY <1>3, GrantCompletesOnce DEF ReconcilePaid, IInv, HandlersAgree, HandlerAgrees
  <1>4. CASE ReconcileUnpaid(h)
    BY <1>4, FailureCompletesNothing DEF ReconcileUnpaid, IInv, HandlersAgree, HandlerAgrees
  <1>5. CASE ClaimRefund(h) \/ RollBackClaim(h)
    <2>1. c \in Checkouts /\ checkout[c] \in CheckoutRows
      BY <1>1, <1>5 DEF ClaimRefund, RollBackClaim, IInv, HandlersAgree, HandlerAgrees, At
    <2>2. \A d \in Checkouts : checkout'[d].status = checkout[d].status
      BY <1>1, <1>5, <2>1 DEF ClaimRefund, RollBackClaim, CheckoutRows
    <2> QED
      BY <2>2 DEF CompletesOnce
  <1>6. CASE SettleRefund(h) \/ ConfirmRefund(h)
    <2>1. c \in Checkouts
      BY <1>1, <1>6 DEF SettleRefund, ConfirmRefund, IInv, HandlersAgree, HandlerAgrees, At
    <2> QED
      BY <1>6, <2>1, RefundCompletesNothing DEF SettleRefund, ConfirmRefund
  <1> QED
    BY <1>2, <1>3, <1>4, <1>5, <1>6
    DEF Proceed, StatusFlip, StatusReconcile, CancelRecheck, SubmitRefund, InquireRefund,
        ConfirmRead, VoidSelfRequest

LEMMA NextCompletesOnce == ASSUME IInv, [Next]_vars PROVE CompletesOnce
  <1>1. checkout \in [Checkouts -> CheckoutRows]
    BY DEF IInv, TypeOK
  <1>2. CASE UNCHANGED checkout
    BY <1>2 DEF CompletesOnce
  <1>3. CASE \/ UNCHANGED vars \/ Tick \/ Sweep \/ AdminStep
             \/ \E p \in Plans : SelfSubscribe(p)
             \/ ConfirmSelfSubscriptionRequest
             \/ CancelSelfSubscriptionRequest
    BY <1>2, <1>3
    DEF vars, Tick, Sweep, ApplyScheduledChange, ApplyLapseToFree, RepairPlanlessOrganization,
        AdminStep, SetOrganizationSubscription, CancelOrganizationSubscription,
        SelfSubscribe, ConfirmSelfSubscriptionRequest, CancelSelfSubscriptionRequest
  <1>4. ASSUME NEW p \in PaidPlans, NEW purpose, CreateOrgCheckout(p, purpose)
        PROVE  CompletesOnce
    <2>1. \A d \in Checkouts : checkout'[d].status = checkout[d].status
                               \/ checkout'[d].status # "completed"
      BY <1>1, <1>4 DEF CreateOrgCheckout, NoRow, CheckoutRows
    <2> QED
      BY <2>1 DEF CompletesOnce
  <1>5. ASSUME NEW c \in Checkouts, WebhookSucceeded(c) PROVE CompletesOnce
    BY <1>5, GrantCompletesOnce DEF WebhookSucceeded
  <1>6. ASSUME NEW c \in Checkouts, WebhookFailed(c) PROVE CompletesOnce
    BY <1>6, FailureCompletesNothing DEF WebhookFailed
  <1>7. ASSUME NEW c \in Checkouts, OpenSession(c) PROVE CompletesOnce
    <2>1. \A d \in Checkouts : checkout'[d].status = checkout[d].status
      BY <1>1, <1>7 DEF OpenSession, CheckoutRows
    <2> QED
      BY <2>1 DEF CompletesOnce
  <1>8. ASSUME NEW c \in Checkouts,
               \/ CustomerPays(c) \/ GatewayCaptures(c) \/ GatewayDeclines(c)
               \/ GatewaySettlesRefund(c) \/ WebhookRefundedUnconfirmed(c)
        PROVE  CompletesOnce
    BY <1>2, <1>8 DEF CustomerPays, GatewayCaptures, GatewayDeclines, GatewaySettlesRefund,
                      WebhookRefundedUnconfirmed
  <1>9. ASSUME NEW h \in Handlers, StatusRead(h) PROVE CompletesOnce
    <2>1. \A d \in Checkouts : checkout'[d].status = checkout[d].status
                               \/ checkout'[d].status # "completed"
      BY <1>1, <1>9 DEF StatusRead, ExpireStaleCheckouts, CheckoutRows
    <2> QED
      BY <2>1 DEF CompletesOnce
  <1>10. ASSUME NEW h \in Handlers,
                \/ Crash(h) \/ CancelWithoutRefund(h) \/ CancelRead(h)
                \/ \E c \in Checkouts : WebhookRefunded(h, c)
         PROVE  CompletesOnce
    BY <1>2, <1>10 DEF Crash, CancelWithoutRefund, CancelRead, WebhookRefunded
  <1> QED
    BY <1>3, <1>4, <1>5, <1>6, <1>7, <1>8, <1>9, <1>10, ProceedCompletesOnce DEF Next

\* A checkout is completed only by the delivery that grants it, however often
\* webhooks repeat and wherever a refund stands (finalizeSuccessfulCheckout).
THEOREM CompletionIsOnce == Spec => CompletedOnce
  <1>1. IInv /\ [Next]_vars => [CompletesOnce]_vars
    BY NextCompletesOnce
  <1> QED
    BY <1>1, Invariance, PTL DEF Spec, CompletedOnce, CompletesOnce
============================================================================
