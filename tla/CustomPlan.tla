------------------------------ MODULE CustomPlan ------------------------------
(***************************************************************************)
(* Custom plans of one organization: the request, the administrator's      *)
(* answer, and the payment that an approval asks for (requestCustomPlan,   *)
(* approveCustomPlanRequest, denyCustomPlanRequest), also when it is asked *)
(* for again (createCustomPlanCheckout).                                   *)
(*                                                                         *)
(* Each approval makes a plan of its own with a checkout, and the plan is  *)
(* named after that checkout here.  Both transactions that open a checkout *)
(* lock the organization first, so that each is one step.  What a          *)
(* completed checkout does to the subscription, and how a refund ends one, *)
(* is the business of Subscription.                                        *)
(***************************************************************************)
EXTENDS Server, Naturals

CONSTANTS
  Wishes,         \* rows of custom_plan_requests
  MaxCheckouts    \* bound: rows of subscription_checkouts

ASSUME CustomPlanAssumption == MaxCheckouts \in Nat \ {0}

VARIABLES
  wish,           \* custom_plan_requests, with approved_plan_id (0 is NULL)
  checkout        \* subscription_checkouts of custom plans, with their tracker

customPlanVars == <<wish, checkout>>

Checkouts == 1 .. MaxCheckouts

WishRows     == [status : {"absent", "pending", "approved", "denied"}, plan : Checkouts \union {0}]
CheckoutRows ==
  [status  : {"none", "pending", "cancelled", "expired", "failed", "completed"},
   tracker : BOOLEAN,               \* gateway_tracker_id is set: the session is open
   plan    : Checkouts \union {0}]

NoCheckout == [status |-> "none", tracker |-> FALSE, plan |-> 0]

CustomPlanRequests ==
  [kind : {"askPlan"}] \union [kind : {"denyPlan"}, wish : Wishes]
    \union [kind : {"payAgain"}, plan : Checkouts]
    \union [kind : {"openSession"}, checkout : Checkouts]

CustomPlanTypeOK ==
  /\ wish \in [Wishes -> WishRows]
  /\ checkout \in [Checkouts -> CheckoutRows]
  /\ request \in [Requests -> {Idle} \union CustomPlanRequests]

CustomPlanInit ==
  /\ wish = [w \in Wishes |-> [status |-> "absent", plan |-> 0]]
  /\ checkout = [c \in Checkouts |-> NoCheckout]

----------------------------------------------------------------------------
\* requestCustomPlan: nothing may be pending; no index stands behind the check.
AskPlanRead(h) ==
  /\ \A w \in Wishes : wish[w].status # "pending"
  /\ Begin(h, [kind |-> "askPlan"])
  /\ UNCHANGED customPlanVars

AskPlanInsert(h, w) ==
  /\ Doing(h, "askPlan")
  /\ wish[w].status = "absent"
  /\ wish' = [wish EXCEPT ![w].status = "pending"]
  /\ End(h)
  /\ UNCHANGED checkout

Pending == {c \in Checkouts : checkout[c].status = "pending"}

\* Mutant: the checkouts opened before stay open.
EndPendingNot(stale) == checkout

\* Checkouts older than two hours expire, the other pending ones are cancelled.
\* It is the rows that end: their sessions stay open at the gateway.
EndPending(stale) ==
  [c \in Checkouts |->
     IF c \in stale THEN [checkout[c] EXCEPT !.status = "expired"]
     ELSE IF c \in Pending THEN [checkout[c] EXCEPT !.status = "cancelled"]
     ELSE checkout[c]]

\* The row c is inserted for a plan; its session is asked for after the commit.
OpenCheckout(h, c, plan, stale) ==
  /\ \A d \in Checkouts : checkout[d].status = "none" <=> d >= c
  /\ checkout' = [EndPending(stale) EXCEPT ![c] =
                    [status |-> "pending", tracker |-> FALSE, plan |-> plan]]
  /\ request' = [request EXCEPT ![h] = [kind |-> "openSession", checkout |-> c]]

\* One transaction.  It tests a status that its SELECT does not read, so that a
\* request may be approved again, or after it was denied.
ApprovePlan(h, w, c) ==
  /\ request[h] = Idle
  /\ wish[w].status # "absent"
  /\ wish' = [wish EXCEPT ![w] = [status |-> "approved", plan |-> c]]
  /\ OpenCheckout(h, c, c, {})

\* createCustomPlanCheckout: request and plan are read before the transaction.
PayAgainRead(h, w) ==
  /\ wish[w].status = "approved"
  /\ Begin(h, [kind |-> "payAgain", plan |-> wish[w].plan])
  /\ UNCHANGED customPlanVars

\* createOrgCheckout, for the plan that was read; which of the pending checkouts
\* are stale is left open.
PayAgainWrite(h, c) ==
  /\ Doing(h, "payAgain")
  /\ \E stale \in SUBSET Pending : OpenCheckout(h, c, request[h].plan, stale)
  /\ UNCHANGED wish

\* After the commit: the payment session, which may fail.
OpenSession(h) ==
  /\ Doing(h, "openSession")
  /\ checkout' = [checkout EXCEPT ![request[h].checkout].tracker = TRUE]
  /\ End(h)
  /\ UNCHANGED wish

DenyPlanRead(h, w) ==
  /\ wish[w].status = "pending"
  /\ Begin(h, [kind |-> "denyPlan", wish |-> w])
  /\ UNCHANGED customPlanVars

\* UPDATE ... WHERE id=?, also when it was approved meanwhile
DenyPlanWrite(h) ==
  /\ Doing(h, "denyPlan")
  /\ wish' = [wish EXCEPT ![request[h].wish].status = "denied"]
  /\ End(h)
  /\ UNCHANGED checkout

\* expireStaleCheckouts by itself, at a look at the subscription
ExpireStale(c) ==
  /\ c \in Pending
  /\ checkout' = [checkout EXCEPT ![c].status = "expired"]
  /\ UNCHANGED <<wish, request>>

\* finalizeSuccessfulCheckout refuses what is completed and nothing else: the
\* session of a checkout that was cancelled, expired or failed can be paid.
Payable(c) == checkout[c].tracker /\ checkout[c].status # "completed"

\* The gateway reports the payment of a session, to the webhook or to a look at
\* the subscription.
PayCustomPlan(c) ==
  /\ Payable(c)
  /\ checkout' = [checkout EXCEPT ![c].status = "completed"]
  /\ UNCHANGED <<wish, request>>

\* markCheckoutFailed
FailCustomPlan(c) ==
  /\ checkout[c].tracker
  /\ checkout[c].status \notin {"completed", "failed"}
  /\ checkout' = [checkout EXCEPT ![c].status = "failed"]
  /\ UNCHANGED <<wish, request>>

CustomPlanNext ==
  \/ \E h \in Requests :
       \/ AskPlanRead(h)
       \/ \E w \in Wishes :
            \/ AskPlanInsert(h, w) \/ DenyPlanRead(h, w) \/ PayAgainRead(h, w)
            \/ \E c \in Checkouts : ApprovePlan(h, w, c)
       \/ \E c \in Checkouts : PayAgainWrite(h, c)
       \/ OpenSession(h) \/ DenyPlanWrite(h)
       \/ Abandon(h) /\ UNCHANGED customPlanVars
  \/ \E c \in Checkouts : ExpireStale(c) \/ PayCustomPlan(c) \/ FailCustomPlan(c)

CustomPlanSpec ==
  ServerInit /\ CustomPlanInit /\ [][CustomPlanNext]_<<request, customPlanVars>>

----------------------------------------------------------------------------
\* At most one row is pending, and it is the last one opened: the status page
\* looks up the newest pending checkout alone (ORDER BY id DESC LIMIT 1), so that
\* no other is waiting unseen.  A request can be approved twice, two administrators
\* may answer at once, and the organization may ask to pay again meanwhile, even for
\* a plan that a new approval has replaced since it was read.  The claim is about
\* rows: the sessions of the rows that ended can still be paid (Payable), so that
\* two may be live at the gateway.
OnePendingCheckout ==
  \A c \in Checkouts : checkout[c].status = "pending" =>
    \A d \in Checkouts : d > c => checkout[d].status = "none"
============================================================================
