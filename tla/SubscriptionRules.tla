--------------------------- MODULE SubscriptionRules ---------------------------
(***************************************************************************)
(* The pure part of billing: what an organization row says about its       *)
(* subscription, and what a paid or granted plan does to that row          *)
(* (src/src/utils/subscriptionTransition.js, subscriptionPlans.js and      *)
(* freePlan.js).                                                           *)
(*                                                                         *)
(* Time.  The code compares organizations.subscription_expiry with NOW().  *)
(* The model keeps only their difference, in ticks: left > 0 is "expires   *)
(* after NOW()", left = 0 is "expires at NOW()", left < 0 is "expired      *)
(* before NOW()" and NoExpiry is SQL NULL.  A billing period is a number   *)
(* of ticks.                                                               *)
(***************************************************************************)
EXTENDS Integers

CONSTANTS
  Plans,      \* rows of subscription_plans
  FreePlan,   \* the one row with is_free = 1
  NoPlan,     \* SQL NULL in a plan column
  Tier,       \* rank of a plan: is_free, then daily_request_quota, then price
  Period,     \* length of a plan's billing period, in ticks
  NoExpiry    \* SQL NULL in organizations.subscription_expiry

ASSUME PlanAssumption ==
  /\ FreePlan \in Plans
  /\ NoPlan \notin Plans
  /\ Tier \in [Plans -> Nat]
  /\ \A p \in Plans \ {FreePlan} : Tier[p] > Tier[FreePlan]
  /\ Period \in [Plans -> Nat \ {0}]
  /\ NoExpiry \notin Int

PaidPlans == Plans \ {FreePlan}

\* organizations.subscription_status
Statuses == {"none", "active", "expired", "pending_payment"}

\* The billing columns of an organizations row.
OrgRows == [status  : Statuses,
            plan    : Plans \union {NoPlan},
            pending : Plans \union {NoPlan},
            left    : Int \union {NoExpiry}]

\* createOrganization inserts the row on the Free plan, which never expires.
FreeOrg == [status |-> "active", plan |-> FreePlan, pending |-> NoPlan, left |-> NoExpiry]

\* A row left behind by the incident repairPlanlessOrganizations heals.
PlanlessOrg == [status |-> "none", plan |-> NoPlan, pending |-> NoPlan, left |-> NoExpiry]

----------------------------------------------------------------------------
\* subscription_expiry <= NOW(), the sweep's test
Due(o) == o.left # NoExpiry /\ o.left <= 0

\* subscription_expiry < NOW(), the test of the pages that show a status
Past(o) == o.left # NoExpiry /\ o.left < 0

\* Free with no expiry, or a period that has not ended.
IsSubscriptionValid(o) ==
  /\ o.status = "active"
  /\ IF o.left = NoExpiry THEN o.plan = FreePlan ELSE o.left > 0

\* A new period of p that starts base ticks from now; Free has no period.
ExpiryForPlan(p, base) == IF p = FreePlan THEN NoExpiry ELSE base + Period[p]

ComparePlanTier(current, requested) ==
  CASE Tier[requested] > Tier[current] -> "upgrade"
    [] Tier[requested] < Tier[current] -> "downgrade"
    [] OTHER                           -> "same"

\* Mutant: every purchase by a live subscriber takes effect at once.
ResolveWithoutTiers(o, p, force) ==
  IF force \/ ~IsSubscriptionValid(o) THEN "activate_now" ELSE "upgrade_now"

\* The decision taken for a plan that was just paid for or granted.
ResolveSubscriptionChange(o, p, force) ==
  IF force \/ ~IsSubscriptionValid(o)          THEN "activate_now"
  ELSE IF ComparePlanTier(o.plan, p) = "upgrade" THEN "upgrade_now"
  ELSE "change_scheduled"

\* A scheduled change records the plan and nothing else; an immediate one
\* starts a fresh period now and drops whatever was scheduled.
ApplySubscriptionChange(o, p, action) ==
  IF action = "change_scheduled"
  THEN [o EXCEPT !.pending = p]
  ELSE [status |-> "active", plan |-> p, pending |-> NoPlan, left |-> ExpiryForPlan(p, 0)]

ActivateOrgSubscription(o, p) ==
  ApplySubscriptionChange(o, p, ResolveSubscriptionChange(o, p, FALSE))
============================================================================
