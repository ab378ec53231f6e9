----------------------------- MODULE RequestQuota -----------------------------
(***************************************************************************)
(* The daily request quota of one organization (requestQuota.js).          *)
(*                                                                         *)
(* enforceRequestQuota runs inside the transaction that creates a request: *)
(* it locks the organization, makes today's row if there is none, locks    *)
(* it, and counts; the counters are the caller's to commit or roll back.   *)
(* A plan is activated under the same lock on the organization.            *)
(***************************************************************************)
EXTENDS Server, Naturals

CONSTANTS
  PlanQuotas,     \* daily_request_quota of the plans there are
  MaxCreated      \* bound: requests created on one day

ASSUME QuotaAssumption == PlanQuotas \subseteq Nat \ {0} /\ MaxCreated \in Nat

VARIABLES
  quota,          \* what the organization row and its plan give now (getOrgPlan):
                  \* 0 for Free, for no quota, and once the expiry is past
  usage,          \* daily_request_usage, the row of today
  createdToday,   \* history: requests committed since that row was begun
  largestQuota    \* history: the largest quota that was in force since then

quotaVars == <<quota, usage, createdToday, largestQuota>>

Quotas   == PlanQuotas \union {0}
NoUsage  == [used |-> 0, total |-> 0]
NothingToday == [paid |-> 0, free |-> 0]

RequestQuotaTypeOK ==
  /\ quota \in Quotas /\ largestQuota \in Quotas
  /\ usage \in [used : Nat, total : Nat]
  /\ createdToday \in [paid : Nat, free : Nat]
  /\ request \in [Requests -> {Idle} \union [kind : {"consume"}, paid : BOOLEAN]]

RequestQuotaInit ==
  /\ quota = 0 /\ largestQuota = 0
  /\ usage = NoUsage
  /\ createdToday = NothingToday

----------------------------------------------------------------------------
\* Mutant: SELECT without FOR UPDATE.
OrganizationUnlockedAlways == TRUE

\* The lock on the organization row, held from the SELECT to the commit.
OrganizationUnlocked == \A h \in Requests : ~Doing(h, "consume")

\* A quota of 0 is no entitlement, whatever the row says.
Entitled == quota > 0

\* What enforceRequestQuota allows: paid requests up to the quota, and one a
\* day to everybody else.
Allowed == IF Entitled THEN usage.used < quota ELSE usage.total = 0

\* The row of the day is deleted, or another day has none yet.
BeginRow ==
  /\ usage' = NoUsage
  /\ createdToday' = NothingToday
  /\ largestQuota' = quota'

\* Another quota is in force, and the day's row stays.
QuotaBecomes(q) ==
  /\ OrganizationUnlocked
  /\ quota # q /\ quota' = q
  /\ largestQuota' = IF q > largestQuota THEN q ELSE largestQuota
  /\ UNCHANGED <<usage, createdToday, request>>

\* applySubscriptionChange, an immediate activation: the plan and, in the same
\* transaction, resetDailyRequestUsage.
ActivatePlan(q) ==
  /\ OrganizationUnlocked
  /\ quota' = q
  /\ BeginRow
  /\ UNCHANGED request

\* The sweep starts a scheduled period, of any plan, or returns to Free.
SweepPlan(q) == QuotaBecomes(q)

\* updatePlan gives the plan another quota: its UPDATE waits as well, for the
\* SELECT ... FOR UPDATE of enforceRequestQuota joins the plan's row.
EditPlanQuota(q) == Entitled /\ QuotaBecomes(q)

\* The paid period ends by itself.
PlanLapses ==
  /\ Entitled /\ quota' = 0
  /\ UNCHANGED <<usage, createdToday, largestQuota, request>>

\* A new day has a new row; transactions that are under way keep theirs.
NextDay ==
  /\ OrganizationUnlocked
  /\ UNCHANGED <<quota, request>>
  /\ BeginRow

\* enforceRequestQuota up to its UPDATE; a refusal (429) changes nothing.
ConsumeQuota(h) ==
  /\ OrganizationUnlocked
  /\ Allowed
  /\ createdToday.paid + createdToday.free < MaxCreated
  /\ Begin(h, [kind |-> "consume", paid |-> Entitled])
  /\ UNCHANGED quotaVars

\* Mutant: a rejected document burns a request: it is counted on its own.
CommitCreationTwice(h) ==
  /\ Doing(h, "consume")
  /\ IF request[h].paid
     THEN /\ usage' = [usage EXCEPT !.used = @ + 1, !.total = @ + 1]
          /\ UNCHANGED createdToday
     ELSE /\ usage' = [usage EXCEPT !.total = 1]
          /\ createdToday' = [createdToday EXCEPT !.free = @ + 1]
  /\ End(h)
  /\ UNCHANGED <<quota, largestQuota>>

\* The request is inserted and committed, its slot with it.
CommitCreation(h) ==
  /\ Doing(h, "consume")
  /\ IF request[h].paid
     THEN /\ usage' = [usage EXCEPT !.used = @ + 1, !.total = @ + 1]
          /\ createdToday' = [createdToday EXCEPT !.paid = @ + 1]
     ELSE /\ usage' = [usage EXCEPT !.total = 1]
          /\ createdToday' = [createdToday EXCEPT !.free = @ + 1]
  /\ End(h)
  /\ UNCHANGED <<quota, largestQuota>>

RequestQuotaNext ==
  \/ PlanLapses \/ NextDay
  \/ \E q \in Quotas : ActivatePlan(q) \/ SweepPlan(q) \/ EditPlanQuota(q)
  \/ \E h \in Requests : \/ ConsumeQuota(h) \/ CommitCreation(h)
                         \/ Abandon(h) /\ UNCHANGED quotaVars

RequestQuotaSpec ==
  ServerInit /\ RequestQuotaInit /\ [][RequestQuotaNext]_<<request, quotaVars>>

----------------------------------------------------------------------------
\* The quota at its limit: the counters are exactly the requests that were
\* committed, none lost, none burnt by a rollback; a day's row sees no more paid
\* ones than the largest quota in force since it was begun, nor a second free one,
\* also when requests race for the last slot, or the plan changes, even to a
\* smaller quota, and keeps the row.
QuotaKept ==
  /\ usage.used = createdToday.paid /\ usage.used <= largestQuota
  /\ createdToday.free <= 1
  /\ usage.total = createdToday.paid + createdToday.free
============================================================================
