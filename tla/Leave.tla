-------------------------------- MODULE Leave ---------------------------------
(***************************************************************************)
(* Leave of one employee, of one type, in one year (leave.controller.js,   *)
(* leaveAllocation.controller.js): the type, the allocation that the       *)
(* designation's policy or an administrator gives, the requests and the    *)
(* decisions on them.                                                      *)
(*                                                                         *)
(* An approval deducts and decides in one transaction, under the lock of   *)
(* the allocation; setting an allocation reads it without one.             *)
(***************************************************************************)
EXTENDS Server, FiniteSetsExt, Integers

CONSTANTS
  Leaves,         \* rows of leave_requests
  Lengths,        \* countLeaveDays of a request
  Grants,         \* allocated_days that are ever given, also none at all
  NoDays          \* in place of the days where there is no row

ASSUME LeaveAssumption ==
  Lengths \subseteq Nat \ {0} /\ Grants \subseteq Nat /\ NoDays \notin Nat /\ IsFiniteSet(Leaves)

VARIABLES
  leaveType,      \* the row of leave_types exists
  policy,         \* designation_leave_policies: the days, or NoDays
  allocation,     \* employee_leave_allocations
  leave           \* leave_requests

leaveVars == <<leaveType, policy, allocation, leave>>

NoAllocation == [given |-> NoDays, used |-> 0, remaining |-> 0]
Allocated    == allocation.given # NoDays

LeaveRows == [status : {"absent", "pending", "approved", "rejected"}, days : Lengths \union {0}]

LeaveRequests ==
  [kind : {"askLeave"}, days : Lengths]
    \union [kind : {"decideLeave"}, leave : Leaves, decision : {"approved", "rejected"}]
    \union [kind : {"allocate"}, given : Grants, exists : BOOLEAN, used : Int]

LeaveTypeOK ==
  /\ leaveType \in BOOLEAN
  /\ policy \in Grants \union {NoDays}
  /\ allocation \in [given : Grants \union {NoDays}, used : Nat, remaining : Nat]
  /\ leave \in [Leaves -> LeaveRows]
  /\ request \in [Requests -> {Idle} \union LeaveRequests]

LeaveInit ==
  /\ leaveType = FALSE
  /\ policy = NoDays
  /\ allocation = NoAllocation
  /\ leave = [l \in Leaves |-> [status |-> "absent", days |-> 0]]

----------------------------------------------------------------------------
CreateLeaveType ==
  /\ ~leaveType
  /\ leaveType' = TRUE
  /\ UNCHANGED <<policy, allocation, leave, request>>

\* The foreign keys keep a type that allocations, policies or requests use.
DeleteLeaveType ==
  /\ leaveType
  /\ ~Allocated /\ policy = NoDays
  /\ \A l \in Leaves : leave[l].status = "absent"
  /\ leaveType' = FALSE
  /\ UNCHANGED <<policy, allocation, leave, request>>

Least(days) == IF days < 0 THEN 0 ELSE days

Fresh(given) == [given |-> given, used |-> 0, remaining |-> given]

\* setDesignationLeaveAllocation: the policy, and INSERT ... ON DUPLICATE KEY
\* UPDATE with remaining_days = GREATEST(0, allocated - used_days), if the
\* employee holds the designation.
SetDesignationAllocation(given, held) ==
  /\ leaveType
  /\ policy' = given
  /\ allocation' = IF ~held THEN allocation
                   ELSE IF Allocated
                   THEN [allocation EXCEPT !.given = given, !.remaining = Least(given - allocation.used)]
                   ELSE Fresh(given)
  /\ UNCHANGED <<leaveType, leave, request>>

\* applyDesignationLeavePolicies, when the employee is hired: what is there stays.
ApplyDesignationPolicies ==
  /\ policy # NoDays /\ ~Allocated
  /\ allocation' = Fresh(policy)
  /\ UNCHANGED <<leaveType, policy, leave, request>>

\* setLeaveAllocation reads used_days ...
SetAllocationRead(h, given) ==
  /\ leaveType
  /\ Begin(h, [kind |-> "allocate", given |-> given, exists |-> Allocated, used |-> allocation.used])
  /\ UNCHANGED leaveVars

\* ... and writes what is left of the new cap by it; uk_ela refuses a second row.
SetAllocationWrite(h) ==
  /\ Doing(h, "allocate")
  /\ LET r == request[h]
     IN allocation' =
          IF r.exists
          THEN [allocation EXCEPT !.given = r.given, !.remaining = Least(r.given - r.used)]
          ELSE IF Allocated \/ ~leaveType THEN allocation ELSE Fresh(r.given)
  /\ End(h)
  /\ UNCHANGED <<leaveType, policy, leave>>

----------------------------------------------------------------------------
\* Any balance at all lets a request in; its length is looked at on approval.
CreateLeaveRead(h, days) ==
  /\ leaveType
  /\ Allocated /\ allocation.remaining > 0
  /\ Begin(h, [kind |-> "askLeave", days |-> days])
  /\ UNCHANGED leaveVars

CreateLeaveInsert(h, l) ==
  /\ Doing(h, "askLeave")
  /\ leave[l].status = "absent"
  /\ leave' = [leave EXCEPT ![l] = [status |-> "pending", days |-> request[h].days]]
  /\ End(h)
  /\ UNCHANGED <<leaveType, policy, allocation>>

DecideLeaveRead(h, l, decision) ==
  /\ leave[l].status = "pending"
  /\ Begin(h, [kind |-> "decideLeave", leave |-> l, decision |-> decision])
  /\ UNCHANGED leaveVars

\* Mutant: affectedRows is not looked at.
StillPendingUnchecked(l) == TRUE

\* UPDATE leave_requests ... AND status='pending' finds the row.
StillPending(l) == leave[l].status = "pending"

\* The deduction and the decision are committed together, or neither.
ApproveLeave(h) ==
  /\ Doing(h, "decideLeave") /\ request[h].decision = "approved"
  /\ LET l    == request[h].leave
         days == leave[l].days
     IN IF Allocated /\ allocation.remaining >= days /\ StillPending(l)
        THEN /\ allocation' = [allocation EXCEPT !.used = @ + days, !.remaining = @ - days]
             /\ leave' = [leave EXCEPT ![l].status = "approved"]
        ELSE UNCHANGED <<allocation, leave>>
  /\ End(h)
  /\ UNCHANGED <<leaveType, policy>>

RejectLeave(h) ==
  /\ Doing(h, "decideLeave") /\ request[h].decision = "rejected"
  /\ LET l == request[h].leave
     IN leave' = IF StillPending(l) THEN [leave EXCEPT ![l].status = "rejected"] ELSE leave
  /\ End(h)
  /\ UNCHANGED <<leaveType, policy, allocation>>

LeaveNext ==
  \/ CreateLeaveType \/ DeleteLeaveType \/ ApplyDesignationPolicies
  \/ \E given \in Grants, held \in BOOLEAN : SetDesignationAllocation(given, held)
  \/ \E h \in Requests :
       \/ \E given \in Grants : SetAllocationRead(h, given)
       \/ \E days \in Lengths : CreateLeaveRead(h, days)
       \/ \E l \in Leaves :
            \/ CreateLeaveInsert(h, l)
            \/ \E decision \in {"approved", "rejected"} : DecideLeaveRead(h, l, decision)
       \/ SetAllocationWrite(h) \/ ApproveLeave(h) \/ RejectLeave(h)
       \/ Abandon(h) /\ UNCHANGED leaveVars

LeaveSpec == ServerInit /\ LeaveInit /\ [][LeaveNext]_<<request, leaveVars>>

----------------------------------------------------------------------------
\* The days counted as taken are those of the approved requests, each once,
\* whoever decides at the same time and however the allocation is set around
\* it (the comment in decideLeave about two concurrent approvals).
OnlyApprovedCounts ==
  allocation.used =
    MapThenSumSet(LAMBDA l : leave[l].days, {l \in Leaves : leave[l].status = "approved"})
============================================================================
