------------------------------ MODULE Approvals ------------------------------
(***************************************************************************)
(* The generic approval chain of one entity (approvalWorkflow.service.js): *)
(* start, approve or reject step by step, cancel, while administrators     *)
(* change roles and the organization's policy.                             *)
(*                                                                         *)
(* Deciding and cancelling lock the request's row before they read it.     *)
(* Starting has no row to lock: it checks, and the unique index over       *)
(* live_entity_uuid decides.                                               *)
(***************************************************************************)
EXTENDS Server, Naturals, Sequences

CONSTANTS
  Users,
  Chain,          \* approver_type of each step of the workflow, in order
  Approvals,      \* rows of approval_requests for the entity
  NoUser          \* SQL NULL

Roles == {"org_admin", "sub_admin", "inactive"}

ASSUME ChainAssumption ==
  /\ Chain \in Seq(Roles \ {"inactive"})
  /\ Chain # <<>>
  /\ NoUser \notin Users

VARIABLES
  role,           \* users: org_role of the active ones
  strict,         \* organization_approval_policies.strict_dual_control
  approval        \* approval_requests, with approval_step_history

approvalVars == <<role, strict, approval>>

StepsOf == DOMAIN Chain

\* signed names who approved each step; an auto-approved request has no step.
ApprovalRows == [status    : {"absent", "pending", "approved", "rejected", "cancelled"},
                 requester : Users \union {NoUser},
                 step      : StepsOf \union {0},
                 signed    : [StepsOf -> Users \union {NoUser}]]

NoSignature == [s \in StepsOf |-> NoUser]
NoApproval  == [status |-> "absent", requester |-> NoUser, step |-> 0, signed |-> NoSignature]

ApprovalRequests ==
  [kind : {"startApproval"}, requester : Users, auto : BOOLEAN]
    \union [kind : {"decideApproval"}, row : Approvals, actor : Users,
            decision : {"approve", "reject"}]

ApprovalsTypeOK ==
  /\ role \in [Users -> Roles]
  /\ strict \in BOOLEAN
  /\ approval \in [Approvals -> ApprovalRows]
  /\ request \in [Requests -> {Idle} \union ApprovalRequests]

ApprovalsInit ==
  /\ role = [u \in Users |-> "org_admin"]
  /\ strict = FALSE
  /\ approval = [r \in Approvals |-> NoApproval]

----------------------------------------------------------------------------
\* resolveApprovers, with the requester only when there is nobody else
Holders(s)             == {u \in Users : role[u] = Chain[s]}
Eligible(s, requester) == IF Holders(s) \ {requester} # {} THEN Holders(s) \ {requester}
                          ELSE Holders(s)

\* updateUser, deleteUser and revokeAdminUser switch accounts off and on.  An account
\* made anew, with another role, takes the place of one that is gone.
ChangeRole(u, r) ==
  /\ role[u] # r
  /\ role' = [role EXCEPT ![u] = r]
  /\ UNCHANGED <<strict, approval, request>>

SetApprovalPolicy(b) ==
  /\ strict # b
  /\ strict' = b
  /\ UNCHANGED <<role, approval, request>>

\* startApproval up to its INSERT: nothing in flight, every step has somebody.
StartApprovalRead(h, u) ==
  /\ role[u] # "inactive"
  /\ \A r \in Approvals : approval[r].status # "pending"
  /\ LET auto == ~strict /\ role[u] = "org_admin"
     IN /\ auto \/ \A s \in StepsOf : Eligible(s, u) # {}
        /\ Begin(h, [kind |-> "startApproval", requester |-> u, auto |-> auto])
  /\ UNCHANGED approvalVars

\* Mutant: no unique index.
OneLiveNone == TRUE

\* uk_approval_requests_one_live
OneLive == \A r \in Approvals : approval[r].status # "pending"

StartApprovalInsert(h, r) ==
  /\ Doing(h, "startApproval")
  /\ approval[r] = NoApproval
  /\ LET q == request[h]
     IN approval' =
          IF q.auto
          THEN [approval EXCEPT ![r] = [NoApproval EXCEPT !.status = "approved",
                                                          !.requester = q.requester]]
          ELSE IF OneLive
          THEN [approval EXCEPT ![r] = [NoApproval EXCEPT !.status = "pending",
                                                          !.requester = q.requester, !.step = 1]]
          ELSE approval
  /\ End(h)
  /\ UNCHANGED <<role, strict>>

\* Mutant: SELECT without FOR UPDATE.
UnlockedAlways(r) == TRUE

\* SELECT ... FOR UPDATE returns: no other decision holds the row.
Unlocked(r) == \A g \in Requests : Doing(g, "decideApproval") => request[g].row # r

\* decideApproval up to its first write.
DecideApprovalRead(h, r, u, decision) ==
  /\ Unlocked(r)
  /\ approval[r].status = "pending"
  /\ approval[r].requester # u
  /\ u \in Holders(approval[r].step)
  /\ Begin(h, [kind |-> "decideApproval", row |-> r, actor |-> u, decision |-> decision])
  /\ UNCHANGED approvalVars

\* Its writes and the commit; the next step must have somebody, or all is
\* rolled back.
DecideApprovalCommit(h) ==
  /\ Doing(h, "decideApproval")
  /\ LET q    == request[h]
         row  == approval[q.row]
         next == row.step + 1
         seen == [row EXCEPT !.signed[row.step] = q.actor]
     IN approval' =
          [approval EXCEPT ![q.row] =
             IF q.decision = "reject" THEN [row EXCEPT !.status = "rejected"]
             ELSE IF next \notin StepsOf THEN [seen EXCEPT !.status = "approved"]
             ELSE IF Eligible(next, row.requester) = {} THEN row
             ELSE [seen EXCEPT !.step = next]]
  /\ End(h)
  /\ UNCHANGED <<role, strict>>

\* cancelApproval, by the requester or an organization admin
CancelApproval(r, u) ==
  /\ Unlocked(r)
  /\ approval[r].status = "pending"
  /\ approval[r].requester = u \/ role[u] = "org_admin"
  /\ approval' = [approval EXCEPT ![r].status = "cancelled"]
  /\ UNCHANGED <<role, strict, request>>

ApprovalsNext ==
  \/ \E u \in Users, r \in Roles : ChangeRole(u, r)
  \/ \E b \in BOOLEAN : SetApprovalPolicy(b)
  \/ \E h \in Requests :
       \/ \E u \in Users : StartApprovalRead(h, u)
       \/ \E r \in Approvals :
            \/ StartApprovalInsert(h, r)
            \/ \E u \in Users, decision \in {"approve", "reject"} :
                 DecideApprovalRead(h, r, u, decision)
       \/ DecideApprovalCommit(h)
       \/ Abandon(h) /\ UNCHANGED approvalVars
  \/ \E r \in Approvals, u \in Users : CancelApproval(r, u)

ApprovalsSpec ==
  ServerInit /\ ApprovalsInit /\ [][ApprovalsNext]_<<request, approvalVars>>

----------------------------------------------------------------------------
\* The chain is sound: one request of the entity is in flight at most, an
\* approved one carries the signature of every step, a pending one those of
\* the steps before the current, and none of them is the requester's, however
\* roles change between the steps.  (Only an organization admin's request
\* under single control is approved without a chain: step 0.)
ChainIsSound ==
  /\ \A r, q \in Approvals :
       (approval[r].status = "pending" /\ approval[q].status = "pending") => r = q
  /\ \A r \in Approvals :
       LET row    == approval[r]
           signed == {s \in StepsOf : row.signed[s] # NoUser}
       IN /\ row.status = "approved" => row.step = 0 \/ signed = StepsOf
          /\ row.status = "pending" => signed = {s \in StepsOf : s < row.step}
          /\ \A s \in signed : row.signed[s] # row.requester

\* Resolved is final: a rejection, an approval or a withdrawal is never
\* overwritten by a decision taken on the row as it was before.
ResolvedIsFinal ==
  [][\A r \in Approvals :
       approval[r].status \notin {"absent", "pending"} => approval'[r] = approval[r]]_approval
============================================================================
