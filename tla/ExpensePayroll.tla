---------------------------- MODULE ExpensePayroll ----------------------------
(***************************************************************************)
(* Expense claims and the payroll period that reimburses them              *)
(* (expenses.service.js, salary.controller.js).                            *)
(*                                                                         *)
(* Reviewing and settling a claim reads the row and writes it later, by an *)
(* UPDATE that repeats the condition on its status.  A payroll run is one  *)
(* transaction under REPEATABLE READ: what it SELECTs is the snapshot of   *)
(* its first read, what it DELETEs, INSERTs and UPDATEs is the present,    *)
(* and its locks order it with other runs from the DELETE or the first     *)
(* INSERT to the commit.  So a run is two steps, RunBegin and RunCommit.   *)
(*                                                                         *)
(* One period: claims and payslips of different months never meet.         *)
(***************************************************************************)
EXTENDS Naturals

CONSTANTS
  Claims,
  Employees,
  claimant,     \* employee_uuid of each claim
  Requests,     \* requests in progress at the same time
  NoRecord,     \* SQL NULL in paid_via_salary_record_uuid
  MaxRecords    \* bound: salary records generated for an employee

ASSUME PayrollAssumption ==
  /\ claimant \in [Claims -> Employees]
  /\ NoRecord \notin Employees \X Nat
  /\ MaxRecords \in Nat

VARIABLES
  claim,      \* expense_claims
  payslip,    \* salary_records of the period with their auto_expense lines
  issued,     \* salary records generated so far, by employee
  request,    \* the requests in progress and what they read
  discarded   \* history: claims whose payslip was deleted, or replaced by a
              \* run that had not seen it

vars == <<claim, payslip, issued, request, discarded>>

Modes   == {"payroll", "direct"}
Records == Employees \X Nat    \* a uuid is used once

ClaimRows == [status : {"absent", "pending", "approved", "rejected", "paid"},
              mode   : Modes,
              via    : Records \union {NoRecord}]

\* run is 0 when there is no record; lines counts the claims its lines sum up.
Payslips  == [run : Nat, lines : [Claims -> Nat]]
NoPayslip == [run |-> 0, lines |-> [c \in Claims |-> 0]]

Idle        == [kind |-> "idle"]
Submissions == [kind : {"submit"}, claim : Claims]
Reviews     == [kind : {"review"}, claim : Claims,
                verdict : {"approved", "rejected"}, mode : Modes]
Payments    == [kind : {"pay"}, claim : Claims]
Runs        == [kind  : {"payroll"},
                form  : {"generate", "regenerate"},
                staff : SUBSET Employees,
                fresh : SUBSET Claims,              \* approved, in the snapshot
                seen  : [Employees -> Payslips]]    \* records about to be replaced

TypeOK ==
  /\ claim \in [Claims -> ClaimRows]
  /\ payslip \in [Employees -> Payslips]
  /\ issued \in [Employees -> Nat]
  /\ request \in [Requests -> {Idle} \union Submissions \union Reviews \union Payments \union Runs]
  /\ discarded \in SUBSET Claims

Init ==
  /\ claim = [c \in Claims |-> [status |-> "absent", mode |-> "payroll", via |-> NoRecord]]
  /\ payslip = [e \in Employees |-> NoPayslip]
  /\ issued = [e \in Employees |-> 0]
  /\ request = [h \in Requests |-> Idle]
  /\ discarded = {}

----------------------------------------------------------------------------
Begin(h, r) == request[h] = Idle /\ request' = [request EXCEPT ![h] = r]
End(h)      == request' = [request EXCEPT ![h] = Idle]

Listed(e) == {c \in Claims : payslip[e].lines[c] > 0}

----------------------------------------------------------------------------
\* Filing and reviewing

\* createClaim; the form then asks for approval on the spot.
SubmitClaim(h, c, mode) ==
  /\ claim[c].status = "absent"
  /\ claim' = [claim EXCEPT ![c] = [status |-> "pending", mode |-> mode, via |-> NoRecord]]
  /\ Begin(h, [kind |-> "submit", claim |-> c])
  /\ UNCHANGED <<payslip, issued, discarded>>

\* autoApproveClaim refuses (authority, receipt, limit), or the row is approved
\* unless somebody has decided it meanwhile.
AutoApproveClaim(h) ==
  /\ request[h].kind = "submit"
  /\ LET c == request[h].claim
     IN \/ UNCHANGED claim
        \/ /\ claim[c].status = "pending"
           /\ claim' = [claim EXCEPT ![c].status = "approved"]
  /\ End(h)
  /\ UNCHANGED <<payslip, issued, discarded>>

\* reviewClaim up to its UPDATE.  Receipt and limit may refuse an approval; the
\* reviewer may change how the claim is to be paid.
ReviewRead(h, c, verdict, mode) ==
  /\ claim[c].status = "pending"
  /\ Begin(h, [kind |-> "review", claim |-> c, verdict |-> verdict, mode |-> mode])
  /\ UNCHANGED <<claim, payslip, issued, discarded>>

\* Mutant: UPDATE ... WHERE uuid=? alone.
ReviewWriteUnguarded(h) ==
  /\ request[h].kind = "review"
  /\ LET r == request[h]
     IN claim' = [claim EXCEPT ![r.claim].status = r.verdict, ![r.claim].mode = r.mode]
  /\ End(h)
  /\ UNCHANGED <<payslip, issued, discarded>>

\* UPDATE ... WHERE uuid=? AND status='pending'
ReviewWrite(h) ==
  /\ request[h].kind = "review"
  /\ LET r == request[h]
     IN IF claim[r.claim].status = "pending"
        THEN claim' = [claim EXCEPT ![r.claim].status = r.verdict, ![r.claim].mode = r.mode]
        ELSE UNCHANGED claim
  /\ End(h)
  /\ UNCHANGED <<payslip, issued, discarded>>

----------------------------------------------------------------------------
\* Settling by bank transfer (one claim, or one after the other in a batch)

PayRead(h, c) ==
  /\ claim[c].status = "approved" /\ claim[c].mode = "direct"
  /\ Begin(h, [kind |-> "pay", claim |-> c])
  /\ UNCHANGED <<claim, payslip, issued, discarded>>

\* UPDATE ... SET status='paid' WHERE uuid=? AND status='approved'
PayWrite(h) ==
  /\ request[h].kind = "pay"
  /\ LET c == request[h].claim
     IN IF claim[c].status = "approved"
        THEN claim' = [claim EXCEPT ![c].status = "paid"]
        ELSE UNCHANGED claim
  /\ End(h)
  /\ UNCHANGED <<payslip, issued, discarded>>

----------------------------------------------------------------------------
\* Payroll

\* Mutant: the query forgets payment_mode.
PayableAnyMode(staff) ==
  {c \in Claims : claimant[c] \in staff /\ claim[c].status = "approved"}

\* getApprovedClaimsForPeriod, for everybody in the run.
Payable(staff) ==
  {c \in Claims : claimant[c] \in staff /\ claim[c].status = "approved" /\ claim[c].mode = "payroll"}

\* The snapshot of generatePayroll.  A run for the whole organization is refused
\* when a record exists, one for selected employees skips those who have one,
\* and a regeneration keeps the lines it is about to delete.
RunBegin(h, form, staff) ==
  /\ staff # {}
  /\ form = "generate" => \A e \in staff : payslip[e].run = 0
  /\ Begin(h, [kind  |-> "payroll", form |-> form, staff |-> staff,
               fresh |-> Payable(staff),
               seen  |-> [e \in Employees |-> IF form = "regenerate" /\ e \in staff
                                              THEN payslip[e] ELSE NoPayslip]])
  /\ UNCHANGED <<claim, payslip, issued, discarded>>

\* Mutant: a regeneration forgets the old lines.
NewPayslipAfresh(r, e) ==
  [run   |-> issued[e] + 1,
   lines |-> [c \in Claims |-> IF c \in r.fresh /\ claimant[c] = e THEN 1 ELSE 0]]

\* The record a run inserts for e: what it carries forward and what is new.
NewPayslip(r, e) ==
  [run   |-> issued[e] + 1,
   lines |-> [c \in Claims |->
                r.seen[e].lines[c] + IF c \in r.fresh /\ claimant[c] = e THEN 1 ELSE 0]]

\* Employees whose old record had a reimbursement.
Carriers(r) == {e \in r.staff : \E c \in Claims : r.seen[e].lines[c] > 0}

Doomed(r) == {<<e, r.seen[e].run>> : e \in {e \in r.staff : r.seen[e].run > 0}}

\* markClaimsPaidByPayroll and repointClaimsPaidByPayroll.  The latter is called
\* for each employee with all the deleted records of the run, so the first one
\* with lines to carry takes over the claims of everybody.
SettledRow(r, first, c) ==
  IF c \in r.fresh /\ claim[c].status = "approved"
  THEN [claim[c] EXCEPT !.status = "paid",
                        !.via = <<claimant[c], issued[claimant[c]] + 1>>]
  ELSE IF Carriers(r) # {} /\ claim[c].status = "paid" /\ claim[c].via \in Doomed(r)
  THEN [claim[c] EXCEPT !.via = <<first, issued[first] + 1>>]
  ELSE claim[c]

\* The writes of generatePayroll.  A record that appeared since the snapshot is
\* a duplicate key for a generation, and is deleted by a regeneration.
RunCommit(h) ==
  /\ request[h].kind = "payroll"
  /\ LET r == request[h]
         overtaken == {e \in r.staff : payslip[e].run # r.seen[e].run}
     IN /\ \A e \in r.staff : issued[e] < MaxRecords
        /\ r.form = "generate" => \A e \in r.staff : payslip[e].run = 0
        /\ \E first \in r.staff :
             /\ Carriers(r) # {} => first \in Carriers(r)
             /\ claim' = [c \in Claims |-> SettledRow(r, first, c)]
        /\ payslip' = [e \in Employees |-> IF e \in r.staff THEN NewPayslip(r, e) ELSE payslip[e]]
        /\ issued' = [e \in Employees |-> IF e \in r.staff THEN issued[e] + 1 ELSE issued[e]]
        /\ discarded' = discarded \union UNION {Listed(e) : e \in overtaken}
  /\ End(h)

\* Duplicate key, incomplete setup, deadlock: the transaction rolls back.  Any
\* request may also die with its process.
Abandon(h) ==
  /\ request[h] # Idle
  /\ End(h)
  /\ UNCHANGED <<claim, payslip, issued, discarded>>

\* deleteSalaryPeriod, or deleteSalaryRecord of one employee.  The lines go with
\* the record, the claims stay paid.
DeleteSalaryRecords(staff) ==
  /\ \E e \in staff : payslip[e].run > 0
  /\ payslip' = [e \in Employees |-> IF e \in staff THEN NoPayslip ELSE payslip[e]]
  /\ discarded' = discarded \union UNION {Listed(e) : e \in staff}
  /\ UNCHANGED <<claim, issued, request>>

----------------------------------------------------------------------------
Next ==
  \/ \E h \in Requests :
       \/ \E c \in Claims, mode \in Modes : SubmitClaim(h, c, mode)
       \/ AutoApproveClaim(h)
       \/ \E c \in Claims, verdict \in {"approved", "rejected"}, mode \in Modes :
            ReviewRead(h, c, verdict, mode)
       \/ ReviewWrite(h)
       \/ \E c \in Claims : PayRead(h, c)
       \/ PayWrite(h)
       \/ \E form \in {"generate", "regenerate"}, staff \in SUBSET Employees :
            RunBegin(h, form, staff)
       \/ RunCommit(h)
       \/ Abandon(h)
  \/ DeleteSalaryRecords(Employees)
  \/ \E e \in Employees : DeleteSalaryRecords({e})

Spec == Init /\ [][Next]_vars

----------------------------------------------------------------------------
\* A claim is paid exactly once: it is on one payslip, its claimant's, once, and
\* never after a transfer; a transfer names no payslip (the promise at the head
\* of expenses.service.js).
PaidOnce ==
  \A c \in Claims :
    /\ \A e \in Employees : payslip[e].lines[c] > 0 =>
         /\ e = claimant[c] /\ payslip[e].lines[c] = 1
         /\ claim[c].status = "paid" /\ claim[c].mode = "payroll"
    /\ claim[c].status = "paid" => (claim[c].mode = "direct" <=> claim[c].via = NoRecord)

\* A reimbursement stays on the payslip of its claimant through every later
\* regeneration, unless an administrator deleted the record or two runs
\* overlapped (the carried lines of generatePayroll).
ReimbursementKept ==
  \A c \in Claims :
    claim[c].status = "paid" /\ claim[c].mode = "payroll" /\ c \notin discarded
      => payslip[claimant[c]].lines[c] = 1

\* Whatever requests read before, a decision is made once and stands, paid is
\* final, and how a claim is to be paid is fixed with the decision (reviewClaim,
\* autoApproveClaim, markClaimPaid, markClaimsPaidByPayroll).
ForwardOnly(c) ==
  /\ claim'[c].status # claim[c].status =>
       <<claim[c].status, claim'[c].status>> \in
         {<<"absent", "pending">>, <<"pending", "approved">>,
          <<"pending", "rejected">>, <<"approved", "paid">>}
  /\ claim'[c].mode # claim[c].mode => claim[c].status \in {"absent", "pending"}

DecisionStands == [][\A c \in Claims : ForwardOnly(c)]_vars

\* A claim can be traced to the payslip that carried it: the record it names is
\* the current one of its claimant (the head of expenses.service.js, and the
\* re-pointing in generatePayroll).
TracedToItsPayslip ==
  \A c \in Claims :
    claim[c].via # NoRecord /\ c \notin discarded
      => claim[c].via = <<claimant[c], payslip[claimant[c]].run>>

----------------------------------------------------------------------------
\* Why: what a run read is still true where it matters.

\* A claim that was payable in the snapshot is still to be paid by payroll, or
\* has been.
FreshIsPayable ==
  \A h \in Requests : request[h].kind = "payroll" =>
    \A c \in request[h].fresh :
      claimant[c] \in request[h].staff
      /\ claim[c].status \in {"approved", "paid"} /\ claim[c].mode = "payroll"

\* A line that is carried forward is a reimbursement that was made, and not one
\* the run is about to make.
CarriedIsPaid ==
  \A h \in Requests : request[h].kind = "payroll" =>
    \A e \in Employees, c \in Claims : request[h].seen[e].lines[c] > 0 =>
      /\ e = claimant[c] /\ request[h].seen[e].lines[c] = 1 /\ c \notin request[h].fresh
      /\ claim[c].status = "paid" /\ claim[c].mode = "payroll"

\* A record with the number that was seen is the record that was seen, and a
\* generation saw none.
SnapshotsAgree ==
  /\ \A e \in Employees :
       payslip[e].run <= issued[e] /\ (payslip[e].run = 0 => payslip[e] = NoPayslip)
  /\ \A h \in Requests : request[h].kind = "payroll" =>
       \A e \in request[h].staff :
         /\ request[h].seen[e].run <= issued[e]
         /\ request[h].seen[e].run = payslip[e].run => request[h].seen[e] = payslip[e]
         /\ request[h].seen[e].run = 0 => request[h].seen[e] = NoPayslip
         /\ request[h].form = "generate" => request[h].seen[e] = NoPayslip

\* Who is to be paid by transfer names no record.
TransfersNameNone ==
  \A c \in Claims :
    /\ claim[c].status # "paid" => claim[c].via = NoRecord
    /\ \A h \in Requests : request[h].kind = "pay" /\ request[h].claim = c =>
         claim[c].status \in {"approved", "paid"} /\ claim[c].mode = "direct"

IInv ==
  /\ TypeOK /\ FreshIsPayable /\ CarriedIsPaid /\ SnapshotsAgree /\ TransfersNameNone
  /\ PaidOnce /\ ReimbursementKept
============================================================================
