------------------------- MODULE ExpensePayroll_proofs -------------------------
(* Theorems about ExpensePayroll, for every set of claims, employees and    *)
(* requests.                                                                *)
EXTENDS ExpensePayroll, TLAPS

LEMMA InitInv == Init => IInv
  <1> SUFFICES ASSUME Init PROVE IInv
    OBVIOUS
  <1>1. NoPayslip \in Payslips
    BY DEF NoPayslip, Payslips
  <1>2. TypeOK
    BY <1>1 DEF Init, TypeOK, ClaimRows, Modes, Idle
  <1>3. FreshIsPayable /\ CarriedIsPaid
    BY DEF Init, FreshIsPayable, CarriedIsPaid, Idle
  <1>4. SnapshotsAgree
    BY DEF Init, SnapshotsAgree, NoPayslip, Idle
  <1>5. TransfersNameNone
    BY DEF Init, TransfersNameNone, Idle
  <1>6. PaidOnce /\ ReimbursementKept
    BY DEF Init, PaidOnce, ReimbursementKept, NoPayslip
  <1> QED
    BY <1>2, <1>3, <1>4, <1>5, <1>6 DEF IInv

----------------------------------------------------------------------------
(* The requests *)

Quiet == {Idle} \union Submissions \union Reviews \union Payments

LEMMA RequestTyped ==
  ASSUME TypeOK, NEW h \in Requests
  PROVE  /\ request[h].kind = "payroll" => request[h] \in Runs
         /\ request[h].kind = "submit" => request[h] \in Submissions
         /\ request[h].kind = "review" => request[h] \in Reviews
         /\ request[h].kind = "pay" => request[h] \in Payments
  BY DEF TypeOK, Idle, Submissions, Reviews, Payments, Runs

LEMMA QuietIsNoRun ==
  ASSUME NEW r \in Quiet
  PROVE  r.kind # "payroll"
  BY DEF Quiet, Idle, Submissions, Reviews, Payments

\* A request takes a step that changes no table.
LEMMA RequestStep ==
  ASSUME IInv, NEW h \in Requests, NEW r \in Quiet,
         request' = [request EXCEPT ![h] = r],
         r.kind = "pay" => claim[r.claim].status = "approved" /\ claim[r.claim].mode = "direct",
         UNCHANGED <<claim, payslip, issued, discarded>>
  PROVE  IInv'
  <1> USE DEF IInv
  <1>1. r.kind # "payroll"
    BY QuietIsNoRun
  <1>2. /\ request'[h] = r
        /\ \A g \in Requests : g # h => request'[g] = request[g]
    BY DEF TypeOK
  <1>3. TypeOK'
    BY DEF TypeOK, Quiet
  <1>4. FreshIsPayable' /\ CarriedIsPaid'
    BY <1>1, <1>2 DEF FreshIsPayable, CarriedIsPaid
  <1>5. SnapshotsAgree'
    BY <1>1, <1>2 DEF SnapshotsAgree
  <1>6. TransfersNameNone'
    BY <1>2 DEF TransfersNameNone
  <1>7. PaidOnce' /\ ReimbursementKept'
    BY DEF PaidOnce, ReimbursementKept
  <1> QED
    BY <1>3, <1>4, <1>5, <1>6, <1>7

\* A claim that no run has seen as payable and no payslip lists changes.
LEMMA ClaimStep ==
  ASSUME IInv, NEW h \in Requests, NEW r \in Quiet, r.kind # "pay",
         request' = [request EXCEPT ![h] = r],
         NEW c \in Claims, NEW row \in ClaimRows,
         claim' = [claim EXCEPT ![c] = row],
         row.via = NoRecord,
         \/ claim[c].status \in {"absent", "pending"} /\ row.status # "paid"
         \/ /\ claim[c].status = "approved" /\ claim[c].mode = "direct"
            /\ row.status = "paid" /\ row.mode = "direct",
         UNCHANGED <<payslip, issued, discarded>>
  PROVE  IInv'
  <1> USE DEF IInv
  <1>1. r.kind # "payroll"
    BY QuietIsNoRun
  <1>2. /\ request'[h] = r
        /\ \A g \in Requests : g # h => request'[g] = request[g]
    BY DEF TypeOK
  <1>3. /\ claim'[c] = row
        /\ \A k \in Claims : k # c => claim'[k] = claim[k]
    BY DEF TypeOK
  <1>4. TypeOK'
    BY DEF TypeOK, Quiet
  <1>5. FreshIsPayable'
    BY <1>1, <1>2, <1>3, RequestTyped DEF FreshIsPayable, Runs
  <1>6. CarriedIsPaid'
    BY <1>1, <1>2, <1>3 DEF CarriedIsPaid
  <1>7. SnapshotsAgree'
    BY <1>1, <1>2 DEF SnapshotsAgree
  <1>8. TransfersNameNone'
    BY <1>2, <1>3 DEF TransfersNameNone
  <1>9. PaidOnce'
    BY <1>3 DEF PaidOnce
  <1>10. ReimbursementKept'
    BY <1>3 DEF ReimbursementKept
  <1> QED
    BY <1>4, <1>5, <1>6, <1>7, <1>8, <1>9, <1>10

LEMMA IdleIsQuiet == Idle \in Quiet /\ Idle.kind = "idle"
  BY DEF Quiet, Idle

LEMMA SubmitStep ==
  ASSUME IInv, NEW h \in Requests, NEW c \in Claims, NEW mode \in Modes,
         SubmitClaim(h, c, mode)
  PROVE  IInv'
  <1>1. [kind |-> "submit", claim |-> c] \in Quiet
    BY DEF Quiet, Submissions
  <1>2. [status |-> "pending", mode |-> mode, via |-> NoRecord] \in ClaimRows
    BY DEF ClaimRows
  <1> QED
    BY <1>1, <1>2, ClaimStep DEF SubmitClaim, Begin

\* A row of the table, changed in its status.
LEMMA RowWithStatus ==
  ASSUME IInv, NEW c \in Claims, claim[c].status # "paid",
         NEW s \in {"pending", "approved", "rejected", "paid"}
  PROVE  \E row \in ClaimRows :
           /\ row.status = s /\ row.mode = claim[c].mode /\ row.via = NoRecord
           /\ [claim EXCEPT ![c].status = s] = [claim EXCEPT ![c] = row]
  <1>1. claim[c] \in ClaimRows /\ claim[c].via = NoRecord
    BY DEF IInv, TypeOK, TransfersNameNone
  <1> DEFINE row == [claim[c] EXCEPT !.status = s]
  <1>2. row \in ClaimRows /\ row.status = s /\ row.mode = claim[c].mode /\ row.via = NoRecord
    BY <1>1 DEF ClaimRows
  <1>3. [claim EXCEPT ![c].status = s] = [claim EXCEPT ![c] = row]
    OBVIOUS
  <1> QED
    BY <1>2, <1>3

LEMMA AutoApproveStep ==
  ASSUME IInv, NEW h \in Requests, AutoApproveClaim(h)
  PROVE  IInv'
  <1>1. PICK c \in Claims : c = request[h].claim
    BY RequestTyped DEF AutoApproveClaim, IInv, Submissions
  <1>2. CASE UNCHANGED claim
    BY <1>2, IdleIsQuiet, RequestStep DEF AutoApproveClaim, End
  <1>3. CASE claim[c].status = "pending" /\ claim' = [claim EXCEPT ![c].status = "approved"]
    <2>1. claim[c].status # "paid"
      BY <1>3
    <2>2. PICK row \in ClaimRows :
            /\ row.status = "approved" /\ row.mode = claim[c].mode /\ row.via = NoRecord
            /\ [claim EXCEPT ![c].status = "approved"] = [claim EXCEPT ![c] = row]
      BY <2>1, RowWithStatus
    <2>3. claim' = [claim EXCEPT ![c] = row]
      BY <1>3, <2>2
    <2> QED
      BY <1>3, <2>2, <2>3, IdleIsQuiet, ClaimStep DEF AutoApproveClaim, End
  <1> QED
    BY <1>1, <1>2, <1>3 DEF AutoApproveClaim

LEMMA ReviewReadStep ==
  ASSUME IInv, NEW h \in Requests, NEW c \in Claims, NEW verdict \in {"approved", "rejected"},
         NEW mode \in Modes, ReviewRead(h, c, verdict, mode)
  PROVE  IInv'
  <1>1. [kind |-> "review", claim |-> c, verdict |-> verdict, mode |-> mode] \in Quiet
    BY DEF Quiet, Reviews
  <1> QED
    BY <1>1, RequestStep DEF ReviewRead, Begin

LEMMA ReviewWriteStep ==
  ASSUME IInv, NEW h \in Requests, ReviewWrite(h)
  PROVE  IInv'
  <1>1. PICK r \in Reviews : r = request[h]
    BY RequestTyped DEF ReviewWrite, IInv
  <1>2. CASE claim[r.claim].status = "pending"
    <2>1. PICK c \in Claims, s \in {"approved", "rejected"}, m \in Modes :
            c = r.claim /\ s = r.verdict /\ m = r.mode
      BY DEF Reviews
    <2>2. claim' = [claim EXCEPT ![c].status = s, ![c].mode = m]
      BY <1>1, <1>2, <2>1 DEF ReviewWrite
    <2>3. claim[c].status # "paid"
      BY <1>2, <2>1
    <2> DEFINE row == [claim[c] EXCEPT !.status = s, !.mode = m]
    <2>4. claim[c] \in ClaimRows /\ claim[c].via = NoRecord
      BY <2>3 DEF IInv, TypeOK, TransfersNameNone
    <2>5. row \in ClaimRows /\ row.status = s /\ row.via = NoRecord
      BY <2>4 DEF ClaimRows
    <2>6. claim' = [claim EXCEPT ![c] = row]
      BY <2>2 DEF IInv, TypeOK
    <2> HIDE DEF row
    <2> QED
      BY <1>2, <2>1, <2>5, <2>6, IdleIsQuiet, ClaimStep DEF ReviewWrite, End
  <1>3. CASE claim[r.claim].status # "pending"
    BY <1>1, <1>3, IdleIsQuiet, RequestStep DEF ReviewWrite, End
  <1> QED
    BY <1>2, <1>3

LEMMA PayReadStep ==
  ASSUME IInv, NEW h \in Requests, NEW c \in Claims, PayRead(h, c)
  PROVE  IInv'
  <1>1. [kind |-> "pay", claim |-> c] \in Quiet
    BY DEF Quiet, Payments
  <1> QED
    BY <1>1, RequestStep DEF PayRead, Begin

LEMMA PayWriteStep ==
  ASSUME IInv, NEW h \in Requests, PayWrite(h)
  PROVE  IInv'
  <1>1. PICK c \in Claims : c = request[h].claim
    BY RequestTyped DEF PayWrite, IInv, Payments
  <1>2. claim[c].status \in {"approved", "paid"} /\ claim[c].mode = "direct"
    BY <1>1 DEF PayWrite, IInv, TransfersNameNone
  <1>3. CASE claim[c].status = "approved"
    <2>1. claim' = [claim EXCEPT ![c].status = "paid"]
      BY <1>1, <1>3 DEF PayWrite
    <2>2. claim[c].status # "paid"
      BY <1>3
    <2>3. PICK row \in ClaimRows :
            /\ row.status = "paid" /\ row.mode = claim[c].mode /\ row.via = NoRecord
            /\ [claim EXCEPT ![c].status = "paid"] = [claim EXCEPT ![c] = row]
      BY <2>2, RowWithStatus
    <2>4. claim' = [claim EXCEPT ![c] = row]
      BY <2>1, <2>3
    <2> QED
      BY <1>2, <1>3, <2>3, <2>4, IdleIsQuiet, ClaimStep DEF PayWrite, End
  <1>4. CASE claim[c].status # "approved"
    BY <1>1, <1>4, IdleIsQuiet, RequestStep DEF PayWrite, End
  <1> QED
    BY <1>3, <1>4

LEMMA AbandonStep ==
  ASSUME IInv, NEW h \in Requests, Abandon(h)
  PROVE  IInv'
  BY IdleIsQuiet, RequestStep DEF Abandon, End

----------------------------------------------------------------------------
(* Payroll *)

LEMMA RunBeginStep ==
  ASSUME IInv, NEW h \in Requests, NEW form \in {"generate", "regenerate"},
         NEW staff \in SUBSET Employees, RunBegin(h, form, staff)
  PROVE  IInv'
  <1> USE DEF IInv
  <1> DEFINE seen == [e \in Employees |-> IF form = "regenerate" /\ e \in staff
                                          THEN payslip[e] ELSE NoPayslip]
             r == [kind |-> "payroll", form |-> form, staff |-> staff,
                   fresh |-> Payable(staff), seen |-> seen]
  <1>1. /\ request'[h] = r
        /\ \A g \in Requests : g # h => request'[g] = request[g]
        /\ UNCHANGED <<claim, payslip, issued, discarded>>
    BY DEF TypeOK, RunBegin, Begin
  <1>2. NoPayslip \in Payslips /\ \A c \in Claims : NoPayslip.lines[c] = 0
    BY DEF NoPayslip, Payslips
  <1>3. seen \in [Employees -> Payslips]
    BY <1>2 DEF TypeOK
  <1>4. r \in Runs
    BY <1>3 DEF Runs, Payable
  <1>5. TypeOK'
    BY <1>1, <1>4 DEF TypeOK, RunBegin, Begin
  <1>6. FreshIsPayable'
    BY <1>1 DEF FreshIsPayable, Payable
  <1>7. \A e \in Employees, c \in Claims : seen[e].lines[c] > 0 =>
          /\ e = claimant[c] /\ seen[e].lines[c] = 1 /\ c \notin Payable(staff)
          /\ claim[c].status = "paid" /\ claim[c].mode = "payroll"
    BY <1>2 DEF PaidOnce, Payable
  <1>8. CarriedIsPaid'
    BY <1>1, <1>7 DEF CarriedIsPaid
  <1>9. \A e \in staff :
          /\ seen[e].run <= issued[e]
          /\ seen[e].run = payslip[e].run => seen[e] = payslip[e]
          /\ seen[e].run = 0 => seen[e] = NoPayslip
          /\ form = "generate" => seen[e] = NoPayslip
    BY DEF SnapshotsAgree, TypeOK, NoPayslip, Payslips
  <1>10. SnapshotsAgree'
    BY <1>1, <1>9 DEF SnapshotsAgree
  <1>11. TransfersNameNone' /\ PaidOnce' /\ ReimbursementKept'
    BY <1>1 DEF TransfersNameNone, PaidOnce, ReimbursementKept
  <1> QED
    BY <1>5, <1>6, <1>8, <1>10, <1>11

LEMMA DeleteStep ==
  ASSUME IInv, NEW staff \in SUBSET Employees, DeleteSalaryRecords(staff)
  PROVE  IInv'
  <1> USE DEF IInv, DeleteSalaryRecords
  <1>1. NoPayslip \in Payslips /\ \A c \in Claims : NoPayslip.lines[c] = 0
    BY DEF NoPayslip, Payslips
  <1>2. \A e \in Employees : payslip'[e] = IF e \in staff THEN NoPayslip ELSE payslip[e]
    OBVIOUS
  <1>3. TypeOK'
    BY <1>1 DEF TypeOK, Listed
  <1>4. FreshIsPayable' /\ CarriedIsPaid' /\ TransfersNameNone'
    BY DEF FreshIsPayable, CarriedIsPaid, TransfersNameNone
  <1>a. NoPayslip.run = 0 /\ \A e \in Employees : issued[e] \in Nat
    BY DEF NoPayslip, TypeOK
  <1>5. SnapshotsAgree'
    <2>1. \A e \in Employees :
            payslip'[e].run <= issued'[e] /\ (payslip'[e].run = 0 => payslip'[e] = NoPayslip)
      BY <1>2, <1>a DEF SnapshotsAgree
    <2>2. ASSUME NEW g \in Requests, request[g].kind = "payroll", NEW e \in request[g].staff
          PROVE  request[g].seen[e].run = payslip'[e].run => request[g].seen[e] = payslip'[e]
      <3>1. e \in Employees
        BY <2>2, RequestTyped DEF Runs
      <3>2. CASE e \in staff
        BY <1>2, <1>a, <2>2, <3>1, <3>2 DEF SnapshotsAgree
      <3>3. CASE e \notin staff
        BY <1>2, <2>2, <3>1, <3>3 DEF SnapshotsAgree
      <3> QED
        BY <3>2, <3>3
    <2> QED
      BY <2>1, <2>2 DEF SnapshotsAgree
  <1>6. PaidOnce'
    BY <1>1, <1>2 DEF PaidOnce
  <1>7. ASSUME NEW c \in Claims, claim'[c].status = "paid", claim'[c].mode = "payroll", c \notin discarded'
        PROVE  payslip'[claimant[c]].lines[c] = 1
    <2>1. claimant[c] \in Employees
      BY PayrollAssumption
    <2>2. payslip[claimant[c]].lines[c] = 1
      BY <1>7 DEF ReimbursementKept
    <2>3. claimant[c] \notin staff
      BY <1>7, <2>2 DEF Listed
    <2> QED
      BY <1>2, <2>1, <2>2, <2>3
  <1>8. ReimbursementKept'
    BY <1>7 DEF ReimbursementKept
  <1> QED
    BY <1>3, <1>4, <1>5, <1>6, <1>8

\* What a run does to a claim: it pays those it found payable, and names another
\* record in claims that payslips have paid.
LEMMA RunSettles ==
  ASSUME IInv, NEW h \in Requests, RunCommit(h)
  PROVE  /\ claim' \in [Claims -> ClaimRows]
         /\ \A c \in Claims :
              /\ claim'[c].mode = claim[c].mode
              /\ claim'[c].status = IF c \in request[h].fresh /\ claim[c].status = "approved"
                                    THEN "paid" ELSE claim[c].status
              /\ \/ claim'[c].via = claim[c].via /\ claim'[c].status = claim[c].status
                 \/ claim'[c].via \in Records /\ claim'[c].status = "paid" /\ claim[c].mode = "payroll"
  <1> USE DEF IInv
  <1>1. PICK r \in Runs : r = request[h]
    BY RequestTyped DEF RunCommit
  <1>2. PICK first \in r.staff : claim' = [c \in Claims |-> SettledRow(r, first, c)]
    BY <1>1 DEF RunCommit
  <1>3. first \in Employees /\ <<first, issued[first] + 1>> \in Records
    BY <1>2 DEF Runs, TypeOK, Records
  <1>4. ASSUME NEW c \in Claims
        PROVE  /\ SettledRow(r, first, c) \in ClaimRows
               /\ SettledRow(r, first, c).mode = claim[c].mode
               /\ SettledRow(r, first, c).status = IF c \in r.fresh /\ claim[c].status = "approved"
                                                   THEN "paid" ELSE claim[c].status
               /\ \/ /\ SettledRow(r, first, c).via = claim[c].via
                     /\ SettledRow(r, first, c).status = claim[c].status
                  \/ /\ SettledRow(r, first, c).via \in Records
                     /\ SettledRow(r, first, c).status = "paid" /\ claim[c].mode = "payroll"
    <2>1. claim[c] \in ClaimRows /\ <<claimant[c], issued[claimant[c]] + 1>> \in Records
      BY PayrollAssumption DEF TypeOK, Records
    <2>2. CASE c \in r.fresh /\ claim[c].status = "approved"
      <3>1. claim[c].mode = "payroll"
        BY <1>1, <2>2 DEF FreshIsPayable, Runs
      <3> QED
        BY <2>1, <2>2, <3>1 DEF SettledRow, ClaimRows
    <2>3. CASE ~(c \in r.fresh /\ claim[c].status = "approved")
               /\ Carriers(r) # {} /\ claim[c].status = "paid" /\ claim[c].via \in Doomed(r)
      <3>a. claim[c].via \in Employees \X Nat
        <4>1. PICK e \in r.staff : claim[c].via = <<e, r.seen[e].run>>
          BY <2>3 DEF Doomed
        <4>2. e \in Employees /\ r.seen[e].run \in Nat
          BY DEF Runs, Payslips
        <4> QED
          BY <4>1, <4>2
      <3>1. claim[c].via # NoRecord
        BY <3>a, PayrollAssumption
      <3>2. claim[c].mode = "payroll"
        BY <2>1, <2>3, <3>1 DEF PaidOnce, ClaimRows, Modes
      <3> QED
        BY <1>3, <2>1, <2>3, <3>2 DEF SettledRow, ClaimRows
    <2>4. CASE ~(c \in r.fresh /\ claim[c].status = "approved")
               /\ ~(Carriers(r) # {} /\ claim[c].status = "paid" /\ claim[c].via \in Doomed(r))
      BY <2>1, <2>4 DEF SettledRow
    <2> QED
      BY <2>2, <2>3, <2>4
  <1> QED
    BY <1>1, <1>2, <1>4

\* What a run does to the payslips and the requests.
LEMMA RunIssues ==
  ASSUME IInv, NEW h \in Requests, RunCommit(h)
  PROVE  /\ request[h] \in Runs
         /\ request' = [request EXCEPT ![h] = Idle]
         /\ payslip' \in [Employees -> Payslips]
         /\ issued' \in [Employees -> Nat]
         /\ \A e \in Employees :
              IF e \in request[h].staff
              THEN /\ issued'[e] = issued[e] + 1 /\ payslip'[e].run = issued[e] + 1
                   /\ \A c \in Claims : payslip'[e].lines[c] =
                        request[h].seen[e].lines[c] + IF c \in request[h].fresh /\ claimant[c] = e THEN 1 ELSE 0
              ELSE issued'[e] = issued[e] /\ payslip'[e] = payslip[e]
         /\ discarded' = discarded \union
              UNION {Listed(e) : e \in {e \in request[h].staff : payslip[e].run # request[h].seen[e].run}}
  <1> USE DEF IInv
  <1>1. PICK r \in Runs : r = request[h]
    BY RequestTyped DEF RunCommit
  <1>2. \A e \in Employees : issued[e] + 1 \in Nat
    BY DEF TypeOK
  <1>3. ASSUME NEW e \in Employees
        PROVE  NewPayslip(r, e) \in Payslips
    <2>1. r.seen[e] \in Payslips
      BY DEF Runs
    <2>2. \A c \in Claims : r.seen[e].lines[c] + (IF c \in r.fresh /\ claimant[c] = e THEN 1 ELSE 0) \in Nat
      BY <2>1 DEF Payslips
    <2> QED
      BY <1>2, <2>2 DEF NewPayslip, Payslips
  <1>4. payslip' = [e \in Employees |-> IF e \in r.staff THEN NewPayslip(r, e) ELSE payslip[e]]
    BY <1>1 DEF RunCommit
  <1>5. issued' = [e \in Employees |-> IF e \in r.staff THEN issued[e] + 1 ELSE issued[e]]
    BY <1>1 DEF RunCommit
  <1>6. payslip' \in [Employees -> Payslips]
    BY <1>3, <1>4 DEF TypeOK
  <1>7. issued' \in [Employees -> Nat]
    BY <1>2, <1>5 DEF TypeOK
  <1>8. \A e \in Employees :
          IF e \in r.staff
          THEN /\ issued'[e] = issued[e] + 1 /\ payslip'[e].run = issued[e] + 1
               /\ \A c \in Claims : payslip'[e].lines[c] =
                    r.seen[e].lines[c] + IF c \in r.fresh /\ claimant[c] = e THEN 1 ELSE 0
          ELSE issued'[e] = issued[e] /\ payslip'[e] = payslip[e]
    BY <1>4, <1>5 DEF NewPayslip
  <1>9. discarded' = discarded \union
          UNION {Listed(e) : e \in {e \in r.staff : payslip[e].run # r.seen[e].run}}
    BY <1>1 DEF RunCommit
  <1>10. request' = [request EXCEPT ![h] = Idle]
    BY DEF RunCommit, End
  <1> QED
    BY <1>1, <1>6, <1>7, <1>8, <1>9, <1>10

LEMMA RunCommitStep ==
  ASSUME IInv, NEW h \in Requests, RunCommit(h)
  PROVE  IInv'
  <1> USE DEF IInv
  <1>1. PICK r \in Runs : r = request[h]
    BY RunIssues
  <1>2. /\ request'[h] = Idle /\ Idle.kind = "idle"
        /\ \A g \in Requests : g # h => request'[g] = request[g]
    BY RunIssues DEF TypeOK, Idle
  <1>3. /\ r.staff \subseteq Employees /\ r.seen \in [Employees -> Payslips]
        /\ \A c \in r.fresh : claimant[c] \in r.staff
                             /\ claim[c].status \in {"approved", "paid"} /\ claim[c].mode = "payroll"
        /\ \A e \in Employees, c \in Claims :
             /\ r.seen[e].lines[c] \in Nat
             /\ r.seen[e].lines[c] > 0 =>
                  /\ e = claimant[c] /\ r.seen[e].lines[c] = 1 /\ c \notin r.fresh
                  /\ claim[c].status = "paid" /\ claim[c].mode = "payroll"
    BY <1>1 DEF FreshIsPayable, CarriedIsPaid, Runs, Payslips
  <1>4. \A e \in Employees : payslip[e] \in Payslips /\ issued[e] \in Nat
    BY DEF TypeOK
  <1>5. /\ claim' \in [Claims -> ClaimRows]
        /\ \A c \in Claims :
             /\ claim'[c].mode = claim[c].mode
             /\ claim'[c].status = IF c \in r.fresh /\ claim[c].status = "approved"
                                   THEN "paid" ELSE claim[c].status
             /\ \/ claim'[c].via = claim[c].via /\ claim'[c].status = claim[c].status
                \/ claim'[c].via \in Records /\ claim'[c].status = "paid" /\ claim[c].mode = "payroll"
    BY <1>1, RunSettles
  <1>6. \A e \in Employees :
          IF e \in r.staff
          THEN /\ issued'[e] = issued[e] + 1 /\ payslip'[e].run = issued[e] + 1
               /\ \A c \in Claims : payslip'[e].lines[c] =
                    r.seen[e].lines[c] + IF c \in r.fresh /\ claimant[c] = e THEN 1 ELSE 0
          ELSE issued'[e] = issued[e] /\ payslip'[e] = payslip[e]
    BY <1>1, RunIssues
  <1>7. discarded' = discarded \union
          UNION {Listed(e) : e \in {e \in r.staff : payslip[e].run # r.seen[e].run}}
    BY <1>1, RunIssues
  <1>8. TypeOK'
    BY <1>5, <1>7, RunIssues DEF TypeOK, Listed
  <1>9. FreshIsPayable'
    BY <1>2, <1>5, RequestTyped DEF FreshIsPayable, Runs
  <1>10. CarriedIsPaid'
    BY <1>2, <1>5 DEF CarriedIsPaid
  <1>11. SnapshotsAgree'
    <2>1. ASSUME NEW e \in Employees
          PROVE  payslip'[e].run <= issued'[e] /\ (payslip'[e].run = 0 => payslip'[e] = NoPayslip)
      BY <1>4, <1>6 DEF SnapshotsAgree
    <2>2. ASSUME NEW g \in Requests, request'[g].kind = "payroll", NEW e \in request'[g].staff
          PROVE  /\ request'[g].seen[e].run <= issued'[e]
                 /\ request'[g].seen[e].run = payslip'[e].run => request'[g].seen[e] = payslip'[e]
                 /\ request'[g].seen[e].run = 0 => request'[g].seen[e] = NoPayslip
                 /\ request'[g].form = "generate" => request'[g].seen[e] = NoPayslip
      <3>1. g # h /\ request'[g] = request[g] /\ request[g] \in Runs
        BY <1>2, <2>2, RequestTyped
      <3>2. e \in Employees /\ e \in request[g].staff /\ request[g].seen[e].run \in Nat
        BY <2>2, <3>1 DEF Runs, Payslips
      <3>3. /\ request[g].seen[e].run <= issued[e]
            /\ request[g].seen[e].run = payslip[e].run => request[g].seen[e] = payslip[e]
            /\ request[g].seen[e].run = 0 => request[g].seen[e] = NoPayslip
            /\ request[g].form = "generate" => request[g].seen[e] = NoPayslip
        BY <2>2, <3>1, <3>2 DEF SnapshotsAgree
      <3> QED
        BY <1>4, <1>6, <3>1, <3>2, <3>3
    <2> QED
      BY <2>1, <2>2 DEF SnapshotsAgree
  <1>12. TransfersNameNone'
    <2>1. \A c \in Claims : claim'[c].status # "paid" => claim'[c].via = NoRecord
      BY <1>5 DEF TransfersNameNone
    <2>2. ASSUME NEW g \in Requests, request'[g].kind = "pay", NEW c \in Claims, request'[g].claim = c
          PROVE  claim'[c].status \in {"approved", "paid"} /\ claim'[c].mode = "direct"
      BY <1>2, <1>5, <2>2 DEF TransfersNameNone
    <2> QED
      BY <2>1, <2>2 DEF TransfersNameNone
  <1>13. PaidOnce'
    <2>1. ASSUME NEW c \in Claims, NEW e \in Employees, payslip'[e].lines[c] > 0
          PROVE  /\ e = claimant[c] /\ payslip'[e].lines[c] = 1
                 /\ claim'[c].status = "paid" /\ claim'[c].mode = "payroll"
      <3>1. CASE e \notin r.staff
        BY <1>5, <1>6, <2>1, <3>1 DEF PaidOnce
      <3>2. CASE e \in r.staff /\ r.seen[e].lines[c] > 0
        BY <1>3, <1>5, <1>6, <3>2
      <3>3. CASE e \in r.staff /\ r.seen[e].lines[c] = 0
        BY <1>3, <1>5, <1>6, <2>1, <3>3
      <3> QED
        BY <1>3, <3>1, <3>2, <3>3
    <2>2. ASSUME NEW c \in Claims, claim'[c].status = "paid"
          PROVE  claim'[c].mode = "direct" <=> claim'[c].via = NoRecord
      <3>1. NoRecord \notin Records
        BY PayrollAssumption DEF Records
      <3>2. claim[c].mode \in Modes
        BY DEF TypeOK, ClaimRows
      <3>3. CASE claim[c].status = "paid"
        BY <1>5, <3>1, <3>2, <3>3 DEF PaidOnce, Modes
      <3>4. CASE claim[c].status # "paid"
        BY <1>3, <1>5, <2>2, <3>1, <3>4
      <3> QED
        BY <3>3, <3>4
    <2> QED
      BY <2>1, <2>2 DEF PaidOnce
  <1>14. ReimbursementKept'
    <2> SUFFICES ASSUME NEW c \in Claims, claim'[c].status = "paid", claim'[c].mode = "payroll",
                        c \notin discarded'
                 PROVE  payslip'[claimant[c]].lines[c] = 1
      BY DEF ReimbursementKept
    <2>1. claimant[c] \in Employees
      BY PayrollAssumption
    <2>2. c \notin discarded
      BY <1>7
    <2>3. CASE claim[c].status = "paid"
      <3>1. payslip[claimant[c]].lines[c] = 1
        BY <1>5, <2>2, <2>3 DEF ReimbursementKept
      <3>2. claimant[c] \in r.staff => payslip[claimant[c]].run = r.seen[claimant[c]].run
        BY <1>7, <3>1 DEF Listed
      <3>3. claimant[c] \in r.staff => r.seen[claimant[c]].lines[c] = 1
        BY <1>1, <2>1, <3>1, <3>2 DEF SnapshotsAgree, Runs
      <3>4. CASE claimant[c] \in r.staff
        <4>1. r.seen[claimant[c]].lines[c] = 1 /\ c \notin r.fresh
          BY <1>3, <2>1, <3>3, <3>4
        <4> QED
          BY <1>6, <2>1, <3>4, <4>1
      <3>5. CASE claimant[c] \notin r.staff
        BY <1>6, <2>1, <3>1, <3>5
      <3> QED
        BY <3>4, <3>5
    <2>4. CASE claim[c].status # "paid"
      <3>1. c \in r.fresh /\ claimant[c] \in r.staff
        BY <1>3, <1>5, <2>4
      <3>2. r.seen[claimant[c]].lines[c] = 0
        BY <1>3, <2>1, <3>1
      <3> QED
        BY <1>6, <2>1, <3>1, <3>2
    <2> QED
      BY <2>3, <2>4
  <1> QED
    BY <1>8, <1>9, <1>10, <1>11, <1>12, <1>13, <1>14

----------------------------------------------------------------------------
LEMMA NextStep == IInv /\ [Next]_vars => IInv'
  <1> SUFFICES ASSUME IInv, [Next]_vars PROVE IInv'
    OBVIOUS
  <1>1. ASSUME NEW h \in Requests, NEW c \in Claims, NEW mode \in Modes, SubmitClaim(h, c, mode)
        PROVE  IInv'
    BY <1>1, SubmitStep
  <1>2. ASSUME NEW h \in Requests, AutoApproveClaim(h) PROVE IInv'
    BY <1>2, AutoApproveStep
  <1>3. ASSUME NEW h \in Requests, NEW c \in Claims, NEW verdict \in {"approved", "rejected"},
               NEW mode \in Modes, ReviewRead(h, c, verdict, mode)
        PROVE  IInv'
    BY <1>3, ReviewReadStep
  <1>4. ASSUME NEW h \in Requests, ReviewWrite(h) PROVE IInv'
    BY <1>4, ReviewWriteStep
  <1>5. ASSUME NEW h \in Requests, NEW c \in Claims, PayRead(h, c) PROVE IInv'
    BY <1>5, PayReadStep
  <1>6. ASSUME NEW h \in Requests, PayWrite(h) PROVE IInv'
    BY <1>6, PayWriteStep
  <1>7. ASSUME NEW h \in Requests, NEW form \in {"generate", "regenerate"},
               NEW staff \in SUBSET Employees, RunBegin(h, form, staff)
        PROVE  IInv'
    BY <1>7, RunBeginStep
  <1>8. ASSUME NEW h \in Requests, RunCommit(h) PROVE IInv'
    BY <1>8, RunCommitStep
  <1>9. ASSUME NEW h \in Requests, Abandon(h) PROVE IInv'
    BY <1>9, AbandonStep
  <1>10. CASE DeleteSalaryRecords(Employees)
    BY <1>10, DeleteStep
  <1>11. ASSUME NEW e \in Employees, DeleteSalaryRecords({e}) PROVE IInv'
    <2>1. {e} \in SUBSET Employees
      OBVIOUS
    <2> QED
      BY <1>11, <2>1, DeleteStep
  <1>12. CASE UNCHANGED vars
    BY <1>12 DEF vars, IInv, TypeOK, FreshIsPayable, CarriedIsPaid, SnapshotsAgree,
                 TransfersNameNone, PaidOnce, ReimbursementKept, Listed
  <1> QED
    BY <1>1, <1>2, <1>3, <1>4, <1>5, <1>6, <1>7, <1>8, <1>9, <1>10, <1>11, <1>12 DEF Next

\* The inductive invariant holds in every state.
THEOREM Invariance == Spec => []IInv
  BY InitInv, NextStep, PTL DEF Spec

\* A claim is paid exactly once, whatever the interleaving of reviews, transfers
\* and payroll runs (expenses.service.js, generatePayroll).
THEOREM ClaimPaidOnce == Spec => []PaidOnce
  <1>1. IInv => PaidOnce
    BY DEF IInv
  <1> QED
    BY Invariance, <1>1, PTL

\* A reimbursement survives every regeneration that no other run and no deletion
\* crosses (generatePayroll).
THEOREM ReimbursementSurvives == Spec => []ReimbursementKept
  <1>1. IInv => ReimbursementKept
    BY DEF IInv
  <1> QED
    BY Invariance, <1>1, PTL

----------------------------------------------------------------------------
\* One row is written, in a way that keeps decisions.
LEMMA OneRowForward ==
  ASSUME IInv, NEW c \in Claims, NEW row,
         claim' = [claim EXCEPT ![c] = row],
         \/ claim[c].status = "absent" /\ row.status = "pending"
         \/ claim[c].status = "pending" /\ row.status \in {"approved", "rejected"}
         \/ claim[c].status = "approved" /\ row.status = "paid" /\ row.mode = claim[c].mode
  PROVE  \A k \in Claims : ForwardOnly(k)
  <1>1. claim'[c] = row /\ \A k \in Claims : k # c => claim'[k] = claim[k]
    BY DEF IInv, TypeOK
  <1> QED
    BY <1>1 DEF ForwardOnly

LEMMA StillForward ==
  ASSUME UNCHANGED claim
  PROVE  \A k \in Claims : ForwardOnly(k)
  BY DEF ForwardOnly

LEMMA DecisionStep ==
  ASSUME IInv, [Next]_vars
  PROVE  \A k \in Claims : ForwardOnly(k)
  <1>1. ASSUME NEW h \in Requests, NEW c \in Claims, NEW mode \in Modes, SubmitClaim(h, c, mode)
        PROVE  \A k \in Claims : ForwardOnly(k)
    BY <1>1, OneRowForward DEF SubmitClaim
  <1>2. ASSUME NEW h \in Requests, AutoApproveClaim(h), claim' # claim
        PROVE  \A k \in Claims : ForwardOnly(k)
    <2>1. PICK c \in Claims : c = request[h].claim
      BY <1>2, RequestTyped DEF AutoApproveClaim, IInv, Submissions
    <2>2. claim[c].status = "pending" /\ claim' = [claim EXCEPT ![c].status = "approved"]
      BY <1>2, <2>1 DEF AutoApproveClaim
    <2>3. claim[c].status # "paid"
      BY <2>2
    <2>4. PICK row \in ClaimRows :
            /\ row.status = "approved" /\ row.mode = claim[c].mode /\ row.via = NoRecord
            /\ [claim EXCEPT ![c].status = "approved"] = [claim EXCEPT ![c] = row]
      BY <2>3, RowWithStatus
    <2>5. claim' = [claim EXCEPT ![c] = row]
      BY <2>2, <2>4
    <2> QED
      BY <2>2, <2>4, <2>5, OneRowForward
  <1>3. ASSUME NEW h \in Requests, ReviewWrite(h), claim' # claim
        PROVE  \A k \in Claims : ForwardOnly(k)
    <2>1. PICK r \in Reviews : r = request[h]
      BY <1>3, RequestTyped DEF ReviewWrite, IInv
    <2>2. PICK c \in Claims, s \in {"approved", "rejected"}, m \in Modes :
            c = r.claim /\ s = r.verdict /\ m = r.mode
      BY DEF Reviews
    <2>3. claim[c].status = "pending" /\ claim' = [claim EXCEPT ![c].status = s, ![c].mode = m]
      BY <1>3, <2>1, <2>2 DEF ReviewWrite
    <2> DEFINE row == [claim[c] EXCEPT !.status = s, !.mode = m]
    <2>4. claim[c] \in ClaimRows
      BY DEF IInv, TypeOK
    <2>5. row.status = s
      BY <2>4 DEF ClaimRows
    <2>6. claim' = [claim EXCEPT ![c] = row]
      BY <2>3 DEF IInv, TypeOK
    <2> HIDE DEF row
    <2> QED
      BY <2>3, <2>5, <2>6, OneRowForward
  <1>4. ASSUME NEW h \in Requests, PayWrite(h), claim' # claim
        PROVE  \A k \in Claims : ForwardOnly(k)
    <2>1. PICK c \in Claims : c = request[h].claim
      BY <1>4, RequestTyped DEF PayWrite, IInv, Payments
    <2>2. claim[c].status = "approved" /\ claim' = [claim EXCEPT ![c].status = "paid"]
      BY <1>4, <2>1 DEF PayWrite
    <2>3. claim[c].status # "paid"
      BY <2>2
    <2>4. PICK row \in ClaimRows :
            /\ row.status = "paid" /\ row.mode = claim[c].mode /\ row.via = NoRecord
            /\ [claim EXCEPT ![c].status = "paid"] = [claim EXCEPT ![c] = row]
      BY <2>3, RowWithStatus
    <2>5. claim' = [claim EXCEPT ![c] = row]
      BY <2>2, <2>4
    <2> QED
      BY <2>2, <2>4, <2>5, OneRowForward
  <1>5. ASSUME NEW h \in Requests, RunCommit(h)
        PROVE  \A k \in Claims : ForwardOnly(k)
    BY <1>5, RunSettles DEF ForwardOnly
  <1>6. CASE UNCHANGED claim
    BY <1>6, StillForward
  <1>7. ASSUME NEW h \in Requests,
               \/ \E c \in Claims, verdict \in {"approved", "rejected"}, mode \in Modes :
                    ReviewRead(h, c, verdict, mode)
               \/ \E c \in Claims : PayRead(h, c)
               \/ \E form \in {"generate", "regenerate"}, staff \in SUBSET Employees :
                    RunBegin(h, form, staff)
               \/ Abandon(h)
        PROVE  UNCHANGED claim
    BY <1>7 DEF ReviewRead, PayRead, RunBegin, Abandon
  <1>8. CASE DeleteSalaryRecords(Employees) \/ \E e \in Employees : DeleteSalaryRecords({e})
    BY <1>8, StillForward DEF DeleteSalaryRecords
  <1>9. CASE UNCHANGED vars
    BY <1>9, StillForward DEF vars
  <1> QED
    BY <1>1, <1>2, <1>3, <1>4, <1>5, <1>6, <1>7, <1>8, <1>9 DEF Next

\* A decision is made once and stands, paid is final (every UPDATE of
\* expense_claims repeats the status it leaves).
THEOREM DecisionIsFinal == Spec => DecisionStands
  <1>1. IInv /\ [Next]_vars => [\A c \in Claims : ForwardOnly(c)]_vars
    BY DecisionStep
  <1> QED
    BY Invariance, <1>1, PTL DEF Spec, DecisionStands
============================================================================
