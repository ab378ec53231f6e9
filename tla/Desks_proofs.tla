------------------------------ MODULE Desks_proofs ------------------------------
(* The desks side by side.  The invariant of each desk holds while a run      *)
(* takes place there, whatever the desk, which gives the types of MCDesks for *)
(* every value of its constants; the small desks are proved here too.         *)
EXTENDS MCDesks, Hiring_proofs, Employment_proofs, Customers_proofs, TLAPS

----------------------------------------------------------------------------
\* What the approval chain promises, for every chain, every set of users and any
\* number of approvals and of concurrent requests.
\* The steps a row carries a signature of.
Signed(row) == {s \in StepsOf : row.signed[s] # NoUser}

\* ChainIsSound, one row of it.
RowSound(row) ==
  /\ row.status = "approved" => row.step = 0 \/ Signed(row) = StepsOf
  /\ row.status = "pending" => /\ row.step \in StepsOf
                               /\ Signed(row) = {s \in StepsOf : s < row.step}
  /\ \A s \in Signed(row) : row.signed[s] # row.requester

OnePending ==
  \A r, q \in Approvals : approval[r].status = "pending" /\ approval[q].status = "pending" => r = q

\* Who decides holds the row, and the row is still what it was checked to be.
DecidersAgree ==
  /\ \A g, h \in Requests :
       /\ Doing(g, "decideApproval") /\ Doing(h, "decideApproval")
       /\ request[g].row = request[h].row
       => g = h
  /\ \A h \in Requests : Doing(h, "decideApproval") =>
       /\ approval[request[h].row].status = "pending"
       /\ approval[request[h].row].requester # request[h].actor

ApprovalsInv ==
  /\ ApprovalsTypeOK
  /\ OnePending
  /\ \A r \in Approvals : RowSound(approval[r])
  /\ DecidersAgree

LEMMA StepsAreNumbered == StepsOf = 1 .. Len(Chain) /\ Len(Chain) \in Nat /\ 1 \in StepsOf
BY ChainAssumption DEF StepsOf

LEMMA InvariantIsSound == ApprovalsInv => ChainIsSound
BY DEF ApprovalsInv, OnePending, RowSound, Signed, ChainIsSound

\* A row that was just inserted has no signature yet.
LEMMA FreshRow ==
  /\ NoApproval \in ApprovalRows
  /\ RowSound(NoApproval)
  /\ \A u \in Users :
       /\ [NoApproval EXCEPT !.status = "approved", !.requester = u] \in ApprovalRows
       /\ RowSound([NoApproval EXCEPT !.status = "approved", !.requester = u])
       /\ [NoApproval EXCEPT !.status = "pending", !.requester = u, !.step = 1] \in ApprovalRows
       /\ RowSound([NoApproval EXCEPT !.status = "pending", !.requester = u, !.step = 1])
<1>1. NoSignature \in [StepsOf -> Users \union {NoUser}] /\ \A s \in StepsOf : NoSignature[s] = NoUser
  BY DEF NoSignature
<1>2. NoApproval \in ApprovalRows
  BY <1>1 DEF NoApproval, ApprovalRows
<1>3. RowSound(NoApproval)
  BY <1>1 DEF NoApproval, RowSound, Signed
<1>4. ASSUME NEW u \in Users
      PROVE  /\ [NoApproval EXCEPT !.status = "approved", !.requester = u] \in ApprovalRows
             /\ RowSound([NoApproval EXCEPT !.status = "approved", !.requester = u])
  BY <1>1 DEF NoApproval, ApprovalRows, RowSound, Signed
<1>5. ASSUME NEW u \in Users
      PROVE  /\ [NoApproval EXCEPT !.status = "pending", !.requester = u, !.step = 1] \in ApprovalRows
             /\ RowSound([NoApproval EXCEPT !.status = "pending", !.requester = u, !.step = 1])
  <2> DEFINE row == [NoApproval EXCEPT !.status = "pending", !.requester = u, !.step = 1]
  <2>1. row.status = "pending" /\ row.requester = u /\ row.step = 1 /\ row.signed = NoSignature
    BY DEF NoApproval
  <2>2. row \in ApprovalRows
    BY <1>1, StepsAreNumbered DEF NoApproval, ApprovalRows
  <2>3. \A s \in StepsOf : ~(s < 1)
    BY StepsAreNumbered
  <2> HIDE DEF row
  <2>4. Signed(row) = {}
    BY <1>1, <2>1 DEF Signed
  <2>5. RowSound(row)
    BY <2>1, <2>3, <2>4, StepsAreNumbered DEF RowSound
  <2> QED BY <2>2, <2>5 DEF row
<1> QED BY <1>2, <1>3, <1>4, <1>5

LEMMA InitApprovals == ASSUME ServerInit, ApprovalsInit PROVE ApprovalsInv
BY FreshRow DEF ServerInit, ApprovalsInit, ApprovalsInv, ApprovalsTypeOK, OnePending, DecidersAgree,
                Roles, Idle, Doing, NoApproval

\* A request that ends or begins elsewhere holds no row.
LEMMA EndFreesApproval ==
  ASSUME ApprovalsInv, NEW h \in Requests, End(h)
  PROVE  /\ request' \in [Requests -> {Idle} \union ApprovalRequests]
         /\ \A g \in Requests : Doing(g, "decideApproval")' =>
              g # h /\ Doing(g, "decideApproval") /\ request'[g] = request[g]
BY DEF End, ApprovalsInv, ApprovalsTypeOK, Idle, Doing

LEMMA BeginKeepsApprovals ==
  ASSUME ApprovalsInv, NEW h \in Requests, NEW r \in ApprovalRequests, Begin(h, r),
         r.kind # "decideApproval", UNCHANGED approvalVars
  PROVE  ApprovalsInv'
<1>1. \A g \in Requests : Doing(g, "decideApproval")' =>
        Doing(g, "decideApproval") /\ request'[g] = request[g]
  BY DEF Begin, ApprovalsInv, ApprovalsTypeOK, Doing
<1>2. ApprovalsTypeOK'
  BY DEF Begin, ApprovalsInv, ApprovalsTypeOK, approvalVars
<1>3. DecidersAgree'
  BY <1>1 DEF ApprovalsInv, DecidersAgree, approvalVars
<1> QED BY <1>2, <1>3 DEF ApprovalsInv, OnePending, approvalVars

\* One row changes that nobody else holds, and stays sound.
LEMMA RowChanges ==
  ASSUME ApprovalsInv, NEW r \in Approvals, NEW row \in ApprovalRows,
         approval' = [approval EXCEPT ![r] = row], RowSound(row),
         row.status = "pending" => OneLive \/ approval[r].status = "pending",
         UNCHANGED <<role, strict>>,
         request' \in [Requests -> {Idle} \union ApprovalRequests],
         \A g \in Requests : Doing(g, "decideApproval")' =>
           Doing(g, "decideApproval") /\ request'[g] = request[g] /\ request[g].row # r
  PROVE  ApprovalsInv'
<1>1. ApprovalsTypeOK'
  BY DEF ApprovalsInv, ApprovalsTypeOK
<1>2. \A q \in Approvals : approval'[q] = IF q = r THEN row ELSE approval[q]
  BY DEF ApprovalsInv, ApprovalsTypeOK
<1>3. OnePending'
  BY <1>2 DEF ApprovalsInv, OnePending, OneLive
<1>4. \A q \in Approvals : RowSound(approval[q])'
  <2>1. \A q \in Approvals : RowSound(approval'[q])
    BY <1>2 DEF ApprovalsInv
  <2> QED BY <2>1 DEF RowSound, Signed, StepsOf
<1>5. DecidersAgree'
  <2>1. \A g \in Requests : Doing(g, "decideApproval")' => request[g].row \in Approvals \ {r}
    BY DEF ApprovalsInv, ApprovalsTypeOK, ApprovalRequests, Idle, Doing
  <2> QED BY <1>2, <2>1 DEF ApprovalsInv, DecidersAgree
<1> QED BY <1>1, <1>3, <1>4, <1>5 DEF ApprovalsInv

LEMMA InsertKeeps ==
  ASSUME ApprovalsInv, NEW h \in Requests, NEW r \in Approvals, StartApprovalInsert(h, r) PROVE ApprovalsInv'
<1>1. PICK u \in Users, b \in BOOLEAN :
        request[h].requester = u /\ request[h].auto = b
  BY DEF StartApprovalInsert, ApprovalsInv, ApprovalsTypeOK, ApprovalRequests, Idle, Doing
<1>2. /\ request' \in [Requests -> {Idle} \union ApprovalRequests]
      /\ \A g \in Requests : Doing(g, "decideApproval")' =>
           g # h /\ Doing(g, "decideApproval") /\ request'[g] = request[g]
  BY EndFreesApproval DEF StartApprovalInsert
<1>3. \A g \in Requests : Doing(g, "decideApproval") => request[g].row # r
  BY DEF StartApprovalInsert, NoApproval, ApprovalsInv, DecidersAgree
<1>4. CASE b
  <2>1. approval' = [approval EXCEPT ![r] = [NoApproval EXCEPT !.status = "approved", !.requester = u]]
    BY <1>1, <1>4 DEF StartApprovalInsert
  <2>2. [NoApproval EXCEPT !.status = "approved", !.requester = u].status # "pending"
    BY DEF NoApproval
  <2> QED BY <1>2, <1>3, <2>1, <2>2, FreshRow, RowChanges DEF StartApprovalInsert
<1>5. CASE ~b /\ OneLive
  <2>1. approval' = [approval EXCEPT ![r] =
          [NoApproval EXCEPT !.status = "pending", !.requester = u, !.step = 1]]
    BY <1>1, <1>5 DEF StartApprovalInsert
  <2> QED BY <1>2, <1>3, <1>5, <2>1, FreshRow, RowChanges DEF StartApprovalInsert
<1>6. CASE ~b /\ ~OneLive
  <2>1. approval' = approval /\ UNCHANGED <<role, strict>>
    BY <1>1, <1>6 DEF StartApprovalInsert
  <2>2. ApprovalsTypeOK' /\ DecidersAgree'
    BY <1>2, <2>1 DEF ApprovalsInv, ApprovalsTypeOK, DecidersAgree
  <2> QED BY <2>1, <2>2 DEF ApprovalsInv, OnePending
<1> QED BY <1>4, <1>5, <1>6

LEMMA DecideReadKeeps ==
  ASSUME ApprovalsInv, NEW h \in Requests, NEW r \in Approvals, NEW u \in Users,
         NEW decision \in {"approve", "reject"}, DecideApprovalRead(h, r, u, decision)
  PROVE  ApprovalsInv'
<1> DEFINE q == [kind |-> "decideApproval", row |-> r, actor |-> u, decision |-> decision]
<1>1. q \in ApprovalRequests
  BY DEF ApprovalRequests
<1>2. \A g \in Requests : request'[g] = IF g = h THEN q ELSE request[g]
  BY DEF DecideApprovalRead, Begin, ApprovalsInv, ApprovalsTypeOK
<1>3. ApprovalsTypeOK'
  BY <1>1 DEF DecideApprovalRead, Begin, ApprovalsInv, ApprovalsTypeOK, approvalVars
<1>4. \A g \in Requests \ {h} : Doing(g, "decideApproval") => request[g].row # r
  BY DEF DecideApprovalRead, Unlocked
<1>5. DecidersAgree'
  BY <1>2, <1>4 DEF DecideApprovalRead, ApprovalsInv, DecidersAgree, Doing, approvalVars
<1> QED BY <1>3, <1>5 DEF DecideApprovalRead, ApprovalsInv, OnePending, approvalVars

\* A signature on the current step moves the row one step on.
LEMMA SignedRow ==
  ASSUME NEW row \in ApprovalRows, NEW u \in Users, RowSound(row), row.status = "pending",
         u # row.requester
  PROVE  LET seen == [row EXCEPT !.signed[row.step] = u]
             next == row.step + 1
         IN /\ next \notin StepsOf => /\ [seen EXCEPT !.status = "approved"] \in ApprovalRows
                                      /\ RowSound([seen EXCEPT !.status = "approved"])
            /\ next \in StepsOf => /\ [seen EXCEPT !.step = next] \in ApprovalRows
                                   /\ RowSound([seen EXCEPT !.step = next])
<1> DEFINE seen == [row EXCEPT !.signed[row.step] = u]
           next == row.step + 1
<1>1. row.step \in StepsOf /\ u # NoUser
  BY ChainAssumption DEF RowSound
<1>2. /\ seen.signed = [row.signed EXCEPT ![row.step] = u]
      /\ seen.signed \in [StepsOf -> Users \union {NoUser}]
      /\ seen.requester = row.requester /\ seen.status = row.status /\ seen.step = row.step
      /\ seen \in ApprovalRows
  BY <1>1 DEF ApprovalRows
<1>3. Signed(seen) = {s \in StepsOf : s <= row.step}
  <2>1. \A s \in StepsOf : seen.signed[s] = IF s = row.step THEN u ELSE row.signed[s]
    BY <1>1, <1>2 DEF ApprovalRows
  <2>2. \A s \in StepsOf : row.signed[s] # NoUser <=> s < row.step
    BY DEF RowSound, Signed
  <2> QED BY <1>1, <2>1, <2>2, StepsAreNumbered DEF Signed
<1>4. \A s \in Signed(seen) : seen.signed[s] # seen.requester
  BY <1>1, <1>2 DEF RowSound, Signed, ApprovalRows
<1>5. ASSUME next \notin StepsOf
      PROVE  /\ [seen EXCEPT !.status = "approved"] \in ApprovalRows
             /\ RowSound([seen EXCEPT !.status = "approved"])
  <2> DEFINE done == [seen EXCEPT !.status = "approved"]
  <2>1. done \in ApprovalRows /\ done.signed = seen.signed /\ done.requester = seen.requester
        /\ done.status = "approved"
    BY <1>2 DEF ApprovalRows
  <2>2. Signed(done) = StepsOf
    <3>1. Signed(done) = {s \in StepsOf : s <= row.step}
      BY <1>3, <2>1 DEF Signed
    <3>2. \A s \in StepsOf : s <= row.step
      BY <1>1, <1>5, StepsAreNumbered
    <3> HIDE DEF done
    <3> QED BY <3>1, <3>2
  <2> HIDE DEF done, seen
  <2>3. \A s \in Signed(done) : done.signed[s] # done.requester
    BY <1>4, <2>1 DEF Signed
  <2>4. RowSound(done)
    BY <2>1, <2>2, <2>3 DEF RowSound
  <2> QED BY <2>1, <2>4 DEF done
<1>6. ASSUME next \in StepsOf
      PROVE  /\ [seen EXCEPT !.step = next] \in ApprovalRows
             /\ RowSound([seen EXCEPT !.step = next])
  <2> DEFINE on == [seen EXCEPT !.step = next]
  <2>1. on \in ApprovalRows /\ on.signed = seen.signed /\ on.requester = seen.requester
        /\ on.status = "pending" /\ on.step = next
    BY <1>2, <1>6 DEF ApprovalRows
  <2>2. Signed(on) = {s \in StepsOf : s < next}
    <3>1. Signed(on) = {s \in StepsOf : s <= row.step}
      BY <1>3, <2>1 DEF Signed
    <3> QED BY <1>1, <3>1, StepsAreNumbered
  <2> HIDE DEF on, seen
  <2>3. \A s \in Signed(on) : on.signed[s] # on.requester
    BY <1>4, <2>1 DEF Signed
  <2>4. RowSound(on)
    BY <1>6, <2>1, <2>2, <2>3 DEF RowSound
  <2> QED BY <2>1, <2>4 DEF on
<1> QED BY <1>5, <1>6

LEMMA DecideCommitKeeps ==
  ASSUME ApprovalsInv, NEW h \in Requests, DecideApprovalCommit(h) PROVE ApprovalsInv'
<1>1. PICK r \in Approvals, u \in Users, d \in {"approve", "reject"} :
        request[h].row = r /\ request[h].actor = u /\ request[h].decision = d
  BY DEF DecideApprovalCommit, ApprovalsInv, ApprovalsTypeOK, ApprovalRequests, Idle, Doing
<1> DEFINE row  == approval[r]
           next == row.step + 1
           seen == [row EXCEPT !.signed[row.step] = u]
           new  == IF d = "reject" THEN [row EXCEPT !.status = "rejected"]
                   ELSE IF next \notin StepsOf THEN [seen EXCEPT !.status = "approved"]
                   ELSE IF Eligible(next, row.requester) = {} THEN row
                   ELSE [seen EXCEPT !.step = next]
<1>2. approval' = [approval EXCEPT ![r] = new] /\ UNCHANGED <<role, strict>>
  BY <1>1 DEF DecideApprovalCommit
<1>3. row \in ApprovalRows /\ RowSound(row) /\ row.status = "pending" /\ u # row.requester
  BY <1>1 DEF DecideApprovalCommit, ApprovalsInv, ApprovalsTypeOK, DecidersAgree
<1>4. /\ [row EXCEPT !.status = "rejected"] \in ApprovalRows
      /\ RowSound([row EXCEPT !.status = "rejected"])
  BY <1>3 DEF ApprovalRows, RowSound, Signed
<1>5. new \in ApprovalRows /\ RowSound(new)
  BY <1>3, <1>4, SignedRow
<1>6. /\ request' \in [Requests -> {Idle} \union ApprovalRequests]
      /\ \A g \in Requests : Doing(g, "decideApproval")' =>
           g # h /\ Doing(g, "decideApproval") /\ request'[g] = request[g]
  BY EndFreesApproval DEF DecideApprovalCommit
<1>7. \A g \in Requests : Doing(g, "decideApproval")' =>
        Doing(g, "decideApproval") /\ request'[g] = request[g] /\ request[g].row # r
  BY <1>1, <1>6 DEF DecideApprovalCommit, ApprovalsInv, DecidersAgree
<1> HIDE DEF new
<1> QED BY <1>2, <1>3, <1>5, <1>6, <1>7, RowChanges

LEMMA CancelKeeps ==
  ASSUME ApprovalsInv, NEW r \in Approvals, NEW u \in Users, CancelApproval(r, u) PROVE ApprovalsInv'
<1> DEFINE row == [approval[r] EXCEPT !.status = "cancelled"]
<1>1. row \in ApprovalRows /\ RowSound(row) /\ row.status = "cancelled"
  BY DEF ApprovalsInv, ApprovalsTypeOK, ApprovalRows, RowSound, Signed
<1>2. approval' = [approval EXCEPT ![r] = row] /\ UNCHANGED <<role, strict, request>>
  BY DEF CancelApproval
<1>3. \A g \in Requests : Doing(g, "decideApproval")' =>
        Doing(g, "decideApproval") /\ request'[g] = request[g] /\ request[g].row # r
  BY <1>2 DEF CancelApproval, Unlocked, Doing
<1>4. request' \in [Requests -> {Idle} \union ApprovalRequests]
  BY <1>2 DEF ApprovalsInv, ApprovalsTypeOK
<1> HIDE DEF row
<1> QED BY <1>1, <1>2, <1>3, <1>4, RowChanges

\* Roles and the policy are not looked at by the invariant.
LEMMA AsideKeeps ==
  ASSUME ApprovalsInv, UNCHANGED <<approval, request>>, role' \in [Users -> Roles], strict' \in BOOLEAN
  PROVE  ApprovalsInv'
BY DEF ApprovalsInv, ApprovalsTypeOK, OnePending, DecidersAgree, Doing

LEMMA StepApprovals ==
  ASSUME ApprovalsInv, [ApprovalsNext]_<<request, approvalVars>> PROVE ApprovalsInv'
<1>1. ASSUME NEW u \in Users, NEW r \in Roles, ChangeRole(u, r) PROVE ApprovalsInv'
  BY <1>1, AsideKeeps DEF ChangeRole, ApprovalsInv, ApprovalsTypeOK
<1>2. ASSUME NEW b \in BOOLEAN, SetApprovalPolicy(b) PROVE ApprovalsInv'
  BY <1>2, AsideKeeps DEF SetApprovalPolicy, ApprovalsInv, ApprovalsTypeOK
<1>3. ASSUME NEW h \in Requests, NEW u \in Users, StartApprovalRead(h, u) PROVE ApprovalsInv'
  <2> DEFINE auto == ~strict /\ role[u] = "org_admin"
             q    == [kind |-> "startApproval", requester |-> u, auto |-> auto]
  <2>1. q \in ApprovalRequests /\ q.kind # "decideApproval"
    BY DEF ApprovalRequests
  <2>2. Begin(h, q) /\ UNCHANGED approvalVars
    BY <1>3 DEF StartApprovalRead
  <2> HIDE DEF q
  <2> QED BY <2>1, <2>2, BeginKeepsApprovals
<1>4. ASSUME NEW h \in Requests, NEW r \in Approvals, StartApprovalInsert(h, r) PROVE ApprovalsInv'
  BY <1>4, InsertKeeps
<1>5. ASSUME NEW h \in Requests, NEW r \in Approvals, NEW u \in Users,
             NEW decision \in {"approve", "reject"}, DecideApprovalRead(h, r, u, decision)
      PROVE  ApprovalsInv'
  BY <1>5, DecideReadKeeps
<1>6. ASSUME NEW h \in Requests, DecideApprovalCommit(h) PROVE ApprovalsInv'
  BY <1>6, DecideCommitKeeps
<1>7. ASSUME NEW h \in Requests, Abandon(h), UNCHANGED approvalVars PROVE ApprovalsInv'
  <2>1. ApprovalsTypeOK' /\ DecidersAgree'
    BY <1>7, EndFreesApproval DEF Abandon, ApprovalsInv, ApprovalsTypeOK, DecidersAgree, approvalVars
  <2> QED BY <1>7, <2>1 DEF ApprovalsInv, OnePending, approvalVars
<1>8. ASSUME NEW r \in Approvals, NEW u \in Users, CancelApproval(r, u) PROVE ApprovalsInv'
  BY <1>8, CancelKeeps
<1>9. CASE UNCHANGED <<request, approvalVars>>
  BY <1>9, AsideKeeps DEF ApprovalsInv, ApprovalsTypeOK, approvalVars
<1> QED BY <1>1, <1>2, <1>3, <1>4, <1>5, <1>6, <1>7, <1>8, <1>9 DEF ApprovalsNext

\* The invariant holds in every state of the approval workflow.
THEOREM ApprovalsInvariant == ApprovalsSpec => []ApprovalsInv
BY InitApprovals, StepApprovals, PTL DEF ApprovalsSpec

\* An approved request carries a signature of every step and none of its
\* requester, and the entity has one request in flight (decideApproval,
\* startApproval).
THEOREM ChainStaysSound == ApprovalsSpec => []ChainIsSound
BY ApprovalsInvariant, InvariantIsSound, PTL

LEMMA StepIsFinal ==
  ASSUME ApprovalsInv, [ApprovalsNext]_<<request, approvalVars>>
  PROVE  \A r \in Approvals :
           approval[r].status \notin {"absent", "pending"} => approval'[r] = approval[r]
<1> SUFFICES ASSUME NEW r \in Approvals, approval[r].status \notin {"absent", "pending"},
                    approval' # approval
             PROVE  approval'[r] = approval[r]
  OBVIOUS
<1>1. ASSUME NEW h \in Requests, NEW q \in Approvals, StartApprovalInsert(h, q)
      PROVE  approval'[r] = approval[r]
  BY <1>1 DEF StartApprovalInsert, NoApproval, ApprovalsInv, ApprovalsTypeOK
<1>2. ASSUME NEW h \in Requests, DecideApprovalCommit(h) PROVE approval'[r] = approval[r]
  <2>1. request[h].row # r
    BY <1>2 DEF DecideApprovalCommit, ApprovalsInv, DecidersAgree
  <2> QED BY <1>2, <2>1 DEF DecideApprovalCommit, ApprovalsInv, ApprovalsTypeOK
<1>3. ASSUME NEW q \in Approvals, NEW u \in Users, CancelApproval(q, u)
      PROVE  approval'[r] = approval[r]
  BY <1>3 DEF CancelApproval, ApprovalsInv, ApprovalsTypeOK
<1> QED BY <1>1, <1>2, <1>3
        DEF ApprovalsNext, ChangeRole, SetApprovalPolicy, StartApprovalRead, DecideApprovalRead, approvalVars

\* A resolved request is never decided again (decideApproval's FOR UPDATE).
THEOREM DecisionsAreFinal == ApprovalsSpec => ResolvedIsFinal
<1>1. ApprovalsInv /\ [ApprovalsNext]_<<request, approvalVars>> =>
        [\A r \in Approvals :
           approval[r].status \notin {"absent", "pending"} => approval'[r] = approval[r]]_approval
  BY StepIsFinal
<1> QED BY <1>1, ApprovalsInvariant, PTL DEF ApprovalsSpec, ResolvedIsFinal

----------------------------------------------------------------------------
\* Attendance and overtime.

\* A decision on overtime is about a claim, and for no more hours than it has.
HoursClaimed ==
  \A h \in Requests : Doing(h, "decideOvertime") =>
    overtime.status # "absent" /\ request[h].hours <= overtime.claimed

AttendanceInv == AttendanceTypeOK /\ HoursClaimed

LEMMA InitAttendance == ASSUME ServerInit, AttendanceInit PROVE AttendanceInv
<1>1. /\ overtime \in [status   : {"absent", "pending", "approved", "rejected"},
                       claimed  : Nat,
                       approved : Nat]
      /\ overtime.approved = 0 /\ overtime.claimed = 0
  BY DEF AttendanceInit, NoOvertime
<1>2. AttendanceTypeOK
  <2>1. request \in [Requests -> {Idle} \union AttendanceRequests]
    BY DEF ServerInit
  <2>2. overtime.approved <= overtime.claimed
    BY <1>1
  <2> QED BY <1>1, <2>1, <2>2 DEF AttendanceInit, AttendanceTypeOK
<1>3. HoursClaimed
  BY DEF ServerInit, HoursClaimed, Doing, Idle
<1> QED BY <1>2, <1>3 DEF AttendanceInv

OvertimeRows == [status   : {"absent", "pending", "approved", "rejected"},
                 claimed  : Nat,
                 approved : Nat]

\* Only a decision on overtime has anything to agree with.
LEMMA OvertimeStays ==
  ASSUME AttendanceInv, NEW h \in Requests, UNCHANGED overtime,
         ipAllowed' \in BOOLEAN, day' \in {"absent", "checked_in", "checked_out"},
         NEW r \in {Idle} \union AttendanceRequests, request' = [request EXCEPT ![h] = r],
         r.kind = "decideOvertime" => overtime.status # "absent" /\ r.hours <= overtime.claimed
  PROVE  AttendanceInv'
BY DEF AttendanceInv, AttendanceTypeOK, HoursClaimed, Doing

LEMMA StepAttendance ==
  ASSUME AttendanceInv, [AttendanceNext]_<<request, attendanceVars>> PROVE AttendanceInv'
<1> USE DEF AttendanceInv
<1>1. overtime \in OvertimeRows /\ overtime.approved <= overtime.claimed
  BY DEF AttendanceTypeOK, OvertimeRows
<1>2. CASE \/ AddAllowedIp \/ RemoveAllowedIp
           \/ \E status \in {"checked_in", "checked_out"} : ManualEntry(status)
           \/ UNCHANGED <<request, attendanceVars>>
  BY <1>2 DEF AddAllowedIp, RemoveAllowedIp, ManualEntry, attendanceVars, AttendanceTypeOK,
              HoursClaimed, Doing
<1>3. ASSUME NEW hours \in Hours, CreateOvertime(hours) PROVE AttendanceInv'
  BY <1>3 DEF CreateOvertime, NoOvertime, Hours, AttendanceTypeOK, HoursClaimed, Doing
<1>4. ASSUME NEW h \in Requests, CheckInRead(h) \/ CheckOutRead(h) PROVE AttendanceInv'
  BY <1>4, OvertimeStays DEF CheckInRead, CheckOutRead, Begin, attendanceVars, AttendanceRequests,
                             AttendanceTypeOK
<1>5. ASSUME NEW h \in Requests,
             CheckInInsert(h) \/ CheckOutWrite(h) \/ (Abandon(h) /\ UNCHANGED attendanceVars)
      PROVE  AttendanceInv'
  BY <1>5, OvertimeStays DEF CheckInInsert, CheckOutWrite, Abandon, End, Idle, attendanceVars,
                             AttendanceTypeOK
<1>6. ASSUME NEW h \in Requests, NEW status \in {"approved", "rejected"}, NEW hours \in Hours,
             DecideOvertimeRead(h, status, hours)
      PROVE  AttendanceInv'
  <2> DEFINE decided == CASE status = "rejected"      -> 0
                          [] hours > overtime.claimed -> overtime.claimed
                          [] OTHER                    -> hours
             r == [kind |-> "decideOvertime", status |-> status, hours |-> decided]
  <2>1. decided \in Nat /\ decided <= overtime.claimed
    BY <1>1 DEF Hours, OvertimeRows
  <2>2. r \in AttendanceRequests /\ r.hours <= overtime.claimed
    BY <2>1 DEF AttendanceRequests
  <2>3. /\ overtime.status = "pending" /\ request' = [request EXCEPT ![h] = r]
        /\ UNCHANGED attendanceVars
    BY <1>6 DEF DecideOvertimeRead, Begin
  <2> HIDE DEF decided, r
  <2> QED BY <2>2, <2>3, OvertimeStays DEF attendanceVars, AttendanceTypeOK
<1>7. ASSUME NEW h \in Requests, DecideOvertimeWrite(h) PROVE AttendanceInv'
  <2> DEFINE new == [overtime EXCEPT !.status = request[h].status, !.approved = request[h].hours]
  <2>1. request[h].status \in {"approved", "rejected"} /\ request[h].hours \in Nat
        /\ request[h].hours <= overtime.claimed
    BY <1>7 DEF DecideOvertimeWrite, AttendanceTypeOK, HoursClaimed, Doing, Idle, AttendanceRequests
  <2>2. /\ new \in OvertimeRows /\ new.status = request[h].status
        /\ new.claimed = overtime.claimed /\ new.approved = request[h].hours
    <3>1. new \in OvertimeRows
      BY <1>1, <2>1 DEF OvertimeRows
    <3>2. new.status = request[h].status /\ new.approved = request[h].hours
      BY <1>1 DEF OvertimeRows
    <3>3. new.claimed = overtime.claimed
      BY <1>1 DEF OvertimeRows
    <3> QED BY <3>1, <3>2, <3>3
  <2>3. /\ overtime' = new /\ request' = [request EXCEPT ![h] = Idle]
        /\ UNCHANGED <<ipAllowed, day>>
    BY <1>7 DEF DecideOvertimeWrite, End
  <2> HIDE DEF new
  <2> QED BY <2>1, <2>2, <2>3 DEF AttendanceTypeOK, OvertimeRows, HoursClaimed, Doing, Idle
<1> QED BY <1>2, <1>3, <1>4, <1>5, <1>6, <1>7 DEF AttendanceNext

----------------------------------------------------------------------------
\* Support tickets.

LEMMA InitSupport == ASSUME ServerInit, SupportInit PROVE SupportTypeOK
<1>1. <<>> \in BoundedSeq(Authors, MaxReplies)
  <2>1. <<>> \in [1 .. 0 -> Authors] /\ 0 \in 0 .. MaxReplies
    BY SupportAssumption
  <2> QED BY <2>1 DEF BoundedSeq, SeqOf
<1>2. NoTicket \in TicketRows
  BY <1>1 DEF NoTicket, TicketRows
<1> QED BY <1>2 DEF ServerInit, SupportInit, SupportTypeOK

\* A request on a ticket begins or ends, and the tickets are rows.
LEMMA TicketsStay ==
  ASSUME SupportTypeOK, NEW h \in Requests, NEW r \in {Idle} \union SupportRequests,
         request' = [request EXCEPT ![h] = r], ticket' \in [Tickets -> TicketRows]
  PROVE  SupportTypeOK'
BY DEF SupportTypeOK

LEMMA StepSupport ==
  ASSUME SupportTypeOK, [SupportNext]_<<request, supportVars>> PROVE SupportTypeOK'
<1>1. ticket \in [Tickets -> TicketRows]
  BY DEF SupportTypeOK
<1>2. ASSUME NEW t \in Tickets, NEW raiser \in {"employee", "org_admin"}, CreateTicket(t, raiser)
      PROVE  SupportTypeOK'
  <2> DEFINE row == [status |-> "open", raiser |-> raiser, tier |-> AssignedTier(raiser),
                     replies |-> <<>>]
  <2>1. <<>> \in BoundedSeq(Authors, MaxReplies)
    <3>1. <<>> \in [1 .. 0 -> Authors] /\ 0 \in 0 .. MaxReplies
      BY SupportAssumption
    <3> QED BY <3>1 DEF BoundedSeq, SeqOf
  <2>2. row \in TicketRows
    BY <2>1 DEF TicketRows, AssignedTier, Statuses
  <2>3. ticket' = [ticket EXCEPT ![t] = row] /\ UNCHANGED request
    BY <1>2 DEF CreateTicket
  <2> HIDE DEF row
  <2> QED BY <1>1, <2>2, <2>3 DEF SupportTypeOK
<1>3. ASSUME NEW h \in Requests, NEW t \in Tickets, AddOrgReply(h, t) \/ AddAdminReply(h, t)
      PROVE  SupportTypeOK'
  <2>1. PICK author \in Authors :
          Begin(h, [kind |-> "reply", ticket |-> t, by |-> author]) /\ UNCHANGED ticket
    BY <1>3 DEF AddOrgReply, AddAdminReply, ReplyRead, ReplyTypeFor, Authors, supportVars
  <2>2. [kind |-> "reply", ticket |-> t, by |-> author] \in SupportRequests
    BY DEF SupportRequests
  <2> QED BY <1>1, <2>1, <2>2, TicketsStay DEF Begin
<1>4. ASSUME NEW h \in Requests, NEW t \in Tickets, NEW caller \in Callers, NEW status \in Statuses,
             SetStatusRead(h, t, caller, status)
      PROVE  SupportTypeOK'
  <2>1. [kind |-> "setStatus", ticket |-> t, status |-> status] \in SupportRequests
    BY DEF SupportRequests
  <2> QED BY <1>1, <1>4, <2>1, TicketsStay DEF SetStatusRead, Begin, supportVars
<1>5. ASSUME NEW h \in Requests, AddReplyInsert(h) PROVE SupportTypeOK'
  <2> DEFINE t   == request[h].ticket
             row == [ticket[t] EXCEPT !.replies = Append(ticket[t].replies, request[h].by)]
  <2>1. t \in Tickets /\ request[h].by \in Authors
    BY <1>5 DEF AddReplyInsert, Doing, SupportTypeOK, SupportRequests, Idle
  <2>2. ticket[t] \in TicketRows
    BY <1>1, <2>1
  <2>3. Append(ticket[t].replies, request[h].by) \in BoundedSeq(Authors, MaxReplies)
    <3>1. PICK m \in 0 .. MaxReplies : ticket[t].replies \in [1 .. m -> Authors]
      BY <2>2 DEF TicketRows, BoundedSeq, SeqOf
    <3>2. ticket[t].replies \in Seq(Authors) /\ Len(ticket[t].replies) = m
      BY <3>1, SupportAssumption
    <3>3. m + 1 \in 0 .. MaxReplies
      BY <1>5, <3>2, SupportAssumption DEF AddReplyInsert
    <3>4. ASSUME NEW seq \in Seq(Authors), NEW author \in Authors
          PROVE  Append(seq, author) \in [1 .. Len(seq) + 1 -> Authors]
      <4>1. Append(seq, author) \in Seq(Authors) /\ Len(Append(seq, author)) = Len(seq) + 1
        OBVIOUS
      <4>2. \A s \in Seq(Authors) : s \in [1 .. Len(s) -> Authors]
        OBVIOUS
      <4> QED BY <4>1, <4>2
    <3>5. Append(ticket[t].replies, request[h].by) \in [1 .. m + 1 -> Authors]
      BY <2>1, <3>2, <3>4
    <3> QED BY <3>3, <3>5 DEF BoundedSeq, SeqOf
  <2>4. row \in TicketRows
    BY <2>2, <2>3 DEF TicketRows
  <2>5. ticket' = [ticket EXCEPT ![t] = row] /\ End(h)
    BY <1>1, <1>5, <2>1 DEF AddReplyInsert
  <2> HIDE DEF t, row
  <2> QED BY <1>1, <2>1, <2>4, <2>5, TicketsStay DEF End
<1>6. ASSUME NEW h \in Requests, SetStatusWrite(h) PROVE SupportTypeOK'
  <2> DEFINE t   == request[h].ticket
             row == [ticket[t] EXCEPT !.status = request[h].status]
  <2>1. t \in Tickets /\ request[h].status \in Statuses
    BY <1>6 DEF SetStatusWrite, Doing, SupportTypeOK, SupportRequests, Idle
  <2>2. ticket[t] \in TicketRows
    BY <1>1, <2>1
  <2>3. row \in TicketRows
    BY <2>1, <2>2 DEF TicketRows
  <2>4. ticket' = [ticket EXCEPT ![t] = row] /\ End(h)
    BY <1>1, <1>6, <2>1 DEF SetStatusWrite
  <2> HIDE DEF t, row
  <2> QED BY <1>1, <2>1, <2>3, <2>4, TicketsStay DEF End
<1>7. ASSUME NEW h \in Requests, Abandon(h), UNCHANGED supportVars PROVE SupportTypeOK'
  BY <1>1, <1>7, TicketsStay DEF Abandon, End, supportVars
<1>8. CASE UNCHANGED <<request, supportVars>>
  BY <1>8 DEF SupportTypeOK, supportVars
<1> QED BY <1>2, <1>3, <1>4, <1>5, <1>6, <1>7, <1>8 DEF SupportNext

----------------------------------------------------------------------------
\* The catalogue of document types.

LEMMA InitCatalogue == ASSUME ServerInit, CatalogueInit PROVE CatalogueTypeOK
BY CatalogueAssumption DEF ServerInit, CatalogueInit, CatalogueTypeOK, NoPush, PushRows

LEMMA PushTyped ==
  /\ NoPush \in PushRows /\ [NoPush EXCEPT !.at = "scheduled"] \in PushRows
  /\ \A n \in 1 .. BootAttempts : [at |-> "scheduled", try |-> n, sent |-> {}] \in PushRows
BY CatalogueAssumption DEF NoPush, PushRows

LEMMA StepCatalogue ==
  ASSUME CatalogueTypeOK, [CatalogueNext]_<<request, catalogueVars>> PROVE CatalogueTypeOK'
<1> DEFINE Pushed == pushes' \in [PushSlots -> PushRows]
           Asked  == request' \in [Requests -> {Idle} \union CatalogueRequests]
<1>1. ASSUME NEW s \in PushSlots, SyncInBackground(s) PROVE Pushed
  BY <1>1, PushTyped DEF SyncInBackground, CatalogueTypeOK
<1>2. ASSUME NEW s \in PushSlots, NEW t \in Types, NEW status \in {"active", "inactive"},
             CreateDocumentType(t, status, s)
      PROVE  CatalogueTypeOK'
  BY <1>1, <1>2 DEF CreateDocumentType, CatalogueTypeOK
<1>3. ASSUME NEW s \in PushSlots, NEW t \in Types, DeleteDocumentType(t, s) PROVE CatalogueTypeOK'
  BY <1>1, <1>3 DEF DeleteDocumentType, CatalogueTypeOK
<1>4. ASSUME NEW h \in Requests, End(h) PROVE Asked
  BY <1>4 DEF End, CatalogueTypeOK
<1>5. ASSUME NEW h \in Requests, NEW s \in PushSlots, UpdateWrite(h, s) PROVE CatalogueTypeOK'
  <2>1. request[h].type \in Types /\ request[h].status \in {"active", "inactive"}
    BY <1>5 DEF UpdateWrite, Doing, CatalogueTypeOK, CatalogueRequests, Idle
  <2>2. documentType' \in [Types -> {"absent", "active", "inactive"}]
    BY <1>5, <2>1 DEF UpdateWrite, CatalogueTypeOK
  <2>3. Pushed /\ Asked /\ UNCHANGED service
    BY <1>1, <1>4, <1>5 DEF UpdateWrite
  <2> QED BY <2>2, <2>3 DEF CatalogueTypeOK
<1>6. ASSUME NEW h \in Requests, NEW t \in Types, NEW status \in {"active", "inactive"},
             UpdateRead(h, t, status)
      PROVE  CatalogueTypeOK'
  BY <1>6 DEF UpdateRead, Begin, CatalogueRequests, CatalogueTypeOK, catalogueVars
<1>7. CASE BackendRestarts
  <2>1. 1 \in 1 .. BootAttempts
    BY CatalogueAssumption
  <2>2. Pushed
    BY <1>7, <2>1, PushTyped DEF BackendRestarts
  <2> QED BY <1>7, <2>2 DEF BackendRestarts, CatalogueTypeOK
<1>8. CASE ServiceStarts \/ ServiceStops
  <2>1. ASSUME NEW up \in BOOLEAN PROVE [up |-> up, known |-> {}] \in [up : BOOLEAN, known : SUBSET Types]
    OBVIOUS
  <2>2. /\ service' = [up |-> TRUE, known |-> {}] \/ service' = [up |-> FALSE, known |-> {}]
        /\ UNCHANGED <<documentType, pushes, request>>
    BY <1>8 DEF ServiceStarts, ServiceStops
  <2> QED BY <2>1, <2>2 DEF CatalogueTypeOK
<1>9. ASSUME NEW s \in PushSlots, PushRead(s) PROVE CatalogueTypeOK'
  <2> DEFINE row == [pushes[s] EXCEPT !.at = "sent", !.sent = readActiveCatalogue]
  <2>1. row \in PushRows
    <3>1. pushes[s] \in PushRows /\ readActiveCatalogue \in SUBSET Types
      BY DEF CatalogueTypeOK, readActiveCatalogue
    <3>2. ASSUME NEW old \in PushRows, NEW types \in SUBSET Types
          PROVE  [old EXCEPT !.at = "sent", !.sent = types] \in PushRows
      BY DEF PushRows
    <3> QED BY <3>1, <3>2
  <2>2. pushes' = [pushes EXCEPT ![s] = row]
    BY <1>9 DEF PushRead, CatalogueTypeOK
  <2> HIDE DEF row
  <2> QED BY <1>9, <2>1, <2>2 DEF PushRead, CatalogueTypeOK
<1>10. ASSUME NEW s \in PushSlots, PushArrives(s) PROVE CatalogueTypeOK'
  <2>1. pushes[s].sent \in SUBSET Types
    BY DEF CatalogueTypeOK, PushRows
  <2>2. service' \in [up : BOOLEAN, known : SUBSET Types] /\ Pushed
    BY <1>10, <2>1, PushTyped DEF PushArrives, CatalogueTypeOK
  <2> QED BY <1>10, <2>2 DEF PushArrives, CatalogueTypeOK
<1>11. ASSUME NEW s \in PushSlots, PushFails(s) PROVE CatalogueTypeOK'
  <2> DEFINE n   == pushes[s].try
             row == IF n \in 1 .. BootAttempts - 1
                    THEN [at |-> "scheduled", try |-> n + 1, sent |-> {}] ELSE NoPush
  <2>1. n \in 1 .. BootAttempts - 1 => n + 1 \in 1 .. BootAttempts
    BY CatalogueAssumption
  <2>2. row \in PushRows
    BY <2>1, PushTyped
  <2>3. pushes' = [pushes EXCEPT ![s] = row]
    BY <1>11 DEF PushFails, CatalogueTypeOK
  <2> HIDE DEF n, row
  <2> QED BY <1>11, <2>2, <2>3 DEF PushFails, CatalogueTypeOK
<1>12. ASSUME NEW h \in Requests, Abandon(h), UNCHANGED catalogueVars PROVE CatalogueTypeOK'
  BY <1>4, <1>12 DEF Abandon, catalogueVars, CatalogueTypeOK
<1>13. CASE UNCHANGED <<request, catalogueVars>>
  BY <1>13 DEF catalogueVars, CatalogueTypeOK
<1> QED BY <1>2, <1>3, <1>5, <1>6, <1>7, <1>8, <1>9, <1>10, <1>11, <1>12, <1>13 DEF CatalogueNext

----------------------------------------------------------------------------
\* The desks together.

DesksInv ==
  /\ desk \in Desks
  /\ desk = "exits"         => OffboardingInv
  /\ desk = "approvals"     => ApprovalsInv
  /\ desk = "recruitment"   => RecruitmentInv
  /\ desk = "verification"  => VerificationInv
  /\ desk = "quota"         => QuotaInv
  /\ desk = "sessions"      => SessionsInv
  /\ desk = "accounts"      => AccountsInv
  /\ desk = "letters"       => LettersInv
  /\ desk = "leave"         => LeaveInv
  /\ desk = "customPlans"   => CustomPlanInv
  /\ desk = "attendance"    => AttendanceInv
  /\ desk = "support"       => SupportTypeOK
  /\ desk = "documentTypes" => CatalogueTypeOK
  /\ desk = "salaries"      => SalaryInv

LEMMA InitDesks == ASSUME Init PROVE DesksInv
<1> USE DEF Init
<1>1. OffboardingInv /\ ApprovalsInv /\ RecruitmentInv /\ VerificationInv /\ QuotaInv
  BY InitOffboarding, InitApprovals, InitRecruitment, InitVerification, InitQuota
<1>2. SessionsInv /\ AccountsInv /\ LettersInv /\ LeaveInv /\ CustomPlanInv
  BY InitSessions, InitAccounts, InitLetters, InitLeave, InitCustomPlan
<1>3. AttendanceInv /\ SupportTypeOK /\ CatalogueTypeOK /\ SalaryInv
  BY InitAttendance, InitSupport, InitCatalogue, InitSalary
<1> QED BY <1>1, <1>2, <1>3 DEF DesksInv

\* Every step is one of the desk where the run takes place.
LEMMA StepDesks == ASSUME DesksInv, [Next]_<<desk, deskVars>> PROVE DesksInv'
<1>1. UNCHANGED desk
  BY DEF Next, Elsewhere
<1>2. desk = "exits" => OffboardingInv'
  BY StepOffboarding DEF DesksInv, Next, deskVars
<1>3. desk = "approvals" => ApprovalsInv'
  BY StepApprovals DEF DesksInv, Next, deskVars
<1>4. desk = "recruitment" => RecruitmentInv'
  BY StepRecruitment DEF DesksInv, Next, deskVars
<1>5. desk = "verification" => VerificationInv'
  BY StepVerification DEF DesksInv, Next, deskVars
<1>6. desk = "quota" => QuotaInv'
  BY StepQuota DEF DesksInv, Next, deskVars
<1>7. desk = "sessions" => SessionsInv'
  BY StepSessions DEF DesksInv, Next, deskVars
<1>8. desk = "accounts" => AccountsInv'
  BY StepAccounts DEF DesksInv, Next, deskVars
<1>9. desk = "letters" => LettersInv'
  BY StepLetters DEF DesksInv, Next, deskVars
<1>10. desk = "leave" => LeaveInv'
  BY StepLeave DEF DesksInv, Next, deskVars
<1>11. desk = "customPlans" => CustomPlanInv'
  BY StepCustomPlan DEF DesksInv, Next, deskVars
<1>12. desk = "attendance" => AttendanceInv'
  BY StepAttendance DEF DesksInv, Next, deskVars
<1>13. desk = "support" => SupportTypeOK'
  BY StepSupport DEF DesksInv, Next, deskVars
<1>14. desk = "documentTypes" => CatalogueTypeOK'
  BY StepCatalogue DEF DesksInv, Next, deskVars
<1>15. desk = "salaries" => SalaryInv'
  BY StepSalary DEF DesksInv, Next, deskVars
<1> QED BY <1>1, <1>2, <1>3, <1>4, <1>5, <1>6, <1>7, <1>8, <1>9, <1>10, <1>11, <1>12, <1>13, <1>14,
           <1>15 DEF DesksInv

\* Every table of every desk holds rows of its kind, and every request what its
\* handler has read, for every value of the constants; at the overtime desk no more
\* is ever approved than was claimed (decideOvertime).
THEOREM DesksAreTyped == Spec => []DesksTypeOK
<1>1. DesksInv => DesksTypeOK
  BY DEF DesksInv, DesksTypeOK, OffboardingInv, CustodyInv, ExitInv, RequestsTyped,
         OffboardingTypeOK, ApprovalsInv, RecruitmentInv, VerificationInv, QuotaInv, SessionsInv,
         AccountsInv, LettersInv, LeaveInv, CustomPlanInv, AttendanceInv, SalaryInv
<1> QED BY InitDesks, StepDesks, <1>1, PTL DEF Spec

----------------------------------------------------------------------------
\* What the desks promise, each from its own invariant; where the run does not
\* take place the tables stay what they were.

DesksPromise ==
  /\ CustodyShown /\ OneOpenExit /\ ClosedExitIsSettled
  /\ ChainIsSound
  /\ OneEmployeePerCandidate /\ SentIsWhatWasMailed
  /\ NothingFallsBetween
  /\ QuotaKept
  /\ CodeHasLimits
  /\ LinksMeanWhatTheySay
  /\ OnlyApprovedCounts
  /\ OnePendingCheckout
  /\ OneActiveSalary

PromisesAreKept ==
  /\ OffboardingInv => CustodyShown /\ OneOpenExit /\ ClosedExitIsSettled
  /\ ApprovalsInv => ChainIsSound
  /\ RecruitmentInv => OneEmployeePerCandidate /\ SentIsWhatWasMailed
  /\ VerificationInv => NothingFallsBetween
  /\ QuotaInv => QuotaKept
  /\ SessionsInv => CodeHasLimits
  /\ LettersInv => LinksMeanWhatTheySay
  /\ LeaveInv => OnlyApprovedCounts
  /\ CustomPlanInv => OnePendingCheckout
  /\ SalaryInv => OneActiveSalary

LEMMA KeptByInvariants == PromisesAreKept
<1>1. OffboardingInv => CustodyShown /\ OneOpenExit /\ ClosedExitIsSettled
  BY DEF OffboardingInv, CustodyInv, ExitInv
<1>2. RecruitmentInv => OneEmployeePerCandidate /\ SentIsWhatWasMailed
  BY CountedOnce DEF RecruitmentInv
<1>3. QuotaInv => QuotaKept
  BY DEF QuotaInv
<1>4. CustomPlanInv => OnePendingCheckout
  BY DEF CustomPlanInv
<1> QED
  BY <1>1, <1>2, <1>3, <1>4, InvariantIsSound, ListedInQueues, LimitsKept, InvariantIsMeaning,
     OnlyApprovedTaken, OneEffective DEF PromisesAreKept

\* The promises are about the tables alone.
LEMMA KeptElsewhere ==
  /\ CustodyShown /\ OneOpenExit /\ ClosedExitIsSettled /\ UNCHANGED <<custodyVars, exitVars>>
       => (CustodyShown /\ OneOpenExit /\ ClosedExitIsSettled)'
  /\ ChainIsSound /\ UNCHANGED approvalVars => ChainIsSound'
  /\ OneEmployeePerCandidate /\ SentIsWhatWasMailed /\ UNCHANGED recruitmentVars
       => (OneEmployeePerCandidate /\ SentIsWhatWasMailed)'
  /\ NothingFallsBetween /\ UNCHANGED verificationVars => NothingFallsBetween'
  /\ QuotaKept /\ UNCHANGED quotaVars => QuotaKept'
  /\ CodeHasLimits /\ UNCHANGED sessionVars => CodeHasLimits'
  /\ LinksMeanWhatTheySay /\ UNCHANGED letterVars => LinksMeanWhatTheySay'
  /\ OnlyApprovedCounts /\ UNCHANGED leaveVars => OnlyApprovedCounts'
  /\ OnePendingCheckout /\ UNCHANGED customPlanVars => OnePendingCheckout'
  /\ OneActiveSalary /\ UNCHANGED salaryVars => OneActiveSalary'
<1>1. CustodyShown /\ OneOpenExit /\ ClosedExitIsSettled /\ UNCHANGED <<custodyVars, exitVars>>
        => (CustodyShown /\ OneOpenExit /\ ClosedExitIsSettled)'
  BY DEF CustodyShown, OneOpenExit, ClosedExitIsSettled, Held, custodyVars, exitVars
<1>2. ChainIsSound /\ UNCHANGED approvalVars => ChainIsSound'
  BY DEF ChainIsSound, approvalVars
<1>3. OneEmployeePerCandidate /\ SentIsWhatWasMailed /\ UNCHANGED recruitmentVars
        => (OneEmployeePerCandidate /\ SentIsWhatWasMailed)'
  BY DEF OneEmployeePerCandidate, SentIsWhatWasMailed, recruitmentVars
<1>4. NothingFallsBetween /\ UNCHANGED verificationVars => NothingFallsBetween'
  BY DEF NothingFallsBetween, Filed, UnmatchedQueue, Inbox, AutoLedger, verificationVars
<1>5. QuotaKept /\ UNCHANGED quotaVars => QuotaKept'
  BY DEF QuotaKept, quotaVars
<1>6. CodeHasLimits /\ UNCHANGED sessionVars => CodeHasLimits'
  BY DEF CodeHasLimits, sessionVars
<1>7. LinksMeanWhatTheySay /\ UNCHANGED letterVars => LinksMeanWhatTheySay'
  BY DEF LinksMeanWhatTheySay, Verifies, letterVars
<1>8. OnlyApprovedCounts /\ UNCHANGED leaveVars => OnlyApprovedCounts'
  BY SMT DEF OnlyApprovedCounts, MapThenSumSet, MapThenFoldSet, leaveVars
<1>9. OnePendingCheckout /\ UNCHANGED customPlanVars => OnePendingCheckout'
  BY DEF OnePendingCheckout, customPlanVars
<1>10. OneActiveSalary /\ UNCHANGED salaryVars => OneActiveSalary'
  BY DEF OneActiveSalary, Effective, salaryVars
<1> QED BY <1>1, <1>2, <1>3, <1>4, <1>5, <1>6, <1>7, <1>8, <1>9, <1>10

LEMMA InitPromise == ASSUME Init PROVE DesksPromise
<1> USE DEF Init
<1>1. OffboardingInv /\ ApprovalsInv /\ RecruitmentInv /\ VerificationInv /\ QuotaInv
  BY InitOffboarding, InitApprovals, InitRecruitment, InitVerification, InitQuota
<1>2. SessionsInv /\ LettersInv /\ LeaveInv /\ CustomPlanInv /\ SalaryInv
  BY InitSessions, InitLetters, InitLeave, InitCustomPlan, InitSalary
<1> QED BY <1>1, <1>2, KeptByInvariants DEF PromisesAreKept, DesksPromise

LEMMA StepPromise ==
  ASSUME DesksPromise, DesksInv', PromisesAreKept', [Next]_<<desk, deskVars>>
  PROVE  DesksPromise'
<1>1. UNCHANGED desk
  BY DEF Next, Elsewhere
<1>2. /\ desk # "exits" => UNCHANGED <<custodyVars, exitVars>>
      /\ desk # "approvals" => UNCHANGED approvalVars
      /\ desk # "recruitment" => UNCHANGED recruitmentVars
      /\ desk # "verification" => UNCHANGED verificationVars
      /\ desk # "quota" => UNCHANGED quotaVars
      /\ desk # "sessions" => UNCHANGED sessionVars
      /\ desk # "letters" => UNCHANGED letterVars
      /\ desk # "leave" => UNCHANGED leaveVars
      /\ desk # "customPlans" => UNCHANGED customPlanVars
      /\ desk # "salaries" => UNCHANGED salaryVars
  BY DEF Next, Elsewhere, Still, deskVars
<1>3. /\ desk = "exits" => OffboardingInv'
      /\ desk = "approvals" => ApprovalsInv'
      /\ desk = "recruitment" => RecruitmentInv'
      /\ desk = "verification" => VerificationInv'
      /\ desk = "quota" => QuotaInv'
      /\ desk = "sessions" => SessionsInv'
      /\ desk = "letters" => LettersInv'
      /\ desk = "leave" => LeaveInv'
      /\ desk = "customPlans" => CustomPlanInv'
      /\ desk = "salaries" => SalaryInv'
  BY <1>1 DEF DesksInv
<1>4. (CustodyShown /\ OneOpenExit /\ ClosedExitIsSettled)'
  BY <1>2, <1>3, KeptElsewhere DEF PromisesAreKept, DesksPromise
<1> QED BY <1>2, <1>3, <1>4, KeptElsewhere DEF PromisesAreKept, DesksPromise

\* What each desk promises holds when all of them are open, for every value of the
\* constants, wherever the run takes place.
THEOREM DesksKeepTheirPromises == Spec => []DesksPromise
BY InitPromise, StepPromise, KeptByInvariants, InitDesks, StepDesks, PTL DEF Spec

\* What no step may do is done nowhere: a step outside a desk leaves its tables alone.
LEMMA StepLasts ==
  ASSUME DesksInv, DesksInv', [Next]_<<desk, deskVars>>
  PROVE  /\ [\A r \in Approvals :
               approval[r].status \notin {"absent", "pending"} => approval'[r] = approval[r]]_approval
         /\ [\A r \in Submissions :
               (submission[r].status = "absent" /\ submission'[r].status = "auto_verified")
                 => <<submission'[r].org, submission'[r].person, submission'[r].file>> \in vouched
            ]_submission
         /\ [\A r \in Submissions : submission[r].status \in {"verified", "unverified"} =>
               submission'[r].status # "auto_verified"]_submission
         /\ [/\ \A a \in Accounts : account[a].verified => account'[a].status # "absent"
             /\ \A e \in Staff : employee'[e].platform =>
                  employee'[e].linked # NoAccount /\ account'[employee'[e].linked].status # "absent"
            ]_<<account, employee>>
<1>1. UNCHANGED desk
  BY DEF Next, Elsewhere
<1>2. CASE desk = "approvals"
  <2>1. ApprovalsInv /\ [ApprovalsNext]_<<request, approvalVars>>
    BY <1>2 DEF DesksInv, Next, deskVars
  <2>2. \A r \in Approvals :
          approval[r].status \notin {"absent", "pending"} => approval'[r] = approval[r]
    BY <2>1, StepIsFinal
  <2>3. UNCHANGED <<submission, account, employee>>
    BY <1>2 DEF Next, Elsewhere, Still, deskVars, verificationVars, accountVars
  <2> QED BY <2>2, <2>3
<1>3. CASE desk = "verification"
  <2>1. VerificationInv /\ [VerificationNext]_<<request, verificationVars>>
    BY <1>3 DEF DesksInv, Next, deskVars
  <2>2. RowsMove
    BY <2>1, StepVerification
  <2>3. UNCHANGED <<approval, account, employee>>
    BY <1>3 DEF Next, Elsewhere, Still, deskVars, approvalVars, accountVars
  <2> QED BY <2>2, <2>3 DEF RowsMove, Shows
<1>4. CASE desk = "accounts"
  <2>1. AccountsInv /\ [AccountsNext]_<<request, accountVars>>
    BY <1>4 DEF DesksInv, Next, deskVars
  <2>2. AccountsNext => AcceptedStay /\ AccountsInv'
    BY <2>1, AccountsSteps DEF AccountsStep
  <2>3. UNCHANGED <<approval, submission>>
    BY <1>4 DEF Next, Elsewhere, Still, deskVars, approvalVars, verificationVars
  <2>4. CASE AccountsNext
    BY <2>2, <2>3, <2>4 DEF AcceptedStay, AccountsInv, PortalHasAccount, Exists
  <2>5. CASE UNCHANGED <<request, accountVars>>
    BY <2>3, <2>5 DEF accountVars
  <2> QED BY <2>1, <2>4, <2>5
<1>5. CASE desk \notin {"approvals", "verification", "accounts"}
  BY <1>5 DEF Next, Elsewhere, Still, deskVars, approvalVars, verificationVars, accountVars
<1> QED BY <1>2, <1>3, <1>4, <1>5

\* Resolved approvals stay, only what the same person showed is born verified, no
\* decision of a person is overwritten by the matcher, and verified accounts stay,
\* in every run that begins at any of the desks.
THEOREM DesksUndoNothing ==
  Spec => ResolvedIsFinal /\ RepeatOfSamePerson /\ HumanDecisionStands /\ AcceptedAccountStays
BY StepLasts, InitDesks, StepDesks, PTL
   DEF Spec, ResolvedIsFinal, RepeatOfSamePerson, HumanDecisionStands, AcceptedAccountStays
==============================================================================
