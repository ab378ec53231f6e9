------------------------------ MODULE Customers_proofs -------------------------
(* What the platform does for its customers: verification requests, their     *)
(* daily quota, plans made to order, and one-time codes and sessions.         *)
EXTENDS Verification, RequestQuota, CustomPlan, Sessions, FiniteSetTheorems, TLAPS

----------------------------------------------------------------------------
\* Verification requests.

Shows(row) == <<row.org, row.person, row.file>>

\* The history holds what every verified request shows, and what a request
\* that is trusted because it repeats one is about to show.
VouchedFor ==
  /\ \A r \in Submissions :
       submission[r].status \in VerifiedStatuses /\ submission[r].org # NoOrg
         => Shows(submission[r]) \in vouched
  /\ \A h \in Requests : Doing(h, "submit") /\ request[h].auto => Shows(request[h]) \in vouched

\* Nothing open loses its target without going to the unmatched queue, and what
\* waits for a decision has no outcome of the matcher ...
Listed(row) ==
  /\ row.status \in {"under_review", "auto_verified"} => row.queued \/ row.org # NoOrg
  /\ row.status = "under_review" => row.match # "auto_matched"

OpenIsListed == \A r \in Submissions : Listed(submission[r])

\* ... and what leaves that queue late was decided, and stays so, or was deleted.
Closed == {"verified", "unverified", "deleted"}

LateToUnqueue ==
  \A h \in Requests : Doing(h, "decide") =>
    /\ submission[request[h].row].status # "absent"
    /\ request[h].step = "unqueue" => submission[request[h].row].status \in Closed

VerificationInv == VerificationTypeOK /\ VouchedFor /\ OpenIsListed /\ LateToUnqueue

LEMMA InitVerification == ASSUME ServerInit, VerificationInit PROVE VerificationInv
BY DEF ServerInit, VerificationInit, VerificationInv, VerificationTypeOK, VouchedFor, OpenIsListed,
       Listed, LateToUnqueue, Doing, Idle, Gone, VerifiedStatuses, Closed

\* A row is a request in full, or the trace of one.
LEMMA FiledRows ==
  ASSUME VerificationInv, NEW r \in Submissions
  PROVE  /\ r \in Filed => submission[r] \in SubmissionRows
         /\ r \in Filed <=> submission[r].status \notin Gone
         /\ submission[r] \in [status : Gone] \union SubmissionRows
BY DEF VerificationInv, VerificationTypeOK, Filed, Gone

\* The open requests are in the queues that the pages list.
LEMMA ListedInQueues == ASSUME VerificationInv PROVE NothingFallsBetween
<1> SUFFICES ASSUME NEW r \in Filed, submission[r].status \in {"under_review", "auto_verified"}
             PROVE  \/ r \in UnmatchedQueue
                    \/ submission[r].status = "under_review" /\ \E o \in Orgs : r \in Inbox(o)
                    \/ submission[r].status = "auto_verified" /\ \E o \in Orgs : r \in AutoLedger(o)
  BY DEF NothingFallsBetween
<1>1. r \in Submissions /\ submission[r] \in SubmissionRows
  BY FiledRows DEF Filed
<1>2. submission[r].queued \/ submission[r].org # NoOrg
  BY <1>1 DEF VerificationInv, OpenIsListed, Listed
<1>3. CASE submission[r].queued
  BY <1>3 DEF UnmatchedQueue
<1>4. CASE submission[r].org # NoOrg
  <2>1. submission[r].org \in Orgs
    BY <1>1, <1>4 DEF SubmissionRows, Places
  <2> QED BY <1>1, <2>1 DEF Inbox, AutoLedger
<1> QED BY <1>2, <1>3, <1>4

\* The requests in progress: none brings a new claim about the rows with it.
SubmitsStay ==
  /\ request' \in [Requests -> {Idle} \union VerificationRequests]
  /\ \A g \in Requests :
       /\ request'[g].kind = "submit" => request'[g] = request[g]
       /\ request'[g].kind = "decide" =>
            \/ request'[g] = request[g]
            \/ request'[g].step = "write" /\ submission[request'[g].row].status # "absent"

LEMMA VerificationEnds ==
  ASSUME VerificationInv, NEW h \in Requests, End(h) PROVE SubmitsStay
BY DEF VerificationInv, VerificationTypeOK, End, SubmitsStay, Idle

LEMMA VerificationBegins ==
  ASSUME VerificationInv, NEW h \in Requests, NEW r \in VerificationRequests, Begin(h, r),
         r.kind # "submit",
         r.kind = "decide" => r.step = "write" /\ submission[r.row].status # "absent"
  PROVE  SubmitsStay
BY DEF VerificationInv, VerificationTypeOK, Begin, SubmitsStay

\* What a step may do to the rows: no request is born verified without a
\* voucher, and the matcher overwrites nobody's decision.
RowsMove ==
  \A r \in Submissions :
    /\ submission[r].status = "absent" /\ submission'[r].status = "auto_verified"
         => Shows(submission'[r]) \in vouched
    /\ submission[r].status \in {"verified", "unverified"}
         => submission'[r].status # "auto_verified"

\* The tables stay, or only the references change.
LEMMA SubmissionsStay ==
  ASSUME VerificationInv, SubmitsStay, UNCHANGED <<submission, vouched>>,
         reference' \subseteq Orgs \X People
  PROVE  VerificationInv' /\ RowsMove
<1>1. VerificationTypeOK' /\ OpenIsListed'
  BY DEF VerificationInv, VerificationTypeOK, OpenIsListed, SubmitsStay
<1>2. VouchedFor'
  BY DEF VerificationInv, VouchedFor, SubmitsStay, Shows, Doing
<1>3. LateToUnqueue' /\ RowsMove
  BY DEF VerificationInv, LateToUnqueue, SubmitsStay, Doing, RowsMove
<1> QED BY <1>1, <1>2, <1>3 DEF VerificationInv

LEMMA Vouching ==
  ASSUME VerificationInv, NEW new \in [Submissions -> [status : Gone] \union SubmissionRows],
         PutSubmissions(new)
  PROVE  /\ submission' = new /\ vouched \subseteq vouched'
         /\ vouched' \subseteq Orgs \X People \X Files
         /\ \A r \in Submissions : new[r].status \in VerifiedStatuses /\ new[r].org # NoOrg
              => Shows(new[r]) \in vouched'
<1> DEFINE verified == {q \in Submissions : new[q].status \in VerifiedStatuses /\ new[q].org # NoOrg}
           shown == {<<new[r].org, new[r].person, new[r].file>> : r \in verified}
<1>1. submission' = new /\ vouched' = vouched \union shown
  BY DEF PutSubmissions
<1>2. ASSUME NEW r \in verified PROVE Shows(new[r]) \in Orgs \X People \X Files
  <2>1. new[r].status \notin Gone /\ new[r].org # NoOrg
    BY DEF VerifiedStatuses, Gone
  <2>2. new[r] \in SubmissionRows
    BY <2>1
  <2> QED BY <2>1, <2>2 DEF SubmissionRows, Places, Shows
<1>3. shown \subseteq Orgs \X People \X Files
  BY <1>2 DEF Shows
<1>4. \A r \in verified : Shows(new[r]) \in shown
  BY DEF Shows
<1>5. vouched \subseteq Orgs \X People \X Files
  BY DEF VerificationInv, VerificationTypeOK
<1> HIDE DEF shown
<1> QED BY <1>1, <1>3, <1>4, <1>5

\* Rows are written: what was decided or deleted stays one or the other, and
\* what is open afterwards is listed.
LEMMA SubmissionsWritten ==
  ASSUME VerificationInv, SubmitsStay, UNCHANGED reference,
         NEW new \in [Submissions -> [status : Gone] \union SubmissionRows],
         PutSubmissions(new),
         \A r \in Submissions :
           /\ submission[r].status \in Closed => new[r].status \in Closed
           /\ submission[r].status # "absent" => new[r].status # "absent"
           /\ Listed(new[r])
           /\ submission[r].status = "absent" /\ new[r].status = "auto_verified" =>
                Shows(new[r]) \in vouched
           /\ submission[r].status \in {"verified", "unverified"} => new[r].status # "auto_verified"
  PROVE  VerificationInv' /\ RowsMove
<1>1. VerificationTypeOK'
  BY Vouching DEF VerificationInv, VerificationTypeOK, SubmitsStay
<1>2. OpenIsListed'
  BY Vouching DEF OpenIsListed
<1>3. VouchedFor'
  BY Vouching DEF VerificationInv, VouchedFor, SubmitsStay, Shows, Doing
<1>4. LateToUnqueue'
  <2> SUFFICES ASSUME NEW h \in Requests, request'[h].kind = "decide"
               PROVE  LET status == new[request'[h].row].status
                      IN status # "absent" /\ (request'[h].step = "unqueue" => status \in Closed)
    BY Vouching DEF LateToUnqueue, Doing
  <2>1. request'[h].row \in Submissions
    BY DEF SubmitsStay, VerificationRequests, Idle
  <2>2. LET status == submission[request'[h].row].status
        IN status # "absent" /\ (request'[h].step = "unqueue" => status \in Closed)
    BY DEF SubmitsStay, VerificationInv, LateToUnqueue, Doing
  <2> QED BY <2>1, <2>2
<1>5. RowsMove
  BY Vouching DEF RowsMove
<1> QED BY <1>1, <1>2, <1>3, <1>4, <1>5 DEF VerificationInv

\* One row is written.
LEMMA SubmissionWritten ==
  ASSUME VerificationInv, SubmitsStay, UNCHANGED reference,
         NEW q \in Submissions, NEW row \in [status : Gone] \union SubmissionRows,
         PutSubmissions([submission EXCEPT ![q] = row]),
         submission[q].status \in Closed => row.status \in Closed,
         submission[q].status # "absent" => row.status # "absent",
         Listed(row),
         submission[q].status = "absent" /\ row.status = "auto_verified" => Shows(row) \in vouched,
         submission[q].status \in {"verified", "unverified"} => row.status # "auto_verified"
  PROVE  VerificationInv' /\ RowsMove
<1> DEFINE new == [submission EXCEPT ![q] = row]
<1>1. /\ new \in [Submissions -> [status : Gone] \union SubmissionRows]
      /\ \A r \in Submissions : new[r] = IF r = q THEN row ELSE submission[r]
  BY DEF VerificationInv, VerificationTypeOK
<1>2. \A r \in Submissions :
        /\ submission[r].status \in Closed => new[r].status \in Closed
        /\ submission[r].status # "absent" => new[r].status # "absent"
        /\ Listed(new[r])
        /\ submission[r].status = "absent" /\ new[r].status = "auto_verified" =>
             Shows(new[r]) \in vouched
        /\ submission[r].status \in {"verified", "unverified"} => new[r].status # "auto_verified"
  BY <1>1 DEF VerificationInv, OpenIsListed
<1> HIDE DEF new
<1> QED BY <1>1, <1>2, SubmissionsWritten DEF new

----------------------------------------------------------------------------
LEMMA StepVerification ==
  ASSUME VerificationInv, [VerificationNext]_<<request, verificationVars>>
  PROVE  VerificationInv' /\ RowsMove
<1> USE VerificationAssumption
<1> DEFINE Goal == VerificationInv' /\ RowsMove
<1>0. reference \subseteq Orgs \X People
  BY DEF VerificationInv, VerificationTypeOK
<1>1. ASSUME NEW h \in Requests, NEW r \in VerificationRequests, Begin(h, r),
             r.kind # "submit", UNCHANGED verificationVars,
             r.kind = "decide" => r.step = "write" /\ submission[r.row].status # "absent"
      PROVE  Goal
  <2>1. SubmitsStay
    BY <1>1, VerificationBegins
  <2> QED BY <1>0, <1>1, <2>1, SubmissionsStay DEF verificationVars
<1>2. ASSUME NEW h \in Requests, End(h), UNCHANGED verificationVars PROVE Goal
  BY <1>0, <1>2, VerificationEnds, SubmissionsStay DEF verificationVars
<1>3. ASSUME NEW h \in Requests, End(h), UNCHANGED reference,
             NEW q \in Submissions, NEW row \in [status : Gone] \union SubmissionRows,
             PutSubmissions([submission EXCEPT ![q] = row]),
             submission[q].status \in Closed => row.status \in Closed,
             submission[q].status # "absent" => row.status # "absent",
             Listed(row),
             submission[q].status = "absent" /\ row.status = "auto_verified" =>
               Shows(row) \in vouched,
             submission[q].status \in {"verified", "unverified"} => row.status # "auto_verified"
      PROVE  Goal
  <2>1. SubmitsStay
    BY <1>3, VerificationEnds
  <2> QED BY <1>3, <2>1, SubmissionWritten
<1>4. ASSUME NEW o \in Places, NEW p \in People
      PROVE  Staged(o, p) \in Places /\ MatchOf(Staged(o, p)) \in {"not_attempted", "manual_review"}
  BY DEF Staged, MatchOf, Places
<1>5. ASSUME NEW h \in Requests, NEW o \in Places, NEW p \in People, NEW f \in Files,
             SubmitRead(h, o, p, f)
      PROVE  Goal
  <2> DEFINE auto == o # NoOrg /\ Repeats(o, p, f)
             r == [kind |-> "submit", org |-> o, person |-> p, file |-> f, auto |-> auto]
  <2>1. auto \in BOOLEAN
    BY DEF Repeats
  <2>2. auto => Shows(r) \in vouched
    <3> SUFFICES ASSUME auto PROVE <<o, p, f>> \in vouched
      BY DEF Shows
    <3>1. PICK s \in Submissions : /\ submission[s].status \in VerifiedStatuses
                                   /\ Shows(submission[s]) = <<o, p, f>>
                                   /\ submission[s].org = o
      BY DEF Repeats, Filed, Shows
    <3> QED BY <3>1 DEF VerificationInv, VouchedFor
  <2>3. request' = [request EXCEPT ![h] = r] /\ UNCHANGED verificationVars
    BY <1>5 DEF SubmitRead, Begin
  <2> HIDE DEF auto
  <2>4. r \in VerificationRequests /\ r.kind = "submit" /\ r.auto = auto
    BY <2>1 DEF VerificationRequests
  <2> HIDE DEF r
  <2>5. /\ request' \in [Requests -> {Idle} \union VerificationRequests]
        /\ \A g \in Requests : request'[g] = IF g = h THEN r ELSE request[g]
    BY <2>3, <2>4 DEF VerificationInv, VerificationTypeOK
  <2>6. VerificationTypeOK' /\ OpenIsListed' /\ RowsMove
    BY <2>3, <2>5 DEF VerificationInv, VerificationTypeOK, OpenIsListed, RowsMove, verificationVars
  <2>7. VouchedFor'
    BY <2>2, <2>3, <2>4, <2>5 DEF VerificationInv, VouchedFor, Doing, verificationVars, Shows
  <2>8. LateToUnqueue'
    BY <2>3, <2>4, <2>5 DEF VerificationInv, LateToUnqueue, Doing, verificationVars
  <2> QED BY <2>6, <2>7, <2>8 DEF VerificationInv
<1>6. ASSUME NEW h \in Requests, NEW r \in Submissions, SubmitInsert(h, r) PROVE Goal
  <2> DEFINE q == request[h]
             s == Staged(q.org, q.person)
             row == [status |-> IF q.auto THEN "auto_verified" ELSE "under_review",
                     org |-> q.org, queued |-> q.org = NoOrg, person |-> q.person,
                     file |-> q.file, match |-> MatchOf(s), staged |-> s]
  <2>1. /\ q.kind = "submit" /\ submission[r].status = "absent" /\ End(h) /\ UNCHANGED reference
        /\ PutSubmissions([submission EXCEPT ![r] = row])
    BY <1>6 DEF SubmitInsert, Doing
  <2>2. q.org \in Places /\ q.person \in People /\ q.file \in Files
    BY <2>1 DEF VerificationInv, VerificationTypeOK, VerificationRequests, Idle
  <2>3. s \in Places /\ MatchOf(s) \in {"not_attempted", "manual_review"}
    BY <1>4, <2>2
  <2>4. q.auto => Shows(q) \in vouched
    BY <2>1 DEF VerificationInv, VouchedFor, Doing
  <2> HIDE DEF q, s
  <2>5. row \in SubmissionRows
    BY <2>2, <2>3 DEF SubmissionRows, VerifiedStatuses
  <2>6. row.status = "auto_verified" => Shows(row) \in vouched
    BY <2>4 DEF Shows
  <2>7. row.status # "absent" /\ Listed(row)
    BY <2>3 DEF Listed
  <2>8. submission[r].status \notin Closed \union {"verified", "unverified"}
    BY <2>1 DEF Closed
  <2> HIDE DEF row
  <2> QED BY <1>3, <2>1, <2>5, <2>6, <2>7, <2>8
<1>7. ASSUME NEW o \in Orgs, NEW p \in People, ChangeReference(o, p) PROVE Goal
  <2>1. SubmitsStay
    BY <1>7 DEF ChangeReference, VerificationInv, VerificationTypeOK, SubmitsStay
  <2>2. reference' \subseteq Orgs \X People
    BY <1>0, <1>7 DEF ChangeReference
  <2> QED BY <1>7, <2>1, <2>2, SubmissionsStay DEF ChangeReference
<1>8. ASSUME NEW h \in Requests, NEW r \in Submissions, NEW outcome \in MatchOutcomes,
             MatchRead(h, r, outcome)
      PROVE  Goal
  <2>1. [kind |-> "match", row |-> r, outcome |-> outcome] \in VerificationRequests
    BY DEF VerificationRequests
  <2> QED BY <1>1, <1>8, <2>1 DEF MatchRead
<1>9. ASSUME NEW h \in Requests, MatchWrite(h) PROVE Goal
  <2> DEFINE q == request[h].row
             old == submission[q]
             approved == [old EXCEPT !.match = "auto_matched", !.status = "auto_verified"]
             reviewed == [old EXCEPT !.match = "manual_review"]
             forgotten == [old EXCEPT !.match = "manual_review", !.staged = NoOrg]
             row == Matched(old, request[h].outcome)
  <2>1. q \in Submissions /\ request[h].outcome \in MatchOutcomes
    BY <1>9 DEF MatchWrite, Doing, VerificationInv, VerificationTypeOK, VerificationRequests, Idle
  <2>2. CASE ~StillOpen(q)
    BY <1>2, <1>9, <2>2 DEF MatchWrite, verificationVars
  <2>3. CASE StillOpen(q)
    <3>1. PutSubmissions([submission EXCEPT ![q] = row]) /\ End(h) /\ UNCHANGED reference
      BY <1>9, <2>3 DEF MatchWrite
    <3>2. /\ old \in SubmissionRows /\ old.status = "under_review"
          /\ Listed(old) /\ (old.queued \/ old.org # NoOrg)
      BY <2>1, <2>3, FiledRows DEF StillOpen, VerificationInv, OpenIsListed, Listed
    <3>3. \A new \in {reviewed, forgotten} :
            /\ new \in SubmissionRows /\ new.status = "under_review"
            /\ new.queued = old.queued /\ new.org = old.org
            /\ new.match = "manual_review"
      BY <3>2 DEF SubmissionRows, Places
    <3>4. /\ approved \in SubmissionRows /\ approved.status = "auto_verified"
          /\ approved.queued = old.queued /\ approved.org = old.org
      BY <3>2 DEF SubmissionRows, Places, VerifiedStatuses
    <3>5. row \in {old, approved, reviewed, forgotten}
      BY <2>1 DEF Matched, MatchOutcomes, AutoApproved
    <3> HIDE DEF row, approved, reviewed, forgotten
    <3>6. row \in SubmissionRows /\ Listed(row)
      BY <3>2, <3>3, <3>4, <3>5 DEF Listed
    <3>7. row.status # "absent"
      BY <3>2, <3>3, <3>4, <3>5
    <3> QED BY <1>3, <2>1, <3>1, <3>2, <3>6, <3>7 DEF Closed
  <2> QED BY <2>2, <2>3
<1>10. ASSUME NEW h \in Requests, NEW r \in Submissions, NEW o \in Places, NEW f \in Files,
              EditRequestRead(h, r, o, f)
       PROVE  Goal
  <2> DEFINE row == submission[r]
             s == Staged(o, row.person)
             match == IF row.org # o THEN MatchOf(s) ELSE row.match
             staged == IF row.org # o THEN s ELSE row.staged
             q == [kind |-> "editRequest", row |-> r, org |-> o, file |-> f, match |-> match,
                   staged |-> staged]
  <2>1. Begin(h, q) /\ UNCHANGED verificationVars
    BY <1>10 DEF EditRequestRead
  <2>2. row \in SubmissionRows /\ row.status = "under_review"
    BY <1>10, FiledRows DEF EditRequestRead
  <2>3. s \in Places /\ MatchOf(s) \in {"not_attempted", "manual_review"}
    BY <1>4, <2>2 DEF SubmissionRows
  <2>4. row.match # "auto_matched"
    BY <2>2 DEF VerificationInv, OpenIsListed, Listed
  <2>5. match \in {"not_attempted", "manual_review"} /\ staged \in Places
    BY <2>2, <2>3, <2>4 DEF SubmissionRows
  <2> HIDE DEF match, staged
  <2>6. q \in VerificationRequests /\ q.kind = "editRequest"
    BY <2>5 DEF VerificationRequests
  <2> HIDE DEF q
  <2> QED BY <1>1, <2>1, <2>6
<1>11. ASSUME NEW h \in Requests, EditRequestWrite(h) PROVE Goal
  <2> DEFINE q == request[h]
             old == submission[q.row]
             queued == q.org = NoOrg
             row == [old EXCEPT !.org = q.org, !.queued = queued, !.file = q.file,
                                !.match = q.match, !.staged = q.staged]
  <2>1. q \in VerificationRequests /\ q.kind = "editRequest"
    BY <1>11 DEF EditRequestWrite, Doing, VerificationInv, VerificationTypeOK, Idle
  <2>2. /\ q.row \in Submissions /\ q.org \in Places /\ q.file \in Files
        /\ q.match \in {"not_attempted", "manual_review"} /\ q.staged \in Places
    BY <2>1 DEF VerificationRequests
  <2>3. CASE q.row \notin Filed
    BY <1>2, <1>11, <2>3 DEF EditRequestWrite, verificationVars
  <2>4. CASE q.row \in Filed
    <3>1. PutSubmissions([submission EXCEPT ![q.row] = row]) /\ End(h) /\ UNCHANGED reference
      BY <1>11, <2>4 DEF EditRequestWrite
    <3>2. old \in SubmissionRows /\ old.status \notin Gone /\ queued \in BOOLEAN
      BY <2>4, FiledRows DEF Filed
    <3> HIDE DEF q
    <3>3. /\ row \in SubmissionRows /\ row.status = old.status /\ row.match # "auto_matched"
          /\ row.org = q.org /\ row.queued = queued
      BY <2>2, <3>2 DEF SubmissionRows
    <3>4. Listed(row)
      BY <3>3 DEF Listed
    <3> HIDE DEF row
    <3> QED BY <1>3, <2>2, <3>1, <3>2, <3>3, <3>4 DEF Gone
  <2> QED BY <2>3, <2>4
<1>12. ASSUME NEW h \in Requests, NEW r \in Submissions, NEW kept, DeleteRead(h, r, kept)
       PROVE  Goal
  <2>1. [kind |-> "deleteRequest", row |-> r] \in VerificationRequests
    BY DEF VerificationRequests
  <2> QED BY <1>1, <1>12, <2>1 DEF DeleteRead
<1>13. ASSUME NEW h \in Requests, DeleteRequestWrite(h) PROVE Goal
  <2> DEFINE q == request[h].row
             row == [status |-> "deleted"]
  <2>1. q \in Submissions
    BY <1>13 DEF DeleteRequestWrite, Doing, VerificationInv, VerificationTypeOK,
                 VerificationRequests, Idle
  <2>2. row \in [status : Gone] /\ row.status = "deleted" /\ Listed(row)
    BY DEF Gone, Listed
  <2>3. PutSubmissions([submission EXCEPT ![q] = row]) /\ End(h) /\ UNCHANGED reference
    BY <1>13 DEF DeleteRequestWrite
  <2> HIDE DEF q, row
  <2> QED BY <1>3, <2>1, <2>2, <2>3 DEF Closed
<1>14. ASSUME NEW h \in Requests, NEW r \in Submissions, NEW status \in {"verified", "unverified"},
              NEW unqueue \in {"never", "now", "later"}, DecideRead(h, r, status, unqueue)
       PROVE  Goal
  <2> DEFINE way == IF status = "verified" THEN unqueue ELSE "never"
             q == [kind |-> "decide", row |-> r, status |-> status, step |-> "write",
                   unqueue |-> way]
  <2>1. q \in VerificationRequests
    BY DEF VerificationRequests
  <2> QED BY <1>1, <1>14, <2>1 DEF DecideRead, Filed, Gone
<1>15. ASSUME NEW h \in Requests, NEW r \in Submissions, NEW status \in {"verified", "unverified"},
              \/ VerifyRequest(h, r, status) \/ AdminActOnSlaRequest(h, r, status)
              \/ AdminVerifyUnmatched(h, r, status)
       PROVE  Goal
  BY <1>14, <1>15 DEF VerifyRequest, AdminActOnSlaRequest, AdminVerifyUnmatched
<1>16. ASSUME NEW o \in Orgs, AssignUnmatched(o) PROVE Goal
  <2> DEFINE row(r) == IF /\ r \in Filed /\ submission[r].queued
                          /\ submission[r].status = "under_review"
                       THEN [submission[r] EXCEPT !.org = o] ELSE submission[r]
             new == [r \in Submissions |-> row(r)]
  <2>1. PutSubmissions(new) /\ UNCHANGED <<reference, request>>
    BY <1>16 DEF AssignUnmatched
  <2>2. ASSUME NEW r \in Submissions
        PROVE  /\ row(r) \in [status : Gone] \union SubmissionRows
               /\ row(r).status = submission[r].status
               /\ Listed(row(r))
               /\ row(r).status # "under_review" => row(r) = submission[r]
    <3>1. submission[r] \in [status : Gone] \union SubmissionRows /\ Listed(submission[r])
      BY FiledRows DEF VerificationInv, OpenIsListed
    <3>2. CASE r \in Filed /\ submission[r].queued /\ submission[r].status = "under_review"
      <4>1. submission[r] \in SubmissionRows /\ row(r) = [submission[r] EXCEPT !.org = o]
        BY <3>2, FiledRows
      <4>2. /\ row(r) \in SubmissionRows /\ row(r).status = submission[r].status
            /\ row(r).org = o /\ row(r).match = submission[r].match
        BY <4>1 DEF SubmissionRows, Places
      <4> QED BY <3>1, <3>2, <4>2 DEF Listed
    <3>3. CASE ~(r \in Filed /\ submission[r].queued /\ submission[r].status = "under_review")
      BY <3>1, <3>3
    <3> QED BY <3>2, <3>3
  <2>3. /\ new \in [Submissions -> [status : Gone] \union SubmissionRows]
        /\ \A r \in Submissions :
             /\ submission[r].status \in Closed => new[r].status \in Closed
             /\ submission[r].status # "absent" => new[r].status # "absent"
             /\ Listed(new[r])
             /\ submission[r].status = "absent" /\ new[r].status = "auto_verified" =>
                  Shows(new[r]) \in vouched
             /\ submission[r].status \in {"verified", "unverified"} => new[r].status # "auto_verified"
    <3> HIDE DEF row
    <3> QED BY <2>2
  <2>4. SubmitsStay
    BY <2>1 DEF VerificationInv, VerificationTypeOK, SubmitsStay
  <2> HIDE DEF new
  <2> QED BY <2>1, <2>3, <2>4, SubmissionsWritten
<1>17. ASSUME NEW h \in Requests, DecideRequestWrite(h) PROVE Goal
  <2> DEFINE q == request[h]
             old == submission[q.row]
             queued == old.queued /\ q.unqueue # "now"
             row == [old EXCEPT !.status = q.status, !.queued = queued]
             r == [q EXCEPT !.step = "unqueue"]
  <2>1. q \in VerificationRequests /\ q.kind = "decide"
    BY <1>17 DEF DecideRequestWrite, Doing, VerificationInv, VerificationTypeOK, Idle
  <2>2. q.row \in Submissions /\ q.status \in {"verified", "unverified"}
    BY <2>1 DEF VerificationRequests
  <2>3. r \in VerificationRequests /\ r.kind = "decide" /\ r.row = q.row
    BY <2>1 DEF VerificationRequests
  <2>4. submission[q.row].status # "absent"
    BY <2>1 DEF VerificationInv, LateToUnqueue, Doing
  <2>5. (q.row \in Filed /\ PutSubmissions([submission EXCEPT ![q.row] = row]))
          \/ (q.row \notin Filed /\ UNCHANGED <<submission, vouched>>)
    BY <1>17 DEF DecideRequestWrite
  <2>6. Go(h, r) \/ End(h)
    BY <1>17 DEF DecideRequestWrite
  <2>7. UNCHANGED reference
    BY <1>17 DEF DecideRequestWrite
  <2>8. q.row \in Filed => /\ old \in SubmissionRows /\ queued \in BOOLEAN
                           /\ row \in SubmissionRows /\ row.status = q.status
    <3> SUFFICES ASSUME q.row \in Filed
                 PROVE  /\ old \in SubmissionRows /\ queued \in BOOLEAN
                        /\ row \in SubmissionRows /\ row.status = q.status
      OBVIOUS
    <3>1. old \in SubmissionRows
      BY <2>2, FiledRows
    <3>2. queued \in BOOLEAN
      BY <3>1 DEF SubmissionRows
    <3> HIDE DEF queued, q
    <3> QED BY <2>2, <3>1, <3>2 DEF SubmissionRows, VerifiedStatuses
  <2> DEFINE after == IF q.row \in Filed THEN row ELSE old
  <2>9. /\ after \in [status : Gone] \union SubmissionRows
        /\ after.status \in Closed /\ after.status # "absent" /\ after.status # "auto_verified"
        /\ Listed(after)
    BY <2>2, <2>4, <2>8, FiledRows DEF Closed, Listed, Gone
  <2>10. /\ submission' \in [Submissions -> [status : Gone] \union SubmissionRows]
         /\ \A s \in Submissions : submission'[s] = IF s = q.row THEN after ELSE submission[s]
    BY <2>2, <2>5, <2>9 DEF PutSubmissions, VerificationInv, VerificationTypeOK
  <2>11. /\ vouched \subseteq vouched' /\ vouched' \subseteq Orgs \X People \X Files
         /\ \A s \in Submissions :
              submission'[s].status \in VerifiedStatuses /\ submission'[s].org # NoOrg
                => Shows(submission'[s]) \in vouched'
    <3>1. CASE q.row \in Filed
      <4> DEFINE new == [submission EXCEPT ![q.row] = row]
      <4>1. PutSubmissions(new)
        BY <2>5, <3>1
      <4>2. submission' = new
        BY <4>1 DEF PutSubmissions
      <4> HIDE DEF new
      <4> QED BY <2>10, <4>1, <4>2, Vouching
    <3>2. CASE q.row \notin Filed
      BY <2>5, <3>2 DEF VerificationInv, VerificationTypeOK, VouchedFor
    <3> QED BY <3>1, <3>2
  <2>12. /\ request' \in [Requests -> {Idle} \union VerificationRequests]
         /\ \A g \in Requests : request'[g] \in IF g = h THEN {r, Idle} ELSE {request[g]}
    <3> HIDE DEF r, q
    <3> QED BY <2>3, <2>6 DEF Go, End, VerificationInv, VerificationTypeOK
  <2> HIDE DEF after, row, r
  <2>13. RowsMove
    BY <2>4, <2>9, <2>10 DEF RowsMove
  <2>14. VerificationTypeOK' /\ OpenIsListed'
    BY <2>7, <2>9, <2>10, <2>11, <2>12 DEF VerificationInv, VerificationTypeOK, OpenIsListed
  <2>15. VouchedFor'
    <3>1. ASSUME NEW g \in Requests, request'[g].kind = "submit", request'[g].auto
          PROVE  Shows(request'[g]) \in vouched'
      <4>1. request'[g] = request[g]
        BY <2>3, <2>12, <3>1 DEF Idle
      <4> QED BY <2>11, <3>1, <4>1 DEF VerificationInv, VouchedFor, Doing
    <3> QED BY <2>11, <3>1 DEF VouchedFor, Doing, Shows
  <2>16. LateToUnqueue'
    <3> SUFFICES ASSUME NEW g \in Requests, request'[g].kind = "decide"
                 PROVE  LET status == submission'[request'[g].row].status
                        IN status # "absent" /\ (request'[g].step = "unqueue" => status \in Closed)
      BY DEF LateToUnqueue, Doing
    <3>1. CASE g = h
      BY <2>2, <2>3, <2>9, <2>10, <2>12, <3>1 DEF Idle
    <3>2. CASE g # h
      <4>1. request'[g] = request[g]
        BY <2>12, <3>2
      <4>2. request[g].row \in Submissions
        BY <4>1 DEF VerificationInv, VerificationTypeOK, VerificationRequests, Idle
      <4>3. LET status == submission[request[g].row].status
            IN status # "absent" /\ (request[g].step = "unqueue" => status \in Closed)
        BY <4>1 DEF VerificationInv, LateToUnqueue, Doing
      <4> QED BY <2>9, <2>10, <4>1, <4>2, <4>3
    <3> QED BY <3>1, <3>2
  <2> QED BY <2>13, <2>14, <2>15, <2>16 DEF VerificationInv
<1>18. ASSUME NEW h \in Requests, DecideRequestUnqueue(h) PROVE Goal
  <2> DEFINE q == request[h].row
             old == submission[q]
             row == [old EXCEPT !.queued = FALSE]
  <2>1. q \in Submissions /\ old.status \in Closed
    BY <1>18 DEF DecideRequestUnqueue, Doing, VerificationInv, VerificationTypeOK, LateToUnqueue,
                 VerificationRequests, Idle
  <2>2. CASE q \in Filed
    <3>1. old \in SubmissionRows
      BY <2>1, <2>2, FiledRows
    <3>2. row \in SubmissionRows /\ row.status = old.status
      BY <3>1 DEF SubmissionRows
    <3>3. Listed(row) /\ row.status # "absent" /\ row.status # "auto_verified"
      BY <2>1, <3>2 DEF Listed, Closed
    <3>4. PutSubmissions([submission EXCEPT ![q] = row]) /\ End(h) /\ UNCHANGED reference
      BY <1>18, <2>2 DEF DecideRequestUnqueue
    <3> HIDE DEF row
    <3> QED BY <1>3, <2>1, <3>2, <3>3, <3>4
  <2>3. CASE q \notin Filed
    BY <1>2, <1>18, <2>3 DEF DecideRequestUnqueue, verificationVars
  <2> QED BY <2>2, <2>3
<1>19. ASSUME NEW h \in Requests, Abandon(h), UNCHANGED verificationVars PROVE Goal
  BY <1>2, <1>19 DEF Abandon
<1>20. CASE UNCHANGED <<request, verificationVars>>
  <2>1. SubmitsStay
    BY <1>20 DEF VerificationInv, VerificationTypeOK, SubmitsStay
  <2> QED BY <1>0, <1>20, <2>1, SubmissionsStay DEF verificationVars
<1> HIDE DEF Goal
<1>21. Goal
  <2>1. ASSUME NEW h \in Requests, NEW r \in Submissions,
               DeleteMySentRequest(h, r) \/ DeleteRequest(h, r)
        PROVE  Goal
    BY <1>12, <2>1 DEF DeleteMySentRequest, DeleteRequest
  <2>2. ASSUME NEW h \in Requests,
               \E r \in Submissions :
                 \/ SubmitInsert(h, r) \/ DeleteMySentRequest(h, r) \/ DeleteRequest(h, r)
                 \/ \E outcome \in MatchOutcomes : MatchRead(h, r, outcome)
                 \/ \E o \in Places, f \in Files : EditRequestRead(h, r, o, f)
                 \/ \E status \in {"verified", "unverified"} :
                      \/ VerifyRequest(h, r, status)
                      \/ AdminActOnSlaRequest(h, r, status)
                      \/ AdminVerifyUnmatched(h, r, status)
        PROVE  Goal
    BY <1>6, <1>8, <1>10, <1>15, <2>1, <2>2
  <2>3. CASE \E o \in Orgs : AssignUnmatched(o) \/ (\E p \in People : ChangeReference(o, p))
    BY <1>7, <1>16, <2>3
  <2>4. ASSUME NEW h \in Requests,
               \/ \E o \in Places, p \in People, f \in Files : SubmitRead(h, o, p, f)
               \/ MatchWrite(h) \/ EditRequestWrite(h) \/ DeleteRequestWrite(h)
               \/ DecideRequestWrite(h) \/ DecideRequestUnqueue(h)
               \/ Abandon(h) /\ UNCHANGED verificationVars
        PROVE  Goal
    BY <1>5, <1>9, <1>11, <1>13, <1>17, <1>18, <1>19, <2>4
  <2>5. CASE VerificationNext
    BY <2>2, <2>3, <2>4, <2>5 DEF VerificationNext
  <2> QED BY <1>20, <2>5 DEF Goal
<1> QED BY <1>21 DEF Goal

LEMMA VerificationInvariant == VerificationSpec => []VerificationInv
<1>1. ServerInit /\ VerificationInit => VerificationInv
  BY InitVerification
<1>2. VerificationInv /\ [VerificationNext]_<<request, verificationVars>> => VerificationInv'
  BY StepVerification
<1> QED BY <1>1, <1>2, PTL DEF VerificationSpec

\* Every request that waits, or was decided by nobody, is on some page
\* (myInboxRequests, listNullOrganizationRequests).
THEOREM EveryRequestIsListed == VerificationSpec => []NothingFallsBetween
<1>1. VerificationInv => NothingFallsBetween
  BY ListedInQueues
<1> QED BY <1>1, VerificationInvariant, PTL

\* Only what the same person has shown before is born verified (createRequest).
THEOREM RepeatIsVouchedFor == VerificationSpec => RepeatOfSamePerson
<1>1. VerificationInv /\ [VerificationNext]_<<request, verificationVars>> =>
        [\A r \in Submissions :
           (submission[r].status = "absent" /\ submission'[r].status = "auto_verified")
             => <<submission'[r].org, submission'[r].person, submission'[r].file>> \in vouched
        ]_submission
  BY StepVerification DEF RowsMove, Shows
<1> QED BY <1>1, VerificationInvariant, PTL DEF VerificationSpec, RepeatOfSamePerson

\* The matcher overwrites nobody's decision (runAutoMatchChecks).
THEOREM DecisionStands == VerificationSpec => HumanDecisionStands
<1>1. VerificationInv /\ [VerificationNext]_<<request, verificationVars>> =>
        [\A r \in Submissions : submission[r].status \in {"verified", "unverified"} =>
           submission'[r].status # "auto_verified"]_submission
  BY StepVerification DEF RowsMove
<1> QED BY <1>1, VerificationInvariant, PTL DEF VerificationSpec, HumanDecisionStands

----------------------------------------------------------------------------
\* The quota, for every quota, every number of requests and every bound on a day.

\* QuotaKept is not inductive: a transaction counts on what it read, so nobody
\* else may have counted in between, and what it read was below a quota that was
\* in force since the row was begun.
QuotaInv ==
  /\ RequestQuotaTypeOK
  /\ QuotaKept
  /\ quota <= largestQuota
  /\ \A g, h \in Requests : Doing(g, "consume") /\ Doing(h, "consume") => g = h
  /\ \A h \in Requests : Doing(h, "consume") =>
       IF request[h].paid THEN usage.used < largestQuota ELSE usage.total = 0

LEMMA QuotasAreNat == Quotas \subseteq Nat /\ 0 \in Quotas
BY QuotaAssumption DEF Quotas

\* The empty row of a day: nothing used, nothing created.
LEMMA EmptyDay ==
  /\ NoUsage \in [used : Nat, total : Nat]
  /\ NoUsage.used = 0 /\ NoUsage.total = 0
  /\ NothingToday \in [paid : Nat, free : Nat]
  /\ NothingToday.paid = 0 /\ NothingToday.free = 0
BY DEF NoUsage, NothingToday

LEMMA InitQuota == ASSUME ServerInit, RequestQuotaInit PROVE QuotaInv
BY EmptyDay, QuotasAreNat
DEF ServerInit, RequestQuotaInit, QuotaInv, RequestQuotaTypeOK, QuotaKept, Idle, Doing

\* While nobody holds the lock, a row that agrees with its history keeps the
\* invariant: one that has just begun, or the old one under another quota.
LEMMA UnheldUsage ==
  ASSUME QuotaInv, OrganizationUnlocked, UNCHANGED request, quota' \in Quotas,
         \/ BeginRow
         \/ /\ UNCHANGED <<usage, createdToday>>
            /\ largestQuota' = IF quota' > largestQuota THEN quota' ELSE largestQuota
  PROVE  QuotaInv'
<1>1. quota' \in Nat /\ quota' \in Quotas /\ largestQuota \in Nat /\ largestQuota \in Quotas
  BY QuotasAreNat DEF QuotaInv, RequestQuotaTypeOK
<1>2. /\ largestQuota' \in Quotas /\ largestQuota' \in Nat /\ quota' <= largestQuota'
      /\ BeginRow \/ largestQuota <= largestQuota'
  BY <1>1 DEF BeginRow
<1>3. RequestQuotaTypeOK'
  BY <1>1, <1>2, EmptyDay DEF QuotaInv, RequestQuotaTypeOK, BeginRow
<1>4. QuotaKept'
  <2>1. CASE BeginRow
    BY <1>2, <2>1, EmptyDay DEF BeginRow, QuotaKept
  <2>2. CASE UNCHANGED <<usage, createdToday>> /\ largestQuota <= largestQuota'
    BY <1>1, <1>2, <2>2 DEF QuotaInv, RequestQuotaTypeOK, QuotaKept
  <2> QED BY <1>2, <2>1, <2>2
<1>5. \A h \in Requests : ~Doing(h, "consume")'
  BY DEF OrganizationUnlocked, Doing
<1> QED BY <1>2, <1>3, <1>4, <1>5 DEF QuotaInv

LEMMA ConsumeKeeps ==
  ASSUME QuotaInv, NEW h \in Requests, ConsumeQuota(h) PROVE QuotaInv'
<1> DEFINE r == [kind |-> "consume", paid |-> Entitled]
<1>1. r \in [kind : {"consume"}, paid : BOOLEAN]
  BY DEF Entitled
<1>2. /\ request' = [request EXCEPT ![h] = r]
      /\ UNCHANGED <<quota, usage, createdToday, largestQuota>>
  BY DEF ConsumeQuota, Begin, quotaVars
<1>3. \A g \in Requests : request'[g] = IF g = h THEN r ELSE request[g]
  BY <1>2 DEF QuotaInv, RequestQuotaTypeOK
<1>4. RequestQuotaTypeOK'
  BY <1>1, <1>2 DEF QuotaInv, RequestQuotaTypeOK
<1>5. QuotaKept' /\ (quota <= largestQuota)'
  BY <1>2 DEF QuotaInv, QuotaKept
<1>6. \A g \in Requests : Doing(g, "consume")' => g = h
  BY <1>3 DEF ConsumeQuota, OrganizationUnlocked, Doing
<1>7. IF r.paid THEN usage.used < largestQuota ELSE usage.total = 0
  <2>1. usage.used \in Nat /\ quota \in Nat /\ largestQuota \in Nat /\ quota <= largestQuota
    BY QuotasAreNat DEF QuotaInv, RequestQuotaTypeOK
  <2> QED BY <2>1 DEF ConsumeQuota, Allowed
<1>8. \A g \in Requests : Doing(g, "consume")' =>
        IF request'[g].paid THEN usage'.used < largestQuota' ELSE usage'.total = 0
  BY <1>2, <1>3, <1>6, <1>7
<1> QED BY <1>4, <1>5, <1>6, <1>8 DEF QuotaInv, Doing

\* A request that ends, having counted once or not at all.
LEMMA EndKeepsUsage ==
  ASSUME QuotaInv, NEW h \in Requests, End(h), UNCHANGED <<quota, largestQuota>>,
         \/ UNCHANGED <<usage, createdToday>>
         \/ Doing(h, "consume") /\ RequestQuotaTypeOK' /\ QuotaKept'
  PROVE  QuotaInv'
<1>1. \A g \in Requests : request'[g] = IF g = h THEN Idle ELSE request[g]
  BY DEF End, QuotaInv, RequestQuotaTypeOK
<1>2. \A g \in Requests : Doing(g, "consume")' => g # h /\ Doing(g, "consume") /\ request'[g] = request[g]
  BY <1>1 DEF Doing, Idle
<1>3. RequestQuotaTypeOK' /\ QuotaKept'
  BY DEF End, QuotaInv, RequestQuotaTypeOK, QuotaKept
<1>4. \A f, g \in Requests : (Doing(f, "consume") /\ Doing(g, "consume"))' => f = g
  BY <1>2 DEF QuotaInv
<1>5. ASSUME NEW g \in Requests, Doing(g, "consume")'
      PROVE  IF request'[g].paid THEN usage'.used < largestQuota' ELSE usage'.total = 0
  BY <1>2, <1>5 DEF QuotaInv
<1> QED BY <1>3, <1>4, <1>5 DEF QuotaInv

LEMMA CommitKeeps ==
  ASSUME QuotaInv, NEW h \in Requests, CommitCreation(h) PROVE QuotaInv'
<1> USE DEF QuotaInv
<1>1. /\ usage \in [used : Nat, total : Nat] /\ createdToday \in [paid : Nat, free : Nat]
      /\ largestQuota \in Nat
      /\ QuotaKept
  BY QuotasAreNat DEF RequestQuotaTypeOK
<1>2. request' \in [Requests -> {Idle} \union [kind : {"consume"}, paid : BOOLEAN]]
  BY DEF CommitCreation, End, RequestQuotaTypeOK
<1>3. CASE request[h].paid
  <2>1. /\ usage' = [usage EXCEPT !.used = @ + 1, !.total = @ + 1]
        /\ createdToday' = [createdToday EXCEPT !.paid = @ + 1]
        /\ UNCHANGED <<quota, largestQuota>>
    BY <1>3 DEF CommitCreation
  <2>2. usage.used < largestQuota
    BY <1>3 DEF CommitCreation
  <2>3. QuotaKept'
    BY <1>1, <2>1, <2>2 DEF QuotaKept
  <2>4. usage' \in [used : Nat, total : Nat] /\ createdToday' \in [paid : Nat, free : Nat]
    <3>1. usage.used \in Nat /\ usage.total \in Nat /\ createdToday \in [paid : Nat, free : Nat]
      BY <1>1
    <3>2. usage' = [used |-> usage.used + 1, total |-> usage.total + 1]
      BY <1>1, <2>1
    <3> QED BY <2>1, <3>1, <3>2
  <2>5. RequestQuotaTypeOK'
    BY <1>2, <2>1, <2>4 DEF RequestQuotaTypeOK
  <2> QED BY <2>1, <2>3, <2>5, EndKeepsUsage DEF CommitCreation
<1>4. CASE ~request[h].paid
  <2>1. /\ usage' = [usage EXCEPT !.total = 1]
        /\ createdToday' = [createdToday EXCEPT !.free = @ + 1]
        /\ UNCHANGED <<quota, largestQuota>>
    BY <1>4 DEF CommitCreation
  <2>2. usage.total = 0
    BY <1>4 DEF CommitCreation
  <2>3. QuotaKept'
    BY <1>1, <2>1, <2>2 DEF QuotaKept
  <2>4. usage' \in [used : Nat, total : Nat] /\ createdToday' \in [paid : Nat, free : Nat]
    BY <1>1, <2>1
  <2>5. RequestQuotaTypeOK'
    BY <1>2, <2>1, <2>4 DEF RequestQuotaTypeOK
  <2> QED BY <2>1, <2>3, <2>5, EndKeepsUsage DEF CommitCreation
<1> QED BY <1>3, <1>4

\* The end of a paid period is the one change that waits for no lock; what was
\* allowed before it stays allowed.
LEMMA LapseKeeps == ASSUME QuotaInv, PlanLapses PROVE QuotaInv'
<1>1. largestQuota \in Nat
  BY QuotasAreNat DEF QuotaInv, RequestQuotaTypeOK
<1> QED BY <1>1, QuotasAreNat
        DEF QuotaInv, PlanLapses, RequestQuotaTypeOK, QuotaKept, Doing

LEMMA StepQuota ==
  ASSUME QuotaInv, [RequestQuotaNext]_<<request, quotaVars>> PROVE QuotaInv'
<1>1. ASSUME NEW q \in Quotas, ActivatePlan(q) PROVE QuotaInv'
  BY <1>1, UnheldUsage DEF ActivatePlan
<1>2. CASE PlanLapses
  BY <1>2, LapseKeeps
<1>3. CASE NextDay
  BY <1>3, UnheldUsage DEF NextDay, QuotaInv, RequestQuotaTypeOK
<1>4. ASSUME NEW q \in Quotas, SweepPlan(q) \/ EditPlanQuota(q) PROVE QuotaInv'
  BY <1>4, UnheldUsage DEF SweepPlan, EditPlanQuota, QuotaBecomes
<1>5. ASSUME NEW h \in Requests, ConsumeQuota(h) PROVE QuotaInv'
  BY <1>5, ConsumeKeeps
<1>6. ASSUME NEW h \in Requests, CommitCreation(h) PROVE QuotaInv'
  BY <1>6, CommitKeeps
<1>7. ASSUME NEW h \in Requests, Abandon(h), UNCHANGED quotaVars PROVE QuotaInv'
  BY <1>7, EndKeepsUsage DEF Abandon, quotaVars
<1>8. CASE UNCHANGED <<request, quotaVars>>
  BY <1>8 DEF QuotaInv, RequestQuotaTypeOK, QuotaKept, Doing, quotaVars
<1> QED BY <1>1, <1>2, <1>3, <1>4, <1>5, <1>6, <1>7, <1>8 DEF RequestQuotaNext

\* The invariant holds in every state of enforceRequestQuota.
THEOREM QuotaInvariant == RequestQuotaSpec => []QuotaInv
BY InitQuota, StepQuota, PTL DEF RequestQuotaSpec

\* The quota of a plan is never exceeded and no slot is lost or burnt, however
\* many requests count at once (enforceRequestQuota).
THEOREM QuotaIsKept == RequestQuotaSpec => []QuotaKept
<1>1. QuotaInv => QuotaKept
  BY DEF QuotaInv
<1> QED BY <1>1, QuotaInvariant, PTL

----------------------------------------------------------------------------
\* Custom plans.

\* An approved request names the plan that its approval made, which is what the
\* organization pays for when it asks to pay again.
ApprovedHasPlan == \A w \in Wishes : wish[w].status = "approved" => wish[w].plan \in Checkouts

\* A session, open or about to be, is of a row that was inserted before.
SessionHasRow ==
  /\ \A c \in Checkouts : checkout[c].tracker => checkout[c].status # "none"
  /\ \A h \in Requests : Doing(h, "openSession") => checkout[request[h].checkout].status # "none"

CustomPlanInv == CustomPlanTypeOK /\ OnePendingCheckout /\ ApprovedHasPlan /\ SessionHasRow

LEMMA InitCustomPlan == ASSUME ServerInit, CustomPlanInit PROVE CustomPlanInv
BY DEF ServerInit, CustomPlanInit, CustomPlanInv, CustomPlanTypeOK, OnePendingCheckout,
       ApprovedHasPlan, SessionHasRow, NoCheckout, Doing, Idle, WishRows, CheckoutRows

\* A request begins, goes on or ends; the rows stay.
LEMMA CustomPlanRowsStay ==
  ASSUME CustomPlanInv, NEW h \in Requests, NEW r \in {Idle} \union CustomPlanRequests,
         r.kind # "openSession", request' = [request EXCEPT ![h] = r], UNCHANGED customPlanVars
  PROVE  CustomPlanInv'
<1>1. \A g \in Requests : request'[g] = IF g = h THEN r ELSE request[g]
  BY DEF CustomPlanInv, CustomPlanTypeOK
<1>2. SessionHasRow'
  BY <1>1 DEF CustomPlanInv, SessionHasRow, Doing, customPlanVars
<1>3. CustomPlanTypeOK' /\ OnePendingCheckout' /\ ApprovedHasPlan'
  BY DEF CustomPlanInv, CustomPlanTypeOK, OnePendingCheckout, ApprovedHasPlan, customPlanVars
<1> QED BY <1>2, <1>3 DEF CustomPlanInv

\* A request that has ended has no session to open.
LEMMA EndedSession ==
  ASSUME CustomPlanTypeOK, NEW h \in Requests, End(h) PROVE
    \A g \in Requests : Doing(g, "openSession")' =>
      g # h /\ Doing(g, "openSession") /\ request'[g] = request[g]
<1>1. \A g \in Requests : request'[g] = IF g = h THEN Idle ELSE request[g]
  BY DEF CustomPlanTypeOK, End
<1> QED BY <1>1 DEF Doing, Idle

\* One request for a plan is written.
LEMMA WishWritten ==
  ASSUME CustomPlanInv, NEW h \in Requests, End(h), NEW w \in Wishes, NEW row \in WishRows,
         wish' = [wish EXCEPT ![w] = row], row.status # "approved", UNCHANGED checkout
  PROVE  CustomPlanInv'
<1>1. CustomPlanTypeOK' /\ ApprovedHasPlan'
  BY DEF CustomPlanInv, CustomPlanTypeOK, ApprovedHasPlan, End
<1>2. OnePendingCheckout'
  BY DEF CustomPlanInv, OnePendingCheckout
<1>3. SessionHasRow'
  BY EndedSession DEF CustomPlanInv, SessionHasRow
<1> QED BY <1>1, <1>2, <1>3 DEF CustomPlanInv

\* A new checkout takes the place of those that were waiting to be paid.
LEMMA OpeningCheckout ==
  ASSUME CustomPlanInv, NEW h \in Requests, NEW c \in Checkouts, NEW old \in Checkouts,
         NEW stale, OpenCheckout(h, c, old, stale),
         stale \subseteq Pending, wish' \in [Wishes -> WishRows], ApprovedHasPlan'
  PROVE  CustomPlanInv'
<1> DEFINE new   == [status |-> "pending", tracker |-> FALSE, plan |-> old]
           ended == EndPending(stale)
<1>1. new \in CheckoutRows
  BY DEF CheckoutRows
<1>2. ended \in [Checkouts -> CheckoutRows]
      /\ \A d \in Checkouts : /\ ended[d].status # "pending"
                              /\ checkout[d].status = "none" <=> ended[d].status = "none"
                              /\ ended[d].tracker = checkout[d].tracker
  <2>1. ASSUME NEW d \in Checkouts
        PROVE  /\ ended[d] \in CheckoutRows /\ ended[d].status # "pending"
               /\ checkout[d].status = "none" <=> ended[d].status = "none"
               /\ ended[d].tracker = checkout[d].tracker
    <3>1. checkout[d] \in CheckoutRows
      BY DEF CustomPlanInv, CustomPlanTypeOK
    <3>2. CASE d \in stale
      <4>1. ended[d] = [checkout[d] EXCEPT !.status = "expired"] /\ checkout[d].status = "pending"
        BY <3>2 DEF EndPending, Pending
      <4> QED BY <3>1, <4>1 DEF CheckoutRows
    <3>3. CASE d \notin stale /\ d \in Pending
      <4>1. ended[d] = [checkout[d] EXCEPT !.status = "cancelled"]
            /\ checkout[d].status = "pending"
        BY <3>3 DEF EndPending, Pending
      <4> QED BY <3>1, <4>1 DEF CheckoutRows
    <3>4. CASE d \notin stale /\ d \notin Pending
      BY <3>1, <3>4 DEF EndPending, Pending
    <3> QED BY <3>2, <3>3, <3>4
  <2>2. ended = [d \in Checkouts |-> ended[d]]
    BY DEF EndPending
  <2> HIDE DEF ended
  <2> QED BY <2>1, <2>2
<1>3. checkout' \in [Checkouts -> CheckoutRows]
      /\ \A d \in Checkouts : checkout'[d] = IF d = c THEN new ELSE ended[d]
  BY <1>1, <1>2 DEF OpenCheckout
<1>4. request' \in [Requests -> {Idle} \union CustomPlanRequests]
  BY DEF OpenCheckout, CustomPlanInv, CustomPlanTypeOK, CustomPlanRequests
<1>5. OnePendingCheckout'
  <2> SUFFICES ASSUME NEW p \in Checkouts, checkout'[p].status = "pending",
                      NEW d \in Checkouts, d > p
               PROVE  checkout'[d].status = "none"
    BY DEF OnePendingCheckout
  <2>1. p = c
    BY <1>2, <1>3
  <2>2. checkout[d].status = "none"
    BY <2>1, CustomPlanAssumption DEF OpenCheckout, Checkouts
  <2> QED BY <1>2, <1>3, <2>1, <2>2, CustomPlanAssumption DEF Checkouts
<1>6. SessionHasRow'
  <2>1. \A d \in Checkouts : checkout'[d].status # "none" <=> checkout[d].status # "none" \/ d = c
    BY <1>2, <1>3
  <2>2. \A d \in Checkouts : checkout'[d].tracker => checkout[d].tracker
    BY <1>2, <1>3
  <2>3. \A g \in Requests :
          request'[g] = IF g = h THEN [kind |-> "openSession", checkout |-> c] ELSE request[g]
    BY DEF OpenCheckout, CustomPlanInv, CustomPlanTypeOK
  <2>4. \A g \in Requests : Doing(g, "openSession") => request[g].checkout \in Checkouts
    BY DEF Doing, CustomPlanInv, CustomPlanTypeOK, CustomPlanRequests, Idle
  <2> QED BY <2>1, <2>2, <2>3, <2>4 DEF CustomPlanInv, SessionHasRow, Doing
<1> QED BY <1>3, <1>4, <1>5, <1>6 DEF CustomPlanInv, CustomPlanTypeOK

LEMMA ApprovePlanKeeps ==
  ASSUME CustomPlanInv, NEW h \in Requests, NEW w \in Wishes, NEW c \in Checkouts,
         ApprovePlan(h, w, c)
  PROVE  CustomPlanInv'
<1>1. wish' \in [Wishes -> WishRows] /\ ApprovedHasPlan'
  BY DEF ApprovePlan, CustomPlanInv, CustomPlanTypeOK, WishRows, ApprovedHasPlan
<1>2. OpenCheckout(h, c, c, {})
  BY DEF ApprovePlan
<1> QED BY <1>1, <1>2, OpeningCheckout

LEMMA PayAgainKeeps ==
  ASSUME CustomPlanInv, NEW h \in Requests, NEW c \in Checkouts, PayAgainWrite(h, c)
  PROVE  CustomPlanInv'
<1>1. request[h].plan \in Checkouts
  BY DEF PayAgainWrite, Doing, CustomPlanInv, CustomPlanTypeOK, CustomPlanRequests, Idle
<1>2. wish' \in [Wishes -> WishRows] /\ ApprovedHasPlan'
  BY DEF PayAgainWrite, CustomPlanInv, CustomPlanTypeOK, ApprovedHasPlan
<1>3. PICK stale \in SUBSET Pending : OpenCheckout(h, c, request[h].plan, stale)
  BY DEF PayAgainWrite
<1> QED BY <1>1, <1>2, <1>3, OpeningCheckout

\* A checkout that is not opened anew moves on.
LEMMA CheckoutMovesOn ==
  ASSUME CustomPlanInv, NEW c \in Checkouts, NEW row \in CheckoutRows,
         checkout' = [checkout EXCEPT ![c] = row], UNCHANGED wish,
         checkout[c].status # "none",
         row.status \in {checkout[c].status, "expired", "failed", "completed"},
         UNCHANGED request \/ \E h \in Requests : End(h)
  PROVE  CustomPlanInv'
<1>1. \A d \in Checkouts : checkout'[d] = IF d = c THEN row ELSE checkout[d]
  BY DEF CustomPlanInv, CustomPlanTypeOK
<1>2. CustomPlanTypeOK' /\ ApprovedHasPlan'
  BY DEF CustomPlanInv, CustomPlanTypeOK, ApprovedHasPlan, End
<1>3. OnePendingCheckout'
  BY <1>1 DEF CustomPlanInv, OnePendingCheckout
<1>4. \A g \in Requests : Doing(g, "openSession")' =>
        Doing(g, "openSession") /\ request'[g] = request[g]
  BY EndedSession DEF CustomPlanInv, Doing
<1>5. SessionHasRow'
  <2>1. \A d \in Checkouts : checkout[d].status # "none" => checkout'[d].status # "none"
    BY <1>1
  <2>2. \A d \in Checkouts : checkout'[d].tracker => checkout'[d].status # "none"
    BY <1>1 DEF CustomPlanInv, SessionHasRow
  <2>3. \A g \in Requests : Doing(g, "openSession") => request[g].checkout \in Checkouts
    BY DEF Doing, CustomPlanInv, CustomPlanTypeOK, CustomPlanRequests, Idle
  <2> QED BY <1>4, <2>1, <2>2, <2>3 DEF CustomPlanInv, SessionHasRow
<1> QED BY <1>2, <1>3, <1>5 DEF CustomPlanInv

LEMMA StepCustomPlan ==
  ASSUME CustomPlanInv, [CustomPlanNext]_<<request, customPlanVars>> PROVE CustomPlanInv'
<1>1. ASSUME NEW h \in Requests, AskPlanRead(h) PROVE CustomPlanInv'
  BY <1>1, CustomPlanRowsStay DEF AskPlanRead, Begin, CustomPlanRequests
<1>2. ASSUME NEW h \in Requests, NEW w \in Wishes, AskPlanInsert(h, w) PROVE CustomPlanInv'
  <2>1. [wish[w] EXCEPT !.status = "pending"] \in WishRows
        /\ [wish[w] EXCEPT !.status = "pending"].status = "pending"
    BY DEF CustomPlanInv, CustomPlanTypeOK, WishRows
  <2> QED BY <1>2, <2>1, WishWritten DEF AskPlanInsert
<1>3. ASSUME NEW h \in Requests, NEW w \in Wishes, DenyPlanRead(h, w) PROVE CustomPlanInv'
  BY <1>3, CustomPlanRowsStay DEF DenyPlanRead, Begin, CustomPlanRequests
<1>4. ASSUME NEW h \in Requests, NEW w \in Wishes, PayAgainRead(h, w) PROVE CustomPlanInv'
  <2>1. [kind |-> "payAgain", plan |-> wish[w].plan] \in CustomPlanRequests
    BY <1>4 DEF PayAgainRead, CustomPlanInv, ApprovedHasPlan, CustomPlanRequests
  <2> QED BY <1>4, <2>1, CustomPlanRowsStay DEF PayAgainRead, Begin
<1>5. ASSUME NEW h \in Requests, NEW w \in Wishes, NEW c \in Checkouts, ApprovePlan(h, w, c)
      PROVE  CustomPlanInv'
  BY <1>5, ApprovePlanKeeps
<1>6. ASSUME NEW h \in Requests, NEW c \in Checkouts, PayAgainWrite(h, c) PROVE CustomPlanInv'
  BY <1>6, PayAgainKeeps
<1>7. ASSUME NEW h \in Requests, OpenSession(h) PROVE CustomPlanInv'
  <2> DEFINE c == request[h].checkout
             row == [checkout[c] EXCEPT !.tracker = TRUE]
  <2>1. c \in Checkouts
    BY <1>7 DEF OpenSession, Doing, CustomPlanInv, CustomPlanTypeOK, CustomPlanRequests, Idle
  <2>2. row \in CheckoutRows /\ row.status = checkout[c].status
    BY <2>1 DEF CustomPlanInv, CustomPlanTypeOK, CheckoutRows
  <2>3. checkout' = [checkout EXCEPT ![c] = row]
    BY <1>7, <2>1 DEF OpenSession, CustomPlanInv, CustomPlanTypeOK
  <2>4. UNCHANGED wish /\ End(h) /\ checkout[c].status # "none"
    BY <1>7 DEF OpenSession, CustomPlanInv, SessionHasRow
  <2> HIDE DEF c, row
  <2> QED BY <2>1, <2>2, <2>3, <2>4, CheckoutMovesOn
<1>8. ASSUME NEW h \in Requests, DenyPlanWrite(h) PROVE CustomPlanInv'
  <2> DEFINE w == request[h].wish
             row == [wish[w] EXCEPT !.status = "denied"]
  <2>1. w \in Wishes
    BY <1>8 DEF DenyPlanWrite, Doing, CustomPlanInv, CustomPlanTypeOK, CustomPlanRequests, Idle
  <2>2. row \in WishRows /\ row.status = "denied"
    BY <2>1 DEF CustomPlanInv, CustomPlanTypeOK, WishRows
  <2>3. wish' = [wish EXCEPT ![w] = row]
    BY <1>8, <2>1 DEF DenyPlanWrite
  <2> QED BY <1>8, <2>1, <2>2, <2>3, WishWritten DEF DenyPlanWrite
<1>9. ASSUME NEW h \in Requests, Abandon(h), UNCHANGED customPlanVars PROVE CustomPlanInv'
  <2>1. Idle.kind # "openSession"
    BY DEF Idle
  <2> QED BY <1>9, <2>1, CustomPlanRowsStay DEF Abandon, End
<1>10. ASSUME NEW c \in Checkouts,
              ExpireStale(c) \/ PayCustomPlan(c) \/ FailCustomPlan(c)
       PROVE  CustomPlanInv'
  <2>1. checkout[c].status # "none"
    BY <1>10 DEF ExpireStale, Pending, PayCustomPlan, Payable, FailCustomPlan,
                 CustomPlanInv, SessionHasRow
  <2>2. PICK status \in {"expired", "completed", "failed"} :
          checkout' = [checkout EXCEPT ![c].status = status]
    BY <1>10 DEF ExpireStale, PayCustomPlan, FailCustomPlan
  <2> DEFINE row == [checkout[c] EXCEPT !.status = status]
  <2>3. row \in CheckoutRows /\ row.status = status
    BY <2>2 DEF CustomPlanInv, CustomPlanTypeOK, CheckoutRows
  <2>4. checkout' = [checkout EXCEPT ![c] = row]
    BY <2>2 DEF CustomPlanInv, CustomPlanTypeOK
  <2>5. UNCHANGED <<wish, request>>
    BY <1>10 DEF ExpireStale, PayCustomPlan, FailCustomPlan
  <2> HIDE DEF row
  <2> QED BY <2>1, <2>2, <2>3, <2>4, <2>5, CheckoutMovesOn
<1>11. CASE UNCHANGED <<request, customPlanVars>>
  BY <1>11 DEF CustomPlanInv, CustomPlanTypeOK, OnePendingCheckout, ApprovedHasPlan,
               SessionHasRow, Doing, customPlanVars
<1> QED
  BY <1>1, <1>2, <1>3, <1>4, <1>5, <1>6, <1>7, <1>8, <1>9, <1>10, <1>11 DEF CustomPlanNext

\* However often plans are approved and paid for again at once, one checkout at most
\* is pending, the last one opened (approveCustomPlanRequest, createOrgCheckout).  The
\* sessions of those that ended are not spoken of: they can still be paid.
THEOREM OneCheckoutPends == CustomPlanSpec => []OnePendingCheckout
<1>1. CustomPlanInv => OnePendingCheckout
  BY DEF CustomPlanInv
<1> QED BY <1>1, InitCustomPlan, StepCustomPlan, PTL DEF CustomPlanSpec

----------------------------------------------------------------------------
\* One-time codes and sessions.

\* Requests that have read code c and will count one more attempt, and those
\* that may still open the account with it.
Counting(c) == {h \in Requests : /\ Doing(h, "consume") /\ request[h].code = c
                                 /\ request[h].step = "count"}
Openers(c)  == {h \in Requests : Doing(h, "consume") /\ request[h].code = c}

\* Attempts that are counted and those to come stay below the limit and one for
\* each request in progress; a code that was used is read by no one any more.
AttemptsToCome(c) == codes[c].attempts + Cardinality(Counting(c)) < MaxTries + Cardinality(Requests)
OpeningsToCome(c) ==
  /\ codes[c].opened + Cardinality(Openers(c)) <= Cardinality(Requests)
  /\ Unused(c) => codes[c].opened = 0

CodesInv == \A c \in DOMAIN codes : AttemptsToCome(c) /\ OpeningsToCome(c)

CodesAreNamed == \A h \in Requests : Doing(h, "consume") => request[h].code \in DOMAIN codes

SessionsInv == SessionsTypeOK /\ CodesInv /\ CodesAreNamed

LEMMA CountOfRequests ==
  ASSUME NEW S, S \subseteq Requests, NEW T, T \subseteq S
  PROVE  /\ Cardinality(T) \in Nat /\ Cardinality(S) \in Nat /\ Cardinality(Requests) \in Nat
         /\ Cardinality(T) <= Cardinality(S) /\ Cardinality(S) <= Cardinality(Requests)
         /\ \A h \in S \ T : Cardinality(T) + 1 <= Cardinality(S)
<1>1. IsFiniteSet(S) /\ IsFiniteSet(T) /\ IsFiniteSet(Requests)
  BY FS_Subset, SessionsAssumption
<1>2. /\ Cardinality(T) \in Nat /\ Cardinality(S) \in Nat /\ Cardinality(Requests) \in Nat
      /\ Cardinality(T) <= Cardinality(S) /\ Cardinality(S) <= Cardinality(Requests)
  BY <1>1, FS_CardinalityType, FS_Subset
<1>3. ASSUME NEW h \in S \ T PROVE Cardinality(T) + 1 <= Cardinality(S)
  <2>1. IsFiniteSet(S \ {h}) /\ Cardinality(S \ {h}) = Cardinality(S) - 1
    BY <1>1, <1>3, FS_RemoveElement
  <2>2. Cardinality(T) <= Cardinality(S \ {h})
    BY <2>1, <1>3, FS_Subset
  <2> QED BY <1>2, <2>1, <2>2
<1> QED BY <1>2, <1>3

LEMMA InitSessions == ASSUME ServerInit, SessionsInit PROVE SessionsInv
<1>1. SessionsTypeOK
  BY DEF ServerInit, SessionsInit, SessionsTypeOK
<1>2. CodesInv
  BY DEF SessionsInit, CodesInv
<1>3. CodesAreNamed
  BY DEF ServerInit, Idle, Doing, CodesAreNamed
<1> QED BY <1>1, <1>2, <1>3 DEF SessionsInv

\* A request goes on that has read no code anew, or ends, and codes at most go
\* out of use.
ReadsNoCode == \A g \in Requests : Doing(g, "consume")' =>
                 /\ Doing(g, "consume") /\ request'[g].code = request[g].code
                 /\ request'[g].step = "count" => request[g].step = "count"

CodesGoOut ==
  /\ codes' \in Seq(CodeRows) /\ DOMAIN codes \subseteq DOMAIN codes'
  /\ \A c \in DOMAIN codes' :
       IF c \in DOMAIN codes
       THEN /\ codes'[c].attempts = codes[c].attempts /\ codes'[c].opened = codes[c].opened
            /\ codes'[c].state # "used" => codes[c].state # "used"
       ELSE codes'[c].attempts = 0 /\ codes'[c].opened = 0

LEMMA LimitsStay == ASSUME SessionsInv, ReadsNoCode, CodesGoOut PROVE CodesInv' /\ CodesAreNamed'
<1>1. CodesAreNamed'
  BY DEF SessionsInv, CodesAreNamed, ReadsNoCode, CodesGoOut
<1>2. ASSUME NEW c \in DOMAIN codes' PROVE AttemptsToCome(c)' /\ OpeningsToCome(c)'
  <2>1. Counting(c)' \subseteq Counting(c) /\ Openers(c)' \subseteq Openers(c)
        /\ Counting(c) \subseteq Requests /\ Openers(c) \subseteq Requests
    BY DEF ReadsNoCode, Counting, Openers, Doing
  <2>2. /\ Cardinality(Requests) \in Nat /\ Cardinality(Counting(c)') \in Nat
        /\ Cardinality(Counting(c)) \in Nat /\ Cardinality(Openers(c)) \in Nat
        /\ Cardinality(Openers(c)') \in Nat
        /\ Cardinality(Counting(c)') <= Cardinality(Counting(c))
        /\ Cardinality(Counting(c)) <= Cardinality(Requests)
        /\ Cardinality(Openers(c)') <= Cardinality(Openers(c))
        /\ Cardinality(Openers(c)) <= Cardinality(Requests)
    BY <2>1, CountOfRequests
  <2>3. CASE c \in DOMAIN codes
    <3>1. codes[c] \in CodeRows /\ AttemptsToCome(c) /\ OpeningsToCome(c)
      BY <2>3 DEF SessionsInv, SessionsTypeOK, CodesInv
    <3>2. /\ codes'[c].attempts = codes[c].attempts /\ codes'[c].opened = codes[c].opened
          /\ codes'[c].state # "used" => codes[c].state # "used"
      BY <1>2, <2>3 DEF CodesGoOut
    <3> QED BY <2>2, <3>1, <3>2, SessionsAssumption
            DEF AttemptsToCome, OpeningsToCome, CodeRows, Unused
  <2>4. CASE c \notin DOMAIN codes
    BY <1>2, <2>2, <2>4, SessionsAssumption DEF CodesGoOut, AttemptsToCome, OpeningsToCome
  <2> QED BY <2>3, <2>4
<1> QED BY <1>1, <1>2 DEF CodesInv

LEMMA CodesStay == ASSUME SessionsInv, UNCHANGED codes PROVE CodesGoOut
BY DEF SessionsInv, SessionsTypeOK, CodesGoOut

LEMMA CodesAreRows == ASSUME SessionsInv, NEW c \in DOMAIN codes PROVE codes[c] \in CodeRows
BY DEF SessionsInv, SessionsTypeOK

LEMMA Invalidated == ASSUME SessionsInv, codes' = invalidateOtps PROVE CodesGoOut
<1>1. \A c \in DOMAIN codes :
        LET row == [codes[c] EXCEPT !.state = "used"]
        IN /\ row \in CodeRows /\ row.attempts = codes[c].attempts /\ row.opened = codes[c].opened
           /\ row.state = "used"
  BY CodesAreRows DEF CodeRows
<1>2. DOMAIN codes = 1 .. Len(codes) /\ Len(codes) \in Nat
  BY DEF SessionsInv, SessionsTypeOK
<1>3. invalidateOtps \in Seq(CodeRows)
  BY <1>1, <1>2 DEF invalidateOtps
<1> QED BY <1>1, <1>3 DEF CodesGoOut, invalidateOtps

\* One row of login_otps is written.
LEMMA OneCodeWritten ==
  ASSUME SessionsInv, NEW c \in DOMAIN codes, NEW row \in CodeRows, codes' = [codes EXCEPT ![c] = row]
  PROVE  /\ codes' \in Seq(CodeRows) /\ DOMAIN codes' = DOMAIN codes
         /\ codes'[c] = row /\ \A d \in DOMAIN codes : d # c => codes'[d] = codes[d]
BY DEF SessionsInv, SessionsTypeOK

LEMMA WentOut ==
  ASSUME SessionsInv, NEW c \in DOMAIN codes, NEW state \in {"expired", "used"},
         Unused(c) \/ state = "used", codes' = [codes EXCEPT ![c].state = state]
  PROVE  CodesGoOut
<1> DEFINE row == [codes[c] EXCEPT !.state = state]
<1>1. /\ row \in CodeRows /\ row.attempts = codes[c].attempts /\ row.opened = codes[c].opened
      /\ row.state = state
  BY CodesAreRows DEF CodeRows
<1>2. codes' = [codes EXCEPT ![c] = row]
  OBVIOUS
<1> HIDE DEF row
<1> QED BY <1>1, <1>2, OneCodeWritten DEF CodesGoOut, Unused

\* A request goes on, or ends, with what it has read of the codes.
LEMMA RequestGoesOn ==
  ASSUME SessionsInv, NEW h \in Requests, NEW r \in {Idle} \union SessionRequests,
         request' = [request EXCEPT ![h] = r],
         r.kind = "consume" => /\ Doing(h, "consume") /\ r.code = request[h].code
                               /\ r.step = "count" => request[h].step = "count"
  PROVE  ReadsNoCode /\ request' \in [Requests -> {Idle} \union SessionRequests]
BY DEF SessionsInv, SessionsTypeOK, ReadsNoCode, Doing

LEMMA RequestsStay ==
  ASSUME SessionsInv, UNCHANGED request
  PROVE  ReadsNoCode /\ request' \in [Requests -> {Idle} \union SessionRequests]
BY DEF SessionsInv, SessionsTypeOK, ReadsNoCode, Doing

LEMMA TypedRequest ==
  ASSUME SessionsInv, NEW h \in Requests
  PROVE  /\ request[h] \in {Idle} \union SessionRequests
         /\ Doing(h, "consume") => request[h] \in SessionRequests /\ request[h].code \in DOMAIN codes
         /\ Doing(h, "issue") => request[h] \in SessionRequests
         /\ Doing(h, "refresh") => request[h].token \in Tokens
<1>1. request[h] \in {Idle} \union SessionRequests
  BY DEF SessionsInv, SessionsTypeOK
<1> QED BY <1>1 DEF Doing, Idle, SessionRequests, SessionsInv, CodesAreNamed

\* Whatever reads no code and counts no attempt keeps the limits.
LEMMA QuietStep ==
  ASSUME SessionsInv, ReadsNoCode, CodesGoOut,
         request' \in [Requests -> {Idle} \union SessionRequests],
         UNCHANGED who, mayEnter' \in BOOLEAN, tokens' \in [Tokens -> {"new", "stored", "gone"}]
  PROVE  SessionsInv'
BY LimitsStay DEF SessionsInv, SessionsTypeOK, CodesGoOut

LEMMA StepTokens ==
  ASSUME SessionsInv,
         \/ ToggleAccount
         \/ \E t \in Tokens : Logout(t)
         \/ \E h \in Requests :
              \/ UserLogin(h) \/ AdminLogin(h) \/ ResendCode(h)
              \/ \E t \in Tokens : Enter(h, t) \/ RefreshVerify(h, t)
              \/ LoginWithoutCode(h) \/ RefreshRevoke(h)
              \/ Abandon(h) /\ UNCHANGED sessionVars
  PROVE  SessionsInv'
<1> USE DEF SessionsInv, SessionsTypeOK
<1>1. CASE ToggleAccount
  BY <1>1, QuietStep, CodesStay, RequestsStay DEF ToggleAccount
<1>2. ASSUME NEW t \in Tokens, Logout(t) PROVE SessionsInv'
  BY <1>2, QuietStep, CodesStay, RequestsStay DEF Logout
<1>3. ASSUME NEW h \in Requests, UserLogin(h) \/ AdminLogin(h) \/ ResendCode(h) PROVE SessionsInv'
  <2> DEFINE r == [kind |-> "issue", step |-> "clear"]
  <2>1. r \in SessionRequests /\ r.kind = "issue"
    BY DEF SessionRequests
  <2>2. request' = [request EXCEPT ![h] = r] /\ UNCHANGED sessionVars
    BY <1>3 DEF UserLogin, AdminLogin, ResendCode, IssueCode, Begin
  <2> HIDE DEF r
  <2> QED BY <2>1, <2>2, RequestGoesOn, QuietStep, CodesStay DEF sessionVars
<1>4. ASSUME NEW h \in Requests, NEW t \in Tokens, Enter(h, t) PROVE SessionsInv'
  <2>1. request' = [request EXCEPT ![h] = Idle] /\ UNCHANGED <<who, mayEnter, codes>>
        /\ tokens' \in [Tokens -> {"new", "stored", "gone"}]
    BY <1>4 DEF Enter, End, storeRefreshToken
  <2> QED BY <2>1, RequestGoesOn, QuietStep, CodesStay DEF Idle
<1>5. ASSUME NEW h \in Requests, NEW t \in Tokens, RefreshVerify(h, t) PROVE SessionsInv'
  <2> DEFINE r == [kind |-> "refresh", token |-> t]
  <2>1. r \in SessionRequests /\ r.kind = "refresh"
    BY DEF SessionRequests
  <2>2. request' = [request EXCEPT ![h] = r] /\ UNCHANGED sessionVars
    BY <1>5 DEF RefreshVerify, Begin
  <2> HIDE DEF r
  <2> QED BY <2>1, <2>2, RequestGoesOn, QuietStep, CodesStay DEF sessionVars
<1>6. ASSUME NEW h \in Requests, LoginWithoutCode(h) \/ RefreshRevoke(h) PROVE SessionsInv'
  <2>1. PICK may \in BOOLEAN : request' = [request EXCEPT ![h] = [kind |-> "enter", may |-> may]]
    BY <1>6 DEF LoginWithoutCode, RefreshRevoke, Begin, Go
  <2> DEFINE r == [kind |-> "enter", may |-> may]
  <2>2. r \in SessionRequests /\ r.kind = "enter"
    BY DEF SessionRequests
  <2>3. UNCHANGED <<who, mayEnter, codes>> /\ tokens' \in [Tokens -> {"new", "stored", "gone"}]
    BY <1>6 DEF LoginWithoutCode, RefreshRevoke, sessionVars
  <2>4. request' = [request EXCEPT ![h] = r]
    BY <2>1
  <2> HIDE DEF r
  <2> QED BY <2>2, <2>3, <2>4, RequestGoesOn, QuietStep, CodesStay
<1>7. ASSUME NEW h \in Requests, Abandon(h), UNCHANGED sessionVars PROVE SessionsInv'
  BY <1>7, RequestGoesOn, QuietStep, CodesStay DEF Abandon, End, Idle, sessionVars
<1> QED BY <1>1, <1>2, <1>3, <1>4, <1>5, <1>6, <1>7

\* The statements that issue a code, and those that take one out of use.
LEMMA StepIssue ==
  ASSUME SessionsInv, NEW h \in Requests,
         IssueRetire(h) \/ IssueInsert(h) \/ (\E sent \in BOOLEAN : IssueMail(h, sent))
  PROVE  SessionsInv'
<1>1. Doing(h, "issue")
  BY DEF IssueRetire, IssueInsert, IssueMail
<1>2. request[h] \in SessionRequests /\ request[h].kind = "issue"
  BY <1>1, TypedRequest DEF Doing
<1>3. \A step \in {"clear", "retire", "insert", "mail"} :
        LET r == [request[h] EXCEPT !.step = step] IN r \in SessionRequests /\ r.kind = "issue"
  BY <1>2 DEF SessionRequests
<1>4. \E r \in {Idle} \union SessionRequests :
        r.kind # "consume" /\ request' = [request EXCEPT ![h] = r]
  <2>1. CASE IssueRetire(h)
    <3>1. PICK step \in {"retire", "insert"} : request' = [request EXCEPT ![h] = [request[h] EXCEPT !.step = step]]
      BY <2>1 DEF IssueRetire, Go
    <3> QED BY <1>3, <3>1
  <2>2. CASE IssueInsert(h)
    BY <1>3, <2>2 DEF IssueInsert, Go
  <2>3. CASE \E sent \in BOOLEAN : IssueMail(h, sent)
    BY <2>3 DEF IssueMail, End, Idle
  <2> QED BY <2>1, <2>2, <2>3
<1>5. CodesGoOut
  <2>1. CASE IssueRetire(h)
    BY <2>1, Invalidated DEF IssueRetire
  <2>2. CASE IssueInsert(h)
    <3> DEFINE new == [state |-> "live", attempts |-> 0, opened |-> 0]
    <3>1. new \in CodeRows /\ new.attempts = 0 /\ new.opened = 0
      BY DEF CodeRows
    <3>2. codes' = Append(codes, new)
      BY <2>2 DEF IssueInsert
    <3> HIDE DEF new
    <3>3. /\ codes' \in Seq(CodeRows) /\ DOMAIN codes' = DOMAIN codes \union {Len(codes) + 1}
          /\ codes'[Len(codes) + 1] = new
          /\ \A c \in DOMAIN codes : codes'[c] = codes[c]
      BY <3>1, <3>2 DEF SessionsInv, SessionsTypeOK
    <3> QED BY <3>1, <3>3 DEF CodesGoOut
  <2>3. CASE \E sent \in BOOLEAN : IssueMail(h, sent)
    BY <2>3, Invalidated, CodesStay DEF IssueMail
  <2> QED BY <2>1, <2>2, <2>3
<1>6. UNCHANGED <<who, mayEnter, tokens>>
  BY DEF IssueRetire, IssueInsert, IssueMail
<1>7. ReadsNoCode /\ request' \in [Requests -> {Idle} \union SessionRequests]
  BY <1>4, RequestGoesOn
<1> QED BY <1>5, <1>6, <1>7, QuietStep DEF SessionsInv, SessionsTypeOK

LEMMA StepCodeGoesOut ==
  ASSUME SessionsInv,
         \/ \E c \in DOMAIN codes : CodeExpires(c)
         \/ \E h \in Requests : ConsumeSpend(h) \/ ConsumeCompare(h)
  PROVE  SessionsInv'
<1>1. ASSUME NEW c \in DOMAIN codes, CodeExpires(c) PROVE SessionsInv'
  <2>1. CodesGoOut
    BY <1>1, WentOut DEF CodeExpires, Unused
  <2> QED BY <1>1, <2>1, RequestsStay, QuietStep DEF CodeExpires, SessionsInv, SessionsTypeOK
<1>2. ASSUME NEW h \in Requests, ConsumeSpend(h) PROVE SessionsInv'
  <2>1. PICK c \in DOMAIN codes : c = request[h].code
    BY <1>2, TypedRequest DEF ConsumeSpend
  <2>2. CodesGoOut
    BY <1>2, <2>1, WentOut DEF ConsumeSpend
  <2>3. ReadsNoCode /\ request' \in [Requests -> {Idle} \union SessionRequests]
    BY <1>2, RequestGoesOn DEF ConsumeSpend, End, Idle
  <2> QED BY <1>2, <2>2, <2>3, QuietStep DEF ConsumeSpend, SessionsInv, SessionsTypeOK
<1>3. ASSUME NEW h \in Requests, ConsumeCompare(h) PROVE SessionsInv'
  <2> DEFINE r == [request[h] EXCEPT !.step = "mark"]
  <2>1. request[h] \in SessionRequests /\ request[h].kind = "consume"
    BY <1>3, TypedRequest DEF ConsumeCompare, Doing
  <2>2. r \in SessionRequests /\ r.code = request[h].code /\ r.step = "mark"
    BY <2>1 DEF SessionRequests
  <2>3. request' = [request EXCEPT ![h] = r] \/ request' = [request EXCEPT ![h] = Idle]
    BY <1>3 DEF ConsumeCompare, Go, End
  <2> HIDE DEF r
  <2>4. ReadsNoCode /\ request' \in [Requests -> {Idle} \union SessionRequests]
    BY <1>3, <2>2, <2>3, RequestGoesOn DEF ConsumeCompare, Idle
  <2> QED BY <1>3, <2>4, QuietStep, CodesStay DEF ConsumeCompare, sessionVars, SessionsInv, SessionsTypeOK
<1> QED BY <1>1, <1>2, <1>3

\* A code is read while it is unused; it is counted only below the limit.
LEMMA StepConsumeRead ==
  ASSUME SessionsInv, NEW h \in Requests, NEW c \in DOMAIN codes, NEW right \in BOOLEAN,
         ConsumeRead(h, c, right)
  PROVE  SessionsInv'
<1> DEFINE r == [kind |-> "consume", code |-> c, right |-> right,
                 step |-> IF Spent(c) THEN "spend" ELSE "count"]
<1>1. r \in SessionRequests
  BY DEF SessionsInv, SessionsTypeOK, SessionRequests
<1>2. /\ r.kind = "consume" /\ r.code = c /\ (r.step = "count" => ~Spent(c))
      /\ request' = [request EXCEPT ![h] = r] /\ request[h] = Idle
      /\ Unused(c) /\ UNCHANGED sessionVars
  BY DEF ConsumeRead, Begin, Latest
<1> HIDE DEF r
<1>3. /\ request' \in [Requests -> {Idle} \union SessionRequests]
      /\ \A g \in Requests : request'[g] = IF g = h THEN r ELSE request[g]
  BY <1>1, <1>2 DEF SessionsInv, SessionsTypeOK
<1>4. SessionsTypeOK' /\ CodesAreNamed'
  BY <1>2, <1>3 DEF SessionsInv, SessionsTypeOK, CodesAreNamed, sessionVars, Doing
<1>5. ASSUME NEW d \in DOMAIN codes PROVE AttemptsToCome(d)' /\ OpeningsToCome(d)'
  <2>1. /\ Counting(d)' \subseteq Requests /\ Openers(d)' \subseteq Requests
        /\ Counting(d) \subseteq Requests /\ Openers(d) \subseteq Requests
        /\ d # c \/ r.step # "count" => Counting(d)' \subseteq Counting(d)
        /\ d # c => Openers(d)' \subseteq Openers(d)
    BY <1>2, <1>3 DEF Counting, Openers, Doing
  <2>2. /\ Cardinality(Requests) \in Nat
        /\ Cardinality(Counting(d)') \in Nat /\ Cardinality(Counting(d)') <= Cardinality(Requests)
        /\ Cardinality(Openers(d)') \in Nat /\ Cardinality(Openers(d)') <= Cardinality(Requests)
        /\ Cardinality(Counting(d)) \in Nat /\ Cardinality(Openers(d)) \in Nat
    BY <2>1, CountOfRequests
  <2>3. /\ codes[d] \in CodeRows /\ AttemptsToCome(d) /\ OpeningsToCome(d) /\ codes' = codes
    BY <1>2, CodesAreRows DEF SessionsInv, CodesInv, sessionVars
  <2>4. AttemptsToCome(d)'
    <3>1. CASE d # c \/ r.step # "count"
      <4>1. Cardinality(Counting(d)') <= Cardinality(Counting(d))
        BY <2>1, <3>1, CountOfRequests
      <4> QED BY <2>2, <2>3, <4>1, SessionsAssumption DEF AttemptsToCome, CodeRows
    <3>2. CASE d = c /\ r.step = "count"
      <4>1. codes[d].attempts < MaxTries
        BY <1>2, <2>3, <3>2, SessionsAssumption DEF Spent, CodeRows
      <4> QED BY <2>2, <2>3, <4>1, SessionsAssumption DEF AttemptsToCome, CodeRows
    <3> QED BY <3>1, <3>2
  <2>5. OpeningsToCome(d)'
    <3>1. CASE d # c
      <4>1. Cardinality(Openers(d)') <= Cardinality(Openers(d))
        BY <2>1, <3>1, CountOfRequests
      <4> QED BY <2>2, <2>3, <4>1 DEF OpeningsToCome, CodeRows, Unused
    <3>2. CASE d = c
      BY <1>2, <2>2, <2>3, <3>2 DEF OpeningsToCome, Unused
    <3> QED BY <3>1, <3>2
  <2> QED BY <2>4, <2>5
<1> QED BY <1>2, <1>4, <1>5 DEF SessionsInv, CodesInv, sessionVars

\* Other codes than the one that is counted or marked keep their limits.
LEMMA OtherCodesStay ==
  ASSUME SessionsInv, ReadsNoCode, NEW c \in DOMAIN codes, NEW d \in DOMAIN codes, d # c,
         NEW row \in CodeRows, codes' = [codes EXCEPT ![c] = row]
  PROVE  AttemptsToCome(d)' /\ OpeningsToCome(d)'
<1>1. Counting(d)' \subseteq Counting(d) /\ Openers(d)' \subseteq Openers(d)
      /\ Counting(d) \subseteq Requests /\ Openers(d) \subseteq Requests
  BY DEF ReadsNoCode, Counting, Openers, Doing
<1>2. /\ Cardinality(Requests) \in Nat
      /\ Cardinality(Counting(d)') \in Nat /\ Cardinality(Counting(d)) \in Nat
      /\ Cardinality(Openers(d)') \in Nat /\ Cardinality(Openers(d)) \in Nat
      /\ Cardinality(Counting(d)') <= Cardinality(Counting(d))
      /\ Cardinality(Openers(d)') <= Cardinality(Openers(d))
  BY <1>1, CountOfRequests
<1>3. /\ codes[d] \in CodeRows /\ AttemptsToCome(d) /\ OpeningsToCome(d) /\ codes'[d] = codes[d]
  BY CodesAreRows, OneCodeWritten DEF SessionsInv, CodesInv
<1> QED BY <1>2, <1>3, SessionsAssumption DEF AttemptsToCome, OpeningsToCome, CodeRows, Unused

LEMMA StepConsumeCount == ASSUME SessionsInv, NEW h \in Requests, ConsumeCount(h) PROVE SessionsInv'
<1>1. PICK c \in DOMAIN codes : c = request[h].code
  BY TypedRequest DEF ConsumeCount
<1> DEFINE row == [codes[c] EXCEPT !.attempts = @ + 1]
           r   == [request[h] EXCEPT !.step = "compare"]
<1>2. /\ row \in CodeRows /\ row.attempts = codes[c].attempts + 1
      /\ row.opened = codes[c].opened /\ row.state = codes[c].state
  BY CodesAreRows DEF CodeRows
<1>3. request[h] \in SessionRequests /\ request[h].kind = "consume" /\ request[h].step = "count"
  BY TypedRequest DEF ConsumeCount, Doing
<1>4. r \in SessionRequests /\ r.kind = "consume" /\ r.code = c /\ r.step = "compare"
  BY <1>1, <1>3 DEF SessionRequests
<1>5. codes' = [codes EXCEPT ![c] = row] /\ request' = [request EXCEPT ![h] = r]
      /\ UNCHANGED <<who, mayEnter, tokens>>
  BY <1>1 DEF ConsumeCount, Go
<1> HIDE DEF row, r
<1>6. ReadsNoCode /\ request' \in [Requests -> {Idle} \union SessionRequests] /\ request'[h] = r
  BY <1>1, <1>3, <1>4, <1>5, RequestGoesOn DEF Doing, SessionsInv, SessionsTypeOK
<1>7. /\ codes' \in Seq(CodeRows) /\ DOMAIN codes' = DOMAIN codes /\ codes'[c] = row
  BY <1>2, <1>5, OneCodeWritten
<1>8. SessionsTypeOK' /\ CodesAreNamed'
  BY <1>5, <1>6, <1>7 DEF SessionsInv, SessionsTypeOK, CodesAreNamed, ReadsNoCode
<1>9. AttemptsToCome(c)' /\ OpeningsToCome(c)'
  <2>1. /\ Counting(c)' \subseteq Counting(c) /\ h \in Counting(c) \ Counting(c)'
        /\ Openers(c)' \subseteq Openers(c)
        /\ Counting(c) \subseteq Requests /\ Openers(c) \subseteq Requests
    BY <1>1, <1>3, <1>4, <1>6 DEF ReadsNoCode, Counting, Openers, Doing
  <2>2. /\ Cardinality(Requests) \in Nat
        /\ Cardinality(Counting(c)') \in Nat /\ Cardinality(Counting(c)) \in Nat
        /\ Cardinality(Openers(c)') \in Nat /\ Cardinality(Openers(c)) \in Nat
        /\ Cardinality(Counting(c)') + 1 <= Cardinality(Counting(c))
        /\ Cardinality(Openers(c)') <= Cardinality(Openers(c))
    BY <2>1, CountOfRequests
  <2>3. codes[c] \in CodeRows /\ AttemptsToCome(c) /\ OpeningsToCome(c)
    BY CodesAreRows DEF SessionsInv, CodesInv
  <2>4. codes[c].attempts \in Nat /\ codes[c].opened \in Nat
    BY <2>3 DEF CodeRows
  <2>5. AttemptsToCome(c)'
    <3>1. codes'[c].attempts = codes[c].attempts + 1
      BY <1>2, <1>7
    <3> QED BY <2>2, <2>3, <2>4, <3>1, SessionsAssumption DEF AttemptsToCome
  <2>6. OpeningsToCome(c)'
    <3>1. codes'[c].opened = codes[c].opened /\ codes'[c].state = codes[c].state
      BY <1>2, <1>7
    <3> QED BY <2>2, <2>3, <2>4, <3>1 DEF OpeningsToCome, Unused
  <2> QED BY <2>5, <2>6
<1>10. CodesInv'
  BY <1>2, <1>5, <1>6, <1>7, <1>9, OtherCodesStay DEF CodesInv
<1> QED BY <1>8, <1>10 DEF SessionsInv

LEMMA StepConsumeMark == ASSUME SessionsInv, NEW h \in Requests, ConsumeMark(h) PROVE SessionsInv'
<1>1. PICK c \in DOMAIN codes : c = request[h].code
  BY TypedRequest DEF ConsumeMark
<1> DEFINE row == [codes[c] EXCEPT !.state = "used", !.opened = @ + 1]
           r   == [kind |-> "enter", may |-> mayEnter]
<1>2. /\ row \in CodeRows /\ row.attempts = codes[c].attempts
      /\ row.opened = codes[c].opened + 1 /\ row.state = "used"
  <2>1. ASSUME NEW old \in CodeRows, NEW n \in Nat
        PROVE  LET new == [old EXCEPT !.state = "used", !.opened = n]
               IN /\ new \in CodeRows /\ new.attempts = old.attempts
                  /\ new.opened = n /\ new.state = "used"
    BY DEF CodeRows
  <2>2. codes[c] \in CodeRows /\ codes[c].opened + 1 \in Nat
    BY CodesAreRows DEF CodeRows
  <2> QED BY <2>1, <2>2
<1>3. Doing(h, "consume") /\ request[h].code = c
  BY <1>1 DEF ConsumeMark
<1>4. r \in SessionRequests /\ r.kind = "enter"
  BY DEF SessionRequests, SessionsInv, SessionsTypeOK
<1>5. codes' = [codes EXCEPT ![c] = row] /\ request' = [request EXCEPT ![h] = r]
      /\ UNCHANGED <<who, mayEnter, tokens>>
  BY <1>1 DEF ConsumeMark, Go, SessionsInv, SessionsTypeOK
<1> HIDE DEF row, r
<1>6. ReadsNoCode /\ request' \in [Requests -> {Idle} \union SessionRequests] /\ request'[h] = r
  BY <1>4, <1>5, RequestGoesOn DEF SessionsInv, SessionsTypeOK
<1>7. /\ codes' \in Seq(CodeRows) /\ DOMAIN codes' = DOMAIN codes /\ codes'[c] = row
  BY <1>2, <1>5, OneCodeWritten
<1>8. SessionsTypeOK' /\ CodesAreNamed'
  BY <1>5, <1>6, <1>7 DEF SessionsInv, SessionsTypeOK, CodesAreNamed, ReadsNoCode
<1>9. AttemptsToCome(c)' /\ OpeningsToCome(c)'
  <2>1. /\ Counting(c)' \subseteq Counting(c)
        /\ Openers(c)' \subseteq Openers(c) /\ h \in Openers(c) \ Openers(c)'
        /\ Counting(c) \subseteq Requests /\ Openers(c) \subseteq Requests
    BY <1>3, <1>4, <1>6 DEF ReadsNoCode, Counting, Openers, Doing
  <2>2. /\ Cardinality(Requests) \in Nat
        /\ Cardinality(Counting(c)') \in Nat /\ Cardinality(Counting(c)) \in Nat
        /\ Cardinality(Openers(c)') \in Nat /\ Cardinality(Openers(c)) \in Nat
        /\ Cardinality(Counting(c)') <= Cardinality(Counting(c))
        /\ Cardinality(Openers(c)') + 1 <= Cardinality(Openers(c))
    BY <2>1, CountOfRequests
  <2>3. codes[c] \in CodeRows /\ AttemptsToCome(c) /\ OpeningsToCome(c)
    BY CodesAreRows DEF SessionsInv, CodesInv
  <2>4. codes[c].attempts \in Nat /\ codes[c].opened \in Nat
    BY <2>3 DEF CodeRows
  <2>5. AttemptsToCome(c)'
    <3>1. codes'[c].attempts = codes[c].attempts
      BY <1>2, <1>7
    <3> QED BY <2>2, <2>3, <2>4, <3>1, SessionsAssumption DEF AttemptsToCome
  <2>6. OpeningsToCome(c)'
    <3>1. codes'[c].opened = codes[c].opened + 1 /\ codes'[c].state = "used"
      BY <1>2, <1>7
    <3> QED BY <2>2, <2>3, <2>4, <3>1 DEF OpeningsToCome, Unused
  <2> QED BY <2>5, <2>6
<1>10. CodesInv'
  BY <1>2, <1>5, <1>6, <1>7, <1>9, OtherCodesStay DEF CodesInv
<1> QED BY <1>8, <1>10 DEF SessionsInv

LEMMA StepSessions ==
  ASSUME SessionsInv, [SessionsNext]_<<request, sessionVars>> PROVE SessionsInv'
<1>1. CASE UNCHANGED <<request, sessionVars>>
  BY <1>1 DEF SessionsInv, SessionsTypeOK, CodesInv, CodesAreNamed, AttemptsToCome, OpeningsToCome,
         Counting, Openers, Unused, Doing, sessionVars
<1>2. CASE SessionsNext
  BY <1>2, StepTokens, StepIssue, StepCodeGoesOut, StepConsumeRead, StepConsumeCount, StepConsumeMark
     DEF SessionsNext
<1> QED BY <1>1, <1>2

LEMMA SessionsInvariant == SessionsSpec => []SessionsInv
BY InitSessions, StepSessions, PTL DEF SessionsSpec

LEMMA LimitsKept == SessionsInv => CodeHasLimits
<1> SUFFICES ASSUME SessionsInv, NEW c \in DOMAIN codes
             PROVE  /\ codes[c].attempts < MaxTries + Cardinality(Requests)
                    /\ codes[c].opened <= Cardinality(Requests)
  BY DEF CodeHasLimits
<1>1. Counting(c) \subseteq Requests /\ Openers(c) \subseteq Requests
  BY DEF Counting, Openers
<1>2. Cardinality(Requests) \in Nat /\ Cardinality(Counting(c)) \in Nat /\ Cardinality(Openers(c)) \in Nat
  BY <1>1, CountOfRequests
<1>3. codes[c] \in CodeRows /\ AttemptsToCome(c) /\ OpeningsToCome(c)
  BY CodesAreRows DEF SessionsInv, CodesInv
<1> QED BY <1>2, <1>3, SessionsAssumption DEF AttemptsToCome, OpeningsToCome, CodeRows

\* However many requests guess at once, a code is tried at most as often as the limit
\* says and once more for each of the others in progress, and a right code opens the
\* account at most once for each of them.
THEOREM GuessesAreLimited == SessionsSpec => []CodeHasLimits
BY SessionsInvariant, LimitsKept, PTL
============================================================================
