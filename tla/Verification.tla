----------------------------- MODULE Verification -----------------------------
(***************************************************************************)
(* Verification requests: creation, the reference match, edits, decisions  *)
(* and the queues they wait in (verification.controller.js, autoMatch.js,  *)
(* admin/verification.controller.js).                                      *)
(*                                                                         *)
(* The matcher updates under a condition.  Every other handler reads the   *)
(* row, checks its status, and later updates or deletes by uuid alone.     *)
(* The quota a creation consumes, in the same transaction, is the business *)
(* of RequestQuota: a refusal is a creation that is abandoned.             *)
(* Certificates and the documents' history follow a decision and change    *)
(* nothing here; 'manual_review' stands for 'no_reference_found' as well.  *)
(***************************************************************************)
EXTENDS Server

CONSTANTS
  Submissions,    \* rows of verification_requests
  Orgs, NoOrg,    \* issuing organizations; SQL NULL
  People, Files   \* document owners by cnic_hash, uploads by document_hash

ASSUME VerificationAssumption == NoOrg \notin Orgs

VARIABLES
  submission,     \* verification_requests
  reference,      \* who has a reference document on file at whom
  vouched         \* history: what some verified request has shown

verificationVars == <<submission, reference, vouched>>

Places     == Orgs \union {NoOrg}
VerifiedStatuses == {"verified", "auto_verified"}
Gone       == {"absent", "deleted"}

SubmissionRows ==
  [status : VerifiedStatuses \union {"under_review", "unverified"},
   org    : Places,                  \* issuing_organization_id
   queued : BOOLEAN,                 \* unmatched_org_id is set
   person : People, file : Files,
   match  : {"not_attempted", "manual_review", "auto_matched"},
   staged : Places]                  \* whose reference is still to be compared

MatchOutcomes == {"approve", "review", "no_reference"}

VerificationRequests ==
  [kind : {"submit"}, org : Places, person : People, file : Files, auto : BOOLEAN]
    \union [kind : {"match"}, row : Submissions, outcome : MatchOutcomes]
    \union [kind : {"editRequest"}, row : Submissions, org : Places, file : Files,
            match : {"not_attempted", "manual_review"}, staged : Places]
    \union [kind : {"deleteRequest"}, row : Submissions]
    \union [kind : {"decide"}, row : Submissions, status : {"verified", "unverified"},
            unqueue : {"never", "now", "later"}, step : {"write", "unqueue"}]

VerificationTypeOK ==
  /\ submission \in [Submissions -> [status : Gone] \union SubmissionRows]
  /\ reference \subseteq Orgs \X People
  /\ vouched \subseteq Orgs \X People \X Files
  /\ request \in [Requests -> {Idle} \union VerificationRequests]

VerificationInit ==
  /\ submission = [r \in Submissions |-> [status |-> "absent"]]
  /\ reference = {}
  /\ vouched = {}

Filed == {r \in Submissions : submission[r].status \notin Gone}

\* Every change of the rows goes through here, for the history only.
PutSubmissions(new) ==
  /\ submission' = new
  /\ vouched' = vouched \union
       {<<new[r].org, new[r].person, new[r].file>> :
          r \in {q \in Submissions : new[q].status \in VerifiedStatuses /\ new[q].org # NoOrg}}

----------------------------------------------------------------------------
\* Creating a request

\* stageReferenceMatch for the target and the owner
Staged(o, p) == IF <<o, p>> \in reference THEN o ELSE NoOrg
MatchOf(staged) == IF staged = NoOrg THEN "manual_review" ELSE "not_attempted"

\* Mutant: any verified request with this file at this organization.
RepeatsByFile(o, p, f) ==
  \E r \in Filed : /\ submission[r].status \in VerifiedStatuses
                   /\ submission[r].org = o /\ submission[r].file = f

\* A verified request of the same person with the same file at the same place.
Repeats(o, p, f) ==
  \E r \in Filed : /\ submission[r].status \in VerifiedStatuses
                   /\ submission[r].org = o /\ submission[r].person = p
                   /\ submission[r].file = f

\* createRequest before its transaction: the document check, then the lookup.
SubmitRead(h, o, p, f) ==
  /\ Begin(h, [kind |-> "submit", org |-> o, person |-> p, file |-> f,
               auto |-> o # NoOrg /\ Repeats(o, p, f)])
  /\ UNCHANGED verificationVars

\* The transaction: quota, INSERT, staging, person and commit.
SubmitInsert(h, r) ==
  /\ Doing(h, "submit")
  /\ submission[r].status = "absent"
  /\ LET q == request[h]
         s == Staged(q.org, q.person)
     IN PutSubmissions([submission EXCEPT ![r] =
          [status |-> IF q.auto THEN "auto_verified" ELSE "under_review",
           org |-> q.org, queued |-> q.org = NoOrg, person |-> q.person, file |-> q.file,
           match |-> MatchOf(s), staged |-> s]])
  /\ End(h)
  /\ UNCHANGED reference

----------------------------------------------------------------------------
\* The matcher: at submission, and at every look into the inbox

\* uploadEmployeeDocuments, deleteEmployeeDocument
ChangeReference(o, p) ==
  /\ reference' = IF <<o, p>> \in reference THEN reference \ {<<o, p>>}
                  ELSE reference \union {<<o, p>>}
  /\ UNCHANGED <<submission, vouched, request>>

\* runAutoMatchChecks selects what waits, was staged and has a target.
Matchable(r) ==
  /\ r \in Filed
  /\ submission[r].status = "under_review" /\ submission[r].match = "not_attempted"
  /\ submission[r].org # NoOrg /\ submission[r].staged # NoOrg

\* evaluateMatch: only a reference that is on file at the target can be compared.
CanAgree(row) == row.staged = row.org /\ <<row.staged, row.person>> \in reference

\* What was compared agrees or goes to a person; a service that is down says nothing.
MatchRead(h, r, outcome) ==
  /\ Matchable(r)
  /\ outcome = "no_reference" <=> ~CanAgree(submission[r])
  /\ Begin(h, [kind |-> "match", row |-> r, outcome |-> outcome])
  /\ UNCHANGED verificationVars

\* Mutant: UPDATE ... WHERE id=?
StillOpenUnchecked(r) == r \in Filed

\* WHERE match_status='not_attempted' AND status='under_review'
StillOpen(r) ==
  r \in Filed /\ submission[r].match = "not_attempted" /\ submission[r].status = "under_review"

\* autoApprove, unless the request has lost its target meanwhile.
AutoApproved(row) ==
  IF row.org = NoOrg THEN row
  ELSE [row EXCEPT !.match = "auto_matched", !.status = "auto_verified"]

\* What the matcher writes; it forgets the reference only when there was none.
Matched(row, outcome) ==
  CASE outcome = "approve"      -> AutoApproved(row)
    [] outcome = "review"       -> [row EXCEPT !.match = "manual_review"]
    [] outcome = "no_reference" -> [row EXCEPT !.match = "manual_review", !.staged = NoOrg]

MatchWrite(h) ==
  /\ Doing(h, "match")
  /\ LET q   == request[h]
         row == submission[q.row]
     IN IF ~StillOpen(q.row) THEN UNCHANGED <<submission, vouched>>
        ELSE PutSubmissions([submission EXCEPT ![q.row] = Matched(row, q.outcome)])
  /\ End(h)
  /\ UNCHANGED reference

----------------------------------------------------------------------------
\* The submitter's own requests

\* updateMySentRequest: a new target is staged afresh, for that target only.
EditRequestRead(h, r, o, f) ==
  /\ r \in Filed /\ submission[r].status = "under_review"
  /\ LET row == submission[r]
         s   == Staged(o, row.person)
     IN Begin(h, [kind |-> "editRequest", row |-> r, org |-> o, file |-> f,
                  match |-> IF row.org # o THEN MatchOf(s) ELSE row.match,
                  staged |-> IF row.org # o THEN s ELSE row.staged])
  /\ UNCHANGED verificationVars

\* Mutant: the queue of unmatched organizations is forgotten.
EditRequestWriteUnrouted(h) ==
  /\ Doing(h, "editRequest")
  /\ LET q == request[h]
     IN IF q.row \notin Filed THEN UNCHANGED <<submission, vouched>>
        ELSE PutSubmissions([submission EXCEPT ![q.row] =
               [@ EXCEPT !.org = q.org, !.queued = FALSE, !.file = q.file,
                         !.match = q.match, !.staged = q.staged]])
  /\ End(h)
  /\ UNCHANGED reference

\* UPDATE ... WHERE uuid=?, whatever the status has become.
EditRequestWrite(h) ==
  /\ Doing(h, "editRequest")
  /\ LET q == request[h]
     IN IF q.row \notin Filed THEN UNCHANGED <<submission, vouched>>
        ELSE PutSubmissions([submission EXCEPT ![q.row] =
               [@ EXCEPT !.org = q.org, !.queued = q.org = NoOrg, !.file = q.file,
                         !.match = q.match, !.staged = q.staged]])
  /\ End(h)
  /\ UNCHANGED reference

DeleteRead(h, r, kept) ==
  /\ r \in Filed /\ submission[r].status \notin kept
  /\ Begin(h, [kind |-> "deleteRequest", row |-> r])
  /\ UNCHANGED verificationVars

\* The submitter may not delete what a person decided, an administrator not
\* what a person verified.
DeleteMySentRequest(h, r) == DeleteRead(h, r, {"verified", "unverified"})
DeleteRequest(h, r)       == DeleteRead(h, r, {"verified"})

DeleteRequestWrite(h) ==
  /\ Doing(h, "deleteRequest")
  /\ PutSubmissions([submission EXCEPT ![request[h].row] = [status |-> "deleted"]])
  /\ End(h)
  /\ UNCHANGED reference

----------------------------------------------------------------------------
\* Decisions and routing

\* Only a verified request leaves the unmatched queue.
DecideRead(h, r, status, unqueue) ==
  /\ r \in Filed
  /\ submission[r].status \notin {"verified", "unverified"}
  /\ Begin(h, [kind |-> "decide", row |-> r, status |-> status, step |-> "write",
               unqueue |-> IF status = "verified" THEN unqueue ELSE "never"])
  /\ UNCHANGED verificationVars

\* A reviewer of the target, an administrator when the reviewer is late, an
\* administrator for a target that is not registered.
VerifyRequest(h, r, status) ==
  r \in Filed /\ submission[r].org # NoOrg /\ DecideRead(h, r, status, "now")
AdminActOnSlaRequest(h, r, status) ==
  r \in Filed /\ submission[r].org # NoOrg /\ DecideRead(h, r, status, "never")
AdminVerifyUnmatched(h, r, status) ==
  r \in Filed /\ submission[r].org = NoOrg /\ DecideRead(h, r, status, "later")

DecideRequestWrite(h) ==
  /\ Doing(h, "decide") /\ request[h].step = "write"
  /\ LET q == request[h]
     IN /\ IF q.row \notin Filed THEN UNCHANGED <<submission, vouched>>
           ELSE PutSubmissions([submission EXCEPT ![q.row].status = q.status,
                                                ![q.row].queued = @ /\ q.unqueue # "now"])
        /\ IF q.unqueue = "later" THEN Go(h, [q EXCEPT !.step = "unqueue"]) ELSE End(h)
  /\ UNCHANGED reference

\* "A finalized unmatched request leaves the unmatched queue": a second UPDATE.
DecideRequestUnqueue(h) ==
  /\ Doing(h, "decide") /\ request[h].step = "unqueue"
  /\ LET r == request[h].row
     IN IF r \in Filed THEN PutSubmissions([submission EXCEPT ![r].queued = FALSE])
        ELSE UNCHANGED <<submission, vouched>>
  /\ End(h)
  /\ UNCHANGED reference

\* acceptNullOrganizationRequest routes all that wait to one organization.
AssignUnmatched(o) ==
  /\ PutSubmissions([r \in Submissions |->
       IF r \in Filed /\ submission[r].queued /\ submission[r].status = "under_review"
       THEN [submission[r] EXCEPT !.org = o] ELSE submission[r]])
  /\ UNCHANGED <<reference, request>>

VerificationNext ==
  \/ \E o \in Orgs : AssignUnmatched(o) \/ \E p \in People : ChangeReference(o, p)
  \/ \E h \in Requests :
       \/ \E o \in Places, p \in People, f \in Files : SubmitRead(h, o, p, f)
       \/ \E r \in Submissions :
            \/ SubmitInsert(h, r) \/ DeleteMySentRequest(h, r) \/ DeleteRequest(h, r)
            \/ \E outcome \in MatchOutcomes : MatchRead(h, r, outcome)
            \/ \E o \in Places, f \in Files : EditRequestRead(h, r, o, f)
            \/ \E status \in {"verified", "unverified"} :
                 \/ VerifyRequest(h, r, status)
                 \/ AdminActOnSlaRequest(h, r, status)
                 \/ AdminVerifyUnmatched(h, r, status)
       \/ MatchWrite(h) \/ EditRequestWrite(h) \/ DeleteRequestWrite(h)
       \/ DecideRequestWrite(h) \/ DecideRequestUnqueue(h)
       \/ Abandon(h) /\ UNCHANGED verificationVars

VerificationSpec ==
  ServerInit /\ VerificationInit /\ [][VerificationNext]_<<request, verificationVars>>

----------------------------------------------------------------------------
\* What the pages list

\* myInboxRequests, with the automatic outcomes in a ledger of their own.
Inbox(o)      == {r \in Filed : submission[r].org = o /\ submission[r].status # "auto_verified"}
AutoLedger(o) == {r \in Filed : submission[r].org = o /\ submission[r].status = "auto_verified"}

\* listNullOrganizationRequests and getUnmatchedOrgDetail
UnmatchedQueue == {r \in Filed : submission[r].queued /\ submission[r].status # "verified"}

\* Nothing falls between the queues: a request that waits for a decision is in
\* some reviewer's inbox or in the administrators' queue, however edits,
\* assignments and decisions overlap, and an outcome nobody reviewed is in its
\* organization's ledger, or its target was taken from it by a late edit.
NothingFallsBetween ==
  \A r \in Filed :
    /\ submission[r].status = "under_review" =>
         r \in UnmatchedQueue \/ \E o \in Orgs : r \in Inbox(o)
    /\ submission[r].status = "auto_verified" =>
         r \in UnmatchedQueue \/ \E o \in Orgs : r \in AutoLedger(o)

\* A repeat is trusted only for the same person: whatever is born verified was
\* shown before by a verified request of this owner, file and organization
\* (a file identifies a document, never who presents it).
RepeatOfSamePerson ==
  [][\A r \in Submissions :
       (submission[r].status = "absent" /\ submission'[r].status = "auto_verified")
         => <<submission'[r].org, submission'[r].person, submission'[r].file>> \in vouched
    ]_submission

\* A person's decision is not overwritten by the matcher, which compares for
\* seconds while reviewers work ("conditional UPDATEs make concurrent runs safe").
HumanDecisionStands ==
  [][\A r \in Submissions :
       submission[r].status \in {"verified", "unverified"} =>
         submission'[r].status # "auto_verified"]_submission
============================================================================
