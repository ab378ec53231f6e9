----------------------------- MODULE Recruitment -----------------------------
(***************************************************************************)
(* Candidates of one opening: stages, interviews, the prepared offer, its  *)
(* dispatch by mail and the one-shot hire (recruitment.service.js).        *)
(*                                                                         *)
(* Sending and hiring lock the candidate's row for a whole transaction.    *)
(* Moving a stage, editing a candidate and preparing an offer read first   *)
(* and write later, each UPDATE with a condition of its own; an UPDATE     *)
(* waits while a transaction holds the row.  Nothing locks the opening.    *)
(***************************************************************************)
EXTENDS Server, Naturals, FiniteSets

CONSTANTS
  Candidates,
  Slots,          \* interviews of a candidate, numbered by scheduled_at
  Terms,          \* what an offer letter can say
  NoTerms,        \* SQL NULL in offer_body_snapshot
  MaxSeats        \* bound: vacancies of the opening

ASSUME OfferAssumption ==
  /\ Slots \subseteq Nat
  /\ NoTerms \notin Terms
  /\ MaxSeats \in Nat \ {0}

VARIABLES
  opening,        \* job_openings: open or not, and its vacancies
  candidate,      \* candidates, with their interviews
  mailed,         \* the terms of the last offer mail each candidate got
  employed        \* employees rows made out of each candidate

recruitmentVars == <<opening, candidate, mailed, employed>>

Outcomes == {"pending", "passed", "failed"}    \* of a completed interview

CandidateRows ==
  [stage     : {"absent", "applied", "screening", "interview", "selected", "offered",
                "hired", "rejected"},
   interview : [Slots -> {"none", "scheduled", "cancelled"} \union Outcomes],
   offer     : {"none", "ready", "sent", "hired"},
   terms     : Terms \union {NoTerms},
   converted : BOOLEAN]

NoCandidate == [stage |-> "absent", interview |-> [s \in Slots |-> "none"],
                offer |-> "none", terms |-> NoTerms, converted |-> FALSE]

\* ALLOWED_TRANSITIONS
Moves == [applied   |-> {"screening", "rejected"},
          screening |-> {"interview", "selected", "rejected"},
          interview |-> {"selected", "rejected"},
          selected  |-> {"offered", "rejected"},
          offered   |-> {"rejected"}]

RecruitmentRequests ==
  [kind : {"apply"}]
    \union [kind : {"resize"}, seats : 1..MaxSeats]
    \union [kind : {"move"}, candidate : Candidates, from : DOMAIN Moves,
            to : UNION {Moves[s] : s \in DOMAIN Moves}]
    \union [kind : {"edit"}, candidate : Candidates, invalidates : BOOLEAN]
    \union [kind : {"prepare"}, candidate : Candidates, terms : Terms]
    \union [kind : {"send"}, candidate : Candidates, step : {"mail", "commit"}]
    \union [kind : {"hire"}, candidate : Candidates]

RecruitmentTypeOK ==
  /\ opening \in [open : BOOLEAN, seats : 1..MaxSeats]
  /\ candidate \in [Candidates -> CandidateRows]
  /\ mailed \in [Candidates -> Terms \union {NoTerms}]
  /\ employed \in [Candidates -> Nat]
  /\ request \in [Requests -> {Idle} \union RecruitmentRequests]

RecruitmentInit ==
  /\ opening = [open |-> TRUE, seats |-> 1]
  /\ candidate = [c \in Candidates |-> NoCandidate]
  /\ mailed = [c \in Candidates |-> NoTerms]
  /\ employed = [c \in Candidates |-> 0]

----------------------------------------------------------------------------
Hired    == {c \in Candidates : candidate[c].stage = "hired"}
InOffer  == {"selected", "offered"}

\* Some transaction holds the candidate's row.
LockedBy(c, kinds) == \E g \in Requests : request[g].kind \in kinds /\ request[g].candidate = c

\* Mutant: sendOffer reads the candidate without FOR UPDATE.
LockedSendNot(c) == LockedBy(c, {"hire"})

Locked(c) == LockedBy(c, {"send", "hire"})

\* The outcome of the completed interview that was scheduled last.
Completed(c)   == {s \in Slots : candidate[c].interview[s] \in Outcomes}
LastOutcome(c) == IF Completed(c) = {} THEN "none"
                  ELSE candidate[c].interview[CHOOSE s \in Completed(c) :
                                                \A t \in Completed(c) : t <= s]
FeedbackRecorded(c) == LastOutcome(c) \in {"passed", "failed"}

\* createOpening and the status field of updateOpening
SwitchOpening ==
  /\ opening' = [opening EXCEPT !.open = ~@]
  /\ UNCHANGED <<candidate, mailed, employed, request>>

\* The vacancies field of updateOpening: not below the hires it counted.
ResizeRead(h, n) ==
  /\ n # opening.seats /\ n >= Cardinality(Hired)
  /\ Begin(h, [kind |-> "resize", seats |-> n])
  /\ UNCHANGED recruitmentVars

ResizeWrite(h) ==
  /\ Doing(h, "resize")
  /\ opening' = [opening EXCEPT !.seats = request[h].seats]
  /\ End(h)
  /\ UNCHANGED <<candidate, mailed, employed>>

\* createCandidate: the opening must be open when it is read.
ApplyRead(h) ==
  /\ opening.open
  /\ Begin(h, [kind |-> "apply"])
  /\ UNCHANGED recruitmentVars

ApplyInsert(h, c) ==
  /\ Doing(h, "apply")
  /\ candidate[c] = NoCandidate
  /\ candidate' = [candidate EXCEPT ![c].stage = "applied"]
  /\ End(h)
  /\ UNCHANGED <<opening, mailed, employed>>

----------------------------------------------------------------------------
\* Stages and interviews

MoveRead(h, c, to) ==
  /\ candidate[c].stage \in DOMAIN Moves
  /\ to \in Moves[candidate[c].stage]
  /\ to \in InOffer => FeedbackRecorded(c)
  /\ Begin(h, [kind |-> "move", candidate |-> c, from |-> candidate[c].stage, to |-> to])
  /\ UNCHANGED recruitmentVars

\* UPDATE ... WHERE uuid=? AND stage=?
MoveWrite(h) ==
  /\ Doing(h, "move")
  /\ LET r == request[h]
     IN /\ ~Locked(r.candidate)
        /\ candidate' = IF candidate[r.candidate].stage = r.from
                        THEN [candidate EXCEPT ![r.candidate].stage = r.to] ELSE candidate
  /\ End(h)
  /\ UNCHANGED <<opening, mailed, employed>>

ScheduleInterview(c, s) ==
  /\ candidate[c].stage \in {"interview"} \union InOffer
  /\ candidate[c].interview[s] = "none"
  /\ candidate' = [candidate EXCEPT ![c].interview[s] = "scheduled"]
  /\ UNCHANGED <<opening, mailed, employed, request>>

\* recordInterviewFeedback: UPDATE ... WHERE status <> 'completed'
RecordFeedback(c, s, result) ==
  /\ candidate[c].interview[s] \in {"scheduled", "cancelled"}
  /\ candidate' = [candidate EXCEPT ![c].interview[s] = result]
  /\ UNCHANGED <<opening, mailed, employed, request>>

----------------------------------------------------------------------------
\* The offer

\* updateCandidate: a prepared offer is dropped, if there was one when it read.
EditRead(h, c) ==
  /\ candidate[c].stage \notin {"absent", "hired"}
  /\ candidate[c].offer \notin {"sent", "hired"}
  /\ Begin(h, [kind |-> "edit", candidate |-> c, invalidates |-> candidate[c].offer # "none"])
  /\ UNCHANGED recruitmentVars

EditWrite(h) ==
  /\ Doing(h, "edit")
  /\ LET r == request[h]
     IN /\ ~Locked(r.candidate)
        /\ candidate' = IF r.invalidates
                        THEN [candidate EXCEPT ![r.candidate].stage = "selected",
                                               ![r.candidate].offer = "none",
                                               ![r.candidate].terms = NoTerms]
                        ELSE candidate
  /\ End(h)
  /\ UNCHANGED <<opening, mailed, employed>>

\* startCandidateOffer: the checks and the rendered snapshot, then the UPDATE
\* WHERE stage IN ('selected','offered').
PrepareRead(h, c, t) ==
  /\ candidate[c].stage \in InOffer
  /\ FeedbackRecorded(c)
  /\ candidate[c].offer \notin {"sent", "hired"}
  /\ candidate[c].offer = "ready" => candidate[c].terms # t
  /\ Begin(h, [kind |-> "prepare", candidate |-> c, terms |-> t])
  /\ UNCHANGED recruitmentVars

PrepareWrite(h) ==
  /\ Doing(h, "prepare")
  /\ LET r == request[h]
         c == r.candidate
     IN /\ ~Locked(c)
        /\ candidate' = IF candidate[c].stage \in InOffer
                        THEN [candidate EXCEPT ![c].stage = "offered", ![c].offer = "ready",
                                               ![c].terms = r.terms]
                        ELSE candidate
  /\ End(h)
  /\ UNCHANGED <<opening, mailed, employed>>

\* sendOffer: SELECT ... FOR UPDATE, then the mail, then status and commit.
SendRead(h, c) ==
  /\ ~Locked(c)
  /\ candidate[c].stage \in InOffer
  /\ FeedbackRecorded(c)
  /\ candidate[c].offer \in {"ready", "sent"}
  /\ Begin(h, [kind |-> "send", candidate |-> c, step |-> "mail"])
  /\ UNCHANGED recruitmentVars

SendMail(h) ==
  /\ Doing(h, "send") /\ request[h].step = "mail"
  /\ LET c == request[h].candidate IN mailed' = [mailed EXCEPT ![c] = candidate[c].terms]
  /\ Go(h, [request[h] EXCEPT !.step = "commit"])
  /\ UNCHANGED <<opening, candidate, employed>>

SendCommit(h) ==
  /\ Doing(h, "send") /\ request[h].step = "commit"
  /\ LET c == request[h].candidate
     IN candidate' = IF candidate[c].stage \in InOffer /\ candidate[c].offer \in {"ready", "sent"}
                     THEN [candidate EXCEPT ![c].offer = "sent"] ELSE candidate
  /\ End(h)
  /\ UNCHANGED <<opening, mailed, employed>>

----------------------------------------------------------------------------
\* The hire: one transaction, the candidate's row locked

\* Mutant: only the offer is looked at, and a hired one passes again.
ConvertibleAgain(c) == candidate[c].offer \in {"sent", "hired"}

\* The preconditions, checked after the lock and again by the final UPDATE.
Convertible(c) ==
  /\ candidate[c].stage \in InOffer /\ candidate[c].offer = "sent"
  /\ ~candidate[c].converted

\* Up to the count of the seats; an opening may want the interview passed.
HireRead(h, c) ==
  /\ ~Locked(c)
  /\ Convertible(c)
  /\ FeedbackRecorded(c)
  /\ Cardinality(Hired) < opening.seats
  /\ Begin(h, [kind |-> "hire", candidate |-> c])
  /\ UNCHANGED recruitmentVars

\* The employee, the final UPDATE and the commit; or it all rolls back.
HireCommit(h) ==
  /\ Doing(h, "hire")
  /\ LET c == request[h].candidate
     IN IF Convertible(c)
        THEN /\ candidate' = [candidate EXCEPT ![c].stage = "hired", ![c].offer = "hired",
                                               ![c].converted = TRUE]
             /\ employed' = [employed EXCEPT ![c] = @ + 1]
        ELSE UNCHANGED <<candidate, employed>>
  /\ End(h)
  /\ UNCHANGED <<opening, mailed>>

RecruitmentNext ==
  \/ SwitchOpening
  \/ \E h \in Requests :
       \/ \E n \in 1..MaxSeats : ResizeRead(h, n)
       \/ ResizeWrite(h) \/ ApplyRead(h)
       \/ \E c \in Candidates :
            \/ ApplyInsert(h, c) \/ EditRead(h, c) \/ SendRead(h, c) \/ HireRead(h, c)
            \/ \E to \in UNION {Moves[s] : s \in DOMAIN Moves} : MoveRead(h, c, to)
            \/ \E t \in Terms : PrepareRead(h, c, t)
       \/ MoveWrite(h) \/ EditWrite(h) \/ PrepareWrite(h)
       \/ SendMail(h) \/ SendCommit(h) \/ HireCommit(h)
       \/ Abandon(h) /\ UNCHANGED recruitmentVars
  \/ \E c \in Candidates, s \in Slots :
       \/ ScheduleInterview(c, s)
       \/ \E result \in {"scheduled", "cancelled"} \union Outcomes : RecordFeedback(c, s, result)

RecruitmentSpec ==
  ServerInit /\ RecruitmentInit /\ [][RecruitmentNext]_<<request, recruitmentVars>>

----------------------------------------------------------------------------
\* A candidate becomes an employee once, even when a late edit takes a hired
\* one back to 'selected' and a new offer is prepared and sent.
OneEmployeePerCandidate == \A c \in Candidates : employed[c] <= 1

\* An offer counts as sent only with the terms that were mailed last: it is
\* those the hire is made on, not terms prepared while the mail was going out.
SentIsWhatWasMailed ==
  \A c \in Candidates :
    candidate[c].offer \in {"sent", "hired"} => mailed[c] = candidate[c].terms

\* "two recruiters hiring for a one-seat opening cannot both pass the check"
\* (hireCandidateInTransaction): hires never exceed the vacancies.
SeatsSuffice == Cardinality(Hired) <= opening.seats
============================================================================
