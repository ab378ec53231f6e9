-------------------------------- MODULE Hiring_proofs --------------------------
(* Who comes in: candidates and their offers, the accounts of employees and   *)
(* administrators, and the letters that are signed for them.                  *)
EXTENDS Recruitment, Accounts, HrLetters, TLAPS

----------------------------------------------------------------------------
\* Recruitment.

\* The flag that is never taken back counts the employees made of a candidate.
ConversionsCounted == \A c \in Candidates : employed[c] = IF candidate[c].converted THEN 1 ELSE 0

\* Between the mail and the commit of sendOffer the terms stay what was mailed.
SendersAgree ==
  \A h \in Requests : Doing(h, "send") /\ request[h].step = "commit" =>
    mailed[request[h].candidate] = candidate[request[h].candidate].terms

RecruitmentInv ==
  RecruitmentTypeOK /\ ConversionsCounted /\ SentIsWhatWasMailed /\ SendersAgree

Stages == {"absent", "applied", "screening", "interview", "selected", "offered", "hired",
           "rejected"}

LEMMA MovesAreStages ==
  DOMAIN Moves \subseteq Stages /\ UNION {Moves[s] : s \in DOMAIN Moves} \subseteq Stages
<1>1. DOMAIN Moves = {"applied", "screening", "interview", "selected", "offered"}
  BY DEF Moves
<1>2. \A s \in DOMAIN Moves : Moves[s] \subseteq Stages
  BY <1>1 DEF Moves, Stages
<1> QED BY <1>1, <1>2 DEF Stages

LEMMA InitRecruitment == ASSUME ServerInit, RecruitmentInit PROVE RecruitmentInv
<1>1. NoCandidate \in CandidateRows
  BY DEF NoCandidate, CandidateRows
<1>2. RecruitmentTypeOK
  BY <1>1, OfferAssumption DEF ServerInit, RecruitmentInit, RecruitmentTypeOK
<1>3. ConversionsCounted /\ SentIsWhatWasMailed
  BY DEF RecruitmentInit, NoCandidate, ConversionsCounted, SentIsWhatWasMailed
<1>4. SendersAgree
  BY DEF ServerInit, Idle, Doing, SendersAgree
<1> QED BY <1>2, <1>3, <1>4 DEF RecruitmentInv

\* Whoever sends the offer of a candidate goes on doing so, or ends.
SendersStay ==
  /\ request' \in [Requests -> {Idle} \union RecruitmentRequests]
  /\ \A g \in Requests : Doing(g, "send")' /\ request'[g].step = "commit" =>
       Doing(g, "send") /\ request'[g] = request[g]

LEMMA EndStays == ASSUME RecruitmentInv, NEW h \in Requests, End(h) PROVE SendersStay
BY DEF End, RecruitmentInv, RecruitmentTypeOK, SendersStay, Doing, Idle

LEMMA BeginStays ==
  ASSUME RecruitmentInv, NEW h \in Requests, NEW r \in RecruitmentRequests, Begin(h, r),
         r.kind # "send" \/ r.step = "mail"
  PROVE  SendersStay
BY DEF Begin, RecruitmentInv, RecruitmentTypeOK, SendersStay, Doing

\* Candidates, mails and employees stay.
LEMMA CandidatesStay ==
  ASSUME RecruitmentInv, SendersStay, UNCHANGED <<candidate, mailed, employed>>,
         opening' \in [open : BOOLEAN, seats : 1..MaxSeats]
  PROVE  RecruitmentInv'
BY DEF RecruitmentInv, RecruitmentTypeOK, ConversionsCounted, SentIsWhatWasMailed, SendersAgree,
       SendersStay, Doing

\* The row of one candidate is written: its terms only while nobody holds the row.
LEMMA CandidateWritten ==
  ASSUME RecruitmentInv, SendersStay, UNCHANGED <<opening, mailed>>,
         NEW c \in Candidates, NEW row \in CandidateRows,
         candidate' = [candidate EXCEPT ![c] = row],
         employed' \in [Candidates -> Nat],
         employed'[c] = IF row.converted THEN 1 ELSE 0,
         \A d \in Candidates : d # c => employed'[d] = employed[d],
         row.offer \in {"sent", "hired"} => mailed[c] = row.terms,
         row.terms = candidate[c].terms \/ ~Locked(c)
  PROVE  RecruitmentInv'
<1>1. \A d \in Candidates : candidate'[d] = IF d = c THEN row ELSE candidate[d]
  BY DEF RecruitmentInv, RecruitmentTypeOK
<1>2. RecruitmentTypeOK'
  BY DEF RecruitmentInv, RecruitmentTypeOK, SendersStay
<1>3. ConversionsCounted' /\ SentIsWhatWasMailed'
  BY <1>1 DEF RecruitmentInv, ConversionsCounted, SentIsWhatWasMailed
<1>4. SendersAgree'
  <2> SUFFICES ASSUME NEW h \in Requests, Doing(h, "send")', request'[h].step = "commit"
               PROVE  mailed[request'[h].candidate] = candidate'[request'[h].candidate].terms
    BY DEF SendersAgree
  <2> DEFINE d == request[h].candidate
  <2>1. Doing(h, "send") /\ request'[h] = request[h] /\ mailed[d] = candidate[d].terms
    BY DEF SendersStay, RecruitmentInv, SendersAgree
  <2>2. d \in Candidates
    BY <2>1 DEF Doing, RecruitmentInv, RecruitmentTypeOK, RecruitmentRequests, Idle
  <2>3. d = c => Locked(c)
    BY <2>1 DEF Locked, LockedBy, Doing
  <2> QED BY <1>1, <2>1, <2>2, <2>3
<1> QED BY <1>2, <1>3, <1>4 DEF RecruitmentInv

\* A write that touches neither the conversion nor what was mailed.
LEMMA CandidateEdited ==
  ASSUME RecruitmentInv, SendersStay, UNCHANGED <<opening, mailed, employed>>,
         NEW c \in Candidates, NEW row \in CandidateRows,
         candidate' = [candidate EXCEPT ![c] = row],
         row.converted = candidate[c].converted,
         \/ row.offer \notin {"sent", "hired"}
         \/ row.offer = candidate[c].offer /\ row.terms = candidate[c].terms,
         row.terms = candidate[c].terms \/ ~Locked(c)
  PROVE  RecruitmentInv'
<1>1. /\ employed' \in [Candidates -> Nat]
      /\ employed'[c] = IF row.converted THEN 1 ELSE 0
      /\ row.offer \in {"sent", "hired"} => mailed[c] = row.terms
  BY DEF RecruitmentInv, RecruitmentTypeOK, ConversionsCounted, SentIsWhatWasMailed
<1> QED BY <1>1, CandidateWritten

LEMMA RowTyped ==
  ASSUME RecruitmentInv, NEW c \in Candidates
  PROVE  /\ candidate[c] \in CandidateRows
         /\ \A stage \in Stages : LET row == [candidate[c] EXCEPT !.stage = stage]
              IN /\ row \in CandidateRows /\ row.stage = stage
                 /\ row.converted = candidate[c].converted
                 /\ row.offer = candidate[c].offer /\ row.terms = candidate[c].terms
         /\ \A s \in Slots, i \in {"none", "scheduled", "cancelled"} \union Outcomes :
              LET row == [candidate[c] EXCEPT !.interview[s] = i]
              IN /\ row \in CandidateRows
                 /\ row.converted = candidate[c].converted
                 /\ row.offer = candidate[c].offer /\ row.terms = candidate[c].terms
<1>1. candidate[c] \in CandidateRows
  BY DEF RecruitmentInv, RecruitmentTypeOK
<1>2. ASSUME NEW s \in Slots, NEW i \in {"none", "scheduled", "cancelled"} \union Outcomes
      PROVE  [candidate[c].interview EXCEPT ![s] = i]
               \in [Slots -> {"none", "scheduled", "cancelled"} \union Outcomes]
  BY <1>1 DEF CandidateRows
<1>3. ASSUME NEW s \in Slots, NEW i \in {"none", "scheduled", "cancelled"} \union Outcomes
      PROVE  LET row == [candidate[c] EXCEPT !.interview[s] = i]
              IN /\ row \in CandidateRows
                 /\ row.converted = candidate[c].converted
                 /\ row.offer = candidate[c].offer /\ row.terms = candidate[c].terms
  <2>1. [candidate[c] EXCEPT !.interview[s] = i]
          = [candidate[c] EXCEPT !.interview = [candidate[c].interview EXCEPT ![s] = i]]
    OBVIOUS
  <2> QED BY <1>1, <1>2, <2>1 DEF CandidateRows
<1> QED BY <1>1, <1>3 DEF CandidateRows, Stages

\* The mail goes out with the terms the row holds while it is locked.
LEMMA MailGoesOut ==
  ASSUME RecruitmentInv, NEW h \in Requests, SendMail(h)
  PROVE  RecruitmentInv'
<1> DEFINE c == request[h].candidate
           next == [request[h] EXCEPT !.step = "commit"]
<1>1. c \in Candidates /\ candidate[c] \in CandidateRows
  BY DEF SendMail, Doing, RecruitmentInv, RecruitmentTypeOK, RecruitmentRequests, Idle
<1>2. next \in RecruitmentRequests /\ next.kind = "send" /\ next.candidate = c
  BY DEF SendMail, Doing, RecruitmentInv, RecruitmentTypeOK, RecruitmentRequests, Idle
<1>3. /\ mailed' \in [Candidates -> Terms \union {NoTerms}]
      /\ \A d \in Candidates : mailed'[d] = IF d = c THEN candidate[c].terms ELSE mailed[d]
  BY <1>1 DEF SendMail, RecruitmentInv, RecruitmentTypeOK, CandidateRows
<1>4. \A g \in Requests : request'[g] = IF g = h THEN next ELSE request[g]
  BY DEF SendMail, Go, RecruitmentInv, RecruitmentTypeOK
<1> HIDE DEF c, next
<1>5. RecruitmentTypeOK'
  <2>1. request' \in [Requests -> {Idle} \union RecruitmentRequests]
    BY <1>2 DEF SendMail, Go, RecruitmentInv, RecruitmentTypeOK, next
  <2> QED BY <1>3, <2>1 DEF SendMail, RecruitmentInv, RecruitmentTypeOK
<1>6. ConversionsCounted' /\ SentIsWhatWasMailed'
  BY <1>3 DEF SendMail, RecruitmentInv, ConversionsCounted, SentIsWhatWasMailed
<1>7. SendersAgree'
  <2> SUFFICES ASSUME NEW g \in Requests, request'[g].kind = "send", request'[g].step = "commit"
               PROVE  mailed'[request'[g].candidate] = candidate[request'[g].candidate].terms
    BY DEF SendersAgree, Doing, SendMail
  <2>1. CASE g = h
    BY <2>1, <1>1, <1>2, <1>3, <1>4
  <2>2. CASE g # h
    <3> DEFINE d == request[g].candidate
    <3>1. request'[g] = request[g]
      BY <1>4, <2>2
    <3>2. d \in Candidates /\ mailed[d] = candidate[d].terms
      BY <3>1 DEF RecruitmentInv, RecruitmentTypeOK, SendersAgree, Doing, RecruitmentRequests, Idle
    <3> QED BY <1>3, <3>1, <3>2
  <2> QED BY <2>1, <2>2
<1> QED BY <1>5, <1>6, <1>7 DEF RecruitmentInv

LEMMA StepRecruitment ==
  ASSUME RecruitmentInv, [RecruitmentNext]_<<request, recruitmentVars>>
  PROVE  RecruitmentInv'
<1> USE OfferAssumption
<1>1. CASE SwitchOpening
  <2>1. SendersStay
    BY <1>1 DEF SwitchOpening, RecruitmentInv, RecruitmentTypeOK, SendersStay, Doing
  <2> QED BY <1>1, <2>1, CandidatesStay
        DEF SwitchOpening, RecruitmentInv, RecruitmentTypeOK
<1>2. ASSUME NEW h \in Requests, NEW n \in 1..MaxSeats, ResizeRead(h, n) PROVE RecruitmentInv'
  <2>1. [kind |-> "resize", seats |-> n] \in RecruitmentRequests
    BY DEF RecruitmentRequests
  <2>2. SendersStay
    BY <1>2, <2>1, BeginStays DEF ResizeRead
  <2> QED BY <1>2, <2>2, CandidatesStay
        DEF ResizeRead, recruitmentVars, RecruitmentInv, RecruitmentTypeOK
<1>3. ASSUME NEW h \in Requests, ResizeWrite(h) PROVE RecruitmentInv'
  <2>1. request[h].seats \in 1..MaxSeats
    BY <1>3 DEF ResizeWrite, Doing, RecruitmentInv, RecruitmentTypeOK, RecruitmentRequests, Idle
  <2>2. SendersStay
    BY <1>3, EndStays DEF ResizeWrite
  <2> QED BY <1>3, <2>1, <2>2, CandidatesStay
        DEF ResizeWrite, RecruitmentInv, RecruitmentTypeOK
<1>4. ASSUME NEW h \in Requests, ApplyRead(h) PROVE RecruitmentInv'
  <2>1. [kind |-> "apply"] \in RecruitmentRequests
    BY DEF RecruitmentRequests
  <2>2. SendersStay
    BY <1>4, <2>1, BeginStays DEF ApplyRead
  <2> QED BY <1>4, <2>2, CandidatesStay
        DEF ApplyRead, recruitmentVars, RecruitmentInv, RecruitmentTypeOK
<1>5. ASSUME NEW h \in Requests, NEW c \in Candidates, ApplyInsert(h, c) PROVE RecruitmentInv'
  <2> DEFINE row == [candidate[c] EXCEPT !.stage = "applied"]
  <2>1. /\ row \in CandidateRows /\ row.converted = candidate[c].converted
        /\ row.offer = candidate[c].offer /\ row.terms = candidate[c].terms
    BY RowTyped DEF Stages
  <2>2. candidate' = [candidate EXCEPT ![c] = row]
    BY <1>5 DEF ApplyInsert
  <2>3. SendersStay
    BY <1>5, EndStays DEF ApplyInsert
  <2> HIDE DEF row
  <2> QED BY <1>5, <2>1, <2>2, <2>3, CandidateEdited DEF ApplyInsert
<1>6. ASSUME NEW h \in Requests, NEW c \in Candidates,
             NEW to \in UNION {Moves[s] : s \in DOMAIN Moves}, MoveRead(h, c, to)
      PROVE RecruitmentInv'
  <2>1. [kind |-> "move", candidate |-> c, from |-> candidate[c].stage, to |-> to]
          \in RecruitmentRequests
    BY <1>6 DEF MoveRead, RecruitmentRequests
  <2>2. SendersStay
    BY <1>6, <2>1, BeginStays DEF MoveRead
  <2> QED BY <1>6, <2>2, CandidatesStay
        DEF MoveRead, recruitmentVars, RecruitmentInv, RecruitmentTypeOK
<1>7. ASSUME NEW h \in Requests, MoveWrite(h) PROVE RecruitmentInv'
  <2> DEFINE c == request[h].candidate
             stage == request[h].to
             row == [candidate[c] EXCEPT !.stage = stage]
  <2>1. c \in Candidates /\ stage \in Stages
    BY <1>7, MovesAreStages
       DEF MoveWrite, Doing, RecruitmentInv, RecruitmentTypeOK, RecruitmentRequests, Idle
  <2>2. /\ row \in CandidateRows /\ row.converted = candidate[c].converted
        /\ row.offer = candidate[c].offer /\ row.terms = candidate[c].terms
    BY <2>1, RowTyped
  <2>3. candidate' = candidate \/ candidate' = [candidate EXCEPT ![c] = row]
    BY <1>7 DEF MoveWrite
  <2>4. SendersStay
    BY <1>7, EndStays DEF MoveWrite
  <2> HIDE DEF row, c, stage
  <2>5. CASE candidate' = candidate
    BY <1>7, <2>4, <2>5, CandidatesStay DEF MoveWrite, RecruitmentInv, RecruitmentTypeOK
  <2>6. CASE candidate' = [candidate EXCEPT ![c] = row]
    BY <1>7, <2>1, <2>2, <2>4, <2>6, CandidateEdited DEF MoveWrite
  <2> QED BY <2>3, <2>5, <2>6
<1>8. ASSUME NEW c \in Candidates, NEW s \in Slots, ScheduleInterview(c, s)
      PROVE RecruitmentInv'
  <2> DEFINE row == [candidate[c] EXCEPT !.interview[s] = "scheduled"]
  <2>1. /\ row \in CandidateRows /\ row.converted = candidate[c].converted
        /\ row.offer = candidate[c].offer /\ row.terms = candidate[c].terms
    BY RowTyped
  <2>2. candidate' = [candidate EXCEPT ![c] = row]
    BY <1>8 DEF ScheduleInterview
  <2>3. SendersStay
    BY <1>8 DEF ScheduleInterview, RecruitmentInv, RecruitmentTypeOK, SendersStay, Doing
  <2> HIDE DEF row
  <2> QED BY <1>8, <2>1, <2>2, <2>3, CandidateEdited DEF ScheduleInterview
<1>9. ASSUME NEW c \in Candidates, NEW s \in Slots,
             NEW i \in {"scheduled", "cancelled"} \union Outcomes, RecordFeedback(c, s, i)
      PROVE RecruitmentInv'
  <2> DEFINE row == [candidate[c] EXCEPT !.interview[s] = i]
  <2>1. /\ row \in CandidateRows /\ row.converted = candidate[c].converted
        /\ row.offer = candidate[c].offer /\ row.terms = candidate[c].terms
    BY RowTyped
  <2>2. candidate' = [candidate EXCEPT ![c] = row]
    BY <1>9 DEF RecordFeedback
  <2>3. SendersStay
    BY <1>9 DEF RecordFeedback, RecruitmentInv, RecruitmentTypeOK, SendersStay, Doing
  <2> HIDE DEF row
  <2> QED BY <1>9, <2>1, <2>2, <2>3, CandidateEdited DEF RecordFeedback
<1>10. ASSUME NEW h \in Requests, NEW c \in Candidates, EditRead(h, c) PROVE RecruitmentInv'
  <2>1. [kind |-> "edit", candidate |-> c, invalidates |-> candidate[c].offer # "none"]
          \in RecruitmentRequests
    BY DEF RecruitmentRequests
  <2>2. SendersStay
    BY <1>10, <2>1, BeginStays DEF EditRead
  <2> QED BY <1>10, <2>2, CandidatesStay
        DEF EditRead, recruitmentVars, RecruitmentInv, RecruitmentTypeOK
<1>11. ASSUME NEW h \in Requests, EditWrite(h) PROVE RecruitmentInv'
  <2> DEFINE c == request[h].candidate
             row == [candidate[c] EXCEPT !.stage = "selected", !.offer = "none",
                                         !.terms = NoTerms]
  <2>1. c \in Candidates /\ ~Locked(c)
    BY <1>11
       DEF EditWrite, Doing, RecruitmentInv, RecruitmentTypeOK, RecruitmentRequests, Idle
  <2>2. row \in CandidateRows /\ row.converted = candidate[c].converted /\ row.offer = "none"
    <3>1. candidate[c] \in CandidateRows
      BY <2>1, RowTyped
    <3> QED BY <2>1, <3>1 DEF CandidateRows
  <2>3. candidate' = candidate \/ candidate' = [candidate EXCEPT ![c] = row]
    BY <1>11 DEF EditWrite
  <2>4. SendersStay
    BY <1>11, EndStays DEF EditWrite
  <2> HIDE DEF row, c
  <2>5. CASE candidate' = candidate
    BY <1>11, <2>4, <2>5, CandidatesStay DEF EditWrite, RecruitmentInv, RecruitmentTypeOK
  <2>6. CASE candidate' = [candidate EXCEPT ![c] = row]
    BY <1>11, <2>1, <2>2, <2>4, <2>6, CandidateEdited DEF EditWrite
  <2> QED BY <2>3, <2>5, <2>6
<1>12. ASSUME NEW h \in Requests, NEW c \in Candidates, NEW t \in Terms, PrepareRead(h, c, t)
       PROVE RecruitmentInv'
  <2>1. [kind |-> "prepare", candidate |-> c, terms |-> t] \in RecruitmentRequests
    BY DEF RecruitmentRequests
  <2>2. SendersStay
    BY <1>12, <2>1, BeginStays DEF PrepareRead
  <2> QED BY <1>12, <2>2, CandidatesStay
        DEF PrepareRead, recruitmentVars, RecruitmentInv, RecruitmentTypeOK
<1>13. ASSUME NEW h \in Requests, PrepareWrite(h) PROVE RecruitmentInv'
  <2> DEFINE c == request[h].candidate
             t == request[h].terms
             row == [candidate[c] EXCEPT !.stage = "offered", !.offer = "ready", !.terms = t]
  <2>1. c \in Candidates /\ t \in Terms /\ ~Locked(c)
    BY <1>13
       DEF PrepareWrite, Doing, RecruitmentInv, RecruitmentTypeOK, RecruitmentRequests, Idle
  <2>2. row \in CandidateRows /\ row.converted = candidate[c].converted /\ row.offer = "ready"
    <3>1. candidate[c] \in CandidateRows
      BY <2>1, RowTyped
    <3> QED BY <2>1, <3>1 DEF CandidateRows
  <2>3. candidate' = candidate \/ candidate' = [candidate EXCEPT ![c] = row]
    BY <1>13 DEF PrepareWrite
  <2>4. SendersStay
    BY <1>13, EndStays DEF PrepareWrite
  <2> HIDE DEF row, c, t
  <2>5. CASE candidate' = candidate
    BY <1>13, <2>4, <2>5, CandidatesStay DEF PrepareWrite, RecruitmentInv, RecruitmentTypeOK
  <2>6. CASE candidate' = [candidate EXCEPT ![c] = row]
    BY <1>13, <2>1, <2>2, <2>4, <2>6, CandidateEdited DEF PrepareWrite
  <2> QED BY <2>3, <2>5, <2>6
<1>14. ASSUME NEW h \in Requests, NEW c \in Candidates, SendRead(h, c) PROVE RecruitmentInv'
  <2>1. [kind |-> "send", candidate |-> c, step |-> "mail"] \in RecruitmentRequests
    BY DEF RecruitmentRequests
  <2>2. SendersStay
    BY <1>14, <2>1, BeginStays DEF SendRead
  <2> QED BY <1>14, <2>2, CandidatesStay
        DEF SendRead, recruitmentVars, RecruitmentInv, RecruitmentTypeOK
<1>15. ASSUME NEW h \in Requests, SendCommit(h) PROVE RecruitmentInv'
  <2> DEFINE c == request[h].candidate
             row == [candidate[c] EXCEPT !.offer = "sent"]
  <2>1. c \in Candidates /\ mailed[c] = candidate[c].terms
    BY <1>15 DEF SendCommit, SendersAgree, Doing, RecruitmentInv, RecruitmentTypeOK,
                 RecruitmentRequests, Idle
  <2>2. /\ row \in CandidateRows /\ row.converted = candidate[c].converted
        /\ row.terms = candidate[c].terms
    <3>1. candidate[c] \in CandidateRows
      BY <2>1, RowTyped
    <3> QED BY <3>1 DEF CandidateRows
  <2>3. candidate' = candidate \/ candidate' = [candidate EXCEPT ![c] = row]
    BY <1>15 DEF SendCommit
  <2>4. SendersStay
    BY <1>15, EndStays DEF SendCommit
  <2>5. /\ employed' \in [Candidates -> Nat]
        /\ employed'[c] = IF row.converted THEN 1 ELSE 0
    BY <1>15, <2>1, <2>2
       DEF SendCommit, RecruitmentInv, RecruitmentTypeOK, ConversionsCounted
  <2> HIDE DEF row, c
  <2>6. CASE candidate' = candidate
    BY <1>15, <2>4, <2>6, CandidatesStay DEF SendCommit, RecruitmentInv, RecruitmentTypeOK
  <2>7. CASE candidate' = [candidate EXCEPT ![c] = row]
    BY <1>15, <2>1, <2>2, <2>4, <2>5, <2>7, CandidateWritten DEF SendCommit
  <2> QED BY <2>3, <2>6, <2>7
<1>16. ASSUME NEW h \in Requests, NEW c \in Candidates, HireRead(h, c) PROVE RecruitmentInv'
  <2>1. [kind |-> "hire", candidate |-> c] \in RecruitmentRequests
    BY DEF RecruitmentRequests
  <2>2. SendersStay
    BY <1>16, <2>1, BeginStays DEF HireRead
  <2> QED BY <1>16, <2>2, CandidatesStay
        DEF HireRead, recruitmentVars, RecruitmentInv, RecruitmentTypeOK
<1>17. ASSUME NEW h \in Requests, HireCommit(h) PROVE RecruitmentInv'
  <2> DEFINE c == request[h].candidate
             row == [candidate[c] EXCEPT !.stage = "hired", !.offer = "hired",
                                         !.converted = TRUE]
  <2>1. c \in Candidates
    BY <1>17 DEF HireCommit, Doing, RecruitmentInv, RecruitmentTypeOK, RecruitmentRequests, Idle
  <2>2. SendersStay
    BY <1>17, EndStays DEF HireCommit
  <2>3. CASE Convertible(c)
    <3>1. /\ row \in CandidateRows /\ row.converted
          /\ row.terms = candidate[c].terms
      <4>1. candidate[c] \in CandidateRows
        BY <2>1, RowTyped
      <4> QED BY <4>1 DEF CandidateRows
    <3>2. mailed[c] = candidate[c].terms /\ employed[c] = 0
      BY <2>1, <2>3 DEF Convertible, RecruitmentInv, SentIsWhatWasMailed, ConversionsCounted
    <3>3. /\ candidate' = [candidate EXCEPT ![c].stage = "hired", ![c].offer = "hired",
                                           ![c].converted = TRUE]
          /\ employed' = [employed EXCEPT ![c] = @ + 1]
      BY <1>17, <2>3 DEF HireCommit
    <3>4. candidate' = [candidate EXCEPT ![c] = row] /\ employed' = [employed EXCEPT ![c] = 1]
      <4>1. candidate \in [Candidates -> CandidateRows] /\ employed \in [Candidates -> Nat]
        BY DEF RecruitmentInv, RecruitmentTypeOK
      <4>2. candidate' = [candidate EXCEPT ![c] = row]
        BY <2>1, <3>3, <4>1, Zenon
      <4> HIDE DEF c, row
      <4>3. employed' = [employed EXCEPT ![c] = 1]
        BY <2>1, <3>2, <3>3, <4>1
      <4> QED BY <4>2, <4>3
    <3>5. /\ employed' \in [Candidates -> Nat] /\ employed'[c] = 1
          /\ \A d \in Candidates : d # c => employed'[d] = employed[d]
      BY <2>1, <3>4 DEF RecruitmentInv, RecruitmentTypeOK
    <3> HIDE DEF row, c
    <3> QED BY <1>17, <2>1, <2>2, <3>1, <3>2, <3>4, <3>5, CandidateWritten DEF HireCommit
  <2>4. CASE ~Convertible(c)
    BY <1>17, <2>2, <2>4, CandidatesStay DEF HireCommit, RecruitmentInv, RecruitmentTypeOK
  <2> QED BY <2>3, <2>4
<1>18. ASSUME NEW h \in Requests, Abandon(h), UNCHANGED recruitmentVars PROVE RecruitmentInv'
  <2>1. SendersStay
    BY <1>18, EndStays DEF Abandon
  <2> QED BY <1>18, <2>1, CandidatesStay DEF recruitmentVars, RecruitmentInv, RecruitmentTypeOK
<1>19. CASE UNCHANGED <<request, recruitmentVars>>
  BY <1>19 DEF recruitmentVars, RecruitmentInv, RecruitmentTypeOK, ConversionsCounted,
               SentIsWhatWasMailed, SendersAgree, Doing
<1> QED
  BY <1>1, <1>2, <1>3, <1>4, <1>5, <1>6, <1>7, <1>8, <1>9, <1>10, <1>11, <1>12, <1>13, <1>14,
     <1>15, <1>16, <1>17, <1>18, <1>19, MailGoesOut DEF RecruitmentNext

LEMMA RecruitmentInvariant == RecruitmentSpec => []RecruitmentInv
<1>1. ServerInit /\ RecruitmentInit => RecruitmentInv
  BY InitRecruitment
<1>2. RecruitmentInv /\ [RecruitmentNext]_<<request, recruitmentVars>> => RecruitmentInv'
  BY StepRecruitment
<1> QED BY <1>1, <1>2, PTL DEF RecruitmentSpec

LEMMA CountedOnce == RecruitmentInv => OneEmployeePerCandidate
BY DEF RecruitmentInv, ConversionsCounted, OneEmployeePerCandidate

\* No candidate is ever made into two employees (hireCandidateInTransaction).
THEOREM HiredOnce == RecruitmentSpec => []OneEmployeePerCandidate
BY CountedOnce, RecruitmentInvariant, PTL

\* What a sent offer says is what the candidate's last mail said (sendOffer).
THEOREM SentAsMailed == RecruitmentSpec => []SentIsWhatWasMailed
<1>1. RecruitmentInv => SentIsWhatWasMailed
  BY DEF RecruitmentInv
<1> QED BY <1>1, RecruitmentInvariant, PTL

----------------------------------------------------------------------------
\* Accounts, employees and invitation links.

\* Portal access is the access of an account that exists.
PortalHasAccount ==
  \A e \in Staff : employee[e].platform => employee[e].linked # NoAccount /\ Exists(employee[e].linked)

\* Only an account can have been accepted, and only an account has open links.
AcceptedExists  == \A a \in Accounts : account[a].verified => Exists(a)
OpenLinkHasName == \A k \in Links : link[k].state = "open" => link[k].of # NoAccount

AccountsInv == AccountsTypeOK /\ PortalHasAccount /\ AcceptedExists /\ OpenLinkHasName

LEMMA InitAccounts == ASSUME ServerInit, AccountsInit PROVE AccountsInv
<1>1. NoRow \in AccountRows /\ NoEmployee \in EmployeeRows /\ NoLink \in LinkRows
  BY DEF NoRow, NoEmployee, NoLink, AccountRows, EmployeeRows, LinkRows
<1>2. AccountsTypeOK
  BY <1>1 DEF ServerInit, AccountsInit, AccountsTypeOK
<1>3. PortalHasAccount /\ AcceptedExists /\ OpenLinkHasName
  BY DEF AccountsInit, PortalHasAccount, AcceptedExists, OpenLinkHasName, NoRow, NoEmployee, NoLink
<1> QED BY <1>2, <1>3 DEF AccountsInv

\* What a step may do to the accounts and employees: an accepted account is not
\* removed, and the rows stay what the invariant says of them.
AcceptedStay == \A a \in Accounts : account[a].verified => account'[a].status # "absent"

AccountsStep == AccountsInv' /\ AcceptedStay

\* A request begins, goes on or ends; the rows stay.
LEMMA AccountRowsStay ==
  ASSUME AccountsInv, NEW h \in Requests, NEW r \in {Idle} \union AccountRequests,
         request' = [request EXCEPT ![h] = r], UNCHANGED accountVars
  PROVE  AccountsStep
BY DEF AccountsInv, AccountsTypeOK, PortalHasAccount, AcceptedExists, OpenLinkHasName, Exists,
       accountVars, AccountsStep, AcceptedStay

\* Links are written; accounts and employees stay.
LinksWritten(new) ==
  /\ new \in [Links -> LinkRows]
  /\ \A k \in Links : new[k].state = "open" => new[k].of # NoAccount

LEMMA LinksChange ==
  ASSUME AccountsInv, NEW h \in Requests, NEW r \in {Idle} \union AccountRequests,
         request' = [request EXCEPT ![h] = r], LinksWritten(link'), UNCHANGED <<account, employee>>
  PROVE  AccountsStep
BY DEF AccountsInv, AccountsTypeOK, PortalHasAccount, AcceptedExists, OpenLinkHasName, Exists,
       AccountsStep, AcceptedStay, LinksWritten

LEMMA NewLinkWritten ==
  ASSUME AccountsInv, NEW k \in Links, NEW kind \in {"invite", "reset"}, NEW a \in Accounts
  PROVE  LinksWritten(NewLink(k, kind, a))
<1> DEFINE row == [state |-> "open", kind |-> kind, of |-> a]
<1>1. row \in LinkRows /\ row.of # NoAccount
  BY AccountsAssumption DEF LinkRows
<1> HIDE DEF row
<1>2. LinksWritten([link EXCEPT ![k] = row])
  BY <1>1 DEF AccountsInv, AccountsTypeOK, OpenLinkHasName, LinksWritten
<1> QED BY <1>2 DEF NewLink, row

LEMMA DropWritten == ASSUME AccountsInv, NEW ks PROVE LinksWritten(Drop(ks))
BY DEF AccountsInv, AccountsTypeOK, OpenLinkHasName, LinksWritten, Drop, NoLink, LinkRows

LEMMA RetireWritten == ASSUME AccountsInv, NEW ks PROVE LinksWritten(Retire(ks))
<1>1. \A k \in Links : LET used == [link[k] EXCEPT !.state = "used"]
                       IN used \in LinkRows /\ used.state # "open"
  BY DEF AccountsInv, AccountsTypeOK, LinkRows
<1> QED BY <1>1 DEF AccountsInv, AccountsTypeOK, OpenLinkHasName, LinksWritten, Retire

LEMMA LinksAreWritten == ASSUME AccountsInv PROVE LinksWritten(link)
BY DEF AccountsInv, AccountsTypeOK, OpenLinkHasName, LinksWritten

\* One account is written, and exists; links and requests may change with it.
LEMMA AccountWritten ==
  ASSUME AccountsInv, NEW a \in Accounts, NEW row \in AccountRows, row.status # "absent",
         account' = [account EXCEPT ![a] = row], UNCHANGED employee, LinksWritten(link'),
         request' \in [Requests -> {Idle} \union AccountRequests]
  PROVE  AccountsStep
<1>1. \A b \in Accounts : Exists(b) => Exists(b)'
  BY DEF AccountsInv, AccountsTypeOK, Exists
<1>2. PortalHasAccount'
  BY <1>1 DEF AccountsInv, AccountsTypeOK, EmployeeRows, PortalHasAccount
<1>3. AcceptedExists' /\ AcceptedStay
  BY DEF AccountsInv, AccountsTypeOK, AcceptedExists, AcceptedStay, Exists
<1>4. AccountsTypeOK' /\ OpenLinkHasName'
  BY DEF AccountsInv, AccountsTypeOK, OpenLinkHasName, LinksWritten
<1> QED BY <1>2, <1>3, <1>4 DEF AccountsInv, AccountsStep

\* One employee is written, without portal access or with what it had.
LEMMA EmployeeWritten ==
  ASSUME AccountsInv, NEW e \in Staff, NEW row \in EmployeeRows,
         row.platform => employee[e].platform /\ row.linked = employee[e].linked,
         employee' = [employee EXCEPT ![e] = row], UNCHANGED <<account, link>>,
         request' \in [Requests -> {Idle} \union AccountRequests]
  PROVE  AccountsStep
BY DEF AccountsInv, AccountsTypeOK, PortalHasAccount, AcceptedExists, OpenLinkHasName, Exists,
       AccountsStep, AcceptedStay

LEMMA EndAllows ==
  ASSUME AccountsInv, NEW h \in Requests, End(h)
  PROVE  request' \in [Requests -> {Idle} \union AccountRequests]
BY DEF AccountsInv, AccountsTypeOK, End

\* createEmployeePortalInvite: the account is new, and the employee's.
LEMMA StepPortalInvite ==
  ASSUME AccountsInv, NEW h \in Requests, End(h), NEW e \in Staff, NEW row \in EmployeeRows,
         row.platform => employee[e].platform /\ row.linked = employee[e].linked,
         NEW a \in Accounts, NEW k \in Links, PortalInvite(e, row, a, k)
  PROVE  AccountsStep
<1>1. CASE ~EmailFree
  BY <1>1, AccountRowsStay DEF PortalInvite, End
<1>2. CASE EmailFree
  <2> DEFINE new  == [NoRow EXCEPT !.status = "inactive"]
             mine == IF row.status = "absent" THEN row
                     ELSE [row EXCEPT !.platform = TRUE, !.linked = a]
  <2>1. /\ account' = [account EXCEPT ![a] = new]
        /\ employee' = [employee EXCEPT ![e] = mine]
        /\ LinksWritten(link')
    BY <1>2, NewLinkWritten DEF PortalInvite
  <2>2. new \in AccountRows /\ new.status = "inactive" /\ ~new.verified
    BY DEF NoRow, AccountRows
  <2>3. mine \in EmployeeRows
    BY DEF EmployeeRows
  <2>4. mine.platform => \/ mine.linked = a
                         \/ employee[e].platform /\ mine.linked = employee[e].linked
    <3>1. CASE row.status = "absent"
      BY <3>1
    <3>2. CASE row.status # "absent"
      BY <3>2 DEF EmployeeRows
    <3> QED BY <3>1, <3>2
  <2> HIDE DEF new, mine
  <2>5. \A b \in Accounts : Exists(b) \/ b = a => account'[b].status # "absent"
    BY <2>1, <2>2 DEF AccountsInv, AccountsTypeOK, Exists
  <2>6. PortalHasAccount'
    <3> SUFFICES ASSUME NEW f \in Staff, employee'[f].platform
                 PROVE  employee'[f].linked \in Accounts /\ account'[employee'[f].linked].status # "absent"
      BY AccountsAssumption DEF PortalHasAccount, Exists
    <3>1. CASE f = e
      <4>1. employee'[f] = mine
        BY <2>1, <3>1 DEF AccountsInv, AccountsTypeOK
      <4>2. CASE mine.linked = a
        BY <4>1, <4>2, <2>5
      <4>3. CASE employee[e].platform /\ mine.linked = employee[e].linked
        <5>1. employee[e].linked \in Accounts /\ Exists(employee[e].linked)
          BY <4>3 DEF AccountsInv, AccountsTypeOK, EmployeeRows, PortalHasAccount
        <5> QED BY <4>1, <4>3, <5>1, <2>5
      <4> QED BY <4>1, <4>2, <4>3, <2>4
    <3>2. CASE f # e
      <4>1. employee'[f] = employee[f]
        BY <2>1, <3>2 DEF AccountsInv, AccountsTypeOK
      <4>2. employee[f].linked \in Accounts /\ Exists(employee[f].linked)
        BY <4>1 DEF AccountsInv, AccountsTypeOK, EmployeeRows, PortalHasAccount
      <4> QED BY <4>1, <4>2, <2>5
    <3> QED BY <3>1, <3>2
  <2>7. AcceptedExists' /\ AcceptedStay
    BY <2>1, <2>2 DEF AccountsInv, AccountsTypeOK, AcceptedExists, AcceptedStay, Exists
  <2>8. AccountsTypeOK' /\ OpenLinkHasName'
    BY <2>1, <2>2, <2>3, EndAllows DEF AccountsInv, AccountsTypeOK, OpenLinkHasName, LinksWritten
  <2> QED BY <2>6, <2>7, <2>8 DEF AccountsInv, AccountsStep
<1> QED BY <1>1, <1>2

\* A handler reads its row and begins.
LEMMA StepAccountReads ==
  ASSUME AccountsInv, NEW h \in Requests,
         \/ \E role \in Managers : InviteRead(h, role)
         \/ \E portal \in BOOLEAN : CreateEmployeeRead(h, portal)
         \/ \E e \in Staff : DeleteEmployeeRead(h, e) \/ PortalRead(h, e) \/ EmployeeRelinkRead(h, e)
         \/ \E k \in Links : SetPasswordRead(h, k) \/ ResetPasswordRead(h, k)
         \/ \E a \in Accounts :
              \/ CancelInvite(h, a) \/ CancelAdminUserInvite(h, a)
              \/ RemoveUser(h, a) \/ RemoveAdminUser(h, a)
         \/ Abandon(h) /\ UNCHANGED accountVars
  PROVE  AccountsStep
<1> DEFINE Begins == \E r \in {Idle} \union AccountRequests : request' = [request EXCEPT ![h] = r]
<1>1. ASSUME NEW role \in Managers, InviteRead(h, role) PROVE Begins /\ UNCHANGED accountVars
  BY <1>1 DEF InviteRead, Begin, AccountRequests
<1>2. ASSUME NEW portal \in BOOLEAN, CreateEmployeeRead(h, portal)
      PROVE  Begins /\ UNCHANGED accountVars
  BY <1>2 DEF CreateEmployeeRead, Begin, AccountRequests
<1>3. ASSUME NEW e \in Staff, DeleteEmployeeRead(h, e) \/ PortalRead(h, e)
      PROVE  Begins /\ UNCHANGED accountVars
  BY <1>3 DEF DeleteEmployeeRead, PortalRead, Begin, AccountRequests
<1>4. ASSUME NEW e \in Staff, EmployeeRelinkRead(h, e) PROVE Begins /\ UNCHANGED accountVars
  <2>1. employee[e].linked \in Accounts
    BY <1>4 DEF EmployeeRelinkRead, AccountsInv, AccountsTypeOK, EmployeeRows, PortalHasAccount
  <2> QED BY <1>4, <2>1 DEF EmployeeRelinkRead, Begin, AccountRequests
<1>5. ASSUME NEW k \in Links, SetPasswordRead(h, k) \/ ResetPasswordRead(h, k)
      PROVE  Begins /\ UNCHANGED accountVars
  <2>1. link[k].of \in Accounts
    BY <1>5 DEF SetPasswordRead, ResetPasswordRead, LinkRead, AccountsInv, AccountsTypeOK, LinkRows,
                OpenLinkHasName
  <2> QED BY <1>5, <2>1 DEF SetPasswordRead, ResetPasswordRead, LinkRead, Begin, AccountRequests
<1>6. ASSUME NEW a \in Accounts,
             \/ CancelInvite(h, a) \/ CancelAdminUserInvite(h, a)
             \/ RemoveUser(h, a) \/ RemoveAdminUser(h, a)
      PROVE  Begins /\ UNCHANGED accountVars
  BY <1>6 DEF CancelInvite, CancelAdminUserInvite, RemoveUser, RemoveAdminUser, CancelRead, Begin,
              AccountRequests
<1>7. ASSUME Abandon(h), UNCHANGED accountVars PROVE Begins /\ UNCHANGED accountVars
  BY <1>7 DEF Abandon, End
<1>8. Begins /\ UNCHANGED accountVars
  BY <1>1, <1>2, <1>3, <1>4, <1>5, <1>6, <1>7
<1> QED BY <1>8, AccountRowsStay

\* What a request that is about an account remembers of it.
LEMMA RequestIsAbout ==
  ASSUME AccountsInv, NEW h \in Requests,
         \/ Doing(h, "relink") \/ Doing(h, "forgot") \/ Doing(h, "cancelInvite") \/ Doing(h, "remove")
         \/ Doing(h, "setPassword") \/ Doing(h, "resetPassword")
  PROVE  request[h].of \in Accounts
<1>1. request[h] \in {Idle} \union AccountRequests
  BY DEF AccountsInv, AccountsTypeOK
<1> QED BY <1>1 DEF Doing, Idle, AccountRequests

LEMMA RequestIsAboutSomebody ==
  ASSUME AccountsInv, NEW h \in Requests, Doing(h, "portal") \/ Doing(h, "unhire")
  PROVE  request[h].employee \in Staff
<1>1. request[h] \in {Idle} \union AccountRequests
  BY DEF AccountsInv, AccountsTypeOK
<1> QED BY <1>1 DEF Doing, Idle, AccountRequests

\* createAdminUser and createUserWithOrganization write the account they found free.
LEMMA StepInviteInsert ==
  ASSUME AccountsInv, NEW h \in Requests, NEW a \in Accounts, NEW k \in Links,
         NEW verified \in BOOLEAN, InviteInsert(h, a, k, verified)
  PROVE  AccountsStep
<1>1. CASE ~EmailFree
  BY <1>1, AccountRowsStay DEF InviteInsert, End, accountVars
<1>2. CASE EmailFree
  <2> DEFINE role == request[h].role
             row  == [status   |-> IF role = "org_admin" THEN "active" ELSE "inactive",
                      verified |-> role = "org_admin" /\ verified,
                      role     |-> role]
  <2>1. request[h] \in {Idle} \union AccountRequests
    BY DEF AccountsInv, AccountsTypeOK
  <2>2. role \in Managers
    BY <2>1 DEF InviteInsert, Doing, Idle, AccountRequests
  <2>3. row \in AccountRows /\ row.status # "absent"
    BY <2>2 DEF AccountRows
  <2>4. account' = [account EXCEPT ![a] = row] /\ UNCHANGED employee /\ LinksWritten(link')
    BY <1>2, NewLinkWritten DEF InviteInsert
  <2>5. request' \in [Requests -> {Idle} \union AccountRequests]
    BY EndAllows DEF InviteInsert
  <2> HIDE DEF role, row
  <2> QED BY <2>3, <2>4, <2>5, AccountWritten
<1> QED BY <1>1, <1>2

LEMMA StepCreateEmployeeInsert ==
  ASSUME AccountsInv, NEW h \in Requests, NEW e \in Staff, NEW a \in Accounts, NEW k \in Links,
         CreateEmployeeInsert(h, e, a, k)
  PROVE  AccountsStep
<1> DEFINE hired == [NoEmployee EXCEPT !.status = "current"]
<1>1. hired \in EmployeeRows /\ ~hired.platform
  BY DEF NoEmployee, EmployeeRows
<1>2. End(h) /\ IF request[h].portal THEN PortalInvite(e, hired, a, k)
                ELSE employee' = [employee EXCEPT ![e] = hired] /\ UNCHANGED <<account, link>>
  BY DEF CreateEmployeeInsert
<1> HIDE DEF hired
<1> QED BY <1>1, <1>2, StepPortalInvite, EmployeeWritten, EndAllows

LEMMA StepPortalInsert ==
  ASSUME AccountsInv, NEW h \in Requests, NEW a \in Accounts, NEW k \in Links, PortalInsert(h, a, k)
  PROVE  AccountsStep
<1>1. request[h].employee \in Staff
  BY RequestIsAboutSomebody DEF PortalInsert
<1>2. PICK e \in Staff : e = request[h].employee
  BY <1>1
<1>3. employee[e] \in EmployeeRows
  BY DEF AccountsInv, AccountsTypeOK
<1>4. End(h) /\ PortalInvite(e, employee[e], a, k)
  BY <1>2 DEF PortalInsert
<1> QED BY <1>3, <1>4, StepPortalInvite

\* Statements on the record of one employee
LEMMA StepEmployees ==
  ASSUME AccountsInv,
         \/ \E h \in Requests : DeleteEmployeeWrite(h)
         \/ \E e \in Staff : CreateReference(e)
         \/ \E e \in Staff, status \in {"current", "inactive", "ex"} : SetEmployeeStatus(e, status)
  PROVE  AccountsStep
<1>1. ASSUME NEW h \in Requests, DeleteEmployeeWrite(h) PROVE AccountsStep
  <2>1. PICK e \in Staff : e = request[h].employee
    BY <1>1, RequestIsAboutSomebody DEF DeleteEmployeeWrite
  <2>2. NoEmployee \in EmployeeRows /\ ~NoEmployee.platform
    BY DEF NoEmployee, EmployeeRows
  <2>3. employee' = [employee EXCEPT ![e] = NoEmployee] /\ UNCHANGED <<account, link>> /\ End(h)
    BY <1>1, <2>1 DEF DeleteEmployeeWrite
  <2> QED BY <2>2, <2>3, EmployeeWritten, EndAllows
<1>2. ASSUME NEW e \in Staff, CreateReference(e) PROVE AccountsStep
  <2> DEFINE row == [NoEmployee EXCEPT !.status = "ex"]
  <2>1. row \in EmployeeRows /\ ~row.platform
    BY DEF NoEmployee, EmployeeRows
  <2>2. employee' = [employee EXCEPT ![e] = row] /\ UNCHANGED <<account, link, request>>
    BY <1>2 DEF CreateReference
  <2> HIDE DEF row
  <2> QED BY <2>1, <2>2, EmployeeWritten DEF AccountsInv, AccountsTypeOK
<1>3. ASSUME NEW e \in Staff, NEW status \in {"current", "inactive", "ex"},
             SetEmployeeStatus(e, status)
      PROVE  AccountsStep
  <2> DEFINE row == [employee[e] EXCEPT !.status = status]
  <2>1. row \in EmployeeRows /\ row.platform = employee[e].platform /\ row.linked = employee[e].linked
    BY DEF AccountsInv, AccountsTypeOK, EmployeeRows
  <2>2. employee' = [employee EXCEPT ![e] = row] /\ UNCHANGED <<account, link, request>>
    BY <1>3 DEF SetEmployeeStatus
  <2> HIDE DEF row
  <2> QED BY <2>1, <2>2, EmployeeWritten DEF AccountsInv, AccountsTypeOK
<1> QED BY <1>1, <1>2, <1>3

\* Statements on the links alone
LEMMA StepLinks ==
  ASSUME AccountsInv, NEW h \in Requests,
         \/ EmployeeRelinkRetire(h) \/ ResetPasswordCommit(h)
         \/ \E k \in Links : RelinkInsert(h, k) \/ ForgotInsert(h, k)
         \/ \E a \in Accounts : ResendInvite(h, a) \/ ForgotPassword(h, a)
  PROVE  AccountsStep
<1> DEFINE Begins == \E r \in {Idle} \union AccountRequests : request' = [request EXCEPT ![h] = r]
<1>1. CASE EmployeeRelinkRetire(h)
  <2> DEFINE r == [request[h] EXCEPT !.step = "insert"]
  <2>1. request[h] \in {Idle} \union AccountRequests /\ request[h].kind = "relink"
    BY <1>1 DEF EmployeeRelinkRetire, Doing, AccountsInv, AccountsTypeOK
  <2>2. r \in AccountRequests
    BY <2>1 DEF AccountRequests, Idle
  <2>3. request' = [request EXCEPT ![h] = r]
    BY <1>1 DEF EmployeeRelinkRetire, Go
  <2>4. LinksWritten(link') /\ UNCHANGED <<account, employee>>
    BY <1>1, RetireWritten DEF EmployeeRelinkRetire
  <2> HIDE DEF r
  <2> QED BY <2>2, <2>3, <2>4, LinksChange
<1>2. CASE ResetPasswordCommit(h)
  BY <1>2, RetireWritten, LinksChange DEF ResetPasswordCommit, End
<1>3. ASSUME NEW k \in Links, RelinkInsert(h, k) \/ ForgotInsert(h, k) PROVE AccountsStep
  <2>1. request[h].of \in Accounts
    BY <1>3, RequestIsAbout DEF RelinkInsert, ForgotInsert
  <2>2. LinksWritten(NewLink(k, "invite", request[h].of)) /\ LinksWritten(NewLink(k, "reset", request[h].of))
    BY <2>1, NewLinkWritten
  <2>3. LinksWritten(link') /\ UNCHANGED <<account, employee>> /\ Begins
    BY <1>3, <2>2, LinksAreWritten DEF RelinkInsert, ForgotInsert, End
  <2> QED BY <2>3, LinksChange
<1>4. ASSUME NEW a \in Accounts, ResendInvite(h, a) \/ ForgotPassword(h, a) PROVE AccountsStep
  <2>1. LinksWritten(link') /\ UNCHANGED <<account, employee>>
    BY <1>4, DropWritten, RetireWritten DEF ResendInvite, ForgotPassword
  <2>2. Begins
    BY <1>4 DEF ResendInvite, ForgotPassword, Begin, AccountRequests
  <2> QED BY <2>1, <2>2, LinksChange
<1> QED BY <1>1, <1>2, <1>3, <1>4

\* Setting the password, cancelling and removing: what the transaction finds now
\* decides, whatever the handler had read.
LEMMA StepSetPassword ==
  ASSUME AccountsInv, NEW h \in Requests, SetPasswordCommit(h) PROVE AccountsStep
<1>1. PICK a \in Accounts : a = request[h].of
  BY RequestIsAbout DEF SetPasswordCommit
<1>2. LinksWritten(link') /\ UNCHANGED employee /\ End(h)
  BY RetireWritten DEF SetPasswordCommit
<1>3. CASE ~Exists(a)
  BY <1>1, <1>2, <1>3, LinksChange DEF SetPasswordCommit, End
<1>4. CASE Exists(a)
  <2> DEFINE row == [account[a] EXCEPT !.status = "active", !.verified = TRUE]
  <2>1. row \in AccountRows /\ row.status # "absent"
    BY DEF AccountsInv, AccountsTypeOK, AccountRows
  <2>2. account' = [account EXCEPT ![a] = row]
    BY <1>1, <1>4 DEF SetPasswordCommit, AccountsInv, AccountsTypeOK
  <2> HIDE DEF row
  <2> QED BY <1>2, <2>1, <2>2, AccountWritten, EndAllows
<1> QED BY <1>3, <1>4

LEMMA StepCancel ==
  ASSUME AccountsInv, NEW h \in Requests, CancelCommit(h) PROVE AccountsStep
<1>1. PICK a \in Accounts : a = request[h].of
  BY RequestIsAbout DEF CancelCommit
<1>2. LinksWritten(link') /\ UNCHANGED employee /\ End(h)
  BY DropWritten DEF CancelCommit
<1>3. CASE ~(Exists(a) /\ ~account[a].verified)
  BY <1>1, <1>2, <1>3, LinksChange DEF CancelCommit, End
<1>4. CASE Exists(a) /\ ~account[a].verified
  <2> DEFINE row == [account[a] EXCEPT !.status = "inactive"]
  <2>1. row \in AccountRows /\ row.status # "absent"
    BY DEF AccountsInv, AccountsTypeOK, AccountRows
  <2>2. account' = [account EXCEPT ![a] = row]
    BY <1>1, <1>4 DEF CancelCommit
  <2> HIDE DEF row
  <2> QED BY <1>2, <2>1, <2>2, AccountWritten, EndAllows
<1> QED BY <1>3, <1>4

\* Only an account that was never accepted goes, and takes the portal access of
\* its employee with it.
LEMMA StepRemove ==
  ASSUME AccountsInv, NEW h \in Requests, RemoveCommit(h) PROVE AccountsStep
<1>1. PICK a \in Accounts : a = request[h].of
  BY RequestIsAbout DEF RemoveCommit
<1>2. CASE ~Removable(a)
  BY <1>1, <1>2, AccountRowsStay DEF RemoveCommit, End
<1>3. CASE Removable(a)
  <2>1. /\ account' = [account EXCEPT ![a] = NoRow]
        /\ employee' = [e \in Staff |->
             IF employee[e].linked = a
             THEN [employee[e] EXCEPT !.linked = NoAccount, !.platform = FALSE]
             ELSE employee[e]]
        /\ LinksWritten(link')
    BY <1>1, <1>3, DropWritten DEF RemoveCommit
  <2>2. ~account[a].verified
    BY <1>3 DEF Removable
  <2>3. NoRow \in AccountRows /\ ~NoRow.verified
    BY DEF NoRow, AccountRows
  <2>4. account' \in [Accounts -> AccountRows]
        /\ \A b \in Accounts : b # a => account'[b] = account[b]
    BY <2>1, <2>3 DEF AccountsInv, AccountsTypeOK
  <2>5. \A e \in Staff : LET row == [employee[e] EXCEPT !.linked = NoAccount, !.platform = FALSE]
                         IN row \in EmployeeRows /\ ~row.platform
    BY DEF AccountsInv, AccountsTypeOK, EmployeeRows
  <2>6. employee' \in [Staff -> EmployeeRows]
        /\ \A e \in Staff : employee'[e].platform => employee'[e] = employee[e] /\ employee[e].linked # a
    BY <2>1, <2>5 DEF AccountsInv, AccountsTypeOK
  <2>7. PortalHasAccount'
    <3> SUFFICES ASSUME NEW e \in Staff, employee'[e].platform
                 PROVE  employee'[e].linked \in Accounts /\ account'[employee'[e].linked].status # "absent"
      BY AccountsAssumption DEF PortalHasAccount, Exists
    <3>1. employee'[e] = employee[e] /\ employee[e].linked # a
      BY <2>6
    <3>2. employee[e].linked \in Accounts /\ Exists(employee[e].linked)
      BY <3>1 DEF AccountsInv, AccountsTypeOK, EmployeeRows, PortalHasAccount
    <3> QED BY <3>1, <3>2, <2>4 DEF Exists
  <2>8. AcceptedExists' /\ AcceptedStay
    BY <2>1, <2>2, <2>3, <2>4 DEF AccountsInv, AccountsTypeOK, AcceptedExists, AcceptedStay, Exists
  <2>9. AccountsTypeOK' /\ OpenLinkHasName'
    BY <2>1, <2>4, <2>6, EndAllows DEF AccountsTypeOK, OpenLinkHasName, LinksWritten, RemoveCommit
  <2> QED BY <2>7, <2>8, <2>9 DEF AccountsInv, AccountsStep
<1> QED BY <1>2, <1>3

\* The statements of administrators on one account
LEMMA StepUpdateUser ==
  ASSUME AccountsInv, NEW a \in Accounts,
         \/ RevokeAdminUser(a)
         \/ \E status \in {"active", "inactive"}, verified \in BOOLEAN : UpdateUser(a, status, verified)
  PROVE  AccountsStep
<1>1. request \in [Requests -> {Idle} \union AccountRequests]
  BY DEF AccountsInv, AccountsTypeOK
<1>2. CASE RevokeAdminUser(a)
  <2> DEFINE row == [account[a] EXCEPT !.status = "inactive"]
  <2>1. row \in AccountRows /\ row.status # "absent"
    BY DEF AccountsInv, AccountsTypeOK, AccountRows
  <2>2. account' = [account EXCEPT ![a] = row] /\ UNCHANGED <<employee, link, request>>
    BY <1>2 DEF RevokeAdminUser
  <2> HIDE DEF row
  <2> QED BY <1>1, <2>1, <2>2, AccountWritten, LinksAreWritten
<1>3. ASSUME NEW status \in {"active", "inactive"}, NEW verified \in BOOLEAN,
             UpdateUser(a, status, verified)
      PROVE  AccountsStep
  <2> DEFINE row == [account[a] EXCEPT !.status = status, !.verified = verified]
  <2>1. row \in AccountRows /\ row.status # "absent"
    BY DEF AccountsInv, AccountsTypeOK, AccountRows
  <2>2. account' = [account EXCEPT ![a] = row] /\ UNCHANGED <<employee, link, request>>
    BY <1>3 DEF UpdateUser, AccountsInv, AccountsTypeOK
  <2> HIDE DEF row
  <2> QED BY <1>1, <2>1, <2>2, AccountWritten, LinksAreWritten
<1> QED BY <1>2, <1>3

LEMMA AccountsSteps == ASSUME AccountsInv, AccountsNext PROVE AccountsStep
<1>1. ASSUME NEW h \in Requests, NEW k \in Links, NEW a \in Accounts,
             \/ \E verified \in BOOLEAN : InviteInsert(h, a, k, verified)
             \/ PortalInsert(h, a, k)
             \/ \E e \in Staff : CreateEmployeeInsert(h, e, a, k)
      PROVE  AccountsStep
  BY <1>1, StepInviteInsert, StepPortalInsert, StepCreateEmployeeInsert
<1> QED BY <1>1, StepAccountReads, StepEmployees, StepLinks, StepSetPassword, StepCancel, StepRemove,
           StepUpdateUser DEF AccountsNext

LEMMA StepAccounts ==
  ASSUME AccountsInv, [AccountsNext]_<<request, accountVars>> PROVE AccountsInv'
<1>1. CASE UNCHANGED <<request, accountVars>>
  BY <1>1 DEF AccountsInv, AccountsTypeOK, PortalHasAccount, AcceptedExists, OpenLinkHasName, Exists,
              accountVars
<1>2. CASE AccountsNext
  BY <1>2, AccountsSteps DEF AccountsStep
<1> QED BY <1>1, <1>2

LEMMA AccountsInvariant == AccountsSpec => []AccountsInv
BY InitAccounts, StepAccounts, PTL DEF AccountsSpec

\* A verified account is never removed, whoever reads it before its password
\* is set and deletes after, with any number of administrators, employees and links
\* at work; and portal access is always that of an account that exists.
THEOREM AcceptanceLasts == AccountsSpec => AcceptedAccountStays
<1> DEFINE Kept == /\ \A a \in Accounts : account[a].verified => account'[a].status # "absent"
                   /\ \A e \in Staff : employee'[e].platform =>
                        employee'[e].linked # NoAccount /\ account'[employee'[e].linked].status # "absent"
<1>1. AccountsInv /\ AccountsNext => Kept
  BY AccountsSteps DEF AccountsStep, AcceptedStay, AccountsInv, PortalHasAccount, Exists
<1>2. UNCHANGED <<request, accountVars>> => UNCHANGED <<account, employee>>
  BY DEF accountVars
<1>3. AccountsInv /\ [AccountsNext]_<<request, accountVars>> => [Kept]_<<account, employee>>
  BY <1>1, <1>2
<1> QED BY AccountsInvariant, <1>3, PTL DEF AccountsSpec, AcceptedAccountStays

----------------------------------------------------------------------------
\* HR letters, for any number of letters, tokens, texts and concurrent requests.

\* An issued letter has one token, which is live and attests its text; no other
\* letter has any.
TokenSound(i) ==
  IF letter[i].status = "issued"
  THEN \E q \in QrTokens : /\ letter[i].qr = {q}
                           /\ minted[q].attests = "live"
                           /\ letter[i].snapshot = minted[q].body
  ELSE letter[i].qr = {}

\* A live token is on a letter, and on one only.
TokenPlaced ==
  /\ \A q \in QrTokens : minted[q].attests = "live" => \E i \in Ids : q \in letter[i].qr
  /\ \A i, j \in Ids : letter[i].qr \intersect letter[j].qr # {} => i = j

\* Who issues holds the row, and it is still the draft that was read.
IssuersAgree ==
  /\ \A g, h \in Requests :
       /\ Doing(g, "issueLetter") /\ Doing(h, "issueLetter")
       /\ request[g].letter = request[h].letter
       => g = h
  /\ \A h \in Requests : Doing(h, "issueLetter") => letter[request[h].letter].status = "draft"

LettersInv ==
  /\ HrLettersTypeOK
  /\ \A i \in Ids : TokenSound(i)
  /\ TokenPlaced
  /\ IssuersAgree

LEMMA InvariantIsMeaning == LettersInv => LinksMeanWhatTheySay
<1> SUFFICES ASSUME LettersInv, NEW q \in QrTokens
             PROVE  /\ Verifies(q) <=> minted[q].attests = "live"
                    /\ Verifies(q) => \E i \in Ids : q \in letter[i].qr
                                                      /\ letter[i].snapshot = minted[q].body
  BY DEF LinksMeanWhatTheySay
<1>1. ASSUME NEW i \in Ids, q \in letter[i].qr
      PROVE  /\ letter[i].status = "issued" /\ minted[q].attests = "live"
             /\ letter[i].snapshot = minted[q].body
  BY <1>1 DEF LettersInv, TokenSound
<1>2. minted[q].attests = "live" => \E i \in Ids : q \in letter[i].qr
  BY DEF LettersInv, TokenPlaced
<1> QED BY <1>1, <1>2 DEF Verifies

LEMMA NewRow == NewLetter \in LetterRows /\ NewLetter.qr = {} /\ NewLetter.status = "new"
BY HrLettersAssumption DEF NewLetter, LetterRows

LEMMA InitLetters == ASSUME ServerInit, HrLettersInit PROVE LettersInv
<1>1. HrLettersTypeOK
  BY NewRow DEF ServerInit, HrLettersInit, HrLettersTypeOK
<1>2. \A i \in Ids : TokenSound(i)
  BY NewRow DEF HrLettersInit, TokenSound
<1>3. TokenPlaced
  BY NewRow DEF HrLettersInit, TokenPlaced
<1>4. IssuersAgree
  BY DEF ServerInit, IssuersAgree, Doing, Idle
<1> QED BY <1>1, <1>2, <1>3, <1>4 DEF LettersInv

\* A request that ends holds no row any more.
LEMMA EndFreesLetter ==
  ASSUME LettersInv, NEW h \in Requests, End(h)
  PROVE  /\ request' \in [Requests -> {Idle} \union LetterRequests]
         /\ \A g \in Requests : Doing(g, "issueLetter")' =>
              g # h /\ Doing(g, "issueLetter") /\ request'[g] = request[g]
BY DEF End, LettersInv, HrLettersTypeOK, Idle, Doing

\* Letters and tokens stay; requests begin, end or go on.
LEMMA LettersStay ==
  ASSUME LettersInv, UNCHANGED <<letter, minted>>,
         template' \in Bodies \union {NoBody},
         request' \in [Requests -> {Idle} \union LetterRequests],
         \A g \in Requests : Doing(g, "issueLetter")' =>
           Doing(g, "issueLetter") /\ request'[g] = request[g]
  PROVE  LettersInv'
<1>1. HrLettersTypeOK'
  BY DEF LettersInv, HrLettersTypeOK
<1>2. \A i \in Ids : TokenSound(i)'
  BY DEF LettersInv, TokenSound
<1>3. IssuersAgree'
  BY DEF LettersInv, IssuersAgree
<1> QED BY <1>1, <1>2, <1>3 DEF LettersInv, TokenPlaced, Ids

LEMMA BeginKeepsLetters ==
  ASSUME LettersInv, NEW h \in Requests, NEW r \in LetterRequests, Begin(h, r),
         r.kind # "issueLetter", UNCHANGED letterVars
  PROVE  LettersInv'
<1>1. /\ request' \in [Requests -> {Idle} \union LetterRequests]
      /\ \A g \in Requests : Doing(g, "issueLetter")' =>
           Doing(g, "issueLetter") /\ request'[g] = request[g]
  BY DEF Begin, LettersInv, HrLettersTypeOK, Doing
<1> QED BY <1>1, LettersStay DEF letterVars, LettersInv, HrLettersTypeOK

\* A row that carries no token and is not being issued is replaced by another
\* that carries none.
LEMMA BareRowChanges ==
  ASSUME LettersInv, NEW i \in Ids, NEW row \in LetterRows,
         letter' = [letter EXCEPT ![i] = row], row.qr = {}, row.status # "issued",
         letter[i].qr = {}, UNCHANGED <<template, minted>>,
         request' \in [Requests -> {Idle} \union LetterRequests],
         \A g \in Requests : Doing(g, "issueLetter")' =>
           Doing(g, "issueLetter") /\ request'[g] = request[g] /\ request[g].letter # i
  PROVE  LettersInv'
<1>1. HrLettersTypeOK'
  BY DEF LettersInv, HrLettersTypeOK
<1>2. \A j \in Ids : letter'[j] = IF j = i THEN row ELSE letter[j]
  BY DEF LettersInv, HrLettersTypeOK
<1>3. \A j \in Ids : TokenSound(j)'
  <2>1. TokenSound(i)'
    BY <1>2 DEF TokenSound
  <2>2. ASSUME NEW j \in Ids, j # i PROVE TokenSound(j)'
    BY <1>2, <2>2 DEF LettersInv, TokenSound
  <2> QED BY <2>1, <2>2
<1>4. TokenPlaced'
  <2>1. \A j \in Ids : letter'[j].qr = letter[j].qr
    BY <1>2
  <2> QED BY <2>1 DEF LettersInv, TokenPlaced, Ids
<1>5. IssuersAgree'
  <2>1. \A g \in Requests : Doing(g, "issueLetter")' => request[g].letter \in Ids \ {i}
    BY DEF LettersInv, HrLettersTypeOK, LetterRequests, Idle, Doing
  <2> QED BY <1>2, <2>1 DEF LettersInv, IssuersAgree
<1> QED BY <1>1, <1>3, <1>4, <1>5 DEF LettersInv, Ids

\* An issued row loses its token, which is over from then on.
LEMMA TokenWithdrawn ==
  ASSUME LettersInv, NEW i \in Ids, NEW row \in LetterRows,
         letter' = [letter EXCEPT ![i] = row], row.qr = {}, row.status # "issued",
         letter[i].status = "issued", minted' = Withdraw(i), UNCHANGED template,
         request' \in [Requests -> {Idle} \union LetterRequests],
         \A g \in Requests : Doing(g, "issueLetter")' =>
           Doing(g, "issueLetter") /\ request'[g] = request[g] /\ request[g].letter # i
  PROVE  LettersInv'
<1>1. PICK q \in QrTokens : letter[i].qr = {q}
  BY DEF LettersInv, TokenSound
<1>2. minted' = [minted EXCEPT ![q].attests = "over"]
  BY <1>1 DEF Withdraw, Over
<1>3. HrLettersTypeOK'
  <2>1. minted' \in [QrTokens -> [attests : {"nothing", "live", "over"}, body : Bodies \union {NoBody}]]
    BY <1>2 DEF LettersInv, HrLettersTypeOK
  <2> QED BY <2>1 DEF LettersInv, HrLettersTypeOK
<1>4. \A j \in Ids : letter'[j] = IF j = i THEN row ELSE letter[j]
  BY DEF LettersInv, HrLettersTypeOK
<1>5. /\ \A p \in QrTokens \ {q} : minted'[p] = minted[p]
      /\ minted'[q].attests = "over"
  BY <1>2 DEF LettersInv, HrLettersTypeOK
<1>6. \A j \in Ids : j # i => q \notin letter[j].qr
  BY <1>1 DEF LettersInv, TokenPlaced
<1>7. \A j \in Ids : TokenSound(j)'
  <2>1. TokenSound(i)'
    BY <1>4 DEF TokenSound
  <2>2. ASSUME NEW j \in Ids, j # i PROVE TokenSound(j)'
    BY <1>4, <1>5, <1>6, <2>2 DEF LettersInv, TokenSound
  <2> QED BY <2>1, <2>2
<1>8. TokenPlaced'
  <2>1. ASSUME NEW p \in QrTokens, minted'[p].attests = "live"
        PROVE  \E j \in Ids : p \in letter'[j].qr
    <3>1. p # q /\ minted[p].attests = "live"
      BY <1>5, <2>1
    <3>2. PICK j \in Ids : p \in letter[j].qr
      BY <3>1 DEF LettersInv, TokenPlaced
    <3> QED BY <1>1, <1>4, <3>1, <3>2
  <2>2. \A j \in Ids : letter'[j].qr \subseteq letter[j].qr
    BY <1>4
  <2>3. \A j, k \in Ids : letter'[j].qr \intersect letter'[k].qr # {} => j = k
    BY <2>2 DEF LettersInv, TokenPlaced
  <2> QED BY <2>1, <2>3 DEF TokenPlaced, Ids
<1>9. IssuersAgree'
  <2>1. \A g \in Requests : Doing(g, "issueLetter")' => request[g].letter \in Ids \ {i}
    BY DEF LettersInv, HrLettersTypeOK, LetterRequests, Idle, Doing
  <2> QED BY <1>4, <2>1 DEF LettersInv, IssuersAgree
<1> QED BY <1>3, <1>7, <1>8, <1>9 DEF LettersInv, Ids

LEMMA DraftInsertKeeps ==
  ASSUME LettersInv, NEW h \in Requests, NEW i \in Ids, CreateDraftInsert(h, i) PROVE LettersInv'
<1> DEFINE row == [NewLetter EXCEPT !.status = "draft", !.ref = request[h].ref]
<1>1. /\ request' \in [Requests -> {Idle} \union LetterRequests]
      /\ \A g \in Requests : Doing(g, "issueLetter")' =>
           g # h /\ Doing(g, "issueLetter") /\ request'[g] = request[g]
  BY EndFreesLetter DEF CreateDraftInsert
<1>2. letter' = letter \/ letter' = [letter EXCEPT ![i] = row]
  BY DEF CreateDraftInsert
<1>3. CASE letter' = letter
  BY <1>1, <1>3, LettersStay DEF CreateDraftInsert, LettersInv, HrLettersTypeOK
<1>4. CASE letter' = [letter EXCEPT ![i] = row]
  <2>1. letter[i].status = "new" /\ letter[i].qr = {}
    BY DEF CreateDraftInsert, LettersInv, TokenSound, Ids
  <2>2. request[h].ref \in Nat
    BY DEF CreateDraftInsert, LettersInv, HrLettersTypeOK, LetterRequests, Idle, Doing
  <2>3. row \in LetterRows /\ row.qr = {} /\ row.status = "draft"
    BY <2>2, HrLettersAssumption DEF NewLetter, LetterRows
  <2>4. \A g \in Requests : Doing(g, "issueLetter") => request[g].letter # i
    BY <2>1 DEF LettersInv, IssuersAgree
  <2> HIDE DEF row
  <2> QED BY <1>1, <1>4, <2>1, <2>3, <2>4, BareRowChanges DEF CreateDraftInsert
<1> QED BY <1>2, <1>3, <1>4

LEMMA IssueReadKeeps ==
  ASSUME LettersInv, NEW h \in Requests, NEW i \in Ids, IssueRead(h, i) PROVE LettersInv'
<1> DEFINE r == [kind |-> "issueLetter", letter |-> i, body |-> template]
<1>1. r \in LetterRequests
  BY DEF IssueRead, LettersInv, HrLettersTypeOK, LetterRequests
<1>2. \A g \in Requests : request'[g] = IF g = h THEN r ELSE request[g]
  BY DEF IssueRead, Begin, LettersInv, HrLettersTypeOK
<1>3. HrLettersTypeOK'
  BY <1>1 DEF IssueRead, Begin, LettersInv, HrLettersTypeOK, letterVars
<1>4. \A j \in Ids : TokenSound(j)'
  BY DEF IssueRead, LettersInv, TokenSound, letterVars
<1>5. IssuersAgree'
  BY <1>2 DEF IssueRead, LetterUnlocked, LettersInv, IssuersAgree, Doing, letterVars
<1> QED BY <1>3, <1>4, <1>5 DEF IssueRead, LettersInv, TokenPlaced, letterVars, Ids

LEMMA IssueCommitKeeps ==
  ASSUME LettersInv, NEW h \in Requests, NEW q \in QrTokens, IssueCommit(h, q) PROVE LettersInv'
<1>1. PICK i \in Ids, b \in Bodies : request[h].letter = i /\ request[h].body = b
  BY DEF IssueCommit, LettersInv, HrLettersTypeOK, LetterRequests, Idle, Doing
<1>2. letter[i].status = "draft" /\ letter[i].qr = {}
  BY <1>1 DEF IssueCommit, LettersInv, IssuersAgree, TokenSound
<1> DEFINE row == [letter[i] EXCEPT !.status = "issued", !.snapshot = b, !.qr = {q}]
<1>3. /\ letter' = [letter EXCEPT ![i] = row]
      /\ minted' = [minted EXCEPT ![q] = [attests |-> "live", body |-> b]]
      /\ template' = template
  BY <1>1, <1>2 DEF IssueCommit, Stored, LettersInv, HrLettersTypeOK
<1>4. row \in LetterRows /\ row.status = "issued" /\ row.snapshot = b /\ row.qr = {q}
  BY DEF LettersInv, HrLettersTypeOK, LetterRows
<1> HIDE DEF row
<1>5. \A j \in Ids : letter'[j] = IF j = i THEN row ELSE letter[j]
  BY <1>3 DEF LettersInv, HrLettersTypeOK
<1>6. \A p \in QrTokens : minted'[p] = IF p = q THEN [attests |-> "live", body |-> b] ELSE minted[p]
  BY <1>3 DEF LettersInv, HrLettersTypeOK
<1>7. \A j \in Ids : q \notin letter[j].qr
  BY DEF IssueCommit, LettersInv, TokenSound
<1>8. /\ request' \in [Requests -> {Idle} \union LetterRequests]
      /\ \A g \in Requests : Doing(g, "issueLetter")' =>
           g # h /\ Doing(g, "issueLetter") /\ request'[g] = request[g]
  BY EndFreesLetter DEF IssueCommit
<1>9. HrLettersTypeOK'
  <2>1. minted' \in [QrTokens -> [attests : {"nothing", "live", "over"}, body : Bodies \union {NoBody}]]
    BY <1>3 DEF LettersInv, HrLettersTypeOK
  <2> QED BY <1>3, <1>4, <1>8, <2>1 DEF LettersInv, HrLettersTypeOK
<1>10. \A j \in Ids : TokenSound(j)'
  <2>1. TokenSound(i)'
    BY <1>4, <1>5, <1>6 DEF TokenSound
  <2>2. ASSUME NEW j \in Ids, j # i PROVE TokenSound(j)'
    BY <1>5, <1>6, <1>7, <2>2 DEF LettersInv, TokenSound
  <2> QED BY <2>1, <2>2
<1>11. TokenPlaced'
  <2>1. ASSUME NEW p \in QrTokens, minted'[p].attests = "live"
        PROVE  \E j \in Ids : p \in letter'[j].qr
    <3>1. CASE p = q
      BY <1>4, <1>5, <3>1
    <3>2. CASE p # q
      <4>1. PICK j \in Ids : p \in letter[j].qr
        BY <1>6, <2>1, <3>2 DEF LettersInv, TokenPlaced
      <4> QED BY <1>2, <1>5, <4>1
    <3> QED BY <3>1, <3>2
  <2>2. \A j, k \in Ids : letter'[j].qr \intersect letter'[k].qr # {} => j = k
    BY <1>4, <1>5, <1>7 DEF LettersInv, TokenPlaced
  <2> QED BY <2>1, <2>2 DEF TokenPlaced, Ids
<1>12. IssuersAgree'
  <2>1. \A g \in Requests : Doing(g, "issueLetter")' => request[g].letter \in Ids \ {i}
    BY <1>1, <1>8 DEF IssueCommit, LettersInv, IssuersAgree, HrLettersTypeOK, LetterRequests, Idle, Doing
  <2> QED BY <1>5, <1>8, <2>1 DEF LettersInv, IssuersAgree
<1> QED BY <1>9, <1>10, <1>11, <1>12 DEF LettersInv, Ids

LEMMA RevokeKeeps ==
  ASSUME LettersInv, NEW i \in Ids, RevokeLetter(i) PROVE LettersInv'
<1> DEFINE row == [letter[i] EXCEPT !.status = "revoked", !.qr = {}]
<1>1. row \in LetterRows /\ row.qr = {} /\ row.status = "revoked"
  BY DEF LettersInv, HrLettersTypeOK, LetterRows
<1>2. letter' = [letter EXCEPT ![i] = row]
  BY DEF RevokeLetter, LettersInv, HrLettersTypeOK
<1>3. /\ request' \in [Requests -> {Idle} \union LetterRequests]
      /\ \A g \in Requests : Doing(g, "issueLetter")' =>
           Doing(g, "issueLetter") /\ request'[g] = request[g] /\ request[g].letter # i
  BY DEF RevokeLetter, LetterUnlocked, LettersInv, HrLettersTypeOK, Doing
<1> HIDE DEF row
<1> QED BY <1>1, <1>2, <1>3, TokenWithdrawn DEF RevokeLetter

LEMMA RevertKeeps ==
  ASSUME LettersInv, NEW i \in Ids, RevertLetter(i) PROVE LettersInv'
<1> DEFINE row == [letter[i] EXCEPT !.status = "draft", !.qr = {}, !.snapshot = NoBody]
<1>1. row \in LetterRows /\ row.qr = {} /\ row.status = "draft"
  BY DEF LettersInv, HrLettersTypeOK, LetterRows
<1>2. letter' = [letter EXCEPT ![i] = row]
  BY DEF RevertLetter, LettersInv, HrLettersTypeOK
<1>3. /\ request' \in [Requests -> {Idle} \union LetterRequests]
      /\ \A g \in Requests : Doing(g, "issueLetter")' =>
           Doing(g, "issueLetter") /\ request'[g] = request[g] /\ request[g].letter # i
  BY DEF RevertLetter, LetterUnlocked, LettersInv, HrLettersTypeOK, Doing
<1>4. letter[i].qr = {}
  BY DEF RevertLetter, LettersInv, TokenSound
<1> HIDE DEF row
<1> QED BY <1>1, <1>2, <1>3, <1>4, BareRowChanges DEF RevertLetter

\* Deleting looks at the status too early, but not while the letter is issued
\* by somebody; what it takes with it is withdrawn.
LEMMA DeleteWriteKeeps ==
  ASSUME LettersInv, NEW h \in Requests, DeleteLetterWrite(h) PROVE LettersInv'
<1>1. PICK i \in Ids : request[h].letter = i
  BY DEF DeleteLetterWrite, LettersInv, HrLettersTypeOK, LetterRequests, Idle, Doing
<1> DEFINE row == [NewLetter EXCEPT !.status = "deleted"]
<1>2. row \in LetterRows /\ row.qr = {} /\ row.status = "deleted"
  BY HrLettersAssumption DEF NewLetter, LetterRows
<1>3. letter' = [letter EXCEPT ![i] = row] /\ minted' = Withdraw(i) /\ template' = template
  BY <1>1 DEF DeleteLetterWrite
<1>4. /\ request' \in [Requests -> {Idle} \union LetterRequests]
      /\ \A g \in Requests : Doing(g, "issueLetter")' =>
           Doing(g, "issueLetter") /\ request'[g] = request[g] /\ request[g].letter # i
  BY <1>1, EndFreesLetter DEF DeleteLetterWrite, LetterUnlocked
<1> HIDE DEF row
<1>5. CASE letter[i].status = "issued"
  BY <1>2, <1>3, <1>4, <1>5, TokenWithdrawn
<1>6. CASE letter[i].status # "issued"
  <2>1. letter[i].qr = {} /\ minted' = minted
    BY <1>3, <1>6 DEF LettersInv, TokenSound, Withdraw
  <2> QED BY <1>2, <1>3, <1>4, <2>1, BareRowChanges
<1> QED BY <1>5, <1>6

LEMMA StepLetters ==
  ASSUME LettersInv, [HrLettersNext]_<<request, letterVars>> PROVE LettersInv'
<1>1. ASSUME NEW b \in Bodies, UpdateTemplate(b) PROVE LettersInv'
  BY <1>1, LettersStay DEF UpdateTemplate, LettersInv, HrLettersTypeOK, Doing
<1>2. CASE DeleteTemplate
  BY <1>2, LettersStay DEF DeleteTemplate, LettersInv, HrLettersTypeOK, Doing
<1>3. ASSUME NEW h \in Requests, CreateDraftRead(h) PROVE LettersInv'
  <2>1. PICK ref \in 1 .. MaxLetters + 1 : Begin(h, [kind |-> "draftLetter", ref |-> ref])
    BY <1>3 DEF CreateDraftRead
  <2> DEFINE r == [kind |-> "draftLetter", ref |-> ref]
  <2>2. r \in LetterRequests /\ r.kind # "issueLetter"
    BY HrLettersAssumption DEF LetterRequests
  <2> HIDE DEF r
  <2>3. Begin(h, r) /\ UNCHANGED letterVars
    BY <1>3, <2>1 DEF CreateDraftRead, r
  <2> QED BY <2>2, <2>3, BeginKeepsLetters
<1>4. ASSUME NEW h \in Requests, NEW i \in Ids, CreateDraftInsert(h, i) PROVE LettersInv'
  BY <1>4, DraftInsertKeeps
<1>5. ASSUME NEW h \in Requests, NEW i \in Ids, IssueRead(h, i) PROVE LettersInv'
  BY <1>5, IssueReadKeeps
<1>6. ASSUME NEW h \in Requests, NEW i \in Ids, DeleteLetterRead(h, i) PROVE LettersInv'
  <2> DEFINE r == [kind |-> "deleteLetter", letter |-> i]
  <2>1. r \in LetterRequests /\ r.kind # "issueLetter"
    BY DEF LetterRequests
  <2>2. Begin(h, r) /\ UNCHANGED letterVars
    BY <1>6 DEF DeleteLetterRead
  <2> HIDE DEF r
  <2> QED BY <2>1, <2>2, BeginKeepsLetters
<1>7. ASSUME NEW h \in Requests, NEW q \in QrTokens, IssueCommit(h, q) PROVE LettersInv'
  BY <1>7, IssueCommitKeeps
<1>8. ASSUME NEW h \in Requests, DeleteLetterWrite(h) PROVE LettersInv'
  BY <1>8, DeleteWriteKeeps
<1>9. ASSUME NEW h \in Requests, Abandon(h), UNCHANGED letterVars PROVE LettersInv'
  BY <1>9, EndFreesLetter, LettersStay DEF Abandon, letterVars, LettersInv, HrLettersTypeOK
<1>10. ASSUME NEW i \in Ids, RevokeLetter(i) PROVE LettersInv'
  BY <1>10, RevokeKeeps
<1>11. ASSUME NEW i \in Ids, RevertLetter(i) PROVE LettersInv'
  BY <1>11, RevertKeeps
<1>12. CASE UNCHANGED <<request, letterVars>>
  BY <1>12, LettersStay DEF letterVars, LettersInv, HrLettersTypeOK, Doing
<1> QED BY <1>1, <1>2, <1>3, <1>4, <1>5, <1>6, <1>7, <1>8, <1>9, <1>10, <1>11, <1>12
        DEF HrLettersNext

\* The invariant holds in every state of the letters' desk.
THEOREM LettersInvariant == HrLettersSpec => []LettersInv
BY InitLetters, StepLetters, PTL DEF HrLettersSpec

\* A public link verifies as long as its letter is neither revoked nor deleted,
\* never afterwards, and with the text it was signed with (issueLetter,
\* verifyLetterPublic).
THEOREM LinksAreMeant == HrLettersSpec => []LinksMeanWhatTheySay
BY LettersInvariant, InvariantIsMeaning, PTL
============================================================================
