----------------------------- MODULE EmailOutbox -----------------------------
(***************************************************************************)
(* The durable outbox of workflow mails: rows inserted under a unique      *)
(* event key, and in every server process a worker that claims due rows,   *)
(* sends them and records how it went (notificationEmail.worker.js).       *)
(*                                                                         *)
(* Every statement is autocommitted, so a drain is one step per statement  *)
(* and the workers of several processes interleave between them.  A        *)
(* process may die at any step, SMTP may take the mail and lose the        *)
(* answer, and a statement that records an outcome may fail.               *)
(*                                                                         *)
(* Time is counted in ticks of the shortest retry delay, 30 seconds.       *)
(***************************************************************************)
EXTENDS Integers, FiniteSets

CONSTANTS
  Mails,        \* event keys
  NoMail,
  Processes,    \* server processes, each with one worker
  MaxAttempts,  \* 6 in the code
  BatchSize,    \* 10 in the code
  Lease,        \* a claim older than this is taken back: 10 minutes
  MaxDelay,     \* cap of the retry delay: 6 hours
  SlowSends,    \* can a send outlast the lease?
  MaxFaults     \* bound: crashes, lost answers and failed statements

ASSUME OutboxAssumption ==
  /\ IsFiniteSet(Mails) /\ NoMail \notin Mails
  /\ MaxAttempts \in Nat \ {0} /\ BatchSize \in Nat \ {0}
  /\ Lease \in Nat /\ MaxDelay \in Nat \ {0} /\ MaxFaults \in Nat
  /\ SlowSends \in BOOLEAN

VARIABLES
  outbox,     \* email_outbox, by event key
  drain,      \* where the worker of each process is
  delivered,  \* how often SMTP took each mail
  lost,       \* history: attempts whose outcome the row was not told
  faults      \* history: faults so far

vars == <<outbox, drain, delivered, lost, faults>>

RowStatuses == {"absent", "pending", "sending", "sent", "failed"}

OutboxRows == [status   : RowStatuses,
               id       : Nat,    \* AUTO_INCREMENT
               attempts : Nat,
               wait     : Nat,    \* ticks until available_at
               age      : Nat]    \* ticks since claimed_at

Absent == [status |-> "absent", id |-> 0, attempts |-> 0, wait |-> 0, age |-> 0]

\* A row as the SELECT returned it.
Jobs  == [mail : Mails, attempts : Nat]
NoJob == [mail |-> NoMail, attempts |-> 0]

Drains == [at   : {"idle", "read", "next", "sending", "accepted", "refused"},
           jobs : SUBSET Jobs,              \* the rest of the batch
           job  : Jobs \union {NoJob}]      \* the row being sent

Idle == [at |-> "idle", jobs |-> {}, job |-> NoJob]

TypeOK ==
  /\ outbox \in [Mails -> OutboxRows]
  /\ drain \in [Processes -> Drains]
  /\ delivered \in [Mails -> Nat]
  /\ lost \in [Mails -> Nat]
  /\ faults \in Nat

Init ==
  /\ outbox = [m \in Mails |-> Absent]
  /\ drain = [p \in Processes |-> Idle]
  /\ delivered = [m \in Mails |-> 0]
  /\ lost = [m \in Mails |-> 0]
  /\ faults = 0

----------------------------------------------------------------------------
\* running is true and a row is claimed and not yet written back.
Sends(p) == drain[p].at \in {"sending", "accepted", "refused"}
Holds(p, m) == Sends(p) /\ drain[p].job.mail = m

\* The next row of the batch, or the end of the drain.
Continue(p, rest) ==
  drain' = [drain EXCEPT ![p] =
              [at |-> IF rest = {} THEN "idle" ELSE "next", jobs |-> rest, job |-> NoJob]]

Fault == faults < MaxFaults /\ faults' = faults + 1

Lose(m) == lost' = [lost EXCEPT ![m] = @ + 1]

\* Math.min(21600, 30 * 2 ** Math.min(attempts - 1, 10)) seconds
RetryDelay(n) == IF 2 ^ (n - 1) \in 1 .. MaxDelay THEN 2 ^ (n - 1) ELSE MaxDelay

----------------------------------------------------------------------------
\* Defaults of the table, and the next id.
NewRow ==
  [status |-> "pending", id |-> 1 + Cardinality({k \in Mails : outbox[k].status # "absent"}),
   attempts |-> 0, wait |-> 0, age |-> 0]

\* Mutant: a repeated event key puts the row back (ON DUPLICATE KEY UPDATE).
QueueNotificationEmailAgain(m) ==
  /\ outbox[m].status \in {"absent", "sent"}
  /\ outbox' = [outbox EXCEPT ![m] = NewRow]
  /\ UNCHANGED <<drain, delivered, lost, faults>>

\* INSERT IGNORE: a known event key changes nothing.
QueueNotificationEmail(m) ==
  /\ outbox[m].status = "absent"
  /\ outbox' = [outbox EXCEPT ![m] = NewRow]
  /\ UNCHANGED <<drain, delivered, lost, faults>>

\* Mutants: claims are taken back at once, or never.
ReclaimAll(p) ==
  /\ drain[p].at = "idle"
  /\ outbox' = [m \in Mails |->
       IF outbox[m].status = "sending"
       THEN [outbox[m] EXCEPT !.status = "pending", !.age = 0] ELSE outbox[m]]
  /\ drain' = [drain EXCEPT ![p].at = "read"]
  /\ UNCHANGED <<delivered, lost, faults>>

ReclaimNothing(p) ==
  /\ drain[p].at = "idle"
  /\ drain' = [drain EXCEPT ![p].at = "read"]
  /\ UNCHANGED <<outbox, delivered, lost, faults>>

\* drainEmailOutbox begins: claims of a worker that is presumed dead are taken
\* back.
Reclaim(p) ==
  /\ drain[p].at = "idle"
  /\ outbox' = [m \in Mails |->
       IF outbox[m].status = "sending" /\ outbox[m].age > Lease
       THEN [outbox[m] EXCEPT !.status = "pending", !.age = 0] ELSE outbox[m]]
  /\ drain' = [drain EXCEPT ![p].at = "read"]
  /\ UNCHANGED <<delivered, lost, faults>>

\* The oldest due rows, read without a lock.
SelectBatch(p) ==
  LET due   == {m \in Mails : outbox[m].status = "pending" /\ outbox[m].wait = 0}
      batch == {m \in due : Cardinality({k \in due : outbox[k].id < outbox[m].id}) < BatchSize}
  IN /\ drain[p].at = "read"
     /\ Continue(p, {[mail |-> m, attempts |-> outbox[m].attempts] : m \in batch})
     /\ UNCHANGED <<outbox, delivered, lost, faults>>

\* Mutant: UPDATE ... WHERE id=? alone.
ClaimUnguarded(p) ==
  /\ drain[p].at = "next"
  /\ \E j \in drain[p].jobs :
       /\ \A k \in drain[p].jobs : outbox[j.mail].id <= outbox[k.mail].id
       /\ outbox' = [outbox EXCEPT ![j.mail].status = "sending",
                                   ![j.mail].attempts = @ + 1,
                                   ![j.mail].age = 0]
       /\ drain' = [drain EXCEPT ![p] =
                      [at |-> "sending", jobs |-> @.jobs \ {j}, job |-> j]]
  /\ UNCHANGED <<delivered, lost, faults>>

\* UPDATE ... WHERE id=? AND status='pending'
Claim(p) ==
  /\ drain[p].at = "next"
  /\ \E j \in drain[p].jobs :
       /\ \A k \in drain[p].jobs : outbox[j.mail].id <= outbox[k.mail].id
       /\ \/ /\ outbox[j.mail].status = "pending"
             /\ outbox' = [outbox EXCEPT ![j.mail].status = "sending",
                                         ![j.mail].attempts = @ + 1,
                                         ![j.mail].age = 0]
             /\ drain' = [drain EXCEPT ![p] =
                            [at |-> "sending", jobs |-> @.jobs \ {j}, job |-> j]]
          \/ /\ outbox[j.mail].status # "pending"
             /\ Continue(p, drain[p].jobs \ {j})
             /\ UNCHANGED outbox
  /\ UNCHANGED <<delivered, lost, faults>>

\* Mutant: the mailer swallows the error of SMTP.
SendSwallowingErrors(p) ==
  /\ drain[p].at = "sending"
  /\ LET m == drain[p].job.mail
     IN delivered' \in {delivered, [delivered EXCEPT ![m] = @ + 1]}
  /\ drain' = [drain EXCEPT ![p].at = "accepted"]
  /\ UNCHANGED <<outbox, lost, faults>>

\* SMTP takes the mail or refuses it; or it takes it and the answer is lost,
\* which the worker cannot tell from a refusal.
SendWorkflowNotificationEmail(p) ==
  /\ drain[p].at = "sending"
  /\ LET m == drain[p].job.mail
         taken == delivered' = [delivered EXCEPT ![m] = @ + 1]
         goto(label) == drain' = [drain EXCEPT ![p].at = label]
     IN \/ taken /\ goto("accepted") /\ UNCHANGED <<lost, faults>>
        \/ goto("refused") /\ UNCHANGED <<delivered, lost, faults>>
        \/ taken /\ goto("refused") /\ Fault /\ Lose(m)
  /\ UNCHANGED outbox

\* UPDATE ... SET status='sent' WHERE id=?.  If this statement fails the catch
\* treats the mail as refused.
RecordSent(p) ==
  /\ drain[p].at = "accepted"
  /\ LET m == drain[p].job.mail
     IN \/ /\ outbox' = [outbox EXCEPT ![m].status = "sent", ![m].age = 0]
           /\ Continue(p, drain[p].jobs)
           /\ UNCHANGED <<lost, faults>>
        \/ /\ Fault /\ Lose(m)
           /\ drain' = [drain EXCEPT ![p].at = "refused"]
           /\ UNCHANGED outbox
  /\ UNCHANGED delivered

\* The catch, which gives up after limit attempts counted from what the SELECT
\* read.  If its own statement fails, the drain ends and the row stays claimed.
RecordOutcome(p, limit) ==
  /\ drain[p].at = "refused"
  /\ LET m == drain[p].job.mail
         n == drain[p].job.attempts + 1
     IN \/ /\ outbox' = [outbox EXCEPT ![m].status = IF n >= limit THEN "failed" ELSE "pending",
                                       ![m].wait = RetryDelay(n),
                                       ![m].age = 0]
           /\ Continue(p, drain[p].jobs)
           /\ UNCHANGED <<lost, faults>>
        \/ /\ Fault /\ Lose(m)
           /\ drain' = [drain EXCEPT ![p] = Idle]
           /\ UNCHANGED outbox
  /\ UNCHANGED delivered

\* Mutants: one attempt too few, one too many.
RecordFailureEarly(p) == RecordOutcome(p, MaxAttempts - 1)
RecordFailureLate(p)  == RecordOutcome(p, MaxAttempts + 1)

RecordFailure(p) == RecordOutcome(p, MaxAttempts)

\* The process dies and is started again, or a statement outside the try fails:
\* either way the drain is over and what it held stays claimed.
Crash(p) ==
  /\ drain[p].at # "idle"
  /\ Fault
  /\ drain' = [drain EXCEPT ![p] = Idle]
  /\ IF Sends(p) THEN Lose(drain[p].job.mail) ELSE UNCHANGED lost
  /\ UNCHANGED <<outbox, delivered>>

\* Time passes, but without SlowSends not while a claim would outlive its lease.
Tick ==
  /\ SlowSends \/ \A p \in Processes : Sends(p) => outbox[drain[p].job.mail].age < Lease
  /\ outbox' = [m \in Mails |->
       [outbox[m] EXCEPT !.wait = IF @ > 0 THEN @ - 1 ELSE 0,
                         !.age  = IF outbox[m].status = "sending" /\ @ <= Lease
                                  THEN @ + 1 ELSE @]]
  /\ UNCHANGED <<drain, delivered, lost, faults>>

----------------------------------------------------------------------------
\* The worker of process p goes on; every five seconds a drain begins.
Work(p) ==
  \/ Reclaim(p) \/ SelectBatch(p) \/ Claim(p)
  \/ SendWorkflowNotificationEmail(p) \/ RecordSent(p) \/ RecordFailure(p)

Next ==
  \/ Tick
  \/ \E m \in Mails : QueueNotificationEmail(m)
  \/ \E p \in Processes : Work(p) \/ Crash(p)

Spec == Init /\ [][Next]_vars

\* The timers keep firing and statements and sends come back.
FairSpec == Spec /\ WF_vars(Tick) /\ \A p \in Processes : WF_vars(Work(p))

----------------------------------------------------------------------------
(* What is promised, when no other process can take a claim back too early *)

Exclusive == ~SlowSends \/ \A p, q \in Processes : p = q

\* Two workers never send the same mail at the same time (the claim's condition
\* on status and the ten minutes of the reclaim).
OneSender ==
  \A p, q \in Processes, m \in Mails : Holds(p, m) /\ Holds(q, m) => p = q

\* A recipient gets a mail a second time only when the outcome of an earlier
\* attempt never reached the row (drainEmailOutbox).
DuplicateNeedsLoss == \A m \in Mails : delivered[m] <= 1 + lost[m]

\* A mail is not given up before it was tried MaxAttempts times, whatever the
\* workers read before (the catch of drainEmailOutbox).
GivenUpLate == \A m \in Mails : outbox[m].status = "failed" => outbox[m].attempts >= MaxAttempts

\* With one process, a mail is tried MaxAttempts times and once more for every
\* attempt whose outcome was lost (the catch of drainEmailOutbox).
TriesBounded == \A m \in Mails : outbox[m].attempts <= MaxAttempts + lost[m]

\* A mail that is queued is sent or given up in the end (the reclaim, the
\* retry delay and the order of the batch).
EveryMailEnds ==
  \A m \in Mails : outbox[m].status = "pending" ~> outbox[m].status \in {"sent", "failed"}

\* Every mail goes through the stages of MailDelivery: nothing is sent without
\* having arrived, and a settled mail is never offered again.
Delivery == INSTANCE MailDelivery WITH
  arrived <- delivered,
  state   <- [m \in Mails |->
                IF outbox[m].status = "absent" THEN "none"
                ELSE IF outbox[m].status \in {"pending", "sending"} THEN "queued"
                ELSE outbox[m].status]

MailIsDelivered == Delivery!Spec

----------------------------------------------------------------------------
(* Why: the claim is on the row as long as a worker is sending.             *)

ClaimsHold ==
  \A p \in Processes : Sends(p) =>
    LET m == drain[p].job.mail
    IN /\ m \in Mails
       /\ outbox[m].status = "sending"
       /\ outbox[m].age <= Lease \/ SlowSends
       /\ drain[p].at = "accepted" => delivered[m] > 0
       /\ drain[p].job.attempts < outbox[m].attempts

\* A batch holds rows that exist, and never knows of more attempts than were
\* made.
BatchesLag ==
  \A p \in Processes : \A j \in drain[p].jobs :
    outbox[j.mail].status # "absent" /\ j.attempts <= outbox[j.mail].attempts

\* What arrived is accounted for: lost, recorded, or about to be.
Accounted ==
  \A m \in Mails :
    \/ delivered[m] <= lost[m]
    \/ /\ delivered[m] = lost[m] + 1
       /\ \/ outbox[m].status = "sent"
          \/ \E p \in Processes : Holds(p, m) /\ drain[p].at = "accepted"

IInv == TypeOK /\ ClaimsHold /\ OneSender /\ BatchesLag /\ Accounted /\ GivenUpLate
============================================================================
