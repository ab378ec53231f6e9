-------------------------- MODULE EmailOutbox_proofs --------------------------
(* Theorems about EmailOutbox, for every set of mails and processes.        *)
EXTENDS EmailOutbox, FiniteSetTheorems, TLAPS

LEMMA DelayTyped == ASSUME NEW n PROVE RetryDelay(n) \in Nat
  <1>1. ASSUME NEW d PROVE (IF d \in 1 .. MaxDelay THEN d ELSE MaxDelay) \in Nat
    BY OutboxAssumption
  <1> QED
    BY <1>1 DEF RetryDelay

LEMMA RowStep ==
  ASSUME TypeOK, NEW m \in Mails, NEW r \in OutboxRows, outbox' = [outbox EXCEPT ![m] = r]
  PROVE  /\ outbox' \in [Mails -> OutboxRows]
         /\ outbox'[m] = r
         /\ \A k \in Mails : k # m => outbox'[k] = outbox[k]
  BY DEF TypeOK

LEMMA DrainStep ==
  ASSUME TypeOK, NEW p \in Processes, NEW d \in Drains, drain' = [drain EXCEPT ![p] = d]
  PROVE  /\ drain' \in [Processes -> Drains]
         /\ drain'[p] = d
         /\ \A q \in Processes : q # p => drain'[q] = drain[q]
  BY DEF TypeOK

LEMMA ContinueStep ==
  ASSUME TypeOK, NEW p \in Processes, NEW rest \in SUBSET Jobs, Continue(p, rest)
  PROVE  /\ drain' \in [Processes -> Drains]
         /\ drain'[p].at \in {"idle", "next"} /\ drain'[p].jobs = rest
         /\ \A q \in Processes : q # p => drain'[q] = drain[q]
  <1> DEFINE d == [at |-> IF rest = {} THEN "idle" ELSE "next", jobs |-> rest, job |-> NoJob]
  <1>1. d \in Drains
    BY DEF Drains
  <1> QED
    BY <1>1, DrainStep DEF Continue

LEMMA IdleStep ==
  ASSUME TypeOK, NEW p \in Processes, drain' = [drain EXCEPT ![p] = Idle]
  PROVE  /\ drain' \in [Processes -> Drains]
         /\ drain'[p].at = "idle" /\ drain'[p].jobs = {}
         /\ \A q \in Processes : q # p => drain'[q] = drain[q]
  BY DrainStep DEF Idle, Drains

\* The worker of p moves on with the same batch and the same job.
LEMMA LabelStep ==
  ASSUME TypeOK, NEW p \in Processes, NEW label \in {"read", "accepted", "refused"},
         drain' = [drain EXCEPT ![p].at = label]
  PROVE  /\ drain' \in [Processes -> Drains]
         /\ drain'[p].at = label
         /\ drain'[p].jobs = drain[p].jobs /\ drain'[p].job = drain[p].job
         /\ \A q \in Processes : q # p => drain'[q] = drain[q]
  <1>1. drain[p] \in Drains
    BY DEF TypeOK
  <1>2. [drain[p] EXCEPT !.at = label] \in Drains
    BY <1>1 DEF Drains
  <1>3. drain' = [drain EXCEPT ![p] = [drain[p] EXCEPT !.at = label]]
    OBVIOUS
  <1>4. /\ drain' \in [Processes -> Drains]
        /\ drain'[p] = [drain[p] EXCEPT !.at = label]
        /\ \A q \in Processes : q # p => drain'[q] = drain[q]
    BY <1>2, <1>3, DrainStep
  <1> QED
    BY <1>1, <1>4 DEF Drains

LEMMA LoseStep ==
  ASSUME TypeOK, NEW m \in Mails, Lose(m)
  PROVE  /\ lost' \in [Mails -> Nat]
         /\ lost'[m] = lost[m] + 1
         /\ \A k \in Mails : k # m => lost'[k] = lost[k]
  BY DEF TypeOK, Lose

LEMMA BatchTyped ==
  ASSUME TypeOK, NEW p \in Processes
  PROVE  drain[p].jobs \in SUBSET Jobs /\ \A j \in drain[p].jobs : j.mail \in Mails
  <1>1. drain[p] \in Drains
    BY DEF TypeOK
  <1>2. drain[p].jobs \in SUBSET Jobs
    BY <1>1 DEF Drains
  <1> QED
    BY <1>2 DEF Jobs

LEMMA InitInv == Init => IInv
  <1> SUFFICES ASSUME Init PROVE IInv
    OBVIOUS
  <1>1. Absent \in OutboxRows /\ Idle \in Drains
    BY DEF Absent, OutboxRows, RowStatuses, Idle, Drains
  <1>2. TypeOK
    BY <1>1 DEF Init, TypeOK
  <1>3. ClaimsHold /\ OneSender /\ BatchesLag
    BY DEF Init, Idle, ClaimsHold, OneSender, BatchesLag, Holds, Sends
  <1>4. Accounted /\ GivenUpLate
    BY DEF Init, Absent, Accounted, GivenUpLate
  <1> QED
    BY <1>2, <1>3, <1>4 DEF IInv

\* What a worker that holds a claim knows.
LEMMA Holding ==
  ASSUME IInv, NEW p \in Processes, Sends(p)
  PROVE  /\ drain[p].job.mail \in Mails
         /\ drain[p].job.attempts \in Nat
         /\ drain[p].jobs \in SUBSET Jobs
         /\ drain[p].job.attempts < outbox[drain[p].job.mail].attempts
         /\ outbox[drain[p].job.mail] \in OutboxRows
         /\ outbox[drain[p].job.mail].status = "sending"
         /\ \A q \in Processes : Holds(q, drain[p].job.mail) => q = p
  <1>1. drain[p] \in Drains
    BY DEF IInv, TypeOK
  <1>2. drain[p].job \in Jobs \union {NoJob} /\ drain[p].jobs \in SUBSET Jobs
    BY <1>1 DEF Drains
  <1>3. drain[p].job.attempts \in Nat
    BY <1>2 DEF Jobs, NoJob
  <1>4. /\ drain[p].job.mail \in Mails
        /\ drain[p].job.attempts < outbox[drain[p].job.mail].attempts
        /\ outbox[drain[p].job.mail].status = "sending"
    BY DEF IInv, ClaimsHold
  <1>5. Holds(p, drain[p].job.mail)
    BY DEF Holds
  <1> QED
    BY <1>2, <1>3, <1>4, <1>5 DEF IInv, TypeOK, OneSender

----------------------------------------------------------------------------
(* Steps of the queue and of time *)

LEMMA QueueInv == ASSUME IInv, NEW m \in Mails, QueueNotificationEmail(m) PROVE IInv'
  <1>1. Cardinality({k \in Mails : outbox[k].status # "absent"}) \in Nat
    BY OutboxAssumption, FS_Subset, FS_CardinalityType
  <1> DEFINE r == NewRow
  <1>2. r \in OutboxRows /\ r.status = "pending" /\ r.attempts = 0
    <2>1. ASSUME NEW n \in Nat
          PROVE  [status |-> "pending", id |-> 1 + n, attempts |-> 0, wait |-> 0, age |-> 0]
                   \in OutboxRows
      BY DEF OutboxRows, RowStatuses
    <2> QED
      BY <1>1, <2>1 DEF NewRow
  <1>3. /\ outbox' \in [Mails -> OutboxRows] /\ outbox'[m] = r
        /\ \A k \in Mails : k # m => outbox'[k] = outbox[k]
    BY <1>2, RowStep DEF QueueNotificationEmail, IInv
  <1>4. UNCHANGED <<drain, delivered, lost, faults>> /\ outbox[m].status = "absent"
    BY DEF QueueNotificationEmail
  <1>5. TypeOK'
    BY <1>3, <1>4 DEF IInv, TypeOK
  <1>6. ClaimsHold'
    BY <1>3, <1>4 DEF IInv, ClaimsHold, Sends
  <1>7. OneSender'
    BY <1>4 DEF IInv, OneSender, Holds, Sends
  <1>8. BatchesLag'
    BY <1>2, <1>3, <1>4, BatchTyped DEF IInv, BatchesLag
  <1>9. Accounted'
    BY <1>3, <1>4 DEF IInv, Accounted, Holds, Sends
  <1>10. GivenUpLate'
    BY <1>2, <1>3, <1>4 DEF IInv, GivenUpLate
  <1> QED
    BY <1>5, <1>6, <1>7, <1>8, <1>9, <1>10 DEF IInv

LEMMA TickInv == ASSUME Exclusive, IInv, Tick PROVE IInv'
  <1>1. ASSUME NEW m \in Mails
        PROVE  /\ outbox'[m] \in OutboxRows
               /\ outbox'[m].status = outbox[m].status
               /\ outbox'[m].attempts = outbox[m].attempts
               /\ outbox'[m].age \in {outbox[m].age, outbox[m].age + 1}
    <2>1. outbox[m] \in OutboxRows
      BY DEF IInv, TypeOK
    <2>2. outbox'[m] = [outbox[m] EXCEPT
            !.wait = IF @ > 0 THEN @ - 1 ELSE 0,
            !.age  = IF outbox[m].status = "sending" /\ @ <= Lease THEN @ + 1 ELSE @]
      BY DEF Tick
    <2> DEFINE w == IF outbox[m].wait > 0 THEN outbox[m].wait - 1 ELSE 0
               a == IF outbox[m].status = "sending" /\ outbox[m].age <= Lease
                    THEN outbox[m].age + 1 ELSE outbox[m].age
    <2>3. w \in Nat /\ a \in Nat /\ a \in {outbox[m].age, outbox[m].age + 1}
      BY <2>1 DEF OutboxRows
    <2>4. outbox'[m] = [outbox[m] EXCEPT !.wait = w, !.age = a]
      BY <2>2
    <2> HIDE DEF w, a
    <2>5. LET t == [outbox[m] EXCEPT !.wait = w, !.age = a]
          IN /\ t \in OutboxRows /\ t.status = outbox[m].status
             /\ t.attempts = outbox[m].attempts /\ t.age = a
      BY <2>1, <2>3 DEF OutboxRows
    <2> QED
      BY <2>3, <2>4, <2>5
  <1>2. outbox' \in [Mails -> OutboxRows]
    BY <1>1 DEF Tick
  <1>3. UNCHANGED <<drain, delivered, lost, faults>>
    BY DEF Tick
  <1>4. TypeOK'
    BY <1>2, <1>3 DEF IInv, TypeOK
  <1>5. ClaimsHold'
    <2> SUFFICES ASSUME NEW p \in Processes, Sends(p)
                 PROVE  ~SlowSends => outbox'[drain[p].job.mail].age <= Lease
      BY <1>1, <1>3, Holding DEF IInv, ClaimsHold, Sends
    <2>1. drain[p].job.mail \in Mails /\ outbox[drain[p].job.mail].age \in Nat
      BY Holding DEF OutboxRows
    <2>2. ~SlowSends => outbox[drain[p].job.mail].age < Lease
      BY DEF Tick
    <2> QED
      BY <1>1, <2>1, <2>2, OutboxAssumption
  <1>6. OneSender'
    BY <1>3 DEF IInv, OneSender, Holds, Sends
  <1>7. BatchesLag'
    <2>1. \A p \in Processes : \A j \in drain[p].jobs : j.mail \in Mails
      BY DEF IInv, TypeOK, Drains, Jobs
    <2> QED
      BY <1>1, <1>3, <2>1 DEF IInv, BatchesLag
  <1>8. Accounted'
    BY <1>1, <1>3 DEF IInv, Accounted, Holds, Sends
  <1>9. GivenUpLate'
    BY <1>1 DEF IInv, GivenUpLate
  <1> QED
    BY <1>4, <1>5, <1>6, <1>7, <1>8, <1>9 DEF IInv

LEMMA ReclaimInv == ASSUME Exclusive, IInv, NEW p \in Processes, Reclaim(p) PROVE IInv'
  <1>1. /\ drain[p].at = "idle" /\ drain' \in [Processes -> Drains]
        /\ drain'[p].at = "read" /\ drain'[p].jobs = drain[p].jobs
        /\ \A q \in Processes : q # p => drain'[q] = drain[q]
    BY LabelStep DEF Reclaim, IInv
  <1>2. ASSUME NEW m \in Mails
        PROVE  /\ outbox'[m] \in OutboxRows
               /\ outbox'[m].attempts = outbox[m].attempts
               /\ \/ outbox'[m] = outbox[m]
                  \/ /\ outbox[m].status = "sending" /\ outbox[m].age > Lease
                     /\ outbox'[m].status = "pending"
    <2>1. outbox[m] \in OutboxRows
      BY DEF IInv, TypeOK
    <2>2. \/ outbox'[m] = outbox[m]
          \/ /\ outbox[m].status = "sending" /\ outbox[m].age > Lease
             /\ outbox'[m] = [outbox[m] EXCEPT !.status = "pending", !.age = 0]
      BY DEF Reclaim
    <2>3. LET t == [outbox[m] EXCEPT !.status = "pending", !.age = 0]
          IN t \in OutboxRows /\ t.status = "pending" /\ t.attempts = outbox[m].attempts
      BY <2>1 DEF OutboxRows, RowStatuses
    <2> QED
      BY <2>1, <2>2, <2>3
  <1>3. outbox' \in [Mails -> OutboxRows]
    BY <1>2 DEF Reclaim
  <1>4. UNCHANGED <<delivered, lost, faults>>
    BY DEF Reclaim
  <1>5. \A q \in Processes : Sends(q)' <=> Sends(q)
    BY <1>1 DEF Sends
  <1>6. \A q \in Processes : Sends(q) => drain'[q] = drain[q]
    BY <1>1 DEF Sends
  <1>7. ASSUME NEW q \in Processes, Sends(q)
        PROVE  outbox'[drain[q].job.mail] = outbox[drain[q].job.mail]
    <2>1. q # p
      BY <1>1, <1>7 DEF Sends
    <2>2. ~SlowSends
      BY <2>1 DEF Exclusive
    <2>3. drain[q].job.mail \in Mails /\ outbox[drain[q].job.mail].age <= Lease
      BY <1>7, <2>2 DEF IInv, ClaimsHold
    <2>4. outbox[drain[q].job.mail].age \in Nat
      BY <2>3 DEF IInv, TypeOK, OutboxRows
    <2> QED
      BY <1>2, <2>3, <2>4, OutboxAssumption
  <1>8. TypeOK'
    BY <1>1, <1>3, <1>4 DEF IInv, TypeOK
  <1>9. ClaimsHold'
    BY <1>4, <1>5, <1>6, <1>7 DEF IInv, ClaimsHold
  <1>10. OneSender'
    BY <1>5, <1>6 DEF IInv, OneSender, Holds
  <1>11. BatchesLag'
    <2>1. \A q \in Processes : \A j \in drain[q].jobs : j.mail \in Mails
      BY DEF IInv, TypeOK, Drains, Jobs
    <2>2. \A q \in Processes : drain'[q].jobs = drain[q].jobs
      BY <1>1
    <2> QED
      BY <1>2, <2>1, <2>2 DEF IInv, BatchesLag
  <1>12. Accounted'
    BY <1>2, <1>4, <1>5, <1>6 DEF IInv, Accounted, Holds
  <1>13. GivenUpLate'
    BY <1>2 DEF IInv, GivenUpLate
  <1> QED
    BY <1>8, <1>9, <1>10, <1>11, <1>12, <1>13 DEF IInv

----------------------------------------------------------------------------
(* Steps of a worker *)

\* Process p holds nothing before or after a step that leaves the rows alone.
LEMMA FreeStep ==
  ASSUME IInv, NEW p \in Processes, ~Sends(p), ~Sends(p)',
         UNCHANGED <<outbox, delivered, lost>>, faults' \in Nat,
         drain' \in [Processes -> Drains],
         \A q \in Processes : q # p => drain'[q] = drain[q],
         \A j \in drain'[p].jobs :
           outbox[j.mail].status # "absent" /\ j.attempts <= outbox[j.mail].attempts
  PROVE  IInv'
  <1>1. \A q \in Processes : Sends(q)' => Sends(q) /\ drain'[q] = drain[q]
    BY DEF Sends
  <1>2. \A q \in Processes : Sends(q) => Sends(q)' /\ drain'[q] = drain[q]
    BY DEF Sends
  <1>3. TypeOK'
    BY DEF IInv, TypeOK
  <1>4. ClaimsHold'
    BY <1>1 DEF IInv, ClaimsHold
  <1>5. OneSender'
    BY <1>1 DEF IInv, OneSender, Holds
  <1>6. BatchesLag'
    BY DEF IInv, BatchesLag
  <1>7. Accounted'
    BY <1>2 DEF IInv, Accounted, Holds
  <1>8. GivenUpLate'
    BY DEF IInv, GivenUpLate
  <1> QED
    BY <1>3, <1>4, <1>5, <1>6, <1>7, <1>8 DEF IInv

LEMMA SelectBatchInv == ASSUME IInv, NEW p \in Processes, SelectBatch(p) PROVE IInv'
  <1>1. PICK batch \in SUBSET Mails :
          /\ \A m \in batch : outbox[m].status = "pending"
          /\ Continue(p, {[mail |-> m, attempts |-> outbox[m].attempts] : m \in batch})
    BY DEF SelectBatch
  <1> DEFINE rest == {[mail |-> m, attempts |-> outbox[m].attempts] : m \in batch}
  <1>2. rest \in SUBSET Jobs
    BY DEF Jobs, IInv, TypeOK, OutboxRows
  <1>3. /\ drain' \in [Processes -> Drains]
        /\ drain'[p].at \in {"idle", "next"} /\ drain'[p].jobs = rest
        /\ \A q \in Processes : q # p => drain'[q] = drain[q]
    BY <1>1, <1>2, ContinueStep DEF IInv
  <1>4. \A j \in rest : outbox[j.mail].status # "absent" /\ j.attempts <= outbox[j.mail].attempts
    BY <1>1 DEF IInv, TypeOK, OutboxRows
  <1>5. ~Sends(p) /\ ~Sends(p)' /\ UNCHANGED <<outbox, delivered, lost>> /\ faults' \in Nat
    BY <1>3 DEF SelectBatch, Sends, IInv, TypeOK
  <1> QED
    BY <1>3, <1>4, <1>5, FreeStep

LEMMA CrashFreeInv ==
  ASSUME IInv, NEW p \in Processes, Crash(p), ~Sends(p) PROVE IInv'
  <1>1. /\ drain' \in [Processes -> Drains]
        /\ drain'[p].at = "idle" /\ drain'[p].jobs = {}
        /\ \A q \in Processes : q # p => drain'[q] = drain[q]
    BY IdleStep DEF Crash, IInv
  <1>2. ~Sends(p)' /\ UNCHANGED <<outbox, delivered, lost>> /\ faults' \in Nat
    BY <1>1 DEF Crash, Fault, Sends, IInv, TypeOK
  <1> QED
    BY <1>1, <1>2, FreeStep

\* What has to hold of mail m after process p did something with it.
ClaimHolds(p, m) ==
  Sends(p) =>
    /\ drain[p].job.mail = m
    /\ outbox[m].status = "sending"
    /\ outbox[m].age <= Lease \/ SlowSends
    /\ drain[p].at = "accepted" => delivered[m] > 0
    /\ drain[p].job.attempts < outbox[m].attempts

MailAccounted(m) ==
  \/ delivered[m] <= lost[m]
  \/ /\ delivered[m] = lost[m] + 1
     /\ \/ outbox[m].status = "sent"
        \/ \E p \in Processes : Holds(p, m) /\ drain[p].at = "accepted"

\* Process p works on mail m, which no other process holds.
LEMMA WorkerStep ==
  ASSUME IInv, NEW p \in Processes, NEW m \in Mails,
         \A q \in Processes : Holds(q, m) => q = p,
         Sends(p) => drain[p].job.mail = m,
         drain' \in [Processes -> Drains],
         \A q \in Processes : q # p => drain'[q] = drain[q],
         drain'[p].jobs \subseteq drain[p].jobs,
         outbox' \in [Mails -> OutboxRows],
         \A k \in Mails : k # m => outbox'[k] = outbox[k],
         outbox'[m].status # "absent", outbox'[m].attempts >= outbox[m].attempts,
         delivered' \in [Mails -> Nat], lost' \in [Mails -> Nat], faults' \in Nat,
         \A k \in Mails : k # m => delivered'[k] = delivered[k] /\ lost'[k] = lost[k],
         outbox'[m].status = "failed" => outbox'[m].attempts >= MaxAttempts,
         ClaimHolds(p, m)', MailAccounted(m)'
  PROVE  IInv'
  <1>1. TypeOK'
    BY DEF TypeOK
  <1>2. \A q \in Processes : q # p =>
          /\ Sends(q)' <=> Sends(q)
          /\ Sends(q) => drain[q].job.mail # m
    BY DEF Sends, Holds
  <1>3. ClaimsHold'
    <2>1. ASSUME NEW q \in Processes, Sends(q)', q # p
          PROVE  LET k == drain[q].job.mail
                 IN k \in Mails /\ k # m
      BY <1>2, <2>1 DEF IInv, ClaimsHold
    <2> QED
      BY <1>2, <2>1 DEF IInv, ClaimsHold, ClaimHolds
  <1>4. OneSender'
    BY <1>2 DEF IInv, OneSender, Holds, ClaimHolds
  <1>5. BatchesLag'
    <2>1. ASSUME NEW q \in Processes, NEW j \in drain'[q].jobs
          PROVE  j \in drain[q].jobs /\ j \in Jobs /\ j.mail \in Mails /\ j.attempts \in Nat
      <3>1. j \in drain[q].jobs
        BY <2>1
      <3> QED
        BY <3>1, BatchTyped DEF IInv, Jobs
    <2>2. ASSUME NEW k \in Mails, outbox[k].status # "absent"
          PROVE  outbox'[k].status # "absent" /\ outbox'[k].attempts >= outbox[k].attempts
      <3>1. outbox[k] \in OutboxRows
        BY DEF IInv, TypeOK
      <3> QED
        BY <2>2, <3>1 DEF OutboxRows
    <2>3. \A k \in Mails : outbox[k].attempts \in Nat /\ outbox'[k].attempts \in Nat
      BY DEF IInv, TypeOK, OutboxRows
    <2> QED
      BY <2>1, <2>2, <2>3 DEF IInv, BatchesLag
  <1>6. Accounted'
    <2>1. ASSUME NEW k \in Mails, k # m PROVE MailAccounted(k)'
      <3>1. MailAccounted(k)
        BY DEF IInv, Accounted, MailAccounted
      <3>2. \A q \in Processes : Holds(q, k) => q # p /\ Holds(q, k)' /\ drain'[q] = drain[q]
        BY <1>2, <2>1 DEF Holds
      <3> QED
        BY <2>1, <3>1, <3>2 DEF MailAccounted
    <2> QED
      BY <2>1 DEF Accounted, MailAccounted
  <1>7. GivenUpLate'
    BY DEF IInv, GivenUpLate
  <1> QED
    BY <1>1, <1>3, <1>4, <1>5, <1>6, <1>7 DEF IInv

LEMMA ClaimInv == ASSUME IInv, NEW p \in Processes, Claim(p) PROVE IInv'
  <1>1. PICK j \in drain[p].jobs :
          \/ /\ outbox[j.mail].status = "pending"
             /\ outbox' = [outbox EXCEPT ![j.mail].status = "sending",
                                         ![j.mail].attempts = @ + 1,
                                         ![j.mail].age = 0]
             /\ drain' = [drain EXCEPT ![p] =
                            [at |-> "sending", jobs |-> @.jobs \ {j}, job |-> j]]
          \/ Continue(p, drain[p].jobs \ {j}) /\ UNCHANGED outbox
    BY DEF Claim
  <1>2. /\ j \in Jobs /\ j.mail \in Mails /\ j.attempts \in Nat
        /\ drain[p].jobs \ {j} \in SUBSET Jobs
        /\ j.attempts <= outbox[j.mail].attempts
        /\ outbox[j.mail] \in OutboxRows
    BY BatchTyped DEF IInv, BatchesLag, Jobs, TypeOK
  <1>3. ~Sends(p) /\ UNCHANGED <<delivered, lost, faults>>
    BY DEF Claim, Sends
  <1>4. CASE Continue(p, drain[p].jobs \ {j}) /\ UNCHANGED outbox
    <2>1. /\ drain' \in [Processes -> Drains]
          /\ drain'[p].at \in {"idle", "next"} /\ drain'[p].jobs = drain[p].jobs \ {j}
          /\ \A q \in Processes : q # p => drain'[q] = drain[q]
      BY <1>2, <1>4, ContinueStep DEF IInv
    <2> QED
      BY <1>3, <1>4, <2>1, FreeStep DEF Sends, IInv, TypeOK, BatchesLag
  <1>5. CASE ~(Continue(p, drain[p].jobs \ {j}) /\ UNCHANGED outbox)
    <2>1. PICK m \in Mails : m = j.mail
      BY <1>2
    <2> DEFINE r == [outbox[m] EXCEPT !.status = "sending", !.attempts = @ + 1, !.age = 0]
               d == [at |-> "sending", jobs |-> drain[p].jobs \ {j}, job |-> j]
    <2>2. outbox[m].status = "pending" /\ drain' = [drain EXCEPT ![p] = d]
      BY <1>1, <1>5, <2>1 DEF IInv, TypeOK
    <2>3. outbox' = [outbox EXCEPT ![m] = r]
      BY <1>1, <1>5, <2>1 DEF IInv, TypeOK, OutboxRows
    <2>4. /\ r \in OutboxRows /\ r.status = "sending" /\ r.age = 0
          /\ r.attempts = outbox[m].attempts + 1
      <3>1. outbox[m] \in OutboxRows /\ outbox[m].attempts + 1 \in Nat
        BY <1>2, <2>1 DEF OutboxRows
      <3>2. PICK n \in Nat : n = outbox[m].attempts + 1
        BY <3>1
      <3>3. r = [outbox[m] EXCEPT !.status = "sending", !.attempts = n, !.age = 0]
        BY <3>2
      <3>4. LET t == [outbox[m] EXCEPT !.status = "sending", !.attempts = n, !.age = 0]
            IN t \in OutboxRows /\ t.status = "sending" /\ t.age = 0 /\ t.attempts = n
        BY <3>1 DEF OutboxRows, RowStatuses
      <3> QED
        BY <3>2, <3>3, <3>4
    <2>5. d \in Drains
      BY <1>2 DEF Drains
    <2>6. /\ outbox' \in [Mails -> OutboxRows] /\ outbox'[m] = r
          /\ \A k \in Mails : k # m => outbox'[k] = outbox[k]
      BY <2>3, <2>4, RowStep DEF IInv
    <2>7. /\ drain' \in [Processes -> Drains] /\ drain'[p] = d
          /\ \A q \in Processes : q # p => drain'[q] = drain[q]
      BY <2>2, <2>5, DrainStep DEF IInv
    <2>8. \A q \in Processes : ~Holds(q, m)
      BY <2>2, Holding DEF Holds
    <2>9. ClaimHolds(p, m)'
      BY <1>2, <2>1, <2>4, <2>6, <2>7, OutboxAssumption DEF ClaimHolds, OutboxRows
    <2>10. MailAccounted(m)'
      <3>1. delivered[m] <= lost[m]
        BY <2>2, <2>8 DEF IInv, Accounted
      <3> QED
        BY <1>3, <3>1 DEF MailAccounted
    <2>11. r.attempts >= outbox[m].attempts
      BY <1>2, <2>1, <2>4 DEF OutboxRows
    <2> HIDE DEF r
    <2> QED
      BY <1>3, <2>4, <2>6, <2>7, <2>8, <2>9, <2>10, <2>11, WorkerStep DEF IInv, TypeOK
  <1> QED
    BY <1>4, <1>5

LEMMA SendInv ==
  ASSUME IInv, NEW p \in Processes, SendWorkflowNotificationEmail(p) PROVE IInv'
  <1>1. Sends(p) /\ UNCHANGED outbox
    BY DEF SendWorkflowNotificationEmail, Sends
  <1>2. PICK m \in Mails :
          /\ m = drain[p].job.mail /\ outbox[m] \in OutboxRows
          /\ outbox[m].status = "sending" /\ drain[p].job.attempts < outbox[m].attempts
          /\ \A q \in Processes : Holds(q, m) => q = p
    BY <1>1, Holding
  <1>3. outbox[m].age <= Lease \/ SlowSends
    BY <1>1, <1>2 DEF IInv, ClaimsHold
  <1>4. delivered[m] <= lost[m]
    BY <1>2 DEF IInv, Accounted, Holds, SendWorkflowNotificationEmail
  <1>5. \/ drain' = [drain EXCEPT ![p].at = "accepted"]
        \/ drain' = [drain EXCEPT ![p].at = "refused"]
    BY DEF SendWorkflowNotificationEmail
  <1>6. /\ drain' \in [Processes -> Drains]
        /\ drain'[p].jobs = drain[p].jobs /\ drain'[p].job = drain[p].job
        /\ \A q \in Processes : q # p => drain'[q] = drain[q]
    BY <1>5, LabelStep DEF IInv
  <1>7. faults' \in Nat
    BY DEF SendWorkflowNotificationEmail, Fault, IInv, TypeOK
  <1>8. drain'[p].at \in {"accepted", "refused"} /\ Holds(p, m)'
    BY <1>2, <1>5, <1>6, LabelStep DEF IInv, Holds, Sends
  <1>9. /\ delivered' \in [Mails -> Nat] /\ lost' \in [Mails -> Nat]
        /\ \A k \in Mails : k # m => delivered'[k] = delivered[k] /\ lost'[k] = lost[k]
        /\ \/ delivered'[m] = delivered[m] + 1 /\ lost'[m] = lost[m] /\ drain'[p].at = "accepted"
           \/ delivered'[m] = delivered[m] /\ lost'[m] = lost[m] /\ drain'[p].at = "refused"
           \/ /\ delivered'[m] = delivered[m] + 1 /\ lost'[m] = lost[m] + 1
              /\ drain'[p].at = "refused"
    BY <1>2, LabelStep DEF SendWorkflowNotificationEmail, Lose, IInv, TypeOK
  <1>10. delivered[m] \in Nat /\ lost[m] \in Nat
    BY DEF IInv, TypeOK
  <1>11. ClaimHolds(p, m)'
    BY <1>1, <1>2, <1>3, <1>6, <1>9, <1>10 DEF ClaimHolds
  <1>12. MailAccounted(m)'
    BY <1>4, <1>8, <1>9, <1>10 DEF MailAccounted
  <1>13. outbox[m].attempts >= outbox[m].attempts
    BY <1>2 DEF OutboxRows
  <1> QED
    BY <1>1, <1>2, <1>6, <1>7, <1>9, <1>11, <1>12, <1>13, WorkerStep DEF IInv, TypeOK

LEMMA RecordSentInv == ASSUME IInv, NEW p \in Processes, RecordSent(p) PROVE IInv'
  <1>1. Sends(p) /\ drain[p].at = "accepted" /\ UNCHANGED delivered
    BY DEF RecordSent, Sends
  <1>2. PICK m \in Mails :
          /\ m = drain[p].job.mail /\ outbox[m] \in OutboxRows
          /\ outbox[m].status = "sending" /\ drain[p].job.attempts < outbox[m].attempts
          /\ \A q \in Processes : Holds(q, m) => q = p
          /\ drain[p].jobs \in SUBSET Jobs
    BY <1>1, Holding
  <1>3. delivered[m] \in Nat /\ lost[m] \in Nat
    BY DEF IInv, TypeOK
  <1>4. delivered[m] <= lost[m] + 1
    BY <1>3 DEF IInv, Accounted
  <1>5. CASE Fault /\ Lose(m) /\ drain' = [drain EXCEPT ![p].at = "refused"] /\ UNCHANGED outbox
    <2>1. /\ drain' \in [Processes -> Drains] /\ drain'[p].at = "refused"
          /\ drain'[p].jobs = drain[p].jobs /\ drain'[p].job = drain[p].job
          /\ \A q \in Processes : q # p => drain'[q] = drain[q]
      BY <1>5, LabelStep DEF IInv
    <2>2. /\ lost' \in [Mails -> Nat] /\ lost'[m] = lost[m] + 1
          /\ \A k \in Mails : k # m => lost'[k] = lost[k]
      BY <1>5, LoseStep DEF IInv
    <2>3. ClaimHolds(p, m)'
      BY <1>1, <1>2, <1>5, <2>1 DEF ClaimHolds, IInv, ClaimsHold
    <2>4. MailAccounted(m)'
      BY <1>1, <1>4, <2>2 DEF MailAccounted
    <2>5. outbox'[m].attempts >= outbox[m].attempts
      BY <1>2, <1>5 DEF OutboxRows
    <2>6. faults' \in Nat
      BY <1>5 DEF Fault, IInv, TypeOK
    <2> QED
      BY <1>1, <1>2, <1>5, <2>1, <2>2, <2>3, <2>4, <2>5, <2>6, WorkerStep DEF IInv, TypeOK
  <1>6. CASE /\ outbox' = [outbox EXCEPT ![m].status = "sent", ![m].age = 0]
             /\ Continue(p, drain[p].jobs)
             /\ UNCHANGED <<lost, faults>>
    <2> DEFINE r == [outbox[m] EXCEPT !.status = "sent", !.age = 0]
    <2>1. r \in OutboxRows /\ r.status = "sent" /\ r.attempts = outbox[m].attempts
      BY <1>2 DEF OutboxRows, RowStatuses
    <2>2. outbox' = [outbox EXCEPT ![m] = r]
      BY <1>2, <1>6 DEF IInv, TypeOK, OutboxRows
    <2>3. /\ outbox' \in [Mails -> OutboxRows] /\ outbox'[m] = r
          /\ \A k \in Mails : k # m => outbox'[k] = outbox[k]
      BY <2>1, <2>2, RowStep DEF IInv
    <2>4. /\ drain' \in [Processes -> Drains]
          /\ drain'[p].at \in {"idle", "next"} /\ drain'[p].jobs = drain[p].jobs
          /\ \A q \in Processes : q # p => drain'[q] = drain[q]
      BY <1>2, <1>6, ContinueStep DEF IInv
    <2>5. ClaimHolds(p, m)'
      BY <2>4 DEF ClaimHolds, Sends
    <2>6. MailAccounted(m)'
      BY <1>1, <1>3, <1>4, <1>6, <2>1, <2>3 DEF MailAccounted
    <2>7. r.attempts >= outbox[m].attempts
      BY <1>2, <2>1 DEF OutboxRows
    <2> HIDE DEF r
    <2> QED
      BY <1>1, <1>2, <1>6, <2>1, <2>3, <2>4, <2>5, <2>6, <2>7, WorkerStep DEF IInv, TypeOK
  <1> QED
    BY <1>2, <1>5, <1>6 DEF RecordSent

\* The drain of p is over and what it held stays claimed.
LEMMA DropStep ==
  ASSUME IInv, NEW p \in Processes, Sends(p), drain' = [drain EXCEPT ![p] = Idle],
         Fault, Lose(drain[p].job.mail), UNCHANGED <<outbox, delivered>>
  PROVE  IInv'
  <1>1. PICK m \in Mails :
          /\ m = drain[p].job.mail /\ outbox[m] \in OutboxRows
          /\ outbox[m].status = "sending"
          /\ \A q \in Processes : Holds(q, m) => q = p
    BY Holding
  <1>2. delivered[m] \in Nat /\ lost[m] \in Nat
    BY DEF IInv, TypeOK
  <1>3. delivered[m] <= lost[m] + 1
    BY <1>2 DEF IInv, Accounted
  <1>4. /\ drain' \in [Processes -> Drains]
        /\ drain'[p].at = "idle" /\ drain'[p].jobs = {}
        /\ \A q \in Processes : q # p => drain'[q] = drain[q]
    BY IdleStep DEF IInv
  <1>5. /\ lost' \in [Mails -> Nat] /\ lost'[m] = lost[m] + 1
        /\ \A k \in Mails : k # m => lost'[k] = lost[k]
    BY <1>1, LoseStep DEF IInv
  <1>6. ClaimHolds(p, m)' /\ MailAccounted(m)'
    BY <1>3, <1>4, <1>5 DEF ClaimHolds, Sends, MailAccounted
  <1>7. faults' \in Nat /\ outbox[m].attempts >= outbox[m].attempts
    BY <1>1 DEF Fault, OutboxRows, IInv, TypeOK
  <1> QED
    BY <1>1, <1>4, <1>5, <1>6, <1>7, WorkerStep DEF IInv, TypeOK

LEMMA RecordFailureInv == ASSUME IInv, NEW p \in Processes, RecordFailure(p) PROVE IInv'
  <1>1. Sends(p) /\ drain[p].at = "refused" /\ UNCHANGED delivered
    BY DEF RecordFailure, RecordOutcome, Sends
  <1>2. PICK m \in Mails :
          /\ m = drain[p].job.mail /\ outbox[m] \in OutboxRows
          /\ drain[p].job.attempts \in Nat
          /\ outbox[m].status = "sending" /\ drain[p].job.attempts < outbox[m].attempts
          /\ \A q \in Processes : Holds(q, m) => q = p
          /\ drain[p].jobs \in SUBSET Jobs
    BY <1>1, Holding
  <1>3. CASE Fault /\ Lose(m) /\ drain' = [drain EXCEPT ![p] = Idle] /\ UNCHANGED outbox
    BY <1>1, <1>2, <1>3, DropStep
  <1>4. CASE ~(Fault /\ Lose(m) /\ drain' = [drain EXCEPT ![p] = Idle] /\ UNCHANGED outbox)
    <2> DEFINE n == drain[p].job.attempts + 1
    <2>1. PICK s \in RowStatuses, w \in Nat :
            /\ s = IF n >= MaxAttempts THEN "failed" ELSE "pending"
            /\ w = RetryDelay(n)
      BY DelayTyped DEF RowStatuses
    <2> DEFINE r == [outbox[m] EXCEPT !.status = s, !.wait = w, !.age = 0]
    <2>2. /\ outbox' = [outbox EXCEPT ![m].status = s, ![m].wait = w, ![m].age = 0]
          /\ Continue(p, drain[p].jobs)
          /\ UNCHANGED <<lost, faults>>
      BY <1>2, <1>4, <2>1 DEF RecordFailure, RecordOutcome
    <2>3. r \in OutboxRows /\ r.status = s /\ r.attempts = outbox[m].attempts
      BY <1>2 DEF OutboxRows
    <2>4. outbox' = [outbox EXCEPT ![m] = r]
      BY <1>2, <2>2 DEF IInv, TypeOK, OutboxRows
    <2>5. /\ outbox' \in [Mails -> OutboxRows] /\ outbox'[m] = r
          /\ \A k \in Mails : k # m => outbox'[k] = outbox[k]
      BY <2>3, <2>4, RowStep DEF IInv
    <2>6. /\ drain' \in [Processes -> Drains]
          /\ drain'[p].at \in {"idle", "next"} /\ drain'[p].jobs = drain[p].jobs
          /\ \A q \in Processes : q # p => drain'[q] = drain[q]
      BY <1>2, <2>2, ContinueStep DEF IInv
    <2>7. ClaimHolds(p, m)'
      BY <2>6 DEF ClaimHolds, Sends
    <2>8. MailAccounted(m)'
      <3>1. delivered[m] <= lost[m]
        BY <1>1, <1>2 DEF IInv, Accounted, Holds
      <3> QED
        BY <1>1, <2>2, <3>1 DEF MailAccounted
    <2>9. /\ r.attempts >= outbox[m].attempts
          /\ r.status = "failed" => r.attempts >= MaxAttempts
          /\ r.status # "absent"
      BY <1>2, <2>1, <2>3, OutboxAssumption DEF OutboxRows
    <2> HIDE DEF r
    <2> QED
      BY <1>1, <1>2, <2>2, <2>5, <2>6, <2>7, <2>8, <2>9, WorkerStep DEF IInv, TypeOK
  <1> QED
    BY <1>3, <1>4

LEMMA CrashInv == ASSUME IInv, NEW p \in Processes, Crash(p) PROVE IInv'
  BY CrashFreeInv, DropStep DEF Crash

----------------------------------------------------------------------------
(* The invariant *)

LEMMA NextInv == Exclusive /\ IInv /\ [Next]_vars => IInv'
  <1> SUFFICES ASSUME Exclusive, IInv, [Next]_vars PROVE IInv'
    OBVIOUS
  <1>1. CASE UNCHANGED vars
    BY <1>1 DEF vars, IInv, TypeOK, ClaimsHold, OneSender, BatchesLag, Accounted, GivenUpLate,
                Holds, Sends
  <1>2. CASE Tick
    BY <1>2, TickInv
  <1>3. ASSUME NEW m \in Mails, QueueNotificationEmail(m) PROVE IInv'
    BY <1>3, QueueInv
  <1>4. ASSUME NEW p \in Processes, Work(p) \/ Crash(p) PROVE IInv'
    BY <1>4, ReclaimInv, SelectBatchInv, ClaimInv, SendInv, RecordSentInv, RecordFailureInv,
       CrashInv
    DEF Work
  <1> QED
    BY <1>1, <1>2, <1>3, <1>4 DEF Next

\* The inductive invariant holds for every number of mails, processes and
\* faults, when no send outlasts its claim or there is one process only.
THEOREM Invariance == ASSUME Exclusive PROVE Spec => []IInv
  <1>1. IInv /\ [Next]_vars => IInv'
    BY NextInv
  <1> QED
    BY <1>1, InitInv, PTL DEF Spec

\* Two workers never send the same mail at the same time (the condition of the
\* claim and the age test of the reclaim in drainEmailOutbox).
THEOREM SingleSender == ASSUME Exclusive PROVE Spec => []OneSender
  <1>1. IInv => OneSender
    BY DEF IInv
  <1> QED
    BY <1>1, Invariance, PTL

\* A mail arrives once, and once more for every attempt whose outcome never
\* reached its row (drainEmailOutbox).
THEOREM DuplicatesAreLosses == ASSUME Exclusive PROVE Spec => []DuplicateNeedsLoss
  <1>1. IInv => DuplicateNeedsLoss
    BY DEF IInv, TypeOK, Accounted, DuplicateNeedsLoss
  <1> QED
    BY <1>1, Invariance, PTL

----------------------------------------------------------------------------
(* EmailOutbox implements MailDelivery *)

\* How far mail m is, in the words of MailDelivery.
Stage(m) == IF outbox[m].status = "absent" THEN "none"
            ELSE IF outbox[m].status \in {"pending", "sending"} THEN "queued"
            ELSE outbox[m].status

LEMMA DeliveryStutter ==
  ASSUME UNCHANGED delivered, \A m \in Mails : Stage(m)' = Stage(m)
  PROVE  [Delivery!Next]_(Delivery!mail)
  BY DEF Stage, Delivery!mail

LEMMA DeliverySettle ==
  ASSUME NEW m \in Mails, Stage(m) = "queued", Stage(m)' \in {"sent", "failed"},
         Stage(m)' = "sent" => delivered[m] > 0,
         UNCHANGED delivered, \A k \in Mails : k # m => Stage(k)' = Stage(k)
  PROVE  [Delivery!Next]_(Delivery!mail)
  <1>1. PICK end \in {"sent", "failed"} : end = Stage(m)'
    OBVIOUS
  <1>2. Delivery!Settle(m, end)
    BY <1>1 DEF Stage, Delivery!Settle
  <1> QED
    BY <1>1, <1>2 DEF Delivery!Next

LEMMA WorkDelivery ==
  ASSUME IInv, NEW p \in Processes, Work(p) \/ Crash(p)
  PROVE  [Delivery!Next]_(Delivery!mail)
  <1>1. CASE Reclaim(p)
    <2>1. \A m \in Mails : Stage(m)' = Stage(m)
      BY <1>1 DEF Reclaim, Stage, IInv, TypeOK, OutboxRows
    <2> QED
      BY <1>1, <2>1, DeliveryStutter DEF Reclaim
  <1>2. CASE SelectBatch(p) \/ Crash(p)
    BY <1>2, DeliveryStutter DEF SelectBatch, Crash, Stage
  <1>3. CASE Claim(p)
    <2>1. \A m \in Mails : Stage(m)' = Stage(m)
      BY <1>3, BatchTyped DEF Claim, Stage, IInv, TypeOK, OutboxRows
    <2> QED
      BY <1>3, <2>1, DeliveryStutter DEF Claim
  <1>4. CASE SendWorkflowNotificationEmail(p)
    <2>1. Sends(p) /\ UNCHANGED outbox
      BY <1>4 DEF SendWorkflowNotificationEmail, Sends
    <2>2. PICK m \in Mails : m = drain[p].job.mail /\ outbox[m].status = "sending"
      BY <2>1, Holding
    <2>3. CASE UNCHANGED delivered
      BY <2>1, <2>3, DeliveryStutter DEF Stage
    <2>4. CASE ~UNCHANGED delivered
      <3>1. delivered' = [delivered EXCEPT ![m] = @ + 1]
        BY <1>4, <2>2, <2>4 DEF SendWorkflowNotificationEmail
      <3>2. Delivery!Arrive(m)
        BY <2>1, <2>2, <3>1 DEF Delivery!Arrive
      <3> QED
        BY <3>2 DEF Delivery!Next
    <2> QED
      BY <2>3, <2>4
  <1>5. CASE RecordSent(p)
    <2>1. Sends(p) /\ drain[p].at = "accepted" /\ UNCHANGED delivered
      BY <1>5 DEF RecordSent, Sends
    <2>2. PICK m \in Mails :
            m = drain[p].job.mail /\ outbox[m].status = "sending" /\ outbox[m] \in OutboxRows
      BY <2>1, Holding
    <2>3. delivered[m] > 0
      BY <2>1, <2>2 DEF IInv, ClaimsHold
    <2>4. CASE UNCHANGED outbox
      BY <2>1, <2>4, DeliveryStutter DEF Stage
    <2>5. CASE ~UNCHANGED outbox
      <3>1. /\ outbox'[m].status = "sent"
            /\ \A k \in Mails : k # m => outbox'[k] = outbox[k]
        BY <1>5, <2>2, <2>5 DEF RecordSent, IInv, TypeOK, OutboxRows
      <3> QED
        BY <2>1, <2>2, <2>3, <3>1, DeliverySettle DEF Stage
    <2> QED
      BY <2>4, <2>5
  <1>6. CASE RecordFailure(p)
    <2>1. Sends(p) /\ UNCHANGED delivered
      BY <1>6 DEF RecordFailure, RecordOutcome, Sends
    <2>2. PICK m \in Mails :
            m = drain[p].job.mail /\ outbox[m].status = "sending" /\ outbox[m] \in OutboxRows
      BY <2>1, Holding
    <2>3. CASE UNCHANGED outbox
      BY <2>1, <2>3, DeliveryStutter DEF Stage
    <2>4. CASE ~UNCHANGED outbox
      <3>1. /\ outbox'[m].status \in {"failed", "pending"}
            /\ \A k \in Mails : k # m => outbox'[k] = outbox[k]
        BY <1>6, <2>2, <2>4 DEF RecordFailure, RecordOutcome, IInv, TypeOK, OutboxRows
      <3>2. CASE outbox'[m].status = "failed"
        BY <2>1, <2>2, <3>1, <3>2, DeliverySettle DEF Stage
      <3>3. CASE outbox'[m].status = "pending"
        BY <2>1, <2>2, <3>1, <3>3, DeliveryStutter DEF Stage
      <3> QED
        BY <3>1, <3>2, <3>3
    <2> QED
      BY <2>3, <2>4
  <1> QED
    BY <1>1, <1>2, <1>3, <1>4, <1>5, <1>6 DEF Work

LEMMA NextDelivery == IInv /\ [Next]_vars => [Delivery!Next]_(Delivery!mail)
  <1> SUFFICES ASSUME IInv, [Next]_vars PROVE [Delivery!Next]_(Delivery!mail)
    OBVIOUS
  <1>1. CASE UNCHANGED vars
    BY <1>1, DeliveryStutter DEF vars, Stage
  <1>2. CASE Tick
    <2>1. \A m \in Mails : Stage(m)' = Stage(m)
      BY <1>2 DEF Tick, Stage, IInv, TypeOK, OutboxRows
    <2> QED
      BY <1>2, <2>1, DeliveryStutter DEF Tick
  <1>3. ASSUME NEW m \in Mails, QueueNotificationEmail(m)
        PROVE  [Delivery!Next]_(Delivery!mail)
    <2>1. /\ outbox[m].status = "absent" /\ outbox'[m].status = "pending"
          /\ \A k \in Mails : k # m => outbox'[k] = outbox[k]
          /\ UNCHANGED delivered
      BY <1>3 DEF QueueNotificationEmail, NewRow, IInv, TypeOK
    <2>2. Delivery!Queue(m)
      BY <2>1 DEF Delivery!Queue
    <2> QED
      BY <2>2 DEF Delivery!Next
  <1>4. ASSUME NEW p \in Processes, Work(p) \/ Crash(p) PROVE [Delivery!Next]_(Delivery!mail)
    BY <1>4, WorkDelivery
  <1> QED
    BY <1>1, <1>2, <1>3, <1>4 DEF Next

\* Whatever the workers, crashes and lost answers do, a mail counts as sent only
\* after it arrived and is never offered again once settled (the outbox
\* implements MailDelivery).
THEOREM Refinement == ASSUME Exclusive PROVE Spec => MailIsDelivered
  <1>1. Init => Delivery!Init
    BY DEF Init, Absent, Delivery!Init
  <1> QED
    BY <1>1, NextDelivery, Invariance, PTL DEF Spec, Delivery!Spec, MailIsDelivered
----------------------------------------------------------------------------
(* How often a mail is tried *)

\* Whatever the workers read before, no mail is given up early (the catch of
\* drainEmailOutbox counts from what the SELECT returned).
THEOREM NoEarlyGivingUp == ASSUME Exclusive PROVE Spec => []GivenUpLate
  <1>1. IInv => GivenUpLate
    BY DEF IInv
  <1> QED
    BY <1>1, Invariance, PTL

OneProcess == \A p, q \in Processes : p = q

\* A mail that will be tried again has an attempt left.
Open(m) ==
  \/ outbox[m].status \in {"absent", "pending"}
  \/ outbox[m].status = "sending" /\ \A p \in Processes : ~Holds(p, m)

Room(m) ==
  /\ outbox[m].attempts <= MaxAttempts + lost[m]
  /\ Open(m) => outbox[m].attempts < MaxAttempts + lost[m]

\* What the only worker read is what the rows say.
Exact ==
  \A p \in Processes :
    /\ \A j \in drain[p].jobs : outbox[j.mail].attempts = j.attempts
    /\ Sends(p) => outbox[drain[p].job.mail].attempts = drain[p].job.attempts + 1

TriesInv == IInv /\ Exact /\ \A m \in Mails : Room(m)

LEMMA Counts ==
  ASSUME IInv, NEW m \in Mails
  PROVE  outbox[m].attempts \in Nat /\ lost[m] \in Nat /\ MaxAttempts \in Nat
  BY OutboxAssumption DEF IInv, TypeOK, OutboxRows

\* Room stays where neither the row nor its holder changes.
LEMMA RoomStays ==
  ASSUME NEW m \in Mails, Room(m), outbox'[m].attempts = outbox[m].attempts,
         lost'[m] = lost[m], Open(m)' => Open(m)
  PROVE  Room(m)'
  BY DEF Room

LEMMA QueueTries ==
  ASSUME TriesInv, NEW m \in Mails, QueueNotificationEmail(m)
  PROVE  Exact' /\ \A k \in Mails : Room(k)'
  <1>1. /\ outbox[m].status = "absent" /\ outbox'[m].attempts = 0
        /\ \A k \in Mails : k # m => outbox'[k] = outbox[k]
        /\ UNCHANGED <<drain, lost>>
    BY DEF QueueNotificationEmail, NewRow, TriesInv, IInv, TypeOK
  <1>2. Exact'
    <2>1. \A p \in Processes : Sends(p) => drain[p].job.mail \in Mails \ {m}
      BY <1>1 DEF TriesInv, IInv, ClaimsHold
    <2>2. \A p \in Processes : \A j \in drain[p].jobs : j.mail \in Mails \ {m}
      BY <1>1, BatchTyped DEF TriesInv, IInv, BatchesLag
    <2> QED
      BY <1>1, <2>1, <2>2 DEF TriesInv, Exact, Sends
  <1>3. Room(m)'
    BY <1>1, Counts, OutboxAssumption DEF Room, TriesInv
  <1>4. ASSUME NEW k \in Mails, k # m PROVE Room(k)'
    BY <1>1, <1>4, RoomStays DEF TriesInv, Open, Holds, Sends
  <1> QED
    BY <1>2, <1>3, <1>4

LEMMA TickTries ==
  ASSUME TriesInv, Tick PROVE Exact' /\ \A k \in Mails : Room(k)'
  <1>1. ASSUME NEW k \in Mails
        PROVE  outbox'[k].attempts = outbox[k].attempts /\ outbox'[k].status = outbox[k].status
    BY DEF Tick, TriesInv, IInv, TypeOK, OutboxRows
  <1>2. UNCHANGED <<drain, lost>>
    BY DEF Tick
  <1>3. ASSUME NEW k \in Mails PROVE Room(k)'
    BY <1>1, <1>2, RoomStays DEF TriesInv, Open, Holds, Sends
  <1>4. Exact'
    <2>1. \A p \in Processes : Sends(p) => drain[p].job.mail \in Mails
      BY DEF TriesInv, IInv, ClaimsHold
    <2>2. \A p \in Processes : \A j \in drain[p].jobs : j.mail \in Mails
      BY BatchTyped DEF TriesInv, IInv
    <2> QED
      BY <1>1, <1>2, <2>1, <2>2 DEF TriesInv, Exact, Sends
  <1> QED
    BY <1>3, <1>4

\* With one process nobody is sending when a drain begins.
LEMMA ReclaimTries ==
  ASSUME OneProcess, TriesInv, NEW p \in Processes, Reclaim(p)
  PROVE  Exact' /\ \A k \in Mails : Room(k)'
  <1>1. /\ drain[p].at = "idle" /\ drain'[p].at = "read" /\ drain'[p].jobs = drain[p].jobs
        /\ UNCHANGED lost
    BY LabelStep DEF Reclaim, TriesInv, IInv
  <1>2. \A q \in Processes : q = p /\ ~Sends(q) /\ ~Sends(q)'
    BY <1>1 DEF OneProcess, Sends
  <1>3. ASSUME NEW k \in Mails
        PROVE  /\ outbox'[k].attempts = outbox[k].attempts
               /\ \/ outbox'[k].status = outbox[k].status
                  \/ outbox[k].status = "sending"
    BY DEF Reclaim, TriesInv, IInv, TypeOK, OutboxRows
  <1>4. ASSUME NEW k \in Mails PROVE Room(k)'
    BY <1>1, <1>2, <1>3, RoomStays DEF TriesInv, Open, Holds
  <1>5. Exact'
    BY <1>1, <1>2, <1>3, BatchTyped DEF TriesInv, IInv, Exact
  <1> QED
    BY <1>4, <1>5

LEMMA SelectTries ==
  ASSUME OneProcess, TriesInv, NEW p \in Processes, SelectBatch(p)
  PROVE  Exact' /\ \A k \in Mails : Room(k)'
  <1>1. PICK batch \in SUBSET Mails :
          Continue(p, {[mail |-> m, attempts |-> outbox[m].attempts] : m \in batch})
    BY DEF SelectBatch
  <1> DEFINE rest == {[mail |-> m, attempts |-> outbox[m].attempts] : m \in batch}
  <1>2. rest \in SUBSET Jobs
    BY DEF Jobs, TriesInv, IInv, TypeOK, OutboxRows
  <1>3. drain'[p].at \in {"idle", "next"} /\ drain'[p].jobs = rest
    BY <1>1, <1>2, ContinueStep DEF TriesInv, IInv
  <1>4. UNCHANGED <<outbox, lost>> /\ drain[p].at = "read"
    BY DEF SelectBatch
  <1>5. \A q \in Processes : q = p /\ ~Sends(q) /\ ~Sends(q)'
    BY <1>3, <1>4 DEF OneProcess, Sends
  <1>6. Exact'
    BY <1>3, <1>4, <1>5 DEF Exact
  <1>7. ASSUME NEW k \in Mails PROVE Room(k)'
    BY <1>4, <1>5, RoomStays DEF TriesInv, Open, Holds
  <1> QED
    BY <1>6, <1>7

LEMMA ClaimTries ==
  ASSUME OneProcess, TriesInv, NEW p \in Processes, Claim(p)
  PROVE  Exact' /\ \A k \in Mails : Room(k)'
  <1>1. PICK j \in drain[p].jobs :
          \/ /\ outbox[j.mail].status = "pending"
             /\ outbox' = [outbox EXCEPT ![j.mail].status = "sending",
                                         ![j.mail].attempts = @ + 1,
                                         ![j.mail].age = 0]
             /\ drain' = [drain EXCEPT ![p] =
                            [at |-> "sending", jobs |-> @.jobs \ {j}, job |-> j]]
          \/ Continue(p, drain[p].jobs \ {j}) /\ UNCHANGED outbox
    BY DEF Claim
  <1>2. drain[p].at = "next" /\ UNCHANGED lost
    BY DEF Claim
  <1>3. \A q \in Processes : q = p /\ ~Sends(q)
    BY <1>2 DEF OneProcess, Sends
  <1>4. /\ drain[p].jobs \in SUBSET Jobs /\ j \in Jobs /\ j.mail \in Mails
        /\ \A k \in drain[p].jobs : k.mail \in Mails /\ k.attempts = outbox[k.mail].attempts
        /\ j.attempts = outbox[j.mail].attempts
    BY BatchTyped DEF TriesInv, IInv, Exact, Jobs
  <1>5. CASE Continue(p, drain[p].jobs \ {j}) /\ UNCHANGED outbox
    <2>1. drain[p].jobs \ {j} \in SUBSET Jobs
      BY <1>4
    <2>2. drain'[p].at \in {"idle", "next"} /\ drain'[p].jobs = drain[p].jobs \ {j}
      BY <1>5, <2>1, ContinueStep DEF TriesInv, IInv
    <2>3. \A q \in Processes : ~Sends(q)'
      BY <1>3, <2>2 DEF Sends
    <2>4. Exact'
      BY <1>3, <1>4, <1>5, <2>2, <2>3 DEF Exact
    <2>5. ASSUME NEW k \in Mails PROVE Room(k)'
      BY <1>2, <1>3, <1>5, <2>3, RoomStays DEF TriesInv, Open, Holds
    <2> QED
      BY <2>4, <2>5
  <1>6. CASE /\ outbox[j.mail].status = "pending"
             /\ outbox' = [outbox EXCEPT ![j.mail].status = "sending",
                                         ![j.mail].attempts = @ + 1,
                                         ![j.mail].age = 0]
             /\ drain' = [drain EXCEPT ![p] =
                            [at |-> "sending", jobs |-> @.jobs \ {j}, job |-> j]]
    <2>1. /\ outbox'[j.mail].status = "sending"
          /\ outbox'[j.mail].attempts = outbox[j.mail].attempts + 1
          /\ \A k \in Mails : k # j.mail => outbox'[k] = outbox[k]
      BY <1>4, <1>6 DEF TriesInv, IInv, TypeOK, OutboxRows
    <2>2. drain'[p] = [at |-> "sending", jobs |-> drain[p].jobs \ {j}, job |-> j]
      BY <1>6 DEF TriesInv, IInv, TypeOK
    <2>3. \A k \in drain[p].jobs \ {j} : k.mail # j.mail
      BY <1>4 DEF Jobs
    <2>4. Exact'
      BY <1>3, <1>4, <2>1, <2>2, <2>3 DEF Exact
    <2>5. Holds(p, j.mail)'
      BY <2>2 DEF Holds, Sends
    <2>6. Room(j.mail)'
      <3>1. outbox[j.mail].attempts < MaxAttempts + lost[j.mail]
        BY <1>4, <1>6 DEF TriesInv, Room, Open
      <3>2. ~Open(j.mail)'
        BY <2>1, <2>5 DEF Open
      <3> QED
        BY <1>2, <1>4, <2>1, <3>1, <3>2, Counts DEF Room, TriesInv
    <2>7. ASSUME NEW k \in Mails, k # j.mail PROVE Room(k)'
      BY <1>2, <1>3, <2>1, <2>7, RoomStays DEF TriesInv, Open, Holds
    <2> QED
      BY <1>4, <2>4, <2>6, <2>7
  <1> QED
    BY <1>1, <1>5, <1>6

\* The worker keeps its claim; at most the answer is lost.
LEMMA KeepTries ==
  ASSUME OneProcess, TriesInv, NEW p \in Processes, Sends(p), Sends(p)', UNCHANGED outbox,
         drain'[p].job = drain[p].job, drain'[p].jobs = drain[p].jobs,
         UNCHANGED lost \/ Lose(drain[p].job.mail)
  PROVE  Exact' /\ \A k \in Mails : Room(k)'
  <1>1. \A q \in Processes : q = p
    BY DEF OneProcess
  <1>2. Exact'
    BY <1>1 DEF TriesInv, Exact
  <1>3. ASSUME NEW k \in Mails PROVE Room(k)'
    <2>1. Open(k)' => Open(k)
      BY <1>1 DEF Open, Holds
    <2>2. lost'[k] \in {lost[k], lost[k] + 1}
      <3>1. TypeOK /\ drain[p].job.mail \in Mails
        BY Holding DEF TriesInv, IInv
      <3> QED
        BY <3>1, LoseStep
    <2> QED
      BY <2>1, <2>2, Counts DEF Room, TriesInv
  <1> QED
    BY <1>2, <1>3

\* The drain is over, and the row is claimed with one more loss.
LEMMA DropTries ==
  ASSUME OneProcess, TriesInv, NEW p \in Processes, Sends(p), UNCHANGED outbox,
         drain' = [drain EXCEPT ![p] = Idle], Lose(drain[p].job.mail)
  PROVE  Exact' /\ \A k \in Mails : Room(k)'
  <1>1. PICK m \in Mails : m = drain[p].job.mail
    BY Holding DEF TriesInv
  <1>2. drain'[p].at = "idle" /\ drain'[p].jobs = {}
    BY IdleStep DEF TriesInv, IInv
  <1>3. \A q \in Processes : q = p /\ ~Sends(q)'
    BY <1>2 DEF OneProcess, Sends
  <1>4. Exact'
    BY <1>2, <1>3 DEF Exact
  <1>5. /\ lost'[m] = lost[m] + 1
        /\ \A k \in Mails : k # m => lost'[k] = lost[k]
    BY <1>1, LoseStep DEF TriesInv, IInv
  <1>6. Room(m)'
    <2>1. outbox'[m] = outbox[m]
      OBVIOUS
    <2>2. IInv /\ Room(m)
      BY <1>1 DEF TriesInv
    <2> QED
      BY <1>1, <1>5, <2>1, <2>2, Counts DEF Room
  <1>7. ASSUME NEW k \in Mails, k # m PROVE Room(k)'
    <2>1. \A q \in Processes : ~Holds(q, k)
      BY <1>1, <1>3, <1>7 DEF Holds
    <2> QED
      BY <1>5, <1>7, <2>1, RoomStays DEF TriesInv, Open
  <1> QED
    BY <1>4, <1>6, <1>7

\* The outcome is written and the worker moves on.
LEMMA SettleTries ==
  ASSUME OneProcess, TriesInv, NEW p \in Processes, Sends(p), UNCHANGED lost,
         Continue(p, drain[p].jobs), NEW m \in Mails, m = drain[p].job.mail,
         outbox'[m].attempts = outbox[m].attempts,
         \/ outbox'[m].status \in {"sent", "failed"}
         \/ outbox'[m].status = "pending" /\ drain[p].job.attempts + 1 < MaxAttempts,
         \A k \in Mails : k # m => outbox'[k] = outbox[k]
  PROVE  Exact' /\ \A k \in Mails : Room(k)'
  <1>1. drain[p].jobs \in SUBSET Jobs
    BY Holding DEF TriesInv
  <1>2. drain'[p].at \in {"idle", "next"} /\ drain'[p].jobs = drain[p].jobs
    BY <1>1, ContinueStep DEF TriesInv, IInv
  <1>3. \A q \in Processes : q = p /\ ~Sends(q)'
    BY <1>2 DEF OneProcess, Sends
  <1>4. Exact'
    <2>1. \A j \in drain[p].jobs : outbox'[j.mail].attempts = outbox[j.mail].attempts
      BY BatchTyped DEF TriesInv, IInv
    <2> QED
      BY <1>2, <1>3, <2>1 DEF TriesInv, Exact
  <1>5. Room(m)'
    <2>1. outbox[m].attempts = drain[p].job.attempts + 1
      BY DEF TriesInv, Exact
    <2> QED
      BY <2>1, Counts DEF TriesInv, Room, Open
  <1>6. ASSUME NEW k \in Mails, k # m PROVE Room(k)'
    <2>1. \A q \in Processes : ~Holds(q, k)
      BY <1>3, <1>6 DEF Holds
    <2> QED
      BY <1>6, <2>1, RoomStays DEF TriesInv, Open
  <1> QED
    BY <1>4, <1>5, <1>6

LEMMA SendTries ==
  ASSUME OneProcess, TriesInv, NEW p \in Processes, SendWorkflowNotificationEmail(p)
  PROVE  Exact' /\ \A k \in Mails : Room(k)'
  <1>1. PICK label \in {"accepted", "refused"} : drain' = [drain EXCEPT ![p].at = label]
    BY DEF SendWorkflowNotificationEmail
  <1>2. /\ Sends(p) /\ UNCHANGED outbox
        /\ UNCHANGED lost \/ Lose(drain[p].job.mail)
    BY DEF SendWorkflowNotificationEmail, Sends
  <1>3. /\ Sends(p)' /\ drain'[p].job = drain[p].job /\ drain'[p].jobs = drain[p].jobs
    BY <1>1, LabelStep DEF TriesInv, IInv, Sends
  <1> QED
    BY <1>2, <1>3, KeepTries

LEMMA RecordSentTries ==
  ASSUME OneProcess, TriesInv, NEW p \in Processes, RecordSent(p)
  PROVE  Exact' /\ \A k \in Mails : Room(k)'
  <1>1. Sends(p)
    BY DEF RecordSent, Sends
  <1>2. PICK m \in Mails : m = drain[p].job.mail /\ outbox[m] \in OutboxRows
    BY <1>1, Holding DEF TriesInv
  <1>3. CASE Lose(m) /\ drain' = [drain EXCEPT ![p].at = "refused"] /\ UNCHANGED outbox
    <2>1. Sends(p)' /\ drain'[p].job = drain[p].job /\ drain'[p].jobs = drain[p].jobs
      BY <1>3, LabelStep DEF TriesInv, IInv, Sends
    <2> QED
      BY <1>1, <1>2, <1>3, <2>1, KeepTries
  <1>4. CASE /\ outbox' = [outbox EXCEPT ![m].status = "sent", ![m].age = 0]
             /\ Continue(p, drain[p].jobs)
             /\ UNCHANGED lost
    <2>1. /\ outbox'[m].status = "sent" /\ outbox'[m].attempts = outbox[m].attempts
          /\ \A k \in Mails : k # m => outbox'[k] = outbox[k]
      BY <1>2, <1>4 DEF TriesInv, IInv, TypeOK, OutboxRows
    <2> QED
      BY <1>1, <1>2, <1>4, <2>1, SettleTries
  <1> QED
    BY <1>2, <1>3, <1>4 DEF RecordSent

LEMMA RecordFailureTries ==
  ASSUME OneProcess, TriesInv, NEW p \in Processes, RecordFailure(p)
  PROVE  Exact' /\ \A k \in Mails : Room(k)'
  <1>1. Sends(p)
    BY DEF RecordFailure, RecordOutcome, Sends
  <1>2. PICK m \in Mails :
          m = drain[p].job.mail /\ outbox[m] \in OutboxRows /\ drain[p].job.attempts \in Nat
    BY <1>1, Holding DEF TriesInv
  <1>3. CASE Lose(m) /\ drain' = [drain EXCEPT ![p] = Idle] /\ UNCHANGED outbox
    BY <1>1, <1>2, <1>3, DropTries
  <1>4. CASE ~(Lose(m) /\ drain' = [drain EXCEPT ![p] = Idle] /\ UNCHANGED outbox)
    <2> DEFINE n == drain[p].job.attempts + 1
    <2>1. PICK s \in RowStatuses, w \in Nat :
            /\ s = IF n >= MaxAttempts THEN "failed" ELSE "pending"
            /\ w = RetryDelay(n)
      BY DelayTyped DEF RowStatuses
    <2>2. /\ outbox' = [outbox EXCEPT ![m].status = s, ![m].wait = w, ![m].age = 0]
          /\ Continue(p, drain[p].jobs)
          /\ UNCHANGED lost
      BY <1>2, <1>4, <2>1 DEF RecordFailure, RecordOutcome
    <2>3. /\ outbox'[m].status = s /\ outbox'[m].attempts = outbox[m].attempts
          /\ \A k \in Mails : k # m => outbox'[k] = outbox[k]
      BY <1>2, <2>2 DEF TriesInv, IInv, TypeOK, OutboxRows
    <2>4. s = "failed" \/ (s = "pending" /\ n < MaxAttempts)
      BY <1>2, <2>1, OutboxAssumption
    <2> QED
      BY <1>1, <1>2, <2>2, <2>3, <2>4, SettleTries
  <1> QED
    BY <1>3, <1>4

LEMMA CrashTries ==
  ASSUME OneProcess, TriesInv, NEW p \in Processes, Crash(p)
  PROVE  Exact' /\ \A k \in Mails : Room(k)'
  <1>1. drain' = [drain EXCEPT ![p] = Idle] /\ UNCHANGED outbox
    BY DEF Crash
  <1>2. CASE Sends(p)
    BY <1>1, <1>2, DropTries DEF Crash
  <1>3. CASE ~Sends(p)
    <2>1. drain'[p].at = "idle" /\ drain'[p].jobs = {}
      BY <1>1, IdleStep DEF TriesInv, IInv
    <2>2. \A q \in Processes : q = p /\ ~Sends(q) /\ ~Sends(q)'
      BY <1>3, <2>1 DEF OneProcess, Sends
    <2>3. UNCHANGED lost
      BY <1>3 DEF Crash
    <2>4. Exact'
      BY <2>1, <2>2 DEF Exact
    <2>5. ASSUME NEW k \in Mails PROVE Room(k)'
      BY <1>1, <2>2, <2>3, RoomStays DEF TriesInv, Open, Holds
    <2> QED
      BY <2>4, <2>5
  <1> QED
    BY <1>2, <1>3

LEMMA TriesNext == OneProcess /\ TriesInv /\ [Next]_vars => TriesInv'
  <1> SUFFICES ASSUME OneProcess, TriesInv, [Next]_vars PROVE TriesInv'
    OBVIOUS
  <1>1. IInv'
    BY NextInv DEF OneProcess, Exclusive, TriesInv
  <1>2. Exact' /\ \A k \in Mails : Room(k)'
    <2>1. CASE UNCHANGED vars
      BY <2>1 DEF vars, TriesInv, Exact, Room, Open, Holds, Sends
    <2>2. CASE Tick
      BY <2>2, TickTries
    <2>3. ASSUME NEW m \in Mails, QueueNotificationEmail(m)
          PROVE  Exact' /\ \A k \in Mails : Room(k)'
      BY <2>3, QueueTries
    <2>4. ASSUME NEW p \in Processes, Work(p) \/ Crash(p)
          PROVE  Exact' /\ \A k \in Mails : Room(k)'
      BY <2>4, ReclaimTries, SelectTries, ClaimTries, SendTries, RecordSentTries,
         RecordFailureTries, CrashTries
      DEF Work
    <2> QED
      BY <2>1, <2>2, <2>3, <2>4 DEF Next
  <1> QED
    BY <1>1, <1>2 DEF TriesInv

\* With one process a mail is tried MaxAttempts times and once more for every
\* attempt whose outcome was lost, however often the process dies between a send
\* and its record (the catch of drainEmailOutbox).
THEOREM TriesAreBounded == ASSUME OneProcess PROVE Spec => []TriesBounded
  <1>1. Init => TriesInv
    <2> SUFFICES ASSUME Init PROVE TriesInv
      OBVIOUS
    <2>1. Exact
      BY DEF Init, Idle, Exact, Sends
    <2>2. \A m \in Mails : Room(m)
      BY OutboxAssumption DEF Init, Absent, Room
    <2> QED
      BY <2>1, <2>2, InitInv DEF TriesInv
  <1>2. TriesInv /\ [Next]_vars => TriesInv'
    BY TriesNext
  <1>3. TriesInv => TriesBounded
    BY DEF TriesInv, Room, TriesBounded
  <1> QED
    BY <1>1, <1>2, <1>3, PTL DEF Spec
================================================================================
