--------------------------- MODULE EmailOutboxProofs ---------------------------
(***************************************************************************)
(* Theorems about EmailOutbox, for every set of invitations, workers and    *)
(* event types, every retry limit and every bound on the number of jobs.    *)
(***************************************************************************)
EXTENDS EmailOutbox, TLAPS, SequenceTheorems

Results == Outcomes \cup {"processing"}

--------------------------------------------------------------------------------
(* A row of the outbox: its type, its ledger, and the steps it may take.       *)

\* What AttemptLedger says of one row.
Ledger(r) ==
  LET n == Len(r.log)
  IN  /\ n <= RetryLimit
      /\ \A k \in 1..n : k < n => r.log[k] = "retry"
      /\ r.status = "processing" <=> n > 0 /\ r.log[n] = "processing"
      /\ r.status \in Sent <=> n > 0 /\ r.log[n] = "sent"
      /\ r.status = "dead_letter" <=> n > 0 /\ r.log[n] = "dead_letter"
      /\ r.status = "pending" => n < RetryLimit /\ (n > 0 => r.log[n] = "retry")
      /\ r.status = "processing" <=> r.lease # "none"

RowOK(r) == r \in JobRow /\ Ledger(r)

ClosedKept(r, s) ==
  \A n \in DOMAIN r.log : r.log[n] # "processing" => n \in DOMAIN s.log /\ s.log[n] = r.log[n]

RowStep(r, s) ==
  /\ s.inv = r.inv /\ s.gen = r.gen
  /\ Len(r.log) <= Len(s.log)
  /\ s.status \in Forward[r.status]
  /\ r.status \in Sent => s.log = r.log
  /\ ClosedKept(r, s)

LEMMA CloseLog ==
  ASSUME NEW r \in JobRow, Len(r.log) > 0, NEW o \in Results
  PROVE  /\ Close(r, o) \in Seq(Results)
         /\ Len(Close(r, o)) = Len(r.log)
         /\ \A k \in 1..Len(r.log) : Close(r, o)[k] = IF k = Len(r.log) THEN o ELSE r.log[k]
<1>1. r.log \in Seq(Results) /\ Len(r.log) \in 1..Len(r.log)
  BY DEF JobRow, Results
<1>2. QED
  BY <1>1, ExceptSeq DEF Close

LEMMA SameRow ==
  ASSUME NEW r \in JobRow
  PROVE  RowStep(r, r)
  BY DEF RowStep, ClosedKept, Forward, JobRow, JobStatuses, Sent

LEMMA CancelRow ==
  ASSUME NEW r, RowOK(r), r.status = "pending"
  PROVE  RowOK(Cancel(r)) /\ RowStep(r, Cancel(r))
<1> DEFINE s == Cancel(r)
<1>1. /\ s \in JobRow /\ s.status = "cancelled" /\ s.lease = "none"
      /\ s.log = r.log /\ s.inv = r.inv /\ s.gen = r.gen
  BY DEF RowOK, Cancel, JobRow, JobStatuses, Sent
<1>2. Ledger(s)
  BY <1>1 DEF RowOK, Ledger, Sent
<1>3. RowStep(r, s)
  BY <1>1 DEF RowOK, RowStep, ClosedKept, Forward, JobRow, Sent
<1>4. QED
  BY <1>1, <1>2, <1>3 DEF RowOK

\* A processing row whose attempt is closed with o and that becomes s.
LEMMA ClosedRow ==
  ASSUME NEW r, RowOK(r), r.status = "processing",
         NEW o \in Outcomes, NEW s \in JobRow,
         s.inv = r.inv, s.gen = r.gen, s.lease = "none", s.log = Close(r, o),
         \/ s.status = "pending" /\ o = "retry" /\ Len(r.log) < RetryLimit
         \/ s.status = "cancelled" /\ o \in {"retry", "cancelled"}
         \/ s.status = o /\ o \in {"sent", "dead_letter"}
  PROVE  RowOK(s) /\ RowStep(r, s)
<1>1. r \in JobRow /\ Len(r.log) > 0 /\ o \in Results
  BY DEF RowOK, Ledger, Results
<1>2. /\ Len(s.log) = Len(r.log)
      /\ \A k \in 1..Len(r.log) : s.log[k] = IF k = Len(r.log) THEN o ELSE r.log[k]
  BY <1>1, CloseLog
<1>3. Len(r.log) \in Nat /\ r.log[Len(r.log)] = "processing"
  BY <1>1 DEF RowOK, Ledger, JobRow
<1>4. Ledger(s)
  BY <1>2, <1>3, <1>1 DEF RowOK, Ledger, Sent
<1>5. DOMAIN r.log = 1..Len(r.log) /\ DOMAIN s.log = 1..Len(s.log)
  BY <1>1 DEF JobRow
<1>6. ClosedKept(r, s)
  BY <1>2, <1>3, <1>5 DEF ClosedKept
<1>7. RowStep(r, s)
  BY <1>2, <1>3, <1>6 DEF RowStep, Forward, Sent
<1>8. QED
  BY <1>4, <1>7 DEF RowOK

LEMMA LeasedRow ==
  ASSUME NEW r, RowOK(r), r.status = "pending"
  PROVE  /\ RowOK(Leased(r)) /\ RowStep(r, Leased(r))
         /\ Leased(r).status = "processing" /\ Len(Leased(r).log) = Len(r.log) + 1
<1> DEFINE s == Leased(r)
<1>1. r.log \in Seq(Results) /\ r \in JobRow /\ "processing" \in Results
  BY DEF RowOK, JobRow, Results
<1>2. /\ Append(r.log, "processing") \in Seq(Results)
      /\ Len(Append(r.log, "processing")) = Len(r.log) + 1
      /\ \A k \in 1..Len(r.log) : Append(r.log, "processing")[k] = r.log[k]
      /\ Append(r.log, "processing")[Len(r.log) + 1] = "processing"
  BY <1>1, AppendProperties
<1>3. /\ s \in JobRow /\ s.status = "processing" /\ s.lease = "live"
      /\ s.log = Append(r.log, "processing") /\ s.inv = r.inv /\ s.gen = r.gen
  BY <1>1, <1>2 DEF Leased, JobRow, JobStatuses, Results
<1>4. /\ Len(r.log) \in Nat /\ Len(r.log) < RetryLimit
      /\ \A k \in 1..Len(r.log) : r.log[k] = "retry"
  BY <1>1 DEF RowOK, Ledger
<1>5. Ledger(s)
  BY <1>2, <1>3, <1>4, RetryLimitAssumption DEF Ledger, Sent
<1>6. DOMAIN r.log = 1..Len(r.log) /\ DOMAIN s.log = 1..Len(s.log)
  BY <1>1, <1>2, <1>3, LenProperties
<1>7. RowStep(r, s)
  BY <1>2, <1>3, <1>4, <1>6 DEF RowStep, ClosedKept, Forward, Sent
<1>8. QED
  BY <1>2, <1>3, <1>5, <1>7 DEF RowOK

\* A provider's report moves a sent row among the statuses that say so.
LEMMA ReportedRow ==
  ASSUME NEW r, RowOK(r), r.status \in Sent, NEW e
  PROVE  /\ RowOK([r EXCEPT !.status = Reconciled(r.status, e)])
         /\ RowStep(r, [r EXCEPT !.status = Reconciled(r.status, e)])
         /\ Reconciled(r.status, e) \in Sent
<1>1. /\ Reconciled(r.status, e) \in Sent
      /\ Reconciled(r.status, e) \in Forward[r.status]
  BY DEF Reconciled, Sent, Forward
<1>2. QED
  BY <1>1 DEF RowOK, JobRow, JobStatuses, Sent, Ledger, RowStep, ClosedKept

LEMMA LapsedRow ==
  ASSUME NEW r, RowOK(r), r.lease = "live"
  PROVE  /\ RowOK([r EXCEPT !.lease = "lapsed"])
         /\ RowStep(r, [r EXCEPT !.lease = "lapsed"])
  BY DEF RowOK, JobRow, JobStatuses, Sent, Ledger, RowStep, ClosedKept, Forward

LEMMA FreshRow ==
  ASSUME NEW i \in Invitations, NEW g \in Nat
  PROVE  RowOK(NewJob(i, g)) /\ NewJob(i, g).log = <<>> /\ NewJob(i, g).status = "pending"
<1>1. <<>> \in Seq(Results) /\ Len(<<>>) = 0
  BY EmptySeq
<1>2. QED
  BY <1>1, RetryLimitAssumption DEF NewJob, RowOK, JobRow, JobStatuses, Sent, Ledger, Results

--------------------------------------------------------------------------------
(* The invariant *)

JobsInv ==
  /\ jobs \in Seq(JobRow) /\ Len(jobs) <= MaxJobs
  /\ \A j \in DOMAIN jobs : RowOK(jobs[j])

InvsInv == inv \in [Invitations -> InvRow]

\* An attempt that a worker holds has been made, of a job that exists.
Made(j, n) == j \in DOMAIN jobs /\ n <= Count(j)

HeldInv ==
  /\ held \in [Workers -> SUBSET Hold]
  /\ \A w \in Workers : \A h \in held[w] : Made(h[1], h[2])

\* A worker reports a message as sent only if the provider accepted it, and asks
\* for a retry only if one is left.
TaskInv ==
  /\ task \in [Workers -> Task \cup {None}]
  /\ \A w \in Workers : task[w] # None =>
       /\ Made(task[w].job, task[w].attempt)
       /\ task[w].step = "retry" => task[w].attempt < RetryLimit
       /\ task[w].step = "sent" => <<task[w].job, task[w].attempt>> \in mail

MailInv ==
  /\ mail \subseteq Hold
  /\ \A m \in mail : m[1] \in DOMAIN jobs
  /\ seen \subseteq JobIds \X Attempts \X EventTypes

\* The leases a resend recovers stay lapsed until it ends.
RotInv ==
  /\ rot \in [Invitations -> Rotation]
  /\ \A i \in Invitations : \A j \in rot[i].recovered :
       /\ rot[i].on
       /\ j \in JobsOf(i) /\ jobs[j].status = "processing" /\ jobs[j].lease = "lapsed"

\* A webhook transaction works on a job that was sent.
HookInv ==
  /\ hook \subseteq Hook
  /\ \A h \in hook : h.job \in DOMAIN jobs /\ jobs[h.job].status \in Sent

\* The message of a job that was settled as sent was accepted.
SentMailed == \A j \in DOMAIN jobs : jobs[j].status \in Sent => <<j, Count(j)>> \in mail

IInv == JobsInv /\ InvsInv /\ HeldInv /\ TaskInv /\ MailInv /\ RotInv /\ HookInv /\ SentMailed

LEMMA IInvImplies == IInv => TypeOK /\ AttemptLedger
<1>1. IInv => TypeOK
  BY DEF IInv, JobsInv, InvsInv, HeldInv, TaskInv, MailInv, RotInv, HookInv, TypeOK
<1>2. IInv => AttemptLedger
  BY DEF IInv, JobsInv, RowOK, Ledger, AttemptLedger, Count
<1>3. QED
  BY <1>1, <1>2

\* No row is lost and each takes a step it may take.
JobsStep == \A j \in DOMAIN jobs : j \in DOMAIN jobs' /\ RowStep(jobs[j], jobs'[j])

LEMMA JobsDomain ==
  ASSUME JobsInv
  PROVE  /\ DOMAIN jobs = 1..Len(jobs) /\ Len(jobs) \in Nat
         /\ DOMAIN jobs \subseteq JobIds
         /\ \A j \in DOMAIN jobs : jobs[j] \in JobRow /\ RowOK(jobs[j])
                                 /\ Len(jobs[j].log) \in 0..RetryLimit
  BY LenProperties, MaxJobsAssumption, RetryLimitAssumption
  DEF JobsInv, JobIds, RowOK, Ledger, JobRow

\* A function on the rows is again an outbox.
LEMMA MappedRows ==
  ASSUME JobsInv, NEW s, s = [j \in DOMAIN jobs |-> s[j]],
         \A j \in DOMAIN jobs : RowOK(s[j])
  PROVE  s \in Seq(JobRow) /\ Len(s) = Len(jobs) /\ DOMAIN s = DOMAIN jobs
<1>1. DOMAIN jobs = 1..Len(jobs) /\ Len(jobs) \in Nat
  BY JobsDomain
<1>2. s \in [1..Len(jobs) -> JobRow]
  BY <1>1 DEF RowOK
<1>3. s \in Seq(JobRow)
  BY <1>1, <1>2, SeqDef
<1>4. QED
  BY <1>1, <1>2, <1>3, LenProperties

LEMMA MappedJobs ==
  ASSUME JobsInv, jobs' = [j \in DOMAIN jobs |-> jobs'[j]],
         \A j \in DOMAIN jobs : RowOK(jobs'[j]) /\ RowStep(jobs[j], jobs'[j])
  PROVE  JobsInv' /\ JobsStep
  BY MappedRows DEF JobsInv, JobsStep

LEMMA AppendedJobs ==
  ASSUME JobsInv, Len(jobs) < MaxJobs, NEW s, s = [j \in DOMAIN jobs |-> s[j]],
         \A j \in DOMAIN jobs : RowOK(s[j]) /\ RowStep(jobs[j], s[j]),
         NEW r, RowOK(r), jobs' = Append(s, r)
  PROVE  /\ JobsInv' /\ JobsStep
         /\ Len(jobs') = Len(jobs) + 1 /\ jobs'[Len(jobs) + 1] = r
         /\ \A j \in DOMAIN jobs : jobs'[j] = s[j]
<1>1. s \in Seq(JobRow) /\ Len(s) = Len(jobs) /\ DOMAIN s = DOMAIN jobs /\ r \in JobRow
  BY MappedRows DEF RowOK
<1>2. DOMAIN jobs = 1..Len(jobs) /\ Len(jobs) \in Nat
  BY JobsDomain
<1>3. /\ jobs' \in Seq(JobRow) /\ Len(jobs') = Len(jobs) + 1
      /\ \A j \in 1..Len(jobs) : jobs'[j] = s[j]
      /\ jobs'[Len(jobs) + 1] = r
  BY <1>1, AppendProperties
<1>4. DOMAIN jobs' = 1..(Len(jobs) + 1)
  BY <1>3, LenProperties
<1>5. QED
  BY <1>2, <1>3, <1>4, MaxJobsAssumption DEF JobsInv, JobsStep

LEMMA SameJobs ==
  ASSUME JobsInv, UNCHANGED jobs
  PROVE  JobsInv' /\ JobsStep
  BY JobsDomain, SameRow DEF JobsInv, JobsStep

\* One row changes.
LEMMA OneJob ==
  ASSUME JobsInv, NEW j \in DOMAIN jobs, NEW r, RowOK(r), RowStep(jobs[j], r),
         jobs' = [jobs EXCEPT ![j] = r]
  PROVE  JobsInv' /\ JobsStep
<1>1. /\ jobs' = [k \in DOMAIN jobs |-> jobs'[k]] 
      /\ \A k \in DOMAIN jobs : jobs'[k] = IF k = j THEN r ELSE jobs[k]
  BY JobsDomain
<1>2. QED
  BY <1>1, JobsDomain, SameRow, MappedJobs

--------------------------------------------------------------------------------
(* What growing tables leave true. *)

LEMMA MadeKept ==
  ASSUME JobsInv, JobsInv', JobsStep, NEW j, NEW n \in Nat, Made(j, n)
  PROVE  Made(j, n)'
<1>1. /\ j \in DOMAIN jobs' /\ Len(jobs[j].log) <= Len(jobs'[j].log)
      /\ Len(jobs[j].log) \in Nat /\ Len(jobs'[j].log) \in Nat
  <2>1. Len(jobs[j].log) \in Nat
    BY JobsDomain DEF Made
  <2>2. j \in DOMAIN jobs' /\ Len(jobs[j].log) <= Len(jobs'[j].log)
    BY DEF Made, JobsStep, RowStep
  <2>3. jobs'[j].log \in Seq(Results)
    BY <2>2 DEF JobsInv, RowOK, JobRow, Results
  <2>4. QED
    BY <2>1, <2>2, <2>3, LenProperties
<1>2. QED
  BY <1>1 DEF Made, Count

LEMMA HeldKept ==
  ASSUME JobsInv, JobsInv', JobsStep, HeldInv, UNCHANGED held
  PROVE  HeldInv'
<1>1. \A w \in Workers : \A h \in held[w] : h[2] \in Nat
  BY DEF HeldInv, Hold, Attempts
<1>2. QED
  BY <1>1, MadeKept DEF HeldInv

LEMMA TaskKept ==
  ASSUME JobsInv, JobsInv', JobsStep, TaskInv, UNCHANGED task, mail \subseteq mail'
  PROVE  TaskInv'
<1>1. \A w \in Workers : task[w] # None => task[w].attempt \in Nat
  BY DEF TaskInv, Task, Attempts
<1>2. \A w \in Workers : task[w] # None => Made(task[w].job, task[w].attempt)'
  BY <1>1, MadeKept DEF TaskInv
<1>3. QED
  BY <1>2 DEF TaskInv, Made, Count

LEMMA MailKept ==
  ASSUME JobsInv, JobsInv', JobsStep, MailInv, UNCHANGED <<mail, seen>>
  PROVE  MailInv'
  BY DEF MailInv, JobsStep

LEMMA SentKept ==
  ASSUME JobsInv, JobsStep, NEW j \in DOMAIN jobs, jobs[j].status \in Sent
  PROVE  /\ j \in DOMAIN jobs' /\ jobs'[j].status \in Sent /\ jobs'[j].log = jobs[j].log
  BY DEF JobsStep, RowStep, Sent, Forward

LEMMA HookKept ==
  ASSUME JobsInv, JobsStep, HookInv, UNCHANGED hook
  PROVE  HookInv'
  BY SentKept DEF HookInv

LEMMA SentMailedKept ==
  ASSUME JobsInv, JobsStep, SentMailed, mail \subseteq mail',
         \A j \in DOMAIN jobs' : jobs'[j].status \in Sent =>
           \/ j \in DOMAIN jobs /\ jobs[j].status \in Sent
           \/ <<j, Len(jobs'[j].log)>> \in mail'
  PROVE  SentMailed'
  BY SentKept DEF SentMailed, Count

\* A step that changes no row.
LEMMA StillRows ==
  ASSUME IInv, UNCHANGED jobs
  PROVE  /\ JobsInv' /\ JobsStep
         /\ mail \subseteq mail' => SentMailed'
         /\ UNCHANGED rot => RotInv'
<1>1. JobsInv' /\ JobsStep
  BY SameJobs DEF IInv
<1>2. mail \subseteq mail' => SentMailed'
  BY DEF IInv, SentMailed, Count
<1>3. UNCHANGED rot => RotInv'
  BY DEF IInv, RotInv, JobsOf
<1>4. QED
  BY <1>1, <1>2, <1>3

--------------------------------------------------------------------------------
(* Steps of invitations *)

LEMMA CancelPendingRows ==
  ASSUME JobsInv, NEW I
  PROVE  /\ CancelPending(jobs, I) = [j \in DOMAIN jobs |-> CancelPending(jobs, I)[j]]
         /\ \A j \in DOMAIN jobs :
              /\ RowOK(CancelPending(jobs, I)[j])
              /\ RowStep(jobs[j], CancelPending(jobs, I)[j])
              /\ CancelPending(jobs, I)[j].status \in Sent => jobs[j].status \in Sent
              /\ jobs[j].status = "processing" => CancelPending(jobs, I)[j] = jobs[j]
<1> DEFINE s == CancelPending(jobs, I)
<1>1. /\ s = [j \in DOMAIN jobs |-> s[j]]
      /\ \A j \in DOMAIN jobs :
           s[j] = IF jobs[j].inv \in I /\ jobs[j].status = "pending" THEN Cancel(jobs[j]) ELSE jobs[j]
  BY DEF CancelPending
<1>2. ASSUME NEW j \in DOMAIN jobs
      PROVE  /\ RowOK(s[j]) /\ RowStep(jobs[j], s[j])
             /\ s[j].status \in Sent => jobs[j].status \in Sent
             /\ jobs[j].status = "processing" => s[j] = jobs[j]
  <2>1. CASE jobs[j].inv \in I /\ jobs[j].status = "pending"
    <3>1. Cancel(jobs[j]).status = "cancelled"
      BY JobsDomain DEF Cancel, JobRow
    <3>2. QED
      BY <1>1, <2>1, <3>1, CancelRow, JobsDomain DEF Sent
  <2>2. CASE ~(jobs[j].inv \in I /\ jobs[j].status = "pending")
    BY <1>1, <2>2, SameRow, JobsDomain
  <2>3. QED
    BY <2>1, <2>2
<1>3. QED
  BY <1>1, <1>2

\* Resends in progress are not disturbed when their leases stay as they are.
LEMMA RotKept ==
  ASSUME JobsInv, JobsStep, RotInv, UNCHANGED rot,
         \A j \in DOMAIN jobs : (\E i \in Invitations : j \in rot[i].recovered) =>
           jobs'[j] = jobs[j]
  PROVE  RotInv'
  BY DEF RotInv, JobsStep, RowStep, JobsOf

LEMMA CreateInv ==
  ASSUME IInv, NEW i \in Invitations, Create(i)
  PROVE  IInv' /\ JobsStep
<1> DEFINE closed == {k \in Invitations : inv[k].status = "invited"}
           s == CancelPending(jobs, closed)
           r == NewJob(i, 1)
<1>1. Len(jobs) < MaxJobs /\ jobs' = Append(s, r) /\ UNCHANGED <<held, task, mail, seen, rot, hook>>
  BY DEF Create
<1>2. RowOK(r) /\ r.status = "pending"
  BY FreshRow
<1>3. /\ JobsInv' /\ JobsStep
      /\ Len(jobs') = Len(jobs) + 1 /\ jobs'[Len(jobs) + 1] = r
      /\ \A j \in DOMAIN jobs : jobs'[j] = s[j]
  BY <1>1, <1>2, CancelPendingRows, AppendedJobs DEF IInv
<1>4. \A j \in DOMAIN jobs' : j \in DOMAIN jobs \/ jobs'[j] = r
  BY <1>3, JobsDomain, LenProperties DEF JobsInv, IInv
<1>5. InvsInv'
  BY DEF Create, IInv, InvsInv, InvRow, InvStatuses
<1>6. RotInv'
  <2>1. \A j \in DOMAIN jobs : jobs[j].status = "processing" => jobs'[j] = jobs[j]
    BY <1>3, CancelPendingRows DEF IInv
  <2>2. QED
    BY <1>1, <1>3, <2>1, RotKept DEF IInv, RotInv
<1>7. SentMailed'
  BY <1>1, <1>2, <1>3, <1>4, CancelPendingRows, SentMailedKept DEF IInv, Sent
<1>8. QED
  BY <1>1, <1>3, <1>5, <1>6, <1>7, HeldKept, TaskKept, MailKept, HookKept DEF IInv

LEMMA TerminateInv ==
  ASSUME IInv, NEW i \in Invitations, NEW status \in {"accepted", "cancelled", "expired"},
         Terminate(i, status)
  PROVE  IInv' /\ JobsStep
<1>1. jobs' = CancelPending(jobs, {i}) /\ UNCHANGED <<held, task, mail, seen, rot, hook>>
  BY DEF Terminate
<1>2. JobsInv' /\ JobsStep
  BY <1>1, CancelPendingRows, MappedJobs DEF IInv
<1>3. InvsInv'
  BY DEF Terminate, IInv, InvsInv, InvRow, InvStatuses
<1>4. DOMAIN jobs' = DOMAIN jobs
  BY <1>1 DEF CancelPending
<1>5. RotInv'
  <2>1. \A j \in DOMAIN jobs : jobs[j].status = "processing" => jobs'[j] = jobs[j]
    BY <1>1, CancelPendingRows DEF IInv
  <2>2. QED
    BY <1>1, <1>2, <2>1, RotKept DEF IInv, RotInv
<1>6. SentMailed'
  BY <1>1, <1>2, <1>4, CancelPendingRows, SentMailedKept DEF IInv
<1>7. QED
  BY <1>1, <1>2, <1>3, <1>5, <1>6, HeldKept, TaskKept, MailKept, HookKept DEF IInv

LEMMA ReserveInv ==
  ASSUME IInv, NEW i \in Invitations, Reserve(i) \/ Elapse(i)
  PROVE  IInv' /\ JobsStep
<1>1. UNCHANGED <<jobs, held, task, mail, seen, rot, hook>>
  BY DEF Reserve, Elapse
<1>2. InvsInv'
  BY DEF Reserve, Elapse, IInv, InvsInv, InvRow
<1>3. QED
  BY <1>1, <1>2, StillRows, HeldKept, TaskKept, MailKept, HookKept DEF IInv

LEMMA RotateCheckInv ==
  ASSUME IInv, NEW i \in Invitations, RotateCheck(i)
  PROVE  IInv' /\ JobsStep
<1> DEFINE abandoned == {j \in JobsOf(i) : jobs[j].status = "processing" /\ jobs[j].lease = "lapsed"}
<1>1. /\ UNCHANGED <<inv, jobs, held, task, mail, seen, hook>>
      /\ rot' = [rot EXCEPT ![i] = [on |-> TRUE, recovered |-> abandoned]]
  BY DEF RotateCheck
<1>2. abandoned \subseteq JobIds
  BY JobsDomain DEF IInv, JobsOf
<1>3. RotInv'
  BY <1>1, <1>2 DEF IInv, RotInv, Rotation, JobsOf
<1>4. QED
  BY <1>1, <1>3, StillRows, HeldKept, TaskKept, MailKept, HookKept DEF IInv, InvsInv

LEMMA RotateAbortInv ==
  ASSUME IInv, NEW i \in Invitations, RotateAbort(i)
  PROVE  IInv' /\ JobsStep
<1>1. /\ UNCHANGED <<inv, jobs, held, task, mail, seen, hook>>
      /\ rot' = [rot EXCEPT ![i] = Idle]
  BY DEF RotateAbort
<1>2. RotInv'
  BY <1>1 DEF IInv, RotInv, Rotation, JobsOf, Idle
<1>3. QED
  BY <1>1, <1>2, StillRows, HeldKept, TaskKept, MailKept, HookKept DEF IInv, InvsInv

\* An abandoned lease that a resend recovers and cancels.
LEMMA RecoveredRow ==
  ASSUME NEW r, RowOK(r), r.status = "processing"
  PROVE  LET s == Cancel([r EXCEPT !.log = Close(r, "retry")])
         IN  RowOK(s) /\ RowStep(r, s) /\ s.status = "cancelled"
<1> DEFINE s == Cancel([r EXCEPT !.log = Close(r, "retry")])
<1>1. r \in JobRow /\ Len(r.log) > 0 /\ "retry" \in Results /\ "retry" \in Outcomes
  BY DEF RowOK, Ledger, Results, Outcomes
<1>2. Close(r, "retry") \in Seq(Results)
  BY <1>1, CloseLog
<1>3. /\ s \in JobRow /\ s.status = "cancelled" /\ s.lease = "none"
      /\ s.inv = r.inv /\ s.gen = r.gen /\ s.log = Close(r, "retry")
  BY <1>1, <1>2 DEF Cancel, JobRow, JobStatuses, Sent, Results
<1>4. QED
  BY <1>1, <1>3, ClosedRow

LEMMA RotatedRow ==
  ASSUME NEW r \in InvRow, NEW g \in Nat
  PROVE  [r EXCEPT !.gen = g, !.delivery = "pending"] \in InvRow
  BY DEF InvRow, Projections

LEMMA RotateFinishInv ==
  ASSUME IInv, NEW i \in Invitations, RotateFinish(i)
  PROVE  IInv' /\ JobsStep
<1> DEFINE R == rot[i].recovered
           old == CancelPending(jobs, {i})
           s == [j \in DOMAIN jobs |->
                  IF j \in R THEN Cancel([jobs[j] EXCEPT !.log = Close(jobs[j], "retry")]) ELSE old[j]]
           r == NewJob(i, inv[i].gen + 1)
<1>1. /\ Len(jobs) < MaxJobs /\ jobs' = Append(s, r)
      /\ rot' = [rot EXCEPT ![i] = Idle]
      /\ inv' = [inv EXCEPT ![i] = [@ EXCEPT !.gen = inv[i].gen + 1, !.delivery = "pending"]]
      /\ UNCHANGED <<held, task, mail, seen, hook>>
  BY DEF RotateFinish
<1>2. RowOK(r) /\ r.status = "pending"
  BY FreshRow DEF IInv, InvsInv, InvRow
<1>3. \A j \in DOMAIN jobs :
        /\ RowOK(s[j]) /\ RowStep(jobs[j], s[j])
        /\ s[j].status \in Sent => jobs[j].status \in Sent
        /\ j \notin R /\ jobs[j].status = "processing" => s[j] = jobs[j]
  <2> TAKE j \in DOMAIN jobs
  <2>1. CASE j \in R
    BY <2>1, RecoveredRow, JobsDomain DEF IInv, RotInv, Sent
  <2>2. CASE j \notin R
    BY <2>2, CancelPendingRows DEF IInv
  <2>3. QED
    BY <2>1, <2>2
<1>4. /\ JobsInv' /\ JobsStep
      /\ Len(jobs') = Len(jobs) + 1 /\ jobs'[Len(jobs) + 1] = r
      /\ \A j \in DOMAIN jobs : jobs'[j] = s[j]
  <2> HIDE DEF r
  <2>1. s = [j \in DOMAIN jobs |-> s[j]]
    OBVIOUS
  <2> HIDE DEF s
  <2>2. QED
    BY <1>1, <1>2, <1>3, <2>1, AppendedJobs DEF IInv
<1>5. \A j \in DOMAIN jobs' : j \in DOMAIN jobs \/ jobs'[j] = r
  BY <1>4, JobsDomain, LenProperties DEF JobsInv, IInv
<1>6. InvsInv'
  <2>1. /\ inv \in [Invitations -> InvRow] /\ inv[i] \in InvRow /\ inv[i].gen + 1 \in Nat
    BY DEF IInv, InvsInv, InvRow
  <2>2. [inv[i] EXCEPT !.gen = inv[i].gen + 1, !.delivery = "pending"] \in InvRow
    BY <2>1, RotatedRow
  <2>3. inv' = [inv EXCEPT ![i] = [inv[i] EXCEPT !.gen = inv[i].gen + 1, !.delivery = "pending"]]
    BY <1>1
  <2>4. QED
    BY <2>1, <2>2, <2>3, Zenon DEF InvsInv
<1>7. RotInv'
  <2>1. rot' \in [Invitations -> Rotation]
    BY <1>1 DEF IInv, RotInv, Rotation, Idle
  <2>2. ASSUME NEW k \in Invitations, NEW j \in rot'[k].recovered
        PROVE  /\ rot'[k].on /\ j \in DOMAIN jobs' /\ jobs'[j].inv = k
               /\ jobs'[j].status = "processing" /\ jobs'[j].lease = "lapsed"
    <3>1. k # i /\ j \in rot[k].recovered /\ rot'[k] = rot[k]
      BY <1>1, <2>2 DEF IInv, RotInv, Idle
    <3>2. /\ rot[k].on /\ j \in DOMAIN jobs /\ jobs[j].inv = k
          /\ jobs[j].status = "processing" /\ jobs[j].lease = "lapsed"
      BY <3>1 DEF IInv, RotInv, JobsOf
    <3>3. j \notin R
      BY <3>1, <3>2 DEF IInv, RotInv, JobsOf
    <3>4. jobs'[j] = jobs[j] /\ j \in DOMAIN jobs'
      BY <1>3, <1>4, <3>2, <3>3 DEF JobsStep
    <3>5. QED
      BY <3>1, <3>2, <3>4
  <2>3. QED
    BY <2>1, <2>2 DEF RotInv, JobsOf
<1>8. SentMailed'
  BY <1>1, <1>2, <1>3, <1>4, <1>5, SentMailedKept DEF IInv, Sent
<1>9. QED
  BY <1>1, <1>4, <1>6, <1>7, <1>8, HeldKept, TaskKept, MailKept, HookKept DEF IInv

--------------------------------------------------------------------------------
(* Steps of workers *)

LEMMA SweptRow ==
  ASSUME JobsInv, NEW j \in DOMAIN jobs
  PROVE  /\ RowOK(Swept(j)) /\ RowStep(jobs[j], Swept(j))
         /\ Swept(j).status \in Sent => jobs[j].status \in Sent
         /\ Swept(j).status = "pending" => jobs[j].status \in {"pending", "processing"}
<1> DEFINE r == jobs[j]
           n == Len(r.log)
<1>1. RowOK(r) /\ r \in JobRow /\ n \in 0..RetryLimit
  BY JobsDomain
<1>2. CASE r.status = "pending" /\ Undeliverable(r.inv)
  <2>1. Swept(j) = Cancel(r) /\ Cancel(r).status = "cancelled"
    BY <1>1, <1>2 DEF Swept, Cancel, JobRow
  <2>2. QED
    BY <1>1, <1>2, <2>1, CancelRow DEF Sent
<1>3. CASE r.status = "processing" /\ r.lease = "lapsed"
  <2>1. n > 0 /\ {"retry", "dead_letter"} \subseteq Outcomes \cap Results
    BY <1>1, <1>3 DEF RowOK, Ledger, Results, Outcomes
  <2>2. \A o \in {"retry", "dead_letter"} : Close(r, o) \in Seq(Results)
    BY <1>1, <2>1, CloseLog
  <2>3. CASE n >= RetryLimit
    <3> DEFINE s == [r EXCEPT !.status = "dead_letter", !.lease = "none",
                              !.leaseExpired = TRUE, !.log = Close(r, "dead_letter")]
    <3>1. Swept(j) = s
      BY <1>3, <2>3 DEF Swept, Exhausted
    <3>2. /\ s \in JobRow /\ s.status = "dead_letter" /\ s.lease = "none"
          /\ s.inv = r.inv /\ s.gen = r.gen /\ s.log = Close(r, "dead_letter")
      BY <1>1, <2>2 DEF JobRow, JobStatuses, Sent, Results
    <3>3. RowOK(s) /\ RowStep(r, s)
      <4> HIDE DEF s
      <4> QED
        BY <1>1, <1>3, <2>1, <3>2, ClosedRow
    <3>4. s.status \notin Sent /\ s.status # "pending"
      BY <3>2 DEF Sent
    <3> HIDE DEF s
    <3>5. QED
      BY <3>1, <3>3, <3>4
  <2>4. CASE ~(n >= RetryLimit)
    <3> DEFINE s == [r EXCEPT !.status = "pending", !.lease = "none",
                              !.leaseExpired = TRUE, !.log = Close(r, "retry")]
    <3>1. Swept(j) = s
      BY <1>3, <2>4 DEF Swept, Exhausted
    <3>2. /\ s \in JobRow /\ s.status = "pending" /\ s.lease = "none"
          /\ s.inv = r.inv /\ s.gen = r.gen /\ s.log = Close(r, "retry")
      BY <1>1, <2>2 DEF JobRow, JobStatuses, Sent, Results
    <3>3. n < RetryLimit
      BY <1>1, <2>4, RetryLimitAssumption
    <3>4. RowOK(s) /\ RowStep(r, s)
      <4> HIDE DEF s
      <4> QED
        BY <1>1, <1>3, <2>1, <3>2, <3>3, ClosedRow
    <3>5. s.status \notin Sent
      BY <3>2 DEF Sent
    <3> HIDE DEF s
    <3>6. QED
      BY <1>3, <3>1, <3>4, <3>5
  <2>5. QED
    BY <2>3, <2>4
<1>4. CASE ~(r.status = "pending" /\ Undeliverable(r.inv)) /\ ~(r.status = "processing" /\ r.lease = "lapsed")
  BY <1>1, <1>4, SameRow DEF Swept, Exhausted
<1>5. QED
  BY <1>2, <1>3, <1>4

\* A claimed row: swept, then leased.
LEMMA ClaimedRow ==
  ASSUME JobsInv, NEW j \in DOMAIN jobs, j \in Eligible
  PROVE  /\ RowOK(Leased(Swept(j))) /\ RowStep(jobs[j], Leased(Swept(j)))
         /\ Leased(Swept(j)).status = "processing"
         /\ Len(Leased(Swept(j)).log) = Len(Swept(j).log) + 1
<1> DEFINE r == jobs[j]
           s == Swept(j)
           u == Leased(s)
<1>1. /\ RowOK(s) /\ RowStep(r, s) /\ s.status = "pending"
      /\ r.status \in {"pending", "processing"}
  BY SweptRow DEF Eligible
<1>2. RowOK(u) /\ RowStep(s, u) /\ u.status = "processing" /\ Len(u.log) = Len(s.log) + 1
  BY <1>1, LeasedRow
<1>3. ClosedKept(r, u)
  BY <1>1, <1>2 DEF RowStep, ClosedKept
<1>4. Len(r.log) <= Len(u.log)
  <2>1. Len(r.log) \in Nat /\ Len(s.log) \in Nat
    BY <1>1, JobsDomain, LenProperties DEF RowOK, JobRow
  <2>2. QED
    BY <1>1, <1>2, <2>1 DEF RowStep
<1>5. QED
  BY <1>1, <1>2, <1>3, <1>4 DEF RowStep, Forward, Sent

LEMMA ClaimInv ==
  ASSUME IInv, NEW w \in Workers, NEW batch, Claim(w, batch)
  PROVE  IInv' /\ JobsStep
<1>1. /\ batch \subseteq Eligible /\ \A i \in Invitations : rot[i].recovered = {}
      /\ jobs' = [j \in DOMAIN jobs |-> IF j \in batch THEN Leased(Swept(j)) ELSE Swept(j)]
      /\ held' = [held EXCEPT ![w] = {<<j, Len(jobs'[j].log)>> : j \in batch}]
      /\ UNCHANGED <<task, mail, seen, rot, hook>>
  BY DEF Claim
<1>2. \A j \in DOMAIN jobs :
        /\ RowOK(jobs'[j]) /\ RowStep(jobs[j], jobs'[j])
        /\ jobs'[j].status \in Sent => jobs[j].status \in Sent
        /\ j \in batch => Len(jobs'[j].log) = Len(Swept(j).log) + 1
  <2> TAKE j \in DOMAIN jobs
  <2>1. CASE j \in batch
    BY <1>1, <2>1, ClaimedRow DEF IInv, Sent
  <2>2. CASE j \notin batch
    BY <1>1, <2>2, SweptRow DEF IInv
  <2>3. QED
    BY <2>1, <2>2
<1>3. JobsInv' /\ JobsStep /\ DOMAIN jobs' = DOMAIN jobs
  BY <1>1, <1>2, MappedJobs DEF IInv
<1>4. InvsInv'
  <2>1. inv' = [i \in Invitations |->
          IF i \in Buried THEN [inv[i] EXCEPT !.delivery = "failed"] ELSE inv[i]]
    BY DEF Claim
  <2>2. \A r \in InvRow : [r EXCEPT !.delivery = "failed"] \in InvRow
    BY DEF InvRow, Projections
  <2>3. QED
    BY <2>1, <2>2 DEF IInv, InvsInv
<1>5. HeldInv'
  <2>1. batch \subseteq DOMAIN jobs
    BY <1>1 DEF Eligible
  <2>2. \A j \in batch : \A n : n = Len(jobs'[j].log) => <<j, n>> \in Hold /\ Made(j, n)'
    <3> TAKE j \in batch
    <3>1. j \in JobIds /\ j \in DOMAIN jobs'
      BY <1>3, <2>1, JobsDomain DEF IInv
    <3>2. Len(jobs'[j].log) \in 1..RetryLimit
      <4>1. Len(Swept(j).log) \in Nat
        BY <2>1, SweptRow, LenProperties DEF IInv, RowOK, JobRow
      <4>2. Len(jobs'[j].log) <= RetryLimit
        BY <1>2, <2>1 DEF RowOK, Ledger
      <4>3. QED
        BY <1>2, <2>1, <4>1, <4>2, RetryLimitAssumption
    <3> TAKE n
    <3> HAVE n = Len(jobs'[j].log)
    <3>3. <<j, n>> \in Hold
      BY <3>1, <3>2 DEF Hold, Attempts
    <3>4. Made(j, n)'
      BY <3>1, <3>2 DEF Made, Count
    <3>5. QED
      BY <3>3, <3>4
  <2>3. \A v \in Workers : \A h \in held[v] : h[2] \in Nat /\ Made(h[1], h[2])
    BY DEF IInv, HeldInv, Hold, Attempts
  <2>4. \A v \in Workers : \A h \in held[v] : Made(h[1], h[2])'
    BY <1>3, <2>3, MadeKept DEF IInv
  <2> DEFINE taken == {<<j, Len(jobs'[j].log)>> : j \in batch}
  <2>5. taken \subseteq Hold /\ \A h \in taken : Made(h[1], h[2])'
    <3> SUFFICES ASSUME NEW h \in taken
                 PROVE  h \in Hold /\ Made(h[1], h[2])'
      OBVIOUS
    <3>1. PICK j \in batch : h = <<j, Len(jobs'[j].log)>>
      OBVIOUS
    <3>2. PICK n : n = Len(jobs'[j].log)
      OBVIOUS
    <3>3. h = <<j, n>> /\ h[1] = j /\ h[2] = n
      BY <3>1, <3>2
    <3>4. <<j, n>> \in Hold /\ Made(j, n)'
      BY <2>2, <3>2
    <3>5. QED
      BY <3>3, <3>4
  <2> HIDE DEF taken
  <2>6. held' = [held EXCEPT ![w] = taken]
    BY <1>1 DEF taken
  <2>7. held' \in [Workers -> SUBSET Hold]
    BY <2>5, <2>6 DEF IInv, HeldInv
  <2>8. \A v \in Workers : held'[v] = held[v] \/ held'[v] = taken
    BY <2>6 DEF IInv, HeldInv
  <2>9. \A v \in Workers : \A h \in held'[v] : Made(h[1], h[2])'
    BY <2>4, <2>5, <2>8
  <2>10. QED
    BY <2>7, <2>9 DEF HeldInv
<1>6. RotInv'
  BY <1>1 DEF IInv, RotInv
<1>7. SentMailed'
  BY <1>1, <1>2, <1>3, SentMailedKept DEF IInv
<1>8. QED
  BY <1>1, <1>3, <1>4, <1>5, <1>6, <1>7, TaskKept, MailKept, HookKept DEF IInv

LEMMA ResolveInv ==
  ASSUME IInv, NEW w \in Workers, NEW h \in held[w], Resolve(w, h)
  PROVE  IInv' /\ JobsStep
<1>1. PICK step \in {"sending", "cancelled", "dead_letter"} :
        task' = [task EXCEPT ![w] = [job |-> h[1], attempt |-> h[2], step |-> step]]
  BY DEF Resolve
<1>2. /\ held' = [held EXCEPT ![w] = @ \ {h}]
      /\ UNCHANGED <<inv, jobs, mail, seen, rot, hook>>
  BY DEF Resolve
<1>3. h \in Hold /\ Made(h[1], h[2])
  BY DEF IInv, HeldInv
<1>4. HeldInv'
  BY <1>2 DEF IInv, HeldInv, Made, Count
<1>5. TaskInv'
  <2>1. [job |-> h[1], attempt |-> h[2], step |-> step] \in Task
    BY <1>3 DEF Task, Hold, Outcomes
  <2>2. task' \in [Workers -> Task \cup {None}]
    BY <1>1, <2>1 DEF IInv, TaskInv
  <2>3. QED
    BY <1>1, <1>2, <1>3, <2>2 DEF IInv, TaskInv, Made, Count
<1>6. QED
  BY <1>2, <1>4, <1>5, StillRows, MailKept, HookKept DEF IInv, InvsInv

LEMMA SendInv ==
  ASSUME IInv, NEW w \in Workers, Send(w)
  PROVE  IInv' /\ JobsStep
<1>1. PICK accepted \in BOOLEAN, result \in {"sent", "retry", "dead_letter"} :
        /\ result = "sent" => accepted
        /\ result = "retry" => task[w].attempt < RetryLimit
        /\ mail' = IF accepted THEN mail \cup {<<task[w].job, task[w].attempt>>} ELSE mail
        /\ task' = [task EXCEPT ![w].step = result]
  BY DEF Send
<1>2. task[w] # None /\ UNCHANGED <<inv, jobs, held, seen, rot, hook>>
  BY DEF Send
<1>3. task[w] \in Task /\ Made(task[w].job, task[w].attempt)
  BY <1>2 DEF IInv, TaskInv
<1>4. mail \subseteq mail'
  BY <1>1
<1>5. MailInv'
  <2>1. task[w].job \in JobIds /\ task[w].attempt \in Attempts /\ task[w].job \in DOMAIN jobs
    BY <1>3 DEF Task, Made
  <2>2. QED
    BY <1>1, <1>2, <2>1 DEF IInv, MailInv, Hold
<1>6. TaskInv'
  <2> DEFINE t == [task[w] EXCEPT !.step = result]
  <2>1. /\ t \in Task /\ t.job = task[w].job /\ t.attempt = task[w].attempt
        /\ t.step = result
    BY <1>3 DEF Task, Outcomes
  <2> HIDE DEF t
  <2>2. task' = [task EXCEPT ![w] = t]
    BY <1>1 DEF t
  <2>3. task' \in [Workers -> Task \cup {None}]
    BY <2>1, <2>2 DEF IInv, TaskInv
  <2>4. result = "sent" => <<t.job, t.attempt>> \in mail'
    BY <1>1, <2>1
  <2>5. ASSUME NEW v \in Workers, task'[v] # None
        PROVE  /\ Made(task'[v].job, task'[v].attempt)
               /\ task'[v].step = "retry" => task'[v].attempt < RetryLimit
               /\ task'[v].step = "sent" => <<task'[v].job, task'[v].attempt>> \in mail'
    <3>1. CASE v = w
      <4>1. task'[v] = t
        BY <2>2, <3>1 DEF IInv, TaskInv
      <4>2. QED
        BY <4>1, <1>1, <1>3, <2>1, <2>4
    <3>2. CASE v # w
      <4>1. task'[v] = task[v]
        BY <2>2, <3>2 DEF IInv, TaskInv
      <4>2. QED
        BY <4>1, <2>5, <1>4 DEF IInv, TaskInv
    <3>3. QED
      BY <3>1, <3>2
  <2>6. QED
    BY <1>2, <2>3, <2>5 DEF TaskInv, Made, Count
<1>7. QED
  BY <1>2, <1>4, <1>5, <1>6, StillRows, HeldKept, HookKept DEF IInv, InvsInv

\* A settlement that counts closes the attempt it is for.
LEMMA SettledRow ==
  ASSUME NEW r, RowOK(r), r.status = "processing", NEW o \in Outcomes,
         o = "retry" => Len(r.log) < RetryLimit
  PROVE  LET s == [r EXCEPT !.status = IF o = "retry" THEN "pending" ELSE o,
                            !.lease = "none", !.leaseExpired = FALSE, !.log = Close(r, o)]
         IN  /\ RowOK(s) /\ RowStep(r, s)
             /\ s.status \in Sent => o = "sent"
             /\ Len(s.log) = Len(r.log)
<1> DEFINE s == [r EXCEPT !.status = IF o = "retry" THEN "pending" ELSE o,
                          !.lease = "none", !.leaseExpired = FALSE, !.log = Close(r, o)]
<1>1. r \in JobRow /\ Len(r.log) > 0 /\ o \in Results
  BY DEF RowOK, Ledger, Results
<1>2. Close(r, o) \in Seq(Results) /\ Len(Close(r, o)) = Len(r.log)
  BY <1>1, CloseLog
<1>3. /\ s \in JobRow /\ s.status = (IF o = "retry" THEN "pending" ELSE o) /\ s.lease = "none"
      /\ s.inv = r.inv /\ s.gen = r.gen /\ s.log = Close(r, o)
  BY <1>1, <1>2 DEF JobRow, JobStatuses, Sent, Results, Outcomes
<1>4. s.status \in Sent => o = "sent"
  BY <1>3 DEF Sent, Outcomes
<1> HIDE DEF s
<1>5. RowOK(s) /\ RowStep(r, s)
  BY <1>1, <1>3, ClosedRow DEF Outcomes
<1>6. Len(s.log) = Len(r.log)
  BY <1>2, <1>3
<1>7. QED
  BY <1>4, <1>5, <1>6 DEF s

LEMMA CompleteInv ==
  ASSUME IInv, NEW j \in DOMAIN jobs, NEW n \in Nat, NEW o \in Outcomes,
         o = "retry" => n < RetryLimit, o = "sent" => <<j, n>> \in mail,
         Complete(j, n, o), UNCHANGED <<mail, seen, rot, hook>>
  PROVE  JobsInv' /\ JobsStep /\ InvsInv' /\ MailInv' /\ RotInv' /\ HookInv' /\ SentMailed'
<1>1. CASE Current(j, n)
  <2> DEFINE r == jobs[j]
             s == [r EXCEPT !.status = IF o = "retry" THEN "pending" ELSE o,
                            !.lease = "none", !.leaseExpired = FALSE, !.log = Close(r, o)]
  <2>1. /\ Unlocked(r.inv) /\ jobs' = [jobs EXCEPT ![j] = s]
        /\ inv' = [inv EXCEPT ![r.inv].delivery = Shown(o)]
    BY <1>1 DEF Complete
  <2>2. RowOK(r) /\ r \in JobRow
    BY JobsDomain DEF IInv
  <2>3. /\ RowOK(s) /\ RowStep(r, s)
        /\ s.status \in Sent => o = "sent"
        /\ Len(s.log) = n
    BY <1>1, <2>2, SettledRow DEF Current, Count
  <2> HIDE DEF s
  <2>4. JobsInv' /\ JobsStep
    BY <2>1, <2>3, OneJob DEF IInv
  <2>5. \A k \in DOMAIN jobs' : k \in DOMAIN jobs /\ jobs'[k] = IF k = j THEN s ELSE jobs[k]
    BY <2>1
  <2>6. InvsInv'
    <3>1. Shown(o) \in Projections
      BY DEF Shown, Projections, Outcomes
    <3>2. \A x \in InvRow : [x EXCEPT !.delivery = Shown(o)] \in InvRow
      BY <3>1 DEF InvRow
    <3>3. inv[r.inv] \in InvRow
      BY <2>2 DEF IInv, InvsInv, JobRow
    <3>4. QED
      BY <2>1, <3>2, <3>3 DEF IInv, InvsInv
  <2>7. RotInv'
    <3>1. \A i \in Invitations : j \notin rot[i].recovered
      BY <2>1 DEF IInv, RotInv, JobsOf, Unlocked
    <3>2. QED
      BY <2>4, <2>5, <3>1, RotKept DEF IInv, JobsStep
  <2>8. SentMailed'
    BY <2>3, <2>4, <2>5, SentMailedKept DEF IInv
  <2>9. QED
    BY <2>4, <2>6, <2>7, <2>8, MailKept, HookKept DEF IInv
<1>2. CASE ~Current(j, n)
  <2>1. UNCHANGED <<inv, jobs>>
    BY <1>2 DEF Complete
  <2>2. QED
    BY <2>1, StillRows, MailKept, HookKept DEF IInv, InvsInv
<1>3. QED
  BY <1>1, <1>2

\* The attempt a worker has in hand is still there after the step.
LEMMA TaskMade ==
  ASSUME JobsInv, JobsInv', JobsStep, TaskInv
  PROVE  \A v \in Workers : task[v] # None =>
           task[v].job \in DOMAIN jobs' /\ task[v].attempt <= Len(jobs'[task[v].job].log)
<1> SUFFICES ASSUME NEW v \in Workers, task[v] # None
             PROVE  task[v].job \in DOMAIN jobs' /\ task[v].attempt <= Len(jobs'[task[v].job].log)
  OBVIOUS
<1>1. PICK j, n : j = task[v].job /\ n = task[v].attempt
  OBVIOUS
<1>2. n \in Nat /\ Made(j, n)
  <2>1. task[v] \in Task /\ Made(task[v].job, task[v].attempt)
    BY DEF TaskInv
  <2>2. task[v].attempt \in Nat
    BY <2>1 DEF Task, Attempts
  <2>3. QED
    BY <1>1, <2>1, <2>2
<1>3. Made(j, n)'
  BY <1>2, MadeKept
<1>4. QED
  BY <1>1, <1>3 DEF Made, Count

LEMMA SettleInv ==
  ASSUME IInv, NEW w \in Workers, Settle(w)
  PROVE  IInv' /\ JobsStep
<1>1. /\ task[w] # None /\ task[w].step \in Outcomes
      /\ Complete(task[w].job, task[w].attempt, task[w].step)
      /\ task' = [task EXCEPT ![w] = None] /\ UNCHANGED <<held, mail, seen, rot, hook>>
  BY DEF Settle
<1>2. /\ task[w].job \in DOMAIN jobs /\ task[w].attempt \in Nat
      /\ task[w].step = "retry" => task[w].attempt < RetryLimit
      /\ task[w].step = "sent" => <<task[w].job, task[w].attempt>> \in mail
  BY <1>1 DEF IInv, TaskInv, Task, Attempts, Made
<1>3. JobsInv' /\ JobsStep /\ InvsInv' /\ MailInv' /\ RotInv' /\ HookInv' /\ SentMailed'
  BY <1>1, <1>2, CompleteInv
<1>4. TaskInv'
  <2>2. \A v \in Workers : task[v] # None =>
          task[v].job \in DOMAIN jobs' /\ task[v].attempt <= Len(jobs'[task[v].job].log)
    BY <1>3, TaskMade DEF IInv
  <2>3. \A v \in Workers : task'[v] = task[v] \/ task'[v] = None
    BY <1>1 DEF IInv, TaskInv
  <2>4. task' \in [Workers -> Task \cup {None}]
    BY <1>1 DEF IInv, TaskInv
  <2>5. QED
    BY <1>1, <2>2, <2>3, <2>4 DEF IInv, TaskInv, Made, Count
<1>5. QED
  BY <1>1, <1>3, <1>4, HeldKept DEF IInv

LEMMA CancelFailsInv ==
  ASSUME IInv, NEW w \in Workers, CancelFails(w)
  PROVE  IInv' /\ JobsStep
<1>1. /\ task[w] # None
      /\ Complete(task[w].job, task[w].attempt, "cancelled") \/ UNCHANGED <<inv, jobs>>
      /\ task' = [task EXCEPT ![w].step = "dead_letter"]
      /\ UNCHANGED <<held, mail, seen, rot, hook>>
  BY DEF CancelFails
<1>2. task[w] \in Task /\ task[w].job \in DOMAIN jobs /\ task[w].attempt \in Nat
  <2>1. task[w] \in Task /\ task[w].job \in DOMAIN jobs
    BY <1>1 DEF IInv, TaskInv, Made
  <2>2. QED
    BY <2>1 DEF Task, Attempts
<1>3. JobsInv' /\ JobsStep /\ InvsInv' /\ MailInv' /\ RotInv' /\ HookInv' /\ SentMailed'
  <2>1. CASE Complete(task[w].job, task[w].attempt, "cancelled")
    BY <1>1, <1>2, <2>1, CompleteInv DEF Outcomes
  <2>2. CASE UNCHANGED <<inv, jobs>>
    BY <1>1, <2>2, StillRows, MailKept, HookKept DEF IInv, InvsInv
  <2>3. QED
    BY <1>1, <2>1, <2>2
<1>4. TaskInv'
  <2> DEFINE t == [task[w] EXCEPT !.step = "dead_letter"]
  <2>1. /\ t \in Task /\ t.job = task[w].job /\ t.attempt = task[w].attempt
        /\ t.step = "dead_letter"
    BY <1>2 DEF Task, Outcomes
  <2> HIDE DEF t
  <2>2. task' = [task EXCEPT ![w] = t]
    BY <1>1 DEF t
  <2>3. task' \in [Workers -> Task \cup {None}]
    BY <2>1, <2>2 DEF IInv, TaskInv
  <2>4. \A v \in Workers : task[v] # None =>
          task[v].job \in DOMAIN jobs' /\ task[v].attempt <= Len(jobs'[task[v].job].log)
    BY <1>3, TaskMade DEF IInv
  <2>5. \A v \in Workers : task'[v] = IF v = w THEN t ELSE task[v]
    BY <2>2 DEF IInv, TaskInv
  <2>6. QED
    BY <1>1, <2>1, <2>3, <2>4, <2>5 DEF IInv, TaskInv, Made, Count
<1>5. QED
  BY <1>1, <1>3, <1>4, HeldKept DEF IInv

LEMMA CrashInv ==
  ASSUME IInv, NEW w \in Workers, Crash(w)
  PROVE  IInv' /\ JobsStep
<1>1. /\ held' = [held EXCEPT ![w] = {}] /\ task' = [task EXCEPT ![w] = None]
      /\ UNCHANGED <<inv, jobs, mail, seen, rot, hook>>
  BY DEF Crash
<1>2. HeldInv' /\ TaskInv'
  BY <1>1 DEF IInv, HeldInv, TaskInv, Made, Count
<1>3. QED
  BY <1>1, <1>2, StillRows, MailKept, HookKept DEF IInv, InvsInv

LEMMA LapseInv ==
  ASSUME IInv, NEW j \in DOMAIN jobs, Lapse(j)
  PROVE  IInv' /\ JobsStep
<1> DEFINE r == [jobs[j] EXCEPT !.lease = "lapsed"]
<1>1. /\ jobs[j].lease = "live" /\ jobs' = [jobs EXCEPT ![j] = r]
      /\ UNCHANGED <<inv, held, task, mail, seen, rot, hook>>
  BY DEF Lapse
<1>2. /\ RowOK(r) /\ RowStep(jobs[j], r)
      /\ r.status = jobs[j].status
  BY <1>1, LapsedRow, JobsDomain DEF IInv, JobRow
<1> HIDE DEF r
<1>3. JobsInv' /\ JobsStep
  BY <1>1, <1>2, OneJob DEF IInv
<1>4. \A k \in DOMAIN jobs' : k \in DOMAIN jobs /\ jobs'[k] = IF k = j THEN r ELSE jobs[k]
  BY <1>1
<1>5. RotInv'
  <2>1. \A i \in Invitations : j \notin rot[i].recovered
    BY <1>1 DEF IInv, RotInv
  <2>2. QED
    BY <1>1, <1>3, <1>4, <2>1, RotKept DEF IInv, JobsStep
<1>6. SentMailed'
  BY <1>1, <1>2, <1>3, <1>4, SentMailedKept DEF IInv
<1>7. QED
  BY <1>1, <1>3, <1>5, <1>6, HeldKept, TaskKept, MailKept, HookKept DEF IInv, InvsInv

--------------------------------------------------------------------------------
(* Steps of the provider and its webhooks *)

LEMMA EventUnknownInv ==
  ASSUME IInv, NEW m \in mail, NEW e \in EventTypes, EventUnknown(m[1], m[2], e)
  PROVE  IInv' /\ JobsStep
<1>1. /\ seen' = seen \cup {<<m[1], m[2], e>>}
      /\ UNCHANGED <<inv, jobs, held, task, mail, rot, hook>>
  BY DEF EventUnknown
<1>2. MailInv'
  BY <1>1 DEF IInv, MailInv, Hold
<1>3. QED
  BY <1>1, <1>2, StillRows, HeldKept, TaskKept, HookKept DEF IInv, InvsInv

LEMMA EventStartInv ==
  ASSUME IInv, NEW m \in mail, NEW e \in EventTypes, EventStart(m[1], m[2], e)
  PROVE  IInv' /\ JobsStep
<1>1. /\ Known(m[1], m[2])
      /\ hook' = hook \cup {[job |-> m[1], attempt |-> m[2], event |-> e, latest |-> Latest(m[1])]}
      /\ UNCHANGED <<inv, jobs, held, task, mail, seen, rot>>
  BY DEF EventStart
<1>2. m[1] \in DOMAIN jobs /\ m[1] \in JobIds /\ m[2] \in Attempts
  BY DEF IInv, MailInv, Hold
<1>3. jobs[m[1]].status \in Sent
  BY <1>1, <1>2, JobsDomain DEF IInv, RowOK, Ledger, Known, Count, Attempts
<1>4. Latest(m[1]) \in BOOLEAN
  BY DEF Latest
<1>5. HookInv'
  BY <1>1, <1>2, <1>3, <1>4 DEF IInv, HookInv, Hook
<1>6. QED
  BY <1>1, <1>5, StillRows, HeldKept, TaskKept, MailKept DEF IInv, InvsInv

LEMMA EventFinishInv ==
  ASSUME IInv, NEW h \in hook, EventFinish(h)
  PROVE  IInv' /\ JobsStep
<1> DEFINE j == h.job
           r == [jobs[j] EXCEPT !.status = Reconciled(jobs[j].status, h.event)]
<1>1. /\ j \in DOMAIN jobs /\ j \in JobIds /\ jobs[j].status \in Sent
      /\ h.attempt \in Attempts /\ h.event \in EventTypes
  BY DEF IInv, HookInv, Hook
<1>2. /\ jobs' = [jobs EXCEPT ![j] = r]
      /\ seen' = seen \cup {<<j, h.attempt, h.event>>}
      /\ hook' = hook \ {h}
      /\ UNCHANGED <<held, task, mail, rot>>
  BY DEF EventFinish
<1>3. RowOK(r) /\ RowStep(jobs[j], r) /\ r.log = jobs[j].log
  BY <1>1, ReportedRow, JobsDomain DEF IInv, JobRow
<1>4. InvsInv'
  <2>1. jobs[j].inv \in Invitations
    BY <1>1, JobsDomain DEF IInv, JobRow
  <2>2. \A d \in Projections : \A x \in InvRow : [x EXCEPT !.delivery = d] \in InvRow
    BY DEF InvRow
  <2>3. \/ inv' = inv
        \/ \E d \in Projections : inv' = [inv EXCEPT ![jobs[j].inv].delivery = d]
    BY DEF EventFinish, Projections
  <2>4. QED
    <3>1. CASE inv' = inv
      BY <3>1 DEF IInv, InvsInv
    <3>2. CASE \E d \in Projections : inv' = [inv EXCEPT ![jobs[j].inv].delivery = d]
      <4>1. PICK d \in Projections : inv' = [inv EXCEPT ![jobs[j].inv].delivery = d]
        BY <3>2
      <4>2. [inv[jobs[j].inv] EXCEPT !.delivery = d] \in InvRow
        BY <2>1, <2>2 DEF IInv, InvsInv
      <4>3. QED
        BY <2>1, <4>1, <4>2 DEF IInv, InvsInv
    <3>3. QED
      BY <2>3, <3>1, <3>2
<1> HIDE DEF r
<1>5. JobsInv' /\ JobsStep
  BY <1>1, <1>2, <1>3, OneJob DEF IInv
<1>6. \A k \in DOMAIN jobs' : k \in DOMAIN jobs /\ jobs'[k] = IF k = j THEN r ELSE jobs[k]
  BY <1>2
<1>7. RotInv'
  <2>1. \A i \in Invitations : j \notin rot[i].recovered
    BY <1>1 DEF IInv, RotInv, Sent
  <2>2. QED
    BY <1>2, <1>5, <1>6, <2>1, RotKept DEF IInv, JobsStep
<1>8. SentMailed'
  BY <1>1, <1>2, <1>5, <1>6, SentMailedKept DEF IInv
<1>9. HookInv'
  <2>1. hook' \subseteq hook
    BY <1>2
  <2>2. QED
    BY <1>5, <2>1, SentKept DEF IInv, HookInv
<1>10. MailInv'
  BY <1>1, <1>2, <1>5 DEF IInv, MailInv, JobsStep
<1>11. QED
  BY <1>2, <1>4, <1>5, <1>7, <1>8, <1>9, <1>10, HeldKept, TaskKept DEF IInv

--------------------------------------------------------------------------------
(* The theorems *)

LEMMA InitInv == Init => IInv
<1> SUFFICES ASSUME Init
             PROVE  IInv
  OBVIOUS
<1>1. jobs = <<>> /\ jobs \in Seq(JobRow) /\ Len(jobs) = 0 /\ DOMAIN jobs = {}
  <2>1. jobs = <<>>
    BY DEF Init
  <2>2. <<>> \in Seq(JobRow) /\ Len(<<>>) = 0
    BY EmptySeq
  <2>3. QED
    BY <2>1, <2>2, LenProperties
<1>2. JobsInv /\ SentMailed
  BY <1>1, MaxJobsAssumption DEF JobsInv, SentMailed
<1>3. InvsInv
  BY DEF Init, InvsInv, InvRow, InvStatuses, Projections
<1>4. HeldInv /\ TaskInv /\ MailInv /\ HookInv
  BY DEF Init, HeldInv, TaskInv, MailInv, HookInv
<1>5. RotInv
  BY DEF Init, RotInv, Rotation, Idle
<1>6. QED
  BY <1>2, <1>3, <1>4, <1>5 DEF IInv

LEMMA NextInv == IInv /\ [Next]_vars => IInv' /\ JobsStep
<1> SUFFICES ASSUME IInv, [Next]_vars
             PROVE  IInv' /\ JobsStep
  OBVIOUS
<1>1. ASSUME NEW i \in Invitations, InvitationStep(i)
      PROVE  IInv' /\ JobsStep
  BY <1>1, CreateInv, ReserveInv, TerminateInv, RotateCheckInv, RotateFinishInv, RotateAbortInv
  DEF InvitationStep
<1>2. ASSUME NEW w \in Workers, WorkerStep(w)
      PROVE  IInv' /\ JobsStep
  BY <1>2, ClaimInv, ResolveInv, SendInv, SettleInv, CancelFailsInv, CrashInv DEF WorkerStep
<1>3. ASSUME NEW j \in DOMAIN jobs, Lapse(j)
      PROVE  IInv' /\ JobsStep
  BY <1>3, LapseInv
<1>4. CASE ProviderStep
  BY <1>4, EventUnknownInv, EventStartInv, EventFinishInv DEF ProviderStep
<1>5. CASE UNCHANGED vars
  BY <1>5, StillRows, HeldKept, TaskKept, MailKept, HookKept DEF vars, IInv, InvsInv
<1>6. QED
  BY <1>1, <1>2, <1>3, <1>4, <1>5 DEF Next

LEMMA Invariance == Spec => []IInv
<1>1. IInv /\ [Next]_vars => IInv'
  BY NextInv
<1>2. QED
  BY InitInv, <1>1, PTL DEF Spec

\* Every variable of the outbox keeps to its kind, with any number of
\* invitations, workers, jobs and attempts.
THEOREM OutboxTypes == Spec => []TypeOK
<1>1. IInv => TypeOK
  BY IInvImplies
<1>2. QED
  BY Invariance, <1>1, PTL

\* The attempt history of every job agrees with the job's status, and a waiting
\* job has an attempt left: no order of claims, lapses, late settlements and
\* resends strands a job or leaves two attempts open.
THEOREM LedgerHolds == Spec => []AttemptLedger
<1>1. IInv => AttemptLedger
  BY IInvImplies
<1>2. QED
  BY Invariance, <1>1, PTL

\* Jobs only move forward: what ended stays ended, and reports of the provider
\* that come in any order never undo a bounce or a complaint.
THEOREM JobsMoveForward == Spec => StatusOrder
<1>1. IInv /\ [Next]_vars =>
        [\A j \in DOMAIN jobs : jobs'[j].status \in Forward[jobs[j].status]]_vars
  BY NextInv DEF JobsStep, RowStep
<1>2. QED
  BY Invariance, <1>1, PTL DEF Spec, StatusOrder

\* The recorded result of an attempt is permanent: a worker whose lease was taken
\* away cannot rewrite it, whenever its settlement arrives.
THEOREM AttemptsArePermanent == Spec => AttemptsFinal
<1>1. IInv /\ [Next]_vars =>
        [\A j \in DOMAIN jobs : \A n \in DOMAIN jobs[j].log :
           jobs[j].log[n] # "processing" =>
             n \in DOMAIN jobs'[j].log /\ jobs'[j].log[n] = jobs[j].log[n]]_vars
  BY NextInv DEF JobsStep, RowStep, ClosedKept
<1>2. QED
  BY Invariance, <1>1, PTL DEF Spec, AttemptsFinal

--------------------------------------------------------------------------------
(* Who holds an attempt *)

\* What a worker holds has been made.
LEMMA HoldsMade ==
  ASSUME IInv, NEW w \in Workers, NEW h \in Holds(w)
  PROVE  h[1] \in DOMAIN jobs /\ h[2] <= Len(jobs[h[1]].log)
<1>1. CASE h \in held[w]
  BY <1>1 DEF IInv, HeldInv, Made, Count
<1>2. CASE h \notin held[w]
  <2>1. task[w] # None /\ h = <<task[w].job, task[w].attempt>>
    BY <1>2 DEF Holds
  <2>2. QED
    BY <2>1 DEF IInv, TaskInv, Made, Count
<1>3. QED
  BY <1>1, <1>2

\* Workers that come to hold nothing new do not come to share anything.
LEMMA HoldsShrink ==
  ASSUME OneHolder,
         \A w \in Workers : Holds(w)' \subseteq Holds(w),
         \A w \in Workers : task'[w] # None => <<task'[w].job, task'[w].attempt>> \notin held'[w]
  PROVE  OneHolder'
<1>1. ASSUME NEW v \in Workers, NEW w \in Workers, v # w
      PROVE  Holds(v)' \cap Holds(w)' = {}
  <2>1. Holds(v) \cap Holds(w) = {}
    BY <1>1 DEF OneHolder
  <2>2. Holds(v)' \subseteq Holds(v) /\ Holds(w)' \subseteq Holds(w)
    OBVIOUS
  <2>3. QED
    BY <2>1, <2>2
<1>2. QED
  BY <1>1 DEF OneHolder

LEMMA ClaimHolder ==
  ASSUME IInv, OneHolder, NEW w \in Workers, NEW batch, Claim(w, batch)
  PROVE  OneHolder'
<1> DEFINE taken == {<<j, Len(jobs'[j].log)>> : j \in batch}
<1>1. /\ batch \subseteq DOMAIN jobs /\ batch \subseteq Eligible
      /\ jobs' = [j \in DOMAIN jobs |-> IF j \in batch THEN Leased(Swept(j)) ELSE Swept(j)]
      /\ held' = [held EXCEPT ![w] = taken]
      /\ held[w] = {} /\ task[w] = None /\ UNCHANGED task
  BY DEF Claim, Eligible
<1>2. \A h \in taken : ~(h[1] \in DOMAIN jobs /\ h[2] <= Len(jobs[h[1]].log))
  <2> SUFFICES ASSUME NEW j \in batch
               PROVE  ~(Len(jobs'[j].log) <= Len(jobs[j].log))
    OBVIOUS
  <2>1. j \in DOMAIN jobs /\ j \in Eligible
    BY <1>1
  <2>2. Len(jobs'[j].log) = Len(Swept(j).log) + 1
    BY <1>1, <2>1, ClaimedRow DEF IInv
  <2>3. Len(jobs[j].log) <= Len(Swept(j).log) /\ RowOK(Swept(j))
    BY <2>1, SweptRow DEF IInv, RowStep
  <2>4. Len(jobs[j].log) \in Nat /\ Len(Swept(j).log) \in Nat
    BY <2>1, <2>3, JobsDomain, LenProperties DEF IInv, RowOK, JobRow
  <2>5. QED
    BY <2>2, <2>3, <2>4
<1> HIDE DEF taken
<1>3. \A v \in Workers : Holds(v)' = IF v = w THEN taken ELSE Holds(v)
  BY <1>1 DEF Holds, IInv, HeldInv
<1>4. \A v \in Workers : taken \cap Holds(v) = {}
  BY <1>2, HoldsMade
<1>5. \A u, v \in Workers : u # v => Holds(u)' \cap Holds(v)' = {}
  BY <1>3, <1>4 DEF OneHolder
<1>6. \A v \in Workers : task'[v] # None => <<task'[v].job, task'[v].attempt>> \notin held'[v]
  BY <1>1 DEF OneHolder, IInv, HeldInv
<1>7. QED
  BY <1>5, <1>6 DEF OneHolder

LEMMA ResolveHolder ==
  ASSUME IInv, OneHolder, NEW w \in Workers, NEW h \in held[w], Resolve(w, h)
  PROVE  OneHolder'
<1>1. PICK step \in {"sending", "cancelled", "dead_letter"} :
        task' = [task EXCEPT ![w] = [job |-> h[1], attempt |-> h[2], step |-> step]]
  BY DEF Resolve
<1>2. held' = [held EXCEPT ![w] = held[w] \ {h}]
  BY DEF Resolve
<1>3. h = <<h[1], h[2]>>
  BY DEF IInv, HeldInv, Hold
<1> DEFINE t == [job |-> h[1], attempt |-> h[2], step |-> step]
<1>4. <<t.job, t.attempt>> = h
  BY <1>3
<1> HIDE DEF t
<1>5. \A v \in Workers : /\ held'[v] = IF v = w THEN held[v] \ {h} ELSE held[v]
                         /\ task'[v] = IF v = w THEN t ELSE task[v]
  BY <1>1, <1>2 DEF IInv, HeldInv, TaskInv, t
<1>6. \A v \in Workers : Holds(v)' \subseteq Holds(v)
  BY <1>4, <1>5 DEF Holds
<1>7. \A v \in Workers : task'[v] # None => <<task'[v].job, task'[v].attempt>> \notin held'[v]
  BY <1>4, <1>5 DEF OneHolder
<1>8. QED
  BY <1>6, <1>7, HoldsShrink

LEMMA TaskHolder ==
  ASSUME IInv, OneHolder, NEW w \in Workers, Send(w) \/ CancelFails(w)
  PROVE  OneHolder'
<1>1. PICK s : task' = [task EXCEPT ![w].step = s]
  BY DEF Send, CancelFails
<1>2. task[w] # None /\ UNCHANGED held
  BY DEF Send, CancelFails
<1>3. task[w] \in Task
  BY <1>2 DEF IInv, TaskInv
<1>4. \A v \in Workers : task'[v] # None =>
        task[v] # None /\ task'[v].job = task[v].job /\ task'[v].attempt = task[v].attempt
  BY <1>1, <1>2, <1>3 DEF IInv, TaskInv, Task
<1>5. \A v \in Workers : Holds(v)' \subseteq Holds(v)
  BY <1>2, <1>4 DEF Holds
<1>6. \A v \in Workers : task'[v] # None => <<task'[v].job, task'[v].attempt>> \notin held'[v]
  BY <1>2, <1>4 DEF OneHolder
<1>7. QED
  BY <1>5, <1>6, HoldsShrink

LEMMA DropHolder ==
  ASSUME IInv, OneHolder, NEW w \in Workers, Settle(w) \/ Crash(w)
  PROVE  OneHolder'
<1>1. \A v \in Workers : held'[v] \subseteq held[v] /\ task'[v] \in {task[v], None}
  BY DEF Settle, Crash, IInv, HeldInv, TaskInv
<1>2. \A v \in Workers : Holds(v)' \subseteq Holds(v)
  BY <1>1 DEF Holds
<1>3. \A v \in Workers : task'[v] # None => <<task'[v].job, task'[v].attempt>> \notin held'[v]
  BY <1>1 DEF OneHolder
<1>4. QED
  BY <1>2, <1>3, HoldsShrink

LEMMA StillHolder ==
  ASSUME OneHolder, UNCHANGED <<held, task>>
  PROVE  OneHolder'
  BY DEF OneHolder, Holds

LEMMA HolderStep == IInv /\ OneHolder /\ [Next]_vars => OneHolder'
<1> SUFFICES ASSUME IInv, OneHolder, [Next]_vars
             PROVE  OneHolder'
  OBVIOUS
<1>1. ASSUME NEW w \in Workers, WorkerStep(w)
      PROVE  OneHolder'
  BY <1>1, ClaimHolder, ResolveHolder, TaskHolder, DropHolder DEF WorkerStep
<1>2. ASSUME NEW i \in Invitations, InvitationStep(i)
      PROVE  UNCHANGED <<held, task>>
  BY <1>2 DEF InvitationStep, Create, Reserve, Elapse, Terminate, RotateCheck, RotateFinish, RotateAbort
<1>3. CASE \E j \in DOMAIN jobs : Lapse(j)
  BY <1>3, StillHolder DEF Lapse
<1>4. CASE ProviderStep
  BY <1>4, StillHolder DEF ProviderStep, EventUnknown, EventStart, EventFinish
<1>5. CASE UNCHANGED vars
  BY <1>5, StillHolder DEF vars
<1>6. QED
  BY <1>1, <1>2, <1>3, <1>4, <1>5, StillHolder DEF Next

\* No attempt of a job is in two hands, with any number of workers, crashes,
\* lapses and retries: a claim always begins an attempt that nobody holds.
THEOREM HoldersAreAlone == Spec => []OneHolder
<1>1. Init => OneHolder
  BY DEF Init, OneHolder, Holds
<1>2. IInv /\ OneHolder /\ [Next]_vars => OneHolder'
  BY HolderStep
<1>3. QED
  BY Invariance, <1>1, <1>2, PTL DEF Spec

--------------------------------------------------------------------------------
(* What an invitation shows *)

Ended == {"dead_letter", "cancelled", "bounced", "complained"}

\* A step that leaves what an invitation shows, resets it, or shows what one of
\* its jobs now is.
LEMMA ProjectionKept ==
  ASSUME ProjectionIsReal, JobsStep, mail \subseteq mail', MailInv,
         \A i \in Invitations :
           \/ inv'[i].delivery \in {inv[i].delivery, "pending"}
           \/ /\ inv'[i].delivery \in {"sent", "delivered"}
              /\ \E m \in mail' : /\ m[1] \in DOMAIN jobs' /\ jobs'[m[1]].inv = i
                                  /\ jobs'[m[1]].status \in Sent
           \/ /\ inv'[i].delivery = "failed"
              /\ \E j \in DOMAIN jobs' : jobs'[j].inv = i /\ jobs'[j].status \in Ended
  PROVE  ProjectionIsReal'
<1>1. ASSUME NEW i \in Invitations, NEW j \in JobsOf(i)
      PROVE  /\ j \in DOMAIN jobs' /\ jobs'[j].inv = i
             /\ jobs[j].status \in Sent => jobs'[j].status \in Sent
             /\ jobs[j].status \in Ended => jobs'[j].status \in Ended
  BY DEF JobsOf, JobsStep, RowStep, Forward, Sent, Ended
<1>2. ASSUME NEW i \in Invitations, inv'[i].delivery \in {"sent", "delivered"}
      PROVE  \E m \in mail' : /\ m[1] \in DOMAIN jobs' /\ jobs'[m[1]].inv = i
                              /\ jobs'[m[1]].status \in Sent
  BY <1>1, <1>2 DEF ProjectionIsReal
<1>3. ASSUME NEW i \in Invitations, inv'[i].delivery = "failed"
      PROVE  \E j \in DOMAIN jobs' : jobs'[j].inv = i /\ jobs'[j].status \in Ended
  BY <1>1, <1>3 DEF ProjectionIsReal, Ended
<1>4. QED
  BY <1>2, <1>3 DEF ProjectionIsReal, JobsOf, Ended

LEMMA InvitationProjection ==
  ASSUME IInv, ProjectionIsReal, NEW i \in Invitations, InvitationStep(i)
  PROVE  ProjectionIsReal'
<1>1. JobsStep
  BY CreateInv, ReserveInv, TerminateInv, RotateCheckInv, RotateFinishInv, RotateAbortInv
  DEF InvitationStep
<1>2. mail' = mail
  BY DEF InvitationStep, Create, Reserve, Elapse, Terminate, RotateCheck, RotateFinish, RotateAbort
<1>3. \A k \in Invitations : inv'[k].delivery \in {inv[k].delivery, "pending"}
  <2> USE DEF IInv, InvsInv, InvRow
  <2>1. CASE Create(i)
    BY <2>1 DEF Create
  <2>2. CASE Reserve(i) \/ Elapse(i) \/ \E s \in {"accepted", "cancelled", "expired"} : Terminate(i, s)
    BY <2>2 DEF Reserve, Elapse, Terminate
  <2>3. CASE RotateCheck(i) \/ RotateAbort(i)
    BY <2>3 DEF RotateCheck, RotateAbort
  <2>4. CASE RotateFinish(i)
    <3>1. inv' = [inv EXCEPT ![i] = [inv[i] EXCEPT !.gen = inv[i].gen + 1, !.delivery = "pending"]]
      BY <2>4 DEF RotateFinish
    <3> DEFINE r == [inv[i] EXCEPT !.gen = inv[i].gen + 1, !.delivery = "pending"]
    <3>2. r.delivery = "pending"
      OBVIOUS
    <3> HIDE DEF r
    <3>3. QED
      BY <3>1, <3>2 DEF r
  <2>5. QED
    BY <2>1, <2>2, <2>3, <2>4 DEF InvitationStep
<1>4. QED
  BY <1>1, <1>2, <1>3, ProjectionKept DEF IInv

LEMMA ClaimProjection ==
  ASSUME IInv, ProjectionIsReal, NEW w \in Workers, NEW batch, Claim(w, batch)
  PROVE  ProjectionIsReal'
<1>1. JobsStep /\ mail' = mail
  BY ClaimInv DEF Claim
<1>2. /\ inv' = [i \in Invitations |->
           IF i \in Buried THEN [inv[i] EXCEPT !.delivery = "failed"] ELSE inv[i]]
      /\ jobs' = [j \in DOMAIN jobs |-> IF j \in batch THEN Leased(Swept(j)) ELSE Swept(j)]
      /\ batch \subseteq Eligible
  BY DEF Claim
<1>3. ASSUME NEW i \in Invitations, i \in Buried
      PROVE  /\ inv'[i].delivery = "failed"
             /\ \E j \in DOMAIN jobs' : jobs'[j].inv = i /\ jobs'[j].status \in Ended
  <2>1. inv'[i].delivery = "failed"
    BY <1>2, <1>3 DEF IInv, InvsInv, InvRow
  <2>2. PICK j \in JobsOf(i) : Swept(j).status = "dead_letter"
    BY <1>3 DEF Buried
  <2>3. j \in DOMAIN jobs /\ j \notin batch
    BY <1>2, <2>2 DEF JobsOf, Eligible
  <2>4. jobs'[j] = Swept(j) /\ j \in DOMAIN jobs'
    BY <1>2, <2>3
  <2>5. jobs'[j].inv = i
    BY <1>1, <2>2, <2>3 DEF JobsStep, RowStep, JobsOf
  <2>6. QED
    BY <2>1, <2>2, <2>4, <2>5 DEF Ended
<1>4. \A i \in Invitations : i \notin Buried => inv'[i].delivery = inv[i].delivery
  BY <1>2
<1>5. QED
  BY <1>1, <1>3, <1>4, ProjectionKept DEF IInv

LEMMA CompleteProjection ==
  ASSUME IInv, ProjectionIsReal, JobsStep, NEW w \in Workers, task[w] # None,
         NEW o \in Outcomes, Complete(task[w].job, task[w].attempt, o),
         o = "sent" => task[w].step = "sent", mail' = mail
  PROVE  ProjectionIsReal'
<1> DEFINE j == task[w].job
           n == task[w].attempt
           i == jobs[j].inv
<1>1. j \in DOMAIN jobs /\ (o = "sent" => <<j, n>> \in mail)
  BY DEF IInv, TaskInv, Made
<1>2. CASE Current(j, n)
  <2>1. inv' = [inv EXCEPT ![i].delivery = Shown(o)]
    BY <1>2 DEF Complete
  <2>2. /\ j \in DOMAIN jobs' /\ jobs'[j].inv = i
        /\ jobs'[j].status = IF o = "retry" THEN "pending" ELSE o
    <3>1. jobs' = [jobs EXCEPT ![j] = [jobs[j] EXCEPT
            !.status = IF o = "retry" THEN "pending" ELSE o,
            !.lease = "none", !.leaseExpired = FALSE, !.log = Close(jobs[j], o)]]
      BY <1>2 DEF Complete
    <3>2. jobs[j] \in JobRow
      BY <1>1, JobsDomain DEF IInv
    <3> DEFINE s == [jobs[j] EXCEPT
            !.status = IF o = "retry" THEN "pending" ELSE o,
            !.lease = "none", !.leaseExpired = FALSE, !.log = Close(jobs[j], o)]
    <3>3. s.inv = i /\ s.status = IF o = "retry" THEN "pending" ELSE o
      BY <3>2 DEF JobRow
    <3> HIDE DEF s
    <3>4. jobs'[j] = s /\ j \in DOMAIN jobs'
      BY <1>1, <3>1 DEF s
    <3>5. QED
      BY <3>3, <3>4
  <2>3. i \in Invitations
    BY <1>1, JobsDomain DEF IInv, JobRow
  <2>4. \A k \in Invitations : inv'[k].delivery = IF k = i THEN Shown(o) ELSE inv[k].delivery
    BY <2>1, <2>3 DEF IInv, InvsInv, InvRow
  <2>5. \/ Shown(o) = "pending"
        \/ Shown(o) = "sent" /\ jobs'[j].status \in Sent /\ <<j, n>> \in mail'
        \/ Shown(o) = "failed" /\ jobs'[j].status \in Ended
    BY <1>1, <2>2 DEF Shown, Outcomes, Sent, Ended
  <2>6. <<j, n>>[1] = j
    OBVIOUS
  <2>7. QED
    BY <2>2, <2>4, <2>5, <2>6, ProjectionKept DEF IInv
<1>3. CASE ~Current(j, n)
  <2>1. UNCHANGED inv
    BY <1>3 DEF Complete
  <2>2. QED
    BY <2>1, ProjectionKept DEF IInv
<1>4. QED
  BY <1>2, <1>3

LEMMA WorkerProjection ==
  ASSUME IInv, ProjectionIsReal, NEW w \in Workers, WorkerStep(w)
  PROVE  ProjectionIsReal'
<1>1. JobsStep
  BY ClaimInv, ResolveInv, SendInv, SettleInv, CancelFailsInv, CrashInv DEF WorkerStep
<1>2. CASE \E batch \in SUBSET DOMAIN jobs : Claim(w, batch)
  BY <1>2, ClaimProjection
<1>3. CASE (\E h \in held[w] : Resolve(w, h)) \/ Send(w) \/ Crash(w)
  <2>1. UNCHANGED inv /\ mail \subseteq mail'
    BY <1>3 DEF Resolve, Send, Crash
  <2>2. QED
    BY <1>1, <2>1, ProjectionKept DEF IInv
<1>4. CASE Settle(w)
  BY <1>1, <1>4, CompleteProjection DEF Settle
<1>5. CASE CancelFails(w)
  <2>1. task[w] # None /\ mail' = mail
    BY <1>5 DEF CancelFails
  <2>2. CASE Complete(task[w].job, task[w].attempt, "cancelled")
    BY <1>1, <2>1, <2>2, CompleteProjection DEF Outcomes
  <2>3. CASE UNCHANGED <<inv, jobs>>
    BY <1>1, <2>1, <2>3, ProjectionKept DEF IInv
  <2>4. QED
    BY <1>5, <2>2, <2>3 DEF CancelFails
<1>6. QED
  BY <1>2, <1>3, <1>4, <1>5 DEF WorkerStep

LEMMA EventProjection ==
  ASSUME IInv, ProjectionIsReal, NEW h \in hook, EventFinish(h)
  PROVE  ProjectionIsReal'
<1> DEFINE j == h.job
           i == jobs[j].inv
           status == Reconciled(jobs[j].status, h.event)
           n == Count(j)
<1>1. JobsStep /\ mail' = mail
  BY EventFinishInv DEF EventFinish
<1>2. j \in DOMAIN jobs /\ jobs[j].status \in Sent /\ <<j, n>> \in mail /\ i \in Invitations
  BY JobsDomain DEF IInv, HookInv, SentMailed, JobRow
<1>3. j \in DOMAIN jobs' /\ jobs'[j].inv = i /\ jobs'[j].status = status
  BY <1>1, <1>2, JobsDomain DEF EventFinish, JobsStep, RowStep, IInv, JobRow
<1>4. CASE inv' = inv
  BY <1>1, <1>4, ProjectionKept DEF IInv
<1>5. CASE inv' # inv
  <2>1. /\ status # jobs[j].status
        /\ inv' = [inv EXCEPT ![i].delivery = IF status = "delivered" THEN "delivered" ELSE "failed"]
    BY <1>5 DEF EventFinish
  <2>2. status = "delivered" \/ status \in Ended
    BY <2>1 DEF Reconciled, Ended
  <2> HIDE DEF status
  <2>3. \A k \in Invitations : inv'[k].delivery =
          IF k = i THEN IF status = "delivered" THEN "delivered" ELSE "failed" ELSE inv[k].delivery
    BY <1>2, <2>1 DEF IInv, InvsInv, InvRow
  <2>4. <<j, n>>[1] = j /\ <<j, n>> \in mail'
    BY <1>1, <1>2
  <2>5. QED
    BY <1>1, <1>3, <2>2, <2>3, <2>4, ProjectionKept DEF IInv, Sent
<1>6. QED
  BY <1>4, <1>5

LEMMA ProjectionStep == IInv /\ ProjectionIsReal /\ [Next]_vars => ProjectionIsReal'
<1> SUFFICES ASSUME IInv, ProjectionIsReal, [Next]_vars
             PROVE  ProjectionIsReal'
  OBVIOUS
<1>1. JobsStep
  BY NextInv
<1>2. ASSUME NEW j \in DOMAIN jobs, Lapse(j)
      PROVE  ProjectionIsReal'
  BY <1>1, <1>2, ProjectionKept DEF Lapse, IInv
<1>3. CASE ProviderStep
  <2>1. ASSUME NEW m \in mail, NEW e \in EventTypes,
               EventUnknown(m[1], m[2], e) \/ EventStart(m[1], m[2], e)
        PROVE  ProjectionIsReal'
    BY <1>1, <2>1, ProjectionKept DEF EventUnknown, EventStart, IInv
  <2>2. QED
    BY <1>3, <2>1, EventProjection DEF ProviderStep
<1>4. CASE UNCHANGED vars
  BY <1>1, <1>4, ProjectionKept DEF vars, IInv
<1>5. QED
  BY <1>2, <1>3, <1>4, InvitationProjection, WorkerProjection DEF Next

\* An invitation never shows a delivery or a failure that happened to none of its
\* messages, in whatever order settlements, sweeps, resends and reports come.
THEOREM ProjectionsAreReal == Spec => []ProjectionIsReal
<1>1. Init => ProjectionIsReal
  <2> SUFFICES ASSUME Init
               PROVE  ProjectionIsReal
    OBVIOUS
  <2>1. \A i \in Invitations : inv[i].delivery = "pending"
    BY DEF Init
  <2>2. QED
    BY <2>1 DEF ProjectionIsReal
<1>2. IInv /\ ProjectionIsReal /\ [Next]_vars => ProjectionIsReal'
  BY ProjectionStep
<1>3. QED
  BY Invariance, <1>1, <1>2, PTL DEF Spec
================================================================================
