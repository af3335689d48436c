------------------------------ MODULE EmailOutbox ------------------------------
(***************************************************************************)
(* The durable e-mail outbox of administrator invitations: the tables       *)
(* email_outbox, email_delivery_attempts and email_delivery_events, the     *)
(* delivery projection shown on an invitation, the SQL functions that write *)
(* them, the workers that claim, send and settle jobs, the provider, and    *)
(* its delivery webhooks.                                                   *)
(*                                                                         *)
(* Every SQL function is one transaction at READ COMMITTED.  Most are one   *)
(* step here: the row locks they take make them serial, or PostgreSQL       *)
(* aborts one of a deadlocked pair, which is as if it had not been called.  *)
(* Two read rows that they do not lock and write later, so they are two     *)
(* steps: the resend (it looks for a delivery in progress, then cancels and *)
(* rotates, holding the invitation's row) and the webhook (it looks whether *)
(* the job is the newest, then waits for the invitation's row).             *)
(*                                                                         *)
(* All invitations of an instance are for one address at one institution.   *)
(* The resend also compares updated_at with a value read before; that read  *)
(* may be as recent as one likes, so the comparison forbids no behaviour.   *)
(***************************************************************************)
EXTENDS Naturals, Sequences

CONSTANTS Invitations,  \* rows of platform_admin_invitations
          Workers,      \* processes that run process_once
          EventTypes,   \* kinds of webhook events the provider sends
          RetryLimit,   \* email_outbox_retry_limit
          MaxJobs,      \* bound: no more jobs are created than this
          None          \* a worker with no job in hand

ASSUME RetryLimitAssumption == RetryLimit \in Nat \ {0}
ASSUME MaxJobsAssumption == MaxJobs \in Nat

VARIABLES inv,    \* [Invitations -> row]
          jobs,   \* Seq(row of email_outbox); the index is delivery_sequence
          held,   \* [Workers -> set of claimed <<job, attempt>> not yet begun]
          task,   \* [Workers -> the job in hand, or None]
          mail,   \* <<job, attempt>> whose message the provider has accepted
          seen,   \* <<job, attempt, event>> stored in email_delivery_events
          rot,    \* [Invitations -> the resend in progress]
          hook    \* webhook transactions waiting to write

vars == <<inv, jobs, held, task, mail, seen, rot, hook>>

--------------------------------------------------------------------------------
(* Rows *)

InvStatuses == {"none", "invited", "accepted", "cancelled", "expired"}

Projections == {"pending", "sent", "delivered", "failed"}

Sent == {"sent", "delivered", "bounced", "complained"}

JobStatuses == Sent \cup {"pending", "processing", "dead_letter", "cancelled"}

Outcomes == {"sent", "retry", "dead_letter", "cancelled"}

JobIds == 1..MaxJobs

Attempts == 1..RetryLimit

\* gen stands for the token: token_hash of the row, protected_token of a job.
\* late: expires_at has passed.  reserved: acceptance_id is set.
InvRow == [status : InvStatuses, reserved : BOOLEAN, late : BOOLEAN,
           gen : Nat, delivery : Projections]

\* log holds the results of the rows of email_delivery_attempts of the job, so
\* its length is attempt_count.  lease: locked_at is null, recent, or older than
\* the lock time.  leaseExpired: last_error_category = 'WORKER_LEASE_EXPIRED'.
JobRow == [inv : Invitations, gen : Nat, status : JobStatuses,
           lease : {"none", "live", "lapsed"}, leaseExpired : BOOLEAN,
           log : Seq(Outcomes \cup {"processing"})]

Hold == JobIds \X Attempts

Task == [job : JobIds, attempt : Attempts, step : Outcomes \cup {"sending"}]

Rotation == [on : BOOLEAN, recovered : SUBSET JobIds]

Hook == [job : JobIds, attempt : Attempts, event : EventTypes, latest : BOOLEAN]

JobsOf(i) == {j \in DOMAIN jobs : jobs[j].inv = i}

Latest(j) == \A k \in DOMAIN jobs : jobs[k].inv = jobs[j].inv => k <= j

Count(j) == Len(jobs[j].log)

\* Closing the open attempt of a job row, and cancelling a job.
Close(row, result) == [row.log EXCEPT ![Len(row.log)] = result]

Cancel(row) == [row EXCEPT !.status = "cancelled", !.lease = "none",
                           !.leaseExpired = FALSE]

CancelPending(s, I) == [j \in DOMAIN s |->
  IF s[j].inv \in I /\ s[j].status = "pending" THEN Cancel(s[j]) ELSE s[j]]

NewJob(i, g) == [inv |-> i, gen |-> g, status |-> "pending", lease |-> "none",
                 leaseExpired |-> FALSE, log |-> <<>>]

Idle == [on |-> FALSE, recovered |-> {}]

Init ==
  /\ inv = [i \in Invitations |-> [status |-> "none", reserved |-> FALSE,
             late |-> FALSE, gen |-> 0, delivery |-> "pending"]]
  /\ jobs = <<>>
  /\ held = [w \in Workers |-> {}]
  /\ task = [w \in Workers |-> None]
  /\ mail = {} /\ seen = {} /\ hook = {}
  /\ rot = [i \in Invitations |-> Idle]

Unlocked(i) == ~rot[i].on

--------------------------------------------------------------------------------
(* Invitations *)

\* Elapsed invitations to the same address are closed first; the guard trigger
\* aborts that for a reserved one, the unique index for one still open.
Create(i) ==
  /\ inv[i].status = "none"
  /\ Len(jobs) < MaxJobs
  /\ \A k \in Invitations :
       inv[k].status = "invited" => inv[k].late /\ ~inv[k].reserved /\ Unlocked(k)
  /\ inv' = [k \in Invitations |->
       IF k = i THEN [inv[i] EXCEPT !.status = "invited", !.gen = 1]
       ELSE IF inv[k].status = "invited" THEN [inv[k] EXCEPT !.status = "expired"]
       ELSE inv[k]]
  /\ LET closed == {k \in Invitations : inv[k].status = "invited"}
     IN  jobs' = Append(CancelPending(jobs, closed), NewJob(i, 1))
  /\ UNCHANGED <<held, task, mail, seen, rot, hook>>

\* An acceptance reserves the invitation; from then on it cannot be resent.
Reserve(i) ==
  /\ inv[i].status = "invited" /\ ~inv[i].late /\ ~inv[i].reserved
  /\ Unlocked(i)
  /\ inv' = [inv EXCEPT ![i].reserved = TRUE]
  /\ UNCHANGED <<jobs, held, task, mail, seen, rot, hook>>

\* Accepted, cancelled or expired: the trigger cancels the pending jobs.
Terminate(i, status) ==
  /\ inv[i].status = "invited"
  /\ Unlocked(i)
  /\ status = "accepted" => inv[i].reserved /\ ~inv[i].late
  /\ status = "expired" => inv[i].late
  /\ inv' = [inv EXCEPT ![i].status = status]
  /\ jobs' = CancelPending(jobs, {i})
  /\ UNCHANGED <<held, task, mail, seen, rot, hook>>

Elapse(i) ==
  /\ inv[i].status = "invited" /\ ~inv[i].late
  /\ inv' = [inv EXCEPT ![i].late = TRUE]
  /\ UNCHANGED <<jobs, held, task, mail, seen, rot, hook>>

\* First half of a resend, up to the search for a delivery in progress.  The
\* abandoned leases it recovers stay locked, and unseen by others, to the end.
RotateCheck(i) ==
  LET abandoned == {j \in JobsOf(i) : jobs[j].status = "processing" /\ jobs[j].lease = "lapsed"}
  IN  /\ inv[i].status = "invited" /\ ~inv[i].late /\ ~inv[i].reserved
      /\ Unlocked(i)
      /\ Len(jobs) < MaxJobs
      /\ \A j \in JobsOf(i) \ abandoned : jobs[j].status # "processing"
      /\ rot' = [rot EXCEPT ![i] = [on |-> TRUE, recovered |-> abandoned]]
      /\ UNCHANGED <<inv, jobs, held, task, mail, seen, hook>>

\* Second half: cancel what is pending by now, rotate the token, queue a job.
\* The guard trigger aborts it when the invitation has elapsed meanwhile.
RotateFinish(i) ==
  LET recovered(j) == j \in rot[i].recovered
      row(j) == IF recovered(j) THEN Cancel([jobs[j] EXCEPT !.log = Close(jobs[j], "retry")])
                ELSE CancelPending(jobs, {i})[j]
  IN  /\ rot[i].on
      /\ ~inv[i].late
      /\ Len(jobs) < MaxJobs
      /\ inv' = [inv EXCEPT ![i] = [@ EXCEPT !.gen = inv[i].gen + 1, !.delivery = "pending"]]
      /\ jobs' = Append([j \in DOMAIN jobs |-> row(j)], NewJob(i, inv[i].gen + 1))
      /\ rot' = [rot EXCEPT ![i] = Idle]
      /\ UNCHANGED <<held, task, mail, seen, hook>>

RotateAbort(i) ==
  /\ rot[i].on
  /\ rot' = [rot EXCEPT ![i] = Idle]
  /\ UNCHANGED <<inv, jobs, held, task, mail, seen, hook>>

--------------------------------------------------------------------------------
(* Workers *)

Undeliverable(i) == inv[i].status # "invited" \/ inv[i].late

\* Mutant: off by one, so a job may come back with no attempt left.
ExhaustedLate(row) == Len(row.log) > RetryLimit

Exhausted(row) == Len(row.log) >= RetryLimit

\* What a claim makes of every job row before it takes any.
Swept(j) ==
  LET row == jobs[j]
  IN  IF row.status = "pending" /\ Undeliverable(row.inv) THEN Cancel(row)
      ELSE IF row.status = "processing" /\ row.lease = "lapsed"
      THEN IF Exhausted(row)
           THEN [row EXCEPT !.status = "dead_letter", !.lease = "none",
                            !.leaseExpired = TRUE, !.log = Close(row, "dead_letter")]
           ELSE [row EXCEPT !.status = "pending", !.lease = "none",
                            !.leaseExpired = TRUE, !.log = Close(row, "retry")]
      ELSE row

\* Invitations a claim marks as failed: any with a job that died of its lease.
\* Mutant: the join of jobs and invitations is missing.
BuriedUnjoined == {i \in Invitations : \E j \in DOMAIN jobs :
                     Swept(j).status = "dead_letter" /\ Swept(j).leaseExpired}

Buried == {i \in Invitations : \E j \in JobsOf(i) :
             Swept(j).status = "dead_letter" /\ Swept(j).leaseExpired}

\* Mutant: the last attempt is never made.
EligibleEarly == {j \in DOMAIN jobs :
  /\ Swept(j).status = "pending"
  /\ Count(j) < RetryLimit - 1
  /\ ~Undeliverable(jobs[j].inv)}

Eligible == {j \in DOMAIN jobs :
  /\ Swept(j).status = "pending"
  /\ Count(j) < RetryLimit
  /\ ~Undeliverable(jobs[j].inv)}

\* Mutant: a job that comes back reopens its last attempt.
LeasedAgain(row) == [row EXCEPT !.status = "processing", !.lease = "live",
  !.log = IF @ = <<>> THEN <<"processing">> ELSE Close(row, "processing")]

Leased(row) == [row EXCEPT !.status = "processing", !.lease = "live",
                           !.log = Append(@, "processing")]

\* The batch size, SKIP LOCKED and available_at decide which eligible jobs are
\* taken.  It waits for the rows that a resend in progress has locked.
Claim(w, batch) ==
  /\ held[w] = {} /\ task[w] = None
  /\ batch \subseteq Eligible
  /\ \A i \in Invitations : rot[i].recovered = {} /\ (i \in Buried => Unlocked(i))
  /\ inv' = [i \in Invitations |->
       IF i \in Buried THEN [inv[i] EXCEPT !.delivery = "failed"] ELSE inv[i]]
  /\ jobs' = [j \in DOMAIN jobs |-> IF j \in batch THEN Leased(Swept(j)) ELSE Swept(j)]
  /\ held' = [held EXCEPT ![w] = {<<j, Len(jobs'[j].log)>> : j \in batch}]
  /\ UNCHANGED <<task, mail, seen, rot, hook>>

Resolvable(j) ==
  /\ jobs[j].status = "processing"
  /\ ~Undeliverable(jobs[j].inv)
  /\ jobs[j].gen = inv[jobs[j].inv].gen

\* The next job of the batch; decrypting it or reading its context may fail.
Resolve(w, h) ==
  /\ task[w] = None /\ h \in held[w]
  /\ held' = [held EXCEPT ![w] = @ \ {h}]
  /\ \E step \in {IF Resolvable(h[1]) THEN "sending" ELSE "cancelled", "dead_letter"} :
       task' = [task EXCEPT ![w] = [job |-> h[1], attempt |-> h[2], step |-> step]]
  /\ UNCHANGED <<inv, jobs, mail, seen, rot, hook>>

\* The provider call.  After an error the message may have been accepted or not.
Send(w) ==
  /\ task[w] # None /\ task[w].step = "sending"
  /\ \E accepted \in BOOLEAN, result \in {"sent", "retry", "dead_letter"} :
       /\ result = "sent" => accepted
       /\ result = "retry" => task[w].attempt < RetryLimit
       /\ mail' = IF accepted THEN mail \cup {<<task[w].job, task[w].attempt>>} ELSE mail
       /\ task' = [task EXCEPT ![w].step = result]
  /\ UNCHANGED <<inv, jobs, held, seen, rot, hook>>

\* Mutant: the outcome is copied.
ShownAsIs(outcome) == outcome

Shown(outcome) == CASE outcome = "sent" -> "sent"
                    [] outcome = "retry" -> "pending"
                    [] OTHER -> "failed"

\* Mutant: the status of the job is not looked at.
CurrentAttempt(j, n) == Count(j) = n

\* A settlement counts only while the job is processing under that attempt.
Current(j, n) == jobs[j].status = "processing" /\ Count(j) = n

Complete(j, n, outcome) ==
  IF Current(j, n)
  THEN /\ Unlocked(jobs[j].inv)
       /\ jobs' = [jobs EXCEPT ![j] = [@ EXCEPT
            !.status = IF outcome = "retry" THEN "pending" ELSE outcome,
            !.lease = "none", !.leaseExpired = FALSE, !.log = Close(jobs[j], outcome)]]
       /\ inv' = [inv EXCEPT ![jobs[j].inv].delivery = Shown(outcome)]
  ELSE UNCHANGED <<inv, jobs>>

Settle(w) ==
  /\ task[w] # None /\ task[w].step \in Outcomes
  /\ Complete(task[w].job, task[w].attempt, task[w].step)
  /\ task' = [task EXCEPT ![w] = None]
  /\ UNCHANGED <<held, mail, seen, rot, hook>>

\* A cancelling settlement that fails, or whose response is lost, is followed by
\* one with outcome dead_letter; any other failure ends the run (see Crash).
CancelFails(w) ==
  /\ task[w] # None /\ task[w].step = "cancelled"
  /\ \/ Complete(task[w].job, task[w].attempt, "cancelled")
     \/ UNCHANGED <<inv, jobs>>
  /\ task' = [task EXCEPT ![w].step = "dead_letter"]
  /\ UNCHANGED <<held, mail, seen, rot, hook>>

\* The process ends, by a failure of a call or of the host.
Crash(w) ==
  /\ held[w] # {} \/ task[w] # None
  /\ held' = [held EXCEPT ![w] = {}]
  /\ task' = [task EXCEPT ![w] = None]
  /\ UNCHANGED <<inv, jobs, mail, seen, rot, hook>>

Lapse(j) ==
  /\ jobs[j].lease = "live"
  /\ jobs' = [jobs EXCEPT ![j].lease = "lapsed"]
  /\ UNCHANGED <<inv, held, task, mail, seen, rot, hook>>

--------------------------------------------------------------------------------
(* Webhooks *)

\* provider_message_id holds the message of the attempt that was settled as sent.
Known(j, n) == n = Count(j) /\ jobs[j].log[n] = "sent"

\* An event for a message no job knows is stored, and never looked at again.
EventUnknown(j, n, e) ==
  /\ <<j, n>> \in mail /\ <<j, n, e>> \notin seen
  /\ ~Known(j, n)
  /\ seen' = seen \cup {<<j, n, e>>}
  /\ UNCHANGED <<inv, jobs, held, task, mail, rot, hook>>

EventStart(j, n, e) ==
  /\ <<j, n>> \in mail /\ <<j, n, e>> \notin seen
  /\ Known(j, n)
  /\ \A h \in hook : h.job # j
  /\ hook' = hook \cup {[job |-> j, attempt |-> n, event |-> e, latest |-> Latest(j)]}
  /\ UNCHANGED <<inv, jobs, held, task, mail, seen, rot>>

\* Mutant: a delivery is believed whatever was reported before.
ReconciledLate(status, e) ==
  CASE e = "delivered" -> "delivered"
    [] e \in {"permanent_failure", "rejected"} /\ status \in {"sent", "delivered"} -> "bounced"
    [] e = "complained" /\ status \in {"sent", "delivered"} -> "complained"
    [] OTHER -> status

Reconciled(status, e) ==
  CASE e = "delivered" /\ status = "sent" -> "delivered"
    [] e \in {"permanent_failure", "rejected"} /\ status \in {"sent", "delivered"} -> "bounced"
    [] e = "complained" /\ status \in {"sent", "delivered"} -> "complained"
    [] OTHER -> status

EventFinish(h) ==
  LET status == Reconciled(jobs[h.job].status, h.event)
      projects == h.latest /\ status # jobs[h.job].status
      i == jobs[h.job].inv
  IN  /\ h \in hook
      /\ projects => Unlocked(i)
      /\ jobs' = [jobs EXCEPT ![h.job].status = status]
      /\ inv' = IF projects
                THEN [inv EXCEPT ![i].delivery =
                        IF status = "delivered" THEN "delivered" ELSE "failed"]
                ELSE inv
      /\ seen' = seen \cup {<<h.job, h.attempt, h.event>>}
      /\ hook' = hook \ {h}
      /\ UNCHANGED <<held, task, mail, rot>>

--------------------------------------------------------------------------------

InvitationStep(i) ==
  \/ Create(i) \/ Reserve(i) \/ Elapse(i)
  \/ \E status \in {"accepted", "cancelled", "expired"} : Terminate(i, status)
  \/ RotateCheck(i) \/ RotateFinish(i) \/ RotateAbort(i)

WorkerStep(w) ==
  \/ \E batch \in SUBSET DOMAIN jobs : Claim(w, batch)
  \/ \E h \in held[w] : Resolve(w, h)
  \/ Send(w) \/ Settle(w) \/ CancelFails(w) \/ Crash(w)

ProviderStep ==
  \/ \E m \in mail, e \in EventTypes : EventUnknown(m[1], m[2], e) \/ EventStart(m[1], m[2], e)
  \/ \E h \in hook : EventFinish(h)

Next ==
  \/ \E i \in Invitations : InvitationStep(i)
  \/ \E w \in Workers : WorkerStep(w)
  \/ \E j \in DOMAIN jobs : Lapse(j)
  \/ ProviderStep

Spec == Init /\ [][Next]_vars

\* Workers are run continuously, go on with a job they hold, leases run out, and
\* the database ends the transactions it began; one that waits for a row gets
\* it when a resend releases it.  Nothing is assumed of the provider's answers,
\* of crashes, or of what administrators do.
Fairness ==
  /\ \A w \in Workers :
       /\ WF_vars(\E h \in held[w] : Resolve(w, h))
       /\ WF_vars(Send(w))
       /\ SF_vars(Settle(w))
  /\ \A j \in JobIds :
       /\ WF_vars(j \in DOMAIN jobs /\ Lapse(j))
       /\ SF_vars(\E w \in Workers, batch \in SUBSET DOMAIN jobs :
                    /\ j \in DOMAIN jobs
                    /\ Claim(w, batch)
                    /\ jobs'[j] # jobs[j]
                    /\ j \in Eligible => j \in batch)
  /\ \A i \in Invitations : WF_vars(RotateFinish(i) \/ RotateAbort(i))

FairSpec == Spec /\ Fairness

--------------------------------------------------------------------------------
(* Properties *)

\* Every variable holds values of its kind.
TypeOK ==
  /\ inv \in [Invitations -> InvRow]
  /\ jobs \in Seq(JobRow) /\ Len(jobs) <= MaxJobs
  /\ held \in [Workers -> SUBSET Hold]
  /\ task \in [Workers -> Task \cup {None}]
  /\ mail \subseteq Hold
  /\ seen \subseteq JobIds \X Attempts \X EventTypes
  /\ rot \in [Invitations -> Rotation]
  /\ hook \subseteq Hook

\* The attempt history of a job tells the same story as the job: an attempt is
\* open exactly while the job is processing, none follows one that ended the
\* job, a sent or dead job ended in that attempt, and a job that waits has an
\* attempt left, so it cannot wait for ever.  Settlements, the sweep of claims
\* and resends all close attempts and jobs separately.
AttemptLedger ==
  \A j \in DOMAIN jobs :
    LET n == Count(j)
        log == jobs[j].log
    IN  /\ n <= RetryLimit
        /\ \A k \in 1..n : k < n => log[k] = "retry"
        /\ jobs[j].status = "processing" <=> n > 0 /\ log[n] = "processing"
        /\ jobs[j].status \in Sent <=> n > 0 /\ log[n] = "sent"
        /\ jobs[j].status = "dead_letter" <=> n > 0 /\ log[n] = "dead_letter"
        /\ jobs[j].status = "pending" => n < RetryLimit /\ (n > 0 => log[n] = "retry")
        /\ jobs[j].status = "processing" <=> jobs[j].lease # "none"

\* No two workers, and no worker twice, hold the same attempt of a job, however
\* leases lapse and jobs are claimed again: only one of them can settle it.
Holds(w) == held[w] \cup (IF task[w] = None THEN {} ELSE {<<task[w].job, task[w].attempt>>})

OneHolder ==
  /\ \A w1, w2 \in Workers : w1 # w2 => Holds(w1) \cap Holds(w2) = {}
  /\ \A w \in Workers : task[w] # None => <<task[w].job, task[w].attempt>> \notin held[w]

\* What an invitation shows about its messages has happened to one of them,
\* whatever was lost, retried or late: sent or delivered only if the provider
\* accepted a message of a job that was settled so, failed only if a job ended
\* without being delivered.
ProjectionIsReal ==
  \A i \in Invitations :
    /\ inv[i].delivery \in {"sent", "delivered"} =>
         \E m \in mail : m[1] \in JobsOf(i) /\ jobs[m[1]].status \in Sent
    /\ inv[i].delivery = "failed" =>
         \E j \in JobsOf(i) :
           jobs[j].status \in {"dead_letter", "cancelled", "bounced", "complained"}

\* A job that has ended stays ended, and only moves on among the provider's
\* reports; a message that was reported as bounced or complained about is never
\* delivered again.
Forward == [pending |-> {"pending", "processing", "cancelled"},
            processing |-> {"pending", "processing", "cancelled", "dead_letter", "sent"},
            sent |-> {"sent", "delivered", "bounced", "complained"},
            delivered |-> {"delivered", "bounced", "complained"},
            bounced |-> {"bounced"}, complained |-> {"complained"},
            dead_letter |-> {"dead_letter"}, cancelled |-> {"cancelled"}]

StatusOrder ==
  [][\A j \in DOMAIN jobs : jobs'[j].status \in Forward[jobs[j].status]]_vars

\* What an attempt ended with is never rewritten, also not by a worker that
\* settles after its lease was taken away.
AttemptsFinal ==
  [][\A j \in DOMAIN jobs : \A n \in DOMAIN jobs[j].log :
       jobs[j].log[n] # "processing" =>
         n \in DOMAIN jobs'[j].log /\ jobs'[j].log[n] = jobs[j].log[n]]_vars

\* Every message that is queued is sent, given up or cancelled in the end.
Settles ==
  \A j \in JobIds :
    (j \in DOMAIN jobs /\ jobs[j].status = "pending") ~>
      (j \in DOMAIN jobs /\ jobs[j].status \notin {"pending", "processing"})

\* docs/status/PHASE_7_17, lines 136-141: a lease that has not lapsed makes a
\* resend fail "rather than rotating underneath a provider call", and "worker
\* wins first: resend is refused until that lease settles or expires".
DeliveryKeepsToken ==
  \A w \in Workers : task[w] # None /\ task[w].step = "sending" =>
    LET j == task[w].job
    IN  jobs[j].lease = "live" /\ Count(j) = task[w].attempt =>
          jobs[j].gen = inv[jobs[j].inv].gen

\* docs/status/PHASE_7_18, lines 162-163: "An event for an older resend generation
\* may update that historical outbox row, but cannot overwrite the invitation's
\* current delivery projection."
EventsKeepGeneration ==
  [][\A h \in hook : EventFinish(h) /\ inv' # inv => Latest(h.job)]_vars
================================================================================
