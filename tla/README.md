# Verification of the college AI chatbot

TLA+ models of the parts of this repository that keep durable state while
several requests, retries, workers and administrators act on it, the TLC runs
that check them on small instances, and TLAPS proofs of their main properties
for every instance.

## 1. Inventory

The program is a FastAPI backend (`backend/app`), PostgreSQL functions called
through Supabase (`supabase/migration_sources`, `supabase/migrations`) and a
React client (`frontend/src`).  A database function is one transaction; a
backend request is a thread that makes several database and provider calls;
client and server talk over HTTP.  So the database decides alone what happens
within a call, and anything may happen between two calls.

| component | state | operations | what is hard | what makes it correct |
|---|---|---|---|---|
| Durable chat turns (`migration_sources/chat_turns`) | `chat_turns`, `conversations`, `messages` | claim, read, complete, fail | retries, leases that pass, calls that run after their caller gave up | one unfinished turn per conversation, one permanent answer per turn |
| Chat request handler (`services/ai/turns`, `services/ai/chat.py`, `chat_support`) | the locals of one request: worker token, sequence number, policy, answer | resolve conversation, read history, retrieve, generate, store, reply | crash between two calls, lost responses, sources withdrawn while the provider runs | the client sees the stored answer, and only while its sources may be read |
| Knowledge policies (`knowledge_revisions/readers`, `resource_chat`) | `policy_version`, publication, audience | snapshot, check, resource context | a checked policy is stale when used | provenance names everything an answer is built from |
| Chat client (`features/chat`) | pending turn, messages on screen | send, poll status, retry | an uncertain outcome, a late answer after leaving the conversation | a question is not asked twice, an answer is not lost |
| Email outbox (`phase_7_17`, `phase_7_18`, `services/email`) | `email_outbox`, attempts, delivery events, the invitation's projection | enqueue, claim, settle, rotate, reconcile | crash between send and settle, stale leases, webhooks out of order | a job is settled once, an old delivery does not overwrite a newer one |
| Administrator invitations (`b05`, `services/invitations`) | invitation, its acceptance operation, the account at the provider | create, resend, cancel, expire, reserve, create the account, finalize, recover | two systems without a common transaction, answers that are lost, an old link still in use | one account per invitation, nothing granted by an old link, an accepted account can always be confirmed |
| Student onboarding (`student_onboarding`) | invitation with its link and delivery status, the account at the provider | create, resend, edit, cancel, deliver, claim, record, complete | the invitation changes between the calls of a setup, results of old messages | the account belongs to the address, the status to the current link |
| Student registration, tenancy (`student_registration.py`, `platform/tenancy.py`) | account, user row, organization, institution, join request | register, compensate, decide | the compensation of one registration meets another one | success keeps all it made, failure leaves nothing |
| Ingestion (`services/knowledge`, `admin_documents.py`) | version, processing runs, chunks, vectors | upload, extract, chunk, embed, retry | requests that checked the run once, failures half way, the freeze of a reviewed version | no run is left in progress, the reviewed index is the published one |
| FAQ and notice documents (`admin_knowledge.py`) | record, document, versions, runs, files | change, publish, unpublish, delete | chains of calls without a transaction, two administrators | retrieval shows the record's wording, a linear history, no lost files |
| Knowledge revisions (`knowledge_revisions/workflow`) | source, revisions, documents, audiences | draft, submit, review, publish, archive | two editors and a reviewer, a published version replaced while it is read | one published revision, frozen from its submission on |
| Public chat (`services/ai/public_chat.py`, `public_abuse_controls.py`) | places in memory | take a place, search, authorize, answer, give it back | withdrawals during the search, exceptions | quotes are public, places are returned |
| Rate limits (`public_abuse_controls.py`) | times per scope in memory | check | the clock is read before the lock | a budget per window, a truthful retry time |
| Authentication and sessions | tokens at the provider | sign in, refresh | - | left to the provider |
| Semester registration | option groups, assignments, registrations | open, register, withdraw, close | capacity and deadline when two students register | capacity is never exceeded |
| Academic structure, sections, workspace, export | versioned rows | create, update, archive | parent archived while a child is created | no active child below an archived parent |
| Deletions (department, program, section, calendar) | the same rows | guarded delete | a child created during the check | no orphans |
| Student directory, identity review, membership approval | profiles, requests | search, approve, reject | two reviewers | a request is decided once |
| Administration, student services | single rows | write, list | none | permission checks |

Components interact as follows.  The client posts a question with a turn
identifier; the API handler claims the turn in the database, reads the history,
asks retrieval and the provider, and completes the turn.  The knowledge
workflow changes `policy_version` and publication behind the handler's back;
policy checks at each boundary are what joins the two.  Invitations enqueue
email jobs in their own transaction; the worker and the provider's webhooks
later write a projection back onto the invitation.

## 2. What is modelled

| module | models |
|---|---|
| `ChatTurns` | the chat turn tables, the request handlers that use them, lost and late calls, crashes, leases and changes of access |
| `ChatLedger` | what a conversation promises: an abstract transcript |
| `MCChatTurns` | request sets and symmetry for TLC |
| `ChatTurnsProofs` | proofs of its types, strengthened by what each program point knows, and of safety properties |
| `ChatTurnsHistory` | proofs about the numbering, scope and provenance of messages, and that `ChatTurns` implements `ChatLedger` |
| `EmailOutbox` | the outbox of invitation e-mails: its tables, SQL functions, workers, provider and webhooks |
| `MCEmailOutbox` | values for TLC |
| `MCEmailRecords` | two instances of `EmailOutbox` in one run, and their symmetry |
| `EmailOutboxProofs` | proofs of its types and safety properties |
| `IndexPipeline` | the requests that extract, chunk and embed one version, and its review |
| `IndexPipelineProofs` | proofs of its types and both its properties |
| `CanonicalSync` | one FAQ or notice and the document made from it |
| `PublicChat` | the anonymous chat endpoint and its places |
| `StudentOnboarding` | invitations of students, their messages and setups |
| `StudentOnboardingProofs` | proofs of its types and safety properties |
| `Invitations` | invitations of one address as administrator, and their acceptance |
| `InvitationsProofs` | proofs of its types and all its properties |
| `Tenancy` | registrations with one address and one code, and the decisions about them |
| `RateLimiter` | the sliding window |
| `MCChatRetries` | two instances of `ChatTurns` in one run |
| `Knowledge` | `IndexPipeline`, `CanonicalSync` and `PublicChat` side by side, with the assumptions on their constants |
| `KnowledgeProofs` | proofs of the types and properties of `CanonicalSync` and `PublicChat` |
| `MCKnowledge` | an instance of `Knowledge` for TLC |
| `Accounts` | `Invitations`, `StudentOnboarding`, `Tenancy` and `RateLimiter` side by side, with the assumptions on their constants |
| `AccountsProofs` | proofs of the types and properties of `Tenancy` and `RateLimiter`, and those of `StudentOnboarding` carried over |
| `MCAccounts` | an instance of `Accounts` for TLC |

### ChatTurns and the code

State.  `turn`, `conv` and `msgs` are the tables `chat_turns`, `conversations`
and `messages`.  `handler[h]` is one request thread: its program counter, its
request and the local variables that outlive a call (`worker_token`, the
sequence number, the resource's `policy_version` as `ctx`, the policy and the
answer).  `inflight` holds calls whose caller gave up.  `access`, `version` and
`readable` are what the knowledge readers consult: the account's chat role,
each source's `policy_version`, and the sources that
`knowledge_source_allowed` admits.

Actions.  One database function call is one action, because it takes the turn's
advisory lock and the conversation's row lock before it reads.

| action | code |
|---|---|
| `Post` | `POST /generation/chat`, `main.py:46` |
| `Status` | `GET /generation/turns/{id}`, `read_chat_turn` |
| `Claim` (`ClaimGrants`, `ClaimReplays`, `ClaimRefuses`) | `workflow.py:19-26`, `claim_chat_turn` |
| `Resolve` | `resolve_conversation` |
| `ReadHistory` | `get_conversation_messages`, `require_usable_history` |
| `NumberQuestion`, `SaveQuestion`, `NumberAnswer`, `SaveAnswer` | the plain inserts of a request without a turn identifier |
| `Generate` | retrieval, `snapshot_knowledge_policy`, `bind_policy`, the provider |
| `Check` | `require_current` before storing or sending |
| `Complete` | `complete_chat_turn` |
| `Confirm` | `require_current` after storing |
| `ReportFailure` | `fail_chat_turn` in the exception handler of `workflow.py` |
| `Crash`, `CallFails`, `LoseRpc`, `RunLate` | process death, a call that raises, a response that is lost, the database running such a call late or never |
| `LeaseExpires` | `lease_until` passes |
| `RevokeAccess`, `ChangeAudience`, `WithdrawSource`, ... | the administrators |

Abstractions.  One account at one institution, since every function first
restricts itself to the actor and the tenant it was given.  A policy is the function
from sources to recorded versions; the document versions inside a source are
part of whether the source is readable.  Query text, session and institution
are one value (`claim_chat_turn` compares them together).  A worker token is a
value nobody else holds.  The lookup and the creation of an unkeyed
conversation are one action: losing that race only raises, which `CallFails`
also does.  The history read and its per-message policy checks are one action:
`snapshot_knowledge_policy` checks everything they found once more.
`conversations.status` is left out, nothing in the chat code changes it; rows
of `chat_turns` are never deleted by it either.

Not modelled: the background thread that stores citations of unkeyed answers,
titles, usage counts and diagnostics, the cascade when an account is deleted.

### ChatLedger

The abstract specification has a transcript per conversation and at most one
open question.  `Ask` appends a question and opens it, `Answer` appends the
answer to the open question and closes it, `Raw` appends an unkeyed message while the
conversation never had a turn.  `ImplementsLedger` maps the tables onto it: the
messages in sequence order, and the one unfinished turn.

### EmailOutbox and the code

State.  `inv` is `platform_admin_invitations`: lifecycle status, whether an
acceptance has reserved it, whether `expires_at` has passed, the token
generation (`token_hash`) and the delivery projection of the roster.  `jobs` is
`email_outbox` in the order of `delivery_sequence`; a job's `log` is its rows of
`email_delivery_attempts`, so its length is `attempt_count`.  `lease` is
`locked_at` seen from the lock time: none, live or lapsed.  `held` and `task`
are the claimed batch and the job in hand of each worker process, `mail` the
messages the provider accepted, `seen` the events stored in
`email_delivery_events`.  `rot` and `hook` are the two transactions that read
rows they do not lock and write after that.

| action | code |
|---|---|
| `Create` | `phase717_create_invitation_with_outbox`, with the guard trigger and the unique index on open invitations |
| `Reserve`, `Terminate` | `b05_reserve_invitation`; acceptance, cancellation and expiry with the trigger that cancels pending jobs |
| `RotateCheck`, `RotateFinish`, `RotateAbort` | `phase717_rotate_invitation_with_outbox` (the definition of `b05`) before and after its check for a delivery in progress |
| `Claim` (`Swept`, `Buried`, `Eligible`, `Leased`) | `phase717_claim_email_outbox` |
| `Resolve` | decryption and `phase717_resolve_email_outbox_context` |
| `Send` | `deliver_invitation_email`, and the outcome `_process_job` derives from it |
| `Settle`, `CancelFails` | `phase717_complete_email_outbox`, from the main path and from the exception handler |
| `Crash` | the end of a worker, also by a failed call |
| `Lapse`, `Elapse` | the lock time and `expires_at` pass |
| `EventUnknown`, `EventStart`, `EventFinish` | `phase718_reconcile_mailgun_event` |

Abstractions.  The functions run at READ COMMITTED.  Except for the resend and
the webhook their row locks serialise them; of two that deadlock PostgreSQL
aborts one, which is as if it had not been called.  A claim waits for the rows
a resend has updated (the leases it recovered, an invitation it marks), and
settlements wait for the invitation's row.  Batch size, `SKIP LOCKED` and
`available_at` become an arbitrary choice among the eligible jobs.  The resend
compares `updated_at` with a value read before, which may be as recent as one
likes, so the comparison is left out.  All invitations have the same address
and institution, because only those interact.  Retries inside one provider call
are part of `Send`; a message whose identifier they lost is one no job knows,
as in `EventUnknown`.  An outcome of a provider call is any the code can reach,
with or without the message accepted.  A reserved invitation may be cancelled or
expired here at any time; the code asks the acceptance operation, which is left
to module `Invitations`.

### IndexPipeline and the code

`runs[r]` is a row of `document_processing_runs` with its chunks and vectors,
`calls[c]` a request with the run it works on and its next call.  `text` is
`extracted_text`, `revision` the lifecycle of the draft whose manifest names the
version; while it is not a draft, row triggers refuse every change of the index
(`Writable`, `ClearRefused`, `StoreRefused`).

Every call may raise, before or after its change is committed, and it must where
the database refuses the change (`Write`, `Throw`).  `Handler` is where the request
goes then, by the `try` block the call stands in.  Six writes are made good by no
handler (`Unguarded`): the start of extraction, the text, the status `ready`, the start
of embedding, and the writes of the two handlers themselves.  The history variable
`lost` has the runs of requests that crashed or raised there.

| action | code |
|---|---|
| `Extract`, `Chunk`, `Embed` | the guards of the three endpoints in `admin_documents.py` |
| `RetryIndex`, `Start` | `retry_knowledge_index`, the claim of a run by `process_run_to_retrieval` |
| `Fetch`, `Store`, `Ready`, `Fail` | download and extraction, the text, the status, the handler of errors |
| `Clear`, `Insert`, `Undo` | the chunks of a run replaced, or taken back |
| `Look`, `Mark`, `Load`, `Wipe`, `Vector`, `Finish`, `Unembed` | `embed_processing_run`, one batch per step |
| `Submit`, `RequestChanges`, `Approve`, `Publish`, `Unpublish` | `decide_knowledge_revision` |
| `Crash` | the end of the server in the middle of a request |

### CanonicalSync and the code

`rec` is the FAQ or notice; what a handler makes (source, document, version,
run, file) is named after the handler, which makes at most one of each.

| action | code |
|---|---|
| `Update`, `Publish`, `Unpublish`, `Delete`, `Reread` | the handlers of `admin_faqs.py` and `admin_notices.py` |
| `Source` ... `PublishVersion` | `sync_canonical_text_record`, one step per call |
| `Latest`, `Insert`, `Supersede` | `create_next_document_version`: number, unique index, status of the predecessor |
| `Marker` ... `DropFiles` | `remove_canonical_text_record`, `delete_document` |
| `Crash` | the end of the server |

### PublicChat and the code

| action | code |
|---|---|
| `Acquire`, `Release`, `Restart` | `PublicConcurrencyGate`, and the process that holds it |
| `Resolve`, `Allow`, `Search`, `Widen`, `Authorize`, `Generate` | the calls of `process_public_request`, each reading what is true when it runs |
| `Raise` | an exception at any of them |
| `ChangeSource`, `ChangeChunk`, `ChangeTenant` | administrators |

### Invitations and the code

All invitations are of one address and one kind (`kind`), because others do not
meet.  `op` is the acceptance operation stored with the invitation, `asked` the
requests that called the provider.

| action | code |
|---|---|
| `Create`, `Resend`, `Cancel`, `Expire`, `Elapse`, `RevokeAdmin` | the administrator's endpoints and the sweep |
| `SignUp`, `Profile` | the person registers without the invitation |
| `Accept`, `AskRecovery`, `LookUp` | `accept_invitation`, `recover_account`, the account looked up |
| `Reserve` | `b05_reserve_invitation`: reopen, resume or new |
| `Start`, `CreateAccount`, `Record`, `Provision` | `complete_acceptance` up to the user row |
| `Claim` | `b05_finalize_invitation` |
| `Recover`, `Confirm`, `Mark` | confirmation of an accepted account, now or later |
| `Lose` | the server, or the answer of a call, is lost |

Staff and faculty invitations are not told apart; whether the issuer still has
the authority and the institution is active is a refusal that may always
happen; audit rows are left out.

### StudentOnboarding and the code

The functions are those of the last migration that defines each
(`20261104180000`, and `20261104000000` for the resend).

| action | code |
|---|---|
| `Create`, `Resend`, `Edit`, `Cancel`, `Expire` | the functions of those names and the clock |
| `Send`, `RecordDelivery`, `SenderLost` | `deliver_setup_link` |
| `Open` | `_resolve`, which reads the row all later calls use |
| `Claim`, `UpdateAccount`, `CreateAccount`, `Release`, `RecordAccount`, `Complete` | the calls of `complete` |
| `VisitLost` | the server stops, or a call is refused for another reason |
| `Register` | an account made without an invitation |

An account is identified by its address and keeps it; `owner` is the identifier
in its `app_metadata`.  SQL's comparison of a missing identifier is null, which
does not refuse the account: `Fits` has that, and the proof shows that no setup
gets so far with such an account.  Sections, register numbers, passwords and the
hourly limit of resends are data, or refusals that change nothing.

### Tenancy and the code

| action | code |
|---|---|
| `Begin`, `CreateAccount`, `InsertUser`, `InsertTenant`, `InsertDependent` | the calls of the five registrations, in the order of `Rest` |
| `UndoUser`, `UndoTenant`, `UndoAccount` | the compensation, each deletion best effort; `UserDeletable` and `AccountDeletable` are the foreign keys |
| `ConfirmAddress`, `Crash` | the person, the server |
| `LookAtOrganization`, `DecideOrganization`, `LookAtJoin`, `DecideJoin` | `decide_organization`, `decide_join_request`: read, then write |
| `SetLifecycle` | `_set_lifecycle` of the platform administrator |

### RateLimiter and the code

`Arrive` reads the clock, `Check` is the body of `check` under its lock: sweep
from the front (`Swept`), refuse if a scope is full, else append.

## 3. Runs

| run | instance | shows |
|---|---|---|
| `chat_retry` | one turn, two handlers, four faults; or two turns and unkeyed requests in one conversation, two handlers, one fault | `OneAnswer`, `SoleWorker`, `RepliesAreReceipts`, `TranscriptOrder`, `ReceiptsPermanent`, `SupersededWorkerIsFenced`, `ImplementsLedger`, types |
| `chat_policy` | two turns, a resource conversation or not, sources that change | `ResourceScope`, `ProvenanceInherited`, `RepliesUnderCurrentPolicy` |
| `chat_liveness` | fair handlers | `Recovers` |
| `email_records` | one invitation, two generations, two workers, two attempts; or two messages, of one invitation or of two for one address, one worker, one attempt, three kinds of events | `AttemptLedger`, `OneHolder`, `AttemptsFinal`, `ProjectionIsReal`, `StatusOrder`, types |
| `email_liveness` | two generations, two attempts, fair worker, reports of delivery | `Settles` |
| `knowledge` | two requests and two runs of two batches; three handlers of one FAQ or notice, two wordings; three questions, two sources, two changes | `Settled`, `FrozenInReview`, `CurrentWhenSerial`, `LinearHistory`, `FilesAccounted`, `PlacesExact`, `QuotesPublic`, types |
| `accounts` | one student invitation, two addresses, two senders, two setups, three links; two administrator invitations, two requests; two registrations; four charges in three scopes | `SentIsCurrent`, `AcceptedFits`; `AskedOnce`, `AccountTraced`, `ConfirmedAfterAcceptance`, `AcceptedIsRecoverable`, `GrantConsumesInvitation`, `OldLinkIsDead`; `RegisteredStays`, `FailureLeavesNothing`; `WindowKept`, `RetryIsEnough`; types |
| `email_rotation`, `email_stale_event`, `inactive_retrievable`, `tenancy_join`, `onboarding_setup` | the smallest that shows it | the five disagreements below |

A behaviour of `chat_retry`, `email_records`, `knowledge` or `accounts` is one of a single
instance or component, chosen in its first state; the others keep their initial
state.  So these runs check each component by itself and nothing about their
interaction, for the price of the sum of their states.

Bounds.  In `ChatTurns`, `MaxFaults` crashes, failed and lost calls and
overtaken leases; `MaxChanges` revocations and policy changes; `MaxRaw` the
length below which an unkeyed request may start in a conversation.  A fencing
error needs two workers of one turn and one late call; an error in the sequence
numbers needs two writers; a provenance error needs two answers, the second
built on the first.

In `EmailOutbox`, `MaxJobs` rows in the outbox, which also bounds resends, and
`RetryLimit` attempts per job (the code's default is 3).  Two attempts have one
after which the job may come back and one after which it may not; two workers
are needed for a late settlement, two generations for everything a resend can
disturb, two invitations for what a claim or a creation does to another one.
Crashes, lapses and events occur as often as the code lets them.

In the two suites every request is made once, and the sets are the bounds.  Two
requests on one run meet between any two calls, and a second run is what a
retry makes; three handlers are a publication, a change and a deletion; a
withdrawal during a search needs two changes to be undone.  Three links are the
first, the resent and the edited one.  Two registrations share an account or a
code, and no third one matters to a compensation.  A window of two ticks in a
time of four closes once, and four callers fill a scope and come back.
`MaxTokens` (links), `MaxChanges` (publications) and `MaxTime` (ticks) bound
what otherwise is without end.

Symmetry is used on what no definition tells apart: handlers of a chat, workers,
invitations, wordings, senders, setups, and the two values that are addresses
and requests at once in `MCAccounts`.  Callers of the limiter come in the order
of their numbers (`InOrder`), which is the same reduction.  Liveness runs use
none.

Every property is also run against a mutated definition of the code (a dropped
guard, a condition that ignores the state or the lease, a check left out) and
is violated by it, so none holds merely by the shape of the model.

Deadlock is checked in the chat runs: a client can always send its request
again.  It is not checked where the system really stops: messages are settled,
requests and registrations are made.

Five statements of the repository are refuted by a run.

- `DeliveryKeepsToken`.  `docs/status/PHASE_7_17`, section 10, promises that a
  resend never rotates the token underneath a provider call.  The resend looks
  for a processing job and only later cancels pending ones.  A claim that
  commits between the two takes a job that the resend then skips, so the worker
  sends a link that has just been replaced.
- `EventsKeepGeneration`.  `docs/status/PHASE_7_18` promises that a report on an
  older send does not overwrite the projection of a newer one.  The webhook
  decides that its job is the newest, then waits for the invitation's row, which
  a resend may hold until it has made a newer one.
- `DeactivatedIsHidden`.  The handlers of changes say that deactivated or unpublished
  records "must not remain retrievable" (`admin_faq.py:99`, `admin_notices.py:104`)
  and remove the document.  `publish_faq` and `publish_notice` do not look at
  `is_active`: deactivating a record and then publishing it puts its text back.
- `JoinDecided`.  The documentation lets an organization's administrator decide
  a join request.  The update writes only the status, and a check constraint
  requires who decided and when, so every decision is refused.
- `SetupLocks`.  The dialogs and error messages say that an invitation is locked
  once the setup has begun.  The migration that replaced all functions dropped
  the checks and the mark: address and status change at any time.

Seen while modelling, and stated by no run, since each is wrong by itself in
every state or is about what is not modelled:

- Every claim of e-mail jobs marks as failed any invitation with a job that died
  of a lapsed lease, also when a newer message exists (`20261002000000:298`;
  `PHASE_7_18` says otherwise).
- A report that comes before its message identifier is stored is filed, and its
  redelivery counts as a duplicate (`EventUnknown`).
- Editing a student invitation replaces the link, but sends it only if the row
  says `email_changed`, which the last migration does not return
  (`student_onboarding_management.py:59`; `StudentEditDialog.tsx:133` promises
  "a fresh link").  The old link is dead and nobody has the new one.
- The refund of a resend whose delivery failed writes to a table on which the
  service has no privilege (`student_onboarding.py:112-117`, `20261104180000:330`),
  so the request raises after the failure was recorded.
- Submission for review asks for a run that is ready and embedded
  (`20261028010000:859-862`).  Chunking again removes chunks and vectors and
  leaves that status, so a version can be submitted without them although the
  message asks to "complete indexing".
- Versions of a document are never purged when they go stale: the key read is
  `versions`, the row has `document_versions` (`admin_documents.py:503`).
- A registration that fails after its role grant leaves its user row and account,
  because foreign keys refuse their deletion
  (`test_institution_registration_phase_6_13_3.py:16`: "no orphan users / auth
  accounts").  `FailureLeavesNothing` leaves this case out.
- An error in one of the writes of `Unguarded` leaves its run in progress, without a
  crash: text with a NUL is refused by `store_extracted_text` (`admin_documents.py:126`,
  `api/knowledge/ingestion.py:146`), for one.  `retry_knowledge_index` then refuses
  the version for good, although `uploads.py:71` answers "The draft remains available
  for retry."  `Settled` names these runs (`lost`) and is about all others.
- The platform administrator's activation can overtake a decision, and activates
  an institution whose join request is pending.
- Two handlers may publish and deactivate one FAQ so that its text stays
  retrievable; `CurrentWhenSerial` is therefore about handlers that do not
  overlap.
- The cache of query embeddings raises `KeyError` when another thread removes the
  entry between its two locks (`embeddings.py:45-57`).

### Fairness

In `EmailOutbox` `FairSpec` assumes what `email_outbox_worker.py:3-5` asks of
a deployment, that `process_once` is invoked continuously: a worker goes on
with the jobs it holds, and a claim that would change a given job, and takes it
if it is eligible, does happen.  Strong fairness is needed for claims and
settlements because a resend can hold their rows, and they get them when it
ends.  Leases lapse, and the resend's transaction ends.  Crashes, results and
administrators are left free, so `Settles` says that every queued message is
sent, given up or cancelled whatever they do; it holds because every crash
costs an attempt.

In `ChatTurns` `FairSpec` assumes that a handler's next step is eventually taken (the server
schedules its threads and every call has a timeout), that a lease passes
(`clock_timestamp`), and that a request is sent again when a handler is free
again and again (the client keeps the turn identifier and offers the retry).
Nothing is assumed of administrators, of faults or of late calls.  `Recovers`
promises an answer only to a turn that from some moment stays serviceable: its
reader has access and nothing in its conversation was built from a source that
has changed.  Without that premise the code refuses on purpose.

In `Tenancy` `FairSpec` assumes that an administrator who can decide goes on
deciding, which is what `JoinDecided` is about: even so no decision succeeds.

## 4. Proofs

For every set of turns, conversations, queries, sources, handlers, tokens and
requests, and every bound.  Assumptions: requests are typed, `Null` is none of
the values, `Insufficient` is an answer, the bounds are naturals.

`TypeOK` is not inductive: that a handler's request has a turn when it claims,
or an answer when it completes, depends on where it is.  `TypeInv` adds exactly that
(`WorkerOK`, and `RowOK` and `RpcOK` for rows and calls), and `TypeStep` proves
it action by action; `TypeCorrect` follows.

`TableStep` classifies a step by what it does to turns and messages: nothing, a
granted claim, a stored answer, a demotion (failed or expired), an unkeyed
insert.  `NextTableStep` shows that every action is one of these.  The
invariant `ChatInv` is `OneUnfinished`, `OpenQuestionIsLast`, `OneAnswer` and
`RawBeforeTurns` with what they need of each other (messages belong to turns
in the table, the numbers of a completed turn's messages are taken), and each
class of step preserves it.

| theorem | property |
|---|---|
| `TypeCorrect` | `TypeOK` |
| `TranscriptSafety` | `OneUnfinished`, `OpenQuestionIsLast`, `OneAnswer`, `RawBeforeTurns` |
| `ReceiptsArePermanent` | `ReceiptsPermanent` |
| `OneWorkerPerToken` | `SoleWorker` |
| `ClientsSeeReceipts` | `RepliesAreReceipts` |
| `RepliesAreAuthorised` | `RepliesUnderCurrentPolicy` |
| `FencedByToken` | `SupersededWorkerIsFenced` |

The rest of `ChatTurns` is about what a handler read some calls ago and still
relies on.  `Contiguous` alone is not inductive: an unkeyed handler reads the
last number in one call and inserts behind it in the next, so nothing in the
tables says that no number is skipped.  `ResourceScope` and
`ProvenanceInherited` are not either, since the policy is fixed when the answer
is generated and stored later, perhaps by a call that runs after its caller gave
up.  `HistoryInv` joins `TypeInv` and `ChatInv` with four parts.  `NumbersInv` states
`Contiguous` through the set of numbers and its cardinality, `RowsInv` that
messages, turns and conversations refer to rows that exist and agree,
`VersionsInv` that 0 marks a source a policy does not name.  `KnowsInv` is the
part that crosses calls: a number about to be used was read behind an existing
one, a worker's turn is in the table under the number it was told, a policy
being carried is in the conversation's scope and covers every answer before the
turn's question; the same holds of a lost call (`KnowsRpc`).  TLC checked the
four parts on the instances of `chat_retry` and `chat_policy` before they were proved.
The proof goes by how the tables grow (nothing removed, at most one message more)
and has a lemma for each action that writes.

`LedgerStep` is the refinement: with `HistoryInv`, a granted claim of a new turn
is `Ask`, a stored answer is `Answer`, an unkeyed insert is `Raw`, and every other
step leaves transcript and open question alone.  The numbering is what makes
the sorted messages of a conversation a sequence to which a step appends.

| theorem | property |
|---|---|
| `HistoryInvariance` | `HistoryInv` |
| `TranscriptIsOrdered` | `TranscriptOrder` |
| `AnswersStayInScope` | `ResourceScope` |
| `ProvenanceIsInherited` | `ProvenanceInherited` |
| `TablesImplementLedger` | `ImplementsLedger` |

In `EmailOutbox`, for every set of invitations, workers and event types, every
`RetryLimit` of at least one and every `MaxJobs`.  `AttemptLedger` is not
inductive by itself, because what a worker will write depends on what it holds.
`IInv` adds: an attempt in a worker's hands has been made (`HeldInv`, `TaskInv`),
a worker reports success only for a message in `mail`, and asks for a retry only
below the limit (`TaskInv`), a resend's recovered leases stay lapsed while it
holds them (`RotInv`), a webhook works on a sent job (`HookInv`), and every sent
job has its message (`SentMailed`).  The proof goes row by row: `RowOK` is what
the ledger says of one row, `RowStep` what may become of it, and there is a lemma
for each way a row changes (cancelled, closed, leased, reported, lapsed, new).
`NextInv` then shows for each action that `IInv` is kept and that all rows take
such steps (`JobsStep`), from which the two action properties follow.
`OneHolder` rests on `HoldsMade`: a claim begins an attempt beyond all that have
been made.  `ProjectionIsReal` rests on `ProjectionKept`: the statuses that
justify what an invitation shows are never left.

| theorem | property |
|---|---|
| `OutboxTypes` | `TypeOK` |
| `LedgerHolds` | `AttemptLedger` |
| `HoldersAreAlone` | `OneHolder` |
| `AttemptsArePermanent` | `AttemptsFinal` |
| `JobsMoveForward` | `StatusOrder` |
| `ProjectionsAreReal` | `ProjectionIsReal` |

In `IndexPipeline`, for every set of requests, runs and batches, `Settled` is
not inductive: that a run in progress has somebody who will settle it
(`Attended`) is, unless the run is in `lost`, with what that rests on: vectors have
chunks, and a request that stores vectors has read chunks.
`OneCall` proves it for one call of a request from what the call owes to its run
(`Owed`): a status in progress is settled by the calls that follow, or the run joins
`lost`.  `WriteKeeps` and `ThrowKeeps` meet its conditions for every write and every
error, from what the request's next call needs (`Fits`).  `FrozenInReview` needs no more than the guards of each writer;
`ReviewedIsIndexed` is the reason it matters.

| theorem | property |
|---|---|
| `IndexTypes` | `TypeOK` |
| `RunsAreSettled` | `Settled` |
| `IndexIsFrozen` | `FrozenInReview` |
| `ReviewedIsIndexed` | a version under review has a run that is ready and embedded |

In `StudentOnboarding`, for every set of invitations, addresses, administrators
and students, `SentIsCurrent` needs that a message in the hands of a request was
issued, and that if its link is still current so is its address
(`SendersHaveLinks`), that what will be recorded as sent is in a mailbox
(`SentIsMailed`), and that rows have links that were issued (`RowsHaveLinks`).
`AcceptedFits` needs `AccountsAreMade`: the accounts in rows and setups were made
for some invitation, so none is one that the database's null comparison lets
through.  Hypothesis (`Distinct`): null is no invitation and no address,
`Stranger` is no invitation, the bound on links is a natural; TLC evaluates it
in `MCAccounts`.

| theorem | property |
|---|---|
| `OnboardingTypes` | `TypeOK` |
| `SentLinksAreCurrent` | `SentIsCurrent` |
| `AcceptedAccountsFit` | `AcceptedFits` |

In `Invitations`, for every set of invitations and requests and every bound on
resends, the properties follow from what each table says of the other, which is
inductive where they are not.  `RowOK` ties how far an operation came to what it
knows, to the requests that asked for an account and to the invitation's status;
`ReqOK` says what a request knows at each call (from the reservation on it holds
the present link, because a link is not replaced once an operation exists, which
is all of `NoOldLink`); `SoleCreator` is what the compare-and-set before the
provider call gives: one request at most is about to call.  `RequestStep` proves
them for any step of one request on one invitation from a few conditions, of
which `Goes` is what the others rely on: operations and links stay, the account
recorded is never replaced.  Each call has a lemma that meets the conditions.
Assumption (`Distinct`): null is no name or stage, the uninvited person is no
request, the bound is a natural.

| theorem | property |
|---|---|
| `InvitationTypes` | `TypeOK` |
| `OneAccountRequest` | `AskedOnce` |
| `NoAccountForgotten` | `AccountTraced` |
| `NoEarlySignIn` | `ConfirmedAfterAcceptance` |
| `RecoveryIsPossible` | `AcceptedIsRecoverable` |
| `NoRegrant` | `GrantConsumesInvitation` |
| `NoOldLink` | `OldLinkIsDead` |

In `PublicChat`, for every finite set of requests, every assignment of chunks to
sources and of sources to institutions, and every pair of limits, `PlacesExact`
counts the requests at work by the institution they hold a place of, which says
nothing if that is not set yet: `HoldersHaveCode` adds it.  `QuoteInv` adds to
`QuotesPublic` what a request has in hand before it answers: only sources of the
institution asked about are allowed, and what was found was public when the request
last looked (`Quotable`).

In `CanonicalSync`, for every finite set of handlers and of wordings, there are three
invariants, each resting on the one before.

`Histories` proves `LinearHistory`.  A handler reads the latest version in one call and
inserts the next in another, and the unique index is the only thing between two of
them; `LatestRead` says what survives of that reading: the version it names may have been
deleted, but if it is there its number is still the one below.  With it the
numbers are unique (`NumbersUnique`) and every version names its predecessor (`Chained`).

`DocInv` proves `FilesAccounted`.  A file without a version is either about to be
registered or a deletion has it on its list: `FilesOwed` says so for every
version (`Doomed`), and needs `DeletionsOK`, that a deletion's list holds only
versions inserted before it looked, and only of its document.

`SerialInv` proves `CurrentWhenSerial`.  The property speaks of the state between two
requests, so the invariant says what a request working alone finds and leaves
at each of its calls (`WhenAlone`), what is true when nobody works
(`WhenIdle`), and that all versions are then of one document.  `Shown` is what a
request that synchronises relies on: the record is there and published.  That it is
active too is not kept, as `DeactivatedIsHidden` shows; of a published inactive record
the theorem says only that no wording but its present one is retrievable.

| theorem | property |
|---|---|
| `ChatInvariance` | the invariant of `PublicChat` |
| `PlacesAreExact` | `PlacesExact` |
| `QuotesArePublic` | `QuotesPublic` |
| `DocHistoryInvariance`, `DocInvariance`, `SerialInvariance` | the invariants of `CanonicalSync` |
| `HistoryNeverForks` | `LinearHistory` |
| `FilesAreAccounted` | `FilesAccounted` |
| `WordingIsCurrent` | `CurrentWhenSerial` |
| `TypesAreKept` | `TypesOK` of `Knowledge`: the types of all three parts |

Assumptions of `Knowledge`, which TLC evaluates in `MCKnowledge`: the set of handlers is
finite (counters count them), null is no handler, wording, record or code,
the maps from chunks to sources to codes are total, limits are naturals.

In `Tenancy`, for every set of registrations and administrators, neither property is
inductive: each speaks of registrations that have ended, and what a deletion takes
away was made calls before by a registration that has not.  `TenancyInv` says

- what a registration that goes on has made so far (`Progress`): its user row from
  the second call on, exactly the dependent rows `Made` names, its tenant;
- that the user row, whoever inserted it, has the account that is there
  (`UserFits`), which is the foreign key the compensation relies on;
- as long as nothing was uncertain, that what is left has somebody
  (`LeftoversInv`): a user row or an institution belongs to a registration that
  still holds it or will still delete it (`Accounted`), and an account to one that
  registers with it, or to a failed one whose user row the role grant keeps (`Keeps`).

TLC checked `TenancyInv` on the instance of `MCAccounts` before it was proved.
`RegistrationStep` proves it for any step of one registration that leaves alone what
others inserted (`Apart`), and each call has a lemma that meets its conditions.
The interesting case is the deletion of the account.  The account is either deleted,
and then no user row has it, or it stays because of a user row, and the
registration that inserted that row keeps it from then on.

In `RateLimiter`, for every set of scopes and of charges, every budget, every window
and every finite number of requests, `WindowKept` counts the requests admitted,
and the code counts entries of a deque that it sweeps from the front up to the first
that is recent.  `DequesCount` is the bridge: while nobody was checked later than a
request that came after it, the swept deque has at least as many entries as there
are charges still in the window, at any time not before the last check.  `RetriesAreEnough`
needs no such premise.  Both rest on lemmas about `Swept` alone.  A sweep drops a
prefix (`SweptDrops`; the first recent index exists because the natural numbers are
well founded), a sweep after a sweep finds no more than it would have found at first
(`SweptTwice`), an appended entry is counted once (`SweptAppend`), and a sweep
at which the oldest entry has passed makes room (`SweptHead`).  The wait that a
refused request is told is the longest among its full scopes, so by then the oldest
entry of each has passed.

The theorems of `StudentOnboardingProofs` hold of the student invitations of
`Accounts`: `AccountsProofs` instantiates that module with the same constants and
shows that both instances have the same initial states, steps and properties.

| theorem | property |
|---|---|
| `TenancyInvariance` | `TenancyInv` |
| `RegistrationsStay` | `RegisteredStays` |
| `FailuresLeaveNothing` | `FailureLeavesNothing` |
| `LimiterInvariance` | `WindowInv` |
| `WindowsAreKept` | `WindowKept` |
| `RetriesAreEnough` | `RetryIsEnough` |
| `SentLinksAreCurrent`, `AcceptedAccountsFit` | `SentIsCurrent`, `AcceptedFits` of `Accounts` |
| `AccountTypes` | `TypesOK` of `Accounts`: the types of all four parts |

Assumptions of `Accounts`, which TLC evaluates in `MCAccounts`: those of
`StudentOnboarding` above; null is neither a registration nor a kind of decision
(`TenantsAssumption`); budgets and the window are at least one, as the settings
require (`config.py:103-146`), and requests to the limiter are finitely many
(`LimiterAssumption`), because they are counted.

Only model-checked: the liveness properties `Recovers` and `Settles`, which are out
of the prover's reach.  Every invariant and every action property that a
passing run checks, and the refinement, is the statement of a theorem above.
The four refuted statements have their counterexample from TLC.

## 5. Not modelled

- Prompts, generation, the ranking of a search, the cutting of a text, templates,
  encryption and signatures: data and wording, no control.
- The React client; `ChatTurns` has its recovery as a client that does anything.
- Tokens and sessions, which the identity provider keeps.
- Semester registration, academic structure, deletions, directory, membership
  approval, administration and student services: each operation is one
  transaction that locks what it reads or a write of a single row, so there is
  no interleaving to explore; what is left is relational data.
- Manifests of several members, audiences and the history of revisions: the
  review in `IndexPipeline` is that of one version.
- The thread that stores citations of unkeyed answers, titles, usage counts.

## 6. Plan

1. `KnowledgeRevisions`: manifests and audiences by two people, composed with
   `ChatTurns` in place of its administrators.
2. An abstract `EmailLedger` (a message per generation, sent at most
   `RetryLimit` times) for `EmailOutbox` to implement, and `EmailOutbox` composed
   with `Invitations`, whose acceptance it has as an arbitrary step.

The runs are twelve.  Components without a run of their own share one, as the
suites do, and a new one takes its place there.
