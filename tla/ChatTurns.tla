------------------------------- MODULE ChatTurns -------------------------------
(***************************************************************************)
(* Durable signed-in chat turns of one account at one institution.          *)
(*                                                                          *)
(* The database part (supabase/migration_sources/chat_turns/) runs each RPC *)
(* as one transaction under the turn's advisory lock and the conversation's *)
(* row lock, so an RPC is one action.  The backend part (services/ai/turns, *)
(* services/ai/chat.py) is a request handler: between two of its calls      *)
(* anything may happen, so every call is an action of its own.  A keyed     *)
(* request carries a turn; an unkeyed (legacy) one has turn = Null and       *)
(* writes its messages with two plain inserts.                              *)
(*                                                                          *)
(* Abstractions: a policy is the function that gives each knowledge source  *)
(* the policy version an answer was built from, 0 for a source it did not   *)
(* use; a worker token (gen_random_uuid) is a value nothing else holds; the *)
(* five-minute lease is a flag that LeaseExpires clears; a request's query, *)
(* session and institution are one value, query.                            *)
(***************************************************************************)
EXTENDS Naturals, FiniteSets

CONSTANTS
  Turns,         \* client_turn_id values of the account
  Convs,         \* conversation_id values
  Queries,       \* what a request asks: user_query, session_id, institution_id
  Sources,       \* knowledge_source_id values
  Answers,       \* answers the provider may give
  Insufficient,  \* the answer None with status insufficient_context
  Handlers,      \* request handlers (threads of the API server)
  Tokens,        \* worker tokens
  Requests,      \* the requests clients send
  Null,
  MaxFaults,     \* bound: crashes, lost calls, provider failures, overtaken leases
  MaxChanges,    \* bound: revocations and source policy changes
  MaxRaw         \* bound: unkeyed requests start in conversations shorter than this

RequestType == [turn : Turns \cup {Null}, conv : Convs, query : Queries,
                source : Sources \cup {Null}]

ASSUME RequestsAssumption == Requests \subseteq RequestType
ASSUME NullAssumption ==
  Null \notin Turns \cup Convs \cup Queries \cup Sources \cup Answers \cup Tokens
ASSUME AnswersAssumption == Insufficient \in Answers
ASSUME BoundsAssumption == MaxFaults \in Nat /\ MaxChanges \in Nat /\ MaxRaw \in Nat

VARIABLES
  turn,      \* table chat_turns: a row per turn, state "absent" where there is none
  conv,      \* table conversations
  msgs,      \* table messages
  handler,   \* the request handlers and their local variables
  inflight,  \* RPCs whose caller gave up; the database may still run them
  access,    \* the account holds a role that grants ai.chat
  version,   \* knowledge_sources.policy_version
  readable,  \* sources the account may read (published, indexed, audience)
  faults, changes  \* how much of MaxFaults and MaxChanges is used

tables == <<turn, conv, msgs>>
grants == <<access, version, readable, changes>>
vars == <<tables, handler, inflight, grants, faults>>

Policies == [Sources -> Nat]
NoPolicy == [s \in Sources |-> 0]

TurnRow == [state : {"absent", "processing", "failed", "completed"},
            conv : Convs \cup {Null}, query : Queries \cup {Null},
            source : Sources \cup {Null}, token : Tokens \cup {Null},
            leased : BOOLEAN, seq : Nat,
            answer : Answers \cup {Null}, policy : Policies]

AbsentTurn == [state |-> "absent", conv |-> Null, query |-> Null, source |-> Null,
               token |-> Null, leased |-> FALSE, seq |-> 0,
               answer |-> Null, policy |-> NoPolicy]

ConvRow == [exists : BOOLEAN, source : Sources \cup {Null}]

Message == [conv : Convs, seq : Nat \ {0}, kind : {"user", "assistant"},
            turn : Turns \cup {Null}, text : Queries \cup Answers,
            policy : Policies]

Pcs == {"idle", "claiming", "resolving", "reading", "numbering", "asking",
        "answering", "drafting", "saving", "checking", "completing",
        "confirming", "failing", "replied"}

HandlerState == [pc : Pcs, req : Requests \cup {Null}, token : Tokens \cup {Null},
                 seq : Nat, ctx : Nat, policy : Policies,
                 answer : Answers \cup {Null}]

IdleHandler == [pc |-> "idle", req |-> Null, token |-> Null, seq |-> 0,
                ctx |-> 0, policy |-> NoPolicy, answer |-> Null]

Rpc == [op : {"claim", "complete", "fail"}, req : Requests,
        token : Tokens \cup {Null}, policy : Policies, answer : Answers \cup {Null}]

TypeOK ==
  /\ turn \in [Turns -> TurnRow]
  /\ conv \in [Convs -> ConvRow]
  /\ msgs \subseteq Message
  /\ handler \in [Handlers -> HandlerState]
  /\ inflight \subseteq Rpc
  /\ access \in BOOLEAN
  /\ version \in [Sources -> Nat]
  /\ readable \subseteq Sources
  /\ faults \in 0..MaxFaults
  /\ changes \in 0..MaxChanges

Init ==
  /\ turn = [t \in Turns |-> AbsentTurn]
  /\ conv = [c \in Convs |-> [exists |-> FALSE, source |-> Null]]
  /\ msgs = {}
  /\ handler = [h \in Handlers |-> IdleHandler]
  /\ inflight = {}
  /\ access = TRUE
  /\ version = [s \in Sources |-> 1]
  /\ readable = Sources
  /\ faults = 0
  /\ changes = 0

-------------------------------------------------------------------------------
(* What the database functions read.                                         *)

Of(c) == {m \in msgs : m.conv = c}
Sequences(c) == {0} \cup {m.seq : m \in Of(c)}

\* The last used message_sequence of a conversation (as a singleton).
Latest(c) == {n \in Sequences(c) : \A k \in Sequences(c) : k <= n}

InTable(t) == turn[t].state # "absent"
Unfinished(t) == turn[t].state \in {"processing", "failed"}
\* Mutants: the guard trigger looks at unfinished turns only, or is missing.
ManagedWhileUnfinished(c) == \E t \in Turns : Unfinished(t) /\ turn[t].conv = c
NeverManaged(c) == FALSE
Managed(c) == \E t \in Turns : InTable(t) /\ turn[t].conv = c

\* read_resource_chat_context succeeds.
Readable(s) == access /\ s \in readable

\* check_knowledge_policy: the actor may chat and every source the policy
\* names has the version the policy recorded and is still readable.
CheckPolicy(p) ==
  /\ access
  /\ \A s \in Sources : p[s] # 0 => p[s] = version[s] /\ s \in readable

\* A policy that names one source only, as a resource conversation requires.
OnlySource(p, src) == \A s \in Sources : p[s] # 0 <=> s = src

ResolvedSource(r) ==
  IF conv[r.conv].exists THEN conv[r.conv].source ELSE r.source

HeldTokens == {turn[t].token : t \in Turns} \cup {handler[h].token : h \in Handlers}
                \cup {m.token : m \in inflight}
FreshTokens == Tokens \ HeldTokens
\* Mutant: a token that does not change from one claim to the next.
FixedToken == CHOOSE k \in Tokens : TRUE
NewToken == CHOOSE k \in Tokens : k \notin HeldTokens

-------------------------------------------------------------------------------
(* claim_chat_turn                                                           *)

ScopeMismatch(r) ==
  /\ conv[r.conv].exists
  /\ r.source # Null
  /\ r.source # conv[r.conv].source

RequestMismatch(r) ==
  /\ InTable(r.turn)
  /\ \/ turn[r.turn].conv # r.conv
     \/ turn[r.turn].query # r.query
     \/ turn[r.turn].source # ResolvedSource(r)

\* Mutant: a claim looks for processing turns only.
BusyWhileProcessing(r) ==
  /\ ~InTable(r.turn)
  /\ \E t \in Turns : turn[t].state = "processing" /\ turn[t].conv = r.conv

ConversationBusy(r) ==
  /\ ~InTable(r.turn)
  /\ \E t \in Turns : Unfinished(t) /\ turn[t].conv = r.conv

ClaimAdmitted(r) ==
  /\ access
  /\ ~RequestMismatch(r)
  /\ ~ScopeMismatch(r)
  /\ ResolvedSource(r) # Null => Readable(ResolvedSource(r))
  /\ ~ConversationBusy(r)

\* Mutants: the lease alone decides; an expired lease is never taken over.
ReclaimableWhenExpired(t) == turn[t].state = "failed" \/ ~turn[t].leased
ReclaimableWhenFailed(t) == turn[t].state = "failed"

Reclaimable(t) ==
  \/ turn[t].state = "failed"
  \/ turn[t].state = "processing" /\ ~turn[t].leased

\* The claim takes the turn: the worker must prepare an answer.
ClaimGranted(r) ==
  /\ ClaimAdmitted(r)
  /\ ~InTable(r.turn) \/ Reclaimable(r.turn)

\* read_chat_turn returns a completed turn's receipt.
ReceiptReadable(t) ==
  /\ access
  /\ turn[t].state = "completed"
  /\ conv[turn[t].conv].source # Null => Readable(conv[turn[t].conv].source)
  /\ CheckPolicy(turn[t].policy)

\* The rows a granted claim writes: a new turn with its question, or a new
\* token and lease on the failed or expired one.
TakeTurn(r, k) ==
  /\ FreshTokens # {}
  /\ IF InTable(r.turn)
     THEN /\ turn' = [turn EXCEPT ![r.turn] =
                        [@ EXCEPT !.state = "processing", !.token = k, !.leased = TRUE]]
          /\ UNCHANGED <<conv, msgs>>
     ELSE \E n \in Latest(r.conv) :
          /\ turn' = [turn EXCEPT ![r.turn] =
                        [state |-> "processing", conv |-> r.conv, query |-> r.query,
                         source |-> ResolvedSource(r), token |-> k, leased |-> TRUE,
                         seq |-> n + 1, answer |-> Null, policy |-> NoPolicy]]
          /\ conv' = [conv EXCEPT ![r.conv] =
                        [exists |-> TRUE, source |-> ResolvedSource(r)]]
          /\ msgs' = msgs \cup
               {[conv |-> r.conv, seq |-> n + 1, kind |-> "user", turn |-> r.turn,
                 text |-> r.query, policy |-> NoPolicy]}

-------------------------------------------------------------------------------
(* complete_chat_turn and fail_chat_turn                                      *)

\* Mutant: no unique key on (conversation_id, message_sequence).
NoUniqueKey(c, n) == FALSE

SequenceTaken(c, n) == \E m \in Of(c) : m.seq = n

\* Mutant: the worker token is not compared.
AnyWorker(t, k) == turn[t].state = "processing"

CurrentWorker(t, k) == turn[t].state = "processing" /\ turn[t].token = k

CompletionAdmitted(t, k, p) ==
  /\ access
  /\ CurrentWorker(t, k)
  /\ CheckPolicy(p)
  /\ turn[t].source # Null => Readable(turn[t].source) /\ OnlySource(p, turn[t].source)
  /\ ~SequenceTaken(turn[t].conv, turn[t].seq + 1)

StoreAnswer(t, a, p) ==
  /\ msgs' = msgs \cup
       {[conv |-> turn[t].conv, seq |-> turn[t].seq + 1, kind |-> "assistant",
         turn |-> t, text |-> a, policy |-> p]}
  /\ turn' = [turn EXCEPT ![t] =
                [@ EXCEPT !.state = "completed", !.answer = a, !.policy = p]]
  /\ UNCHANGED conv

\* Mutants: failure reports ignore the state; the state is not one of the CHECK.
FailAnyState(t, k) ==
  /\ turn' = IF access /\ turn[t].token = k
             THEN [turn EXCEPT ![t].state = "failed"] ELSE turn
  /\ UNCHANGED <<conv, msgs>>
FailWithOtherState(t, k) ==
  /\ turn' = IF access /\ CurrentWorker(t, k)
             THEN [turn EXCEPT ![t].state = "retryable"] ELSE turn
  /\ UNCHANGED <<conv, msgs>>

FailTurn(t, k) ==
  /\ turn' = IF access /\ CurrentWorker(t, k)
             THEN [turn EXCEPT ![t].state = "failed"] ELSE turn
  /\ UNCHANGED <<conv, msgs>>

-------------------------------------------------------------------------------
(* A request handler: services/ai/turns/workflow.py and services/ai/chat.py.  *)

Keyed(r) == r.turn # Null
At(h, pc) == handler[h].pc = pc
Goto(h, pc) == handler' = [handler EXCEPT ![h].pc = pc]
Finish(h) == handler' = [handler EXCEPT ![h] = IdleHandler]

\* An exception inside process: a keyed request reports its turn as failed.
Abort(h) == IF Keyed(handler[h].req) THEN Goto(h, "failing") ELSE Finish(h)

\* The client receives 200 with this answer.
Reply(h, r, a, p) ==
  handler' = [handler EXCEPT ![h] =
                [IdleHandler EXCEPT !.pc = "replied", !.req = r,
                                    !.answer = a, !.policy = p]]

Post(h, r) ==
  /\ handler[h].pc \in {"idle", "replied"}
  /\ ~Keyed(r) => \A n \in Latest(r.conv) : n < MaxRaw
  /\ handler' = [handler EXCEPT ![h] =
                   [IdleHandler EXCEPT !.pc = IF Keyed(r) THEN "claiming" ELSE "resolving",
                                       !.req = r]]
  /\ UNCHANGED <<tables, inflight, grants, faults>>

\* GET /turns/{id}: one read; only a completed turn shows an answer.
Status(h, r) ==
  /\ handler[h].pc \in {"idle", "replied"}
  /\ Keyed(r)
  /\ ReceiptReadable(r.turn)
  /\ Reply(h, r, turn[r.turn].answer, turn[r.turn].policy)
  /\ UNCHANGED <<tables, inflight, grants, faults>>

ClaimGrants(h) ==
  LET r == handler[h].req IN
  /\ ClaimGranted(r)
  /\ TakeTurn(r, NewToken)
  /\ handler' = [handler EXCEPT ![h] =
                   [@ EXCEPT !.pc = "resolving", !.token = NewToken,
                             !.seq = turn'[r.turn].seq]]

ClaimReplays(h) ==
  LET r == handler[h].req IN
  /\ ClaimAdmitted(r)
  /\ InTable(r.turn)
  /\ ReceiptReadable(r.turn)
  /\ Reply(h, r, turn[r.turn].answer, turn[r.turn].policy)
  /\ UNCHANGED tables

\* Refused (404, 403, 409) or another worker holds the lease (CHAT_TURN_PENDING).
ClaimRefuses(h) ==
  LET r == handler[h].req IN
  /\ ~ClaimGranted(r)
  /\ ~(ClaimAdmitted(r) /\ InTable(r.turn) /\ ReceiptReadable(r.turn))
  /\ Finish(h)
  /\ UNCHANGED tables

Claim(h) ==
  /\ At(h, "claiming")
  /\ ClaimGrants(h) \/ ClaimReplays(h) \/ ClaimRefuses(h)
  /\ UNCHANGED <<inflight, grants, faults>>

\* resolve_conversation: an unkeyed request may create the conversation here.
Resolve(h) ==
  LET r == handler[h].req
      src == ResolvedSource(r)
      allowed == ~ScopeMismatch(r) /\ (src # Null => Readable(src))
  IN
  /\ At(h, "resolving")
  /\ IF allowed
     THEN /\ handler' = [handler EXCEPT ![h] =
                           [@ EXCEPT !.pc = "reading",
                                     !.ctx = IF src = Null THEN 0 ELSE version[src]]]
          /\ conv' = [conv EXCEPT ![r.conv] = [exists |-> TRUE, source |-> src]]
     ELSE Abort(h) /\ UNCHANGED conv
  /\ UNCHANGED <<turn, msgs, inflight, grants, faults>>

\* The messages a handler builds on: for a turn, those before its question.
History(h) ==
  {m \in Of(handler[h].req.conv) :
     Keyed(handler[h].req) => m.seq < handler[h].seq}

\* Nothing of the history is redacted (require_usable_history).
HistoryUsable(h) ==
  LET src == conv[handler[h].req.conv].source IN
  /\ History(h) # {} => (src # Null => Readable(src))
  /\ \A m \in History(h) : m.kind = "assistant" =>
       CheckPolicy(m.policy) /\ (src # Null => OnlySource(m.policy, src))

\* Mutant: the snapshot covers the retrieved chunks only.
InheritNothing(h) == NoPolicy

\* snapshot's merge of the history's policies: those are all current here.
Inherited(h) ==
  [s \in Sources |-> IF \E m \in History(h) : m.policy[s] # 0 THEN version[s] ELSE 0]

ReadHistory(h) ==
  /\ At(h, "reading")
  /\ IF HistoryUsable(h)
     THEN handler' = [handler EXCEPT ![h] =
                        [@ EXCEPT !.pc = IF Keyed(handler[h].req) THEN "answering" ELSE "numbering",
                                  !.policy = Inherited(h)]]
     ELSE Abort(h)
  /\ UNCHANGED <<tables, inflight, grants, faults>>

\* get_next_message_sequence, before an unkeyed question and its answer.
ReadSequence(h, from, to) ==
  /\ At(h, from)
  /\ \E n \in Latest(handler[h].req.conv) :
       handler' = [handler EXCEPT ![h] = [@ EXCEPT !.pc = to, !.seq = n + 1]]
  /\ UNCHANGED <<tables, inflight, grants, faults>>

\* create_message: the guard_managed_chat trigger and the unique key decide.
InsertRaw(h, from, to, kind, text, policy) ==
  LET c == handler[h].req.conv
      n == handler[h].seq
  IN
  /\ At(h, from)
  /\ IF ~Managed(c) /\ ~SequenceTaken(c, n)
     THEN /\ msgs' = msgs \cup {[conv |-> c, seq |-> n, kind |-> kind, turn |-> Null,
                                 text |-> text, policy |-> policy]}
          /\ Goto(h, to)
     ELSE Abort(h) /\ UNCHANGED msgs
  /\ UNCHANGED <<turn, conv, inflight, grants, faults>>

NumberQuestion(h) == ReadSequence(h, "numbering", "asking")
SaveQuestion(h) == InsertRaw(h, "asking", "answering", "user", handler[h].req.query, NoPolicy)
NumberAnswer(h) == ReadSequence(h, "drafting", "saving")
SaveAnswer(h) == InsertRaw(h, "saving", "checking", "assistant",
                           handler[h].answer, handler[h].policy)

\* The policy of an answer built from the sources used on top of the history.
Merged(p, used) == [s \in Sources |-> IF s \in used THEN version[s] ELSE p[s]]

\* bind_policy in a resource conversation, with the version read by Resolve.
Bindable(p, src, ctx) ==
  \A s \in Sources : p[s] # 0 => s = src /\ p[s] = ctx
\* Mutant: an answer without chunks names no source.
Unbound(src, ctx) == NoPolicy
Bound(src, ctx) == [s \in Sources |-> IF s = src THEN ctx ELSE 0]

\* Retrieval, snapshot_knowledge_policy, bind_policy and the provider's answer.
Generate(h) ==
  LET r == handler[h].req
      src == conv[r.conv].source
  IN
  /\ At(h, "answering")
  /\ \E used \in SUBSET (IF src = Null THEN readable ELSE readable \cap {src}) :
       LET p == Merged(handler[h].policy, used) IN
       IF CheckPolicy(p) /\ (src # Null => Bindable(p, src, handler[h].ctx))
       THEN \E a \in Answers :
              handler' = [handler EXCEPT ![h] =
                [@ EXCEPT !.pc = IF Keyed(r) \/ a = Insufficient THEN "checking"
                                 ELSE "drafting",
                          !.policy = IF src = Null THEN p ELSE Bound(src, handler[h].ctx),
                          !.answer = a]]
       ELSE Abort(h)
  /\ UNCHANGED <<tables, inflight, grants, faults>>

\* Mutant: a keyed answer is sent before it is stored.
CheckThenReply(h) ==
  /\ At(h, "checking")
  /\ IF CheckPolicy(handler[h].policy)
     THEN Reply(h, handler[h].req, handler[h].answer, handler[h].policy)
     ELSE Abort(h)
  /\ UNCHANGED <<tables, inflight, grants, faults>>

\* require_current before the answer is stored (keyed) or sent (unkeyed).
Check(h) ==
  /\ At(h, "checking")
  /\ CASE ~CheckPolicy(handler[h].policy) -> Abort(h)
       [] CheckPolicy(handler[h].policy) /\ Keyed(handler[h].req) -> Goto(h, "completing")
       [] OTHER -> Reply(h, handler[h].req, handler[h].answer, handler[h].policy)
  /\ UNCHANGED <<tables, inflight, grants, faults>>

Complete(h) ==
  LET w == handler[h] IN
  /\ At(h, "completing")
  /\ IF CompletionAdmitted(w.req.turn, w.token, w.policy)
     THEN StoreAnswer(w.req.turn, w.answer, w.policy) /\ Goto(h, "confirming")
     ELSE Goto(h, "failing") /\ UNCHANGED tables
  /\ UNCHANGED <<inflight, grants, faults>>

\* Mutant: the receipt goes out without the second require_current.
ConfirmUnchecked(h) ==
  /\ At(h, "confirming")
  /\ Reply(h, handler[h].req, handler[h].answer, handler[h].policy)
  /\ UNCHANGED <<tables, inflight, grants, faults>>

\* require_current once more, then the receipt goes out.
Confirm(h) ==
  LET w == handler[h] IN
  /\ At(h, "confirming")
  /\ IF CheckPolicy(w.policy) THEN Reply(h, w.req, w.answer, w.policy)
     ELSE Goto(h, "failing")
  /\ UNCHANGED <<tables, inflight, grants, faults>>

ReportFailure(h) ==
  /\ At(h, "failing")
  /\ FailTurn(handler[h].req.turn, handler[h].token)
  /\ Finish(h)
  /\ UNCHANGED <<inflight, grants, faults>>

HandlerStep(h) ==
  \/ Claim(h) \/ Resolve(h) \/ ReadHistory(h)
  \/ NumberQuestion(h) \/ SaveQuestion(h) \/ Generate(h)
  \/ NumberAnswer(h) \/ SaveAnswer(h) \/ Check(h)
  \/ Complete(h) \/ Confirm(h) \/ ReportFailure(h)

-------------------------------------------------------------------------------
(* Failures.                                                                  *)

Fault == faults < MaxFaults /\ faults' = faults + 1

Busy(h) == handler[h].pc \notin {"idle", "replied"}

\* The process dies; its turn keeps its row and its lease.
Crash(h) ==
  /\ Fault
  /\ Busy(h)
  /\ Finish(h)
  /\ UNCHANGED <<tables, inflight, grants>>

\* A provider, embedding or storage call raises inside process.
CallFails(h) ==
  /\ Fault
  /\ Busy(h)
  /\ handler[h].pc \notin {"claiming", "completing", "failing"}
  /\ Abort(h)
  /\ UNCHANGED <<tables, inflight, grants>>

\* The answer to an RPC is lost: the caller sees an error, while the database
\* may run the call now, later or never.
RpcOf(h) ==
  [op |-> CASE At(h, "claiming") -> "claim" [] At(h, "completing") -> "complete"
            [] OTHER -> "fail",
   req |-> handler[h].req, token |-> handler[h].token,
   policy |-> handler[h].policy, answer |-> handler[h].answer]

LoseRpc(h) ==
  /\ Fault
  /\ handler[h].pc \in {"claiming", "completing", "failing"}
  /\ inflight' = inflight \cup {RpcOf(h)}
  /\ IF At(h, "completing") THEN Goto(h, "failing") ELSE Finish(h)
  /\ UNCHANGED <<tables, grants>>

LateClaim(m) ==
  /\ m.op = "claim"
  /\ ClaimGranted(m.req)
  /\ TakeTurn(m.req, NewToken)

LateComplete(m) ==
  /\ m.op = "complete"
  /\ CompletionAdmitted(m.req.turn, m.token, m.policy)
  /\ StoreAnswer(m.req.turn, m.answer, m.policy)

LateFail(m) == m.op = "fail" /\ FailTurn(m.req.turn, m.token)

NeverRuns == UNCHANGED tables

RunLate(m) ==
  /\ m \in inflight
  /\ inflight' = inflight \ {m}
  /\ LateClaim(m) \/ LateComplete(m) \/ LateFail(m) \/ NeverRuns
  /\ UNCHANGED <<handler, grants, faults>>

Overtaken(t) == \E h \in Handlers : handler[h].req # Null
  /\ handler[h].req.turn = t /\ handler[h].token = turn[t].token /\ handler[h].token # Null

\* lease_until passes; overtaking a worker that is still busy is a fault.
LeaseExpires(t) ==
  /\ turn[t].state = "processing"
  /\ turn[t].leased
  /\ IF Overtaken(t) THEN Fault ELSE UNCHANGED faults
  /\ turn' = [turn EXCEPT ![t].leased = FALSE]
  /\ UNCHANGED <<conv, msgs, handler, inflight, grants>>

(* Administrators: roles, audiences, publication (outside the chat code).     *)

Change == changes < MaxChanges /\ changes' = changes + 1

RevokeAccess ==
  /\ Change
  /\ access' = FALSE
  /\ UNCHANGED <<tables, handler, inflight, version, readable, faults>>

RestoreAccess ==
  /\ ~access
  /\ access' = TRUE
  /\ UNCHANGED <<tables, handler, inflight, version, readable, changes, faults>>

ChangeAudience(s) ==
  /\ Change
  /\ version' = [version EXCEPT ![s] = @ + 1]
  /\ UNCHANGED <<tables, handler, inflight, access, readable, faults>>

WithdrawSource(s) ==
  /\ Change
  /\ s \in readable
  /\ readable' = readable \ {s}
  /\ UNCHANGED <<tables, handler, inflight, access, version, faults>>

RestoreSource(s) ==
  /\ s \notin readable
  /\ readable' = readable \cup {s}
  /\ UNCHANGED <<tables, handler, inflight, access, version, changes, faults>>

Administer ==
  \/ RevokeAccess \/ RestoreAccess
  \/ \E s \in Sources : ChangeAudience(s) \/ WithdrawSource(s) \/ RestoreSource(s)

Next ==
  \/ \E h \in Handlers : HandlerStep(h)
  \/ \E h \in Handlers, r \in Requests : Post(h, r) \/ Status(h, r)
  \/ \E h \in Handlers : Crash(h) \/ CallFails(h) \/ LoseRpc(h)
  \/ \E m \in inflight : RunLate(m)
  \/ \E t \in Turns : LeaseExpires(t)
  \/ Administer

Spec == Init /\ [][Next]_vars

-------------------------------------------------------------------------------
(* Safety.                                                                    *)

\* message_sequence numbers of a conversation are 1, 2, ... with no gap and no
\* duplicate, although unkeyed handlers number and insert in two calls and a
\* claim numbers on its own (message.py:9, claim.sql:52, complete.sql:33).
Contiguous == \A c \in Convs : Sequences(c) = 0 .. Cardinality(Of(c))

\* The question of an unanswered turn is the last message of its conversation,
\* so the sequence number its answer will take is free at any later time
\* (complete.sql:33 would otherwise break the unique key for good).
OpenQuestionIsLast ==
  \A t \in Turns : Unfinished(t) =>
    /\ \E m \in Of(turn[t].conv) : m.seq = turn[t].seq /\ m.turn = t /\ m.kind = "user"
    /\ \A m \in Of(turn[t].conv) : m.seq <= turn[t].seq

\* A completed turn has exactly one answer, right after its question, and it is
\* the receipt every replay returns; a turn that is not completed has none
\* (complete.sql:32-67).
OneAnswer ==
  \A t \in Turns :
    {m \in msgs : m.turn = t /\ m.kind = "assistant"} =
      IF turn[t].state # "completed" THEN {}
      ELSE {[conv |-> turn[t].conv, seq |-> turn[t].seq + 1, kind |-> "assistant",
             turn |-> t, text |-> turn[t].answer, policy |-> turn[t].policy]}

\* Two handlers never hold the current token of a turn (claim.sql:36-41).
SoleWorker ==
  \A g, h \in Handlers :
    /\ handler[g].token # Null
    /\ handler[g].token = handler[h].token
    => g = h

\* Whichever worker, replay or status read answered a client, the client saw
\* the answer the turn's receipt stores (workflow.py:22, complete.sql:65).
RepliesAreReceipts ==
  \A h \in Handlers :
    LET t == handler[h].req.turn IN
    At(h, "replied") /\ t # Null =>
      turn[t].state = "completed" /\ turn[t].answer = handler[h].answer

\* An unkeyed message never lies after a turn's question: the guard trigger
\* closes the race of an unkeyed handler with the first claim (tables.sql:49).
RawBeforeTurns ==
  \A m \in msgs : m.turn = Null =>
    \A t \in Turns : InTable(t) /\ turn[t].conv = m.conv => m.seq < turn[t].seq

\* The three together order a transcript: numbers without gap, an open question
\* last, unkeyed messages before every turn.
TranscriptOrder == Contiguous /\ OpenQuestionIsLast /\ RawBeforeTurns

\* An answer's policy names every source the earlier answers of its
\* conversation were built from, so withdrawing one of them redacts it too
\* (policy.py:15-25 with the history read by chat.py:89-93).
ProvenanceInherited ==
  \A m, n \in msgs :
    /\ m.conv = n.conv /\ m.seq < n.seq
    /\ m.kind = "assistant" /\ n.kind = "assistant" /\ n.turn # Null
    => \A s \in Sources : m.policy[s] # 0 => n.policy[s] # 0

\* In a resource conversation every answer was built from that resource and
\* says so in its policy, keyed or not, also when retrieval used no chunk
\* (resource_scope.py:63-71, complete.sql:19-24).
ResourceScope ==
  \A m \in msgs :
    m.kind = "assistant" /\ conv[m.conv].source # Null
    => OnlySource(m.policy, conv[m.conv].source)

(* What a step may not do.                                                    *)

\* A stored message and a completed turn's receipt never change or go away.
ReceiptsPermanent ==
  [][/\ msgs \subseteq msgs'
     /\ \A t \in Turns : turn[t].state = "completed" => turn'[t] = turn[t]]_vars

\* A worker whose turn was handed to another token cannot complete it or fail
\* it, nor can a call of it that runs late (complete.sql:12, 77-79).
SupersededWorkerIsFenced ==
  [][/\ \A h \in Handlers :
          /\ handler'[h] # handler[h]
          /\ handler[h].token # Null
          /\ handler[h].token # turn[handler[h].req.turn].token
          => turn'[handler[h].req.turn] = turn[handler[h].req.turn]
     /\ \A m \in inflight \ inflight' :
          m.op # "claim" /\ m.token # turn[m.req.turn].token
          => turn'[m.req.turn] = turn[m.req.turn]]_vars

\* An answer leaves the server only at a moment when its reader may still read
\* every source it was built from, although it was generated, stored or first
\* delivered earlier (chat.py:217-223, read.sql:12-21).
RepliesUnderCurrentPolicy ==
  [][\A h \in Handlers :
       handler'[h].pc = "replied" /\ handler'[h] # handler[h]
       => CheckPolicy(handler'[h].policy)]_vars

(* The transcript a reader sees, and the ledger it implements.                *)

MessageAt(c, i) == CHOOSE m \in Of(c) : m.seq = i

Transcript(c) ==
  [i \in 1 .. Cardinality(Of(c)) |->
     LET m == MessageAt(c, i) IN [kind |-> m.kind, turn |-> m.turn, text |-> m.text]]

OpenTurn(c) ==
  IF \E t \in Turns : Unfinished(t) /\ turn[t].conv = c
  THEN CHOOSE t \in Turns : Unfinished(t) /\ turn[t].conv = c ELSE Null

Ledger == INSTANCE ChatLedger WITH
            Texts <- Queries \cup Answers,
            log <- [c \in Convs |-> Transcript(c)],
            open <- [c \in Convs |-> OpenTurn(c)]

\* The tables implement the promised transcript: one question, then its one
\* answer, nothing in between, nothing raw after the first turn.
ImplementsLedger == Ledger!Spec

-------------------------------------------------------------------------------
(* Progress.  Handlers run on (the server schedules its threads), the clock    *)
(* passes every lease, and a client that was not answered sends its request   *)
(* again when a handler is free (the retry button; the same turn).            *)

FairSpec ==
  /\ Spec
  /\ \A h \in Handlers : WF_vars(HandlerStep(h))
  /\ \A t \in Turns : WF_vars(LeaseExpires(t))
  /\ \A r \in Requests : SF_vars(\E h \in Handlers : Post(h, r))

\* A turn can be served: its reader has access and nothing in its conversation
\* was built from a source that changed since.
Serviceable(t) ==
  /\ access
  /\ readable = Sources
  /\ \A m \in Of(turn[t].conv) : CheckPolicy(m.policy)

\* Once a question is stored and stays serviceable, resending its request
\* brings the answer, whatever crashed, was lost or ran late before; no failed,
\* expired or orphaned claim blocks its turn or its conversation for good.
Recovers ==
  \A t \in Turns :
    (<>[]Serviceable(t)) => (Unfinished(t) ~> turn[t].state = "completed")
================================================================================
