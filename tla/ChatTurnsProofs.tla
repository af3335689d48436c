---------------------------- MODULE ChatTurnsProofs ----------------------------
(***************************************************************************)
(* Types and safety of ChatTurns, for every set of turns, conversations,    *)
(* sources, handlers, tokens and requests and every bound.                  *)
(***************************************************************************)
EXTENDS ChatTurns, TLAPS

-------------------------------------------------------------------------------
(* Types, strengthened by what each program point knows of its locals.        *)

\* A handler's request, turn, answer and number exist where its code uses them.
WorkerOK(w) ==
  /\ w \in HandlerState
  /\ w.pc # "idle" => w.req \in Requests
  /\ w.pc \in {"claiming", "completing", "confirming", "failing"} => w.req.turn \in Turns
  /\ w.pc \in {"drafting", "saving", "checking", "completing", "confirming"}
       => w.answer \in Answers
  /\ w.pc \in {"asking", "saving"} => w.seq # 0
  /\ w.pc \in {"idle", "claiming", "replied"} => w.token = Null

\* The NOT NULL columns and the CHECK of tables.sql:8-33.
RowOK(x) ==
  /\ x \in TurnRow
  /\ x.state # "absent" => x.conv \in Convs
  /\ x.state = "completed" => x.answer \in Answers

RpcOK(m) ==
  /\ m \in Rpc
  /\ m.req.turn \in Turns
  /\ m.op = "complete" => m.answer \in Answers

TablesInv ==
  /\ turn \in [Turns -> TurnRow]
  /\ \A t \in Turns : RowOK(turn[t])
  /\ conv \in [Convs -> ConvRow]
  /\ msgs \subseteq Message

HandlersInv ==
  /\ handler \in [Handlers -> HandlerState]
  /\ \A h \in Handlers : WorkerOK(handler[h])

InflightInv == \A m \in inflight : RpcOK(m)

GrantsInv ==
  /\ access \in BOOLEAN
  /\ version \in [Sources -> Nat]
  /\ readable \subseteq Sources
  /\ changes \in 0..MaxChanges

TypeInv == TablesInv /\ HandlersInv /\ InflightInv /\ GrantsInv /\ faults \in 0..MaxFaults

LEMMA TypeInvTypeOK == TypeInv => TypeOK
  BY DEF TypeInv, TablesInv, HandlersInv, InflightInv, GrantsInv, RpcOK, TypeOK

LEMMA NoPolicyType == NoPolicy \in Policies
  BY DEF NoPolicy, Policies

LEMMA IdleOK == WorkerOK(IdleHandler) /\ IdleHandler \in HandlerState
  BY NoPolicyType DEF WorkerOK, IdleHandler, HandlerState, Pcs

\* The token of a claim is one that no row, handler or call in flight holds.
LEMMA NewTokenFresh ==
  ASSUME FreshTokens # {}
  PROVE  NewToken \in Tokens /\ NewToken \notin HeldTokens
  BY DEF FreshTokens, NewToken

LEMMA RequestFields ==
  ASSUME NEW r \in Requests
  PROVE  /\ r.turn \in Turns \cup {Null}
         /\ r.conv \in Convs
         /\ r.query \in Queries
         /\ r.source \in Sources \cup {Null}
         /\ Keyed(r) <=> r.turn \in Turns
  BY RequestsAssumption, NullAssumption DEF RequestType, Keyed

\* The empty tables and idle handlers satisfy the strengthened types.
THEOREM TypeInit == Init => TypeInv
<1> SUFFICES ASSUME Init PROVE TypeInv
  OBVIOUS
<1>1. TablesInv
  BY NoPolicyType DEF Init, TablesInv, RowOK, AbsentTurn, TurnRow, ConvRow
<1>2. HandlersInv
  BY IdleOK DEF Init, HandlersInv
<1>3. InflightInv
  BY DEF Init, InflightInv
<1>4. version \in [Sources -> Nat] /\ faults \in 0..MaxFaults /\ changes \in 0..MaxChanges
  BY BoundsAssumption DEF Init
<1>5. access \in BOOLEAN /\ readable \subseteq Sources
  BY Zenon DEF Init
<1>6. QED
  BY <1>1, <1>2, <1>3, <1>4, <1>5, Zenon DEF TypeInv, GrantsInv

(* How the ways to move a handler keep its locals well formed.                *)

LEMMA MoveOK ==
  ASSUME HandlersInv, NEW h \in Handlers, NEW w, WorkerOK(w),
         handler' = [handler EXCEPT ![h] = w]
  PROVE  HandlersInv'
  BY DEF HandlersInv, WorkerOK

LEMMA FinishOK ==
  ASSUME HandlersInv, NEW h \in Handlers, Finish(h)
  PROVE  HandlersInv'
  BY MoveOK, IdleOK DEF Finish

LEMMA ReplyOK ==
  ASSUME HandlersInv, NEW h \in Handlers, NEW r \in Requests, NEW a \in Answers,
         NEW p \in Policies, Reply(h, r, a, p)
  PROVE  HandlersInv'
<1> DEFINE w == [IdleHandler EXCEPT !.pc = "replied", !.req = r,
                                    !.answer = a, !.policy = p]
<1>1. WorkerOK(w)
  BY NoPolicyType DEF WorkerOK, IdleHandler, HandlerState, Pcs
<1>2. QED
  BY <1>1, MoveOK DEF Reply

LEMMA GotoOK ==
  ASSUME HandlersInv, NEW h \in Handlers, NEW pc,
         WorkerOK([handler[h] EXCEPT !.pc = pc]), Goto(h, pc)
  PROVE  HandlersInv'
<1>1. handler' = [handler EXCEPT ![h] = [handler[h] EXCEPT !.pc = pc]]
  BY DEF Goto, HandlersInv
<1>2. QED
  BY <1>1, MoveOK

LEMMA AbortOK ==
  ASSUME HandlersInv, NEW h \in Handlers, handler[h].pc # "idle", Abort(h)
  PROVE  HandlersInv'
<1>1. CASE Keyed(handler[h].req)
  <2>1. WorkerOK([handler[h] EXCEPT !.pc = "failing"])
    BY <1>1, RequestFields DEF HandlersInv, WorkerOK, HandlerState, Pcs
  <2>2. QED
    BY <1>1, <2>1, GotoOK DEF Abort
<1>2. CASE ~Keyed(handler[h].req)
  BY <1>2, FinishOK DEF Abort
<1>3. QED
  BY <1>1, <1>2

(* How the database functions keep the tables well formed.                    *)

LEMMA ResolvedType ==
  ASSUME TablesInv, NEW r \in Requests
  PROVE  ResolvedSource(r) \in Sources \cup {Null}
  BY RequestFields DEF ResolvedSource, TablesInv, ConvRow

LEMMA LatestType ==
  ASSUME TablesInv, NEW c, NEW n \in Latest(c)
  PROVE  n \in Nat
  BY DEF TablesInv, Latest, Sequences, Of, Message

LEMMA TakeTurnOK ==
  ASSUME TablesInv, NEW r \in Requests, r.turn \in Turns, TakeTurn(r, NewToken)
  PROVE  TablesInv' /\ turn'[r.turn].seq \in Nat
<1> DEFINE k == NewToken
<1>1. k \in Tokens
  BY NewTokenFresh DEF TakeTurn
<1>2. CASE InTable(r.turn)
  <2>1. turn' = [turn EXCEPT ![r.turn] =
            [turn[r.turn] EXCEPT !.state = "processing", !.token = k, !.leased = TRUE]]
    BY <1>2 DEF TakeTurn, TablesInv
  <2>2. RowOK([turn[r.turn] EXCEPT !.state = "processing", !.token = k, !.leased = TRUE])
    <3> DEFINE x == turn[r.turn]
               y == [x EXCEPT !.state = "processing", !.token = k, !.leased = TRUE]
    <3>1. x \in TurnRow /\ x.conv \in Convs
      BY <1>2 DEF RowOK, InTable, TablesInv
    <3>2. y \in TurnRow
      BY <1>1, <3>1 DEF TurnRow
    <3>3. y.conv \in Convs /\ y.state = "processing"
      BY <3>1 DEF TurnRow
    <3> HIDE DEF y
    <3>4. RowOK(y)
      BY <3>2, <3>3 DEF RowOK
    <3>5. QED
      BY <3>4 DEF y
  <2>3. UNCHANGED <<conv, msgs>>
    BY <1>2 DEF TakeTurn
  <2>4. QED
    BY <2>1, <2>2, <2>3 DEF TablesInv, RowOK, TurnRow
<1>3. CASE ~InTable(r.turn)
  <2>1. PICK n \in Latest(r.conv) :
          /\ turn' = [turn EXCEPT ![r.turn] =
                        [state |-> "processing", conv |-> r.conv, query |-> r.query,
                         source |-> ResolvedSource(r), token |-> k, leased |-> TRUE,
                         seq |-> n + 1, answer |-> Null, policy |-> NoPolicy]]
          /\ conv' = [conv EXCEPT ![r.conv] =
                        [exists |-> TRUE, source |-> ResolvedSource(r)]]
          /\ msgs' = msgs \cup
               {[conv |-> r.conv, seq |-> n + 1, kind |-> "user", turn |-> r.turn,
                 text |-> r.query, policy |-> NoPolicy]}
    BY <1>3 DEF TakeTurn
  <2>2. n + 1 \in Nat \ {0}
    BY LatestType
  <2>3. RowOK([state |-> "processing", conv |-> r.conv, query |-> r.query,
               source |-> ResolvedSource(r), token |-> k, leased |-> TRUE,
               seq |-> n + 1, answer |-> Null, policy |-> NoPolicy])
    BY <1>1, <2>2, ResolvedType, RequestFields, NoPolicyType DEF RowOK, TurnRow
  <2>4. [conv |-> r.conv, seq |-> n + 1, kind |-> "user", turn |-> r.turn,
         text |-> r.query, policy |-> NoPolicy] \in Message
    BY <2>2, RequestFields, NoPolicyType DEF Message
  <2>5. [exists |-> TRUE, source |-> ResolvedSource(r)] \in ConvRow
    BY ResolvedType DEF ConvRow
  <2>6. QED
    BY <2>1, <2>2, <2>3, <2>4, <2>5 DEF TablesInv, RowOK
<1>4. QED
  BY <1>2, <1>3

LEMMA StoreAnswerOK ==
  ASSUME TablesInv, NEW t \in Turns, NEW a \in Answers, NEW p \in Policies,
         InTable(t), StoreAnswer(t, a, p)
  PROVE  TablesInv'
<1>1. turn[t].conv \in Convs /\ turn[t].seq + 1 \in Nat \ {0}
  BY DEF TablesInv, RowOK, TurnRow, InTable
<1>2. [conv |-> turn[t].conv, seq |-> turn[t].seq + 1, kind |-> "assistant",
       turn |-> t, text |-> a, policy |-> p] \in Message
  BY <1>1 DEF Message
<1>3. RowOK([turn[t] EXCEPT !.state = "completed", !.answer = a, !.policy = p])
  BY <1>1 DEF TablesInv, RowOK, TurnRow
<1>4. turn' = [turn EXCEPT ![t] =
                 [turn[t] EXCEPT !.state = "completed", !.answer = a, !.policy = p]]
  BY DEF StoreAnswer, TablesInv
<1>5. QED
  BY <1>2, <1>3, <1>4 DEF StoreAnswer, TablesInv, RowOK

LEMMA FailTurnOK ==
  ASSUME TablesInv, NEW t \in Turns, NEW k, FailTurn(t, k)
  PROVE  TablesInv'
<1>1. CASE access /\ CurrentWorker(t, k)
  <2>1. turn' = [turn EXCEPT ![t] = [turn[t] EXCEPT !.state = "failed"]]
    BY <1>1 DEF FailTurn, TablesInv
  <2>2. RowOK([turn[t] EXCEPT !.state = "failed"])
    BY <1>1 DEF TablesInv, RowOK, TurnRow, CurrentWorker
  <2>3. QED
    BY <2>1, <2>2 DEF FailTurn, TablesInv, RowOK
<1>2. CASE ~(access /\ CurrentWorker(t, k))
  BY <1>2 DEF FailTurn, TablesInv, RowOK
<1>3. QED
  BY <1>1, <1>2

LEMMA StepUnchanged ==
  ASSUME TypeInv
  PROVE  /\ UNCHANGED tables => TablesInv'
         /\ UNCHANGED handler => HandlersInv'
         /\ UNCHANGED inflight => InflightInv'
         /\ UNCHANGED grants => GrantsInv'
         /\ UNCHANGED faults => (faults \in 0..MaxFaults)'
<1>1. UNCHANGED tables => TablesInv'
  BY DEF TypeInv, TablesInv, tables
<1>2. UNCHANGED handler => HandlersInv'
  BY DEF TypeInv, HandlersInv
<1>3. UNCHANGED inflight => InflightInv'
  BY DEF TypeInv, InflightInv
<1>4. UNCHANGED grants => GrantsInv'
  BY DEF TypeInv, GrantsInv, grants
<1>5. UNCHANGED faults => (faults \in 0..MaxFaults)'
  BY DEF TypeInv
<1>6. QED
  BY <1>1, <1>2, <1>3, <1>4, <1>5

LEMMA ClaimTypes ==
  ASSUME TypeInv, NEW h \in Handlers, Claim(h)
  PROVE  TypeInv'
<1> DEFINE r == handler[h].req
<1>1. r \in Requests /\ r.turn \in Turns
  BY DEF Claim, At, TypeInv, HandlersInv, WorkerOK
<1>2. InflightInv' /\ GrantsInv' /\ (faults \in 0..MaxFaults)'
  BY StepUnchanged DEF Claim
<1>3. CASE ClaimGrants(h)
  <2>1. TablesInv' /\ turn'[r.turn].seq \in Nat
    BY <1>1, <1>3, TakeTurnOK DEF ClaimGrants, TypeInv
  <2>2. NewToken \in Tokens
    BY <1>3, NewTokenFresh DEF ClaimGrants, TakeTurn
  <2> DEFINE w == [handler[h] EXCEPT !.pc = "resolving", !.token = NewToken,
                                     !.seq = turn'[r.turn].seq]
  <2>3. WorkerOK(w)
    BY <1>1, <2>1, <2>2 DEF TypeInv, HandlersInv, WorkerOK, HandlerState, Pcs
  <2>4. handler' = [handler EXCEPT ![h] = w]
    BY <1>3 DEF ClaimGrants, TypeInv, HandlersInv
  <2>5. HandlersInv'
    BY <2>3, <2>4, MoveOK DEF TypeInv
  <2>6. QED
    BY <1>2, <2>1, <2>5 DEF TypeInv
<1>4. CASE ClaimReplays(h)
  <2>1. turn[r.turn].answer \in Answers /\ turn[r.turn].policy \in Policies
    BY <1>1, <1>4 DEF ClaimReplays, ReceiptReadable, TypeInv, TablesInv, RowOK, TurnRow
  <2>2. HandlersInv'
    BY <1>1, <1>4, <2>1, ReplyOK DEF ClaimReplays, TypeInv
  <2>3. TablesInv'
    BY <1>4, StepUnchanged DEF ClaimReplays
  <2>4. QED
    BY <1>2, <2>2, <2>3 DEF TypeInv
<1>5. CASE ClaimRefuses(h)
  BY <1>2, <1>5, FinishOK, StepUnchanged DEF ClaimRefuses, TypeInv
<1>6. QED
  BY <1>3, <1>4, <1>5 DEF Claim

LEMMA ResolveTypes ==
  ASSUME TypeInv, NEW h \in Handlers, Resolve(h)
  PROVE  TypeInv'
<1> DEFINE r == handler[h].req
           src == ResolvedSource(r)
           allowed == ~ScopeMismatch(r) /\ (src # Null => Readable(src))
           ctx == IF src = Null THEN 0 ELSE version[src]
           w == [handler[h] EXCEPT !.pc = "reading", !.ctx = ctx]
<1>1. r \in Requests /\ handler[h].pc = "resolving"
  BY DEF Resolve, At, TypeInv, HandlersInv, WorkerOK
<1>2. src \in Sources \cup {Null}
  BY <1>1, ResolvedType DEF TypeInv
<1>3. InflightInv' /\ GrantsInv' /\ (faults \in 0..MaxFaults)' /\ UNCHANGED <<turn, msgs>>
  BY StepUnchanged DEF Resolve
<1>4. CASE allowed
  <2>1. handler' = [handler EXCEPT ![h] = w]
        /\ conv' = [conv EXCEPT ![r.conv] = [exists |-> TRUE, source |-> src]]
    BY <1>4 DEF Resolve, TypeInv, HandlersInv
  <2>2. ctx \in Nat
    BY <1>2 DEF TypeInv, GrantsInv
  <2>3. WorkerOK(w)
    BY <1>1, <2>2 DEF TypeInv, HandlersInv, WorkerOK, HandlerState, Pcs
  <2>4. HandlersInv'
    BY <2>1, <2>3, MoveOK DEF TypeInv
  <2>5. conv' \in [Convs -> ConvRow]
    BY <1>2, <2>1 DEF TypeInv, TablesInv, ConvRow
  <2>6. QED
    BY <1>3, <2>4, <2>5 DEF TypeInv, TablesInv
<1>5. CASE ~allowed
  <2>1. Abort(h) /\ UNCHANGED conv
    BY <1>5 DEF Resolve
  <2>2. HandlersInv'
    BY <1>1, <2>1, AbortOK DEF TypeInv
  <2>3. QED
    BY <1>3, <2>1, <2>2, StepUnchanged DEF TypeInv, tables
<1>6. QED
  BY <1>4, <1>5

LEMMA ReadHistoryTypes ==
  ASSUME TypeInv, NEW h \in Handlers, ReadHistory(h)
  PROVE  TypeInv'
<1> DEFINE w == [handler[h] EXCEPT
                   !.pc = IF Keyed(handler[h].req) THEN "answering" ELSE "numbering",
                   !.policy = Inherited(h)]
<1>1. handler[h].pc = "reading"
  BY DEF ReadHistory, At
<1>2. CASE HistoryUsable(h)
  <2>1. Inherited(h) \in Policies
    BY DEF Inherited, Policies, TypeInv, GrantsInv
  <2>2. WorkerOK(w)
    BY <1>1, <2>1 DEF TypeInv, HandlersInv, WorkerOK, HandlerState, Pcs
  <2>3. handler' = [handler EXCEPT ![h] = w]
    BY <1>2 DEF ReadHistory, TypeInv, HandlersInv
  <2>4. HandlersInv'
    BY <2>2, <2>3, MoveOK DEF TypeInv
  <2>5. QED
    BY <2>4, StepUnchanged DEF ReadHistory, TypeInv
<1>3. CASE ~HistoryUsable(h)
  BY <1>1, <1>3, AbortOK, StepUnchanged DEF ReadHistory, TypeInv
<1>4. QED
  BY <1>2, <1>3

LEMMA ReadSequenceTypes ==
  ASSUME TypeInv, NEW h \in Handlers, NEW from, NEW to,
         <<from, to>> \in {<<"numbering", "asking">>, <<"drafting", "saving">>},
         ReadSequence(h, from, to)
  PROVE  TypeInv'
<1>1. PICK n \in Latest(handler[h].req.conv) :
        handler' = [handler EXCEPT ![h] = [handler[h] EXCEPT !.pc = to, !.seq = n + 1]]
  BY DEF ReadSequence, TypeInv, HandlersInv
<1>2. n + 1 \in Nat /\ n + 1 # 0
  BY LatestType DEF TypeInv
<1>3. handler[h].pc = from
  BY DEF ReadSequence, At
<1>4. WorkerOK([handler[h] EXCEPT !.pc = to, !.seq = n + 1])
  BY <1>2, <1>3 DEF TypeInv, HandlersInv, WorkerOK, HandlerState, Pcs
<1>5. HandlersInv'
  BY <1>1, <1>4, MoveOK DEF TypeInv
<1>6. QED
  BY <1>5, StepUnchanged DEF ReadSequence, TypeInv

LEMMA InsertRawTypes ==
  ASSUME TypeInv, NEW h \in Handlers, NEW from, NEW to, NEW kind, NEW text, NEW policy,
         <<from, to, kind>> \in {<<"asking", "answering", "user">>,
                                 <<"saving", "checking", "assistant">>},
         text \in Queries \cup Answers, policy \in Policies,
         InsertRaw(h, from, to, kind, text, policy)
  PROVE  TypeInv'
<1> DEFINE c == handler[h].req.conv
           n == handler[h].seq
<1>1. handler[h].pc = from /\ from # "idle"
  BY DEF InsertRaw, At
<1>2. InflightInv' /\ GrantsInv' /\ (faults \in 0..MaxFaults)' /\ UNCHANGED <<turn, conv>>
  BY StepUnchanged DEF InsertRaw
<1>3. CASE ~Managed(c) /\ ~SequenceTaken(c, n)
  <2>1. msgs' = msgs \cup {[conv |-> c, seq |-> n, kind |-> kind, turn |-> Null,
                            text |-> text, policy |-> policy]}
        /\ Goto(h, to)
    BY <1>3 DEF InsertRaw
  <2>2. c \in Convs /\ n \in Nat \ {0}
    BY <1>1, RequestFields DEF TypeInv, HandlersInv, WorkerOK, HandlerState
  <2>3. [conv |-> c, seq |-> n, kind |-> kind, turn |-> Null,
         text |-> text, policy |-> policy] \in Message
    BY <2>2 DEF Message
  <2>4. WorkerOK([handler[h] EXCEPT !.pc = to])
    BY <1>1 DEF TypeInv, HandlersInv, WorkerOK, HandlerState, Pcs
  <2>5. HandlersInv'
    BY <2>1, <2>4, GotoOK DEF TypeInv
  <2>6. QED
    BY <1>2, <2>1, <2>3, <2>5 DEF TypeInv, TablesInv
<1>4. CASE ~(~Managed(c) /\ ~SequenceTaken(c, n))
  <2>1. Abort(h) /\ UNCHANGED msgs
    BY <1>4 DEF InsertRaw
  <2>2. HandlersInv'
    BY <1>1, <2>1, AbortOK DEF TypeInv
  <2>3. QED
    BY <1>2, <2>1, <2>2, StepUnchanged DEF TypeInv, tables
<1>5. QED
  BY <1>3, <1>4

LEMMA GenerateTypes ==
  ASSUME TypeInv, NEW h \in Handlers, Generate(h)
  PROVE  TypeInv'
<1> DEFINE r == handler[h].req
           src == conv[r.conv].source
           P(used) == Merged(handler[h].policy, used)
           q(used) == IF src = Null THEN P(used) ELSE Bound(src, handler[h].ctx)
           w(used, a) == [handler[h] EXCEPT
             !.pc = IF Keyed(r) \/ a = Insufficient THEN "checking" ELSE "drafting",
             !.policy = q(used), !.answer = a]
<1>1. handler[h].pc = "answering"
  BY DEF Generate, At
<1>2. PICK used \in SUBSET (IF src = Null THEN readable ELSE readable \cap {src}) :
        \/ \E a \in Answers : handler' = [handler EXCEPT ![h] = w(used, a)]
        \/ Abort(h)
  BY DEF Generate, TypeInv, HandlersInv
<1>3. ASSUME NEW a \in Answers, handler' = [handler EXCEPT ![h] = w(used, a)]
      PROVE  HandlersInv'
  <2>1. handler[h].policy \in Policies /\ handler[h].ctx \in Nat
    BY DEF TypeInv, HandlersInv, HandlerState
  <2>2. q(used) \in Policies
    BY <2>1 DEF Merged, Bound, Policies, TypeInv, GrantsInv
  <2> DEFINE pc == IF Keyed(r) \/ a = Insufficient THEN "checking" ELSE "drafting"
             m == q(used)
             v == [handler[h] EXCEPT !.pc = pc, !.policy = m, !.answer = a]
  <2>3. pc \in {"checking", "drafting"} /\ m \in Policies
    BY <2>2
  <2>4. handler' = [handler EXCEPT ![h] = v]
    BY <1>3
  <2> HIDE DEF pc, m
  <2>5. WorkerOK(v)
    <3>1. handler[h] \in HandlerState /\ WorkerOK(handler[h])
      BY DEF TypeInv, HandlersInv, WorkerOK
    <3>2. /\ v.pc = pc /\ v.answer = a /\ v.req = handler[h].req
          /\ v.seq = handler[h].seq /\ v.token = handler[h].token
      BY <3>1 DEF HandlerState
    <3>3. v \in HandlerState
      BY <2>3, <3>1 DEF HandlerState, Pcs
    <3> HIDE DEF v
    <3>4. QED
      BY <1>1, <2>3, <3>1, <3>2, <3>3 DEF WorkerOK
  <2> HIDE DEF v
  <2>6. QED
    BY <2>4, <2>5, MoveOK DEF TypeInv
<1>4. ASSUME Abort(h) PROVE HandlersInv'
  BY <1>1, <1>4, AbortOK DEF TypeInv
<1>5. QED
  BY <1>2, <1>3, <1>4, StepUnchanged DEF Generate, TypeInv

LEMMA CheckTypes ==
  ASSUME TypeInv, NEW h \in Handlers, Check(h)
  PROVE  TypeInv'
<1> DEFINE w == handler[h]
<1>1. /\ w.pc = "checking" /\ w.req \in Requests /\ w.answer \in Answers
      /\ w.policy \in Policies
  BY DEF Check, At, TypeInv, HandlersInv, WorkerOK, HandlerState
<1>2. CASE Abort(h)
  BY <1>1, <1>2, AbortOK, StepUnchanged DEF Check, TypeInv
<1>3. CASE Keyed(w.req) /\ Goto(h, "completing")
  <2>1. WorkerOK([w EXCEPT !.pc = "completing"])
    BY <1>1, <1>3, RequestFields DEF TypeInv, HandlersInv, WorkerOK, HandlerState, Pcs
  <2>2. QED
    BY <1>3, <2>1, GotoOK, StepUnchanged DEF Check, TypeInv
<1>4. CASE Reply(h, w.req, w.answer, w.policy)
  BY <1>1, <1>4, ReplyOK, StepUnchanged DEF Check, TypeInv
<1>5. QED
  BY <1>2, <1>3, <1>4 DEF Check

LEMMA CompleteTypes ==
  ASSUME TypeInv, NEW h \in Handlers, Complete(h)
  PROVE  TypeInv'
<1> DEFINE w == handler[h]
<1>1. /\ w.pc = "completing" /\ w.req.turn \in Turns /\ w.answer \in Answers
      /\ w.policy \in Policies
  BY DEF Complete, At, TypeInv, HandlersInv, WorkerOK, HandlerState
<1>2. ASSUME NEW pc \in {"confirming", "failing"}, Goto(h, pc) PROVE HandlersInv'
  <2>1. WorkerOK([w EXCEPT !.pc = pc])
    BY <1>1 DEF TypeInv, HandlersInv, WorkerOK, HandlerState, Pcs
  <2>2. QED
    BY <1>2, <2>1, GotoOK DEF TypeInv
<1>3. CASE CompletionAdmitted(w.req.turn, w.token, w.policy)
  <2>1. InTable(w.req.turn)
    BY <1>3 DEF CompletionAdmitted, CurrentWorker, InTable
  <2>2. TablesInv'
    BY <1>1, <1>3, <2>1, StoreAnswerOK DEF Complete, TypeInv
  <2>3. QED
    BY <1>2, <1>3, <2>2, StepUnchanged DEF Complete, TypeInv
<1>4. CASE ~CompletionAdmitted(w.req.turn, w.token, w.policy)
  BY <1>2, <1>4, StepUnchanged DEF Complete, TypeInv
<1>5. QED
  BY <1>3, <1>4

LEMMA ConfirmTypes ==
  ASSUME TypeInv, NEW h \in Handlers, Confirm(h)
  PROVE  TypeInv'
<1> DEFINE w == handler[h]
<1>1. /\ w.pc = "confirming" /\ w.req \in Requests /\ w.answer \in Answers
      /\ w.policy \in Policies
  BY DEF Confirm, At, TypeInv, HandlersInv, WorkerOK, HandlerState
<1>2. CASE Reply(h, w.req, w.answer, w.policy)
  BY <1>1, <1>2, ReplyOK, StepUnchanged DEF Confirm, TypeInv
<1>3. CASE Goto(h, "failing")
  <2>1. WorkerOK([w EXCEPT !.pc = "failing"])
    BY <1>1 DEF TypeInv, HandlersInv, WorkerOK, HandlerState, Pcs
  <2>2. QED
    BY <1>3, <2>1, GotoOK, StepUnchanged DEF Confirm, TypeInv
<1>4. QED
  BY <1>2, <1>3 DEF Confirm

LEMMA ReportFailureTypes ==
  ASSUME TypeInv, NEW h \in Handlers, ReportFailure(h)
  PROVE  TypeInv'
<1>1. handler[h].req.turn \in Turns
  BY DEF ReportFailure, At, TypeInv, HandlersInv, WorkerOK
<1>2. QED
  BY <1>1, FailTurnOK, FinishOK, StepUnchanged DEF ReportFailure, TypeInv

LEMMA HandlerStepTypes ==
  ASSUME TypeInv, NEW h \in Handlers, HandlerStep(h)
  PROVE  TypeInv'
<1>1. CASE SaveQuestion(h)
  <2>1. handler[h].req.query \in Queries
    BY <1>1, RequestFields
       DEF SaveQuestion, InsertRaw, At, TypeInv, HandlersInv, WorkerOK
  <2>2. QED
    BY <1>1, <2>1, InsertRawTypes, NoPolicyType DEF SaveQuestion
<1>2. CASE SaveAnswer(h)
  <2>1. handler[h].answer \in Answers /\ handler[h].policy \in Policies
    BY <1>2 DEF SaveAnswer, InsertRaw, At, TypeInv, HandlersInv, WorkerOK, HandlerState
  <2>2. QED
    BY <1>2, <2>1, InsertRawTypes DEF SaveAnswer
<1>3. CASE NumberQuestion(h) \/ NumberAnswer(h)
  BY <1>3, ReadSequenceTypes DEF NumberQuestion, NumberAnswer
<1>4. QED
  BY <1>1, <1>2, <1>3, ClaimTypes, ResolveTypes, ReadHistoryTypes, GenerateTypes,
     CheckTypes, CompleteTypes, ConfirmTypes, ReportFailureTypes DEF HandlerStep

LEMMA ClientTypes ==
  ASSUME TypeInv, NEW h \in Handlers, NEW r \in Requests, Post(h, r) \/ Status(h, r)
  PROVE  TypeInv'
<1>1. CASE Post(h, r)
  <2> DEFINE w == [IdleHandler EXCEPT
                     !.pc = IF Keyed(r) THEN "claiming" ELSE "resolving", !.req = r]
  <2>1. WorkerOK(w)
    BY NoPolicyType, RequestFields DEF WorkerOK, IdleHandler, HandlerState, Pcs
  <2>2. HandlersInv'
    BY <1>1, <2>1, MoveOK DEF Post, TypeInv
  <2>3. QED
    BY <1>1, <2>2, StepUnchanged DEF Post, TypeInv
<1>2. CASE Status(h, r)
  <2>1. r.turn \in Turns
    BY <1>2, RequestFields DEF Status
  <2>2. turn[r.turn].answer \in Answers /\ turn[r.turn].policy \in Policies
    BY <1>2, <2>1 DEF Status, ReceiptReadable, TypeInv, TablesInv, RowOK, TurnRow
  <2>3. HandlersInv'
    BY <1>2, <2>2, ReplyOK DEF Status, TypeInv
  <2>4. QED
    BY <1>2, <2>3, StepUnchanged DEF Status, TypeInv
<1>3. QED
  BY <1>1, <1>2

LEMMA FaultTypes ==
  ASSUME TypeInv, Fault
  PROVE  (faults \in 0..MaxFaults)'
  BY BoundsAssumption DEF TypeInv, Fault

LEMMA FailureTypes ==
  ASSUME TypeInv, NEW h \in Handlers, Crash(h) \/ CallFails(h) \/ LoseRpc(h)
  PROVE  TypeInv'
<1>1. (faults \in 0..MaxFaults)'
  BY FaultTypes DEF Crash, CallFails, LoseRpc
<1>2. CASE Crash(h)
  BY <1>1, <1>2, FinishOK, StepUnchanged DEF Crash, TypeInv
<1>3. CASE CallFails(h)
  <2>1. handler[h].pc # "idle"
    BY <1>3 DEF CallFails, Busy
  <2>2. QED
    BY <1>1, <1>3, <2>1, AbortOK, StepUnchanged DEF CallFails, TypeInv
<1>4. CASE LoseRpc(h)
  <2> DEFINE w == handler[h]
  <2>1. /\ w.pc \in {"claiming", "completing", "failing"}
        /\ w \in HandlerState /\ w.req \in Requests /\ w.req.turn \in Turns
        /\ w.pc = "completing" => w.answer \in Answers
    BY <1>4 DEF LoseRpc, TypeInv, HandlersInv, WorkerOK
  <2>2. RpcOK(RpcOf(h))
    BY <2>1 DEF RpcOK, RpcOf, Rpc, HandlerState, At
  <2>3. InflightInv'
    BY <1>4, <2>2 DEF LoseRpc, TypeInv, InflightInv
  <2>4. HandlersInv'
    <3>1. CASE At(h, "completing")
      <4>1. WorkerOK([w EXCEPT !.pc = "failing"])
        BY <2>1, <3>1 DEF At, TypeInv, HandlersInv, WorkerOK, HandlerState, Pcs
      <4>2. QED
        BY <1>4, <3>1, <4>1, GotoOK DEF LoseRpc, TypeInv
    <3>2. CASE ~At(h, "completing")
      BY <1>4, <3>2, FinishOK DEF LoseRpc, TypeInv
    <3>3. QED
      BY <3>1, <3>2
  <2>5. QED
    BY <1>1, <1>4, <2>3, <2>4, StepUnchanged DEF LoseRpc, TypeInv
<1>5. QED
  BY <1>2, <1>3, <1>4

LEMMA RunLateTypes ==
  ASSUME TypeInv, NEW m \in inflight, RunLate(m)
  PROVE  TypeInv'
<1>1. RpcOK(m) /\ m.req \in Requests /\ m.policy \in Policies
  BY DEF TypeInv, InflightInv, RpcOK, Rpc
<1>2. InflightInv'
  BY DEF RunLate, TypeInv, InflightInv
<1>3. TablesInv'
  <2>1. CASE LateClaim(m)
    BY <1>1, <2>1, TakeTurnOK DEF LateClaim, RpcOK, TypeInv
  <2>2. CASE LateComplete(m)
    <3>1. InTable(m.req.turn)
      BY <2>2 DEF LateComplete, CompletionAdmitted, CurrentWorker, InTable
    <3>2. QED
      BY <1>1, <2>2, <3>1, StoreAnswerOK DEF LateComplete, RpcOK, TypeInv
  <2>3. CASE LateFail(m)
    BY <1>1, <2>3, FailTurnOK DEF LateFail, RpcOK, TypeInv
  <2>4. CASE NeverRuns
    BY <2>4, StepUnchanged DEF NeverRuns
  <2>5. QED
    BY <2>1, <2>2, <2>3, <2>4 DEF RunLate
<1>4. QED
  BY <1>2, <1>3, StepUnchanged DEF RunLate, TypeInv

LEMMA LeaseTypes ==
  ASSUME TypeInv, NEW t \in Turns, LeaseExpires(t)
  PROVE  TypeInv'
<1>1. turn' = [turn EXCEPT ![t] = [turn[t] EXCEPT !.leased = FALSE]]
  BY DEF LeaseExpires, TypeInv, TablesInv
<1>2. RowOK([turn[t] EXCEPT !.leased = FALSE])
  BY DEF LeaseExpires, TypeInv, TablesInv, RowOK, TurnRow
<1>3. TablesInv'
  BY <1>1, <1>2 DEF LeaseExpires, TypeInv, TablesInv, RowOK
<1>4. (faults \in 0..MaxFaults)'
  BY FaultTypes DEF LeaseExpires, TypeInv
<1>5. QED
  BY <1>3, <1>4, StepUnchanged DEF LeaseExpires, TypeInv

LEMMA AdministerTypes ==
  ASSUME TypeInv, Administer
  PROVE  TypeInv'
<1>1. UNCHANGED <<tables, handler, inflight, faults>>
  BY DEF Administer, RevokeAccess, RestoreAccess, ChangeAudience, WithdrawSource,
         RestoreSource
<1>2. (changes \in 0..MaxChanges)' /\ (version \in [Sources -> Nat])'
      /\ (readable \subseteq Sources)'
  BY BoundsAssumption
     DEF Administer, RevokeAccess, RestoreAccess, ChangeAudience, WithdrawSource,
         RestoreSource, Change, TypeInv, GrantsInv
<1>3. (access \in BOOLEAN)'
  BY Zenon DEF Administer, RevokeAccess, RestoreAccess, ChangeAudience, WithdrawSource,
         RestoreSource, TypeInv, GrantsInv
<1>4. QED
  BY <1>1, <1>2, <1>3, StepUnchanged DEF TypeInv, GrantsInv

\* No handler, late call, lease, failure or administrator breaks them.
THEOREM TypeStep == TypeInv /\ [Next]_vars => TypeInv'
<1> SUFFICES ASSUME TypeInv, [Next]_vars PROVE TypeInv'
  OBVIOUS
<1>1. CASE UNCHANGED vars
  BY <1>1, StepUnchanged DEF vars, TypeInv
<1>2. CASE Next
  BY <1>2, HandlerStepTypes, ClientTypes, FailureTypes, RunLateTypes, LeaseTypes,
     AdministerTypes DEF Next
<1>3. QED
  BY <1>1, <1>2

\* So they hold in every reachable state.
THEOREM TypeInvariance == Spec => []TypeInv
  BY TypeInit, TypeStep, PTL DEF Spec

\* Every table row, handler variable and call in flight has its type, for any
\* number of turns, handlers, sources and faults.
THEOREM TypeCorrect == Spec => []TypeOK
  BY TypeInvariance, TypeInvTypeOK, PTL

-------------------------------------------------------------------------------
(* What a step may do to turns and messages, whoever takes it.                *)

GrantStep(r) == r.turn \in Turns /\ ClaimGranted(r) /\ TakeTurn(r, NewToken)

\* A worker at its completing call, or a completing call that runs late.
PreparedBy(t, p) ==
  \/ \E h \in Handlers :
       At(h, "completing") /\ handler[h].req.turn = t /\ handler[h].policy = p
  \/ \E m \in inflight : m.op = "complete" /\ m.req.turn = t /\ m.policy = p

AnswerStep(t, k, a, p) ==
  CompletionAdmitted(t, k, p) /\ StoreAnswer(t, a, p) /\ PreparedBy(t, p)

\* A failure report or an expiring lease: the turn stays unfinished.
DemoteStep(t) ==
  /\ turn[t].state = "processing"
  /\ \/ turn' = [turn EXCEPT ![t].state = "failed"]
     \/ turn' = [turn EXCEPT ![t].leased = FALSE]
  /\ UNCHANGED msgs

\* An unkeyed handler at one of its two inserts.
WrittenBy(h, c, n, kind, p) ==
  /\ handler[h].req.conv = c /\ handler[h].seq = n
  /\ \/ At(h, "asking") /\ kind = "user"
     \/ At(h, "saving") /\ kind = "assistant" /\ handler[h].policy = p

RawStep(c, n, kind, text, p) ==
  /\ ~Managed(c) /\ ~SequenceTaken(c, n)
  /\ \E h \in Handlers : WrittenBy(h, c, n, kind, p)
  /\ msgs' = msgs \cup {[conv |-> c, seq |-> n, kind |-> kind, turn |-> Null,
                         text |-> text, policy |-> p]}
  /\ UNCHANGED turn

TableStep ==
  \/ UNCHANGED <<turn, msgs>>
  \/ \E r \in Requests : GrantStep(r)
  \/ \E t \in Turns, a \in Answers, p \in Policies : \E k : AnswerStep(t, k, a, p)
  \/ \E t \in Turns : DemoteStep(t)
  \/ \E c \in Convs, n \in Nat \ {0}, kind \in {"user", "assistant"},
       text \in Queries \cup Answers, p \in Policies : RawStep(c, n, kind, text, p)

LEMMA FailTurnStep ==
  ASSUME NEW t \in Turns, NEW k, FailTurn(t, k)
  PROVE  TableStep
<1>1. CASE access /\ CurrentWorker(t, k)
  <2>1. DemoteStep(t)
    BY <1>1 DEF FailTurn, DemoteStep, CurrentWorker
  <2>2. QED
    BY <2>1 DEF TableStep
<1>2. CASE ~(access /\ CurrentWorker(t, k))
  BY <1>2 DEF FailTurn, TableStep
<1>3. QED
  BY <1>1, <1>2

LEMMA InsertRawStep ==
  ASSUME TypeInv, NEW h \in Handlers, NEW from, NEW to, NEW kind,
         NEW text \in Queries \cup Answers, NEW policy \in Policies,
         \/ from = "asking" /\ kind = "user"
         \/ from = "saving" /\ kind = "assistant" /\ policy = handler[h].policy,
         InsertRaw(h, from, to, kind, text, policy)
  PROVE  TableStep
<1> DEFINE c == handler[h].req.conv
           n == handler[h].seq
<1>1. c \in Convs /\ n \in Nat \ {0}
  BY RequestFields DEF InsertRaw, At, TypeInv, HandlersInv, WorkerOK, HandlerState
<1>2. CASE ~Managed(c) /\ ~SequenceTaken(c, n)
  <2>1. RawStep(c, n, kind, text, policy)
    BY <1>2 DEF InsertRaw, RawStep, WrittenBy
  <2>2. QED
    BY <1>1, <2>1 DEF TableStep
<1>3. CASE ~(~Managed(c) /\ ~SequenceTaken(c, n))
  BY <1>3 DEF InsertRaw, TableStep
<1>4. QED
  BY <1>2, <1>3

LEMMA HandlerTableStep ==
  ASSUME TypeInv, NEW h \in Handlers, HandlerStep(h)
  PROVE  TableStep
<1> DEFINE w == handler[h]
<1>1. CASE Claim(h)
  <2>1. w.req \in Requests /\ w.req.turn \in Turns
    BY <1>1 DEF Claim, At, TypeInv, HandlersInv, WorkerOK
  <2>2. CASE ClaimGrants(h)
    BY <2>1, <2>2 DEF ClaimGrants, GrantStep, TableStep
  <2>3. CASE ClaimReplays(h) \/ ClaimRefuses(h)
    BY <2>3 DEF ClaimReplays, ClaimRefuses, TableStep, tables
  <2>4. QED
    BY <1>1, <2>2, <2>3 DEF Claim
<1>2. CASE Resolve(h)
  BY <1>2 DEF Resolve, TableStep
<1>3. CASE ReadHistory(h) \/ Generate(h) \/ Check(h) \/ Confirm(h)
           \/ NumberQuestion(h) \/ NumberAnswer(h)
  BY <1>3 DEF ReadHistory, Generate, Check, Confirm, NumberQuestion, NumberAnswer,
              ReadSequence, TableStep, tables
<1>4. CASE SaveQuestion(h)
  <2>1. w.req.query \in Queries
    BY <1>4, RequestFields
       DEF SaveQuestion, InsertRaw, At, TypeInv, HandlersInv, WorkerOK
  <2>2. QED
    BY <1>4, <2>1, InsertRawStep, NoPolicyType DEF SaveQuestion
<1>5. CASE SaveAnswer(h)
  <2>1. w.answer \in Answers /\ w.policy \in Policies
    BY <1>5 DEF SaveAnswer, InsertRaw, At, TypeInv, HandlersInv, WorkerOK, HandlerState
  <2>2. QED
    BY <1>5, <2>1, InsertRawStep DEF SaveAnswer
<1>6. CASE Complete(h)
  <2>1. w.req.turn \in Turns /\ w.answer \in Answers /\ w.policy \in Policies
    BY <1>6 DEF Complete, At, TypeInv, HandlersInv, WorkerOK, HandlerState
  <2>2. QED
    BY <1>6, <2>1 DEF Complete, AnswerStep, PreparedBy, TableStep, tables
<1>7. CASE ReportFailure(h)
  <2>1. w.req.turn \in Turns
    BY <1>7 DEF ReportFailure, At, TypeInv, HandlersInv, WorkerOK
  <2>2. QED
    BY <1>7, <2>1, FailTurnStep DEF ReportFailure
<1>8. QED
  BY <1>1, <1>2, <1>3, <1>4, <1>5, <1>6, <1>7 DEF HandlerStep

LEMMA LateTableStep ==
  ASSUME TypeInv, NEW m \in inflight, RunLate(m)
  PROVE  TableStep
<1>1. m.req \in Requests /\ m.policy \in Policies /\ m.req.turn \in Turns
  BY DEF TypeInv, InflightInv, RpcOK, Rpc
<1>2. CASE LateClaim(m)
  BY <1>1, <1>2 DEF LateClaim, GrantStep, TableStep
<1>3. CASE LateComplete(m)
  <2>1. m.answer \in Answers
    BY <1>3 DEF LateComplete, TypeInv, InflightInv, RpcOK
  <2>2. QED
    BY <1>1, <1>3, <2>1 DEF LateComplete, AnswerStep, PreparedBy, TableStep
<1>4. CASE LateFail(m)
  BY <1>1, <1>4, FailTurnStep DEF LateFail
<1>5. CASE NeverRuns
  BY <1>5 DEF NeverRuns, TableStep, tables
<1>6. QED
  BY <1>2, <1>3, <1>4, <1>5 DEF RunLate

LEMMA NextTableStep ==
  ASSUME TypeInv, [Next]_vars
  PROVE  TableStep
<1>1. CASE UNCHANGED vars
  BY <1>1 DEF vars, tables, TableStep
<1>2. ASSUME NEW h \in Handlers, NEW r \in Requests, Post(h, r) \/ Status(h, r)
      PROVE  TableStep
  BY <1>2 DEF Post, Status, TableStep, tables
<1>3. ASSUME NEW h \in Handlers, Crash(h) \/ CallFails(h) \/ LoseRpc(h)
      PROVE  TableStep
  BY <1>3 DEF Crash, CallFails, LoseRpc, TableStep, tables
<1>4. ASSUME NEW t \in Turns, LeaseExpires(t) PROVE TableStep
  BY <1>4 DEF LeaseExpires, DemoteStep, TableStep
<1>5. CASE Administer
  BY <1>5 DEF Administer, RevokeAccess, RestoreAccess, ChangeAudience, WithdrawSource,
              RestoreSource, TableStep, tables
<1>6. QED
  BY <1>1, <1>2, <1>3, <1>4, <1>5, HandlerTableStep, LateTableStep DEF Next

-------------------------------------------------------------------------------
(* The transcript invariant.  None of its parts needs a lock to be modelled:  *)
(* what carries it is that a claim looks for unfinished turns, that the guard *)
(* trigger looks for any turn, and that only a processing turn is answered.   *)

\* A conversation has at most one turn still to be answered, whatever order
\* claims, retries, late calls and unkeyed requests arrive in (claim.sql:43,
\* tables.sql:34).  OpenQuestionIsLast and Contiguous imply it.
OneUnfinished ==
  \A t, u \in Turns :
    Unfinished(t) /\ Unfinished(u) /\ turn[t].conv = turn[u].conv => t = u

ChatInv == OneUnfinished /\ OpenQuestionIsLast /\ OneAnswer /\ RawBeforeTurns

NewTurn(r, n) ==
  [state |-> "processing", conv |-> r.conv, query |-> r.query,
   source |-> ResolvedSource(r), token |-> NewToken, leased |-> TRUE,
   seq |-> n + 1, answer |-> Null, policy |-> NoPolicy]

Question(r, n) ==
  [conv |-> r.conv, seq |-> n + 1, kind |-> "user", turn |-> r.turn,
   text |-> r.query, policy |-> NoPolicy]

Reply1(t, a, p) ==
  [conv |-> turn[t].conv, seq |-> turn[t].seq + 1, kind |-> "assistant",
   turn |-> t, text |-> a, policy |-> p]

\* A turn row that keeps its conversation, number, answer and policy and stays
\* unfinished: a reclaim, a failure report, an expired lease.
Rework(t) ==
  /\ Unfinished(t) /\ Unfinished(t)'
  /\ \A u \in Turns \ {t} : turn'[u] = turn[u]
  /\ turn'[t].conv = turn[t].conv /\ turn'[t].seq = turn[t].seq
  /\ turn'[t].source = turn[t].source
  /\ UNCHANGED msgs

AskStep(r, n) ==
  /\ r.turn \in Turns
  /\ n \in Latest(r.conv)
  /\ ~InTable(r.turn) /\ ~ConversationBusy(r)
  /\ turn' = [turn EXCEPT ![r.turn] = NewTurn(r, n)]
  /\ conv' = [conv EXCEPT ![r.conv] = [exists |-> TRUE, source |-> ResolvedSource(r)]]
  /\ msgs' = msgs \cup {Question(r, n)}

LEMMA GrantCases ==
  ASSUME TypeInv, NEW r \in Requests, GrantStep(r)
  PROVE  Rework(r.turn) \/ \E n \in Latest(r.conv) : AskStep(r, n)
<1>1. CASE InTable(r.turn)
  <2>1. turn' = [turn EXCEPT ![r.turn] =
             [turn[r.turn] EXCEPT !.state = "processing", !.token = NewToken,
                                  !.leased = TRUE]]
        /\ UNCHANGED msgs
    BY <1>1 DEF GrantStep, TakeTurn, TypeInv, TablesInv
  <2>2. Unfinished(r.turn)
    BY <1>1 DEF GrantStep, ClaimGranted, Reclaimable, Unfinished
  <2>3. turn[r.turn] \in TurnRow /\ r.turn \in Turns
    BY DEF GrantStep, TypeInv, TablesInv
  <2>4. turn'[r.turn] = [turn[r.turn] EXCEPT !.state = "processing", !.token = NewToken,
                                             !.leased = TRUE]
    BY <2>1, <2>3 DEF TypeInv, TablesInv
  <2>5. /\ turn'[r.turn].state = "processing"
        /\ turn'[r.turn].conv = turn[r.turn].conv
        /\ turn'[r.turn].seq = turn[r.turn].seq
        /\ turn'[r.turn].source = turn[r.turn].source
    BY <2>3, <2>4 DEF TurnRow
  <2>6. \A u \in Turns \ {r.turn} : turn'[u] = turn[u]
    BY <2>1 DEF TypeInv, TablesInv
  <2>7. QED
    BY <2>1, <2>2, <2>5, <2>6 DEF Rework, Unfinished
<1>2. CASE ~InTable(r.turn)
  BY <1>2 DEF GrantStep, TakeTurn, ClaimGranted, ClaimAdmitted, AskStep, NewTurn, Question
<1>3. QED
  BY <1>1, <1>2

LEMMA DemoteIsRework ==
  ASSUME TypeInv, NEW t \in Turns, DemoteStep(t)
  PROVE  Rework(t)
<1>1. turn[t] \in TurnRow
  BY DEF TypeInv, TablesInv
<1>2. CASE turn' = [turn EXCEPT ![t].state = "failed"]
  BY <1>1, <1>2 DEF DemoteStep, Rework, Unfinished, TypeInv, TablesInv, TurnRow
<1>3. CASE turn' = [turn EXCEPT ![t].leased = FALSE]
  BY <1>1, <1>3 DEF DemoteStep, Rework, Unfinished, TypeInv, TablesInv, TurnRow
<1>4. QED
  BY <1>2, <1>3 DEF DemoteStep

LEMMA ReworkInv ==
  ASSUME TypeInv, ChatInv, NEW t \in Turns, Rework(t)
  PROVE  ChatInv'
<1>1. \A u \in Turns : /\ Unfinished(u)' <=> Unfinished(u)
                       /\ InTable(u)' <=> InTable(u)
                       /\ turn'[u].conv = turn[u].conv
                       /\ turn'[u].seq = turn[u].seq
                       /\ (turn[u].state = "completed" => turn'[u] = turn[u])
                       /\ (turn'[u].state = "completed" => turn'[u] = turn[u])
  BY DEF Rework, Unfinished, InTable
<1>2. \A c : Of(c)' = Of(c)
  BY DEF Rework, Of
<1>3. OneUnfinished'
  BY <1>1 DEF ChatInv, OneUnfinished
<1>4. OpenQuestionIsLast'
  BY <1>1, <1>2 DEF ChatInv, OpenQuestionIsLast
<1>5. OneAnswer'
  BY <1>1 DEF ChatInv, OneAnswer, Rework
<1>6. RawBeforeTurns'
  BY <1>1 DEF ChatInv, RawBeforeTurns, Rework
<1>7. QED
  BY <1>3, <1>4, <1>5, <1>6 DEF ChatInv

LEMMA AskInv ==
  ASSUME TypeInv, ChatInv, NEW r \in Requests, NEW n, AskStep(r, n)
  PROVE  ChatInv'
<1> DEFINE t == r.turn
<1>1. /\ t \in Turns /\ t # Null /\ r.conv \in Convs
      /\ turn'[t] = NewTurn(r, n)
      /\ \A u \in Turns \ {t} : turn'[u] = turn[u]
  BY RequestFields, NullAssumption DEF AskStep, TypeInv, TablesInv
<1>2. Unfinished(t)' /\ turn'[t].conv = r.conv /\ turn'[t].seq = n + 1
  BY <1>1 DEF NewTurn, Unfinished
<1>3. \A u \in Turns \ {t} : /\ Unfinished(u)' <=> Unfinished(u)
                             /\ InTable(u)' <=> InTable(u)
  BY <1>1 DEF Unfinished, InTable
<1>4. \A u \in Turns : Unfinished(u) => turn[u].conv # r.conv
  BY DEF AskStep, ConversationBusy
<1>5. n \in Nat /\ \A m \in Of(r.conv) : m.seq <= n /\ m.seq \in Nat
  BY LatestType DEF AskStep, Latest, Sequences, Of, TypeInv, TablesInv, Message
<1>6. /\ Question(r, n).conv = r.conv /\ Question(r, n).seq = n + 1
      /\ Question(r, n).kind = "user" /\ Question(r, n).turn = t
  BY DEF Question
<1>7. msgs' = msgs \cup {Question(r, n)}
  BY DEF AskStep
<1>8. OneUnfinished'
  BY <1>1, <1>2, <1>3, <1>4 DEF ChatInv, OneUnfinished
<1>9. OpenQuestionIsLast'
  <2> SUFFICES ASSUME NEW u \in Turns, Unfinished(u)'
               PROVE /\ \E m \in Of(turn[u].conv)' :
                          m.seq = turn'[u].seq /\ m.turn = u /\ m.kind = "user"
                     /\ \A m \in Of(turn[u].conv)' : m.seq <= turn'[u].seq
    BY DEF OpenQuestionIsLast
  <2>1. CASE u = t
    <3>1. Of(turn[u].conv)' = Of(r.conv) \cup {Question(r, n)}
      BY <1>2, <1>6, <1>7, <2>1 DEF Of
    <3>2. \A m \in Of(r.conv) \cup {Question(r, n)} : m.seq <= n + 1
      BY <1>5, <1>6
    <3>3. QED
      BY <1>2, <1>6, <2>1, <3>1, <3>2
  <2>2. CASE u # t
    <3>1. Unfinished(u) /\ turn'[u] = turn[u] /\ turn[u].conv # r.conv
      BY <1>1, <1>3, <1>4, <2>2
    <3>2. Of(turn[u].conv)' = Of(turn[u].conv)
      BY <1>6, <1>7, <3>1 DEF Of
    <3>3. QED
      BY <3>1, <3>2 DEF ChatInv, OpenQuestionIsLast
  <2>3. QED
    BY <2>1, <2>2
<1>10. OneAnswer'
  <2> SUFFICES ASSUME NEW u \in Turns
               PROVE  {m \in msgs' : m.turn = u /\ m.kind = "assistant"} =
                        IF turn'[u].state # "completed" THEN {}
                        ELSE {[conv |-> turn'[u].conv, seq |-> turn'[u].seq + 1,
                               kind |-> "assistant", turn |-> u,
                               text |-> turn'[u].answer, policy |-> turn'[u].policy]}
    BY DEF OneAnswer
  <2>1. {m \in msgs' : m.turn = u /\ m.kind = "assistant"} =
          {m \in msgs : m.turn = u /\ m.kind = "assistant"}
    BY <1>6, <1>7
  <2>2. CASE u = t
    <3>1. turn[u].state # "completed" /\ turn'[u].state # "completed"
      BY <1>1, <2>2 DEF AskStep, InTable, NewTurn
    <3>2. QED
      BY <2>1, <3>1 DEF ChatInv, OneAnswer
  <2>3. CASE u # t
    BY <1>1, <2>1, <2>3 DEF ChatInv, OneAnswer
  <2>4. QED
    BY <2>2, <2>3
<1>11. RawBeforeTurns'
  <2> SUFFICES ASSUME NEW m \in msgs', m.turn = Null, NEW u \in Turns, InTable(u)',
                      turn'[u].conv = m.conv
               PROVE  m.seq < turn'[u].seq
    BY DEF RawBeforeTurns
  <2>1. m \in msgs
    BY <1>1, <1>6, <1>7
  <2>2. CASE u = t
    BY <1>2, <1>5, <2>1, <2>2 DEF Of
  <2>3. CASE u # t
    BY <1>1, <1>3, <2>1, <2>3 DEF ChatInv, RawBeforeTurns
  <2>4. QED
    BY <2>2, <2>3
<1>12. QED
  BY <1>8, <1>9, <1>10, <1>11 DEF ChatInv

LEMMA AnswerInv ==
  ASSUME TypeInv, ChatInv, NEW t \in Turns, NEW k, NEW a \in Answers, NEW p \in Policies,
         AnswerStep(t, k, a, p)
  PROVE  ChatInv'
<1> DEFINE row == [turn[t] EXCEPT !.state = "completed", !.answer = a, !.policy = p]
           new == Reply1(t, a, p)
<1>1. turn[t].state = "processing" /\ turn[t] \in TurnRow /\ t # Null
  BY NullAssumption DEF AnswerStep, CompletionAdmitted, CurrentWorker, TypeInv, TablesInv
<1>2. /\ turn'[t] = row
      /\ \A u \in Turns \ {t} : turn'[u] = turn[u]
      /\ msgs' = msgs \cup {new}
  BY DEF AnswerStep, StoreAnswer, TypeInv, TablesInv, Reply1
<1>3. /\ row.state = "completed" /\ row.conv = turn[t].conv /\ row.seq = turn[t].seq
      /\ row.answer = a /\ row.policy = p
  BY <1>1 DEF TurnRow
<1>4. new.conv = turn[t].conv /\ new.kind = "assistant" /\ new.turn = t
  BY DEF Reply1
<1>5. \A u \in Turns : Unfinished(u)' <=> Unfinished(u) /\ u # t
  BY <1>2, <1>3 DEF Unfinished
<1>6. \A u \in Turns : turn'[u].conv = turn[u].conv /\ turn'[u].seq = turn[u].seq
                       /\ (InTable(u)' <=> InTable(u))
  BY <1>1, <1>2, <1>3 DEF InTable
<1>7. OneUnfinished'
  BY <1>5, <1>6 DEF ChatInv, OneUnfinished
<1>8. OpenQuestionIsLast'
  <2> SUFFICES ASSUME NEW u \in Turns, Unfinished(u)'
               PROVE /\ \E m \in Of(turn[u].conv)' :
                          m.seq = turn'[u].seq /\ m.turn = u /\ m.kind = "user"
                     /\ \A m \in Of(turn[u].conv)' : m.seq <= turn'[u].seq
    BY DEF OpenQuestionIsLast
  <2>1. Unfinished(u) /\ u # t
    BY <1>5
  <2>2. turn[u].conv # turn[t].conv
    BY <1>1, <2>1 DEF ChatInv, OneUnfinished, Unfinished
  <2>3. Of(turn[u].conv)' = Of(turn[u].conv)
    BY <1>2, <1>4, <1>6, <2>2 DEF Of
  <2>4. QED
    BY <1>6, <2>1, <2>3 DEF ChatInv, OpenQuestionIsLast
<1>9. OneAnswer'
  <2> SUFFICES ASSUME NEW u \in Turns
               PROVE  {m \in msgs' : m.turn = u /\ m.kind = "assistant"} =
                        IF turn'[u].state # "completed" THEN {}
                        ELSE {[conv |-> turn'[u].conv, seq |-> turn'[u].seq + 1,
                               kind |-> "assistant", turn |-> u,
                               text |-> turn'[u].answer, policy |-> turn'[u].policy]}
    BY DEF OneAnswer
  <2>1. CASE u = t
    <3>1. {m \in msgs : m.turn = t /\ m.kind = "assistant"} = {}
      BY <1>1 DEF ChatInv, OneAnswer
    <3>2. {m \in msgs' : m.turn = t /\ m.kind = "assistant"} = {new}
      BY <1>2, <1>4, <3>1
    <3>3. new = [conv |-> turn'[t].conv, seq |-> turn'[t].seq + 1,
                 kind |-> "assistant", turn |-> t,
                 text |-> turn'[t].answer, policy |-> turn'[t].policy]
      BY <1>2, <1>3 DEF Reply1
    <3>4. QED
      BY <1>2, <1>3, <2>1, <3>2, <3>3
  <2>2. CASE u # t
    <3>1. {m \in msgs' : m.turn = u /\ m.kind = "assistant"} =
            {m \in msgs : m.turn = u /\ m.kind = "assistant"}
      BY <1>2, <1>4, <2>2
    <3>2. QED
      BY <1>2, <2>2, <3>1 DEF ChatInv, OneAnswer
  <2>3. QED
    BY <2>1, <2>2
<1>10. RawBeforeTurns'
  <2> SUFFICES ASSUME NEW m \in msgs', m.turn = Null, NEW u \in Turns, InTable(u)',
                      turn'[u].conv = m.conv
               PROVE  m.seq < turn'[u].seq
    BY DEF RawBeforeTurns
  <2>1. m \in msgs
    BY <1>1, <1>2, <1>4
  <2>2. QED
    BY <1>6, <2>1 DEF ChatInv, RawBeforeTurns
<1>11. QED
  BY <1>7, <1>8, <1>9, <1>10 DEF ChatInv

LEMMA RawInv ==
  ASSUME TypeInv, ChatInv, NEW c, NEW n, NEW kind, NEW text, NEW p,
         RawStep(c, n, kind, text, p)
  PROVE  ChatInv'
<1> DEFINE new == [conv |-> c, seq |-> n, kind |-> kind, turn |-> Null,
                   text |-> text, policy |-> p]
<1>1. msgs' = msgs \cup {new} /\ UNCHANGED turn /\ new.turn = Null /\ new.conv = c
  BY DEF RawStep
<1>2. \A t \in Turns : t # Null /\ (InTable(t) => turn[t].conv # c)
  BY NullAssumption DEF RawStep, Managed
<1>3. \A t \in Turns : Unfinished(t) => InTable(t)
  BY DEF Unfinished, InTable
<1>4. \A t \in Turns : InTable(t) => Of(turn[t].conv)' = Of(turn[t].conv)
  BY <1>1, <1>2 DEF Of
<1>5. OneUnfinished'
  BY <1>1 DEF ChatInv, OneUnfinished, Unfinished
<1>6. OpenQuestionIsLast'
  BY <1>1, <1>3, <1>4 DEF ChatInv, OpenQuestionIsLast, Unfinished
<1>7. OneAnswer'
  <2>1. \A t \in Turns : {m \in msgs' : m.turn = t /\ m.kind = "assistant"} =
                           {m \in msgs : m.turn = t /\ m.kind = "assistant"}
    BY <1>1, <1>2
  <2>2. QED
    BY <1>1, <2>1 DEF ChatInv, OneAnswer
<1>8. RawBeforeTurns'
  BY <1>1, <1>2 DEF ChatInv, RawBeforeTurns, InTable
<1>9. QED
  BY <1>5, <1>6, <1>7, <1>8 DEF ChatInv

LEMMA ChatInit == Init => ChatInv
<1> SUFFICES ASSUME Init PROVE ChatInv
  OBVIOUS
<1>1. \A t \in Turns : turn[t].state = "absent"
  BY DEF Init, AbsentTurn
<1>2. QED
  BY <1>1 DEF Init, ChatInv, OneUnfinished, OpenQuestionIsLast, OneAnswer,
              RawBeforeTurns, Unfinished

LEMMA ChatStep == TypeInv /\ ChatInv /\ [Next]_vars => ChatInv'
<1> SUFFICES ASSUME TypeInv, ChatInv, [Next]_vars PROVE ChatInv'
  OBVIOUS
<1>1. TableStep
  BY NextTableStep
<1>2. CASE UNCHANGED <<turn, msgs>>
  BY <1>2 DEF ChatInv, OneUnfinished, OpenQuestionIsLast, OneAnswer, RawBeforeTurns,
              Unfinished, InTable, Of
<1>3. ASSUME NEW r \in Requests, GrantStep(r) PROVE ChatInv'
  <2>1. r.turn \in Turns
    BY <1>3 DEF GrantStep
  <2>2. QED
    BY <1>3, <2>1, GrantCases, ReworkInv, AskInv
<1>4. ASSUME NEW t \in Turns, DemoteStep(t) PROVE ChatInv'
  BY <1>4, DemoteIsRework, ReworkInv
<1>5. QED
  BY <1>1, <1>2, <1>3, <1>4, AnswerInv, RawInv DEF TableStep

\* In every reachable state of every instance: one unfinished turn per
\* conversation, its question last, one stored answer per completed turn right
\* after its question, and nothing raw after a turn's question.
THEOREM TranscriptSafety ==
  Spec => [](OneUnfinished /\ OpenQuestionIsLast /\ OneAnswer /\ RawBeforeTurns)
<1>1. Spec => [](TypeInv /\ ChatInv)
  BY TypeInit, TypeStep, ChatInit, ChatStep, PTL DEF Spec
<1>2. ChatInv => OneUnfinished /\ OpenQuestionIsLast /\ OneAnswer /\ RawBeforeTurns
  BY DEF ChatInv
<1>3. QED
  BY <1>1, <1>2, PTL

-------------------------------------------------------------------------------
(* Receipts.                                                                  *)

LEMMA ReceiptStep ==
  ASSUME TypeInv, [Next]_vars
  PROVE  /\ msgs \subseteq msgs'
         /\ \A t \in Turns : turn[t].state = "completed" => turn'[t] = turn[t]
<1>1. TableStep
  BY NextTableStep
<1>2. ASSUME NEW r \in Requests, GrantStep(r)
      PROVE  /\ msgs \subseteq msgs'
             /\ \A t \in Turns : turn[t].state = "completed" => turn'[t] = turn[t]
  <2>1. CASE Rework(r.turn)
    BY <2>1 DEF Rework, Unfinished
  <2>2. ASSUME NEW n, AskStep(r, n)
        PROVE  /\ msgs \subseteq msgs'
               /\ \A t \in Turns : turn[t].state = "completed" => turn'[t] = turn[t]
    BY <2>2 DEF AskStep, InTable, TypeInv, TablesInv
  <2>3. QED
    BY <1>2, <2>1, <2>2, GrantCases
<1>3. ASSUME NEW t \in Turns, NEW k, NEW a \in Answers, NEW p \in Policies,
             AnswerStep(t, k, a, p)
      PROVE  /\ msgs \subseteq msgs'
             /\ \A u \in Turns : turn[u].state = "completed" => turn'[u] = turn[u]
  BY <1>3 DEF AnswerStep, StoreAnswer, CompletionAdmitted, CurrentWorker, TypeInv,
              TablesInv
<1>4. ASSUME NEW t \in Turns, DemoteStep(t)
      PROVE  /\ msgs \subseteq msgs'
             /\ \A u \in Turns : turn[u].state = "completed" => turn'[u] = turn[u]
  BY <1>4, DemoteIsRework DEF Rework, Unfinished
<1>5. ASSUME NEW c, NEW n, NEW kind, NEW text, NEW p, RawStep(c, n, kind, text, p)
      PROVE  msgs \subseteq msgs' /\ UNCHANGED turn
  BY <1>5 DEF RawStep
<1>6. QED
  BY <1>1, <1>2, <1>3, <1>4, <1>5 DEF TableStep

\* Stored messages and receipts outlive every later step.
THEOREM ReceiptsArePermanent == Spec => ReceiptsPermanent
<1>1. TypeInv /\ [Next]_vars =>
        [/\ msgs \subseteq msgs'
         /\ \A t \in Turns : turn[t].state = "completed" => turn'[t] = turn[t]]_vars
  BY ReceiptStep
<1>2. QED
  BY <1>1, TypeInvariance, PTL DEF Spec, ReceiptsPermanent

-------------------------------------------------------------------------------
(* Worker tokens: who may act on a turn.                                      *)

TokenStep ==
  \/ \A h \in Handlers : handler'[h].token \in {handler[h].token, Null}
  \/ \E h \in Handlers :
       /\ FreshTokens # {}
       /\ handler'[h].token = NewToken
       /\ \A g \in Handlers \ {h} : handler'[g] = handler[g]

LEMMA MoveTokens ==
  ASSUME TypeInv, NEW h \in Handlers
  PROVE  /\ Finish(h) => TokenStep
         /\ \A pc : Goto(h, pc) => TokenStep
         /\ Abort(h) => TokenStep
         /\ \A r, a, p : Reply(h, r, a, p) => TokenStep
<1>1. \A g \in Handlers : handler[g] \in HandlerState
  BY DEF TypeInv, HandlersInv
<1>2. Finish(h) => TokenStep
  BY <1>1 DEF Finish, IdleHandler, TokenStep, TypeInv, HandlersInv, HandlerState
<1>3. \A pc : Goto(h, pc) => TokenStep
  BY <1>1 DEF Goto, TokenStep, TypeInv, HandlersInv, HandlerState
<1>4. \A r, a, p : Reply(h, r, a, p) => TokenStep
  BY <1>1 DEF Reply, IdleHandler, TokenStep, TypeInv, HandlersInv, HandlerState
<1>5. QED
  BY <1>2, <1>3, <1>4 DEF Abort

LEMMA KeepToken ==
  ASSUME TypeInv, NEW h \in Handlers, NEW w, w.token = handler[h].token,
         handler' = [handler EXCEPT ![h] = w]
  PROVE  TokenStep
  BY DEF TokenStep, TypeInv, HandlersInv

LEMMA HandlerTokenStep ==
  ASSUME TypeInv, NEW h \in Handlers, HandlerStep(h)
  PROVE  TokenStep
<1>1. handler[h] \in HandlerState /\ handler \in [Handlers -> HandlerState]
  BY DEF TypeInv, HandlersInv
<1>2. CASE Claim(h)
  <2>1. CASE ClaimGrants(h)
    BY <1>1, <2>1 DEF ClaimGrants, TakeTurn, TokenStep, HandlerState
  <2>2. CASE ClaimReplays(h) \/ ClaimRefuses(h)
    BY <2>2, MoveTokens DEF ClaimReplays, ClaimRefuses
  <2>3. QED
    BY <1>2, <2>1, <2>2 DEF Claim
<1>3. CASE Resolve(h)
  <2>1. \/ Abort(h)
        \/ \E ctx : handler' = [handler EXCEPT ![h] =
                                 [handler[h] EXCEPT !.pc = "reading", !.ctx = ctx]]
    BY <1>1, <1>3 DEF Resolve
  <2>2. \A ctx : [handler[h] EXCEPT !.pc = "reading", !.ctx = ctx].token = handler[h].token
    BY <1>1 DEF HandlerState
  <2>3. ASSUME NEW ctx,
               handler' = [handler EXCEPT ![h] = [handler[h] EXCEPT !.pc = "reading", !.ctx = ctx]]
        PROVE  TokenStep
    BY <2>2, <2>3, KeepToken
  <2>4. QED
    BY <2>1, <2>3, MoveTokens
<1>4. CASE ReadHistory(h)
  <2>1. \/ Abort(h)
        \/ \E pc, p : handler' = [handler EXCEPT ![h] =
                                   [handler[h] EXCEPT !.pc = pc, !.policy = p]]
    BY <1>1, <1>4 DEF ReadHistory
  <2>2. \A pc, p : [handler[h] EXCEPT !.pc = pc, !.policy = p].token = handler[h].token
    BY <1>1 DEF HandlerState
  <2>3. ASSUME NEW pc, NEW p,
               handler' = [handler EXCEPT ![h] = [handler[h] EXCEPT !.pc = pc, !.policy = p]]
        PROVE  TokenStep
    BY <2>2, <2>3, KeepToken
  <2>4. QED
    BY <2>1, <2>3, MoveTokens
<1>5. CASE NumberQuestion(h) \/ NumberAnswer(h)
  <2>1. \E pc, n : handler' = [handler EXCEPT ![h] =
                                [handler[h] EXCEPT !.pc = pc, !.seq = n]]
    BY <1>1, <1>5 DEF NumberQuestion, NumberAnswer, ReadSequence
  <2>2. \A pc, n : [handler[h] EXCEPT !.pc = pc, !.seq = n].token = handler[h].token
    BY <1>1 DEF HandlerState
  <2>3. QED
    BY <2>1, <2>2, KeepToken
<1>6. CASE SaveQuestion(h) \/ SaveAnswer(h)
  BY <1>6, MoveTokens DEF SaveQuestion, SaveAnswer, InsertRaw
<1>7. CASE Generate(h)
  <2>1. \/ Abort(h)
        \/ \E pc, p, a : handler' = [handler EXCEPT ![h] =
             [handler[h] EXCEPT !.pc = pc, !.policy = p, !.answer = a]]
    BY <1>1, <1>7 DEF Generate
  <2>2. ASSUME NEW pc, NEW p, NEW a,
               handler' = [handler EXCEPT ![h] = [handler[h] EXCEPT !.pc = pc, !.policy = p, !.answer = a]]
        PROVE  TokenStep
    <3> DEFINE w == [handler[h] EXCEPT !.pc = pc, !.policy = p, !.answer = a]
    <3>1. w.token = handler[h].token /\ handler' = [handler EXCEPT ![h] = w]
      BY <1>1, <2>2 DEF HandlerState
    <3> HIDE DEF w
    <3>2. QED
      BY <3>1, KeepToken
  <2>3. QED
    BY <2>1, <2>2, MoveTokens
<1>8. CASE Check(h) \/ Complete(h) \/ Confirm(h) \/ ReportFailure(h)
  BY <1>8, MoveTokens DEF Check, Complete, Confirm, ReportFailure
<1>9. QED
  BY <1>2, <1>3, <1>4, <1>5, <1>6, <1>7, <1>8 DEF HandlerStep

LEMMA NextTokenStep ==
  ASSUME TypeInv, [Next]_vars
  PROVE  TokenStep
<1>1. handler \in [Handlers -> HandlerState]
  BY DEF TypeInv, HandlersInv
<1>2. UNCHANGED handler => TokenStep
  BY DEF TokenStep
<1>3. ASSUME NEW h \in Handlers, NEW r \in Requests, Post(h, r) \/ Status(h, r)
      PROVE  TokenStep
  <2>1. CASE Post(h, r)
    BY <1>1, <2>1 DEF Post, IdleHandler, TokenStep
  <2>2. CASE Status(h, r)
    BY <2>2, MoveTokens DEF Status
  <2>3. QED
    BY <1>3, <2>1, <2>2
<1>4. ASSUME NEW h \in Handlers, Crash(h) \/ CallFails(h) \/ LoseRpc(h)
      PROVE  TokenStep
  BY <1>4, MoveTokens DEF Crash, CallFails, LoseRpc
<1>5. ASSUME NEW m \in inflight, RunLate(m) PROVE UNCHANGED handler
  BY <1>5 DEF RunLate
<1>6. ASSUME NEW t \in Turns, LeaseExpires(t) PROVE UNCHANGED handler
  BY <1>6 DEF LeaseExpires
<1>7. Administer => UNCHANGED handler
  BY DEF Administer, RevokeAccess, RestoreAccess, ChangeAudience, WithdrawSource,
         RestoreSource
<1>8. UNCHANGED vars => UNCHANGED handler
  BY DEF vars
<1>9. QED
  BY <1>2, <1>3, <1>4, <1>5, <1>6, <1>7, <1>8, HandlerTokenStep DEF Next

LEMMA SoleWorkerStep == TypeInv /\ SoleWorker /\ [Next]_vars => SoleWorker'
<1> SUFFICES ASSUME TypeInv, SoleWorker, [Next]_vars PROVE SoleWorker'
  OBVIOUS
<1>1. CASE \A h \in Handlers : handler'[h].token \in {handler[h].token, Null}
  BY <1>1 DEF SoleWorker
<1>2. ASSUME NEW h \in Handlers, FreshTokens # {}, handler'[h].token = NewToken,
             \A g \in Handlers \ {h} : handler'[g] = handler[g]
      PROVE  SoleWorker'
  <2>1. \A g \in Handlers : handler[g].token # NewToken
    BY <1>2, NewTokenFresh DEF HeldTokens
  <2>2. QED
    BY <1>2, <2>1 DEF SoleWorker
<1>3. QED
  BY <1>1, <1>2, NextTokenStep DEF TokenStep

\* No two handlers ever hold the same worker token.
THEOREM OneWorkerPerToken == Spec => []SoleWorker
<1>1. Init => SoleWorker
  BY DEF Init, SoleWorker, IdleHandler
<1>2. QED
  BY <1>1, SoleWorkerStep, TypeInvariance, PTL DEF Spec

-------------------------------------------------------------------------------
(* Replies: what a client is told, and when.                                  *)

\* What a handler confirms or has replied is the receipt of its turn.
ReplyInv ==
  \A h \in Handlers :
    At(h, "confirming") \/ (At(h, "replied") /\ Keyed(handler[h].req)) =>
      /\ turn[handler[h].req.turn].state = "completed"
      /\ turn[handler[h].req.turn].answer = handler[h].answer

Silent(h) ==
  \E w : w.pc \notin {"confirming", "replied"} /\ handler' = [handler EXCEPT ![h] = w]

Serves(h, r, a, p) ==
  /\ Reply(h, r, a, p)
  /\ CheckPolicy(p)
  /\ Keyed(r) => turn[r.turn].state = "completed" /\ turn[r.turn].answer = a

Stores(h) ==
  /\ handler[h].req.turn \in Turns
  /\ StoreAnswer(handler[h].req.turn, handler[h].answer, handler[h].policy)
  /\ Goto(h, "confirming")

\* How one step moves the handlers, as far as replies go.
ReplyStep ==
  \/ UNCHANGED handler
  \/ \E h \in Handlers : Silent(h) \/ Stores(h)
  \/ \E h \in Handlers, r \in Requests : \E a, p : Serves(h, r, a, p)

LEMMA SilentMoves ==
  ASSUME TypeInv, NEW h \in Handlers
  PROVE  /\ Finish(h) => Silent(h)
         /\ \A pc : pc \notin {"confirming", "replied"} /\ Goto(h, pc) => Silent(h)
         /\ Abort(h) => Silent(h)
<1>1. handler \in [Handlers -> HandlerState] /\ handler[h] \in HandlerState
  BY DEF TypeInv, HandlersInv
<1>2. Finish(h) => Silent(h)
  BY DEF Finish, Silent, IdleHandler
<1>3. ASSUME NEW pc, pc \notin {"confirming", "replied"}, Goto(h, pc) PROVE Silent(h)
  <2> DEFINE w == [handler[h] EXCEPT !.pc = pc]
  <2>1. w.pc = pc /\ handler' = [handler EXCEPT ![h] = w]
    BY <1>1, <1>3 DEF Goto, HandlerState
  <2>2. QED
    BY <1>3, <2>1 DEF Silent
<1>4. Abort(h) => Silent(h)
  BY <1>2, <1>3 DEF Abort
<1>5. QED
  BY <1>2, <1>3, <1>4

LEMMA HandlerReplyStep ==
  ASSUME TypeInv, ReplyInv, NEW h \in Handlers, HandlerStep(h)
  PROVE  ReplyStep
<1> DEFINE w == handler[h]
<1>1. w \in HandlerState /\ handler \in [Handlers -> HandlerState]
  BY DEF TypeInv, HandlersInv
<1>2. Silent(h) => ReplyStep
  BY DEF ReplyStep
<1>3. CASE Claim(h)
  <2>1. w.req \in Requests /\ w.req.turn \in Turns
    BY <1>3 DEF Claim, At, TypeInv, HandlersInv, WorkerOK
  <2>2. CASE ClaimGrants(h)
    <3> DEFINE v == [w EXCEPT !.pc = "resolving", !.token = NewToken,
                              !.seq = turn'[w.req.turn].seq]
    <3>1. v.pc = "resolving" /\ handler' = [handler EXCEPT ![h] = v]
      BY <1>1, <2>2 DEF ClaimGrants, HandlerState
    <3>2. QED
      BY <1>2, <3>1 DEF Silent
  <2>3. CASE ClaimReplays(h)
    BY <2>1, <2>3 DEF ClaimReplays, ReceiptReadable, Serves, ReplyStep
  <2>4. CASE ClaimRefuses(h)
    BY <1>2, <2>4, SilentMoves DEF ClaimRefuses
  <2>5. QED
    BY <1>3, <2>2, <2>3, <2>4 DEF Claim
<1>4. CASE Resolve(h)
  <2>1. ASSUME NEW ctx, handler' = [handler EXCEPT ![h] =
                                      [w EXCEPT !.pc = "reading", !.ctx = ctx]]
        PROVE  Silent(h)
    BY <1>1, <2>1 DEF Silent, HandlerState
  <2>2. QED
    BY <1>2, <1>4, <2>1, SilentMoves DEF Resolve
<1>5. CASE ReadHistory(h)
  <2>1. ASSUME NEW pc \in {"answering", "numbering"}, NEW p,
               handler' = [handler EXCEPT ![h] = [w EXCEPT !.pc = pc, !.policy = p]]
        PROVE  Silent(h)
    BY <1>1, <2>1 DEF Silent, HandlerState
  <2>2. QED
    BY <1>2, <1>5, <2>1, SilentMoves DEF ReadHistory
<1>6. CASE NumberQuestion(h) \/ NumberAnswer(h)
  <2>1. ASSUME NEW pc \in {"asking", "saving"}, NEW n,
               handler' = [handler EXCEPT ![h] = [w EXCEPT !.pc = pc, !.seq = n]]
        PROVE  Silent(h)
    BY <1>1, <2>1 DEF Silent, HandlerState
  <2>2. QED
    BY <1>2, <1>6, <2>1 DEF NumberQuestion, NumberAnswer, ReadSequence
<1>7. CASE SaveQuestion(h) \/ SaveAnswer(h)
  BY <1>2, <1>7, SilentMoves DEF SaveQuestion, SaveAnswer, InsertRaw
<1>8. CASE Generate(h)
  <2>1. ASSUME NEW pc \in {"checking", "drafting"}, NEW p, NEW a,
               handler' = [handler EXCEPT ![h] =
                             [w EXCEPT !.pc = pc, !.policy = p, !.answer = a]]
        PROVE  Silent(h)
    BY <1>1, <2>1 DEF Silent, HandlerState
  <2>2. QED
    BY <1>2, <1>8, <2>1, SilentMoves DEF Generate
<1>9. CASE Check(h)
  <2>1. w.req \in Requests
    BY <1>9 DEF Check, At, TypeInv, HandlersInv, WorkerOK
  <2>2. CASE CheckPolicy(w.policy) /\ ~Keyed(w.req)
    BY <1>9, <2>1, <2>2 DEF Check, Serves, ReplyStep
  <2>3. CASE ~(CheckPolicy(w.policy) /\ ~Keyed(w.req))
    BY <1>2, <1>9, <2>3, SilentMoves DEF Check
  <2>4. QED
    BY <2>2, <2>3
<1>10. CASE Complete(h)
  <2>1. w.req.turn \in Turns
    BY <1>10 DEF Complete, At, TypeInv, HandlersInv, WorkerOK
  <2>2. QED
    BY <1>2, <1>10, <2>1, SilentMoves DEF Complete, Stores, ReplyStep
<1>11. CASE Confirm(h)
  <2>1. w.req \in Requests
    BY <1>11 DEF Confirm, At, TypeInv, HandlersInv, WorkerOK
  <2>2. CASE CheckPolicy(w.policy)
    BY <1>11, <2>1, <2>2 DEF Confirm, At, ReplyInv, Serves, ReplyStep
  <2>3. CASE ~CheckPolicy(w.policy)
    BY <1>2, <1>11, <2>3, SilentMoves DEF Confirm
  <2>4. QED
    BY <2>2, <2>3
<1>12. CASE ReportFailure(h)
  BY <1>2, <1>12, SilentMoves DEF ReportFailure
<1>13. QED
  BY <1>3, <1>4, <1>5, <1>6, <1>7, <1>8, <1>9, <1>10, <1>11, <1>12 DEF HandlerStep

LEMMA NextReplyStep ==
  ASSUME TypeInv, ReplyInv, [Next]_vars
  PROVE  ReplyStep
<1>1. UNCHANGED handler => ReplyStep
  BY DEF ReplyStep
<1>2. ASSUME NEW h \in Handlers, Silent(h) PROVE ReplyStep
  BY <1>2 DEF ReplyStep
<1>3. ASSUME NEW h \in Handlers, NEW r \in Requests, Post(h, r) PROVE ReplyStep
  <2> DEFINE w == [IdleHandler EXCEPT !.pc = IF Keyed(r) THEN "claiming" ELSE "resolving",
                                      !.req = r]
  <2>1. w.pc \notin {"confirming", "replied"} /\ handler' = [handler EXCEPT ![h] = w]
    BY <1>3 DEF Post, IdleHandler
  <2>2. QED
    BY <1>2, <2>1 DEF Silent
<1>4. ASSUME NEW h \in Handlers, NEW r \in Requests, Status(h, r) PROVE ReplyStep
  BY <1>4 DEF Status, ReceiptReadable, Serves, ReplyStep
<1>5. ASSUME NEW h \in Handlers, Crash(h) \/ CallFails(h) \/ LoseRpc(h)
      PROVE  ReplyStep
  BY <1>2, <1>5, SilentMoves DEF Crash, CallFails, LoseRpc
<1>6. ASSUME NEW m \in inflight, RunLate(m) PROVE UNCHANGED handler
  BY <1>6 DEF RunLate
<1>7. ASSUME NEW t \in Turns, LeaseExpires(t) PROVE UNCHANGED handler
  BY <1>7 DEF LeaseExpires
<1>8. CASE Administer
  BY <1>1, <1>8 DEF Administer, RevokeAccess, RestoreAccess, ChangeAudience,
                    WithdrawSource, RestoreSource
<1>9. CASE UNCHANGED vars
  BY <1>1, <1>9 DEF vars
<1>10. QED
  BY <1>1, <1>3, <1>4, <1>5, <1>6, <1>7, <1>8, <1>9, HandlerReplyStep DEF Next

\* A handler that stays where it was keeps its receipt: completed turns do not
\* change.
LEMMA ReceiptStays ==
  ASSUME TypeInv, ReplyInv, [Next]_vars, NEW h \in Handlers,
         At(h, "confirming") \/ (At(h, "replied") /\ Keyed(handler[h].req))
  PROVE  /\ turn'[handler[h].req.turn].state = "completed"
         /\ turn'[handler[h].req.turn].answer = handler[h].answer
<1>1. handler[h].req.turn \in Turns
  BY RequestFields DEF At, TypeInv, HandlersInv, WorkerOK
<1>2. QED
  BY <1>1, ReceiptStep DEF ReplyInv

LEMMA ReplyInvStep == TypeInv /\ ReplyInv /\ [Next]_vars => ReplyInv'
<1> SUFFICES ASSUME TypeInv, ReplyInv, [Next]_vars, NEW g \in Handlers,
                    \/ At(g, "confirming")'
                    \/ (At(g, "replied") /\ Keyed(handler[g].req))'
             PROVE  /\ turn'[handler'[g].req.turn].state = "completed"
                    /\ turn'[handler'[g].req.turn].answer = handler'[g].answer
  BY DEF ReplyInv
<1>1. handler \in [Handlers -> HandlerState] /\ turn \in [Turns -> TurnRow]
  BY DEF TypeInv, HandlersInv, TablesInv
<1>2. CASE handler'[g] = handler[g]
  BY <1>2, ReceiptStays DEF At, Keyed
<1>3. CASE handler'[g] # handler[g]
  <2>1. ASSUME NEW h \in Handlers, Silent(h) PROVE FALSE
    BY <1>1, <1>3, <2>1 DEF Silent, At
  <2>2. ASSUME NEW h \in Handlers, Stores(h)
        PROVE  /\ turn'[handler'[g].req.turn].state = "completed"
               /\ turn'[handler'[g].req.turn].answer = handler'[g].answer
    <3>1. g = h
      BY <1>1, <1>3, <2>2 DEF Stores, Goto
    <3>2. handler'[g].req = handler[g].req /\ handler'[g].answer = handler[g].answer
      BY <1>1, <2>2, <3>1 DEF Stores, Goto, HandlerState
    <3>3. QED
      BY <1>1, <2>2, <3>1, <3>2 DEF Stores, StoreAnswer, TurnRow
  <2>3. ASSUME NEW h \in Handlers, NEW r \in Requests, NEW a, NEW p, Serves(h, r, a, p)
        PROVE  /\ turn'[handler'[g].req.turn].state = "completed"
               /\ turn'[handler'[g].req.turn].answer = handler'[g].answer
    <3>1. g = h
      BY <1>1, <1>3, <2>3 DEF Serves, Reply
    <3>2. handler'[g].req = r /\ handler'[g].answer = a /\ handler'[g].pc = "replied"
      BY <1>1, <2>3, <3>1 DEF Serves, Reply, IdleHandler
    <3>3. Keyed(r) /\ r.turn \in Turns
      BY <3>2, RequestFields DEF At, Keyed
    <3>4. QED
      BY <2>3, <3>2, <3>3, ReceiptStep DEF Serves
  <2>4. QED
    BY <1>3, <2>1, <2>2, <2>3, NextReplyStep DEF ReplyStep
<1>4. QED
  BY <1>2, <1>3

\* What handlers are about to confirm or have replied is stored in every
\* reachable state.
THEOREM ReplyInvariance == Spec => [](TypeInv /\ ReplyInv)
<1>1. Init => ReplyInv
  BY DEF Init, ReplyInv, At, IdleHandler
<1>2. QED
  BY <1>1, TypeInit, TypeStep, ReplyInvStep, PTL DEF Spec

\* Whoever answered a client (a worker, a replayed claim or a status read), the
\* client saw the answer that the turn's receipt stores for good.
THEOREM ClientsSeeReceipts == Spec => []RepliesAreReceipts
<1>1. ReplyInv => RepliesAreReceipts
  BY DEF ReplyInv, RepliesAreReceipts, Keyed
<1>2. QED
  BY <1>1, ReplyInvariance, PTL

\* Every reply leaves at a moment when its reader may read all its sources.
THEOREM RepliesAreAuthorised == Spec => RepliesUnderCurrentPolicy
<1>1. ASSUME TypeInv, ReplyInv, [Next]_vars, NEW h \in Handlers,
             handler'[h].pc = "replied", handler'[h] # handler[h]
      PROVE  CheckPolicy(handler'[h].policy)
  <2>1. handler \in [Handlers -> HandlerState]
    BY <1>1 DEF TypeInv, HandlersInv
  <2>2. ASSUME NEW g \in Handlers, Silent(g) PROVE FALSE
    BY <1>1, <2>1, <2>2 DEF Silent
  <2>3. ASSUME NEW g \in Handlers, Stores(g) PROVE FALSE
    BY <1>1, <2>1, <2>3 DEF Stores, Goto, HandlerState
  <2>4. ASSUME NEW g \in Handlers, NEW r \in Requests, NEW a, NEW p, Serves(g, r, a, p)
        PROVE  CheckPolicy(handler'[h].policy)
    BY <1>1, <2>1, <2>4 DEF Serves, Reply, IdleHandler
  <2>5. QED
    BY <1>1, <2>2, <2>3, <2>4, NextReplyStep DEF ReplyStep
<1>2. TypeInv /\ ReplyInv /\ [Next]_vars =>
        [\A h \in Handlers :
           handler'[h].pc = "replied" /\ handler'[h] # handler[h]
           => CheckPolicy(handler'[h].policy)]_vars
  BY <1>1
<1>3. QED
  BY <1>2, ReplyInvariance, PTL DEF Spec, RepliesUnderCurrentPolicy

-------------------------------------------------------------------------------
(* Fencing.                                                                   *)

\* A handler's step moves no other handler.
LEMMA OwnStep ==
  ASSUME TypeInv, NEW g \in Handlers, HandlerStep(g)
  PROVE  \A h \in Handlers \ {g} : handler'[h] = handler[h]
<1>1. handler \in [Handlers -> HandlerState]
  BY DEF TypeInv, HandlersInv
<1>2. ASSUME NEW w, handler' = [handler EXCEPT ![g] = w]
      PROVE  \A h \in Handlers \ {g} : handler'[h] = handler[h]
  BY <1>1, <1>2
<1>3. ASSUME NEW pc, Goto(g, pc)
      PROVE  \A h \in Handlers \ {g} : handler'[h] = handler[h]
  BY <1>1, <1>3 DEF Goto
<1>4. Finish(g) => \A h \in Handlers \ {g} : handler'[h] = handler[h]
  BY <1>1 DEF Finish
<1>5. Abort(g) => \A h \in Handlers \ {g} : handler'[h] = handler[h]
  BY <1>3, <1>4 DEF Abort
<1>6. \A r, a, p : Reply(g, r, a, p) =>
                     \A h \in Handlers \ {g} : handler'[h] = handler[h]
  BY <1>1 DEF Reply
<1>7. CASE Claim(g)
  BY <1>1, <1>4, <1>6, <1>7 DEF Claim, ClaimGrants, ClaimReplays, ClaimRefuses
<1>8. CASE Resolve(g)
  BY <1>1, <1>5, <1>8 DEF Resolve
<1>9. CASE ReadHistory(g)
  BY <1>1, <1>5, <1>9 DEF ReadHistory
<1>10. CASE NumberQuestion(g) \/ NumberAnswer(g)
  BY <1>1, <1>10 DEF NumberQuestion, NumberAnswer, ReadSequence
<1>11. CASE SaveQuestion(g) \/ SaveAnswer(g)
  BY <1>3, <1>5, <1>11 DEF SaveQuestion, SaveAnswer, InsertRaw
<1>12. CASE Generate(g)
  BY <1>1, <1>5, <1>12 DEF Generate
<1>13. CASE Check(g) \/ Complete(g) \/ Confirm(g) \/ ReportFailure(g)
  BY <1>3, <1>4, <1>5, <1>6, <1>13 DEF Check, Complete, Confirm, ReportFailure
<1>14. QED
  BY <1>7, <1>8, <1>9, <1>10, <1>11, <1>12, <1>13 DEF HandlerStep

\* A token that is not the turn's current one, in the hands of a handler or of a
\* call that runs late, changes nothing of the turn.
THEOREM FencedByToken == Spec => SupersededWorkerIsFenced
<1>1. ASSUME TypeInv, [Next]_vars, NEW h \in Handlers,
             handler'[h] # handler[h], handler[h].token # Null,
             handler[h].token # turn[handler[h].req.turn].token
      PROVE  turn'[handler[h].req.turn] = turn[handler[h].req.turn]
  <2>1. handler \in [Handlers -> HandlerState] /\ WorkerOK(handler[h])
    BY <1>1 DEF TypeInv, HandlersInv
  <2>2. ASSUME NEW g \in Handlers, HandlerStep(g)
        PROVE  turn'[handler[h].req.turn] = turn[handler[h].req.turn]
    <3>1. g = h
      BY <1>1, <2>2, OwnStep
    <3>2. ~Claim(h)
      BY <1>1, <2>1 DEF Claim, At, WorkerOK
    <3>3. CASE Complete(h)
      BY <1>1, <3>3 DEF Complete, CompletionAdmitted, CurrentWorker, tables
    <3>4. CASE ReportFailure(h)
      BY <1>1, <3>4 DEF ReportFailure, FailTurn, CurrentWorker
    <3>5. CASE ~(Complete(h) \/ ReportFailure(h))
      BY <2>2, <3>1, <3>2, <3>5
         DEF HandlerStep, Resolve, ReadHistory, NumberQuestion, SaveQuestion, Generate,
             NumberAnswer, SaveAnswer, Check, Confirm, ReadSequence, InsertRaw, tables
    <3>6. QED
      BY <3>3, <3>4, <3>5
  <2>3. CASE UNCHANGED turn
    BY <2>3
  <2>4. ASSUME NEW m \in inflight, RunLate(m) PROVE handler' = handler
    BY <2>4 DEF RunLate
  <2>5. ASSUME NEW t \in Turns, LeaseExpires(t) PROVE handler' = handler
    BY <2>5 DEF LeaseExpires
  <2>6. ASSUME NEW g \in Handlers, NEW r \in Requests, Post(g, r) \/ Status(g, r)
        PROVE  UNCHANGED turn
    BY <2>6 DEF Post, Status, tables
  <2>7. ASSUME NEW g \in Handlers, Crash(g) \/ CallFails(g) \/ LoseRpc(g)
        PROVE  UNCHANGED turn
    BY <2>7 DEF Crash, CallFails, LoseRpc, tables
  <2>8. CASE Administer
    BY <2>3, <2>8 DEF Administer, RevokeAccess, RestoreAccess, ChangeAudience,
                      WithdrawSource, RestoreSource, tables
  <2>9. CASE UNCHANGED vars
    BY <2>3, <2>9 DEF vars, tables
  <2>10. QED
    BY <1>1, <2>2, <2>3, <2>4, <2>5, <2>6, <2>7, <2>8, <2>9 DEF Next
<1>2. ASSUME TypeInv, [Next]_vars, NEW m \in inflight \ inflight', m.op # "claim",
             m.token # turn[m.req.turn].token
      PROVE  turn'[m.req.turn] = turn[m.req.turn]
  <2>1. ASSUME NEW n \in inflight, RunLate(n)
        PROVE  turn'[m.req.turn] = turn[m.req.turn]
    <3>1. n = m
      BY <1>2, <2>1 DEF RunLate
    <3>2. QED
      BY <1>2, <2>1, <3>1
         DEF RunLate, LateClaim, LateComplete, LateFail, NeverRuns, FailTurn,
             CompletionAdmitted, CurrentWorker, tables
  <2>2. CASE \E g \in Handlers : HandlerStep(g)
    BY <1>2, <2>2
       DEF HandlerStep, Claim, Resolve, ReadHistory, NumberQuestion, SaveQuestion,
           Generate, NumberAnswer, SaveAnswer, Check, Complete, Confirm, ReportFailure,
           ReadSequence, InsertRaw
  <2>3. ASSUME NEW g \in Handlers, NEW r \in Requests, Post(g, r) \/ Status(g, r)
        PROVE  FALSE
    BY <1>2, <2>3 DEF Post, Status
  <2>4. ASSUME NEW g \in Handlers, Crash(g) \/ CallFails(g) \/ LoseRpc(g)
        PROVE  FALSE
    BY <1>2, <2>4 DEF Crash, CallFails, LoseRpc
  <2>5. ASSUME NEW t \in Turns, LeaseExpires(t) PROVE FALSE
    BY <1>2, <2>5 DEF LeaseExpires
  <2>6. CASE Administer
    BY <1>2, <2>6 DEF Administer, RevokeAccess, RestoreAccess, ChangeAudience,
                      WithdrawSource, RestoreSource
  <2>7. CASE UNCHANGED vars
    BY <1>2, <2>7 DEF vars
  <2>8. QED
    BY <1>2, <2>1, <2>2, <2>3, <2>4, <2>5, <2>6, <2>7 DEF Next
<1>3. TypeInv /\ [Next]_vars =>
        [/\ \A h \in Handlers :
              /\ handler'[h] # handler[h]
              /\ handler[h].token # Null
              /\ handler[h].token # turn[handler[h].req.turn].token
              => turn'[handler[h].req.turn] = turn[handler[h].req.turn]
         /\ \A m \in inflight \ inflight' :
              m.op # "claim" /\ m.token # turn[m.req.turn].token
              => turn'[m.req.turn] = turn[m.req.turn]]_vars
  BY <1>1, <1>2
<1>4. QED
  BY <1>3, TypeInvariance, PTL DEF Spec, SupersededWorkerIsFenced
================================================================================
