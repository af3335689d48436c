---------------------------- MODULE ChatTurnsHistory ----------------------------
(***************************************************************************)
(* What a conversation's history is and what its answers say they were      *)
(* built from, proved for every instance of ChatTurns: the numbering of     *)
(* messages, the scope and the provenance of answers, and that the tables   *)
(* implement ChatLedger.                                                    *)
(***************************************************************************)
EXTENDS ChatTurnsProofs, FiniteSetTheorems, SequenceTheorems

-------------------------------------------------------------------------------
(* What a handler's locals say about the tables between two of its calls.     *)

\* The number it is about to insert at was read as latest + 1 (message.py:9).
Numbered(w) == w.seq - 1 \in Sequences(w.req.conv)

\* Its conversation exists, and a resource's policy version was read.
Resolved(w) ==
  /\ conv[w.req.conv].exists
  /\ conv[w.req.conv].source # Null => w.ctx # 0

InScope(w) ==
  conv[w.req.conv].source # Null => OnlySource(w.policy, conv[w.req.conv].source)

\* Its turn is in the table, in its conversation, under its number.
Owns(w) ==
  /\ InTable(w.req.turn)
  /\ turn[w.req.turn].conv = w.req.conv
  /\ turn[w.req.turn].seq = w.seq

\* The policy names what every answer of conversation c before number n names.
Covers(p, c, n) ==
  \A m \in Of(c) : m.kind = "assistant" /\ m.seq < n
    => \A s \in Sources : m.policy[s] # 0 => p[s] # 0

Inserting == {"asking", "saving"}
Unkeyed == {"numbering", "asking", "drafting", "saving"}
Reading == {"reading", "answering"} \cup Unkeyed
Scoping == {"drafting", "saving"}
Building == {"answering", "checking", "completing"}
Owning == {"resolving", "reading"} \cup Building

Knows(w) ==
  /\ w.pc \in Inserting => Numbered(w)
  /\ w.pc \in Unkeyed => ~Keyed(w.req)
  /\ w.pc \in Reading => Resolved(w)
  /\ w.pc \in Scoping => InScope(w)
  /\ w.pc \in Owning /\ Keyed(w.req) => Owns(w)
  /\ w.pc \in Building /\ Keyed(w.req) => Covers(w.policy, w.req.conv, w.seq)

KnowsRpc(m) ==
  m.op = "complete" =>
    /\ InTable(m.req.turn)
    /\ turn[m.req.turn].conv = m.req.conv
    /\ Covers(m.policy, m.req.conv, turn[m.req.turn].seq)

KnowsInv ==
  /\ \A h \in Handlers : Knows(handler[h])
  /\ \A m \in inflight : KnowsRpc(m)

-------------------------------------------------------------------------------
(* What the tables say about each other.                                      *)

\* Contiguous, with what its induction needs.
NumbersInv ==
  \A c \in Convs :
    /\ IsFiniteSet(Of(c))
    /\ Sequences(c) = 0 .. Cardinality(Of(c))
    /\ \A m, n \in Of(c) : m.seq = n.seq => m = n

MessageOK(m) ==
  /\ conv[m.conv].exists
  /\ m.turn # Null => InTable(m.turn) /\ turn[m.turn].conv = m.conv

TurnOK(t) ==
  /\ conv[turn[t].conv].exists
  /\ conv[turn[t].conv].source = turn[t].source
  /\ \E m \in Of(turn[t].conv) : m.seq = turn[t].seq /\ m.turn = t /\ m.kind = "user"

\* No message stands without its conversation and its turn; a turn's row agrees
\* with its conversation and has its stored question.
RowsInv ==
  /\ \A m \in msgs : MessageOK(m)
  /\ \A t \in Turns : InTable(t) => TurnOK(t)

\* The number 0 marks a source that a policy does not name.
VersionsInv == \A s \in Sources : version[s] # 0

HistoryInv ==
  /\ TypeInv /\ ChatInv
  /\ NumbersInv /\ RowsInv /\ VersionsInv /\ KnowsInv
  /\ ResourceScope /\ ProvenanceInherited

-------------------------------------------------------------------------------
(* How the tables grow.                                                       *)

\* A conversation that exists keeps its source.
ConvsKept == \A c \in Convs : conv[c].exists => conv'[c] = conv[c]

TurnsKept ==
  \A t \in Turns : InTable(t) =>
    /\ InTable(t)'
    /\ turn'[t].conv = turn[t].conv
    /\ turn'[t].seq = turn[t].seq
    /\ turn'[t].source = turn[t].source

\* At most one message is added, right after the last of its conversation.
Added(m) ==
  /\ m \in Message
  /\ m.seq = Cardinality(Of(m.conv)) + 1
  /\ msgs' = msgs \cup {m}

Grows == UNCHANGED msgs \/ \E m \in Message : Added(m)

LEMMA ExistingSource ==
  ASSUME TypeInv, NEW r \in Requests, NEW c \in Convs, conv[c].exists,
         conv' = [conv EXCEPT ![r.conv] = [exists |-> TRUE, source |-> ResolvedSource(r)]]
  PROVE  conv'[c] = conv[c]
<1>1. conv \in [Convs -> ConvRow] /\ r.conv \in Convs
  BY RequestFields DEF TypeInv, TablesInv
<1>2. CASE r.conv = c
  <2>1. conv[c] = [exists |-> conv[c].exists, source |-> conv[c].source]
    BY <1>1 DEF ConvRow
  <2>2. conv[c].exists = TRUE
    BY <1>1, Zenon DEF ConvRow
  <2>3. ResolvedSource(r) = conv[c].source
    BY <1>2 DEF ResolvedSource
  <2>4. QED
    BY <1>1, <1>2, <2>1, <2>2, <2>3
<1>3. CASE r.conv # c
  BY <1>1, <1>3
<1>4. QED
  BY <1>2, <1>3

LEMMA TakeTurnKeeps ==
  ASSUME TypeInv, NEW r \in Requests, NEW k, TakeTurn(r, k)
  PROVE  ConvsKept
<1>1. CASE InTable(r.turn)
  BY <1>1 DEF TakeTurn, ConvsKept
<1>2. CASE ~InTable(r.turn)
  BY <1>2, ExistingSource DEF TakeTurn, ConvsKept
<1>3. QED
  BY <1>1, <1>2

LEMMA ConvStep ==
  ASSUME TypeInv, [Next]_vars
  PROVE  ConvsKept
<1>1. UNCHANGED conv => ConvsKept
  BY DEF ConvsKept
<1>2. ASSUME NEW h \in Handlers, HandlerStep(h) PROVE ConvsKept
  <2>1. handler[h].pc # "idle" => handler[h].req \in Requests
    BY DEF TypeInv, HandlersInv, WorkerOK
  <2>2. CASE Claim(h)
    <3>1. CASE ClaimGrants(h)
      BY <2>1, <2>2, <3>1, TakeTurnKeeps DEF Claim, At, ClaimGrants
    <3>2. CASE ClaimReplays(h) \/ ClaimRefuses(h)
      BY <1>1, <3>2 DEF ClaimReplays, ClaimRefuses, tables
    <3>3. QED
      BY <2>2, <3>1, <3>2 DEF Claim
  <2>3. CASE Resolve(h)
    <3>1. CASE UNCHANGED conv
      BY <1>1, <3>1
    <3>2. CASE conv' = [conv EXCEPT ![handler[h].req.conv] =
                          [exists |-> TRUE, source |-> ResolvedSource(handler[h].req)]]
      BY <2>1, <2>3, <3>2, ExistingSource DEF Resolve, At, ConvsKept
    <3>3. QED
      BY <2>3, <3>1, <3>2 DEF Resolve
  <2>4. CASE ~(Claim(h) \/ Resolve(h))
    <3>1. UNCHANGED conv
      BY <1>2, <2>4
         DEF HandlerStep, ReadHistory, NumberQuestion, SaveQuestion, Generate,
             NumberAnswer, SaveAnswer, Check, Complete, Confirm, ReportFailure,
             ReadSequence, InsertRaw, StoreAnswer, FailTurn, tables
    <3>2. QED
      BY <1>1, <3>1
  <2>5. QED
    BY <2>2, <2>3, <2>4
<1>3. ASSUME NEW m \in inflight, RunLate(m) PROVE ConvsKept
  <2>1. m.req \in Requests
    BY DEF TypeInv, InflightInv, RpcOK, Rpc
  <2>2. CASE LateClaim(m)
    BY <2>1, <2>2, TakeTurnKeeps DEF LateClaim
  <2>3. CASE ~LateClaim(m)
    BY <1>1, <1>3, <2>3
       DEF RunLate, LateComplete, LateFail, NeverRuns, StoreAnswer, FailTurn, tables
  <2>4. QED
    BY <2>2, <2>3
<1>4. ASSUME NEW h \in Handlers, NEW r \in Requests, Post(h, r) \/ Status(h, r)
      PROVE  ConvsKept
  BY <1>1, <1>4 DEF Post, Status, tables
<1>5. ASSUME NEW h \in Handlers, Crash(h) \/ CallFails(h) \/ LoseRpc(h)
      PROVE  ConvsKept
  BY <1>1, <1>5 DEF Crash, CallFails, LoseRpc, tables
<1>6. ASSUME NEW t \in Turns, LeaseExpires(t) PROVE ConvsKept
  BY <1>1, <1>6 DEF LeaseExpires
<1>7. CASE Administer
  BY <1>1, <1>7 DEF Administer, RevokeAccess, RestoreAccess, ChangeAudience,
                    WithdrawSource, RestoreSource, tables
<1>8. CASE UNCHANGED vars
  BY <1>1, <1>8 DEF vars, tables
<1>9. QED
  BY <1>2, <1>3, <1>4, <1>5, <1>6, <1>7, <1>8 DEF Next

LEMMA TurnStep ==
  ASSUME TypeInv, [Next]_vars
  PROVE  TurnsKept
<1>1. ASSUME NEW t \in Turns, Rework(t) PROVE TurnsKept
  BY <1>1 DEF Rework, TurnsKept, Unfinished, InTable
<1>2. ASSUME NEW r \in Requests, NEW n, AskStep(r, n) PROVE TurnsKept
  BY <1>2 DEF AskStep, TurnsKept, InTable, TypeInv, TablesInv
<1>3. ASSUME NEW t \in Turns, NEW a \in Answers, NEW p \in Policies, NEW k,
             AnswerStep(t, k, a, p)
      PROVE  TurnsKept
  <2>1. turn[t] \in TurnRow /\ turn \in [Turns -> TurnRow]
    BY DEF TypeInv, TablesInv
  <2>2. /\ turn' = [turn EXCEPT ![t] =
                      [turn[t] EXCEPT !.state = "completed", !.answer = a, !.policy = p]]
    BY <1>3, <2>1 DEF AnswerStep, StoreAnswer
  <2>3. /\ turn'[t].state = "completed" /\ turn'[t].conv = turn[t].conv
        /\ turn'[t].seq = turn[t].seq /\ turn'[t].source = turn[t].source
        /\ \A u \in Turns \ {t} : turn'[u] = turn[u]
    BY <2>1, <2>2 DEF TurnRow
  <2>4. QED
    BY <2>3 DEF TurnsKept, InTable
<1>4. ASSUME NEW r \in Requests, GrantStep(r) PROVE TurnsKept
  BY <1>1, <1>2, <1>4, GrantCases DEF GrantStep
<1>5. ASSUME NEW t \in Turns, DemoteStep(t) PROVE TurnsKept
  BY <1>1, <1>5, DemoteIsRework
<1>6. UNCHANGED turn => TurnsKept
  BY DEF TurnsKept, InTable
<1>7. QED
  BY <1>3, <1>4, <1>5, <1>6, NextTableStep DEF TableStep, RawStep

\* The only numbers that fit are the next ones.
LEMMA NextNumber ==
  ASSUME TypeInv, NumbersInv, NEW c \in Convs
  PROVE  /\ Cardinality(Of(c)) \in Nat
         /\ \A n \in Latest(c) : n = Cardinality(Of(c))
         /\ \A n \in Nat \ {0} : n - 1 \in Sequences(c) /\ ~SequenceTaken(c, n)
              => n = Cardinality(Of(c)) + 1
<1>1. IsFiniteSet(Of(c)) /\ Sequences(c) = 0 .. Cardinality(Of(c))
  BY DEF NumbersInv
<1>2. Cardinality(Of(c)) \in Nat
  BY <1>1, FS_CardinalityType
<1>3. \A n \in Latest(c) : n = Cardinality(Of(c))
  BY <1>1, <1>2 DEF Latest
<1>4. ASSUME NEW n \in Nat \ {0}, n - 1 \in Sequences(c), ~SequenceTaken(c, n)
      PROVE  n = Cardinality(Of(c)) + 1
  <2>1. n \notin Sequences(c)
    BY <1>4 DEF SequenceTaken, Sequences
  <2>2. QED
    BY <1>1, <1>2, <1>4, <2>1
<1>5. QED
  BY <1>2, <1>3, <1>4

LEMMA AskAdds ==
  ASSUME TypeInv, NumbersInv, NEW r \in Requests, NEW n, AskStep(r, n)
  PROVE  Added(Question(r, n))
<1>1. r.conv \in Convs /\ n \in Latest(r.conv) /\ n \in Nat /\ n + 1 \in Nat \ {0}
  BY RequestFields, LatestType DEF AskStep, TypeInv
<1>2. n = Cardinality(Of(r.conv))
  BY <1>1, NextNumber
<1>3. Question(r, n) \in Message
  BY <1>1, RequestFields, NoPolicyType DEF Question, Message
<1>4. QED
  BY <1>2, <1>3 DEF AskStep, Added, Question

LEMMA AnswerAdds ==
  ASSUME TypeInv, ChatInv, NumbersInv, NEW t \in Turns, NEW k, NEW a \in Answers,
         NEW p \in Policies, AnswerStep(t, k, a, p)
  PROVE  Added(Reply1(t, a, p))
<1> DEFINE c == turn[t].conv
           n == turn[t].seq
<1>1. Unfinished(t) /\ c \in Convs /\ n \in Nat
  BY DEF AnswerStep, CompletionAdmitted, CurrentWorker, Unfinished, TypeInv, TablesInv,
         RowOK, TurnRow
<1>2. n \in Sequences(c)
  BY <1>1 DEF ChatInv, OpenQuestionIsLast, Sequences
<1>3. ~SequenceTaken(c, n + 1) /\ n + 1 \in Nat \ {0} /\ (n + 1) - 1 = n
  BY <1>1 DEF AnswerStep, CompletionAdmitted
<1>4. n + 1 = Cardinality(Of(c)) + 1
  BY <1>1, <1>2, <1>3, NextNumber
<1>5. Reply1(t, a, p) \in Message
  BY <1>1, <1>3 DEF Reply1, Message
<1>6. Reply1(t, a, p).seq = n + 1 /\ Reply1(t, a, p).conv = c
  BY DEF Reply1
<1>7. msgs' = msgs \cup {Reply1(t, a, p)}
  BY DEF AnswerStep, StoreAnswer, Reply1
<1>8. QED
  BY <1>4, <1>5, <1>6, <1>7 DEF Added

RawMessage(c, n, kind, text, p) ==
  [conv |-> c, seq |-> n, kind |-> kind, turn |-> Null, text |-> text, policy |-> p]

LEMMA RawAdds ==
  ASSUME TypeInv, NumbersInv, KnowsInv, NEW c \in Convs, NEW n \in Nat \ {0},
         NEW kind \in {"user", "assistant"}, NEW text \in Queries \cup Answers,
         NEW p \in Policies, RawStep(c, n, kind, text, p)
  PROVE  Added(RawMessage(c, n, kind, text, p))
<1>1. PICK h \in Handlers : WrittenBy(h, c, n, kind, p)
  BY DEF RawStep
<1>2. Numbered(handler[h])
  BY <1>1 DEF WrittenBy, At, KnowsInv, Knows, Inserting
<1>3. n - 1 \in Sequences(c)
  BY <1>1, <1>2 DEF WrittenBy, Numbered
<1>4. n = Cardinality(Of(c)) + 1
  BY <1>3, NextNumber DEF RawStep
<1>5. RawMessage(c, n, kind, text, p) \in Message
  BY DEF RawMessage, Message
<1>6. QED
  BY <1>4, <1>5 DEF RawStep, RawMessage, Added

LEMMA GrowStep ==
  ASSUME TypeInv, ChatInv, NumbersInv, KnowsInv, [Next]_vars
  PROVE  Grows
<1>1. TableStep
  BY NextTableStep
<1>2. \A m : Added(m) => Grows
  BY DEF Grows, Added
<1>3. ASSUME NEW r \in Requests, GrantStep(r) PROVE Grows
  BY <1>2, <1>3, GrantCases, AskAdds DEF Grows, Rework
<1>4. ASSUME NEW t \in Turns, DemoteStep(t) PROVE Grows
  BY <1>4 DEF DemoteStep, Grows
<1>5. QED
  BY <1>1, <1>2, <1>3, <1>4, AnswerAdds, RawAdds DEF TableStep, Grows

\* A message added after the last keeps the numbers of its conversation 1, 2, ...
LEMMA NumbersGrow ==
  ASSUME TypeInv, NumbersInv, NEW m, Added(m), NEW c \in Convs
  PROVE  /\ m.conv # c => Of(c)' = Of(c)
         /\ m.conv = c => /\ Of(c)' = Of(c) \cup {m}
                          /\ m \notin Of(c)
                          /\ IsFiniteSet(Of(c)')
                          /\ Cardinality(Of(c)') = Cardinality(Of(c)) + 1
                          /\ Sequences(c)' = 0 .. Cardinality(Of(c)')
<1>1. /\ IsFiniteSet(Of(c))
      /\ Sequences(c) = 0 .. Cardinality(Of(c))
      /\ Cardinality(Of(c)) \in Nat
  BY NextNumber DEF NumbersInv
<1>2. m.conv # c => Of(c)' = Of(c)
  BY DEF Added, Of
<1>3. ASSUME m.conv = c
      PROVE  /\ Of(c)' = Of(c) \cup {m}
             /\ m \notin Of(c)
             /\ IsFiniteSet(Of(c)')
             /\ Cardinality(Of(c)') = Cardinality(Of(c)) + 1
             /\ Sequences(c)' = 0 .. Cardinality(Of(c)')
  <2>1. Of(c)' = Of(c) \cup {m}
    BY <1>3 DEF Added, Of
  <2>2. m.seq = Cardinality(Of(c)) + 1
    BY <1>3 DEF Added
  <2>3. m \notin Of(c)
    BY <1>1, <2>2 DEF Sequences
  <2>4. IsFiniteSet(Of(c)') /\ Cardinality(Of(c)') = Cardinality(Of(c)) + 1
    BY <1>1, <2>1, <2>3, FS_AddElement
  <2>5. Sequences(c)' = Sequences(c) \cup {m.seq}
    BY <2>1 DEF Sequences
  <2>6. Sequences(c)' = 0 .. (Cardinality(Of(c)) + 1)
    BY <1>1, <2>2, <2>5
  <2>7. QED
    BY <2>1, <2>3, <2>4, <2>6
<1>4. QED
  BY <1>2, <1>3

LEMMA NumbersStep ==
  ASSUME TypeInv, NumbersInv, Grows
  PROVE  NumbersInv'
<1>1. CASE UNCHANGED msgs
  BY <1>1 DEF NumbersInv, Of, Sequences
<1>2. ASSUME NEW m \in Message, Added(m) PROVE NumbersInv'
  <2> SUFFICES ASSUME NEW c \in Convs
               PROVE  /\ IsFiniteSet(Of(c)')
                      /\ Sequences(c)' = 0 .. Cardinality(Of(c)')
                      /\ \A i, j \in Of(c)' : i.seq = j.seq => i = j
    BY DEF NumbersInv
  <2>1. CASE m.conv = c
    <3>1. \A i \in Of(c) : i.seq # m.seq
      <4>1. m.seq = Cardinality(Of(c)) + 1 /\ Cardinality(Of(c)) \in Nat
        BY <1>2, <2>1, NextNumber DEF Added
      <4>2. m.seq \notin Sequences(c)
        BY <4>1 DEF NumbersInv
      <4>3. QED
        BY <4>2 DEF Sequences
    <3>2. Of(c)' = Of(c) \cup {m}
      BY <1>2, <2>1, NumbersGrow
    <3>3. \A i, j \in Of(c) : i.seq = j.seq => i = j
      BY DEF NumbersInv
    <3>4. \A i, j \in Of(c)' : i.seq = j.seq => i = j
      BY <3>1, <3>2, <3>3
    <3>5. QED
      BY <1>2, <2>1, <3>4, NumbersGrow
  <2>2. CASE m.conv # c
    <3>1. Of(c)' = Of(c)
      BY <1>2, <2>2, NumbersGrow
    <3>2. Sequences(c)' = Sequences(c)
      BY <3>1 DEF Sequences
    <3>3. QED
      BY <3>1, <3>2 DEF NumbersInv
  <2>3. QED
    BY <2>1, <2>2
<1>3. QED
  BY <1>1, <1>2 DEF Grows

-------------------------------------------------------------------------------
(* Rows and messages stay consistent.                                         *)

LEMMA VersionStep ==
  ASSUME TypeInv, [Next]_vars, NEW s \in Sources, version[s] # 0
  PROVE  version'[s] # 0
<1>1. CASE UNCHANGED version
  BY <1>1
<1>2. ASSUME NEW q \in Sources, ChangeAudience(q) PROVE version'[s] # 0
  BY <1>2 DEF ChangeAudience, TypeInv, GrantsInv
<1>3. CASE ~\E q \in Sources : ChangeAudience(q)
  <2>1. Next => UNCHANGED version
    BY <1>3
       DEF Next, HandlerStep, Claim, Resolve, ReadHistory, NumberQuestion, SaveQuestion,
           Generate, NumberAnswer, SaveAnswer, Check, Complete, Confirm, ReportFailure,
           ReadSequence, InsertRaw, Post, Status, Crash, CallFails, LoseRpc, RunLate,
           LeaseExpires, Administer, RevokeAccess, RestoreAccess, WithdrawSource,
           RestoreSource, grants
  <2>2. QED
    BY <1>1, <2>1 DEF vars, grants
<1>4. QED
  BY <1>2, <1>3

LEMMA OldRows ==
  ASSUME TypeInv, RowsInv, [Next]_vars
  PROVE  /\ \A m \in msgs : MessageOK(m)'
         /\ \A t \in Turns : InTable(t) => TurnOK(t)'
<1>1. ConvsKept /\ TurnsKept /\ msgs \subseteq msgs'
  BY ConvStep, TurnStep, ReceiptStep
<1>2. ASSUME NEW m \in msgs PROVE MessageOK(m)'
  <2>1. m.conv \in Convs /\ m.turn \in Turns \cup {Null}
    BY DEF TypeInv, TablesInv, Message
  <2>2. QED
    BY <1>1, <2>1 DEF RowsInv, MessageOK, ConvsKept, TurnsKept
<1>3. ASSUME NEW t \in Turns, InTable(t) PROVE TurnOK(t)'
  <2>1. turn[t].conv \in Convs
    BY <1>3 DEF TypeInv, TablesInv, RowOK, InTable
  <2>2. PICK m \in Of(turn[t].conv) :
          m.seq = turn[t].seq /\ m.turn = t /\ m.kind = "user"
    BY <1>3 DEF RowsInv, TurnOK
  <2>3. m \in Of(turn[t].conv)'
    BY <1>1, <1>3, <2>2 DEF Of, TurnsKept
  <2>4. QED
    BY <1>1, <1>3, <2>1, <2>2, <2>3 DEF RowsInv, TurnOK, ConvsKept, TurnsKept
<1>4. QED
  BY <1>2, <1>3

LEMMA AskRows ==
  ASSUME TypeInv, NEW r \in Requests, NEW n, AskStep(r, n)
  PROVE  MessageOK(Question(r, n))' /\ TurnOK(r.turn)'
<1> DEFINE t == r.turn
           q == Question(r, n)
<1>1. t \in Turns /\ r.conv \in Convs
  BY RequestFields DEF AskStep
<1>2. /\ turn'[t] = NewTurn(r, n)
      /\ conv'[r.conv] = [exists |-> TRUE, source |-> ResolvedSource(r)]
      /\ q \in msgs'
  BY <1>1 DEF AskStep, TypeInv, TablesInv
<1>3. /\ turn'[t].state = "processing" /\ turn'[t].conv = r.conv /\ turn'[t].seq = n + 1
      /\ turn'[t].source = ResolvedSource(r)
      /\ conv'[r.conv].exists /\ conv'[r.conv].source = ResolvedSource(r)
  BY <1>2 DEF NewTurn
<1>4. q.conv = r.conv /\ q.seq = n + 1 /\ q.turn = t /\ q.kind = "user"
  BY DEF Question
<1>5. q \in Of(turn[t].conv)'
  BY <1>2, <1>3, <1>4 DEF Of
<1>6. TurnOK(t)'
  BY <1>3, <1>4, <1>5 DEF TurnOK
<1>7. MessageOK(q)'
  BY <1>3, <1>4 DEF MessageOK, InTable
<1>8. QED
  BY <1>6, <1>7

LEMMA RowsStep ==
  ASSUME TypeInv, ChatInv, NumbersInv, RowsInv, KnowsInv, [Next]_vars
  PROVE  RowsInv'
<1>1. /\ \A m \in msgs : MessageOK(m)'
      /\ \A t \in Turns : InTable(t) => TurnOK(t)'
  BY OldRows
<1>2. CASE UNCHANGED <<turn, msgs>>
  BY <1>1, <1>2 DEF RowsInv, InTable
<1>3. ASSUME NEW t \in Turns, Rework(t) PROVE RowsInv'
  <2>1. \A u \in Turns : InTable(u)' => InTable(u)
    BY <1>3 DEF Rework, InTable, Unfinished
  <2>2. QED
    BY <1>1, <1>3, <2>1 DEF Rework, RowsInv
<1>4. ASSUME NEW r \in Requests, NEW n, AskStep(r, n) PROVE RowsInv'
  <2>1. r.turn \in Turns /\ \A u \in Turns \ {r.turn} : InTable(u)' <=> InTable(u)
    BY <1>4 DEF AskStep, InTable, TypeInv, TablesInv
  <2>2. QED
    BY <1>1, <1>4, <2>1, AskRows DEF AskStep, RowsInv
<1>5. ASSUME NEW t \in Turns, NEW k, NEW a \in Answers, NEW p \in Policies,
             AnswerStep(t, k, a, p)
      PROVE  RowsInv'
  <2> PICK m : m = Reply1(t, a, p)
    OBVIOUS
  <2>1. InTable(t) /\ \A u \in Turns \ {t} : InTable(u)' <=> InTable(u)
    BY <1>5 DEF AnswerStep, CompletionAdmitted, CurrentWorker, StoreAnswer, InTable,
                TypeInv, TablesInv
  <2>2. TurnOK(t)' /\ turn'[t].conv = turn[t].conv /\ InTable(t)'
    BY <1>1, <2>1, TurnStep DEF TurnsKept
  <2>3. m.conv = turn[t].conv /\ m.turn = t
    BY DEF Reply1
  <2>4. msgs' = msgs \cup {m}
    BY <1>5 DEF AnswerStep, StoreAnswer, Reply1
  <2>5. MessageOK(m)'
    BY <2>2, <2>3 DEF MessageOK, TurnOK
  <2>6. QED
    BY <1>1, <2>1, <2>2, <2>4, <2>5 DEF RowsInv
<1>6. ASSUME NEW c \in Convs, NEW n, NEW kind, NEW text, NEW p,
             RawStep(c, n, kind, text, p)
      PROVE  RowsInv'
  <2> DEFINE m == RawMessage(c, n, kind, text, p)
  <2>1. PICK h \in Handlers : WrittenBy(h, c, n, kind, p)
    BY <1>6 DEF RawStep
  <2>2. conv[c].exists
    BY <2>1 DEF WrittenBy, At, KnowsInv, Knows, Resolved, Reading, Unkeyed
  <2>3. conv'[c].exists
    BY <2>2, ConvStep DEF ConvsKept
  <2>4. m.conv = c /\ m.turn = Null
    BY DEF RawMessage
  <2>5. MessageOK(m)'
    BY <2>3, <2>4 DEF MessageOK
  <2>6. msgs' = msgs \cup {m} /\ UNCHANGED turn
    BY <1>6 DEF RawStep, RawMessage
  <2>7. QED
    BY <1>1, <2>5, <2>6 DEF InTable, RowsInv
<1>7. ASSUME NEW r \in Requests, GrantStep(r) PROVE RowsInv'
  <2>1. r.turn \in Turns
    BY <1>7 DEF GrantStep
  <2>2. QED
    BY <1>3, <1>4, <1>7, <2>1, GrantCases
<1>8. ASSUME NEW t \in Turns, DemoteStep(t) PROVE RowsInv'
  BY <1>3, <1>8, DemoteIsRework
<1>9. QED
  BY <1>2, <1>5, <1>6, <1>7, <1>8, NextTableStep DEF TableStep

-------------------------------------------------------------------------------
(* What a handler knows stays true while others write, and each of its own    *)
(* steps learns what the next one relies on.                                  *)

LEMMA OwnedNumber ==
  ASSUME TypeInv, NumbersInv, RowsInv, NEW t \in Turns, InTable(t)
  PROVE  turn[t].conv \in Convs /\ turn[t].seq <= Cardinality(Of(turn[t].conv))
<1>1. turn[t].conv \in Convs
  BY DEF TypeInv, TablesInv, RowOK, InTable
<1>2. turn[t].seq \in Sequences(turn[t].conv)
  BY DEF RowsInv, TurnOK, Sequences
<1>3. QED
  BY <1>1, <1>2, NextNumber DEF NumbersInv

LEMMA CoversKept ==
  ASSUME TypeInv, NumbersInv, Grows, NEW c \in Convs, NEW p, NEW n \in Nat,
         n <= Cardinality(Of(c)), Covers(p, c, n)
  PROVE  Covers(p, c, n)'
<1>1. CASE UNCHANGED msgs
  BY <1>1 DEF Covers, Of
<1>2. ASSUME NEW m \in Message, Added(m) PROVE Covers(p, c, n)'
  <2>1. CASE m.conv # c
    BY <1>2, <2>1, NumbersGrow DEF Covers
  <2>2. CASE m.conv = c
    <3>1. Of(c)' = Of(c) \cup {m} /\ ~(m.seq < n)
      BY <1>2, <2>2, NumbersGrow, NextNumber DEF Added
    <3>2. QED
      BY <3>1 DEF Covers
  <2>3. QED
    BY <2>1, <2>2
<1>3. QED
  BY <1>1, <1>2 DEF Grows

LEMMA SequencesGrow ==
  ASSUME Grows, NEW c
  PROVE  Sequences(c) \subseteq Sequences(c)'
  BY DEF Grows, Added, Sequences, Of

LEMMA KnowsKept ==
  ASSUME TypeInv, NumbersInv, RowsInv, Grows, ConvsKept, TurnsKept,
         NEW w, WorkerOK(w), Knows(w)
  PROVE  Knows(w)'
<1>1. CASE w.pc \in {"idle", "claiming", "confirming", "failing", "replied"}
  BY <1>1 DEF Knows, Inserting, Unkeyed, Reading, Scoping, Building, Owning
<1>2. CASE w.pc \notin {"idle", "claiming", "confirming", "failing", "replied"}
  <2>1. w.req.conv \in Convs /\ (Keyed(w.req) <=> w.req.turn \in Turns) /\ w.seq \in Nat
    BY <1>2, RequestFields DEF WorkerOK, HandlerState
  <2>2. w.pc \in Inserting => Numbered(w)'
    BY SequencesGrow DEF Knows, Numbered
  <2>3. w.pc \in Reading => Resolved(w)'
    BY <2>1 DEF Knows, Resolved, ConvsKept
  <2>4. w.pc \in Scoping => InScope(w)'
    BY <2>1 DEF Knows, InScope, Resolved, ConvsKept, Scoping, Reading, Unkeyed
  <2>5. w.pc \in Owning /\ Keyed(w.req) => Owns(w)'
    BY <2>1 DEF Knows, Owns, TurnsKept
  <2>6. w.pc \in Building /\ Keyed(w.req) => Covers(w.policy, w.req.conv, w.seq)'
    <3> SUFFICES ASSUME w.pc \in Building, Keyed(w.req)
                 PROVE  Covers(w.policy, w.req.conv, w.seq)'
      OBVIOUS
    <3>1. Owns(w) /\ Covers(w.policy, w.req.conv, w.seq)
      BY DEF Knows, Owning
    <3>2. w.seq <= Cardinality(Of(w.req.conv))
      BY <2>1, <3>1, OwnedNumber DEF Owns
    <3>3. QED
      BY <2>1, <3>1, <3>2, CoversKept
  <2>7. QED
    BY <2>2, <2>3, <2>4, <2>5, <2>6 DEF Knows
<1>3. QED
  BY <1>1, <1>2

LEMMA RpcKept ==
  ASSUME TypeInv, NumbersInv, RowsInv, Grows, TurnsKept, NEW m, RpcOK(m), KnowsRpc(m)
  PROVE  KnowsRpc(m)'
<1> SUFFICES ASSUME m.op = "complete" PROVE KnowsRpc(m)'
  BY DEF KnowsRpc
<1> DEFINE t == m.req.turn
<1>1. t \in Turns /\ InTable(t) /\ turn[t].conv = m.req.conv
      /\ Covers(m.policy, m.req.conv, turn[t].seq)
  BY DEF RpcOK, KnowsRpc
<1>2. /\ InTable(t)' /\ turn'[t].conv = turn[t].conv /\ turn'[t].seq = turn[t].seq
  BY <1>1 DEF TurnsKept
<1>3. turn[t].seq \in Nat /\ m.req.conv \in Convs
      /\ turn[t].seq <= Cardinality(Of(m.req.conv))
  BY <1>1, OwnedNumber DEF TypeInv, TablesInv, TurnRow
<1>4. PICK n \in Nat : n = turn[t].seq
  BY <1>3
<1>5. Covers(m.policy, m.req.conv, n)'
  BY <1>1, <1>3, <1>4, CoversKept
<1>6. QED
  BY <1>1, <1>2, <1>4, <1>5 DEF KnowsRpc

\* A handler moves to locals that know what they need, before the step or after.
Learns(h) == \E w : handler' = [handler EXCEPT ![h] = w] /\ (Knows(w) \/ Knows(w)')

LEMMA KnowsNothing ==
  ASSUME NEW w, w.pc \in {"idle", "claiming", "confirming", "failing", "replied"}
  PROVE  Knows(w)
  BY DEF Knows, Inserting, Unkeyed, Reading, Scoping, Building, Owning

LEMMA PlainMoves ==
  ASSUME TypeInv, NEW h \in Handlers
  PROVE  /\ Finish(h) => Learns(h)
         /\ \A pc \in {"confirming", "failing"} : Goto(h, pc) => Learns(h)
         /\ Abort(h) => Learns(h)
         /\ \A r, a, p : Reply(h, r, a, p) => Learns(h)
<1>1. handler \in [Handlers -> HandlerState] /\ handler[h] \in HandlerState
  BY DEF TypeInv, HandlersInv
<1>2. Finish(h) => Learns(h)
  <2>1. Knows(IdleHandler)
    BY KnowsNothing DEF IdleHandler
  <2>2. QED
    BY <2>1 DEF Finish, Learns
<1>3. ASSUME NEW pc \in {"confirming", "failing"}, Goto(h, pc) PROVE Learns(h)
  <2> DEFINE w == [handler[h] EXCEPT !.pc = pc]
  <2>1. w.pc = pc /\ handler' = [handler EXCEPT ![h] = w]
    BY <1>1, <1>3 DEF Goto, HandlerState
  <2> HIDE DEF w
  <2>2. Knows(w)
    BY <2>1, KnowsNothing
  <2>3. QED
    BY <2>1, <2>2 DEF Learns
<1>4. ASSUME NEW r, NEW a, NEW p, Reply(h, r, a, p) PROVE Learns(h)
  <2> DEFINE w == [IdleHandler EXCEPT !.pc = "replied", !.req = r,
                                      !.answer = a, !.policy = p]
  <2>1. w.pc = "replied" /\ handler' = [handler EXCEPT ![h] = w]
    BY <1>4 DEF Reply, IdleHandler
  <2> HIDE DEF w
  <2>2. Knows(w)
    BY <2>1, KnowsNothing
  <2>3. QED
    BY <2>1, <2>2 DEF Learns
<1>5. QED
  BY <1>2, <1>3, <1>4 DEF Abort

LEMMA PostLearns ==
  ASSUME TypeInv, NEW h \in Handlers, NEW r \in Requests, Post(h, r)
  PROVE  Learns(h)
<1> DEFINE w == [IdleHandler EXCEPT !.pc = IF Keyed(r) THEN "claiming" ELSE "resolving",
                                    !.req = r]
<1>1. /\ handler' = [handler EXCEPT ![h] = w] /\ w.req = r
      /\ w.pc = IF Keyed(r) THEN "claiming" ELSE "resolving"
  BY DEF Post, IdleHandler
<1> HIDE DEF w
<1>2. Knows(w)
  BY <1>1 DEF Knows, Inserting, Unkeyed, Reading, Scoping, Building, Owning
<1>3. QED
  BY <1>1, <1>2 DEF Learns

LEMMA ClaimLearns ==
  ASSUME TypeInv, NEW h \in Handlers, Claim(h)
  PROVE  Learns(h)
<1> PICK r \in Requests : r = handler[h].req
  BY DEF Claim, At, TypeInv, HandlersInv, WorkerOK
<1>1. r \in Requests /\ r.turn \in Turns
  BY DEF Claim, At, TypeInv, HandlersInv, WorkerOK
<1>2. CASE ClaimGrants(h)
  <2> DEFINE w == [handler[h] EXCEPT !.pc = "resolving", !.token = NewToken,
                                     !.seq = turn'[r.turn].seq]
  <2>1. handler[h] \in HandlerState /\ handler \in [Handlers -> HandlerState]
    BY DEF TypeInv, HandlersInv
  <2>2. PICK v : v = w
    OBVIOUS
  <2>3. /\ handler' = [handler EXCEPT ![h] = v]
        /\ v.pc = "resolving" /\ v.req = r /\ v.seq = turn'[r.turn].seq
    BY <1>2, <2>1, <2>2 DEF ClaimGrants, HandlerState
  <2>4. GrantStep(r)
    BY <1>1, <1>2 DEF ClaimGrants, GrantStep
  <2>5. InTable(r.turn)' /\ turn'[r.turn].conv = r.conv
    <3>1. CASE InTable(r.turn)
      <4>1. turn[r.turn].conv = r.conv
        BY <3>1, <2>4 DEF GrantStep, ClaimGranted, ClaimAdmitted, RequestMismatch
      <4>2. Rework(r.turn)
        BY <3>1, <2>4, GrantCases DEF AskStep
      <4>3. QED
        BY <4>1, <4>2 DEF Rework, Unfinished, InTable
    <3>2. CASE ~InTable(r.turn)
      <4>1. PICK n : AskStep(r, n)
        BY <3>2, <2>4, GrantCases DEF Rework, Unfinished, InTable
      <4>2. turn'[r.turn] = NewTurn(r, n)
        BY <1>1, <4>1 DEF AskStep, TypeInv, TablesInv
      <4>3. QED
        BY <4>2 DEF NewTurn, InTable
    <3>3. QED
      BY <3>1, <3>2
  <2>6. Owns(v)'
    BY <2>3, <2>5 DEF Owns
  <2>7. Knows(v)'
    BY <2>3, <2>6 DEF Knows, Inserting, Unkeyed, Reading, Scoping, Building, Owning
  <2>8. QED
    BY <2>3, <2>7 DEF Learns
<1>3. CASE ClaimReplays(h) \/ ClaimRefuses(h)
  BY <1>3, PlainMoves DEF ClaimReplays, ClaimRefuses
<1>4. QED
  BY <1>2, <1>3 DEF Claim

LEMMA ResolveLearns ==
  ASSUME TypeInv, VersionsInv, KnowsInv, NEW h \in Handlers, Resolve(h)
  PROVE  Learns(h)
<1> DEFINE r == handler[h].req
           src == ResolvedSource(r)
           ctx == IF src = Null THEN 0 ELSE version[src]
<1>1. /\ r \in Requests /\ r.conv \in Convs /\ handler[h].pc = "resolving"
      /\ handler[h] \in HandlerState /\ handler \in [Handlers -> HandlerState]
      /\ conv \in [Convs -> ConvRow]
  BY RequestFields DEF Resolve, At, TypeInv, HandlersInv, WorkerOK, TablesInv
<1>2. CASE handler' = [handler EXCEPT ![h] = [handler[h] EXCEPT !.pc = "reading", !.ctx = ctx]]
           /\ conv' = [conv EXCEPT ![r.conv] = [exists |-> TRUE, source |-> src]]
  <2>1. PICK v : v = [handler[h] EXCEPT !.pc = "reading", !.ctx = ctx]
    OBVIOUS
  <2>2. /\ handler' = [handler EXCEPT ![h] = v]
        /\ v.pc = "reading" /\ v.req = r /\ v.ctx = ctx /\ v.seq = handler[h].seq
    BY <1>1, <1>2, <2>1 DEF HandlerState
  <2>3. src # Null => ctx # 0
    BY <1>1, ResolvedType DEF VersionsInv, TypeInv
  <2>4. conv'[r.conv].exists /\ conv'[r.conv].source = src
    BY <1>1, <1>2
  <2>5. Resolved(v)'
    BY <2>2, <2>3, <2>4 DEF Resolved
  <2>6. Keyed(v.req) => Owns(handler[h])
    BY <1>1, <2>2 DEF KnowsInv, Knows, Owning
  <2>7. Keyed(v.req) => Owns(v)'
    BY <2>2, <2>6 DEF Resolve, Owns, InTable
  <2>8. Knows(v)'
    BY <2>2, <2>5, <2>7 DEF Knows, Inserting, Unkeyed, Reading, Scoping, Building, Owning
  <2>9. QED
    BY <2>2, <2>8 DEF Learns
<1>3. CASE Abort(h)
  BY <1>3, PlainMoves
<1>4. QED
  BY <1>1, <1>2, <1>3 DEF Resolve

\* The policy a turn starts from names every source of the answers it reads.
LEMMA InheritedCovers ==
  ASSUME VersionsInv, NEW h \in Handlers, Keyed(handler[h].req)
  PROVE  Covers(Inherited(h), handler[h].req.conv, handler[h].seq)
  BY DEF Covers, Inherited, History, VersionsInv

LEMMA ReadHistoryLearns ==
  ASSUME TypeInv, VersionsInv, KnowsInv, NEW h \in Handlers, ReadHistory(h)
  PROVE  Learns(h)
<1> DEFINE u == handler[h]
<1>1. u.pc = "reading" /\ u \in HandlerState /\ handler \in [Handlers -> HandlerState]
  BY DEF ReadHistory, At, TypeInv, HandlersInv
<1>2. CASE handler' = [handler EXCEPT ![h] =
             [u EXCEPT !.pc = IF Keyed(u.req) THEN "answering" ELSE "numbering",
                       !.policy = Inherited(h)]]
  <2>1. PICK w : w = [u EXCEPT !.pc = IF Keyed(u.req) THEN "answering" ELSE "numbering",
                               !.policy = Inherited(h)]
    OBVIOUS
  <2>2. /\ handler' = [handler EXCEPT ![h] = w]
        /\ w.pc = IF Keyed(u.req) THEN "answering" ELSE "numbering"
        /\ w.policy = Inherited(h)
        /\ w.req = u.req /\ w.ctx = u.ctx /\ w.seq = u.seq
    BY <1>1, <1>2, <2>1 DEF HandlerState
  <2>3. Resolved(u) /\ (Keyed(u.req) => Owns(u))
    BY <1>1 DEF KnowsInv, Knows, Reading, Owning
  <2>4. Resolved(w) /\ (Keyed(u.req) => Owns(w))
    BY <2>2, <2>3 DEF Resolved, Owns
  <2>5. Keyed(u.req) => Covers(w.policy, w.req.conv, w.seq)
    BY <2>2, InheritedCovers
  <2>6. Knows(w)
    BY <2>2, <2>4, <2>5
       DEF Knows, Inserting, Unkeyed, Reading, Scoping, Building, Owning
  <2>7. QED
    BY <2>2, <2>6 DEF Learns
<1>3. CASE Abort(h)
  BY <1>3, PlainMoves
<1>4. QED
  BY <1>1, <1>2, <1>3 DEF ReadHistory

LEMMA ReadSequenceLearns ==
  ASSUME TypeInv, KnowsInv, NEW h \in Handlers, NEW from, NEW to,
         <<from, to>> \in {<<"numbering", "asking">>, <<"drafting", "saving">>},
         ReadSequence(h, from, to)
  PROVE  Learns(h)
<1> DEFINE u == handler[h]
<1>1. u.pc = from /\ u \in HandlerState /\ handler \in [Handlers -> HandlerState]
  BY DEF ReadSequence, At, TypeInv, HandlersInv
<1>2. PICK n \in Latest(u.req.conv) :
        handler' = [handler EXCEPT ![h] = [u EXCEPT !.pc = to, !.seq = n + 1]]
  BY <1>1 DEF ReadSequence
<1>3. PICK w : w = [u EXCEPT !.pc = to, !.seq = n + 1]
  OBVIOUS
<1>4. /\ handler' = [handler EXCEPT ![h] = w]
      /\ w.pc = to /\ w.seq = n + 1
      /\ w.req = u.req /\ w.ctx = u.ctx /\ w.policy = u.policy
  BY <1>1, <1>2, <1>3 DEF HandlerState
<1>5. ~Keyed(u.req) /\ Resolved(u) /\ (from = "drafting" => InScope(u))
  BY <1>1 DEF KnowsInv, Knows, Unkeyed, Reading, Scoping
<1>6. Resolved(w) /\ (from = "drafting" => InScope(w))
  BY <1>4, <1>5 DEF Resolved, InScope
<1>7. Numbered(w)
  <2>1. n \in Nat /\ n \in Sequences(u.req.conv)
    BY <1>2, LatestType DEF Latest, TypeInv
  <2>2. w.seq - 1 = n
    BY <1>4, <2>1
  <2>3. QED
    BY <1>4, <2>1, <2>2 DEF Numbered
<1>8. Knows(w)
  BY <1>4, <1>5, <1>6, <1>7
     DEF Knows, Inserting, Unkeyed, Reading, Scoping, Building, Owning
<1>9. QED
  BY <1>4, <1>8 DEF Learns

LEMMA InsertRawLearns ==
  ASSUME TypeInv, KnowsInv, NEW h \in Handlers, NEW from, NEW to, NEW kind, NEW text,
         NEW policy,
         <<from, to>> \in {<<"asking", "answering">>, <<"saving", "checking">>},
         InsertRaw(h, from, to, kind, text, policy)
  PROVE  Learns(h)
<1> DEFINE u == handler[h]
<1>1. u.pc = from /\ u \in HandlerState /\ handler \in [Handlers -> HandlerState]
  BY DEF InsertRaw, At, TypeInv, HandlersInv
<1>2. CASE Goto(h, to)
  <2>1. PICK w : w = [u EXCEPT !.pc = to]
    OBVIOUS
  <2>2. /\ handler' = [handler EXCEPT ![h] = w]
        /\ w.pc = to /\ w.req = u.req /\ w.ctx = u.ctx
    BY <1>1, <1>2, <2>1 DEF Goto, HandlerState
  <2>3. ~Keyed(u.req) /\ Resolved(u)
    BY <1>1 DEF KnowsInv, Knows, Unkeyed, Reading
  <2>4. Resolved(w)
    BY <2>2, <2>3 DEF Resolved
  <2>5. Knows(w)
    BY <2>2, <2>3, <2>4 DEF Knows, Inserting, Unkeyed, Reading, Scoping, Building, Owning
  <2>6. QED
    BY <2>2, <2>5 DEF Learns
<1>3. CASE Abort(h)
  BY <1>3, PlainMoves
<1>4. QED
  BY <1>2, <1>3 DEF InsertRaw

\* What retrieval adds to a policy, or a resource conversation binds it to, names
\* at least what the policy named.
LEMMA GenerateCovers ==
  ASSUME VersionsInv, NEW p, NEW used, NEW src, NEW ctx, NEW c, NEW n,
         Covers(p, c, n),
         src # Null => Bindable(Merged(p, used), src, ctx)
  PROVE  Covers(IF src = Null THEN Merged(p, used) ELSE Bound(src, ctx), c, n)
<1> DEFINE q == IF src = Null THEN Merged(p, used) ELSE Bound(src, ctx)
<1>1. ASSUME NEW s \in Sources, p[s] # 0 PROVE q[s] # 0
  <2>1. Merged(p, used)[s] # 0
    BY <1>1 DEF Merged, VersionsInv
  <2>2. QED
    BY <2>1 DEF Bindable, Bound
<1>2. QED
  BY <1>1 DEF Covers

LEMMA GenerateLearns ==
  ASSUME TypeInv, VersionsInv, KnowsInv, NEW h \in Handlers, Generate(h)
  PROVE  Learns(h)
<1> PICK u : u = handler[h]
  OBVIOUS
<1> PICK src : src = conv[u.req.conv].source
  OBVIOUS
<1>1. /\ u.pc = "answering" /\ u \in HandlerState /\ u.req.conv \in Convs
      /\ handler \in [Handlers -> HandlerState]
      /\ src \in Sources \cup {Null}
  BY RequestFields DEF Generate, At, TypeInv, HandlersInv, WorkerOK, TablesInv, ConvRow
<1> DEFINE Q(used) == IF src = Null THEN Merged(u.policy, used) ELSE Bound(src, u.ctx)
           pc(a) == IF Keyed(u.req) \/ a = Insufficient THEN "checking" ELSE "drafting"
<1>2. ASSUME NEW used, NEW a,
             src # Null => Bindable(Merged(u.policy, used), src, u.ctx),
             handler' = [handler EXCEPT ![h] =
                           [u EXCEPT !.pc = pc(a), !.policy = Q(used), !.answer = a]]
      PROVE  Learns(h)
  <2>1. PICK w : w = [u EXCEPT !.pc = pc(a), !.policy = Q(used), !.answer = a]
    OBVIOUS
  <2>2. /\ handler' = [handler EXCEPT ![h] = w]
        /\ w.pc = pc(a) /\ w.policy = Q(used)
        /\ w.req = u.req /\ w.ctx = u.ctx /\ w.seq = u.seq
    BY <1>1, <1>2, <2>1 DEF HandlerState
  <2>3. /\ Resolved(u)
        /\ Keyed(u.req) => Owns(u) /\ Covers(u.policy, u.req.conv, u.seq)
    BY <1>1 DEF KnowsInv, Knows, Reading, Owning, Building
  <2>4. Resolved(w) /\ (Keyed(u.req) => Owns(w))
    BY <2>2, <2>3 DEF Resolved, Owns
  <2>5. Keyed(u.req) => Covers(w.policy, w.req.conv, w.seq)
    BY <1>2, <2>2, <2>3, GenerateCovers
  <2>6. InScope(w)
    BY <1>1, <2>2, <2>3 DEF InScope, OnlySource, Resolved, Bound
  <2>7. Knows(w)
    BY <2>2, <2>4, <2>5, <2>6
       DEF Knows, Inserting, Unkeyed, Reading, Scoping, Building, Owning
  <2>8. QED
    BY <2>2, <2>7 DEF Learns
<1>3. CASE Abort(h)
  BY <1>3, PlainMoves
<1>4. QED
  BY <1>1, <1>2, <1>3 DEF Generate

LEMMA CheckLearns ==
  ASSUME TypeInv, KnowsInv, NEW h \in Handlers, Check(h)
  PROVE  Learns(h)
<1> PICK u : u = handler[h]
  OBVIOUS
<1>1. u.pc = "checking" /\ u \in HandlerState /\ handler \in [Handlers -> HandlerState]
  BY DEF Check, At, TypeInv, HandlersInv
<1>2. CASE Keyed(u.req) /\ Goto(h, "completing")
  <2>1. PICK w : w = [u EXCEPT !.pc = "completing"]
    OBVIOUS
  <2>2. /\ handler' = [handler EXCEPT ![h] = w]
        /\ w.pc = "completing" /\ w.policy = u.policy
        /\ w.req = u.req /\ w.seq = u.seq
    BY <1>1, <1>2, <2>1 DEF Goto, HandlerState
  <2>3. Owns(u) /\ Covers(u.policy, u.req.conv, u.seq)
    BY <1>1, <1>2 DEF KnowsInv, Knows, Owning, Building
  <2>4. Owns(w) /\ Covers(w.policy, w.req.conv, w.seq)
    BY <2>2, <2>3 DEF Owns
  <2>5. Knows(w)
    BY <2>2, <2>4 DEF Knows, Inserting, Unkeyed, Reading, Scoping, Building, Owning
  <2>6. QED
    BY <2>2, <2>5 DEF Learns
<1>3. QED
  BY <1>2, PlainMoves DEF Check

LEMMA HandlerLearns ==
  ASSUME TypeInv, VersionsInv, KnowsInv, NEW h \in Handlers, HandlerStep(h)
  PROVE  Learns(h)
<1>1. CASE NumberQuestion(h) \/ NumberAnswer(h)
  BY <1>1, ReadSequenceLearns DEF NumberQuestion, NumberAnswer
<1>2. CASE SaveQuestion(h) \/ SaveAnswer(h)
  BY <1>2, InsertRawLearns DEF SaveQuestion, SaveAnswer
<1>3. CASE Complete(h) \/ Confirm(h) \/ ReportFailure(h)
  BY <1>3, PlainMoves DEF Complete, Confirm, ReportFailure
<1>4. QED
  BY <1>1, <1>2, <1>3, ClaimLearns, ResolveLearns, ReadHistoryLearns, GenerateLearns,
     CheckLearns DEF HandlerStep

LEMMA NextLearns ==
  ASSUME TypeInv, VersionsInv, KnowsInv, [Next]_vars
  PROVE  UNCHANGED handler \/ \E h \in Handlers : Learns(h)
<1>1. ASSUME NEW h \in Handlers, NEW r \in Requests, Post(h, r) \/ Status(h, r)
      PROVE  Learns(h)
  BY <1>1, PostLearns, PlainMoves DEF Status
<1>2. ASSUME NEW h \in Handlers, Crash(h) \/ CallFails(h) \/ LoseRpc(h)
      PROVE  Learns(h)
  BY <1>2, PlainMoves DEF Crash, CallFails, LoseRpc
<1>3. ASSUME NEW m \in inflight, RunLate(m) PROVE UNCHANGED handler
  BY <1>3 DEF RunLate
<1>4. ASSUME NEW t \in Turns, LeaseExpires(t) PROVE UNCHANGED handler
  BY <1>4 DEF LeaseExpires
<1>5. Administer => UNCHANGED handler
  BY DEF Administer, RevokeAccess, RestoreAccess, ChangeAudience, WithdrawSource,
         RestoreSource
<1>6. UNCHANGED vars => UNCHANGED handler
  BY DEF vars
<1>7. QED
  BY <1>1, <1>2, <1>3, <1>4, <1>5, <1>6, HandlerLearns DEF Next

\* A completing call whose answer is lost carries what its worker knew.
LEMMA LostRpcKnows ==
  ASSUME TypeInv, KnowsInv, [Next]_vars, NEW m \in inflight', m \notin inflight
  PROVE  KnowsRpc(m)
<1>1. \E h \in Handlers : LoseRpc(h)
  BY DEF Next, HandlerStep, Claim, Resolve, ReadHistory, NumberQuestion, SaveQuestion,
         Generate, NumberAnswer, SaveAnswer, Check, Complete, Confirm, ReportFailure,
         ReadSequence, InsertRaw, Post, Status, Crash, CallFails, RunLate, LeaseExpires,
         Administer, RevokeAccess, RestoreAccess, ChangeAudience, WithdrawSource,
         RestoreSource, vars
<1>2. PICK h \in Handlers : LoseRpc(h)
  BY <1>1
<1>3. m = RpcOf(h)
  BY <1>2 DEF LoseRpc
<1>4. CASE m.op = "complete"
  <2>1. handler[h].pc = "completing" /\ Keyed(handler[h].req)
    BY <1>2, <1>3, <1>4, RequestFields
       DEF RpcOf, At, TypeInv, HandlersInv, WorkerOK, LoseRpc
  <2>2. Owns(handler[h]) /\ Covers(handler[h].policy, handler[h].req.conv, handler[h].seq)
    BY <2>1 DEF KnowsInv, Knows, Owning, Building
  <2>3. m.req = handler[h].req /\ m.policy = handler[h].policy
    BY <1>3 DEF RpcOf
  <2>4. QED
    BY <2>2, <2>3 DEF KnowsRpc, Owns
<1>5. QED
  BY <1>4 DEF KnowsRpc

LEMMA KnowsStep ==
  ASSUME TypeInv, ChatInv, NumbersInv, RowsInv, VersionsInv, KnowsInv, [Next]_vars
  PROVE  KnowsInv'
<1>1. Grows /\ ConvsKept /\ TurnsKept /\ TypeInv'
  BY GrowStep, ConvStep, TurnStep, TypeStep
<1>2. ASSUME NEW g \in Handlers PROVE Knows(handler[g])'
  <2>1. PICK w : w = handler'[g]
    OBVIOUS
  <2>2. WorkerOK(w)
    BY <1>1, <2>1 DEF TypeInv, HandlersInv, WorkerOK
  <2>3. Knows(w) \/ Knows(w)'
    <3>1. CASE w = handler[g]
      BY <3>1 DEF KnowsInv
    <3>2. CASE w # handler[g]
      <4>1. handler \in [Handlers -> HandlerState]
        BY DEF TypeInv, HandlersInv
      <4>2. PICK h \in Handlers : Learns(h)
        BY <2>1, <3>2, NextLearns
      <4>3. PICK v : handler' = [handler EXCEPT ![h] = v] /\ (Knows(v) \/ Knows(v)')
        BY <4>2 DEF Learns
      <4>4. v = w
        BY <2>1, <3>2, <4>1, <4>3
      <4>5. QED
        BY <4>3, <4>4
    <3>3. QED
      BY <3>1, <3>2
  <2>4. Knows(w)'
    BY <1>1, <2>2, <2>3, KnowsKept
  <2>5. QED
    BY <2>1, <2>4
<1>3. ASSUME NEW m \in inflight' PROVE KnowsRpc(m)'
  <2>1. KnowsRpc(m)
    BY LostRpcKnows DEF KnowsInv
  <2>2. RpcOK(m)
    BY <1>1 DEF TypeInv, InflightInv, RpcOK
  <2>3. QED
    BY <1>1, <2>1, <2>2, RpcKept
<1>4. QED
  BY <1>2, <1>3 DEF KnowsInv

-------------------------------------------------------------------------------
(* What an added answer says it was built from.                               *)

\* An added message is a turn's question, a turn's answer or an unkeyed insert;
\* an answer is scoped to its conversation's resource, and a turn's answer
\* covers the answers before its question.
AddedOK(m) ==
  m.kind = "assistant" =>
    /\ conv[m.conv].source # Null => OnlySource(m.policy, conv[m.conv].source)
    /\ m.turn # Null => Covers(m.policy, m.conv, m.seq)

LEMMA AnswerOK ==
  ASSUME TypeInv, ChatInv, NumbersInv, RowsInv, KnowsInv, NEW t \in Turns, NEW k,
         NEW a \in Answers, NEW p \in Policies, AnswerStep(t, k, a, p)
  PROVE  AddedOK(Reply1(t, a, p)) /\ conv[turn[t].conv].exists
<1> PICK m : m = Reply1(t, a, p)
  OBVIOUS
<1> DEFINE c == turn[t].conv
           n == turn[t].seq
<1>1. m.conv = c /\ m.seq = n + 1 /\ m.policy = p
  BY DEF Reply1
<1>2. InTable(t) /\ n \in Nat /\ c \in Convs
  BY OwnedNumber DEF AnswerStep, CompletionAdmitted, CurrentWorker, InTable, TypeInv,
                     TablesInv, TurnRow
<1>3. TurnOK(t)
  BY <1>2 DEF RowsInv
<1>4. conv[c].source # Null => OnlySource(p, conv[c].source)
  BY <1>3 DEF AnswerStep, CompletionAdmitted, TurnOK
<1>5. Covers(p, c, n)
  <2>1. CASE \E h \in Handlers :
               At(h, "completing") /\ handler[h].req.turn = t /\ handler[h].policy = p
    <3>1. PICK h \in Handlers :
            At(h, "completing") /\ handler[h].req.turn = t /\ handler[h].policy = p
      BY <2>1
    <3>2. Keyed(handler[h].req)
      BY <3>1, NullAssumption DEF Keyed
    <3>3. QED
      BY <3>1, <3>2 DEF KnowsInv, Knows, Owning, Building, Owns, At
  <2>2. CASE \E l \in inflight : l.op = "complete" /\ l.req.turn = t /\ l.policy = p
    BY <2>2 DEF KnowsInv, KnowsRpc
  <2>3. QED
    BY <2>1, <2>2 DEF AnswerStep, PreparedBy
<1>6. Covers(p, c, n + 1)
  <2> SUFFICES ASSUME NEW l \in Of(c), l.kind = "assistant", l.seq < n + 1
               PROVE  l.seq < n
    BY <1>5 DEF Covers
  <2>1. l.seq \in Nat
    BY DEF Of, TypeInv, TablesInv, Message
  <2>2. l.seq # n
    BY <1>2, <1>3 DEF TurnOK, NumbersInv
  <2>3. QED
    BY <1>2, <2>1, <2>2
<1>7. conv[c].exists
  BY <1>3 DEF TurnOK
<1>8. AddedOK(m)
  BY <1>1, <1>4, <1>6 DEF AddedOK
<1>9. QED
  BY <1>7, <1>8

LEMMA AddedMessages ==
  ASSUME TypeInv, ChatInv, NumbersInv, RowsInv, KnowsInv, [Next]_vars
  PROVE  UNCHANGED msgs \/ \E m \in Message : Added(m) /\ AddedOK(m) /\
           (m.kind = "assistant" => conv[m.conv].exists)
<1> DEFINE Goal == UNCHANGED msgs \/ \E m \in Message : Added(m) /\ AddedOK(m) /\
                     (m.kind = "assistant" => conv[m.conv].exists)
<1>1. ASSUME NEW r \in Requests, GrantStep(r) PROVE Goal
  <2>1. ASSUME NEW n, AskStep(r, n) PROVE Goal
    <3>1. Added(Question(r, n)) /\ Question(r, n).kind = "user"
      BY <2>1, AskAdds DEF Question
    <3>2. QED
      BY <3>1 DEF Added, AddedOK
  <2>2. QED
    BY <1>1, <2>1, GrantCases DEF Rework
<1>2. ASSUME NEW t \in Turns, NEW k, NEW a \in Answers, NEW p \in Policies,
             AnswerStep(t, k, a, p)
      PROVE  Goal
  <2>1. Added(Reply1(t, a, p)) /\ AddedOK(Reply1(t, a, p)) /\ conv[turn[t].conv].exists
    BY <1>2, AnswerAdds, AnswerOK
  <2>2. Reply1(t, a, p).conv = turn[t].conv
    BY DEF Reply1
  <2>3. QED
    BY <2>1, <2>2 DEF Added
<1>3. ASSUME NEW c \in Convs, NEW n \in Nat \ {0}, NEW kind \in {"user", "assistant"},
             NEW text \in Queries \cup Answers, NEW p \in Policies,
             RawStep(c, n, kind, text, p)
      PROVE  Goal
  <2> PICK m : m = RawMessage(c, n, kind, text, p)
    OBVIOUS
  <2>1. Added(m)
    BY <1>3, RawAdds
  <2>2. m.kind = kind /\ m.turn = Null /\ m.conv = c /\ m.policy = p
    BY DEF RawMessage
  <2>3. PICK h \in Handlers : WrittenBy(h, c, n, kind, p)
    BY <1>3 DEF RawStep
  <2>4. kind = "assistant" => InScope(handler[h]) /\ Resolved(handler[h])
    BY <2>3 DEF WrittenBy, At, KnowsInv, Knows, Scoping, Reading, Unkeyed
  <2>5. kind = "assistant" =>
          /\ conv[c].exists
          /\ conv[c].source # Null => OnlySource(p, conv[c].source)
    BY <2>3, <2>4 DEF WrittenBy, InScope, Resolved
  <2>6. AddedOK(m)
    BY <2>2, <2>5 DEF AddedOK
  <2>7. QED
    BY <2>1, <2>2, <2>5, <2>6 DEF Added
<1>4. ASSUME NEW t \in Turns, DemoteStep(t) PROVE Goal
  BY <1>4 DEF DemoteStep
<1> HIDE DEF Goal
<1>5. UNCHANGED msgs => Goal
  BY DEF Goal
<1>6. Goal
  BY <1>1, <1>2, <1>3, <1>4, <1>5, NextTableStep DEF TableStep
<1>7. QED
  BY <1>6 DEF Goal

LEMMA ScopeStep ==
  ASSUME TypeInv, ChatInv, NumbersInv, RowsInv, KnowsInv, ResourceScope, [Next]_vars
  PROVE  ResourceScope'
<1> SUFFICES ASSUME NEW m \in msgs', m.kind = "assistant", conv'[m.conv].source # Null
             PROVE  OnlySource(m.policy, conv'[m.conv].source)
  BY DEF ResourceScope, OnlySource
<1>1. conv[m.conv].exists /\ m.conv \in Convs
      /\ (conv[m.conv].source # Null => OnlySource(m.policy, conv[m.conv].source))
  <2>1. CASE m \in msgs
    BY <2>1 DEF RowsInv, MessageOK, ResourceScope, TypeInv, TablesInv, Message
  <2>2. CASE m \notin msgs
    BY <2>2, AddedMessages DEF Added, AddedOK, Message
  <2>3. QED
    BY <2>1, <2>2
<1>2. conv'[m.conv] = conv[m.conv]
  BY <1>1, ConvStep DEF ConvsKept
<1>3. QED
  BY <1>1, <1>2

LEMMA ProvenanceStep ==
  ASSUME TypeInv, ChatInv, NumbersInv, RowsInv, KnowsInv, ProvenanceInherited,
         [Next]_vars
  PROVE  ProvenanceInherited'
<1>1. CASE UNCHANGED msgs
  BY <1>1 DEF ProvenanceInherited
<1>2. ASSUME NEW l \in Message, Added(l), AddedOK(l) PROVE ProvenanceInherited'
  <2> SUFFICES ASSUME NEW m \in msgs', NEW n \in msgs', m.conv = n.conv, m.seq < n.seq,
                      m.kind = "assistant", n.kind = "assistant", n.turn # Null,
                      NEW s \in Sources, m.policy[s] # 0
               PROVE  n.policy[s] # 0
    BY DEF ProvenanceInherited
  <2>1. \A i \in msgs : i.conv = l.conv => i.seq < l.seq /\ i.seq \in Nat
    <3>1. Cardinality(Of(l.conv)) \in Nat
          /\ Sequences(l.conv) = 0 .. Cardinality(Of(l.conv))
      BY NextNumber DEF NumbersInv, Message
    <3>2. \A i \in msgs : i.conv = l.conv => i.seq \in Sequences(l.conv)
      BY DEF Sequences, Of
    <3>3. l.seq = Cardinality(Of(l.conv)) + 1
      BY <1>2 DEF Added
    <3>4. QED
      BY <3>1, <3>2, <3>3
  <2>2. msgs' = msgs \cup {l} /\ l.seq \in Nat
    BY <1>2 DEF Added, Message
  <2>3. m # l
    BY <2>1, <2>2
  <2>4. CASE n = l
    <3>1. m \in Of(l.conv)
      BY <2>2, <2>3, <2>4 DEF Of
    <3>2. QED
      BY <1>2, <2>4, <3>1 DEF AddedOK, Covers
  <2>5. CASE n # l
    BY <2>2, <2>3, <2>5 DEF ProvenanceInherited
  <2>6. QED
    BY <2>4, <2>5
<1>3. QED
  BY <1>1, <1>2, AddedMessages

LEMMA HistoryInit == Init => HistoryInv
<1> SUFFICES ASSUME Init PROVE HistoryInv
  OBVIOUS
<1>1. TypeInv /\ ChatInv
  BY TypeInit, ChatInit
<1>2. NumbersInv
  <2>1. \A c : Of(c) = {} /\ Sequences(c) = {0}
    BY DEF Init, Of, Sequences
  <2>2. IsFiniteSet({}) /\ Cardinality({}) = 0
    BY FS_EmptySet
  <2>3. QED
    BY <2>1, <2>2 DEF NumbersInv
<1>3. RowsInv /\ ResourceScope /\ ProvenanceInherited
  BY DEF Init, RowsInv, ResourceScope, ProvenanceInherited, InTable, AbsentTurn
<1>4. VersionsInv
  BY DEF Init, VersionsInv
<1>5. KnowsInv
  BY KnowsNothing DEF Init, KnowsInv, IdleHandler
<1>6. QED
  BY <1>1, <1>2, <1>3, <1>4, <1>5 DEF HistoryInv

LEMMA HistoryStep == HistoryInv /\ [Next]_vars => HistoryInv'
<1> SUFFICES ASSUME HistoryInv, [Next]_vars PROVE HistoryInv'
  OBVIOUS
<1> USE DEF HistoryInv
<1>1. TypeInv' /\ ChatInv'
  BY TypeStep, ChatStep
<1>2. NumbersInv'
  BY GrowStep, NumbersStep
<1>3. RowsInv' /\ KnowsInv'
  BY RowsStep, KnowsStep
<1>4. VersionsInv'
  BY VersionStep DEF VersionsInv
<1>5. ResourceScope' /\ ProvenanceInherited'
  BY ScopeStep, ProvenanceStep
<1>6. QED
  BY <1>1, <1>2, <1>3, <1>4, <1>5

\* The tables agree with each other and with what every handler and every lost
\* call still knows of them, in every reachable state.
THEOREM HistoryInvariance == Spec => []HistoryInv
  BY HistoryInit, HistoryStep, PTL DEF Spec

\* The messages of every conversation are numbered 1, 2, ... without gap or
\* duplicate, an open question is the last of them and no unkeyed one lies behind a
\* turn's question, though unkeyed handlers number and insert in two calls.
THEOREM TranscriptIsOrdered == Spec => []TranscriptOrder
<1>1. HistoryInv => TranscriptOrder
  BY DEF HistoryInv, NumbersInv, Contiguous, ChatInv, TranscriptOrder
<1>2. QED
  BY <1>1, HistoryInvariance, PTL

\* Every answer of a resource conversation, keyed or not, names that resource and
\* nothing else.
THEOREM AnswersStayInScope == Spec => []ResourceScope
<1>1. HistoryInv => ResourceScope
  BY DEF HistoryInv
<1>2. QED
  BY <1>1, HistoryInvariance, PTL

\* A turn's answer names every source of every answer before it, whatever worker
\* stored it, early or late.
THEOREM ProvenanceIsInherited == Spec => []ProvenanceInherited
<1>1. HistoryInv => ProvenanceInherited
  BY DEF HistoryInv
<1>2. QED
  BY <1>1, HistoryInvariance, PTL

-------------------------------------------------------------------------------
(* The tables implement ChatLedger.                                           *)

EntryOf(m) == [kind |-> m.kind, turn |-> m.turn, text |-> m.text]

\* A set of messages numbered 1, 2, ... without gap or duplicate.
Ordered(S) ==
  /\ IsFiniteSet(S)
  /\ S \subseteq Message
  /\ {0} \cup {m.seq : m \in S} = 0 .. Cardinality(S)
  /\ \A m, n \in S : m.seq = n.seq => m = n

\* f lists the entries of S in the order of their numbers.
Lists(f, S) ==
  f = [i \in 1 .. Cardinality(S) |->
         LET m == CHOOSE m \in S : m.seq = i IN [kind |-> m.kind, turn |-> m.turn,
                                                 text |-> m.text]]

LEMMA EntryType ==
  ASSUME NEW m \in Message
  PROVE  EntryOf(m) \in Ledger!Entry
  BY DEF EntryOf, Message, Ledger!Entry

LEMMA ListsOrdered ==
  ASSUME NEW S, Ordered(S), NEW f, Lists(f, S)
  PROVE  /\ f \in Seq(Ledger!Entry)
         /\ Len(f) = Cardinality(S)
         /\ Cardinality(S) \in Nat
         /\ \A i \in 1 .. Cardinality(S) : \E m \in S : m.seq = i /\ f[i] = EntryOf(m)
         /\ \A m \in S : m.seq \in 1 .. Cardinality(S) /\ f[m.seq] = EntryOf(m)
<1> DEFINE N == Cardinality(S)
<1>1. N \in Nat
  BY FS_CardinalityType DEF Ordered
<1>2. ASSUME NEW i \in 1 .. N PROVE \E m \in S : m.seq = i /\ f[i] = EntryOf(m)
  <2>1. \E m \in S : m.seq = i
    BY <1>1 DEF Ordered
  <2>2. PICK m : m = CHOOSE n \in S : n.seq = i
    OBVIOUS
  <2>3. m \in S /\ m.seq = i
    BY <2>1, <2>2
  <2>4. f[i] = EntryOf(m)
    BY <2>2 DEF Lists, EntryOf
  <2>5. QED
    BY <2>3, <2>4
<1>3. ASSUME NEW m \in S PROVE m.seq \in 1 .. N /\ f[m.seq] = EntryOf(m)
  <2>1. m.seq \in Nat \ {0} /\ m.seq \in 0 .. N
    BY DEF Ordered, Message
  <2>2. m.seq \in 1 .. N
    BY <1>1, <2>1
  <2>3. QED
    BY <1>2, <2>2 DEF Ordered
<1>4. f \in [1 .. N -> Ledger!Entry]
  <2>1. \A i \in 1 .. N : f[i] \in Ledger!Entry
    BY <1>2, EntryType DEF Ordered
  <2>2. f = [i \in 1 .. N |-> f[i]]
    BY DEF Lists
  <2>3. QED
    BY <2>1, <2>2
<1>5. f \in Seq(Ledger!Entry)
  BY <1>1, <1>4, SeqDef
<1>6. Len(f) = N
  BY <1>1, <1>4, <1>5, LenProperties
<1>7. QED
  BY <1>1, <1>2, <1>3, <1>5, <1>6

\* One more message at the end lists as one more entry at the end.
LEMMA ListsAppend ==
  ASSUME NEW S, Ordered(S), NEW m \in Message, m.seq = Cardinality(S) + 1,
         NEW T, T = S \cup {m}, Ordered(T), Cardinality(T) = Cardinality(S) + 1,
         NEW f, Lists(f, S), NEW g, Lists(g, T)
  PROVE  g = Append(f, EntryOf(m))
<1> DEFINE N == Cardinality(S)
<1>1. /\ f \in Seq(Ledger!Entry) /\ Len(f) = N /\ N \in Nat
      /\ \A l \in S : l.seq \in 1 .. N /\ f[l.seq] = EntryOf(l)
      /\ \A i \in 1 .. N : \E l \in S : l.seq = i /\ f[i] = EntryOf(l)
  BY ListsOrdered
<1>2. /\ g \in Seq(Ledger!Entry) /\ Len(g) = N + 1
      /\ \A l \in T : g[l.seq] = EntryOf(l)
  BY ListsOrdered
<1>3. /\ Append(f, EntryOf(m)) \in Seq(Ledger!Entry)
      /\ Len(Append(f, EntryOf(m))) = N + 1
      /\ \A i \in 1 .. N : Append(f, EntryOf(m))[i] = f[i]
      /\ Append(f, EntryOf(m))[N + 1] = EntryOf(m)
  BY <1>1, EntryType, AppendProperties
<1>4. \A i \in 1 .. N : g[i] = f[i]
  BY <1>1, <1>2
<1>5. g[N + 1] = EntryOf(m)
  BY <1>2
<1>6. \A i \in 1 .. N + 1 : g[i] = Append(f, EntryOf(m))[i]
  BY <1>1, <1>3, <1>4, <1>5
<1>7. QED
  BY <1>2, <1>3, <1>6, SeqEqual

LEMMA TranscriptLists ==
  TypeInv /\ NumbersInv => \A c \in Convs : Ordered(Of(c)) /\ Lists(Transcript(c), Of(c))
<1> SUFFICES ASSUME TypeInv, NumbersInv, NEW c \in Convs
             PROVE  Ordered(Of(c)) /\ Lists(Transcript(c), Of(c))
  OBVIOUS
<1>1. Ordered(Of(c))
  BY DEF Ordered, NumbersInv, Sequences, Of, TypeInv, TablesInv
<1>2. Lists(Transcript(c), Of(c))
  BY DEF Lists, Transcript, MessageAt
<1>3. QED
  BY <1>1, <1>2

\* t is the turn still to be answered in c, Null where there is none.
IsOpen(c, t) ==
  \/ t \in Turns /\ Unfinished(t) /\ turn[t].conv = c
  \/ t = Null /\ ~\E u \in Turns : Unfinished(u) /\ turn[u].conv = c

LEMMA OpenTurnIs == OneUnfinished => \A c, t : IsOpen(c, t) => OpenTurn(c) = t
  BY DEF OneUnfinished, IsOpen, OpenTurn

LEMMA TranscriptListsNext ==
  TypeInv' /\ NumbersInv' =>
    \A c \in Convs : Ordered(Of(c)') /\ Lists(Transcript(c)', Of(c)')
<1>1. (TypeInv /\ NumbersInv => \A c \in Convs : Ordered(Of(c)) /\ Lists(Transcript(c), Of(c)))'
  BY TranscriptLists, PTL
<1>2. QED
  BY <1>1 DEF Ordered, Lists

LEMMA OpenTurnIsNext == OneUnfinished' => \A c, t : IsOpen(c, t)' => OpenTurn(c)' = t
<1>1. (OneUnfinished => \A c, t : IsOpen(c, t) => OpenTurn(c) = t)'
  BY OpenTurnIs, PTL
<1>2. QED
  BY <1>1

LEMMA LogStep ==
  ASSUME TypeInv, NumbersInv, TypeInv', NumbersInv', NEW m \in Message, Added(m),
         NEW c \in Convs
  PROVE  Transcript(c)' = IF c = m.conv THEN Append(Transcript(c), EntryOf(m))
                          ELSE Transcript(c)
<1>1. CASE c # m.conv
  <2>1. Of(c)' = Of(c)
    BY <1>1, NumbersGrow
  <2>2. QED
    BY <1>1, <2>1 DEF Transcript, MessageAt
<1>2. CASE c = m.conv
  <2>1. PICK S : S = Of(c)
    OBVIOUS
  <2>2. PICK T : T = Of(c)'
    OBVIOUS
  <2>3. PICK f : f = Transcript(c)
    OBVIOUS
  <2>4. PICK g : g = Transcript(c)'
    OBVIOUS
  <2>5. Ordered(S) /\ Lists(f, S)
    BY <2>1, <2>3, TranscriptLists
  <2>6. Ordered(T) /\ Lists(g, T)
    BY <2>2, <2>4, TranscriptListsNext
  <2>7. T = S \cup {m} /\ Cardinality(T) = Cardinality(S) + 1
    BY <1>2, <2>1, <2>2, NumbersGrow
  <2>8. m.seq = Cardinality(S) + 1
    BY <1>2, <2>1 DEF Added
  <2>9. g = Append(f, EntryOf(m))
    BY <2>5, <2>6, <2>7, <2>8, ListsAppend
  <2>10. QED
    BY <1>2, <2>3, <2>4, <2>9
<1>3. QED
  BY <1>1, <1>2

LEMMA LogAppends ==
  ASSUME TypeInv, NumbersInv, TypeInv', NumbersInv', NEW m \in Message, Added(m)
  PROVE  /\ m.conv \in Convs
         /\ Ledger!Append1(m.conv)
         /\ Ledger!New(m.conv) = EntryOf(m)
<1> DEFINE c == m.conv
<1>1. c \in Convs /\ EntryOf(m) \in Ledger!Entry
  BY EntryType DEF Message
<1>2. /\ Transcript(c)' = Append(Transcript(c), EntryOf(m))
      /\ \A d \in Convs \ {c} : Transcript(d)' = Transcript(d)
  BY <1>1, LogStep
<1>3. Transcript(c) \in Seq(Ledger!Entry)
  BY <1>1, TranscriptLists, ListsOrdered
<1>4. /\ Len(Transcript(c)') = Len(Transcript(c)) + 1
      /\ Transcript(c)'[Len(Transcript(c)')] = EntryOf(m)
  BY <1>1, <1>2, <1>3, AppendProperties
<1>5. [d \in Convs |-> Transcript(d)'] =
        [[d \in Convs |-> Transcript(d)] EXCEPT ![c] = Append(@, EntryOf(m))]
  BY <1>1, <1>2
<1>6. Ledger!Append1(c)
  BY <1>1, <1>4, <1>5 DEF Ledger!Append1
<1>7. Ledger!New(c) = EntryOf(m)
  BY <1>1, <1>4 DEF Ledger!New
<1>8. QED
  BY <1>1, <1>6, <1>7

\* The entries of a conversation come from its messages.
LEMMA EntriesStored ==
  ASSUME TypeInv, NumbersInv, NEW c \in Convs, NEW e \in Ledger!Entries(c)
  PROVE  \E m \in Of(c) : e = EntryOf(m)
<1>1. PICK f : f = Transcript(c)
  OBVIOUS
<1>2. PICK S : S = Of(c)
  OBVIOUS
<1>3. Ordered(S) /\ Lists(f, S)
  BY <1>1, <1>2, TranscriptLists
<1>4. /\ f \in Seq(Ledger!Entry) /\ Len(f) = Cardinality(S)
      /\ \A i \in 1 .. Cardinality(S) : \E m \in S : m.seq = i /\ f[i] = EntryOf(m)
  BY <1>3, ListsOrdered
<1>5. \E i \in DOMAIN f : e = f[i]
  BY <1>1 DEF Ledger!Entries
<1>6. DOMAIN f = 1 .. Cardinality(S)
  BY <1>4, LenProperties
<1>7. QED
  BY <1>2, <1>4, <1>5, <1>6

\* A turn that is not in the table was never asked.
LEMMA NeverAsked ==
  ASSUME TypeInv, NumbersInv, RowsInv, NEW t \in Turns, ~InTable(t)
  PROVE  ~Ledger!Asked(t)
<1> SUFFICES ASSUME NEW c \in Convs, NEW e \in Ledger!Entries(c), e.turn = t
             PROVE  FALSE
  BY DEF Ledger!Asked
<1>1. PICK m \in Of(c) : e = EntryOf(m)
  BY EntriesStored
<1>2. m \in msgs /\ m.turn = t
  BY <1>1 DEF Of, EntryOf
<1>3. QED
  BY <1>2, NullAssumption DEF RowsInv, MessageOK

\* An open turn per conversation, or none.
LEMMA SomeOpen ==
  \A c : \E t : IsOpen(c, t)
  BY DEF IsOpen

LEMMA LedgerStutters ==
  ASSUME OneUnfinished, OneUnfinished', UNCHANGED msgs,
         \A u \in Turns : /\ Unfinished(u)' <=> Unfinished(u)
                          /\ Unfinished(u) => turn'[u].conv = turn[u].conv
  PROVE  UNCHANGED Ledger!vars
<1>1. \A c : Transcript(c)' = Transcript(c)
  BY DEF Transcript, MessageAt, Of
<1>2. ASSUME NEW c PROVE OpenTurn(c)' = OpenTurn(c)
  <2>1. PICK t : IsOpen(c, t)
    BY SomeOpen
  <2>2. IsOpen(c, t)'
    BY <2>1 DEF IsOpen
  <2>3. QED
    BY <2>1, <2>2, OpenTurnIs, OpenTurnIsNext
<1>3. QED
  BY <1>1, <1>2 DEF Ledger!vars

LEMMA LedgerAsks ==
  ASSUME HistoryInv, HistoryInv', NEW r \in Requests, NEW n, AskStep(r, n)
  PROVE  Ledger!Next
<1> DEFINE t == r.turn
           c == r.conv
<1> PICK m : m = Question(r, n)
  OBVIOUS
<1>1. /\ t \in Turns /\ t # Null /\ c \in Convs
      /\ m.conv = c /\ m.turn = t /\ m.kind = "user"
  BY RequestFields, NullAssumption DEF AskStep, Question
<1>2. m \in Message /\ Added(m)
  BY AskAdds DEF HistoryInv, Added
<1>3. Ledger!Append1(c) /\ Ledger!New(c) = EntryOf(m)
  BY <1>1, <1>2, LogAppends DEF HistoryInv
<1>4. EntryOf(m).kind = "user" /\ EntryOf(m).turn = t
  BY <1>1 DEF EntryOf
<1>5. ~Ledger!Asked(t)
  BY <1>1, NeverAsked DEF AskStep, HistoryInv
<1>6. /\ turn'[t] = NewTurn(r, n)
      /\ \A u \in Turns \ {t} : turn'[u] = turn[u]
  BY <1>1 DEF AskStep, HistoryInv, TypeInv, TablesInv
<1>7. Unfinished(t)' /\ turn'[t].conv = c
  BY <1>6 DEF NewTurn, Unfinished
<1>8. IsOpen(c, Null)
  BY DEF AskStep, ConversationBusy, IsOpen
<1>9. IsOpen(c, t)'
  BY <1>1, <1>7 DEF IsOpen
<1>10. ASSUME NEW d \in Convs, d # c PROVE OpenTurn(d)' = OpenTurn(d)
  <2>1. PICK u : IsOpen(d, u)
    BY SomeOpen
  <2>2. ~Unfinished(t)
    BY <1>1 DEF AskStep, InTable, Unfinished
  <2>3. IsOpen(d, u)'
    BY <1>6, <1>7, <1>10, <2>1, <2>2 DEF IsOpen, Unfinished
  <2>4. QED
    BY <2>1, <2>3, OpenTurnIs, OpenTurnIsNext DEF HistoryInv, ChatInv
<1>11. OpenTurn(c) = Null /\ OpenTurn(c)' = t
  BY <1>8, <1>9, OpenTurnIs, OpenTurnIsNext DEF HistoryInv, ChatInv
<1>12. [d \in Convs |-> OpenTurn(d)'] =
         [[d \in Convs |-> OpenTurn(d)] EXCEPT ![c] = t]
  BY <1>1, <1>10, <1>11
<1>13. Ledger!Ask(c)
  BY <1>1, <1>3, <1>4, <1>5, <1>11, <1>12 DEF Ledger!Ask
<1>14. QED
  BY <1>1, <1>3, <1>13 DEF Ledger!Next

LEMMA LedgerAnswers ==
  ASSUME HistoryInv, HistoryInv', NEW t \in Turns, NEW k, NEW a \in Answers,
         NEW p \in Policies, AnswerStep(t, k, a, p)
  PROVE  Ledger!Next
<1> PICK m : m = Reply1(t, a, p)
  OBVIOUS
<1> PICK c : c = turn[t].conv
  OBVIOUS
<1>1. m.conv = c /\ m.turn = t /\ m.kind = "assistant" /\ t # Null
  BY NullAssumption DEF Reply1
<1>2. m \in Message /\ Added(m)
  BY AnswerAdds DEF HistoryInv, Added
<1>3. c \in Convs /\ Ledger!Append1(c) /\ Ledger!New(c) = EntryOf(m)
  BY <1>1, <1>2, LogAppends DEF HistoryInv
<1>4. EntryOf(m).kind = "assistant" /\ EntryOf(m).turn = t
  BY <1>1 DEF EntryOf
<1>5. turn[t] \in TurnRow /\ turn \in [Turns -> TurnRow]
  BY DEF HistoryInv, TypeInv, TablesInv
<1>6. turn' = [turn EXCEPT ![t] =
                 [turn[t] EXCEPT !.state = "completed", !.answer = a, !.policy = p]]
  BY <1>5 DEF AnswerStep, StoreAnswer
<1>7. /\ turn'[t].state = "completed"
      /\ \A u \in Turns \ {t} : turn'[u] = turn[u]
  BY <1>5, <1>6 DEF TurnRow
<1>8. Unfinished(t)
  BY DEF AnswerStep, CompletionAdmitted, CurrentWorker, Unfinished
<1>9. IsOpen(c, t)
  BY <1>8 DEF IsOpen
<1>10. IsOpen(c, Null)'
  BY <1>7, <1>8 DEF IsOpen, HistoryInv, ChatInv, OneUnfinished, Unfinished
<1>11. ASSUME NEW d \in Convs, d # c PROVE OpenTurn(d)' = OpenTurn(d)
  <2>1. PICK u : IsOpen(d, u)
    BY SomeOpen
  <2>2. u # t
    BY <1>11, <2>1, NullAssumption DEF IsOpen
  <2>3. ~Unfinished(t)'
    BY <1>7 DEF Unfinished
  <2>4. IsOpen(d, u)'
    BY <1>7, <2>1, <2>2, <2>3 DEF IsOpen, Unfinished
  <2>5. QED
    BY <2>1, <2>4, OpenTurnIs, OpenTurnIsNext DEF HistoryInv, ChatInv
<1>12. OpenTurn(c) = t /\ OpenTurn(c)' = Null
  BY <1>9, <1>10, OpenTurnIs, OpenTurnIsNext DEF HistoryInv, ChatInv
<1>13. [d \in Convs |-> OpenTurn(d)'] =
         [[d \in Convs |-> OpenTurn(d)] EXCEPT ![c] = Null]
  BY <1>3, <1>11, <1>12
<1>14. Ledger!Answer(c)
  BY <1>1, <1>3, <1>4, <1>12, <1>13 DEF Ledger!Answer
<1>15. QED
  BY <1>3, <1>14 DEF Ledger!Next

LEMMA LedgerWritesRaw ==
  ASSUME HistoryInv, HistoryInv', NEW c \in Convs, NEW n \in Nat \ {0},
         NEW kind \in {"user", "assistant"}, NEW text \in Queries \cup Answers,
         NEW p \in Policies, RawStep(c, n, kind, text, p)
  PROVE  Ledger!Next
<1> PICK m : m = RawMessage(c, n, kind, text, p)
  OBVIOUS
<1>1. m.conv = c /\ m.turn = Null
  BY DEF RawMessage
<1>2. m \in Message /\ Added(m)
  BY RawAdds DEF HistoryInv, Added
<1>3. Ledger!Append1(c) /\ Ledger!New(c) = EntryOf(m)
  BY <1>1, <1>2, LogAppends DEF HistoryInv
<1>4. EntryOf(m).turn = Null
  BY <1>1 DEF EntryOf
<1>5. ASSUME NEW e \in Ledger!Entries(c) PROVE e.turn = Null
  <2>1. PICK l \in Of(c) : e = EntryOf(l)
    BY EntriesStored DEF HistoryInv
  <2>2. l \in Message /\ MessageOK(l) /\ l.conv = c
    BY DEF HistoryInv, RowsInv, TypeInv, TablesInv, Of
  <2>3. l.turn = Null
    BY <2>2 DEF MessageOK, RawStep, Managed, Message
  <2>4. QED
    BY <2>1, <2>3 DEF EntryOf
<1>6. ASSUME NEW d PROVE OpenTurn(d)' = OpenTurn(d)
  <2>1. UNCHANGED turn
    BY DEF RawStep
  <2>2. QED
    BY <2>1 DEF OpenTurn, Unfinished
<1>7. Ledger!Raw(c)
  BY <1>3, <1>4, <1>5, <1>6 DEF Ledger!Raw
<1>8. QED
  BY <1>3, <1>7 DEF Ledger!Next

LEMMA LedgerStep == HistoryInv /\ [Next]_vars => [Ledger!Next]_(Ledger!vars)
<1> SUFFICES ASSUME HistoryInv, [Next]_vars
             PROVE  Ledger!Next \/ UNCHANGED Ledger!vars
  OBVIOUS
<1>1. HistoryInv'
  BY HistoryStep
<1>2. OneUnfinished /\ OneUnfinished'
  BY <1>1 DEF HistoryInv, ChatInv
<1>3. ASSUME NEW t \in Turns, Rework(t) PROVE UNCHANGED Ledger!vars
  <2>1. \A u \in Turns : /\ Unfinished(u)' <=> Unfinished(u)
                         /\ turn'[u].conv = turn[u].conv
    BY <1>3 DEF Rework, Unfinished
  <2>2. QED
    BY <1>2, <1>3, <2>1, LedgerStutters DEF Rework
<1>4. CASE UNCHANGED <<turn, msgs>>
  BY <1>2, <1>4, LedgerStutters DEF Unfinished
<1>5. ASSUME NEW r \in Requests, GrantStep(r)
      PROVE  Ledger!Next \/ UNCHANGED Ledger!vars
  <2>1. r.turn \in Turns
    BY <1>5 DEF GrantStep
  <2>2. QED
    BY <1>1, <1>3, <1>5, <2>1, GrantCases, LedgerAsks DEF HistoryInv
<1>6. ASSUME NEW t \in Turns, DemoteStep(t) PROVE UNCHANGED Ledger!vars
  BY <1>3, <1>6, DemoteIsRework DEF HistoryInv
<1>7. TableStep
  BY NextTableStep DEF HistoryInv
<1>8. QED
  BY <1>1, <1>4, <1>5, <1>6, <1>7, LedgerAnswers, LedgerWritesRaw DEF TableStep

LEMMA LedgerInit == Init => Ledger!Init
<1> SUFFICES ASSUME Init PROVE Ledger!Init
  OBVIOUS
<1>1. \A c : Of(c) = {}
  BY DEF Init, Of
<1>2. Cardinality({}) = 0
  BY FS_EmptySet
<1>3. ASSUME NEW c PROVE Transcript(c) = <<>>
  <2>1. Cardinality(Of(c)) = 0
    BY <1>1, <1>2
  <2>2. QED
    BY <2>1 DEF Transcript
<1>4. ASSUME NEW c PROVE OpenTurn(c) = Null
  BY DEF Init, OpenTurn, Unfinished, AbsentTurn
<1>5. QED
  BY <1>3, <1>4 DEF Ledger!Init

\* Whatever workers, retries, late calls and unkeyed requests do, the tables
\* behave as the promised append-only transcript: a question once, nothing while it
\* is open, its one answer next, and nothing unkeyed after the first turn.
THEOREM TablesImplementLedger == Spec => ImplementsLedger
  BY HistoryInvariance, LedgerInit, LedgerStep, PTL DEF Spec, ImplementsLedger, Ledger!Spec

================================================================================
