--------------------------- MODULE IndexPipelineProofs ---------------------------
(***************************************************************************)
(* Theorems about IndexPipeline, for every set of requests, runs and        *)
(* batches.                                                                 *)
(***************************************************************************)
EXTENDS IndexPipeline, TLAPS

--------------------------------------------------------------------------------
(* The invariant *)

\* Vectors are those of chunks that are stored.
VectorsHaveChunks == \A r \in Runs : runs[r].chunks = None => runs[r].vectors = {}

\* A request that stores vectors has read chunks.
BatchRead == \A c \in Calls : calls[c].at \in {"wipe", "vector"} => calls[c].batch # None

Extracting == {"fetch", "store", "ready", "fail"}

\* Unless one of its requests was lost, a run is in progress only while a request
\* works on it that has yet to write how its stage ended.
Attended ==
  \A r \in Runs \ lost :
    /\ runs[r].status = "processing" =>
         \E c \in Calls : calls[c].run = r /\ calls[c].at \in Extracting
    /\ runs[r].emb = "processing" =>
         \E c \in Calls : calls[c].run = r /\ calls[c].at \in EmbedStages

IInv == TypeOK /\ VectorsHaveChunks /\ BatchRead /\ Attended

--------------------------------------------------------------------------------
(* One call of a request *)

\* With the row of its run as row and the request c at the stage at, the run is in
\* progress only if c will still settle it, or another request as before.
Fits(c, row, at) ==
  /\ row.status = "processing" =>
       at \in Extracting \/ (calls[c].at \notin Extracting /\ Mine(c).status = "processing")
  /\ row.emb = "processing" =>
       at \in EmbedStages \/ (calls[c].at \notin EmbedStages /\ Mine(c).emb = "processing")

Owed(c, row) == calls[c].run \in lost' \/ Fits(c, row, calls'[c].at)

\* The request c is somewhere else and has the same run; no other one moved, and
\* no run but its own was lost.
Moved(c) ==
  /\ calls' \in [Calls -> Call]
  /\ calls'[c].run = calls[c].run
  /\ calls'[c].at \in {"wipe", "vector"} => calls'[c].batch # None
  /\ \A d \in Calls : d # c => calls'[d] = calls[d]
  /\ lost' \in {lost, lost \cup {calls[c].run}}

Afterwards == {"fetch", "store", "ready", "clear", "insert", "undo", "look", "mark", "load",
          "vector", "finish", "unembed", "fail", "done"}

LEMMA GoMoves ==
  ASSUME IInv, NEW c \in Calls, NEW at \in Afterwards,
         at = "vector" => calls[c].at = "wipe", Go(c, at),
         lost' \in {lost, lost \cup {calls[c].run}}
  PROVE  Moved(c) /\ calls'[c].at = at
<1>1. /\ calls' \in [Calls -> Call]
      /\ calls'[c].run = calls[c].run /\ calls'[c].at = at /\ calls'[c].batch = calls[c].batch
      /\ \A d \in Calls : d # c => calls'[d] = calls[d]
  BY DEF IInv, TypeOK, Go, Call, Stages, EmbedStages, Afterwards
<1>2. QED
  BY <1>1 DEF IInv, BatchRead, Moved, Afterwards

\* A call that raises: the request goes to its handler, or its run is lost.
LEMMA ThrowMoves ==
  ASSUME IInv, NEW c \in Calls, Throw(c)
  PROVE  /\ Moved(c) /\ calls'[c].at = Handler(c)
         /\ calls[c].at \in Unguarded => calls[c].run \in lost'
<1>1. Handler(c) \in Afterwards /\ Handler(c) # "vector"
  BY DEF Handler, Raised, At, Afterwards
<1>2. lost' \in {lost, lost \cup {calls[c].run}}
  BY DEF Throw
<1>3. QED
  BY <1>1, <1>2, GoMoves DEF Throw

LEMMA OneCall ==
  ASSUME IInv, NEW c \in Calls, Moved(c), Kept, text' \in Texts \cup {None},
         NEW row \in Run, Put(c, row),
         row.chunks = None => row.vectors = {},
         Owed(c, row)
  PROVE  IInv'
<1>1. /\ runs' \in [Runs -> Run]
      /\ runs'[calls[c].run] = row
      /\ \A r \in Runs : r # calls[c].run => runs'[r] = runs[r]
  BY DEF IInv, TypeOK, Put, Call
<1>2. TypeOK'
  <2>1. calls[c].run \in Runs
    BY DEF IInv, TypeOK, Call
  <2>2. QED
    BY <1>1, <2>1 DEF IInv, TypeOK, Moved, Kept
<1>3. VectorsHaveChunks'
  BY <1>1 DEF IInv, VectorsHaveChunks
<1>4. BatchRead'
  BY DEF IInv, BatchRead, Moved
<1>5. Attended'
  <2> SUFFICES ASSUME NEW r \in Runs, r \notin lost'
               PROVE  /\ runs'[r].status = "processing" =>
                           \E d \in Calls : calls'[d].run = r /\ calls'[d].at \in Extracting
                      /\ runs'[r].emb = "processing" =>
                           \E d \in Calls : calls'[d].run = r /\ calls'[d].at \in EmbedStages
    BY DEF Attended
  <2>1. r \notin lost
    BY DEF Moved
  <2>2. /\ runs[r].status = "processing" =>
             \E d \in Calls : calls[d].run = r /\ calls[d].at \in Extracting
        /\ runs[r].emb = "processing" =>
             \E d \in Calls : calls[d].run = r /\ calls[d].at \in EmbedStages
    BY <2>1 DEF IInv, Attended
  <2>3. CASE r = calls[c].run
    <3> USE DEF Owed, Fits, Mine, Moved
    <3>1. ASSUME row.status = "processing"
          PROVE  \E d \in Calls : calls'[d].run = r /\ calls'[d].at \in Extracting
      BY <3>1, <2>2, <2>3
    <3>2. ASSUME row.emb = "processing"
          PROVE  \E d \in Calls : calls'[d].run = r /\ calls'[d].at \in EmbedStages
      BY <3>2, <2>2, <2>3
    <3>3. QED
      BY <3>1, <3>2, <2>3, <1>1
  <2>4. CASE r # calls[c].run
    BY <2>2, <2>4, <1>1 DEF Moved
  <2>5. QED
    BY <2>3, <2>4
<1>6. QED
  BY <1>2, <1>3, <1>4, <1>5 DEF IInv

\* A call that writes nothing puts its run back as it is.
LEMMA NothingPut ==
  ASSUME IInv, NEW c \in Calls, UNCHANGED runs
  PROVE  /\ Put(c, Mine(c)) /\ Mine(c) \in Run
         /\ Mine(c).chunks = None => Mine(c).vectors = {}
<1>1. calls[c].run \in Runs /\ runs \in [Runs -> Run]
  BY DEF IInv, TypeOK, Call
<1>2. Put(c, Mine(c))
  BY <1>1 DEF Put, Mine
<1>3. QED
  BY <1>1, <1>2 DEF IInv, VectorsHaveChunks, Mine

LEMMA OnlyMoved ==
  ASSUME IInv, NEW c \in Calls, Moved(c), Kept, text' \in Texts \cup {None}, UNCHANGED runs,
         calls[c].at \in Extracting => calls'[c].at \in Extracting,
         calls[c].at \in EmbedStages => calls'[c].at \in EmbedStages
  PROVE  IInv'
<1>1. Owed(c, Mine(c))
  BY DEF Owed, Fits
<1>2. QED
  BY <1>1, NothingPut, OneCall

\* A handler goes on settling what the call that raised would have settled.
LEMMA HandlerFits ==
  ASSUME NEW c \in Calls, calls[c].at \notin Unguarded
  PROVE  /\ calls[c].at \in Extracting => Handler(c) \in Extracting
         /\ calls[c].at \in EmbedStages => Handler(c) \in EmbedStages
BY DEF Unguarded, Extracting, EmbedStages, Handler, At

\* A call that raises, with or without its row written.
LEMMA ThrowKeeps ==
  ASSUME IInv, NEW c \in Calls, Throw(c), Kept, text' \in Texts \cup {None},
         NEW row \in Run, row.chunks = None => row.vectors = {},
         Put(c, row) \/ UNCHANGED runs,
         calls[c].at \notin Unguarded =>
           \/ row.status # "processing"
           \/ row.status = Mine(c).status,
         calls[c].at \notin Unguarded =>
           \/ row.emb # "processing"
           \/ row.emb = Mine(c).emb
  PROVE  IInv'
<1>1. /\ Moved(c) /\ calls'[c].at = Handler(c)
      /\ calls[c].at \in Unguarded => calls[c].run \in lost'
  BY ThrowMoves
<1>2. Owed(c, row) /\ Owed(c, Mine(c))
  BY <1>1, HandlerFits DEF Owed, Fits
<1>3. QED
  BY <1>1, <1>2, NothingPut, OneCall

\* A call that writes its row and goes on to next, or raises.
LEMMA WriteKeeps ==
  ASSUME IInv, NEW c \in Calls, Kept, text' \in Texts \cup {None},
         NEW row \in Run, row.chunks = None => row.vectors = {},
         NEW next \in Afterwards, next = "vector" => calls[c].at = "wipe",
         \/ Put(c, row) /\ Go(c, next) /\ UNCHANGED lost
         \/ (UNCHANGED runs \/ Put(c, row)) /\ Throw(c),
         Fits(c, row, next),
         calls[c].at \notin Unguarded =>
           /\ row.status # "processing" \/ row.status = Mine(c).status
           /\ row.emb # "processing" \/ row.emb = Mine(c).emb
  PROVE  IInv'
<1>1. CASE Throw(c)
  BY <1>1, ThrowKeeps
<1>2. CASE Put(c, row) /\ Go(c, next) /\ UNCHANGED lost
  <2>1. Moved(c) /\ calls'[c].at = next
    BY <1>2, GoMoves
  <2>2. Owed(c, row)
    BY <2>1 DEF Owed
  <2>3. QED
    BY <2>1, <2>2, <1>2, OneCall
<1>3. QED
  BY <1>1, <1>2

--------------------------------------------------------------------------------
(* Each action keeps the invariant *)

LEMMA TextTypes == ASSUME IInv PROVE text \in Texts \cup {None} /\ file \in Texts
  BY DEF IInv, TypeOK

LEMMA RequestKeeps == ASSUME IInv, NEW c \in Calls, Request(c) PROVE IInv'
<1> PICK r \in Runs : Extract(c, r) \/ Chunk(c, r) \/ Embed(c, r)
  BY DEF Request
<1>1. /\ calls' \in [Calls -> Call] /\ calls[c].at = "idle"
      /\ calls'[c].at \in {"start", "clear", "look"}
      /\ \A d \in Calls : d # c => calls'[d] = calls[d]
      /\ UNCHANGED <<revision, file, text, runs, lost>>
  <2>1. PICK op \in {"extract", "process", "chunk", "embed"}, at \in {"start", "clear", "look"} :
          calls' = [calls EXCEPT ![c] = [@ EXCEPT !.op = op, !.run = r, !.at = at]]
    BY DEF Extract, Chunk, Embed
  <2> DEFINE new == [calls[c] EXCEPT !.op = op, !.run = r, !.at = at]
  <2>2. calls \in [Calls -> Call] /\ calls[c] \in Call
    BY DEF IInv, TypeOK
  <2>3. new \in Call /\ new.at = at
    BY <2>2 DEF Call, Stages, EmbedStages
  <2>4. calls' = [calls EXCEPT ![c] = new]
    BY <2>1
  <2>5. calls' \in [Calls -> Call] /\ calls'[c].at = at /\ \A d \in Calls : d # c => calls'[d] = calls[d]
    BY <2>2, <2>3, <2>4
  <2>6. QED
    BY <2>5 DEF Extract, Chunk, Embed, At, Kept
<1>2. TypeOK' /\ VectorsHaveChunks'
  BY <1>1 DEF IInv, TypeOK, VectorsHaveChunks
<1>3. BatchRead'
  BY <1>1 DEF IInv, BatchRead
<1>4. Attended'
  BY <1>1 DEF IInv, Attended, Extracting, EmbedStages
<1>5. QED
  BY <1>2, <1>3, <1>4 DEF IInv

LEMMA ExtractionKeeps ==
  ASSUME IInv, NEW c \in Calls, Start(c) \/ Fetch(c) \/ Store(c) \/ Ready(c) \/ Fail(c)
  PROVE  IInv'
<1> USE TextTypes
<1> DEFINE Row(s) == [Mine(c) EXCEPT !.status = s]
<1>1. /\ Mine(c) \in Run /\ Mine(c).chunks = None => Mine(c).vectors = {}
      /\ \A s \in {"processing", "ready", "failed"} :
           /\ Row(s) \in Run /\ Row(s).status = s /\ Row(s).emb = Mine(c).emb
           /\ Row(s).chunks = None => Row(s).vectors = {}
  BY DEF IInv, TypeOK, Mine, Call, Run, VectorsHaveChunks
<1>2. CASE Start(c)
  <2>1. Fits(c, Row("processing"), "fetch")
    BY <1>1, <1>2 DEF Start, At, Fits, Extracting, EmbedStages
  <2>2. "fetch" \in Afterwards /\ calls[c].at \in Unguarded
    BY <1>2 DEF Start, At, Afterwards, Unguarded
  <2>3. QED
    BY <2>1, <2>2, <1>1, <1>2, WriteKeeps DEF Start, Write
<1>3. CASE Fetch(c)
  <2>1. CASE Throw(c)
    BY <2>1, <1>1, <1>3, ThrowKeeps DEF Fetch
  <2>2. CASE Go(c, "store") /\ UNCHANGED lost
    <3>1. Moved(c) /\ calls'[c].at = "store"
      BY <2>2, GoMoves DEF Afterwards
    <3>2. QED
      BY <3>1, <1>3, OnlyMoved DEF Fetch, At, Extracting, EmbedStages
  <2>3. QED
    BY <1>3, <2>1, <2>2 DEF Fetch
<1>4. CASE Store(c)
  <2>1. text' \in Texts \cup {None} /\ calls[c].at = "store" /\ UNCHANGED runs /\ Kept
    BY <1>4 DEF Store, At
  <2>2. CASE Throw(c)
    BY <2>1, <2>2, <1>1, ThrowKeeps
  <2>3. ASSUME NEW at \in {"fail", "ready"}, Go(c, at), UNCHANGED lost
        PROVE  IInv'
    <3>1. Moved(c) /\ calls'[c].at = at
      BY <2>3, GoMoves DEF Afterwards
    <3>2. QED
      BY <2>1, <3>1, OnlyMoved DEF Extracting, EmbedStages
  <2>4. QED
    BY <1>4, <2>2, <2>3 DEF Store
<1>5. CASE Ready(c)
  <2> DEFINE next == IF calls[c].op = "process" THEN "clear" ELSE "done"
  <2>1. next \in Afterwards /\ next # "vector" /\ calls[c].at \in Unguarded
    BY <1>5 DEF Ready, At, Afterwards, Unguarded
  <2>2. Fits(c, Row("ready"), next)
    BY <1>1, <1>5 DEF Ready, At, Fits, EmbedStages
  <2>3. QED
    BY <2>1, <2>2, <1>1, <1>5, WriteKeeps DEF Ready, Write
<1>6. CASE Fail(c)
  <2>1. "done" \in Afterwards /\ calls[c].at \in Unguarded
    BY <1>6 DEF Fail, At, Afterwards, Unguarded
  <2>2. Fits(c, Row("failed"), "done")
    BY <1>1, <1>6 DEF Fail, At, Fits, EmbedStages
  <2>3. QED
    BY <2>1, <2>2, <1>1, <1>6, WriteKeeps DEF Fail, Write
<1>7. QED
  BY <1>2, <1>3, <1>4, <1>5, <1>6

LEMMA ChunkingKeeps ==
  ASSUME IInv, NEW c \in Calls, Clear(c) \/ Insert(c) \/ Undo(c)
  PROVE  IInv'
<1> USE TextTypes
<1>1. /\ Mine(c) \in Run
      /\ Cleared(c) \in Run /\ Cleared(c).vectors = {}
      /\ Cleared(c).status = Mine(c).status /\ Cleared(c).emb = Mine(c).emb
  <2>1. Mine(c) \in Run
    BY DEF IInv, TypeOK, Mine, Call
  <2>2. QED
    BY <2>1 DEF Run, Cleared
<1>2. calls[c].at \in {"clear", "insert", "undo"}
  BY DEF Clear, Insert, Undo, At
<1>3. \A at : Fits(c, Cleared(c), at)
  BY <1>1, <1>2 DEF Fits, Extracting, EmbedStages
<1>4. CASE Clear(c)
  <2>1. "insert" \in Afterwards
    BY DEF Afterwards
  <2>2. QED
    BY <2>1, <1>1, <1>3, <1>4, WriteKeeps DEF Clear, Write
<1>5. CASE Undo(c)
  <2>1. "fail" \in Afterwards
    BY DEF Afterwards
  <2>2. QED
    BY <2>1, <1>1, <1>3, <1>5, WriteKeeps DEF Undo, Write
<1>6. CASE Insert(c)
  <2> DEFINE row == [Mine(c) EXCEPT !.chunks = c]
             next == AfterChunks(c)
  <2>1. next \in Afterwards /\ next # "vector"
    BY DEF AfterChunks, Afterwards
  <2>2. CASE HasChunks
    <3>1. row \in Run /\ row.status = Mine(c).status /\ row.emb = Mine(c).emb
      BY <1>1 DEF Run
    <3>2. Fits(c, row, next)
      BY <3>1, <1>2 DEF Fits, Extracting, EmbedStages
    <3>3. CASE Throw(c) /\ UNCHANGED runs
      BY <3>3, <1>1, <1>6, NothingPut, ThrowKeeps DEF Insert
    <3>4. CASE /\ Mine(c).chunks = None
               /\ \/ Put(c, row) /\ Go(c, next) /\ UNCHANGED lost
                  \/ Put(c, row) /\ Throw(c)
      <4>1. row.vectors = {}
        BY <3>4, <1>1 DEF IInv, TypeOK, Mine, Call, Run, VectorsHaveChunks
      <4>2. QED
        BY <4>1, <3>1, <3>2, <3>4, <2>1, <1>6, WriteKeeps DEF Insert
    <3>5. QED
      BY <1>6, <2>2, <3>3, <3>4 DEF Insert, Write
  <2>3. CASE ~HasChunks
    <3>1. Go(c, next) /\ UNCHANGED <<runs, lost>>
      BY <1>6, <2>3 DEF Insert
    <3>2. Moved(c)
      BY <2>1, <3>1, GoMoves
    <3>3. QED
      BY <3>1, <3>2, <1>2, <1>6, OnlyMoved DEF Insert, Extracting, EmbedStages
  <2>4. QED
    BY <2>2, <2>3
<1>7. QED
  BY <1>4, <1>5, <1>6

LEMMA EmbeddingKeeps ==
  ASSUME IInv, NEW c \in Calls,
         \/ Look(c) \/ Mark(c) \/ Load(c) \/ Wipe(c) \/ Vector(c) \/ Finish(c) \/ Unembed(c)
  PROVE  IInv'
<1> USE TextTypes
<1> DEFINE Row(s) == [Mine(c) EXCEPT !.emb = s]
<1>1. Mine(c) \in Run /\ (Mine(c).chunks = None => Mine(c).vectors = {})
  BY DEF IInv, TypeOK, Mine, Call, VectorsHaveChunks
<1>2. \A s \in {"processing", "embedded", "failed"} :
         /\ Row(s) \in Run /\ Row(s).emb = s /\ Row(s).status = Mine(c).status
         /\ Row(s).chunks = None => Row(s).vectors = {}
  BY <1>1 DEF Run
<1>3. calls[c] \in Call
  BY DEF IInv, TypeOK
<1>4. CASE Look(c)
  <2>1. CASE Throw(c)
    BY <2>1, <1>1, <1>4, ThrowKeeps DEF Look
  <2>2. ASSUME NEW at \in {"mark", "done"}, Go(c, at), UNCHANGED lost
        PROVE  IInv'
    <3>1. Moved(c)
      BY <2>2, GoMoves DEF Afterwards
    <3>2. QED
      BY <3>1, <1>4, OnlyMoved DEF Look, At, Extracting, EmbedStages
  <2>3. QED
    BY <1>4, <2>1, <2>2 DEF Look
<1>5. CASE Mark(c)
  <2>1. "load" \in Afterwards /\ calls[c].at \in Unguarded
    BY <1>5 DEF Mark, At, Afterwards, Unguarded
  <2>2. Fits(c, Row("processing"), "load")
    BY <1>2, <1>5 DEF Mark, At, Fits, Extracting, EmbedStages
  <2>3. QED
    BY <2>1, <2>2, <1>2, <1>5, WriteKeeps DEF Mark, Write
<1>6. CASE Load(c)
  <2>1. CASE Throw(c)
    BY <2>1, <1>1, <1>6, ThrowKeeps DEF Load
  <2>2. CASE /\ Mine(c).chunks # None
             /\ calls' = [calls EXCEPT ![c] = [@ EXCEPT
                   !.batch = Mine(c).chunks, !.left = Parts, !.at = "wipe"]]
             /\ UNCHANGED lost
    <3>1. /\ calls' \in [Calls -> Call] /\ calls'[c].run = calls[c].run
          /\ calls'[c].batch = Mine(c).chunks /\ Mine(c).chunks # None
          /\ calls'[c].at = "wipe"
          /\ \A d \in Calls : d # c => calls'[d] = calls[d]
      <4>1. Mine(c).chunks \in Calls \cup {None}
        BY <1>1 DEF Run
      <4>2. QED
        BY <4>1, <2>2, <1>3 DEF IInv, TypeOK, Call, EmbedStages
    <3>2. Moved(c)
      BY <3>1, <2>2 DEF Moved
    <3>3. QED
      BY <3>1, <3>2, <1>6, OnlyMoved DEF Load, At, Extracting, EmbedStages
  <2>3. QED
    BY <1>6, <2>1, <2>2 DEF Load
<1>7. CASE Wipe(c)
  <2> DEFINE row == [Mine(c) EXCEPT !.vectors = {}]
  <2>1. /\ row \in Run /\ row.vectors = {}
        /\ row.status = Mine(c).status /\ row.emb = Mine(c).emb
    BY <1>1 DEF Run
  <2>2. "vector" \in Afterwards /\ calls[c].at = "wipe"
    BY <1>7 DEF Wipe, At, Afterwards
  <2>3. Fits(c, row, "vector")
    BY <2>1, <2>2 DEF Fits, Extracting, EmbedStages
  <2>4. QED
    BY <2>1, <2>2, <2>3, <1>7, WriteKeeps DEF Wipe, Write
<1>8. CASE Vector(c)
  <2>1. CASE Throw(c) /\ UNCHANGED runs
    BY <2>1, <1>1, <1>8, ThrowKeeps DEF Vector
  <2>2. ASSUME NEW p \in calls[c].left,
               Mine(c).chunks = calls[c].batch,
               Put(c, [Mine(c) EXCEPT !.vectors = @ \cup {p}]),
               \/ Throw(c)
               \/ calls' = [calls EXCEPT ![c] = Stored(calls[c], p)] /\ UNCHANGED lost
        PROVE  IInv'
    <3> DEFINE row == [Mine(c) EXCEPT !.vectors = @ \cup {p}]
    <3>1. calls[c].at = "vector" /\ calls[c].batch # None /\ p \in Parts
      BY <1>3, <1>8 DEF Vector, At, IInv, BatchRead, Call
    <3>2. /\ row \in Run /\ row.chunks = Mine(c).chunks
          /\ row.status = Mine(c).status /\ row.emb = Mine(c).emb
      BY <3>1, <1>1 DEF Run
    <3>3. row.chunks # None
      BY <3>1, <3>2, <2>2
    <3>4. CASE Throw(c)
      BY <3>2, <3>3, <3>4, <2>2, <1>8, ThrowKeeps DEF Vector
    <3>5. CASE calls' = [calls EXCEPT ![c] = Stored(calls[c], p)] /\ UNCHANGED lost
      <4>1. /\ calls' \in [Calls -> Call] /\ calls'[c].run = calls[c].run
            /\ calls'[c].batch = calls[c].batch /\ calls'[c].at \in {"finish", "vector"}
            /\ \A d \in Calls : d # c => calls'[d] = calls[d]
        <5> DEFINE new == Stored(calls[c], p)
        <5>1. /\ new \in Call /\ new.run = calls[c].run /\ new.batch = calls[c].batch
              /\ new.at \in {"finish", "vector"}
          BY <1>3 DEF Stored, Call, EmbedStages
        <5>2. calls \in [Calls -> Call] /\ calls' = [calls EXCEPT ![c] = new]
          BY <3>5 DEF IInv, TypeOK
        <5>3. QED
          BY <5>1, <5>2
      <4>2. Moved(c)
        BY <4>1, <3>1, <3>5 DEF Moved
      <4>3. Owed(c, row)
        BY <4>1, <3>1, <3>2 DEF Owed, Fits, Extracting, EmbedStages
      <4>4. QED
        BY <4>2, <4>3, <3>2, <3>3, <2>2, <1>8, OneCall DEF Vector
    <3>6. QED
      BY <3>4, <3>5, <2>2
  <2>3. QED
    BY <1>8, <2>1, <2>2 DEF Vector
<1>9. CASE Finish(c)
  <2>1. "done" \in Afterwards /\ calls[c].at = "finish"
    BY <1>9 DEF Finish, At, Afterwards
  <2>2. Fits(c, Row("embedded"), "done")
    BY <2>1, <1>2 DEF Fits, Extracting
  <2>3. QED
    BY <2>1, <2>2, <1>2, <1>9, WriteKeeps DEF Finish, Write
<1>10. CASE Unembed(c)
  <2> DEFINE next == Raised(c)
  <2>1. next \in Afterwards /\ next # "vector" /\ calls[c].at = "unembed"
    BY <1>10 DEF Unembed, Raised, At, Afterwards
  <2>2. Fits(c, Row("failed"), next)
    BY <2>1, <1>2 DEF Fits, Extracting
  <2>3. QED
    BY <2>1, <2>2, <1>2, <1>10, WriteKeeps DEF Unembed, Write
<1>11. QED
  BY <1>4, <1>5, <1>6, <1>7, <1>8, <1>9, <1>10

LEMMA CrashKeeps == ASSUME IInv, NEW c \in Calls, Crash(c) PROVE IInv'
<1> USE TextTypes
<1>1. Go(c, "done") /\ calls[c].run \in lost' /\ lost' \in {lost, lost \cup {calls[c].run}}
  BY DEF Crash
<1>2. Moved(c)
  BY <1>1, GoMoves DEF Afterwards
<1>3. Owed(c, Mine(c))
  BY <1>1 DEF Owed
<1>4. QED
  BY <1>2, <1>3, NothingPut, OneCall DEF Crash

LEMMA RetryKeeps == ASSUME IInv, NEW r \in Runs, RetryIndex(r) PROVE IInv'
<1> DEFINE row == [NoRun EXCEPT !.status = "queued"]
<1>1. /\ row \in Run /\ row.status = "queued" /\ row.emb = None /\ row.vectors = {}
      /\ UNCHANGED <<revision, file, text, calls, lost>>
      /\ runs' = [runs EXCEPT ![r] = row]
  BY DEF RetryIndex, NoRun, Run, Kept
<1>2. runs' \in [Runs -> Run] /\ runs'[r] = row /\ \A q \in Runs : q # r => runs'[q] = runs[q]
  BY <1>1 DEF IInv, TypeOK
<1>3. Attended'
  BY <1>1, <1>2, NullAssumption DEF IInv, Attended
<1>4. QED
  BY <1>1, <1>2, <1>3 DEF IInv, TypeOK, VectorsHaveChunks, BatchRead

LEMMA ReviewKeeps == ASSUME IInv, Review PROVE IInv'
<1>1. /\ UNCHANGED <<file, text, runs, calls, lost>>
      /\ revision' \in Reviewed \cup {"draft", "archived"}
  BY DEF Review, Submit, RequestChanges, Approve, Publish, Unpublish, Decide, Reviewed
<1>2. QED
  BY <1>1 DEF IInv, TypeOK, VectorsHaveChunks, BatchRead, Attended

LEMMA InitHolds == Init => IInv
<1> SUFFICES ASSUME Init PROVE IInv
  OBVIOUS
<1> DEFINE first == [NoRun EXCEPT !.status = "queued"]
           idle == [op |-> "process", run |-> First, at |-> "idle", batch |-> None, left |-> {}]
<1>1. /\ NoRun \in Run /\ first \in Run /\ first.status = "queued" /\ NoRun.status = "absent"
      /\ first.emb = None /\ NoRun.emb = None /\ first.vectors = {} /\ NoRun.vectors = {}
  BY DEF NoRun, Run
<1>2. idle \in Call /\ idle.at = "idle"
  BY FirstAssumption DEF Call
<1>3. /\ runs \in [Runs -> Run]
      /\ \A r \in Runs : /\ runs[r].status \in {"queued", "absent"} /\ runs[r].emb = None
                         /\ runs[r].vectors = {}
  BY <1>1 DEF Init
<1>4. calls \in [Calls -> Call] /\ \A c \in Calls : calls[c].at = "idle"
  BY <1>2 DEF Init
<1>5. TypeOK
  BY <1>3, <1>4 DEF Init, TypeOK, Texts, Reviewed
<1>6. VectorsHaveChunks /\ BatchRead
  BY <1>3, <1>4 DEF Init, VectorsHaveChunks, BatchRead
<1>7. Attended
  BY <1>3, NullAssumption DEF Attended
<1>8. QED
  BY <1>5, <1>6, <1>7 DEF IInv

LEMMA NextKeeps == IInv /\ [Next]_vars => IInv'
<1> SUFFICES ASSUME IInv, [Next]_vars PROVE IInv'
  OBVIOUS
<1>1. CASE Next
  BY <1>1, RequestKeeps, ExtractionKeeps, ChunkingKeeps, EmbeddingKeeps, CrashKeeps,
     RetryKeeps, ReviewKeeps DEF Next, Step
<1>2. CASE UNCHANGED vars
  BY <1>2 DEF vars, IInv, TypeOK, VectorsHaveChunks, BatchRead, Attended
<1>3. QED
  BY <1>1, <1>2

LEMMA Invariance == Spec => []IInv
BY InitHolds, NextKeeps, PTL DEF Spec

--------------------------------------------------------------------------------
(* Theorems *)

\* Type correctness: every reachable row, request and revision is well typed.
THEOREM IndexTypes == Spec => []TypeOK
<1>1. IInv => TypeOK
  BY DEF IInv
<1>2. QED
  BY <1>1, Invariance, PTL

\* Settled: a run whose requests have ended is not in progress, whatever raised inside
\* a handler's reach and whatever other requests did to the run meanwhile, unless
\* a crash or an error outside every handler took one of its requests.
THEOREM RunsAreSettled == Spec => []Settled
<1>1. IInv => Settled
  BY DEF IInv, Attended, Settled, Extracting, EmbedStages
<1>2. QED
  BY <1>1, Invariance, PTL

\* What a frozen call may still write is what is there already.
LEMMA NothingChanges ==
  ASSUME IInv, NEW c \in Calls, NEW row \in Run, Put(c, row),
         row.status = Mine(c).status, row.emb = Mine(c).emb,
         row.chunks = Mine(c).chunks, row.vectors = Mine(c).vectors
  PROVE  UNCHANGED runs
<1>1. runs \in [Runs -> Run] /\ calls[c].run \in Runs /\ Mine(c) \in Run
  BY DEF IInv, TypeOK, Call, Mine
<1>2. row = Mine(c)
  BY <1>1 DEF Run
<1>3. QED
  BY <1>1, <1>2 DEF Put, Mine

LEMMA FrozenStep ==
  ASSUME IInv, NEW c \in Calls, Step(c), ~Writable
  PROVE  UNCHANGED index
<1>1. /\ Mine(c) \in Run
      /\ Cleared(c).chunks = None /\ Cleared(c).vectors = {}
      /\ Cleared(c) \in Run
      /\ Cleared(c).status = Mine(c).status /\ Cleared(c).emb = Mine(c).emb
  <2>1. Mine(c) \in Run
    BY DEF IInv, TypeOK, Mine, Call
  <2>2. QED
    BY <2>1 DEF Run, Cleared
<1>2. CASE Clear(c) \/ Undo(c)
  <2>1. CASE UNCHANGED runs
    BY <1>2, <2>1 DEF Clear, Undo, index
  <2>2. CASE ~ClearRefused(calls[c].run) /\ Put(c, Cleared(c))
    <3>1. Mine(c).chunks = None /\ Mine(c).vectors = {}
      BY <2>2 DEF ClearRefused, Mine, IInv, VectorsHaveChunks, TypeOK, Call
    <3>2. UNCHANGED runs
      BY <3>1, <2>2, <1>1, NothingChanges
    <3>3. QED
      BY <3>2, <1>2 DEF Clear, Undo, index
  <2>3. QED
    BY <1>2, <2>1, <2>2 DEF Clear, Undo, Write
<1>3. CASE Wipe(c)
  <2> DEFINE row == [Mine(c) EXCEPT !.vectors = {}]
  <2>1. CASE UNCHANGED runs
    BY <1>3, <2>1 DEF Wipe, index
  <2>2. CASE Mine(c).vectors = {} /\ Put(c, row)
    <3>1. /\ row \in Run /\ row.status = Mine(c).status /\ row.emb = Mine(c).emb
          /\ row.chunks = Mine(c).chunks /\ row.vectors = {}
      BY <1>1 DEF Run
    <3>2. UNCHANGED runs
      BY <3>1, <2>2, NothingChanges
    <3>3. QED
      BY <3>2, <1>3 DEF Wipe, index
  <2>3. QED
    BY <1>3, <2>1, <2>2 DEF Wipe, Write
<1>4. CASE Store(c)
  BY <1>4 DEF Store, StoreRefused, index
<1>5. CASE Fetch(c) \/ Look(c) \/ Load(c) \/ Vector(c)
  BY <1>5 DEF Fetch, Look, Load, Vector, index
<1>6. CASE Start(c) \/ Ready(c) \/ Fail(c) \/ Insert(c)
  BY <1>6 DEF Start, Ready, Fail, Insert, Write, index
<1>7. CASE Mark(c) \/ Finish(c) \/ Unembed(c)
  BY <1>7 DEF Mark, Finish, Unembed, Write, index
<1>8. QED
  BY <1>2, <1>3, <1>4, <1>5, <1>6, <1>7 DEF Step

LEMMA FrozenNext ==
  ASSUME IInv, [Next]_vars, revision # "draft"
  PROVE  UNCHANGED index
<1>1. ~Writable
  BY DEF Writable
<1>2. CASE UNCHANGED vars
  BY <1>2 DEF vars, index
<1>3. ASSUME NEW c \in Calls, Request(c) \/ Crash(c)
      PROVE  UNCHANGED index
  BY <1>3 DEF Request, Extract, Chunk, Embed, Crash, index
<1>4. ASSUME NEW r \in Runs, RetryIndex(r)
      PROVE  UNCHANGED index
  BY <1>4, <1>1 DEF RetryIndex
<1>5. CASE Review
  BY <1>5 DEF Review, Submit, RequestChanges, Approve, Publish, Unpublish, Decide, index
<1>6. QED
  BY <1>1, <1>2, <1>3, <1>4, <1>5, FrozenStep DEF Next

\* FrozenInReview: from submission until the return to draft no request, however
\* early it began, changes the text, a run, a chunk or a vector.
THEOREM IndexIsFrozen == Spec => FrozenInReview
<1>1. IInv /\ [Next]_vars => (revision # "draft" /\ revision' # "draft" => UNCHANGED index)
  BY FrozenNext
<1>2. QED
  BY <1>1, Invariance, PTL DEF Spec, FrozenInReview

\* A revision that was submitted and not sent back always has a finished index:
\* requests that began while it was a draft are still running, and none of
\* their writes takes the index away.
ReviewedStaysIndexed == revision \in Reviewed => Indexed

THEOREM ReviewedIsIndexed == Spec => []ReviewedStaysIndexed
<1>1. Init => ReviewedStaysIndexed
  BY DEF Init, ReviewedStaysIndexed, Reviewed
<1>2. ASSUME IInv, ReviewedStaysIndexed, [Next]_vars
      PROVE  ReviewedStaysIndexed'
  <2> SUFFICES ASSUME revision' \in Reviewed
               PROVE  Indexed'
    BY DEF ReviewedStaysIndexed
  <2>1. CASE revision = "draft"
    <3>1. Submit \/ UNCHANGED revision
      BY <1>2, <2>1 DEF Next, Request, Extract, Chunk, Embed, Step, Start, Fetch, Store, Ready,
         Fail, Clear, Insert, Undo, Look, Mark, Load, Wipe, Vector, Finish, Unembed, Crash,
         RetryIndex, Kept, Review, RequestChanges, Approve, Publish, Unpublish, Decide, vars
    <3>2. Indexed /\ UNCHANGED runs
      BY <3>1, <2>1 DEF Submit, Decide, Reviewed
    <3>3. QED
      BY <3>2 DEF Indexed
  <2>2. CASE revision # "draft"
    <3>1. UNCHANGED runs
      BY <1>2, <2>2, FrozenNext DEF index
    <3>2. revision \in Reviewed
      BY <1>2, <2>2 DEF Next, Request, Extract, Chunk, Embed, Step, Start, Fetch, Store, Ready,
         Fail, Clear, Insert, Undo, Look, Mark, Load, Wipe, Vector, Finish, Unembed, Crash,
         RetryIndex, Kept, Review, Submit, RequestChanges, Approve, Publish, Unpublish, Decide,
         vars, Reviewed
    <3>3. QED
      BY <1>2, <3>1, <3>2 DEF ReviewedStaysIndexed, Indexed
  <2>3. QED
    BY <2>1, <2>2
<1>3. QED
  BY <1>1, <1>2, Invariance, PTL DEF Spec
================================================================================
