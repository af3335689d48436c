----------------------------- MODULE IndexPipeline -----------------------------
(***************************************************************************)
(* The index of one stored file version: its processing runs, the chunks    *)
(* cut from its text and their embedding vectors, the requests that extract,*)
(* chunk and embed it (three endpoints that each do one stage, and the      *)
(* upload and retry requests that do all three), and the review of the      *)
(* draft revision whose manifest names the version.                         *)
(*                                                                         *)
(* A request is a thread that makes one database, storage or provider call  *)
(* after the other, each its own transaction, so the requests interleave    *)
(* between any two calls.  A request checks the status it read first and    *)
(* never checks it again.                                                   *)
(*                                                                         *)
(* Every call may raise: the service is away, a statement times out, the    *)
(* value is refused (a NUL in the text), or the answer is lost after the    *)
(* change is committed.  A reviewed manifest freezes the index: row triggers*)
(* refuse to change a run, a chunk or a vector, so the call raises.  What   *)
(* the request does then depends on the try block that the call stands in;  *)
(* some calls stand in none.                                                *)
(*                                                                         *)
(* The chunks of a run are inserted by one statement and deleted by one     *)
(* statement, so they are one value here, the request that inserted them.   *)
(* Vectors are stored batch by batch.                                       *)
(***************************************************************************)
EXTENDS Naturals

CONSTANTS Calls,   \* requests; each is made at most once
          Runs,    \* rows of document_processing_runs of the version
          First,   \* the run that the upload registers
          Parts,   \* the batches of embed_processing_run
          None     \* SQL null

ASSUME FirstAssumption == First \in Runs

ASSUME NullAssumption == None \notin Calls \cup {"processing", "embedded", "failed"}

VARIABLES revision,  \* lifecycle_status of the revision that names the version
          file,      \* what the stored file yields: text, or only blanks
          text,      \* extracted_text of the version
          runs,      \* [Runs -> row, its chunks and their vectors]
          calls,     \* [Calls -> the request and its next database call]
          lost       \* history: runs of a request that ended without settling them

vars == <<revision, file, text, runs, calls, lost>>

index == <<text, runs>>

--------------------------------------------------------------------------------

Texts == {"words", "blank"}

Reviewed == {"under_review", "approved", "published"}

Stages == {"start", "fetch", "store", "ready"}

EmbedStages == {"load", "wipe", "vector", "finish", "unembed"}

Run == [status : {"absent", "queued", "processing", "ready", "failed"},
        emb : {None, "processing", "embedded", "failed"},
        chunks : Calls \cup {None}, vectors : SUBSET Parts]

Call == [op : {"extract", "chunk", "embed", "process"}, run : Runs,
         at : Stages \cup EmbedStages \cup
              {"idle", "clear", "insert", "undo", "look", "mark", "fail", "done"},
         batch : Calls \cup {None}, left : SUBSET Parts]

TypeOK == /\ revision \in Reviewed \cup {"draft", "archived"}
          /\ file \in Texts
          /\ text \in Texts \cup {None}
          /\ runs \in [Runs -> Run]
          /\ calls \in [Calls -> Call]
          /\ lost \subseteq Runs

NoRun == [status |-> "absent", emb |-> None, chunks |-> None, vectors |-> {}]

Init == /\ revision = "draft"
        /\ file \in Texts
        /\ text = None
        /\ runs = [r \in Runs |-> IF r = First THEN [NoRun EXCEPT !.status = "queued"]
                                  ELSE NoRun]
        /\ calls = [c \in Calls |-> [op |-> "process", run |-> First, at |-> "idle",
                                     batch |-> None, left |-> {}]]
        /\ lost = {}

--------------------------------------------------------------------------------
(* The guards of a reviewed manifest *)

\* guard_knowledge_manifest_run and guard_knowledge_index_content refuse every
\* change of a row unless the revision is a draft.
Writable == revision = "draft"

\* A trigger on insertions and updates only.
ClearUnguarded(r) == FALSE

\* A delete that finds no row fires no row trigger.
ClearRefused(r) == ~Writable /\ runs[r].chunks # None

\* The version's trigger compares the contents: storing the same text again
\* changes nothing.
StoreRefused == ~Writable /\ text # file

--------------------------------------------------------------------------------
(* Requests *)

At(c, stage) == calls[c].at = stage

Go(c, stage) == calls' = [calls EXCEPT ![c].at = stage]

\* What a request writes in the row of its run.
Put(c, run) == runs' = [runs EXCEPT ![calls[c].run] = run]

Mine(c) == runs[calls[c].run]

Kept == UNCHANGED <<revision, file>>

\* Where a request goes when embed_processing_run raises.
Raised(c) == IF calls[c].op = "process" THEN "fail" ELSE "done"

\* Where a request goes when the call it is at raises.
Handler(c) == CASE At(c, "fetch")                                  -> "fail"
                [] calls[c].at \in {"clear", "insert"}              -> "undo"
                [] calls[c].at \in {"load", "wipe", "vector", "finish"} -> "unembed"
                [] calls[c].at \in {"look", "mark", "unembed"}      -> Raised(c)
                [] OTHER                                           -> "done"

\* The writes of a status, and of the text, that no handler makes good: they stand
\* before or behind a try block, or are themselves the write of a handler.
Unguarded == {"start", "store", "ready", "fail", "mark", "unembed"}

Throw(c) ==
    /\ Go(c, Handler(c))
    /\ lost' = IF calls[c].at \in Unguarded THEN lost \cup {calls[c].run} ELSE lost

\* A call that writes the row of its run, and raises before or after the commit; it
\* must raise where the database refuses the row.
Write(c, allowed, row, next) ==
    \/ allowed /\ Put(c, row) /\ Go(c, next) /\ UNCHANGED lost
    \/ (UNCHANGED runs \/ (allowed /\ Put(c, row))) /\ Throw(c)

\* The first read of a request and the status it insists on.
Extract(c, r) ==
    /\ At(c, "idle")
    /\ runs[r].status = "queued"
    /\ \E op \in {"extract", "process"} :
          calls' = [calls EXCEPT ![c] = [@ EXCEPT !.op = op, !.run = r, !.at = "start"]]
    /\ UNCHANGED <<text, runs, lost>> /\ Kept

Chunk(c, r) ==
    /\ At(c, "idle")
    /\ runs[r].status = "ready"
    /\ calls' = [calls EXCEPT ![c] = [@ EXCEPT !.op = "chunk", !.run = r, !.at = "clear"]]
    /\ UNCHANGED <<text, runs, lost>> /\ Kept

Embed(c, r) ==
    /\ At(c, "idle")
    /\ runs[r].status # "absent"
    /\ calls' = [calls EXCEPT ![c] = [@ EXCEPT !.op = "embed", !.run = r, !.at = "look"]]
    /\ UNCHANGED <<text, runs, lost>> /\ Kept

\* A new run, only when every run of the version has failed.  The request that
\* made it goes on with Extract; lost in between, it leaves the run queued.
RetryIndex(r) ==
    /\ Writable
    /\ runs[r].status = "absent"
    /\ \A q \in Runs : \/ runs[q].status \in {"absent", "failed"}
                       \/ runs[q].status = "ready" /\ runs[q].emb = "failed"
    /\ runs' = [runs EXCEPT ![r] = [NoRun EXCEPT !.status = "queued"]]
    /\ UNCHANGED <<text, calls, lost>> /\ Kept

--------------------------------------------------------------------------------
(* Extraction *)

\* The row's check completed_at >= started_at refuses a start stamped after an
\* earlier request completed the run; a stamp taken before that is accepted.
Start(c) ==
    /\ At(c, "start")
    /\ Write(c, Writable, [Mine(c) EXCEPT !.status = "processing"], "fetch")
    /\ UNCHANGED text /\ Kept

\* The exception leaves the request as it is.
FetchUnhandled(c) ==
    /\ At(c, "fetch")
    /\ Go(c, "store") \/ Go(c, "done")
    /\ UNCHANGED <<text, runs, lost>> /\ Kept

\* Download and extraction succeed or raise.
Fetch(c) ==
    /\ At(c, "fetch")
    /\ (Go(c, "store") /\ UNCHANGED lost) \/ Throw(c)
    /\ UNCHANGED <<text, runs>> /\ Kept

\* The upload request rejects a text without words; the endpoint does not.
Store(c) ==
    /\ At(c, "store")
    /\ \/ /\ ~StoreRefused /\ text' = file /\ UNCHANGED lost
          /\ Go(c, IF calls[c].op = "process" /\ file = "blank" THEN "fail" ELSE "ready")
       \/ (UNCHANGED text \/ (~StoreRefused /\ text' = file)) /\ Throw(c)
    /\ UNCHANGED runs /\ Kept

Ready(c) ==
    /\ At(c, "ready")
    /\ Write(c, Writable, [Mine(c) EXCEPT !.status = "ready"],
             IF calls[c].op = "process" THEN "clear" ELSE "done")
    /\ UNCHANGED text /\ Kept

\* A status the table does not know.
FailAsError(c) ==
    /\ At(c, "fail")
    /\ Write(c, Writable, [Mine(c) EXCEPT !.status = "error"], "done")
    /\ UNCHANGED text /\ Kept

\* status = failed, the last write of a request that raised.
Fail(c) ==
    /\ At(c, "fail")
    /\ Write(c, Writable, [Mine(c) EXCEPT !.status = "failed"], "done")
    /\ UNCHANGED text /\ Kept

--------------------------------------------------------------------------------
(* Chunking *)

\* Vectors are deleted with their chunks (ON DELETE CASCADE).
Cleared(c) == [Mine(c) EXCEPT !.chunks = None, !.vectors = {}]

Clear(c) ==
    /\ At(c, "clear")
    /\ Write(c, ~ClearRefused(calls[c].run), Cleared(c), "insert")
    /\ UNCHANGED text /\ Kept

AfterChunks(c) == IF calls[c].op = "process" THEN "look" ELSE "done"

\* A text without words is cut into no chunks.
HasChunks == text = "words"

\* (processing_run_id, chunk_sequence) is unique, so chunks that another request
\* inserted meanwhile make the insert fail.
Insert(c) ==
    /\ At(c, "insert")
    /\ IF HasChunks
       THEN Write(c, Writable /\ Mine(c).chunks = None, [Mine(c) EXCEPT !.chunks = c],
                  AfterChunks(c))
       ELSE Go(c, AfterChunks(c)) /\ UNCHANGED <<runs, lost>>
    /\ UNCHANGED text /\ Kept

\* The handler deletes whatever chunks the run has now.
Undo(c) ==
    /\ At(c, "undo")
    /\ Write(c, ~ClearRefused(calls[c].run), Cleared(c), "fail")
    /\ UNCHANGED text /\ Kept

--------------------------------------------------------------------------------
(* Embedding *)

\* A run that is embedded already is a success that does nothing; one that is being
\* embedded, or a read that fails, raises.
Look(c) ==
    /\ At(c, "look")
    /\ \/ Mine(c).emb \in {None, "failed"} /\ Go(c, "mark") /\ UNCHANGED lost
       \/ Mine(c).emb = "embedded" /\ Go(c, "done") /\ UNCHANGED lost
       \/ Throw(c)
    /\ UNCHANGED <<text, runs>> /\ Kept

Mark(c) ==
    /\ At(c, "mark")
    /\ Write(c, Writable, [Mine(c) EXCEPT !.emb = "processing"], "load")
    /\ UNCHANGED text /\ Kept

\* The chunks whose text is sent to the provider; a run without any raises.
Load(c) ==
    /\ At(c, "load")
    /\ \/ /\ Mine(c).chunks # None
          /\ calls' = [calls EXCEPT ![c] = [@ EXCEPT
                !.batch = Mine(c).chunks, !.left = Parts, !.at = "wipe"]]
          /\ UNCHANGED lost
       \/ Throw(c)
    /\ UNCHANGED <<text, runs>> /\ Kept

Wipe(c) ==
    /\ At(c, "wipe")
    /\ Write(c, Writable \/ Mine(c).vectors = {}, [Mine(c) EXCEPT !.vectors = {}], "vector")
    /\ UNCHANGED text /\ Kept

\* A request after the vectors of its batch p are stored.
Stored(call, p) == [call EXCEPT !.left = call.left \ {p},
                                !.at = IF call.left = {p} THEN "finish" ELSE "vector"]

\* One batch: the provider answers or raises, then its vectors are stored, which
\* fails when the chunks are gone.
Vector(c) ==
    /\ At(c, "vector")
    /\ \/ Throw(c) /\ UNCHANGED runs
       \/ /\ Writable
          /\ Mine(c).chunks = calls[c].batch
          /\ \E p \in calls[c].left :
                /\ Put(c, [Mine(c) EXCEPT !.vectors = @ \cup {p}])
                /\ \/ Throw(c)
                   \/ calls' = [calls EXCEPT ![c] = Stored(calls[c], p)] /\ UNCHANGED lost
    /\ UNCHANGED text /\ Kept

Finish(c) ==
    /\ At(c, "finish")
    /\ Write(c, Writable, [Mine(c) EXCEPT !.emb = "embedded"], "done")
    /\ UNCHANGED text /\ Kept

\* embedding_status = failed, written by the handler of embed_processing_run, which
\* then raises again.
Unembed(c) ==
    /\ At(c, "unembed")
    /\ Write(c, Writable, [Mine(c) EXCEPT !.emb = "failed"], Raised(c))
    /\ UNCHANGED text /\ Kept

\* The server stops: what the request has written stays.
Crash(c) ==
    /\ calls[c].at \notin {"idle", "done"}
    /\ Go(c, "done")
    /\ lost' = lost \cup {calls[c].run}
    /\ UNCHANGED <<text, runs>> /\ Kept

--------------------------------------------------------------------------------
(* Review: each decision is one transaction that holds the revision's row *)

\* What decide_knowledge_revision and the integrity checks ask of a version.
Indexed == \E r \in Runs : runs[r].status = "ready" /\ runs[r].emb = "embedded"

Decide(from, to) == /\ revision = from
                    /\ revision' = to
                    /\ UNCHANGED <<file, text, runs, calls, lost>>

Submit == Indexed /\ Decide("draft", "under_review")

RequestChanges == \E from \in {"under_review", "approved"} : Decide(from, "draft")

Approve == Decide("under_review", "approved")

Publish == Indexed /\ Decide("approved", "published")

Unpublish == Decide("published", "archived")

--------------------------------------------------------------------------------

Step(c) == \/ Start(c) \/ Fetch(c) \/ Store(c) \/ Ready(c) \/ Fail(c)
           \/ Clear(c) \/ Insert(c) \/ Undo(c)
           \/ Look(c) \/ Mark(c) \/ Load(c) \/ Wipe(c) \/ Vector(c)
           \/ Finish(c) \/ Unembed(c)

Request(c) == \E r \in Runs : Extract(c, r) \/ Chunk(c, r) \/ Embed(c, r)

Review == Submit \/ RequestChanges \/ Approve \/ Publish \/ Unpublish

Next == \/ \E c \in Calls : Request(c) \/ Step(c) \/ Crash(c)
        \/ \E r \in Runs : RetryIndex(r)
        \/ Review

Spec == Init /\ [][Next]_vars

--------------------------------------------------------------------------------
(* Properties *)

\* Between submission and the return to draft nothing of the index changes, so
\* what the reviewer saw is what is published.
FrozenInReview == [][revision # "draft" /\ revision' # "draft" => UNCHANGED index]_vars

\* Once its requests have ended a run is no longer in progress: whatever fails of
\* download, extraction, chunking and embedding, and whatever the requests do to
\* each other's rows, a handler settles it.  The runs in lost are the exception: a
\* crash, or an error in one of the six writes that stand in no handler's reach
\* (admin_documents.py:102, 126 and 140, embeddings.py:148, and the writes of the
\* handlers themselves), leaves a run in progress, and as retry_knowledge_index
\* refuses a version with such a run, for good.
Settled == \A r \in Runs \ lost :
              (\A c \in Calls : calls[c].run = r => calls[c].at \in {"idle", "done"})
                 => runs[r].status # "processing" /\ runs[r].emb # "processing"
================================================================================
