----------------------------- MODULE CanonicalSync -----------------------------
(***************************************************************************)
(* One FAQ or notice and the synthetic document through which it can be     *)
(* retrieved.  The record is the source of truth: publishing or changing it *)
(* stores its text as a new version of the document, indexes the version    *)
(* and publishes it; unpublishing, deactivating or deleting it removes the  *)
(* document.                                                                *)
(*                                                                         *)
(* Every handler is a chain of separate database and storage calls with no  *)
(* transaction around them, so the handlers of two administrators           *)
(* interleave between any two calls, and a failure or a restart leaves what *)
(* was written so far.  A handler creates at most one source, one document, *)
(* one version with its run, and one stored file: each is named after it.   *)
(* The stages of the index pipeline are two steps here (chunks stored, then *)
(* vectors stored): a run made by this handler is known to no other request *)
(* except one that deletes it.  IndexPipeline has the stages.               *)
(***************************************************************************)
EXTENDS Naturals, FiniteSets

CONSTANTS Handlers,  \* requests; each is made at most once
          Wordings,  \* texts an administrator may write
          None       \* SQL null

VARIABLES rec,      \* the row of faqs or notices; None once deleted
          sources,  \* rows of knowledge_sources dedicated to the record's type
          docs,     \* rows of documents
          vers,     \* [Handlers -> row of document_versions with its run]
          files,    \* objects in storage
          todo,     \* [Handlers -> the request and its next call]
          overlap,  \* history: two handlers were ever at work together
          trouble   \* history: a call failed, or the server stopped

vars == <<rec, sources, docs, vers, files, todo, overlap, trouble>>

--------------------------------------------------------------------------------

Record == [text : Wordings, published : BOOLEAN, active : BOOLEAN]

\* run: "bare" is a row without chunks, whatever its status; "chunked" has
\* chunks only, "indexed" has the vectors and is ready and embedded.
Version == [doc : Handlers \cup {None}, number : Nat, text : Wordings \cup {None},
            life : {"absent", "draft", "published", "superseded"},
            supersedes : Handlers \cup {None},
            run : {"none", "bare", "chunked", "indexed", "failed"}]

Task == [at : {"idle", "reread", "source", "new source", "find", "document", "stale",
               "upload", "latest", "insert", "supersede", "run", "chunk", "embed",
               "publish", "marker", "look", "purge", "drop runs",
               "drop versions", "drop document", "drop files", "done"},
         text : Wordings \cup {None}, doc : Handlers \cup {None},
         seen : SUBSET Handlers, listed : SUBSET Handlers, latest : Handlers \cup {None},
         number : Nat, superseded : BOOLEAN]

TypeOK == /\ rec \in Record \cup {None}
          /\ sources \in SUBSET Handlers
          /\ docs \in SUBSET Handlers
          /\ vers \in [Handlers -> Version]
          /\ files \in SUBSET Handlers
          /\ todo \in [Handlers -> Task]
          /\ overlap \in BOOLEAN
          /\ trouble \in BOOLEAN

NoVersion == [doc |-> None, number |-> 0, text |-> None, life |-> "absent",
              supersedes |-> None, run |-> "none"]

Idle == [at |-> "idle", text |-> None, doc |-> None, seen |-> {}, listed |-> {},
         latest |-> None, number |-> 0, superseded |-> FALSE]

\* create_faq and create_notice: an unpublished row, nothing to retrieve.
Init == /\ rec \in [text : Wordings, published : {FALSE}, active : {TRUE}]
        /\ sources = {} /\ docs = {} /\ files = {}
        /\ vers = [h \in Handlers |-> NoVersion]
        /\ todo = [h \in Handlers |-> Idle]
        /\ overlap = FALSE /\ trouble = FALSE

--------------------------------------------------------------------------------

At(h, step) == todo[h].at = step

Busy == {h \in Handlers : todo[h].at \notin {"idle", "done"}}

Go(h, step) == todo' = [todo EXCEPT ![h].at = step]

\* The first write of a request and what it does next.
Begin(h, next) == /\ At(h, "idle")
                  /\ todo' = [todo EXCEPT ![h] = next]
                  /\ overlap' = (overlap \/ Busy # {})
                  /\ UNCHANGED <<sources, docs, vers, files, trouble>>

\* An exception ends the request; an upload not yet registered is deleted.
Raise(h) == Go(h, "done") /\ trouble' = TRUE

Versions(d) == {v \in Handlers : vers[v].life # "absent" /\ vers[v].doc = d}

Rows == <<rec, sources, docs, vers, files>>

--------------------------------------------------------------------------------
(* Requests *)

\* update_faq, update_notice: the row returned by the update decides between a
\* synchronisation and a removal.
Update(h) ==
    /\ rec # None
    /\ \E new \in Record :
          /\ rec' = new
          /\ Begin(h, IF new.active /\ new.published
                      THEN [Idle EXCEPT !.at = "source", !.text = new.text]
                      ELSE [Idle EXCEPT !.at = "marker"])

\* publish_faq, publish_notice: is_active is not looked at.
Publish(h) ==
    /\ rec # None
    /\ rec' = [rec EXCEPT !.published = TRUE]
    /\ Begin(h, [Idle EXCEPT !.at = "reread"])

\* The row is read again for its text; deleted meanwhile, it cannot be rendered.
Reread(h) ==
    /\ At(h, "reread")
    /\ IF rec = None
       THEN Raise(h)
       ELSE /\ todo' = [todo EXCEPT ![h].at = "source", ![h].text = rec.text]
            /\ UNCHANGED trouble
    /\ UNCHANGED <<Rows, overlap>>

\* unpublish_notice
Unpublish(h) ==
    /\ rec # None
    /\ rec' = [rec EXCEPT !.published = FALSE]
    /\ Begin(h, [Idle EXCEPT !.at = "marker"])

\* delete_faq, delete_notice
Delete(h) ==
    /\ rec # None
    /\ rec' = None
    /\ Begin(h, [Idle EXCEPT !.at = "marker"])

--------------------------------------------------------------------------------
(* sync_canonical_text_record *)

\* maybe_single() raises when two rows match.
Source(h) ==
    /\ At(h, "source")
    /\ CASE Cardinality(sources) = 0 -> Go(h, "new source") /\ UNCHANGED trouble
         [] Cardinality(sources) = 1 -> Go(h, "find") /\ UNCHANGED trouble
         [] OTHER                    -> Raise(h)
    /\ UNCHANGED <<Rows, overlap>>

NewSource(h) ==
    /\ At(h, "new source")
    /\ sources' = sources \cup {h}
    /\ Go(h, "find")
    /\ UNCHANGED <<rec, docs, vers, files, overlap, trouble>>

\* Any one version that bears the record's marker names the document.
Marked == {vers[v].doc : v \in {w \in Handlers : vers[w].life # "absent"}}

Find(h) ==
    /\ At(h, "find")
    /\ \/ Marked = {} /\ Go(h, "document")
       \/ \E d \in Marked : todo' = [todo EXCEPT ![h].at = "stale", ![h].doc = d]
    /\ UNCHANGED <<Rows, overlap, trouble>>

CreateDocument(h) ==
    /\ At(h, "document")
    /\ docs' = docs \cup {h}
    /\ todo' = [todo EXCEPT ![h].at = "upload", ![h].doc = h]
    /\ UNCHANGED <<rec, sources, vers, files, overlap, trouble>>

\* The stale versions are looked up under the key "versions", and the reader
\* returns them under "document_versions": none is found and none is purged.
\* A document deleted meanwhile has no row, and reading its data raises.
Stale(h) ==
    /\ At(h, "stale")
    /\ IF todo[h].doc \in docs THEN Go(h, "upload") /\ UNCHANGED trouble ELSE Raise(h)
    /\ UNCHANGED <<Rows, overlap>>

Upload(h) ==
    /\ At(h, "upload")
    /\ \/ files' = files \cup {h} /\ Go(h, "latest") /\ UNCHANGED trouble
       \/ Raise(h) /\ UNCHANGED files
    /\ UNCHANGED <<rec, sources, docs, vers, overlap>>

\* create_next_document_version reads the latest version, inserts the next, and
\* marks the one it read.
Latest(h) ==
    /\ At(h, "latest")
    /\ LET old == Versions(todo[h].doc)
           top == {v \in old : \A w \in old : vers[w].number <= vers[v].number}
       IN \/ /\ old = {}
             /\ todo' = [todo EXCEPT ![h].at = "insert", ![h].number = 1]
          \/ \E v \in top :
                todo' = [todo EXCEPT ![h] = [@ EXCEPT !.at = "insert", !.latest = v,
                            !.number = vers[v].number + 1,
                            !.superseded = (vers[v].life = "superseded")]]
    /\ UNCHANGED <<Rows, overlap, trouble>>

\* Registration failed: the uploaded file is deleted.
Unregistered(h) == Raise(h) /\ files' = files \ {h}

\* Without the unique key.
InsertableTwice(h) == /\ todo[h].doc \in docs
                      /\ todo[h].latest # None => vers[todo[h].latest].life # "absent"

\* (document_id, version_number) is unique; the document and the superseded
\* version must exist.
Insertable(h) == /\ todo[h].doc \in docs
                 /\ \A v \in Versions(todo[h].doc) : vers[v].number # todo[h].number
                 /\ todo[h].latest # None => vers[todo[h].latest].life # "absent"

Insert(h) ==
    /\ At(h, "insert")
    /\ \/ /\ Insertable(h)
          /\ vers' = [vers EXCEPT ![h] =
                [doc |-> todo[h].doc, number |-> todo[h].number, text |-> todo[h].text,
                 life |-> "draft", supersedes |-> todo[h].latest, run |-> "none"]]
          /\ Go(h, IF todo[h].latest = None \/ todo[h].superseded THEN "run" ELSE "supersede")
          /\ UNCHANGED <<files, trouble>>
       \/ Unregistered(h) /\ UNCHANGED vers
    /\ UNCHANGED <<rec, sources, docs, overlap>>

\* An update of a version that is gone changes no row.
SetLife(v, life) == vers' = [vers EXCEPT ![v].life = IF @ = "absent" THEN @ ELSE life]

\* The old version stays as it is.
SupersedeNothing(h) ==
    /\ At(h, "supersede")
    /\ Go(h, "run")
    /\ UNCHANGED <<Rows, overlap, trouble>>

Supersede(h) ==
    /\ At(h, "supersede")
    /\ SetLife(todo[h].latest, "superseded")
    /\ Go(h, "run")
    /\ UNCHANGED <<rec, sources, docs, files, overlap, trouble>>

CreateRun(h) ==
    /\ At(h, "run")
    /\ \/ /\ vers[h].life # "absent"
          /\ vers' = [vers EXCEPT ![h].run = "bare"]
          /\ Go(h, "chunk")
          /\ UNCHANGED <<files, trouble>>
       \/ Unregistered(h) /\ UNCHANGED vers
    /\ UNCHANGED <<rec, sources, docs, overlap>>

\* A stage of the pipeline ends well, or the run is marked failed and the request
\* raises.  Chunks need their run, vectors need their chunks.
Stage(h, from, to, next) ==
    /\ \/ /\ vers[h].run = from
          /\ vers' = [vers EXCEPT ![h].run = to]
          /\ Go(h, next)
          /\ UNCHANGED trouble
       \/ /\ vers' = [vers EXCEPT ![h].run = IF @ = "none" THEN @ ELSE "failed"]
          /\ Raise(h)
    /\ UNCHANGED <<rec, sources, docs, files, overlap>>

ChunkRun(h) == At(h, "chunk") /\ Stage(h, "bare", "chunked", "embed")

EmbedRun(h) == At(h, "embed") /\ Stage(h, "chunked", "indexed", "publish")

PublishVersion(h) ==
    /\ At(h, "publish")
    /\ SetLife(h, "published")
    /\ Go(h, "done")
    /\ UNCHANGED <<rec, sources, docs, files, overlap, trouble>>

--------------------------------------------------------------------------------
(* remove_canonical_text_record and delete_document *)

Marker(h) ==
    /\ At(h, "marker")
    /\ \/ Marked = {} /\ Go(h, "done")
       \/ \E d \in Marked : todo' = [todo EXCEPT ![h].at = "look", ![h].doc = d]
    /\ UNCHANGED <<Rows, overlap, trouble>>

Look(h) ==
    /\ At(h, "look")
    /\ IF todo[h].doc \in docs
       THEN /\ todo' = [todo EXCEPT ![h].at = "purge", ![h].seen = Versions(todo[h].doc)]
            /\ UNCHANGED trouble
       ELSE Raise(h)
    /\ UNCHANGED <<Rows, overlap>>

\* Chunks first (with their vectors), then the runs that were listed; chunks
\* stored between the two keep their run from being deleted, and the request raises.
Purge(h) ==
    /\ At(h, "purge")
    /\ LET listed == {v \in todo[h].seen : vers[v].run # "none"}
       IN /\ vers' = [v \in Handlers |->
                IF v \in listed THEN [vers[v] EXCEPT !.run = "bare"] ELSE vers[v]]
          /\ todo' = [todo EXCEPT ![h].at = "drop runs", ![h].listed = listed]
    /\ UNCHANGED <<rec, sources, docs, files, overlap, trouble>>

DropRuns(h) ==
    /\ At(h, "drop runs")
    /\ IF \E v \in todo[h].listed : vers[v].run \in {"chunked", "indexed"}
       THEN Raise(h) /\ UNCHANGED vers
       ELSE /\ vers' = [v \in Handlers |->
                  IF v \in todo[h].listed THEN [vers[v] EXCEPT !.run = "none"] ELSE vers[v]]
            /\ Go(h, "drop versions")
            /\ UNCHANGED trouble
    /\ UNCHANGED <<rec, sources, docs, files, overlap>>

\* Every version of the document, also one registered after the look, unless a
\* run still refers to one.
DropVersions(h) ==
    /\ At(h, "drop versions")
    /\ IF \E v \in Versions(todo[h].doc) : vers[v].run # "none"
       THEN Raise(h) /\ UNCHANGED vers
       ELSE /\ vers' = [v \in Handlers |->
                  IF v \in Versions(todo[h].doc) THEN NoVersion ELSE vers[v]]
            /\ Go(h, "drop document")
            /\ UNCHANGED trouble
    /\ UNCHANGED <<rec, sources, docs, files, overlap>>

DropDocument(h) ==
    /\ At(h, "drop document")
    /\ IF Versions(todo[h].doc) # {}
       THEN Raise(h) /\ UNCHANGED docs
       ELSE /\ docs' = docs \ {todo[h].doc}
            /\ Go(h, "drop files")
            /\ UNCHANGED trouble
    /\ UNCHANGED <<rec, sources, vers, files, overlap>>

\* The versions are looked up when they are gone.
DropFilesLate(h) ==
    /\ At(h, "drop files")
    /\ files' = files \ Versions(todo[h].doc)
    /\ Go(h, "done")
    /\ UNCHANGED <<rec, sources, docs, vers, overlap, trouble>>

\* The files of the versions seen at the start, best effort.
DropFiles(h) ==
    /\ At(h, "drop files")
    /\ \/ files' = files \ todo[h].seen /\ UNCHANGED trouble
       \/ trouble' = TRUE /\ UNCHANGED files
    /\ Go(h, "done")
    /\ UNCHANGED <<rec, sources, docs, vers, overlap>>

Crash(h) == h \in Busy /\ Raise(h) /\ UNCHANGED <<Rows, overlap>>

--------------------------------------------------------------------------------

Sync(h) == \/ Source(h) \/ NewSource(h) \/ Find(h) \/ CreateDocument(h) \/ Stale(h)
           \/ Upload(h) \/ Latest(h) \/ Insert(h) \/ Supersede(h) \/ CreateRun(h)
           \/ ChunkRun(h) \/ EmbedRun(h) \/ PublishVersion(h)

Remove(h) == \/ Marker(h) \/ Look(h) \/ Purge(h) \/ DropRuns(h) \/ DropVersions(h)
             \/ DropDocument(h) \/ DropFiles(h)

Request(h) == Update(h) \/ Publish(h) \/ Unpublish(h) \/ Delete(h)

Next == \E h \in Handlers : Request(h) \/ Reread(h) \/ Sync(h) \/ Remove(h) \/ Crash(h)

Spec == Init /\ [][Next]_vars

--------------------------------------------------------------------------------
(* Properties *)

\* What search_audience_knowledge_chunks returns of the record's document.
Retrievable == {vers[v].text : v \in {w \in Handlers :
                   vers[w].life = "published" /\ vers[w].run = "indexed"}}

Quiet == Busy = {} /\ ~trouble

\* Requests made one after the other, none of which fails, leave nothing of a deleted
\* or unpublished record retrievable, exactly the present wording of a live one, and
\* never an old wording.  Old versions keep their chunks, so it is their status
\* alone that hides them.  A published record that is inactive may be retrievable:
\* see DeactivatedIsHidden.
CurrentWhenSerial ==
    Quiet /\ ~overlap =>
        IF rec = None \/ ~rec.published THEN Retrievable = {}
        ELSE IF rec.active THEN Retrievable = {rec.text}
        ELSE Retrievable \subseteq {rec.text}

\* "Deactivated or unpublished FAQs must not remain retrievable." (admin_faq.py:99;
\* of notices, admin_notices.py:104), even by requests made one after the other.
\* Refuted: publish_faq and publish_notice do not look at is_active.
DeactivatedIsHidden ==
    Quiet /\ ~overlap /\ rec # None /\ ~rec.active => Retrievable = {}

\* Concurrent registrations never fork the history of a document: no version is
\* superseded by two, and each supersedes the one whose number precedes its own.
LinearHistory ==
    \A v, w \in Handlers :
        /\ vers[v].supersedes # None /\ vers[v].supersedes = vers[w].supersedes => v = w
        /\ \/ vers[v].life # "absent" /\ vers[v].doc = vers[w].doc
              /\ vers[v].number = vers[w].number + 1
           \/ vers[v].supersedes = w
           => /\ vers[v].supersedes = w
              /\ vers[w].doc = vers[v].doc
              /\ vers[v].number = vers[w].number + 1

\* While no call fails, every stored file belongs to a version, to a request
\* still at work, or is deleted: nothing is left behind that no row names.
FilesAccounted ==
    Quiet => \A h \in files : vers[h].life # "absent"
================================================================================
