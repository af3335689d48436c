------------------------------- MODULE PublicChat -------------------------------
(***************************************************************************)
(* The anonymous chat endpoint: a request takes one of a limited number of  *)
(* places, decides from the question whether it needs the institution's     *)
(* knowledge, and if so reads the publication policy twice around the       *)
(* retrieval: once for the sources it may read, once more for every chunk   *)
(* the search returned.  Administrators publish and withdraw meanwhile.     *)
(*                                                                         *)
(* Each request is a thread; every read is a database call of its own, and  *)
(* anything may raise.  The places are counted in the memory of the process,*)
(* under a lock.  The budgets charged before are those of RateLimiter.      *)
(***************************************************************************)
EXTENDS Naturals, FiniteSets

CONSTANTS Requests,     \* requests; each is made at most once
          Codes,        \* institution codes in the requests
          Sources,      \* knowledge sources
          Chunks,       \* rows of knowledge_chunks
          CodeOf,       \* [Sources -> code of the institution]
          SourceOf,     \* [Chunks -> source]
          GlobalLimit,  \* public_concurrency_limit
          CodeLimit,    \* public_institution_concurrency_limit
          MaxChanges,   \* bound: publications and withdrawals
          None

VARIABLES tenants,  \* codes of active institutions of valid organizations
          open,     \* sources that are public, published and effective
          live,     \* chunks whose version is published and whose run is embedded
          active,   \* _global_active
          perCode,  \* _institution_active
          req,      \* [Requests -> the request]
          changes,  \* history: publications and withdrawals so far
          gone,     \* history: [Chunks -> the change that last withdrew it]
          readAt    \* history: [Requests -> the changes when its chunks were read]

vars == <<tenants, open, live, active, perCode, req, changes, gone, readAt>>

--------------------------------------------------------------------------------

Request == [at : {"idle", "refused", "resolve", "allow", "search", "widen", "authorize",
                  "generate", "release", "done", "lost"},
            code : Codes \cup {None}, allowed : SUBSET Sources,
            found : SUBSET Chunks, cites : SUBSET Chunks]

TypeOK == /\ tenants \in SUBSET Codes
          /\ open \in SUBSET Sources
          /\ live \in SUBSET Chunks
          /\ active \in Nat
          /\ perCode \in [Codes -> Nat]
          /\ req \in [Requests -> Request]
          /\ changes \in 0..MaxChanges
          /\ gone \in [Chunks -> 0..MaxChanges]
          /\ readAt \in [Requests -> 0..MaxChanges]

Init == /\ tenants = Codes /\ open = Sources /\ live = Chunks
        /\ active = 0
        /\ perCode = [c \in Codes |-> 0]
        /\ req = [r \in Requests |-> [at |-> "idle", code |-> None, allowed |-> {},
                                      found |-> {}, cites |-> {}]]
        /\ changes = 0
        /\ gone = [k \in Chunks |-> 0]
        /\ readAt = [r \in Requests |-> 0]

--------------------------------------------------------------------------------

At(r, step) == req[r].at = step

Go(r, step) == req' = [req EXCEPT ![r].at = step]

Policy == UNCHANGED <<tenants, open, live, changes, gone>>

Places == UNCHANGED <<active, perCode>>

\* is_public_source and is_public_provenance
Public(k) == k \in live /\ SourceOf[k] \in open

\* try_acquire: never waits.
Acquire(r, c) ==
    /\ At(r, "idle")
    /\ IF active >= GlobalLimit \/ perCode[c] >= CodeLimit
       THEN Go(r, "refused") /\ Places
       ELSE /\ active' = active + 1
            /\ perCode' = [perCode EXCEPT ![c] = @ + 1]
            /\ req' = [req EXCEPT ![r].at = "resolve", ![r].code = c]
    /\ UNCHANGED readAt /\ Policy

\* The institution is looked up, must be active, and the question must not ask for
\* personal data.  Small talk and general questions are answered without sources.
Resolve(r) ==
    /\ At(r, "resolve")
    /\ \/ req[r].code \in tenants /\ Go(r, "allow")
       \/ Go(r, "release")
    /\ UNCHANGED readAt /\ Policy /\ Places

Allow(r) ==
    /\ At(r, "allow")
    /\ req' = [req EXCEPT ![r].at = "search",
                          ![r].allowed = {s \in open : CodeOf[s] = req[r].code}]
    /\ UNCHANGED readAt /\ Policy /\ Places

\* search_public_knowledge_chunks: the nearest chunks that are public now, of the
\* one allowed source if there is exactly one.
Searchable(r) ==
    {k \in Chunks : /\ Public(k)
                    /\ CodeOf[SourceOf[k]] = req[r].code
                    /\ Cardinality(req[r].allowed) = 1 => SourceOf[k] \in req[r].allowed}

Search(r) ==
    /\ At(r, "search")
    /\ \E found \in SUBSET Searchable(r), next \in {"widen", "authorize"} :
          req' = [req EXCEPT ![r].at = next, ![r].found = found]
    /\ UNCHANGED readAt /\ Policy /\ Places

\* A wider search may replace some of the chunks by others.
Widen(r) ==
    /\ At(r, "widen")
    /\ \E found \in SUBSET (req[r].found \cup Searchable(r)) :
          req' = [req EXCEPT ![r].at = "authorize", ![r].found = found]
    /\ UNCHANGED readAt /\ Policy /\ Places

\* The candidates of the search are taken as authorized.
AuthorizedAsFound(r) == {k \in req[r].found : SourceOf[k] \in req[r].allowed}

\* authorize_chunks: what the search returned is only a candidate.
Authorized(r) == {k \in req[r].found : Public(k) /\ SourceOf[k] \in req[r].allowed}

\* Of the authorized chunks those that fit reach the model; without any the answer
\* is that the context is insufficient.
Authorize(r) ==
    /\ At(r, "authorize")
    /\ \E chunks \in SUBSET Authorized(r) :
          req' = [req EXCEPT ![r].at = IF chunks = {} THEN "release" ELSE "generate",
                             ![r].found = chunks]
    /\ readAt' = [readAt EXCEPT ![r] = changes]
    /\ UNCHANGED <<active, perCode>> /\ Policy

Generate(r) ==
    /\ At(r, "generate")
    /\ \E chunks \in SUBSET req[r].found :
          req' = [req EXCEPT ![r].at = "release", ![r].cites = chunks]
    /\ UNCHANGED readAt /\ Policy /\ Places

\* The exception passes by the release.
RaiseWithPlace(r) ==
    /\ req[r].at \in {"resolve", "allow", "search", "widen", "authorize", "generate"}
    /\ Go(r, "done")
    /\ UNCHANGED readAt /\ Policy /\ Places

\* Any step may raise; the place is given back all the same.
Raise(r) ==
    /\ req[r].at \in {"resolve", "allow", "search", "widen", "authorize", "generate"}
    /\ Go(r, "release")
    /\ UNCHANGED readAt /\ Policy /\ Places

Release(r) ==
    /\ At(r, "release")
    /\ IF active = 0 \/ perCode[req[r].code] = 0
       THEN Places
       ELSE /\ active' = active - 1
            /\ perCode' = [perCode EXCEPT ![req[r].code] = @ - 1]
    /\ req' = [req EXCEPT ![r] = [@ EXCEPT !.at = "done", !.allowed = {}, !.found = {}]]
    /\ UNCHANGED readAt /\ Policy

\* The process stops and starts again with its counters at zero.
Restart ==
    /\ active' = 0
    /\ perCode' = [c \in Codes |-> 0]
    /\ req' = [r \in Requests |->
          IF req[r].at \in {"idle", "refused", "done"} THEN req[r]
          ELSE [req[r] EXCEPT !.at = "lost", !.allowed = {}, !.found = {}]]
    /\ UNCHANGED readAt /\ Policy

--------------------------------------------------------------------------------
(* Publication, by the administrators *)

Publish(newOpen, newLive) ==
    /\ changes < MaxChanges
    /\ open' = newOpen
    /\ live' = newLive
    /\ changes' = changes + 1
    /\ gone' = [k \in Chunks |->
          IF Public(k) /\ ~(k \in newLive /\ SourceOf[k] \in newOpen) THEN changes + 1
          ELSE gone[k]]
    /\ UNCHANGED <<tenants, readAt, req>> /\ Places

ChangeSource(s) == \/ s \in open /\ Publish(open \ {s}, live)
                   \/ s \notin open /\ Publish(open \cup {s}, live)

ChangeChunk(k) == \/ k \in live /\ Publish(open, live \ {k})
                  \/ k \notin live /\ Publish(open, live \cup {k})

ChangeTenant(c) ==
    /\ changes < MaxChanges
    /\ tenants' = IF c \in tenants THEN tenants \ {c} ELSE tenants \cup {c}
    /\ changes' = changes + 1
    /\ UNCHANGED <<open, live, gone, readAt, req>> /\ Places

--------------------------------------------------------------------------------

Step(r) == \/ \E c \in Codes : Acquire(r, c)
           \/ Resolve(r) \/ Allow(r) \/ Search(r) \/ Widen(r) \/ Authorize(r)
           \/ Generate(r) \/ Raise(r) \/ Release(r)

Next == \/ \E r \in Requests : Step(r)
        \/ Restart
        \/ \E s \in Sources : ChangeSource(s)
        \/ \E k \in Chunks : ChangeChunk(k)
        \/ \E c \in Codes : ChangeTenant(c)

Spec == Init /\ [][Next]_vars

--------------------------------------------------------------------------------
(* Properties *)

Holders == {r \in Requests : req[r].at \notin {"idle", "refused", "done", "lost"}}

\* Every request gives back exactly the place it took, however it ends: the
\* counters are the requests at work, so the endpoint is never throttled by
\* requests that are gone, and the limits hold.
PlacesExact == /\ active = Cardinality(Holders)
               /\ \A c \in Codes : perCode[c] = Cardinality({r \in Holders : req[r].code = c})
               /\ active <= GlobalLimit
               /\ \A c \in Codes : perCode[c] <= CodeLimit

\* What an answer quotes is public knowledge of the institution asked about, or
\* was withdrawn only after the request's last look at it: a withdrawal before
\* that look always takes effect, whatever the searches had returned.
QuotesPublic ==
    \A r \in Requests, k \in Chunks :
        k \in req[r].cites => /\ CodeOf[SourceOf[k]] = req[r].code
                              /\ Public(k) \/ gone[k] > readAt[r]
================================================================================
