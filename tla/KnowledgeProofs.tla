---------------------------- MODULE KnowledgeProofs ----------------------------
(***************************************************************************)
(* Theorems about the parts of Knowledge, for every set of requests,        *)
(* wordings, codes, sources and chunks and every limit.                     *)
(***************************************************************************)
EXTENDS Knowledge, IndexPipelineProofs, FiniteSetTheorems

--------------------------------------------------------------------------------
(* Public chat: places                                                        *)

\* A request that holds a place has named the institution it is counted under.
HoldersHaveCode == \A r \in Chat!Holders : req[r].code \in Codes

PlacesInv == Chat!TypeOK /\ HoldersHaveCode /\ PlacesExact

HoldersOf(c) == {r \in Chat!Holders : req[r].code = c}

LEMMA ChatCardinality == \A S : Chat!Cardinality(S) = Cardinality(S)
  BY DEF Chat!Cardinality, Cardinality

LEMMA HoldersFinite ==
  /\ IsFiniteSet(Chat!Holders)
  /\ Cardinality(Chat!Holders) \in Nat
  /\ \A c : IsFiniteSet(HoldersOf(c)) /\ Cardinality(HoldersOf(c)) \in Nat
<1>1. Chat!Holders \subseteq Handlers
  BY DEF Chat!Holders
<1>2. IsFiniteSet(Chat!Holders)
  BY <1>1, HandlersAssumption, FS_Subset
<1>3. \A c : HoldersOf(c) \subseteq Chat!Holders
  BY DEF HoldersOf
<1>4. \A c : IsFiniteSet(HoldersOf(c))
  BY <1>2, <1>3, FS_Subset
<1>5. QED
  BY <1>2, <1>4, FS_CardinalityType

Becomes(r, q) == req' = [req EXCEPT ![r] = q]

\* A request moves on and keeps its place, its institution or its lack of both.
LEMMA PlaceKept ==
  ASSUME PlacesInv, NEW r \in Handlers, NEW q, Becomes(r, q), Chat!Places,
         q.code = req[r].code,
         q.at \in {"idle", "refused", "done", "lost"} <=>
           req[r].at \in {"idle", "refused", "done", "lost"}
  PROVE  HoldersHaveCode' /\ PlacesExact'
<1>1. \A x \in Handlers : /\ req'[x].code = req[x].code
                          /\ x \in Chat!Holders' <=> x \in Chat!Holders
  BY DEF Becomes, PlacesInv, Chat!TypeOK, Chat!Holders
<1>2. Chat!Holders' = Chat!Holders
  BY <1>1 DEF Chat!Holders
<1>3. \A c : {x \in Chat!Holders : req[x].code = c}' = {x \in Chat!Holders : req[x].code = c}
  BY <1>1, <1>2 DEF Chat!Holders
<1>4. QED
  BY <1>1, <1>2, <1>3
     DEF PlacesInv, PlacesExact, Chat!PlacesExact, HoldersHaveCode, Chat!Places, Chat!Holders

\* A request takes a place.
LEMMA PlaceTaken ==
  ASSUME PlacesInv, NEW r \in Handlers, NEW c \in Codes, Chat!Acquire(r, c)
  PROVE  HoldersHaveCode' /\ PlacesExact'
<1>1. CASE active >= GlobalLimit \/ perCode[c] >= CodeLimit
  <2>1. Becomes(r, [req[r] EXCEPT !.at = "refused"]) /\ Chat!Places /\ req[r].at = "idle"
    BY <1>1 DEF Chat!Acquire, Chat!Go, Becomes, Chat!At, PlacesInv, Chat!TypeOK
  <2>2. req[r] \in Chat!Request
    BY DEF PlacesInv, Chat!TypeOK
  <2>3. QED
    BY <2>1, <2>2, PlaceKept DEF Chat!Request
<1>2. CASE ~(active >= GlobalLimit \/ perCode[c] >= CodeLimit)
  <2> DEFINE q == [req[r] EXCEPT !.at = "resolve", !.code = c]
  <2>1. /\ req[r] \in Chat!Request /\ req[r].at = "idle"
        /\ req \in [Handlers -> Chat!Request]
        /\ active \in Nat /\ perCode \in [Codes -> Nat]
    BY DEF PlacesInv, Chat!TypeOK, Chat!Acquire, Chat!At
  <2>2. /\ active' = active + 1 /\ active < GlobalLimit
        /\ perCode' = [perCode EXCEPT ![c] = @ + 1] /\ perCode[c] < CodeLimit
        /\ req' = [req EXCEPT ![r].at = "resolve", ![r].code = c]
    BY <1>2, <2>1, LimitsAssumption DEF Chat!Acquire
  <2>3. /\ req'[r].at = "resolve" /\ req'[r].code = c
        /\ \A x \in Handlers \ {r} : req'[x] = req[x]
    BY <2>1, <2>2 DEF Chat!Request
  <2>4. /\ r \notin Chat!Holders /\ Chat!Holders' = Chat!Holders \cup {r}
    BY <2>1, <2>3 DEF Chat!Holders
  <2>5. /\ HoldersOf(c)' = HoldersOf(c) \cup {r}
        /\ \A d : d # c => HoldersOf(d)' = HoldersOf(d)
    BY <2>3, <2>4 DEF HoldersOf, Chat!Holders
  <2>6. /\ Cardinality(Chat!Holders') = Cardinality(Chat!Holders) + 1
        /\ Cardinality(HoldersOf(c)') = Cardinality(HoldersOf(c)) + 1
    <3>1. r \notin HoldersOf(c)
      BY <2>4 DEF HoldersOf
    <3>2. QED
      BY <2>4, <2>5, <3>1, HoldersFinite, FS_AddElement
  <2>7. HoldersHaveCode'
    BY <2>3, <2>4 DEF PlacesInv, HoldersHaveCode, Chat!Holders
  <2>8. /\ active = Cardinality(Chat!Holders)
        /\ \A d \in Codes : perCode[d] = Cardinality(HoldersOf(d)) /\ perCode[d] <= CodeLimit
    BY ChatCardinality DEF PlacesInv, PlacesExact, Chat!PlacesExact, HoldersOf
  <2>9. /\ active' = Cardinality(Chat!Holders') /\ active' <= GlobalLimit
    BY <2>1, <2>2, <2>6, <2>8, LimitsAssumption
  <2>10. \A d \in Codes : /\ perCode'[d] = Cardinality(HoldersOf(d)')
                          /\ perCode'[d] <= CodeLimit
    BY <2>1, <2>2, <2>5, <2>6, <2>8, LimitsAssumption
  <2>11. PlacesExact'
    BY <2>9, <2>10, ChatCardinality DEF PlacesExact, Chat!PlacesExact, HoldersOf
  <2>12. QED
    BY <2>7, <2>11
<1>3. QED
  BY <1>1, <1>2

\* A request gives back its place.
LEMMA PlaceReturned ==
  ASSUME PlacesInv, NEW r \in Handlers, Chat!Release(r)
  PROVE  HoldersHaveCode' /\ PlacesExact'
<1> PICK c : c = req[r].code
  OBVIOUS
<1>1. /\ req[r] \in Chat!Request /\ req[r].at = "release"
      /\ req \in [Handlers -> Chat!Request]
      /\ active \in Nat /\ perCode \in [Codes -> Nat]
  BY DEF PlacesInv, Chat!TypeOK, Chat!Release, Chat!At
<1>2. r \in Chat!Holders /\ r \in HoldersOf(c) /\ c \in Codes
  BY <1>1 DEF Chat!Holders, HoldersOf, PlacesInv, HoldersHaveCode
<1>3. /\ active = Cardinality(Chat!Holders) /\ active <= GlobalLimit
      /\ \A d \in Codes : perCode[d] = Cardinality(HoldersOf(d)) /\ perCode[d] <= CodeLimit
  BY ChatCardinality DEF PlacesInv, PlacesExact, Chat!PlacesExact, HoldersOf
<1>4. /\ req'[r].at = "done"
      /\ \A x \in Handlers \ {r} : req'[x] = req[x]
  BY <1>1 DEF Chat!Release, Chat!Request
<1>5. Chat!Holders' = Chat!Holders \ {r}
  BY <1>2, <1>4 DEF Chat!Holders
<1>6. /\ HoldersOf(c)' = HoldersOf(c) \ {r}
      /\ \A d : d # c => HoldersOf(d)' = HoldersOf(d)
  BY <1>4, <1>5 DEF HoldersOf, Chat!Holders
<1>7. /\ Cardinality(Chat!Holders') = Cardinality(Chat!Holders) - 1
      /\ Cardinality(HoldersOf(c)') = Cardinality(HoldersOf(c)) - 1
      /\ Cardinality(Chat!Holders) # 0 /\ Cardinality(HoldersOf(c)) # 0
  <2>1. IsFiniteSet(Chat!Holders) /\ IsFiniteSet(HoldersOf(c))
    BY HoldersFinite
  <2>2. /\ Cardinality(Chat!Holders \ {r}) = Cardinality(Chat!Holders) - 1
        /\ Cardinality(HoldersOf(c) \ {r}) = Cardinality(HoldersOf(c)) - 1
    BY <1>2, <2>1, FS_RemoveElement
  <2>3. Cardinality(Chat!Holders) # 0 /\ Cardinality(HoldersOf(c)) # 0
    BY <1>2, <2>1, FS_EmptySet
  <2>4. QED
    BY <1>5, <1>6, <2>2, <2>3
<1>8. /\ active' = active - 1
      /\ perCode' = [perCode EXCEPT ![c] = @ - 1]
  BY <1>2, <1>3, <1>7 DEF Chat!Release
<1>9. HoldersHaveCode'
  BY <1>4, <1>5 DEF PlacesInv, HoldersHaveCode, Chat!Holders
<1>10. active' = Cardinality(Chat!Holders') /\ active' <= GlobalLimit
  BY <1>1, <1>3, <1>7, <1>8, LimitsAssumption
<1>11. \A d \in Codes : perCode'[d] = Cardinality(HoldersOf(d)') /\ perCode'[d] <= CodeLimit
  <2>1. \A d \in Codes : perCode'[d] = IF d = c THEN perCode[d] - 1 ELSE perCode[d]
    BY <1>1, <1>2, <1>8
  <2>2. \A d \in Codes : perCode[d] \in Nat
    BY <1>1
  <2>3. QED
    <3> TAKE d \in Codes
    <3>1. perCode[d] \in Nat /\ perCode[d] <= CodeLimit /\ CodeLimit \in Nat
      BY <1>3, <2>2, LimitsAssumption
    <3>2. perCode[d] = Cardinality(HoldersOf(d))
      BY <1>3
    <3>3. perCode'[d] = Cardinality(HoldersOf(d)')
      BY <1>6, <1>7, <2>1, <3>2
    <3>4. perCode'[d] <= CodeLimit
      BY <2>1, <3>1
    <3>5. QED
      BY <3>3, <3>4
<1>12. PlacesExact'
  BY <1>10, <1>11, ChatCardinality DEF PlacesExact, Chat!PlacesExact, HoldersOf
<1>13. QED
  BY <1>9, <1>12

LEMMA PlacesLost ==
  ASSUME PlacesInv, Chat!Restart
  PROVE  HoldersHaveCode' /\ PlacesExact'
<1>1. \A x \in Handlers : req'[x].at \in {"idle", "refused", "done", "lost"}
  BY DEF PlacesInv, Chat!TypeOK, Chat!Restart, Chat!Request
<1>2. Chat!Holders' = {}
  BY <1>1 DEF Chat!Holders
<1>3. \A c : HoldersOf(c)' = {}
  BY <1>2 DEF HoldersOf
<1>4. active' = 0 /\ \A c \in Codes : perCode'[c] = 0
  BY DEF Chat!Restart
<1>5. QED
  BY <1>2, <1>3, <1>4, ChatCardinality, FS_EmptySet, LimitsAssumption
     DEF HoldersHaveCode, PlacesExact, Chat!PlacesExact, HoldersOf

--------------------------------------------------------------------------------
(* Public chat: what an answer quotes                                         *)

\* The chunk k answers a question about the institution of request r, and is public
\* or was when r last looked.
Quotable(r, k) ==
  /\ CodeOf[SourceOf[k]] = req[r].code
  /\ Chat!Public(k) \/ gone[k] > readAt[r]

Searching == {"search", "widen", "authorize"}
Answered == {"release", "done", "lost"}

QuoteInv ==
  \A r \in Handlers :
    /\ req[r].at \in Searching => \A s \in req[r].allowed : CodeOf[s] = req[r].code
    /\ req[r].at = "generate" => \A k \in req[r].found : Quotable(r, k)
    /\ req[r].at \notin Answered => req[r].cites = {}
    /\ \A k \in req[r].cites : Quotable(r, k)
    /\ readAt[r] <= changes

\* Where request r goes and what it then holds.
LEMMA QuoteMoves ==
  ASSUME Chat!TypeOK, QuoteInv, NEW r \in Handlers, NEW q, Becomes(r, q), Chat!Policy,
         q.at \in Searching => \A s \in q.allowed : CodeOf[s] = q.code,
         q.at = "generate" => \A k \in q.found : Quotable(r, k)',
         q.at \notin Answered => q.cites = {},
         \A k \in q.cites : Quotable(r, k)',
         \A x \in Handlers \ {r} : readAt'[x] = readAt[x],
         readAt'[r] \in {readAt[r], changes}
  PROVE  QuoteInv'
<1>1. /\ req'[r] = q
      /\ \A x \in Handlers \ {r} : req'[x] = req[x]
  BY DEF Becomes, Chat!TypeOK
<1>2. \A k : Chat!Public(k)' <=> Chat!Public(k)
  BY DEF Chat!Policy, Chat!Public
<1>3. \A x \in Handlers \ {r} : \A k : Quotable(x, k)' <=> Quotable(x, k)
  BY <1>1, <1>2 DEF Quotable, Chat!Policy
<1>4. readAt'[r] <= changes' /\ \A x \in Handlers \ {r} : readAt'[x] <= changes'
  BY LimitsAssumption DEF QuoteInv, Chat!Policy, Chat!TypeOK
<1>5. QED
  BY <1>1, <1>3, <1>4 DEF QuoteInv

ChatInv == PlacesInv /\ QuoteInv

\* A request that moves and keeps its place.
LEMMA ChatMoves ==
  ASSUME ChatInv, NEW r \in Handlers, NEW q \in Chat!Request, Becomes(r, q),
         Chat!Policy, Chat!Places, NEW n \in {readAt[r], changes},
         readAt' = [readAt EXCEPT ![r] = n],
         q.code = req[r].code,
         req[r].at \notin {"idle", "refused", "done", "lost"},
         q.at \notin {"idle", "refused", "done", "lost"},
         q.at \in Searching => \A s \in q.allowed : CodeOf[s] = q.code,
         q.at = "generate" => \A k \in q.found : Quotable(r, k)',
         q.at \notin Answered => q.cites = {},
         \A k \in q.cites : Quotable(r, k)'
  PROVE  ChatInv'
<1>1. Chat!TypeOK /\ PlacesInv /\ QuoteInv
  BY DEF ChatInv, PlacesInv
<1>2. n \in 0 .. MaxChanges
  BY <1>1 DEF Chat!TypeOK
<1>3. Chat!TypeOK'
  BY <1>1, <1>2 DEF Chat!TypeOK, Becomes, Chat!Policy, Chat!Places
<1>4. HoldersHaveCode' /\ PlacesExact'
  BY <1>1, PlaceKept
<1>5. /\ \A x \in Handlers \ {r} : readAt'[x] = readAt[x]
      /\ readAt'[r] \in {readAt[r], changes}
  BY <1>1 DEF Chat!TypeOK
<1>6. QuoteInv'
  BY <1>1, <1>5, QuoteMoves
<1>7. QED
  BY <1>3, <1>4, <1>6 DEF ChatInv, PlacesInv

\* What is quotable stays so while only requests move.
LEMMA QuotableKept ==
  ASSUME NEW r \in Handlers, NEW k, Quotable(r, k), Chat!Policy, readAt'[r] = readAt[r],
         req'[r].code = req[r].code
  PROVE  Quotable(r, k)'
  BY DEF Quotable, Chat!Policy, Chat!Public

Holding == {"resolve", "allow", "search", "widen", "authorize", "generate"}

LEMMA ChatRequestStep ==
  ASSUME ChatInv, NEW r \in Handlers, req[r].at \in Holding,
         \/ Chat!Resolve(r) \/ Chat!Allow(r) \/ Chat!Search(r) \/ Chat!Widen(r)
         \/ Chat!Authorize(r) \/ Chat!Generate(r) \/ Chat!Raise(r)
  PROVE  ChatInv'
<1> PICK w : w = req[r]
  OBVIOUS
<1>1. /\ w \in Chat!Request /\ req \in [Handlers -> Chat!Request]
      /\ readAt \in [Handlers -> 0 .. MaxChanges]
  BY DEF ChatInv, PlacesInv, Chat!TypeOK, Chat!Request
<1>2. /\ w.code \in Codes \cup {None} /\ w.allowed \in SUBSET Sources
      /\ w.found \in SUBSET Chunks /\ w.cites \in SUBSET Chunks
      /\ w.at \in Holding
  BY <1>1 DEF Chat!Request
<1>3. /\ w.cites = {}
      /\ w.at \in Searching => \A s \in w.allowed : CodeOf[s] = w.code
      /\ w.at = "generate" => \A k \in w.found : Quotable(r, k)
  BY <1>2 DEF ChatInv, QuoteInv, Holding, Answered
<1>4. UNCHANGED readAt => readAt' = [readAt EXCEPT ![r] = readAt[r]]
  BY <1>1
<1>5. ASSUME NEW at \in {"allow", "release"}, Chat!Go(r, at), UNCHANGED readAt,
             Chat!Policy, Chat!Places
      PROVE  ChatInv'
  <2> DEFINE q == [w EXCEPT !.at = at]
  <2>1. Becomes(r, q)
    BY <1>1, <1>5, Zenon DEF Chat!Go, Becomes
  <2>2. /\ q \in Chat!Request
        /\ q.at = at /\ q.code = w.code /\ q.allowed = w.allowed
        /\ q.found = w.found /\ q.cites = w.cites
    BY <1>1, <1>2 DEF Chat!Request
  <2> HIDE DEF q
  <2>3. QED
    BY <1>2, <1>3, <1>4, <1>5, <2>1, <2>2, ChatMoves DEF Holding, Searching, Answered
<1>6. CASE Chat!Resolve(r)
  BY <1>5, <1>6 DEF Chat!Resolve
<1>7. CASE Chat!Raise(r)
  BY <1>5, <1>7 DEF Chat!Raise
<1>8. CASE Chat!Allow(r)
  <2> DEFINE allowed == {s \in open : CodeOf[s] = w.code}
             q == [w EXCEPT !.at = "search", !.allowed = allowed]
  <2>1. Becomes(r, q)
    BY <1>1, <1>8 DEF Chat!Allow, Becomes
  <2>2. /\ q \in Chat!Request
        /\ q.at = "search" /\ q.code = w.code /\ q.allowed = allowed
        /\ q.found = w.found /\ q.cites = w.cites
    BY <1>1, <1>2 DEF Chat!Request, ChatInv, PlacesInv, Chat!TypeOK
  <2> HIDE DEF q
  <2>3. QED
    BY <1>2, <1>3, <1>4, <1>8, <2>1, <2>2, ChatMoves
       DEF Chat!Allow, Holding, Searching, Answered
<1>9. ASSUME NEW at \in {"widen", "authorize"}, NEW found \in SUBSET Chunks,
             w.at \in {"search", "widen"},
             req' = [req EXCEPT ![r].at = at, ![r].found = found],
             UNCHANGED readAt, Chat!Policy, Chat!Places
      PROVE  ChatInv'
  <2> DEFINE q == [w EXCEPT !.at = at, !.found = found]
  <2>1. Becomes(r, q)
    BY <1>1, <1>9 DEF Becomes
  <2>2. /\ q \in Chat!Request
        /\ q.at = at /\ q.code = w.code /\ q.allowed = w.allowed
        /\ q.found = found /\ q.cites = w.cites
    BY <1>1, <1>2 DEF Chat!Request
  <2> HIDE DEF q
  <2>3. QED
    BY <1>2, <1>3, <1>4, <1>9, <2>1, <2>2, ChatMoves DEF Holding, Searching, Answered
<1>10. CASE Chat!Search(r) \/ Chat!Widen(r)
  BY <1>2, <1>9, <1>10 DEF Chat!Search, Chat!Widen, Chat!Searchable, Chat!At
<1>11. CASE Chat!Authorize(r)
  <2>1. PICK chunks \in SUBSET Chat!Authorized(r) :
          req' = [req EXCEPT ![r].at = IF chunks = {} THEN "release" ELSE "generate",
                             ![r].found = chunks]
    BY <1>11 DEF Chat!Authorize
  <2> DEFINE at == IF chunks = {} THEN "release" ELSE "generate"
             q == [w EXCEPT !.at = at, !.found = chunks]
  <2>2. Becomes(r, q)
    BY <1>1, <2>1 DEF Becomes
  <2>3. /\ q \in Chat!Request
        /\ q.at = at /\ q.code = w.code /\ q.allowed = w.allowed
        /\ q.found = chunks /\ q.cites = w.cites
    BY <1>1, <1>2 DEF Chat!Request, Chat!Authorized
  <2>4. readAt' = [readAt EXCEPT ![r] = changes] /\ Chat!Policy /\ Chat!Places
    BY <1>11 DEF Chat!Authorize, Chat!Places
  <2>5. \A k \in chunks : Quotable(r, k)'
    <3> TAKE k \in chunks
    <3>1. Chat!Public(k) /\ SourceOf[k] \in w.allowed
      BY DEF Chat!Authorized
    <3>2. CodeOf[SourceOf[k]] = w.code
      BY <1>3, <1>11, <3>1 DEF Chat!Authorize, Chat!At, Searching
    <3>3. Chat!Public(k)' /\ req'[r].code = w.code
      BY <1>1, <2>2, <2>3, <2>4, <3>1 DEF Becomes, Chat!Policy, Chat!Public
    <3>4. QED
      BY <3>2, <3>3 DEF Quotable
  <2> HIDE DEF q
  <2>6. QED
    BY <1>2, <1>3, <2>2, <2>3, <2>4, <2>5, ChatMoves DEF Holding, Searching, Answered
<1>12. CASE Chat!Generate(r)
  <2>1. PICK chunks \in SUBSET w.found :
          req' = [req EXCEPT ![r].at = "release", ![r].cites = chunks]
    BY <1>12 DEF Chat!Generate
  <2> DEFINE q == [w EXCEPT !.at = "release", !.cites = chunks]
  <2>2. Becomes(r, q)
    BY <1>1, <2>1 DEF Becomes
  <2>3. /\ q \in Chat!Request
        /\ q.at = "release" /\ q.code = w.code /\ q.allowed = w.allowed
        /\ q.found = w.found /\ q.cites = chunks
    BY <1>1, <1>2 DEF Chat!Request
  <2>4. \A k \in chunks : Quotable(r, k)'
    BY <1>1, <1>3, <1>12, <2>2, <2>3, QuotableKept DEF Chat!Generate, Chat!At, Becomes
  <2> HIDE DEF q
  <2>5. QED
    BY <1>2, <1>3, <1>4, <1>12, <2>2, <2>3, <2>4, ChatMoves
       DEF Chat!Generate, Holding, Searching, Answered
<1>13. QED
  BY <1>6, <1>7, <1>8, <1>10, <1>11, <1>12

\* A request takes a place, or is refused one.
LEMMA ChatAcquireStep ==
  ASSUME ChatInv, NEW r \in Handlers, NEW c \in Codes, Chat!Acquire(r, c)
  PROVE  ChatInv'
<1> PICK w : w = req[r]
  OBVIOUS
<1>1. /\ w \in Chat!Request /\ req \in [Handlers -> Chat!Request] /\ w.at = "idle"
      /\ w.cites = {} /\ Chat!TypeOK /\ QuoteInv /\ PlacesInv
  BY DEF ChatInv, PlacesInv, QuoteInv, Chat!TypeOK, Chat!Acquire, Chat!At, Answered
<1>2. HoldersHaveCode' /\ PlacesExact'
  BY PlaceTaken DEF ChatInv
<1>3. ASSUME NEW q, Becomes(r, q), q \in Chat!Request, q.cites = {},
             q.at \in {"refused", "resolve"}
      PROVE  ChatInv'
  <2>1. QuoteInv'
    BY <1>1, <1>3, QuoteMoves DEF Chat!Acquire, Searching, Answered
  <2>2. Chat!TypeOK'
    BY <1>1, <1>3 DEF Chat!TypeOK, Chat!Acquire, Chat!Policy, Chat!Places, Becomes
  <2>3. QED
    BY <1>2, <2>1, <2>2 DEF ChatInv, PlacesInv
<1>4. CASE Chat!Go(r, "refused")
  <2> DEFINE q == [w EXCEPT !.at = "refused"]
  <2>1. Becomes(r, q)
    BY <1>1, <1>4 DEF Chat!Go, Becomes
  <2>2. q \in Chat!Request /\ q.cites = {} /\ q.at = "refused"
    BY <1>1 DEF Chat!Request
  <2> HIDE DEF q
  <2>3. QED
    BY <1>3, <2>1, <2>2
<1>5. CASE req' = [req EXCEPT ![r].at = "resolve", ![r].code = c]
  <2> DEFINE q == [w EXCEPT !.at = "resolve", !.code = c]
  <2>1. Becomes(r, q)
    BY <1>1, <1>5 DEF Becomes
  <2>2. q \in Chat!Request /\ q.cites = {} /\ q.at = "resolve"
    BY <1>1 DEF Chat!Request
  <2> HIDE DEF q
  <2>3. QED
    BY <1>3, <2>1, <2>2
<1>6. QED
  BY <1>4, <1>5 DEF Chat!Acquire

LEMMA ChatReleaseStep ==
  ASSUME ChatInv, NEW r \in Handlers, Chat!Release(r)
  PROVE  ChatInv'
<1> PICK w : w = req[r]
  OBVIOUS
<1> DEFINE q == [w EXCEPT !.at = "done", !.allowed = {}, !.found = {}]
<1>1. /\ w \in Chat!Request /\ req \in [Handlers -> Chat!Request]
      /\ Chat!TypeOK /\ QuoteInv /\ PlacesInv
  BY DEF ChatInv, PlacesInv, Chat!TypeOK
<1>2. Becomes(r, q) /\ Chat!Policy /\ UNCHANGED readAt
  BY <1>1 DEF Chat!Release, Becomes
<1>3. q \in Chat!Request /\ q.at = "done" /\ q.cites = w.cites /\ q.code = w.code
  BY <1>1 DEF Chat!Request
<1> HIDE DEF q
<1>4. req'[r] = q
  BY <1>1, <1>2 DEF Becomes
<1>5. \A k \in q.cites : Quotable(r, k)'
  BY <1>1, <1>2, <1>3, <1>4, QuotableKept DEF QuoteInv
<1>6. QuoteInv'
  BY <1>1, <1>2, <1>3, <1>5, QuoteMoves DEF Searching, Answered
<1>7. Chat!TypeOK'
  BY <1>1, <1>2, <1>3
     DEF Chat!TypeOK, Chat!Release, Chat!Policy, Chat!Places, Becomes
<1>8. QED
  BY <1>6, <1>7, PlaceReturned DEF ChatInv, PlacesInv

LEMMA ChatRestartStep ==
  ASSUME ChatInv, Chat!Restart
  PROVE  ChatInv'
<1>1. Chat!TypeOK /\ QuoteInv /\ PlacesInv
  BY DEF ChatInv, PlacesInv
<1>2. ASSUME NEW r \in Handlers
      PROVE  /\ req'[r] \in Chat!Request
             /\ req'[r].code = req[r].code /\ req'[r].cites = req[r].cites
             /\ req'[r].at \in {"idle", "refused", "done", "lost"}
             /\ req'[r].at \in {"idle", "refused"} => req'[r] = req[r]
  <2>1. req[r] \in Chat!Request
    BY <1>1 DEF Chat!TypeOK
  <2>2. QED
    BY <2>1 DEF Chat!Restart, Chat!Request
<1>3. req' \in [Handlers -> Chat!Request]
  BY <1>2 DEF Chat!Restart
<1>4. Chat!TypeOK'
  BY <1>1, <1>3 DEF Chat!TypeOK, Chat!Restart, Chat!Policy
<1>5. ASSUME NEW r \in Handlers, NEW k \in req'[r].cites PROVE Quotable(r, k)'
  BY <1>1, <1>2, <1>5, QuotableKept DEF QuoteInv, Chat!Restart
<1>6. QuoteInv'
  BY <1>1, <1>2, <1>5 DEF QuoteInv, Searching, Answered, Chat!Restart, Chat!Policy
<1>7. QED
  BY <1>1, <1>4, <1>6, PlacesLost DEF ChatInv, PlacesInv

\* A chunk that stops being public is marked with a change that is still to be seen.
LEMMA ChatPublishStep ==
  ASSUME ChatInv, NEW o \in SUBSET Sources, NEW l \in SUBSET Chunks, Chat!Publish(o, l)
  PROVE  ChatInv'
<1>1. Chat!TypeOK /\ QuoteInv /\ PlacesInv /\ changes \in Nat /\ changes' = changes + 1
  BY DEF ChatInv, PlacesInv, Chat!TypeOK, Chat!Publish
<1>2. Chat!TypeOK'
  BY <1>1, LimitsAssumption DEF Chat!TypeOK, Chat!Publish, Chat!Places
<1>3. ASSUME NEW r \in Handlers, NEW k \in Chunks, Quotable(r, k) PROVE Quotable(r, k)'
  <2>1. readAt[r] \in Nat /\ gone[k] \in Nat /\ readAt[r] <= changes
    BY <1>1, <1>3 DEF Chat!TypeOK, QuoteInv
  <2>2. UNCHANGED <<req, readAt>> /\ open' = o /\ live' = l
    BY DEF Chat!Publish
  <2>3. gone'[k] = IF Chat!Public(k) /\ ~Chat!Public(k)' THEN changes + 1 ELSE gone[k]
    BY <1>3, <2>2 DEF Chat!Publish, Chat!Public
  <2>4. Chat!Public(k)' \/ gone'[k] > readAt[r]
    BY <1>1, <1>3, <2>1, <2>3 DEF Quotable
  <2>5. QED
    BY <1>3, <2>2, <2>4 DEF Quotable
<1>4. ASSUME NEW r \in Handlers PROVE req[r].found \subseteq Chunks /\ req[r].cites \subseteq Chunks
  BY <1>1 DEF Chat!TypeOK, Chat!Request
<1>5. QuoteInv'
  <2>1. UNCHANGED <<req, readAt>>
    BY DEF Chat!Publish
  <2>2. \A r \in Handlers : readAt[r] \in Nat
    BY <1>1 DEF Chat!TypeOK
  <2>3. \A r \in Handlers : readAt'[r] <= changes'
    BY <1>1, <2>1, <2>2 DEF QuoteInv
  <2>4. QED
    BY <1>1, <1>3, <1>4, <2>1, <2>3 DEF QuoteInv
<1>6. HoldersHaveCode' /\ PlacesExact'
  BY <1>1 DEF PlacesInv, HoldersHaveCode, PlacesExact, Chat!PlacesExact, Chat!Holders,
              Chat!Publish, Chat!Places
<1>7. QED
  BY <1>2, <1>5, <1>6 DEF ChatInv, PlacesInv

LEMMA ChatTenantStep ==
  ASSUME ChatInv, NEW c \in Codes, Chat!ChangeTenant(c)
  PROVE  ChatInv'
<1>1. Chat!TypeOK /\ QuoteInv /\ PlacesInv /\ changes \in Nat /\ changes' = changes + 1
  BY DEF ChatInv, PlacesInv, Chat!TypeOK, Chat!ChangeTenant
<1>2. Chat!TypeOK'
  BY <1>1, LimitsAssumption DEF Chat!TypeOK, Chat!ChangeTenant, Chat!Places
<1>3. UNCHANGED <<open, live, gone, readAt, req, active, perCode>>
  BY DEF Chat!ChangeTenant, Chat!Places
<1>4. \A r \in Handlers : readAt[r] \in Nat
  BY <1>1 DEF Chat!TypeOK
<1>5. \A r, k : Quotable(r, k)' <=> Quotable(r, k)
  BY <1>3 DEF Quotable, Chat!Public
<1>6. QuoteInv'
  BY <1>1, <1>3, <1>4, <1>5 DEF QuoteInv
<1>7. HoldersHaveCode' /\ PlacesExact'
  BY <1>1, <1>3 DEF PlacesInv, HoldersHaveCode, PlacesExact, Chat!PlacesExact, Chat!Holders
<1>8. QED
  BY <1>2, <1>6, <1>7 DEF ChatInv, PlacesInv

LEMMA ChatStep == ChatInv /\ [Chat!Next]_(Chat!vars) => ChatInv'
<1> SUFFICES ASSUME ChatInv, [Chat!Next]_(Chat!vars) PROVE ChatInv'
  OBVIOUS
<1>1. CASE UNCHANGED Chat!vars
  BY <1>1 DEF Chat!vars, ChatInv, PlacesInv, QuoteInv, Quotable, Chat!Public, Chat!TypeOK,
              HoldersHaveCode, PlacesExact, Chat!PlacesExact, Chat!Holders
<1>2. ASSUME NEW r \in Handlers, Chat!Step(r) PROVE ChatInv'
  BY <1>2, ChatAcquireStep, ChatRequestStep, ChatReleaseStep
     DEF Chat!Step, Chat!Resolve, Chat!Allow, Chat!Search, Chat!Widen, Chat!Authorize,
         Chat!Generate, Chat!Raise, Chat!At, Holding
<1>3. Chat!TypeOK
  BY DEF ChatInv, PlacesInv
<1>4. ASSUME NEW s \in Sources, Chat!ChangeSource(s) PROVE ChatInv'
  BY <1>3, <1>4, ChatPublishStep DEF Chat!ChangeSource, Chat!TypeOK
<1>5. ASSUME NEW k \in Chunks, Chat!ChangeChunk(k) PROVE ChatInv'
  BY <1>3, <1>5, ChatPublishStep DEF Chat!ChangeChunk, Chat!TypeOK
<1>6. QED
  BY <1>1, <1>2, <1>4, <1>5, ChatRestartStep, ChatTenantStep DEF Chat!Next

LEMMA ChatInit == Chat!Init => ChatInv
<1> SUFFICES ASSUME Chat!Init PROVE ChatInv
  OBVIOUS
<1>1. Chat!TypeOK
  BY LimitsAssumption DEF Chat!Init, Chat!TypeOK, Chat!Request
<1>2. Chat!Holders = {} /\ \A c : HoldersOf(c) = {}
  BY DEF Chat!Init, Chat!Holders, HoldersOf
<1>3. HoldersHaveCode /\ PlacesExact
  BY <1>2, ChatCardinality, FS_EmptySet, LimitsAssumption
     DEF Chat!Init, HoldersHaveCode, PlacesExact, Chat!PlacesExact, HoldersOf
<1>4. QuoteInv
  BY DEF Chat!Init, QuoteInv, Searching, Answered
<1>5. QED
  BY <1>1, <1>3, <1>4 DEF ChatInv, PlacesInv

THEOREM ChatInvariance == Chat!Spec => []ChatInv
  BY ChatInit, ChatStep, PTL DEF Chat!Spec

\* However requests end, by an answer, a refusal, an exception or a restart, the
\* counters are exactly the requests at work, in total and for each institution, and
\* never exceed their limits.
THEOREM PlacesAreExact == Chat!Spec => []PlacesExact
<1>1. ChatInv => PlacesExact
  BY DEF ChatInv, PlacesInv
<1>2. QED
  BY <1>1, ChatInvariance, PTL

\* An answer quotes only chunks of the institution asked about that were public when
\* the request last looked, whatever was published and withdrawn meanwhile.
THEOREM QuotesArePublic == Chat!Spec => []QuotesPublic
<1>1. ChatInv => QuotesPublic
  BY DEF ChatInv, QuoteInv, Quotable, QuotesPublic, Chat!QuotesPublic
<1>2. QED
  BY <1>1, ChatInvariance, PTL

--------------------------------------------------------------------------------
(* The record's document: versions                                            *)

Present(v) == vers[v].life # "absent"

\* Where a request is once it has inserted its version.
Inserted == {"supersede", "run", "chunk", "embed", "publish", "done"}

\* A version is inserted once, and leaves no trace when it is deleted.
VersionsOnce ==
  \A v \in Handlers :
    /\ Present(v) => /\ todo[v].at \in Inserted
                     /\ vers[v].doc \in Handlers
                     /\ vers[v].number >= 1
    /\ ~Present(v) => /\ vers[v].doc = None /\ vers[v].supersedes = None
                      /\ vers[v].run = "none"

NumbersUnique ==
  \A v, w \in Handlers :
    /\ Present(v) /\ Present(w)
    /\ vers[v].doc = vers[w].doc /\ vers[v].number = vers[w].number
    => v = w

\* Version w comes right before a version of document d with number n.
Precedes(w, d, n) == vers[w].doc = d /\ vers[w].number + 1 = n

Chained ==
  \A v \in Handlers : Present(v) =>
    IF vers[v].number = 1 THEN vers[v].supersedes = None
    ELSE \E w \in Handlers : /\ vers[v].supersedes = w /\ Present(w)
                             /\ Precedes(w, vers[v].doc, vers[v].number)

\* What a request about to insert has read: the version it names as the latest may
\* be gone, but it is not another one now.
LatestRead ==
  \A h \in Handlers :
    /\ todo[h].at \notin Inserted \cup {"insert"} => todo[h].latest = None
    /\ todo[h].at = "supersede" => todo[h].latest \in Handlers
    /\ todo[h].at = "insert" =>
         IF todo[h].latest = None THEN todo[h].number = 1
         ELSE \E w \in Handlers :
                /\ todo[h].latest = w /\ todo[w].at \in Inserted /\ todo[h].number >= 2
                /\ Present(w) => Precedes(w, todo[h].doc, todo[h].number)

Histories == VersionsOnce /\ NumbersUnique /\ Chained /\ LatestRead

--------------------------------------------------------------------------------
(* The record's document: stored files                                        *)

Removing == {"purge", "drop runs", "drop versions", "drop document", "drop files"}

\* A deletion works on versions that were inserted before it looked.
DeletionsOK ==
  \A g \in Handlers : todo[g].at \in Removing =>
    /\ \A v \in todo[g].seen :
         /\ todo[v].at \in Inserted
         /\ Present(v) => vers[v].doc = todo[g].doc
         /\ todo[g].at \in {"drop document", "drop files"} => ~Present(v)
    /\ todo[g].at = "drop runs" => todo[g].listed \subseteq todo[g].seen

\* A deletion under way will delete the file of version v.
Doomed(v) == \E g \in Handlers : todo[g].at \in Removing /\ v \in todo[g].seen

\* While nothing fails, a file without a version and a version without a run are
\* those of a request that still registers them, or a deletion takes care of them.
FilesOwed ==
  ~trouble => \A v \in Handlers :
    /\ v \in files /\ ~Present(v) =>
         todo[v].at \in {"latest", "insert", "supersede", "run"} \/ Doomed(v)
    /\ Present(v) /\ vers[v].run = "none" =>
         todo[v].at \in {"supersede", "run"} \/ Doomed(v)

\* The history invariant and what is owed while nothing fails.
DocInv == Doc!TypeOK /\ Histories /\ DeletionsOK /\ FilesOwed

--------------------------------------------------------------------------------
(* The record's document: one request after the other                         *)

NotLive == rec = None \/ ~(rec.published /\ rec.active)

\* Search may show the record, live or published again while inactive.
Shown == rec # None /\ rec.published

Top(v) == Present(v) /\ \A w \in Handlers : Present(w) => vers[w].number <= vers[v].number

\* Between two requests, and in one that has not changed a version yet: exactly the
\* last version is published, with its vectors.
DocSettled ==
  \A v \in Handlers : Present(v) =>
    IF Top(v) THEN vers[v].life = "published" /\ vers[v].run = "indexed"
    ELSE vers[v].life = "superseded"

Empty == \A v \in Handlers : ~Present(v)

AllOf(d) == \A v \in Handlers : Present(v) => vers[v].doc = d

Rendered(h) == Shown /\ todo[h].text = rec.text

\* The new version of request h, and what became of the others.
NewVersion(h, run) ==
  /\ Top(h) /\ vers[h].life = "draft" /\ vers[h].run = run
  /\ vers[h].text = todo[h].text /\ Rendered(h)
  /\ AllOf(vers[h].doc)

OthersSuperseded(h) ==
  \A v \in Handlers \ {h} : Present(v) => vers[v].life = "superseded"

WhenIdle ==
  /\ DocSettled
  /\ \A v \in Handlers : Present(v) /\ Top(v) => Shown /\ vers[v].text = rec.text
  /\ ~NotLive => \E v \in Handlers : Top(v)

\* What one request at work alone finds at each of its steps.
WhenAlone(h) ==
  LET at == todo[h].at IN
  /\ at = "reread" => DocSettled /\ Shown
  /\ at \in {"source", "new source", "find", "document", "stale", "upload", "latest",
             "insert"} => DocSettled /\ Rendered(h)
  /\ at = "document" => Empty
  /\ at \in {"stale", "upload", "latest", "insert"} => AllOf(todo[h].doc)
  /\ at = "insert" =>
       IF todo[h].latest = None THEN Empty ELSE Top(todo[h].latest) /\ ~todo[h].superseded
  /\ at = "supersede" =>
       /\ NewVersion(h, "none")
       /\ todo[h].latest # h
       /\ \A v \in Handlers \ {h, todo[h].latest} : Present(v) => vers[v].life = "superseded"
  /\ at = "run" => NewVersion(h, "none") /\ OthersSuperseded(h)
  /\ at = "chunk" => NewVersion(h, "bare") /\ OthersSuperseded(h)
  /\ at = "embed" => NewVersion(h, "chunked") /\ OthersSuperseded(h)
  /\ at = "publish" => NewVersion(h, "indexed") /\ OthersSuperseded(h)
  /\ at \in Removing \cup {"marker", "look"} => NotLive
  /\ at \in {"look", "purge", "drop runs", "drop versions"} => AllOf(todo[h].doc)
  /\ at \in {"drop document", "drop files"} => Empty

OneDocument == \A v \in Handlers : Present(v) => AllOf(vers[v].doc)

SerialInv ==
  ~trouble /\ ~overlap =>
    /\ \A g, h \in Doc!Busy : g = h
    /\ OneDocument
    /\ Doc!Busy = {} => WhenIdle
    /\ \A h \in Doc!Busy : WhenAlone(h)

--------------------------------------------------------------------------------
(* What one call of a request does                                            *)

Steps == {"idle", "reread", "source", "new source", "find", "document", "stale",
          "upload", "latest", "insert", "supersede", "run", "chunk", "embed",
          "publish", "marker", "look", "purge", "drop runs",
          "drop versions", "drop document", "drop files", "done"}

RunStates == {"none", "bare", "chunked", "indexed", "failed"}

\* Nobody but request h moves.
Moves(h) == /\ todo' \in [Handlers -> Doc!Task]
            /\ \A g \in Handlers \ {h} : todo'[g] = todo[g]

SameTask(h) ==
  /\ todo'[h].text = todo[h].text /\ todo'[h].doc = todo[h].doc
  /\ todo'[h].seen = todo[h].seen /\ todo'[h].listed = todo[h].listed
  /\ todo'[h].latest = todo[h].latest /\ todo'[h].number = todo[h].number
  /\ todo'[h].superseded = todo[h].superseded

GoesTo(h, at) == Moves(h) /\ SameTask(h) /\ todo'[h].at = at

LEMMA TaskMoves ==
  ASSUME Doc!TypeOK, NEW h \in Handlers, NEW at \in Steps, Doc!Go(h, at)
  PROVE  GoesTo(h, at)
<1> PICK w : w = todo[h]
  OBVIOUS
<1> DEFINE q == [w EXCEPT !.at = at]
<1>1. w \in Doc!Task /\ todo \in [Handlers -> Doc!Task]
  BY DEF Doc!TypeOK
<1>2. todo' = [todo EXCEPT ![h] = q]
  BY <1>1 DEF Doc!Go
<1>3. /\ q \in Doc!Task /\ q.at = at /\ q.text = w.text /\ q.doc = w.doc /\ q.seen = w.seen
      /\ q.listed = w.listed /\ q.latest = w.latest /\ q.number = w.number
      /\ q.superseded = w.superseded
  BY <1>1, ZenonT(40) DEF Doc!Task, Steps
<1> HIDE DEF q
<1>4. QED
  BY <1>1, <1>2, <1>3 DEF GoesTo, Moves, SameTask

\* The row of version v in its life and run.
Row(v, life, run) ==
  /\ vers' \in [Handlers -> Doc!Version]
  /\ \A w \in Handlers \ {v} : vers'[w] = vers[w]
  /\ vers'[v].doc = vers[v].doc /\ vers'[v].number = vers[v].number
  /\ vers'[v].text = vers[v].text /\ vers'[v].supersedes = vers[v].supersedes
  /\ vers'[v].life = life /\ vers'[v].run = run

LEMMA RunRow ==
  ASSUME Doc!TypeOK, NEW v \in Handlers, NEW run \in RunStates,
         vers' = [vers EXCEPT ![v].run = run]
  PROVE  Row(v, vers[v].life, run)
<1> PICK w : w = vers[v]
  OBVIOUS
<1> DEFINE q == [w EXCEPT !.run = run]
<1>1. w \in Doc!Version /\ vers \in [Handlers -> Doc!Version]
  BY DEF Doc!TypeOK
<1>2. vers' = [vers EXCEPT ![v] = q]
  BY <1>1
<1>3. /\ q \in Doc!Version /\ q.doc = w.doc /\ q.number = w.number /\ q.text = w.text
      /\ q.supersedes = w.supersedes /\ q.life = w.life /\ q.run = run
  BY <1>1 DEF Doc!Version, RunStates
<1> HIDE DEF q
<1>4. QED
  BY <1>1, <1>2, <1>3 DEF Row

LEMMA LifeRow ==
  ASSUME Doc!TypeOK, NEW v \in Handlers, NEW life \in {"published", "superseded"},
         Doc!SetLife(v, life)
  PROVE  Row(v, IF Present(v) THEN life ELSE "absent", vers[v].run)
<1> PICK w : w = vers[v]
  OBVIOUS
<1> PICK l : l = IF w.life = "absent" THEN w.life ELSE life
  OBVIOUS
<1> DEFINE q == [w EXCEPT !.life = l]
<1>1. w \in Doc!Version /\ vers \in [Handlers -> Doc!Version]
  BY DEF Doc!TypeOK
<1>2. vers' = [vers EXCEPT ![v] = q]
  BY <1>1 DEF Doc!SetLife
<1>3. /\ q \in Doc!Version /\ q.doc = w.doc /\ q.number = w.number /\ q.text = w.text
      /\ q.supersedes = w.supersedes /\ q.life = l /\ q.run = w.run
  BY <1>1 DEF Doc!Version
<1> HIDE DEF q
<1>4. QED
  BY <1>1, <1>2, <1>3 DEF Row, Present

Aborted(h) == GoesTo(h, "done") /\ trouble'

LEMMA RaiseMoves ==
  ASSUME Doc!TypeOK, NEW h \in Handlers, Doc!Raise(h)
  PROVE  Aborted(h)
  BY TaskMoves DEF Doc!Raise, Aborted, Steps

\* The request h holds some new values; its text, its latest version and the number
\* it will use are as before.
Keeps(h) ==
  /\ todo'[h].text = todo[h].text /\ todo'[h].latest = todo[h].latest
  /\ todo'[h].number = todo[h].number /\ todo'[h].superseded = todo[h].superseded

\* A request starts where its first write leads it.
Starts(h) ==
  \/ todo'[h].at = "source" /\ Shown' /\ todo'[h].text = rec'.text
  \/ todo'[h].at = "reread" /\ Shown'
  \/ todo'[h].at = "marker" /\ NotLive'

LEMMA BeginMoves ==
  ASSUME Doc!TypeOK, NEW h \in Handlers, NEW q, Doc!Begin(h, q),
         NEW at \in {"source", "reread", "marker"}, NEW words \in Wordings \cup {None},
         \/ q = [Doc!Idle EXCEPT !.at = at, !.text = words]
         \/ q = [Doc!Idle EXCEPT !.at = at] /\ words = None
  PROVE  Moves(h) /\ todo'[h].latest = None /\ todo'[h].at = at /\ todo'[h].text = words
<1>1. todo' = [todo EXCEPT ![h] = q] /\ todo \in [Handlers -> Doc!Task]
  BY DEF Doc!Begin, Doc!TypeOK
<1>2. q \in Doc!Task /\ q.latest = None /\ q.at = at /\ q.text = words
  <2>1. CASE q = [Doc!Idle EXCEPT !.at = at, !.text = words]
    BY <2>1 DEF Doc!Task, Doc!Idle
  <2>2. CASE q = [Doc!Idle EXCEPT !.at = at] /\ words = None
    BY <2>2 DEF Doc!Task, Doc!Idle
  <2>3. QED
    BY <2>1, <2>2
<1> HIDE DEF Doc!Begin
<1>3. QED
  BY <1>1, <1>2 DEF Moves

LEMMA RequestEffect ==
  ASSUME Doc!TypeOK, NEW h \in Handlers, Doc!Request(h)
  PROVE  /\ todo[h].at = "idle"
         /\ UNCHANGED <<sources, docs, vers, files, trouble>>
         /\ overlap' = (overlap \/ Doc!Busy # {})
         /\ Moves(h) /\ todo'[h].latest = None /\ Starts(h)
         /\ rec' \in Doc!Record \cup {None}
<1> DEFINE Base == /\ todo[h].at = "idle"
                   /\ UNCHANGED <<sources, docs, vers, files, trouble>>
                   /\ overlap' = (overlap \/ Doc!Busy # {})
<1>1. \A q : Doc!Begin(h, q) => Base
  BY DEF Doc!Begin, Doc!At
<1> HIDE DEF Base
<1>2. ASSUME Doc!Update(h)
      PROVE  /\ Base /\ Moves(h) /\ todo'[h].latest = None /\ Starts(h)
             /\ rec' \in Doc!Record \cup {None}
  <2>1. PICK new \in Doc!Record :
          /\ rec' = new
          /\ Doc!Begin(h, IF new.active /\ new.published
                          THEN [Doc!Idle EXCEPT !.at = "source", !.text = new.text]
                          ELSE [Doc!Idle EXCEPT !.at = "marker"])
    BY <1>2 DEF Doc!Update
  <2>2. new.text \in Wordings /\ new # None
    BY HandlersAssumption DEF Doc!Record
  <2>3. CASE new.active /\ new.published
    <3> PICK q : q = [Doc!Idle EXCEPT !.at = "source", !.text = new.text]
      OBVIOUS
    <3>1. Doc!Begin(h, q) /\ rec' = new /\ new.text \in Wordings \cup {None}
      BY <2>1, <2>2, <2>3
    <3>2. /\ Moves(h) /\ todo'[h].latest = None /\ todo'[h].at = "source"
          /\ todo'[h].text = new.text
      <4>1. PICK t : t = new.text
        OBVIOUS
      <4>2. /\ q = [Doc!Idle EXCEPT !.at = "source", !.text = t]
            /\ t \in Wordings \cup {None} /\ Doc!Begin(h, q)
        BY <3>1, <4>1
      <4>3. /\ Moves(h) /\ todo'[h].latest = None /\ todo'[h].at = "source"
            /\ todo'[h].text = t
        BY <4>2, BeginMoves
      <4>4. QED
        BY <4>1, <4>3
    <3>3. QED
      <4>1. Shown'
        BY <2>2, <2>3, <3>1, Zenon DEF Shown
      <4>2. QED
        BY <1>1, <3>1, <3>2, <4>1 DEF Starts
  <2>4. CASE ~(new.active /\ new.published)
    <3>1. Doc!Begin(h, [Doc!Idle EXCEPT !.at = "marker"]) /\ rec' = new
      BY <2>1, <2>4
    <3>2. Moves(h) /\ todo'[h].latest = None /\ todo'[h].at = "marker"
      BY <3>1, BeginMoves
    <3>3. NotLive'
      BY <2>4, <3>1, Zenon DEF NotLive
    <3>4. QED
      BY <1>1, <3>1, <3>2, <3>3 DEF Starts
  <2>5. QED
    BY <2>3, <2>4
<1>3. ASSUME Doc!Publish(h)
      PROVE  /\ Base /\ Moves(h) /\ todo'[h].latest = None /\ Starts(h)
             /\ rec' \in Doc!Record \cup {None}
  <2>1. rec' \in Doc!Record /\ rec' # None /\ rec'.published
    BY <1>3, HandlersAssumption DEF Doc!Publish, Doc!TypeOK, Doc!Record
  <2>2. QED
    BY <1>1, <1>3, <2>1, BeginMoves DEF Doc!Publish, Starts, Shown
<1>4. ASSUME Doc!Unpublish(h)
      PROVE  /\ Base /\ Moves(h) /\ todo'[h].latest = None /\ Starts(h)
             /\ rec' \in Doc!Record \cup {None}
  <2>1. rec' \in Doc!Record /\ ~rec'.published
    BY <1>4 DEF Doc!Unpublish, Doc!TypeOK, Doc!Record
  <2>2. QED
    BY <1>1, <1>4, <2>1, BeginMoves DEF Doc!Unpublish, Starts, NotLive
<1>5. ASSUME Doc!Delete(h)
      PROVE  /\ Base /\ Moves(h) /\ todo'[h].latest = None /\ Starts(h)
             /\ rec' \in Doc!Record \cup {None}
  BY <1>1, <1>5, BeginMoves DEF Doc!Delete, Starts, NotLive
<1>6. QED
  BY <1>2, <1>3, <1>4, <1>5 DEF Doc!Request, Base

LEMMA RereadEffect ==
  ASSUME Doc!TypeOK, NEW h \in Handlers, Doc!Reread(h)
  PROVE  /\ todo[h].at = "reread" /\ UNCHANGED <<Doc!Rows, overlap>>
         /\ \/ Aborted(h)
            \/ /\ Moves(h) /\ todo'[h].at = "source" /\ todo'[h].text = rec.text
               /\ todo'[h].latest = todo[h].latest /\ rec # None /\ UNCHANGED trouble
<1>1. CASE rec = None
  BY <1>1, RaiseMoves DEF Doc!Reread, Doc!At
<1>2. CASE rec # None
  <2> DEFINE w == todo[h]
             q == [w EXCEPT !.at = "source", !.text = rec.text]
  <2>1. w \in Doc!Task /\ todo \in [Handlers -> Doc!Task] /\ rec.text \in Wordings
    BY <1>2 DEF Doc!TypeOK, Doc!Record
  <2>2. todo' = [todo EXCEPT ![h] = q]
    BY <1>2, <2>1 DEF Doc!Reread
  <2>3. /\ q \in Doc!Task /\ q.at = "source" /\ q.text = rec.text /\ q.latest = w.latest
    BY <2>1 DEF Doc!Task
  <2> HIDE DEF q
  <2>4. QED
    BY <1>2, <2>1, <2>2, <2>3 DEF Moves, Doc!Reread, Doc!At
<1>3. QED
  BY <1>1, <1>2

\* The request takes up document d.
LEMMA DocMoves ==
  ASSUME Doc!TypeOK, NEW h \in Handlers, NEW d \in Handlers \cup {None}, NEW at \in Steps,
         todo' = [todo EXCEPT ![h].at = at, ![h].doc = d]
  PROVE  Moves(h) /\ Keeps(h) /\ todo'[h].at = at /\ todo'[h].doc = d
<1> DEFINE w == todo[h]
           q == [w EXCEPT !.at = at, !.doc = d]
<1>1. w \in Doc!Task /\ todo \in [Handlers -> Doc!Task]
  BY DEF Doc!TypeOK
<1>2. todo' = [todo EXCEPT ![h] = q]
  BY <1>1
<1>3. q \in Doc!Task
  BY <1>1 DEF Doc!Task, Steps
<1>4. /\ q.at = at /\ q.doc = d /\ q.text = w.text
      /\ q.latest = w.latest /\ q.number = w.number /\ q.superseded = w.superseded
  BY <1>1 DEF Doc!Task
<1> HIDE DEF q
<1>5. QED
  BY <1>1, <1>2, <1>3, <1>4 DEF Moves, Keeps

LEMMA MarkedType ==
  ASSUME Doc!TypeOK
  PROVE  /\ Doc!Marked \subseteq Handlers \cup {None}
         /\ \A d \in Doc!Marked : \E v \in Handlers : Present(v) /\ vers[v].doc = d
         /\ Doc!Marked = {} => \A v \in Handlers : ~Present(v)
<1>1. \A d \in Doc!Marked : \E v \in Handlers : Present(v) /\ vers[v].doc = d
  BY DEF Doc!Marked, Present
<1>2. \A v \in Handlers : vers[v].doc \in Handlers \cup {None}
  BY DEF Doc!TypeOK, Doc!Version
<1>3. \A v \in Handlers : Present(v) => vers[v].doc \in Doc!Marked
  BY DEF Doc!Marked, Present
<1>4. QED
  BY <1>1, <1>2, <1>3

LEMMA FindEffect ==
  ASSUME Doc!TypeOK, NEW h \in Handlers, Doc!Find(h)
  PROVE  /\ todo[h].at = "find" /\ UNCHANGED <<Doc!Rows, overlap, trouble>>
         /\ Moves(h) /\ Keeps(h)
         /\ \/ todo'[h].at = "document" /\ \A v \in Handlers : ~Present(v)
            \/ /\ todo'[h].at = "stale"
               /\ \E v \in Handlers : Present(v) /\ vers[v].doc = todo'[h].doc
<1>1. todo[h].at = "find" /\ UNCHANGED <<Doc!Rows, overlap, trouble>>
  BY DEF Doc!Find, Doc!At
<1>2. CASE Doc!Marked = {} /\ Doc!Go(h, "document")
  BY <1>1, <1>2, MarkedType, TaskMoves DEF Steps, GoesTo, SameTask, Keeps
<1>3. ASSUME NEW d \in Doc!Marked, todo' = [todo EXCEPT ![h].at = "stale", ![h].doc = d]
      PROVE  /\ Moves(h) /\ Keeps(h) /\ todo'[h].at = "stale"
             /\ \E v \in Handlers : Present(v) /\ vers[v].doc = todo'[h].doc
  <2>1. d \in Handlers \cup {None} /\ \E v \in Handlers : Present(v) /\ vers[v].doc = d
    BY MarkedType
  <2>2. "stale" \in Steps
    BY DEF Steps
  <2>3. QED
    BY <1>3, <2>1, <2>2, DocMoves
<1>4. QED
  BY <1>1, <1>2, <1>3 DEF Doc!Find

LEMMA MarkerEffect ==
  ASSUME Doc!TypeOK, NEW h \in Handlers, Doc!Marker(h)
  PROVE  /\ todo[h].at = "marker" /\ UNCHANGED <<Doc!Rows, overlap, trouble>>
         /\ Moves(h) /\ Keeps(h)
         /\ \/ todo'[h].at = "done" /\ \A v \in Handlers : ~Present(v)
            \/ /\ todo'[h].at = "look"
               /\ \E v \in Handlers : Present(v) /\ vers[v].doc = todo'[h].doc
<1>1. todo[h].at = "marker" /\ UNCHANGED <<Doc!Rows, overlap, trouble>>
  BY DEF Doc!Marker, Doc!At
<1>2. CASE Doc!Marked = {} /\ Doc!Go(h, "done")
  BY <1>1, <1>2, MarkedType, TaskMoves DEF Steps, GoesTo, SameTask, Keeps
<1>3. ASSUME NEW d \in Doc!Marked, todo' = [todo EXCEPT ![h].at = "look", ![h].doc = d]
      PROVE  /\ Moves(h) /\ Keeps(h) /\ todo'[h].at = "look"
             /\ \E v \in Handlers : Present(v) /\ vers[v].doc = todo'[h].doc
  <2>1. d \in Handlers \cup {None} /\ \E v \in Handlers : Present(v) /\ vers[v].doc = d
    BY MarkedType
  <2>2. "look" \in Steps
    BY DEF Steps
  <2>3. QED
    BY <1>3, <2>1, <2>2, DocMoves
<1>4. QED
  BY <1>1, <1>2, <1>3 DEF Doc!Marker

LEMMA LookEffect ==
  ASSUME Doc!TypeOK, NEW h \in Handlers, Doc!Look(h)
  PROVE  /\ todo[h].at = "look" /\ UNCHANGED <<Doc!Rows, overlap>>
         /\ \/ Aborted(h)
            \/ /\ Moves(h) /\ Keeps(h) /\ UNCHANGED trouble
               /\ todo'[h].at = "purge" /\ todo'[h].doc = todo[h].doc
               /\ todo'[h].seen = Doc!Versions(todo[h].doc)
<1>1. CASE todo[h].doc \notin docs
  BY <1>1, RaiseMoves DEF Doc!Look, Doc!At
<1>2. CASE todo[h].doc \in docs
  <2> DEFINE w == todo[h]
             q == [w EXCEPT !.at = "purge", !.seen = Doc!Versions(w.doc)]
  <2>1. w \in Doc!Task /\ todo \in [Handlers -> Doc!Task]
        /\ Doc!Versions(w.doc) \subseteq Handlers
    BY DEF Doc!TypeOK, Doc!Versions
  <2>2. todo' = [todo EXCEPT ![h] = q]
    BY <1>2, <2>1 DEF Doc!Look
  <2>3. /\ q \in Doc!Task /\ q.at = "purge" /\ q.seen = Doc!Versions(w.doc)
        /\ q.doc = w.doc /\ q.text = w.text /\ q.latest = w.latest
        /\ q.number = w.number /\ q.superseded = w.superseded
    BY <2>1 DEF Doc!Task
  <2> HIDE DEF q
  <2>4. QED
    BY <1>2, <2>1, <2>2, <2>3 DEF Moves, Keeps, Doc!Look, Doc!At
<1>3. QED
  BY <1>1, <1>2

LEMMA CreateDocumentEffect ==
  ASSUME Doc!TypeOK, NEW h \in Handlers, Doc!CreateDocument(h)
  PROVE  /\ todo[h].at = "document" /\ docs' = docs \cup {h}
         /\ UNCHANGED <<rec, sources, vers, files, overlap, trouble>>
         /\ Moves(h) /\ Keeps(h) /\ todo'[h].at = "upload" /\ todo'[h].doc = h
<1>1. "upload" \in Steps
  BY DEF Steps
<1>2. QED
  BY <1>1, DocMoves DEF Doc!CreateDocument, Doc!At

\* Nobody registered a version of the document, or v is its latest version.
LatestOf(h, v) ==
  /\ Present(v) /\ vers[v].doc = todo[h].doc
  /\ \A w \in Handlers : Present(w) /\ vers[w].doc = todo[h].doc
                            => vers[w].number <= vers[v].number
  /\ todo'[h].latest = v /\ todo'[h].number = vers[v].number + 1
  /\ todo'[h].superseded = (vers[v].life = "superseded")

LEMMA LatestEffect ==
  ASSUME Doc!TypeOK, NEW h \in Handlers, Doc!Latest(h)
  PROVE  /\ todo[h].at = "latest" /\ UNCHANGED <<Doc!Rows, overlap, trouble>>
         /\ Moves(h) /\ todo'[h].at = "insert"
         /\ todo'[h].text = todo[h].text /\ todo'[h].doc = todo[h].doc
         /\ \/ /\ \A v \in Handlers : ~(Present(v) /\ vers[v].doc = todo[h].doc)
               /\ todo'[h].latest = todo[h].latest /\ todo'[h].number = 1
            \/ \E v \in Handlers : LatestOf(h, v)
<1>1. todo[h].at = "latest" /\ UNCHANGED <<Doc!Rows, overlap, trouble>>
  BY DEF Doc!Latest, Doc!At
<1> PICK t : t = todo[h]
  OBVIOUS
<1>2. t \in Doc!Task /\ todo \in [Handlers -> Doc!Task] /\ vers \in [Handlers -> Doc!Version]
  BY DEF Doc!TypeOK
<1>3. CASE /\ Doc!Versions(t.doc) = {}
           /\ todo' = [todo EXCEPT ![h].at = "insert", ![h].number = 1]
  <2> DEFINE q == [t EXCEPT !.at = "insert", !.number = 1]
  <2>1. todo' = [todo EXCEPT ![h] = q]
    BY <1>2, <1>3
  <2>2. /\ q \in Doc!Task /\ q.at = "insert" /\ q.number = 1 /\ q.text = t.text
        /\ q.doc = t.doc /\ q.latest = t.latest
    BY <1>2 DEF Doc!Task
  <2>3. \A v \in Handlers : ~(Present(v) /\ vers[v].doc = t.doc)
    BY <1>3 DEF Doc!Versions, Present
  <2> HIDE DEF q
  <2>4. QED
    BY <1>1, <1>2, <2>1, <2>2, <2>3 DEF Moves
<1>4. ASSUME NEW v \in Doc!Versions(t.doc),
             \A w \in Doc!Versions(t.doc) : vers[w].number <= vers[v].number,
             todo' = [todo EXCEPT ![h] = [@ EXCEPT !.at = "insert", !.latest = v,
                            !.number = vers[v].number + 1,
                            !.superseded = (vers[v].life = "superseded")]]
      PROVE  /\ Moves(h) /\ todo'[h].at = "insert"
             /\ todo'[h].text = t.text /\ todo'[h].doc = t.doc
             /\ \E w \in Handlers : LatestOf(h, w)
  <2> PICK n : n = vers[v].number + 1
    OBVIOUS
  <2> PICK b : b = (vers[v].life = "superseded")
    OBVIOUS
  <2> DEFINE q == [t EXCEPT !.at = "insert", !.latest = v, !.number = n, !.superseded = b]
  <2>1. /\ v \in Handlers /\ n \in Nat /\ b \in BOOLEAN
        /\ \A w \in Handlers : w \in Doc!Versions(t.doc) <=> Present(w) /\ vers[w].doc = t.doc
    BY <1>2 DEF Doc!Version, Doc!Versions, Present
  <2>2. todo' = [todo EXCEPT ![h] = q]
    BY <1>2, <1>4, Zenon
  <2>3. /\ q \in Doc!Task /\ q.at = "insert" /\ q.number = n /\ q.text = t.text
        /\ q.doc = t.doc /\ q.latest = v
    BY <1>2, <2>1 DEF Doc!Task
  <2>4. q.superseded = b
    BY <1>2, <2>1, Zenon DEF Doc!Task
  <2> HIDE DEF q
  <2>5. todo'[h] = q /\ Moves(h)
    BY <1>2, <2>2, <2>3 DEF Moves
  <2>6. LatestOf(h, v)
    <3>1. todo'[h].superseded = (vers[v].life = "superseded")
      BY <2>4, <2>5, Zenon
    <3>2. /\ Present(v) /\ vers[v].doc = todo[h].doc
          /\ \A w \in Handlers : Present(w) /\ vers[w].doc = todo[h].doc
                                    => vers[w].number <= vers[v].number
          /\ todo'[h].latest = v /\ todo'[h].number = vers[v].number + 1
      BY <1>4, <2>1, <2>3, <2>5
    <3>3. QED
      BY <3>1, <3>2, Zenon DEF LatestOf
  <2>7. QED
    BY <2>1, <2>3, <2>5, <2>6
<1>5. QED
  BY <1>1, <1>3, <1>4 DEF Doc!Latest

\* Version h as the request inserts it.
NewRow(h) ==
  /\ vers' \in [Handlers -> Doc!Version]
  /\ \A w \in Handlers \ {h} : vers'[w] = vers[w]
  /\ vers'[h].doc = todo[h].doc /\ vers'[h].number = todo[h].number
  /\ vers'[h].text = todo[h].text /\ vers'[h].supersedes = todo[h].latest
  /\ vers'[h].life = "draft" /\ vers'[h].run = "none"

LEMMA InsertEffect ==
  ASSUME Doc!TypeOK, NEW h \in Handlers, Doc!Insert(h)
  PROVE  /\ todo[h].at = "insert" /\ UNCHANGED <<rec, sources, docs, overlap>>
         /\ \/ /\ Doc!Insertable(h) /\ NewRow(h) /\ UNCHANGED <<files, trouble>>
               /\ GoesTo(h, IF todo[h].latest = None \/ todo[h].superseded
                            THEN "run" ELSE "supersede")
            \/ Aborted(h) /\ UNCHANGED vers /\ files' = files \ {h}
<1>1. todo[h].at = "insert" /\ UNCHANGED <<rec, sources, docs, overlap>>
  BY DEF Doc!Insert, Doc!At
<1>2. CASE Doc!Unregistered(h) /\ UNCHANGED vers
  BY <1>1, <1>2, RaiseMoves DEF Doc!Unregistered
<1>3. CASE /\ Doc!Insertable(h)
           /\ vers' = [vers EXCEPT ![h] =
                [doc |-> todo[h].doc, number |-> todo[h].number, text |-> todo[h].text,
                 life |-> "draft", supersedes |-> todo[h].latest, run |-> "none"]]
           /\ Doc!Go(h, IF todo[h].latest = None \/ todo[h].superseded
                        THEN "run" ELSE "supersede")
           /\ UNCHANGED <<files, trouble>>
  <2>1. PICK at \in {"run", "supersede"} :
           at = IF todo[h].latest = None \/ todo[h].superseded THEN "run" ELSE "supersede"
    OBVIOUS
  <2>2. GoesTo(h, at)
    BY <1>3, <2>1, TaskMoves DEF Steps
  <2>3. NewRow(h)
    BY <1>3 DEF NewRow, Doc!TypeOK, Doc!Version, Doc!Task
  <2>4. QED
    BY <1>1, <1>3, <2>1, <2>2, <2>3
<1>4. QED
  BY <1>2, <1>3 DEF Doc!Insert

LEMMA SupersedeEffect ==
  ASSUME Doc!TypeOK, NEW h \in Handlers, todo[h].latest \in Handlers, Doc!Supersede(h)
  PROVE  /\ todo[h].at = "supersede" /\ GoesTo(h, "run")
         /\ UNCHANGED <<rec, sources, docs, files, overlap, trouble>>
         /\ Row(todo[h].latest, IF Present(todo[h].latest) THEN "superseded" ELSE "absent",
                vers[todo[h].latest].run)
<1>1. PICK v \in Handlers : v = todo[h].latest
  OBVIOUS
<1>2. Doc!SetLife(v, "superseded")
  BY <1>1 DEF Doc!Supersede
<1>3. Row(v, IF Present(v) THEN "superseded" ELSE "absent", vers[v].run)
  BY <1>2, LifeRow
<1>4. QED
  BY <1>1, <1>3, TaskMoves DEF Doc!Supersede, Doc!At, Steps

LEMMA PublishEffect ==
  ASSUME Doc!TypeOK, NEW h \in Handlers, Doc!PublishVersion(h)
  PROVE  /\ todo[h].at = "publish" /\ GoesTo(h, "done")
         /\ UNCHANGED <<rec, sources, docs, files, overlap, trouble>>
         /\ Row(h, IF Present(h) THEN "published" ELSE "absent", vers[h].run)
  BY TaskMoves, LifeRow DEF Doc!PublishVersion, Doc!At, Steps

LEMMA CreateRunEffect ==
  ASSUME Doc!TypeOK, NEW h \in Handlers, Doc!CreateRun(h)
  PROVE  /\ todo[h].at = "run" /\ UNCHANGED <<rec, sources, docs, overlap>>
         /\ \/ /\ Present(h) /\ Row(h, vers[h].life, "bare") /\ GoesTo(h, "chunk")
               /\ UNCHANGED <<files, trouble>>
            \/ Aborted(h) /\ UNCHANGED vers /\ files' = files \ {h}
<1>1. todo[h].at = "run" /\ UNCHANGED <<rec, sources, docs, overlap>>
  BY DEF Doc!CreateRun, Doc!At
<1>2. CASE Doc!Unregistered(h) /\ UNCHANGED vers
  BY <1>1, <1>2, RaiseMoves DEF Doc!Unregistered
<1>3. CASE /\ vers[h].life # "absent"
           /\ vers' = [vers EXCEPT ![h].run = "bare"]
           /\ Doc!Go(h, "chunk")
           /\ UNCHANGED <<files, trouble>>
  BY <1>1, <1>3, TaskMoves, RunRow DEF Steps, RunStates, Present
<1>4. QED
  BY <1>2, <1>3 DEF Doc!CreateRun

LEMMA StageEffect ==
  ASSUME Doc!TypeOK, NEW h \in Handlers, NEW from \in {"bare", "chunked"},
         NEW to \in {"chunked", "indexed"}, NEW next \in {"embed", "publish"},
         Doc!Stage(h, from, to, next)
  PROVE  /\ UNCHANGED <<rec, sources, docs, files, overlap>>
         /\ \/ /\ vers[h].run = from /\ Row(h, vers[h].life, to) /\ GoesTo(h, next)
               /\ UNCHANGED trouble
            \/ /\ Aborted(h)
               /\ \E run \in RunStates : /\ Row(h, vers[h].life, run)
                                         /\ run = "none" => vers[h].run = "none"
                                         /\ vers[h].run = "none" => run = "none"
<1>1. UNCHANGED <<rec, sources, docs, files, overlap>>
  BY DEF Doc!Stage
<1>2. CASE /\ vers[h].run = from
           /\ vers' = [vers EXCEPT ![h].run = to]
           /\ Doc!Go(h, next)
           /\ UNCHANGED trouble
  BY <1>1, <1>2, TaskMoves, RunRow DEF Steps, RunStates
<1>3. CASE /\ vers' = [vers EXCEPT ![h].run = IF @ = "none" THEN @ ELSE "failed"]
           /\ Doc!Raise(h)
  <2>1. PICK run \in {"none", "failed"} :
           run = IF vers[h].run = "none" THEN "none" ELSE "failed"
    OBVIOUS
  <2>2. vers' = [vers EXCEPT ![h].run = run]
    BY <1>3, <2>1 DEF Doc!TypeOK
  <2>3. Row(h, vers[h].life, run)
    BY <2>2, RunRow DEF RunStates
  <2>4. QED
    BY <1>1, <1>3, <2>1, <2>3, RaiseMoves DEF RunStates
<1>4. QED
  BY <1>2, <1>3 DEF Doc!Stage

\* The rows of the versions of set S have run, all else is as it was.
RunRows(S, run) ==
  /\ vers' \in [Handlers -> Doc!Version]
  /\ \A v \in Handlers :
       /\ vers'[v].doc = vers[v].doc /\ vers'[v].number = vers[v].number
       /\ vers'[v].text = vers[v].text /\ vers'[v].supersedes = vers[v].supersedes
       /\ vers'[v].life = vers[v].life
       /\ v \in S => vers'[v].run = run
       /\ v \notin S => vers'[v] = vers[v]

LEMMA RunRowsMoves ==
  ASSUME Doc!TypeOK, NEW S, NEW run \in RunStates,
         vers' = [v \in Handlers |-> IF v \in S THEN [vers[v] EXCEPT !.run = run] ELSE vers[v]]
  PROVE  RunRows(S, run)
<1>1. vers \in [Handlers -> Doc!Version]
  BY DEF Doc!TypeOK
<1>2. ASSUME NEW v \in Handlers
      PROVE  /\ vers'[v] \in Doc!Version
             /\ vers'[v].doc = vers[v].doc /\ vers'[v].number = vers[v].number
             /\ vers'[v].text = vers[v].text /\ vers'[v].supersedes = vers[v].supersedes
             /\ vers'[v].life = vers[v].life
             /\ v \in S => vers'[v].run = run
             /\ v \notin S => vers'[v] = vers[v]
  <2>1. PICK w \in Doc!Version : w = vers[v]
    BY <1>1
  <2>2. CASE v \in S
    <3>1. vers'[v] = [w EXCEPT !.run = run]
      BY <2>1, <2>2
    <3>2. QED
      BY <2>1, <2>2, <3>1 DEF Doc!Version, RunStates
  <2>3. CASE v \notin S
    BY <2>1, <2>3
  <2>4. QED
    BY <2>2, <2>3
<1>3. DOMAIN vers' = Handlers /\ vers' = [v \in Handlers |-> vers'[v]]
  OBVIOUS
<1>4. QED
  BY <1>2, <1>3 DEF RunRows

LEMMA PurgeEffect ==
  ASSUME Doc!TypeOK, NEW h \in Handlers, Doc!Purge(h)
  PROVE  /\ todo[h].at = "purge" /\ UNCHANGED <<rec, sources, docs, files, overlap, trouble>>
         /\ Moves(h) /\ Keeps(h) /\ todo'[h].at = "drop runs" /\ todo'[h].doc = todo[h].doc
         /\ todo'[h].seen = todo[h].seen
         /\ todo'[h].listed = {v \in todo[h].seen : vers[v].run # "none"}
         /\ RunRows(todo'[h].listed, "bare")
<1>1. todo[h].at = "purge" /\ UNCHANGED <<rec, sources, docs, files, overlap, trouble>>
  BY DEF Doc!Purge, Doc!At
<1> PICK t : t = todo[h]
  OBVIOUS
<1>2. t \in Doc!Task /\ todo \in [Handlers -> Doc!Task]
  BY DEF Doc!TypeOK
<1>3. PICK L : /\ L = {v \in t.seen : vers[v].run # "none"}
               /\ vers' = [v \in Handlers |->
                     IF v \in L THEN [vers[v] EXCEPT !.run = "bare"] ELSE vers[v]]
               /\ todo' = [todo EXCEPT ![h].at = "drop runs", ![h].listed = L]
  BY DEF Doc!Purge
<1>4. RunRows(L, "bare")
  BY <1>3, RunRowsMoves DEF RunStates
<1> DEFINE q == [t EXCEPT !.at = "drop runs", !.listed = L]
<1>5. todo' = [todo EXCEPT ![h] = q]
  BY <1>2, <1>3
<1>6. /\ q \in Doc!Task /\ q.at = "drop runs" /\ q.listed = L /\ q.text = t.text
      /\ q.doc = t.doc /\ q.latest = t.latest /\ q.number = t.number
      /\ q.superseded = t.superseded /\ q.seen = t.seen
  <2>1. L \in SUBSET Handlers
    BY <1>2, <1>3 DEF Doc!Task
  <2>2. QED
    BY <1>2, <2>1 DEF Doc!Task
<1> HIDE DEF q
<1>7. todo'[h] = q /\ Moves(h)
  BY <1>2, <1>5, <1>6 DEF Moves
<1>8. QED
  BY <1>1, <1>3, <1>4, <1>6, <1>7 DEF Keeps

LEMMA DropRunsEffect ==
  ASSUME Doc!TypeOK, NEW h \in Handlers, Doc!DropRuns(h)
  PROVE  /\ todo[h].at = "drop runs" /\ UNCHANGED <<rec, sources, docs, files, overlap>>
         /\ \/ Aborted(h) /\ UNCHANGED vers
            \/ /\ RunRows(todo[h].listed, "none") /\ GoesTo(h, "drop versions")
               /\ UNCHANGED trouble
<1>1. todo[h].at = "drop runs" /\ UNCHANGED <<rec, sources, docs, files, overlap>>
  BY DEF Doc!DropRuns, Doc!At
<1>2. CASE \E v \in todo[h].listed : vers[v].run \in {"chunked", "indexed"}
  BY <1>1, <1>2, RaiseMoves DEF Doc!DropRuns
<1>3. CASE ~ \E v \in todo[h].listed : vers[v].run \in {"chunked", "indexed"}
  <2>1. PICK L : L = todo[h].listed
    OBVIOUS
  <2>2. vers' = [v \in Handlers |-> IF v \in L THEN [vers[v] EXCEPT !.run = "none"] ELSE vers[v]]
    BY <1>3, <2>1 DEF Doc!DropRuns
  <2>3. RunRows(L, "none")
    BY <2>2, RunRowsMoves DEF RunStates
  <2>4. GoesTo(h, "drop versions") /\ UNCHANGED trouble
    BY <1>3, TaskMoves DEF Doc!DropRuns, Steps
  <2>5. QED
    BY <1>1, <2>1, <2>3, <2>4
<1>4. QED
  BY <1>2, <1>3

LEMMA DropVersionsEffect ==
  ASSUME Doc!TypeOK, NEW h \in Handlers, Doc!DropVersions(h)
  PROVE  /\ todo[h].at = "drop versions" /\ UNCHANGED <<rec, sources, docs, files, overlap>>
         /\ \/ Aborted(h) /\ UNCHANGED vers
            \/ /\ vers' \in [Handlers -> Doc!Version]
               /\ \A v \in Handlers :
                    vers'[v] = IF Present(v) /\ vers[v].doc = todo[h].doc
                               THEN Doc!NoVersion ELSE vers[v]
               /\ \A v \in Handlers : Present(v) /\ vers[v].doc = todo[h].doc
                                         => vers[v].run = "none"
               /\ GoesTo(h, "drop document") /\ UNCHANGED trouble
<1>1. todo[h].at = "drop versions" /\ UNCHANGED <<rec, sources, docs, files, overlap>>
  BY DEF Doc!DropVersions, Doc!At
<1>2. CASE \E v \in Doc!Versions(todo[h].doc) : vers[v].run # "none"
  BY <1>1, <1>2, RaiseMoves DEF Doc!DropVersions
<1>3. CASE ~ \E v \in Doc!Versions(todo[h].doc) : vers[v].run # "none"
  <2>1. PICK V : V = Doc!Versions(todo[h].doc)
    OBVIOUS
  <2>2. \A v \in Handlers : v \in V <=> Present(v) /\ vers[v].doc = todo[h].doc
    BY <2>1 DEF Doc!Versions, Present
  <2>3. vers' = [v \in Handlers |-> IF v \in V THEN Doc!NoVersion ELSE vers[v]]
    BY <1>3, <2>1 DEF Doc!DropVersions
  <2>4. Doc!NoVersion \in Doc!Version /\ vers \in [Handlers -> Doc!Version]
    BY DEF Doc!TypeOK, Doc!NoVersion, Doc!Version
  <2>5. GoesTo(h, "drop document") /\ UNCHANGED trouble
    BY <1>3, TaskMoves DEF Doc!DropVersions, Steps
  <2>6. \A v \in Handlers : v \in V => vers[v].run = "none"
    BY <1>3, <2>1
  <2>7. vers' \in [Handlers -> Doc!Version]
    BY <2>3, <2>4
  <2> HIDE DEF Doc!NoVersion
  <2>8. QED
    BY <1>1, <2>2, <2>3, <2>5, <2>6, <2>7
<1>4. QED
  BY <1>2, <1>3

LEMMA DropDocumentEffect ==
  ASSUME Doc!TypeOK, NEW h \in Handlers, Doc!DropDocument(h)
  PROVE  /\ todo[h].at = "drop document" /\ UNCHANGED <<rec, sources, vers, files, overlap>>
         /\ \/ Aborted(h) /\ UNCHANGED docs
            \/ GoesTo(h, "drop files") /\ docs' = docs \ {todo[h].doc} /\ UNCHANGED trouble
<1>1. CASE Doc!Versions(todo[h].doc) # {}
  BY <1>1, RaiseMoves DEF Doc!DropDocument, Doc!At
<1>2. CASE Doc!Versions(todo[h].doc) = {}
  BY <1>2, TaskMoves DEF Doc!DropDocument, Doc!At, Steps
<1>3. QED
  BY <1>1, <1>2

LEMMA DropFilesEffect ==
  ASSUME Doc!TypeOK, NEW h \in Handlers, Doc!DropFiles(h)
  PROVE  /\ todo[h].at = "drop files" /\ GoesTo(h, "done")
         /\ UNCHANGED <<rec, sources, docs, vers, overlap>>
         /\ \/ files' = files \ todo[h].seen /\ UNCHANGED trouble
            \/ trouble' /\ UNCHANGED files
  BY TaskMoves DEF Doc!DropFiles, Doc!At, Steps

\* The calls that only find the source, the document or its row.
LEMMA SourceEffect ==
  ASSUME Doc!TypeOK, NEW h \in Handlers, Doc!Source(h)
  PROVE  /\ todo[h].at = "source" /\ UNCHANGED <<Doc!Rows, overlap>>
         /\ \/ Aborted(h)
            \/ \E at \in {"new source", "find"} : GoesTo(h, at) /\ UNCHANGED trouble
<1>1. todo[h].at = "source" /\ UNCHANGED <<Doc!Rows, overlap>>
  BY DEF Doc!Source, Doc!At
<1>2. \/ Doc!Go(h, "new source") /\ UNCHANGED trouble
      \/ Doc!Go(h, "find") /\ UNCHANGED trouble
      \/ Doc!Raise(h)
  BY DEF Doc!Source
<1>3. QED
  BY <1>1, <1>2, TaskMoves, RaiseMoves DEF Steps

LEMMA NewSourceEffect ==
  ASSUME Doc!TypeOK, NEW h \in Handlers, Doc!NewSource(h)
  PROVE  /\ todo[h].at = "new source" /\ GoesTo(h, "find") /\ sources' = sources \cup {h}
         /\ UNCHANGED <<rec, docs, vers, files, overlap, trouble>>
  BY TaskMoves DEF Doc!NewSource, Doc!At, Steps

LEMMA StaleEffect ==
  ASSUME Doc!TypeOK, NEW h \in Handlers, Doc!Stale(h)
  PROVE  /\ todo[h].at = "stale" /\ UNCHANGED <<Doc!Rows, overlap>>
         /\ \/ Aborted(h)
            \/ GoesTo(h, "upload") /\ UNCHANGED trouble
  BY TaskMoves, RaiseMoves DEF Doc!Stale, Doc!At, Steps

LEMMA UploadEffect ==
  ASSUME Doc!TypeOK, NEW h \in Handlers, Doc!Upload(h)
  PROVE  /\ todo[h].at = "upload" /\ UNCHANGED <<rec, sources, docs, vers, overlap>>
         /\ \/ Aborted(h) /\ UNCHANGED files
            \/ GoesTo(h, "latest") /\ files' = files \cup {h} /\ UNCHANGED trouble
  BY TaskMoves, RaiseMoves DEF Doc!Upload, Doc!At, Steps

LEMMA CrashEffect ==
  ASSUME Doc!TypeOK, NEW h \in Handlers, Doc!Crash(h)
  PROVE  /\ todo[h].at \notin {"idle", "done"} /\ Aborted(h)
         /\ UNCHANGED <<Doc!Rows, overlap>>
  BY RaiseMoves DEF Doc!Crash, Doc!Busy

--------------------------------------------------------------------------------
(* Types *)

LEMMA DocTypeStep ==
  ASSUME Doc!TypeOK, NEW h \in Handlers, todo[h].at = "supersede" => todo[h].latest \in Handlers,
         Doc!Request(h) \/ Doc!Reread(h) \/ Doc!Sync(h) \/ Doc!Remove(h) \/ Doc!Crash(h)
  PROVE  Doc!TypeOK' /\ Moves(h)
<1> USE DEF Aborted, GoesTo, Moves, Doc!Rows
<1>1. CASE Doc!Request(h)
  <2>1. overlap' = (overlap \/ Doc!Busy # {})
    BY <1>1, RequestEffect
  <2>2. overlap' \in BOOLEAN
    BY <2>1, Zenon
  <2>3. QED
    BY <1>1, <2>2, RequestEffect DEF Doc!TypeOK
<1>2. CASE Doc!Reread(h)
  <2>1. trouble' \in BOOLEAN /\ Moves(h) /\ UNCHANGED <<Doc!Rows, overlap>>
    BY <1>2, RereadEffect DEF Doc!TypeOK
  <2>2. QED
    BY <2>1 DEF Doc!TypeOK
<1>3. CASE Doc!Source(h)
  BY <1>3, SourceEffect DEF Doc!TypeOK
<1>4. CASE Doc!NewSource(h)
  BY <1>4, NewSourceEffect DEF Doc!TypeOK
<1>5. CASE Doc!Find(h)
  BY <1>5, FindEffect DEF Doc!TypeOK
<1>6. CASE Doc!CreateDocument(h)
  BY <1>6, CreateDocumentEffect DEF Doc!TypeOK
<1>7. CASE Doc!Stale(h)
  BY <1>7, StaleEffect DEF Doc!TypeOK
<1>8. CASE Doc!Upload(h)
  BY <1>8, UploadEffect DEF Doc!TypeOK
<1>9. CASE Doc!Latest(h)
  BY <1>9, LatestEffect DEF Doc!TypeOK
<1>10. CASE Doc!Insert(h)
  BY <1>10, InsertEffect DEF Doc!TypeOK, NewRow
<1>11. CASE Doc!Supersede(h)
  BY <1>11, SupersedeEffect DEF Doc!TypeOK, Row, Doc!Supersede, Doc!At
<1>12. CASE Doc!CreateRun(h)
  BY <1>12, CreateRunEffect DEF Doc!TypeOK, Row
<1>13. CASE Doc!ChunkRun(h)
  BY <1>13, StageEffect DEF Doc!TypeOK, Row, Doc!ChunkRun
<1>14. CASE Doc!EmbedRun(h)
  BY <1>14, StageEffect DEF Doc!TypeOK, Row, Doc!EmbedRun
<1>15. CASE Doc!PublishVersion(h)
  BY <1>15, PublishEffect DEF Doc!TypeOK, Row
<1>16. CASE Doc!Marker(h)
  BY <1>16, MarkerEffect DEF Doc!TypeOK
<1>17. CASE Doc!Look(h)
  BY <1>17, LookEffect DEF Doc!TypeOK
<1>18. CASE Doc!Purge(h)
  BY <1>18, PurgeEffect DEF Doc!TypeOK, RunRows
<1>19. CASE Doc!DropRuns(h)
  BY <1>19, DropRunsEffect DEF Doc!TypeOK, RunRows
<1>20. CASE Doc!DropVersions(h)
  BY <1>20, DropVersionsEffect DEF Doc!TypeOK
<1>21. CASE Doc!DropDocument(h)
  BY <1>21, DropDocumentEffect DEF Doc!TypeOK
<1>22. CASE Doc!DropFiles(h)
  BY <1>22, DropFilesEffect DEF Doc!TypeOK
<1>23. CASE Doc!Crash(h)
  BY <1>23, CrashEffect DEF Doc!TypeOK
<1>24. QED
  BY <1>1, <1>2, <1>3, <1>4, <1>5, <1>6, <1>7, <1>8, <1>9, <1>10, <1>11, <1>12, <1>13,
     <1>14, <1>15, <1>16, <1>17, <1>18, <1>19, <1>20, <1>21, <1>22, <1>23
     DEF Doc!Sync, Doc!Remove

--------------------------------------------------------------------------------
(* The versions of the document never fork *)

\* A call that inserts and deletes no version: each keeps its place in the history.
SamePlaces ==
  \A v \in Handlers :
    /\ Present(v)' = Present(v)
    /\ vers'[v].doc = vers[v].doc /\ vers'[v].number = vers[v].number
    /\ vers'[v].supersedes = vers[v].supersedes
    /\ ~Present(v) => vers'[v].run = vers[v].run

\* Request h goes on, neither back nor to the insertion of a version.
GoesOn(h) ==
  /\ Moves(h)
  /\ todo[h].at \in Inserted => todo'[h].at \in Inserted
  /\ todo'[h].at \notin Inserted => todo'[h].latest = None
  /\ todo'[h].at \notin {"insert", "supersede"}

LEMMA HistoryKept ==
  ASSUME Doc!TypeOK, Histories, NEW h \in Handlers, SamePlaces, GoesOn(h)
  PROVE  Histories'
<1>1. VersionsOnce'
  BY DEF Histories, SamePlaces, GoesOn, VersionsOnce, Moves, Present
<1>2. NumbersUnique'
  BY DEF Histories, SamePlaces, NumbersUnique, Present
<1>3. \A w \in Handlers : \A d, n : Present(w) /\ Precedes(w, d, n) => Present(w)' /\ Precedes(w, d, n)'
  BY DEF SamePlaces, Precedes
<1>4. Chained'
  BY <1>3 DEF Histories, SamePlaces, Chained, Present, Precedes
<1>5. LatestRead'
  <2>1. ASSUME NEW g \in Handlers, todo'[g].at \notin Inserted \cup {"insert"}
        PROVE  todo'[g].latest = None
    BY <2>1 DEF Histories, GoesOn, Moves, LatestRead, Inserted
  <2>2. ASSUME NEW g \in Handlers, todo'[g].at = "insert", todo'[g].latest # None
        PROVE  \E w \in Handlers :
                /\ todo'[g].latest = w /\ todo'[w].at \in Inserted /\ todo'[g].number >= 2
                /\ Present(w)' => Precedes(w, todo[g].doc, todo[g].number)'
    <3>1. g # h /\ todo'[g] = todo[g]
      BY <2>2 DEF GoesOn, Moves
    <3>2. PICK w \in Handlers :
                /\ todo[g].latest = w /\ todo[w].at \in Inserted /\ todo[g].number >= 2
                /\ Present(w) => Precedes(w, todo[g].doc, todo[g].number)
      BY <2>2, <3>1 DEF Histories, LatestRead
    <3>3. todo'[w].at \in Inserted
      BY <3>2 DEF GoesOn, Moves
    <3>4. QED
      BY <3>1, <3>2, <3>3 DEF SamePlaces, Precedes, Present
  <2>3. ASSUME NEW g \in Handlers
        PROVE  /\ todo'[g].at = "supersede" => todo'[g].latest \in Handlers
               /\ todo'[g].at = "insert" /\ todo'[g].latest = None => todo'[g].number = 1
    BY DEF Histories, GoesOn, Moves, LatestRead
  <2>4. QED
    BY <2>1, <2>2, <2>3 DEF LatestRead, Precedes, Present
<1>6. QED
  BY <1>1, <1>2, <1>4, <1>5 DEF Histories

LEMMA LatestHistory ==
  ASSUME Doc!TypeOK, Histories, NEW h \in Handlers, Doc!Latest(h)
  PROVE  Histories'
<1>1. /\ todo[h].at = "latest" /\ vers' = vers /\ Moves(h) /\ todo'[h].at = "insert"
      /\ todo'[h].doc = todo[h].doc
  BY LatestEffect DEF Doc!Rows
<1>2. todo[h].latest = None
  BY <1>1 DEF Histories, LatestRead, Inserted
<1>3. VersionsOnce' /\ NumbersUnique' /\ Chained'
  BY <1>1 DEF Histories, VersionsOnce, NumbersUnique, Chained, Present, Precedes, Moves, Inserted
<1>4. todo'[h].latest = None => todo'[h].number = 1
  BY <1>2, LatestEffect, HandlersAssumption DEF LatestOf
<1>5. ASSUME todo'[h].latest # None
      PROVE  \E w \in Handlers :
                /\ todo'[h].latest = w /\ todo'[w].at \in Inserted /\ todo'[h].number >= 2
                /\ Present(w)' => Precedes(w, todo[h].doc, todo[h].number)'
  <2>1. PICK v \in Handlers : LatestOf(h, v)
    BY <1>2, <1>5, LatestEffect
  <2>2. todo[v].at \in Inserted /\ vers[v].number >= 1 /\ vers[v].number \in Nat
    BY <2>1 DEF LatestOf, Histories, VersionsOnce, Doc!TypeOK, Doc!Version
  <2>3. todo'[v].at \in Inserted
    BY <1>1, <2>2 DEF Moves, Inserted
  <2>4. QED
    BY <1>1, <2>1, <2>2, <2>3 DEF LatestOf, Present, Precedes
<1>6. LatestRead'
  BY <1>1, <1>4, <1>5 DEF Histories, LatestRead, Moves, Present, Precedes, Inserted
<1>7. QED
  BY <1>3, <1>6 DEF Histories

\* The new version takes the number after that of the version it was read to follow:
\* if that one is gone, or if another request took the number, it is refused.
LEMMA InsertHistory ==
  ASSUME Doc!TypeOK, Histories, NEW h \in Handlers, Doc!Insert(h)
  PROVE  Histories'
<1>1. todo[h].at = "insert"
  BY InsertEffect
<1>2. CASE Aborted(h) /\ UNCHANGED vers
  <2>1. SamePlaces /\ GoesOn(h)
    BY <1>1, <1>2 DEF SamePlaces, GoesOn, Aborted, GoesTo, Inserted, Present
  <2>2. QED
    BY <2>1, HistoryKept
<1>3. CASE /\ Doc!Insertable(h) /\ NewRow(h)
           /\ GoesTo(h, IF todo[h].latest = None \/ todo[h].superseded
                        THEN "run" ELSE "supersede")
  <2>1. /\ todo'[h].at \in Inserted /\ Moves(h) /\ ~Present(h)
        /\ todo'[h].latest = todo[h].latest
        /\ todo'[h].at = "supersede" => todo[h].latest # None
    BY <1>1, <1>3 DEF GoesTo, SameTask, Inserted, Histories, VersionsOnce
  <2>2. \A w \in Handlers \ {h} : Present(w)' = Present(w) /\ vers'[w] = vers[w]
    BY <1>3 DEF NewRow, Present
  <2>3. /\ vers'[h].doc = todo[h].doc /\ vers'[h].number = todo[h].number
        /\ vers'[h].supersedes = todo[h].latest /\ Present(h)'
    BY <1>3 DEF NewRow, Present
  <2>4. todo[h].doc \in Handlers /\ todo[h].number \in Nat
    BY <1>3 DEF Doc!Insertable, Doc!TypeOK, Doc!Task
  <2>5. \A v \in Handlers : Present(v) /\ vers[v].doc = todo[h].doc
                              => vers[v].number # todo[h].number
    BY <1>3 DEF Doc!Insertable, Doc!Versions, Present
  <2>6. IF todo[h].latest = None THEN todo[h].number = 1
        ELSE \E w \in Handlers \ {h} :
                /\ todo[h].latest = w /\ todo[h].number >= 2
                /\ Present(w) /\ Precedes(w, todo[h].doc, todo[h].number)
    <3>1. CASE todo[h].latest = None
      BY <1>1, <3>1 DEF Histories, LatestRead
    <3>2. CASE todo[h].latest # None
      <4>1. PICK w \in Handlers :
                /\ todo[h].latest = w /\ todo[h].number >= 2
                /\ Present(w) => Precedes(w, todo[h].doc, todo[h].number)
        BY <1>1, <3>2 DEF Histories, LatestRead
      <4>2. Present(w)
        BY <1>3, <3>2, <4>1 DEF Doc!Insertable, Present
      <4>3. QED
        BY <2>1, <3>2, <4>1, <4>2
    <3>3. QED
      BY <3>1, <3>2
  <2>7. VersionsOnce'
    <3>1. ASSUME NEW v \in Handlers, v # h
          PROVE  /\ Present(v)' => /\ todo'[v].at \in Inserted
                                   /\ vers'[v].doc \in Handlers
                                   /\ vers'[v].number >= 1
                 /\ ~Present(v)' => /\ vers'[v].doc = None /\ vers'[v].supersedes = None
                                    /\ vers'[v].run = "none"
      BY <2>1, <2>2, <3>1 DEF Histories, VersionsOnce, Moves
    <3>2. todo[h].number >= 1
      BY <2>4, <2>6
    <3>3. QED
      BY <2>1, <2>3, <2>4, <3>1, <3>2 DEF VersionsOnce, Present
  <2>8. NumbersUnique'
    BY <2>1, <2>2, <2>3, <2>5 DEF Histories, NumbersUnique, Present
  <2>9. Chained'
    <3>1. ASSUME NEW v \in Handlers \ {h}, Present(v)
          PROVE  IF vers'[v].number = 1 THEN vers'[v].supersedes = None
                 ELSE \E w \in Handlers :
                        /\ vers'[v].supersedes = w /\ Present(w)'
                        /\ vers'[w].doc = vers'[v].doc /\ vers'[w].number + 1 = vers'[v].number
      BY <2>1, <2>2, <3>1 DEF Histories, Chained, Precedes
    <3>2. IF vers'[h].number = 1 THEN vers'[h].supersedes = None
          ELSE \E w \in Handlers :
                 /\ vers'[h].supersedes = w /\ Present(w)'
                 /\ vers'[w].doc = vers'[h].doc /\ vers'[w].number + 1 = vers'[h].number
      BY <2>2, <2>3, <2>6 DEF Precedes
    <3>3. QED
      BY <2>2, <3>1, <3>2 DEF Chained, Precedes, Present
  <2>10. LatestRead'
    <3>1. ASSUME NEW g \in Handlers, todo'[g].at = "insert"
          PROVE  IF todo'[g].latest = None THEN todo'[g].number = 1
                 ELSE \E w \in Handlers :
                        /\ todo'[g].latest = w /\ todo'[w].at \in Inserted /\ todo'[g].number >= 2
                        /\ Present(w)' => Precedes(w, todo[g].doc, todo[g].number)'
      <4>1. g # h /\ todo'[g] = todo[g]
        BY <2>1, <3>1 DEF Moves, Inserted
      <4>2. CASE todo[g].latest = None
        BY <3>1, <4>1, <4>2 DEF Histories, LatestRead
      <4>3. CASE todo[g].latest # None
        <5>1. PICK w \in Handlers :
                /\ todo[g].latest = w /\ todo[w].at \in Inserted /\ todo[g].number >= 2
                /\ Present(w) => Precedes(w, todo[g].doc, todo[g].number)
          BY <3>1, <4>1, <4>3 DEF Histories, LatestRead
        <5>2. w # h /\ todo'[w].at \in Inserted
          BY <1>1, <2>1, <5>1 DEF Moves, Inserted
        <5>3. QED
          BY <2>2, <4>1, <4>3, <5>1, <5>2 DEF Precedes
      <4>4. QED
        BY <4>2, <4>3
    <3>2. ASSUME NEW g \in Handlers
          PROVE  /\ todo'[g].at \notin Inserted \cup {"insert"} => todo'[g].latest = None
                 /\ todo'[g].at = "supersede" => todo'[g].latest \in Handlers
      <4>1. CASE g # h
        BY <2>1, <4>1 DEF Moves, Histories, LatestRead
      <4>2. CASE g = h
        BY <2>1, <2>6, <4>2
      <4>3. QED
        BY <4>1, <4>2
    <3>3. QED
      BY <3>1, <3>2 DEF LatestRead, Present, Precedes
  <2>11. QED
    BY <2>7, <2>8, <2>9, <2>10 DEF Histories
<1>4. QED
  BY <1>2, <1>3, InsertEffect

\* All versions of a document go together, so no history loses a version in the middle.
LEMMA DropVersionsHistory ==
  ASSUME Doc!TypeOK, Histories, NEW h \in Handlers, Doc!DropVersions(h)
  PROVE  Histories'
<1>1. todo[h].at = "drop versions"
  BY DropVersionsEffect
<1>2. todo[h].latest = None
  BY <1>1 DEF Histories, LatestRead, Inserted
<1>3. CASE Aborted(h) /\ UNCHANGED vers
  <2>1. SamePlaces /\ GoesOn(h)
    BY <1>1, <1>3 DEF SamePlaces, GoesOn, Aborted, GoesTo, Inserted, Present
  <2>2. QED
    BY <2>1, HistoryKept
<1>4. CASE /\ \A v \in Handlers :
                vers'[v] = IF Present(v) /\ vers[v].doc = todo[h].doc
                           THEN Doc!NoVersion ELSE vers[v]
           /\ GoesTo(h, "drop document")
  <2>1. /\ Moves(h) /\ todo'[h].at = "drop document" /\ todo'[h].latest = None
    BY <1>2, <1>4 DEF GoesTo, SameTask
  <2>2. ASSUME NEW v \in Handlers
        PROVE  \/ Present(v)' /\ Present(v) /\ vers'[v] = vers[v] /\ vers[v].doc # todo[h].doc
               \/ /\ ~Present(v)' /\ vers'[v].doc = None /\ vers'[v].supersedes = None
                  /\ vers'[v].run = "none"
                  /\ Present(v) => vers[v].doc = todo[h].doc
    <3>1. CASE Present(v) /\ vers[v].doc = todo[h].doc
      <4>1. vers'[v] = Doc!NoVersion
        BY <1>4, <3>1
      <4>2. /\ Doc!NoVersion.life = "absent" /\ Doc!NoVersion.doc = None
            /\ Doc!NoVersion.supersedes = None /\ Doc!NoVersion.run = "none"
        BY DEF Doc!NoVersion
      <4>3. QED
        BY <3>1, <4>1, <4>2 DEF Present
    <3>2. CASE Present(v) /\ vers[v].doc # todo[h].doc
      BY <1>4, <3>2 DEF Present
    <3>3. CASE ~Present(v)
      BY <1>4, <3>3 DEF Present, Histories, VersionsOnce
    <3>4. QED
      BY <3>1, <3>2, <3>3
  <2>3. \A v \in Handlers : todo[v].at \in Inserted => todo'[v].at \in Inserted
    BY <1>1, <2>1 DEF Moves, Inserted
  <2>4. VersionsOnce'
    BY <2>2, <2>3 DEF Histories, VersionsOnce, Present
  <2>5. NumbersUnique'
    BY <2>2 DEF Histories, NumbersUnique, Present
  <2>6. Chained'
    BY <2>2 DEF Histories, Chained, Precedes, Present
  <2>7. LatestRead'
    <3>1. ASSUME NEW g \in Handlers
          PROVE  /\ todo'[g].at \notin Inserted \cup {"insert"} => todo'[g].latest = None
                 /\ todo'[g].at = "supersede" => todo'[g].latest \in Handlers
                 /\ todo'[g].at = "insert" => todo'[g] = todo[g]
      BY <2>1 DEF Moves, Histories, LatestRead
    <3>2. ASSUME NEW g \in Handlers, todo'[g].at = "insert", todo[g].latest # None
          PROVE  \E w \in Handlers :
                   /\ todo[g].latest = w /\ todo'[w].at \in Inserted /\ todo[g].number >= 2
                   /\ Present(w)' => vers'[w].doc = todo[g].doc /\ vers'[w].number + 1 = todo[g].number
      BY <2>2, <2>3, <3>1, <3>2 DEF Histories, LatestRead, Precedes
    <3>3. QED
      BY <3>1, <3>2 DEF Histories, LatestRead, Precedes, Present
  <2>8. QED
    BY <2>4, <2>5, <2>6, <2>7 DEF Histories
<1>5. QED
  BY <1>3, <1>4, DropVersionsEffect

LEMMA OtherHistory ==
  ASSUME Doc!TypeOK, Histories, NEW h \in Handlers,
         \/ Doc!Request(h) \/ Doc!Reread(h)
         \/ Doc!Source(h) \/ Doc!NewSource(h) \/ Doc!Find(h) \/ Doc!CreateDocument(h)
         \/ Doc!Stale(h) \/ Doc!Upload(h) \/ Doc!Supersede(h) \/ Doc!CreateRun(h)
         \/ Doc!ChunkRun(h) \/ Doc!EmbedRun(h) \/ Doc!PublishVersion(h)
         \/ Doc!Marker(h) \/ Doc!Look(h) \/ Doc!Purge(h) \/ Doc!DropRuns(h)
         \/ Doc!DropDocument(h) \/ Doc!DropFiles(h) \/ Doc!Crash(h)
  PROVE  SamePlaces /\ GoesOn(h)
<1>1. /\ todo[h].at \notin Inserted \cup {"insert"} => todo[h].latest = None
      /\ todo[h].at = "supersede" => todo[h].latest \in Handlers
      /\ \A v \in Handlers : ~Present(v) => vers[v].run = "none"
  BY DEF Histories, LatestRead, VersionsOnce
<1>2. UNCHANGED vers => SamePlaces
  BY DEF SamePlaces, Present
<1>3. \A v \in Handlers : \A run : Row(v, vers[v].life, run) /\ (Present(v) \/ run = vers[v].run)
                                      => SamePlaces
  BY DEF Row, SamePlaces, Present
<1>4. \A v \in Handlers : \A life \in {"published", "superseded"} :
         Row(v, IF Present(v) THEN life ELSE "absent", vers[v].run) => SamePlaces
  BY DEF Row, SamePlaces, Present
<1>5. todo[h].at \in Inserted /\ Aborted(h) => GoesOn(h)
  BY DEF Aborted, GoesTo, GoesOn, Inserted
<1>6. todo[h].at \notin Inserted /\ Aborted(h) => GoesOn(h)
  BY DEF Aborted, GoesTo, GoesOn, Inserted
<1>7. ASSUME NEW at, GoesTo(h, at), at \notin {"insert", "supersede"},
             IF todo[h].at \in Inserted THEN at \in Inserted ELSE todo[h].at # "insert"
      PROVE  GoesOn(h)
  BY <1>1, <1>7 DEF GoesTo, SameTask, GoesOn
<1>8. CASE Doc!Request(h)
  BY <1>2, <1>8, RequestEffect DEF GoesOn, Starts, Inserted
<1>9. CASE Doc!Reread(h)
  BY <1>1, <1>2, <1>5, <1>6, <1>9, RereadEffect DEF GoesOn, Inserted, Doc!Rows
<1>10. CASE Doc!Source(h)
  BY <1>2, <1>6, <1>7, <1>10, SourceEffect DEF Inserted, Doc!Rows
<1>11. CASE Doc!NewSource(h)
  BY <1>2, <1>7, <1>11, NewSourceEffect DEF Inserted
<1>12. CASE Doc!Find(h)
  BY <1>1, <1>2, <1>12, FindEffect DEF Inserted, Doc!Rows, GoesOn, Keeps
<1>13. CASE Doc!CreateDocument(h)
  BY <1>1, <1>2, <1>13, CreateDocumentEffect DEF Inserted, GoesOn, Keeps
<1>14. CASE Doc!Stale(h)
  BY <1>2, <1>6, <1>7, <1>14, StaleEffect DEF Inserted, Doc!Rows
<1>15. CASE Doc!Upload(h)
  BY <1>2, <1>6, <1>7, <1>15, UploadEffect DEF Inserted
<1>16. CASE Doc!Supersede(h)
  <2>1. todo[h].latest \in Handlers
    BY <1>1, <1>16 DEF Doc!Supersede, Doc!At
  <2>2. SamePlaces
    BY <1>4, <1>16, <2>1, SupersedeEffect
  <2>3. QED
    BY <1>7, <1>16, <2>1, <2>2, SupersedeEffect DEF Inserted
<1>17. CASE Doc!CreateRun(h)
  BY <1>2, <1>3, <1>5, <1>7, <1>17, CreateRunEffect DEF Inserted
<1>18. ASSUME NEW from \in {"bare", "chunked"},
              NEW to \in {"chunked", "indexed"}, NEW next \in {"embed", "publish"},
              Doc!Stage(h, from, to, next), todo[h].at \in {"chunk", "embed"}
       PROVE  SamePlaces /\ GoesOn(h)
  <2>1. CASE vers[h].run = from /\ Row(h, vers[h].life, to) /\ GoesTo(h, next)
    <3>1. Present(h)
      BY <1>1, <2>1
    <3>2. QED
      BY <1>3, <1>7, <1>18, <2>1, <3>1 DEF Inserted
  <2>2. ASSUME NEW run \in RunStates, Row(h, vers[h].life, run), Aborted(h),
               vers[h].run = "none" => run = "none"
        PROVE  SamePlaces /\ GoesOn(h)
    BY <1>1, <1>3, <1>5, <1>18, <2>2 DEF Inserted
  <2>3. QED
    BY <1>18, <2>1, <2>2, StageEffect
<1>19. CASE Doc!ChunkRun(h)
  BY <1>18, <1>19 DEF Doc!ChunkRun, Doc!At
<1>20. CASE Doc!EmbedRun(h)
  BY <1>18, <1>20 DEF Doc!EmbedRun, Doc!At
<1>21. CASE Doc!PublishVersion(h)
  BY <1>4, <1>7, <1>21, PublishEffect DEF Inserted
<1>22. CASE Doc!Marker(h)
  BY <1>1, <1>2, <1>22, MarkerEffect DEF Inserted, Doc!Rows, GoesOn, Keeps
<1>23. CASE Doc!Look(h)
  BY <1>1, <1>2, <1>6, <1>23, LookEffect, ZenonT(40) DEF Inserted, Doc!Rows, GoesOn, Keeps
<1>24. CASE Doc!Purge(h)
  <2>1. SamePlaces
    BY <1>1, <1>24, PurgeEffect DEF RunRows, SamePlaces, Present
  <2>2. QED
    BY <1>1, <1>24, <2>1, PurgeEffect DEF Inserted, GoesOn, Keeps
<1>25. CASE Doc!DropRuns(h)
  <2>1. RunRows(todo[h].listed, "none") => SamePlaces
    BY <1>1 DEF RunRows, SamePlaces, Present
  <2>2. QED
    BY <1>2, <1>6, <1>7, <1>25, <2>1, DropRunsEffect DEF Inserted
<1>26. CASE Doc!DropDocument(h)
  BY <1>2, <1>6, <1>7, <1>26, DropDocumentEffect DEF Inserted
<1>27. CASE Doc!DropFiles(h)
  BY <1>2, <1>7, <1>27, DropFilesEffect DEF Inserted
<1>28. CASE Doc!Crash(h)
  BY <1>2, <1>5, <1>6, <1>28, CrashEffect DEF Doc!Rows
<1>29. QED
  BY <1>8, <1>9, <1>10, <1>11, <1>12, <1>13, <1>14, <1>15, <1>16, <1>17, <1>19, <1>20,
     <1>21, <1>22, <1>23, <1>24, <1>25, <1>26, <1>27, <1>28

LEMMA HistoryStep ==
  ASSUME Doc!TypeOK, Histories, [Doc!Next]_Doc!vars
  PROVE  Doc!TypeOK' /\ Histories'
<1>1. CASE UNCHANGED Doc!vars
  BY <1>1 DEF Doc!vars, Doc!TypeOK, Histories, VersionsOnce, NumbersUnique, Chained,
              LatestRead, Present, Precedes
<1>2. ASSUME NEW h \in Handlers,
             Doc!Request(h) \/ Doc!Reread(h) \/ Doc!Sync(h) \/ Doc!Remove(h) \/ Doc!Crash(h)
      PROVE  Doc!TypeOK' /\ Histories'
  <2>1. Doc!TypeOK'
    BY <1>2, DocTypeStep DEF Histories, LatestRead
  <2>2. Histories'
    BY <1>2, OtherHistory, HistoryKept, LatestHistory, InsertHistory, DropVersionsHistory
       DEF Doc!Sync, Doc!Remove
  <2>3. QED
    BY <2>1, <2>2
<1>3. QED
  BY <1>1, <1>2 DEF Doc!Next

LEMMA HistoryInit ==
  ASSUME Doc!Init
  PROVE  Doc!TypeOK /\ Histories
<1>1. \A v \in Handlers : vers[v] = Doc!NoVersion /\ todo[v] = Doc!Idle
  BY DEF Doc!Init
<1>2. /\ Doc!NoVersion.life = "absent" /\ Doc!NoVersion.doc = None
      /\ Doc!NoVersion.supersedes = None /\ Doc!NoVersion.run = "none"
      /\ Doc!Idle.at = "idle" /\ Doc!Idle.latest = None
  BY DEF Doc!NoVersion, Doc!Idle
<1>3. Doc!TypeOK
  BY DEF Doc!Init, Doc!TypeOK, Doc!NoVersion, Doc!Idle, Doc!Record, Doc!Version, Doc!Task
<1>4. Histories
  BY <1>1, <1>2 DEF Histories, VersionsOnce, NumbersUnique, Chained, LatestRead, Present,
                    Inserted
<1>5. QED
  BY <1>3, <1>4

\* At most the latest version is missing between the one read and the one inserted,
\* and the unique key refuses a second version with its number.
LEMMA HistoryIsLinear ==
  ASSUME Doc!TypeOK, Histories
  PROVE  LinearHistory
<1>1. ASSUME NEW v \in Handlers, NEW w \in Handlers, Present(v),
             vers[v].doc = vers[w].doc, vers[v].number = vers[w].number + 1
      PROVE  vers[v].supersedes = w
  <2>1. Present(w) /\ vers[w].number >= 1 /\ vers[w].number \in Nat
    <3>1. vers[v].doc \in Handlers
      BY <1>1 DEF Histories, VersionsOnce
    <3>2. Present(w)
      BY <1>1, <3>1, HandlersAssumption DEF Histories, VersionsOnce
    <3>3. QED
      BY <3>2 DEF Histories, VersionsOnce, Doc!TypeOK, Doc!Version
  <2>2. PICK u \in Handlers : /\ vers[v].supersedes = u /\ Present(u)
                              /\ Precedes(u, vers[v].doc, vers[v].number)
    BY <1>1, <2>1 DEF Histories, Chained
  <2>3. vers[u].number = vers[w].number
    BY <1>1, <2>1, <2>2 DEF Precedes, Doc!TypeOK, Doc!Version
  <2>4. u = w
    BY <1>1, <2>1, <2>2, <2>3 DEF Histories, NumbersUnique, Precedes
  <2>5. QED
    BY <2>2, <2>4
<1>2. ASSUME NEW v \in Handlers, NEW w \in Handlers, vers[v].supersedes = w
      PROVE  /\ Present(v) /\ Present(w)
             /\ vers[w].doc = vers[v].doc /\ vers[v].number = vers[w].number + 1
  <2>1. w # None
    BY HandlersAssumption
  <2>2. Present(v)
    BY <1>2, <2>1 DEF Histories, VersionsOnce
  <2>3. QED
    BY <1>2, <2>1, <2>2 DEF Histories, Chained, Precedes
<1>3. ASSUME NEW v \in Handlers, NEW w \in Handlers, vers[v].supersedes # None,
             vers[v].supersedes = vers[w].supersedes
      PROVE  v = w
  <2>1. PICK u \in Handlers : vers[v].supersedes = u
    BY <1>3 DEF Doc!TypeOK, Doc!Version
  <2>2. /\ Present(v) /\ Present(w)
        /\ vers[v].doc = vers[w].doc /\ vers[v].number = vers[w].number
    BY <1>2, <1>3, <2>1
  <2>3. QED
    BY <2>2 DEF Histories, NumbersUnique
<1>4. QED
  BY <1>1, <1>2, <1>3 DEF LinearHistory, Doc!LinearHistory, Present

\* The versions of the document are numbered, unique and chained in every state.
THEOREM DocHistoryInvariance == Doc!Spec => [](Doc!TypeOK /\ Histories)
<1>1. Doc!Init => Doc!TypeOK /\ Histories
  BY HistoryInit
<1>2. Doc!TypeOK /\ Histories /\ [Doc!Next]_Doc!vars => (Doc!TypeOK /\ Histories)'
  BY HistoryStep
<1>3. QED
  BY <1>1, <1>2, PTL DEF Doc!Spec

\* Concurrent registrations never fork the history of a document.
THEOREM HistoryNeverForks == Doc!Spec => []LinearHistory
<1>1. Doc!TypeOK /\ Histories => LinearHistory
  BY HistoryIsLinear
<1>2. QED
  BY <1>1, DocHistoryInvariance, PTL

--------------------------------------------------------------------------------
(* Every stored file is accounted for *)

\* A deletion that request h carries on with works on what it saw.
CarriesOn(h) ==
  todo'[h].at \in Removing =>
    /\ todo[h].at \in Removing /\ todo'[h].doc = todo[h].doc /\ todo'[h].seen = todo[h].seen
    /\ todo'[h].at \in {"drop document", "drop files"} =>
         todo[h].at \in {"drop document", "drop files"}
    /\ todo'[h].at = "drop runs" => todo'[h].listed \subseteq todo[h].seen

LEMMA DeletionsKept ==
  ASSUME DeletionsOK, NEW h \in Handlers, Moves(h), SamePlaces, CarriesOn(h),
         todo[h].at \in Inserted => todo'[h].at \in Inserted,
         \A g \in Handlers : todo[g].seen \subseteq Handlers
  PROVE  DeletionsOK'
<1>1. ASSUME NEW g \in Handlers, todo'[g].at \in Removing
      PROVE  /\ \A v \in todo'[g].seen :
                  /\ todo'[v].at \in Inserted
                  /\ Present(v)' => vers'[v].doc = todo'[g].doc
                  /\ todo'[g].at \in {"drop document", "drop files"} => ~Present(v)'
             /\ todo'[g].at = "drop runs" => todo'[g].listed \subseteq todo'[g].seen
  <2>1. /\ todo[g].at \in Removing /\ todo'[g].doc = todo[g].doc /\ todo'[g].seen = todo[g].seen
        /\ todo'[g].at \in {"drop document", "drop files"} =>
             todo[g].at \in {"drop document", "drop files"}
        /\ todo'[g].at = "drop runs" => todo'[g].listed \subseteq todo[g].seen
    BY <1>1 DEF CarriesOn, Moves, DeletionsOK
  <2>2. ASSUME NEW v \in todo[g].seen
        PROVE  /\ todo'[v].at \in Inserted
               /\ Present(v)' => vers'[v].doc = todo'[g].doc
               /\ todo'[g].at \in {"drop document", "drop files"} => ~Present(v)'
    <3>1. v \in Handlers /\ todo[v].at \in Inserted
      BY <2>1, <2>2 DEF DeletionsOK
    <3>2. todo'[v].at \in Inserted
      BY <3>1 DEF Moves
    <3>3. Present(v)' = Present(v) /\ vers'[v].doc = vers[v].doc
      BY <3>1 DEF SamePlaces
    <3>4. QED
      BY <2>1, <2>2, <3>2, <3>3 DEF DeletionsOK
  <2>3. QED
    BY <2>1, <2>2
<1>2. QED
  BY <1>1 DEF DeletionsOK, Removing, Present

LEMMA DeletionsStep ==
  ASSUME Doc!TypeOK, Histories, DeletionsOK, NEW h \in Handlers,
         Doc!Request(h) \/ Doc!Reread(h) \/ Doc!Sync(h) \/ Doc!Remove(h) \/ Doc!Crash(h)
  PROVE  DeletionsOK'
<1>1. /\ \A g \in Handlers : todo[g].seen \subseteq Handlers
      /\ \A v \in Handlers : Present(v) => todo[v].at \in Inserted
  BY DEF Doc!TypeOK, Doc!Task, Histories, VersionsOnce
<1>2. CASE /\ Moves(h) /\ SamePlaces /\ CarriesOn(h)
           /\ todo[h].at \in Inserted => todo'[h].at \in Inserted
  BY <1>1, <1>2, DeletionsKept
<1>3. \A at : GoesTo(h, at) /\ at \notin Removing => CarriesOn(h) /\ Moves(h)
  BY DEF GoesTo, CarriesOn
<1>4. Aborted(h) => CarriesOn(h)
  BY <1>3 DEF Aborted, Removing
<1>5. CASE \/ Doc!Request(h) \/ Doc!Reread(h)
           \/ Doc!Source(h) \/ Doc!NewSource(h) \/ Doc!Find(h) \/ Doc!CreateDocument(h)
           \/ Doc!Stale(h) \/ Doc!Upload(h) \/ Doc!Supersede(h) \/ Doc!CreateRun(h)
           \/ Doc!ChunkRun(h) \/ Doc!EmbedRun(h) \/ Doc!PublishVersion(h)
           \/ Doc!Marker(h) \/ Doc!Purge(h) \/ Doc!DropRuns(h)
           \/ Doc!DropDocument(h) \/ Doc!DropFiles(h) \/ Doc!Crash(h)
  <2>1. SamePlaces /\ GoesOn(h)
    BY <1>5, OtherHistory
  <2>2. CarriesOn(h)
    <3>1. CASE Doc!Request(h)
      BY <3>1, RequestEffect DEF CarriesOn, Starts, Removing
    <3>2. CASE Doc!Reread(h)
      BY <1>4, <3>2, RereadEffect DEF CarriesOn, Removing
    <3>3. CASE Doc!Source(h)
      BY <1>3, <1>4, <3>3, SourceEffect DEF Removing
    <3>4. CASE Doc!NewSource(h)
      BY <1>3, <3>4, NewSourceEffect DEF Removing
    <3>5. CASE Doc!Find(h)
      BY <3>5, FindEffect DEF CarriesOn, Removing
    <3>6. CASE Doc!CreateDocument(h)
      BY <3>6, CreateDocumentEffect DEF CarriesOn, Removing
    <3>7. CASE Doc!Stale(h)
      BY <1>3, <1>4, <3>7, StaleEffect DEF Removing
    <3>8. CASE Doc!Upload(h)
      BY <1>3, <1>4, <3>8, UploadEffect DEF Removing
    <3>9. CASE Doc!Supersede(h)
      <4>1. todo[h].latest \in Handlers
        BY <3>9 DEF Doc!Supersede, Doc!At, Histories, LatestRead
      <4>2. QED
        BY <1>3, <3>9, <4>1, SupersedeEffect DEF Removing
    <3>10. CASE Doc!CreateRun(h)
      BY <1>3, <1>4, <3>10, CreateRunEffect DEF Removing
    <3>11. CASE Doc!ChunkRun(h)
      BY <1>3, <1>4, <3>11, StageEffect DEF Doc!ChunkRun, Removing
    <3>12. CASE Doc!EmbedRun(h)
      BY <1>3, <1>4, <3>12, StageEffect DEF Doc!EmbedRun, Removing
    <3>13. CASE Doc!PublishVersion(h)
      BY <1>3, <3>13, PublishEffect DEF Removing
    <3>14. CASE Doc!Marker(h)
      BY <3>14, MarkerEffect DEF CarriesOn, Removing
    <3>15. CASE Doc!Purge(h)
      BY <3>15, PurgeEffect DEF CarriesOn, Removing
    <3>16. CASE Doc!DropRuns(h)
      BY <1>4, <3>16, DropRunsEffect DEF CarriesOn, Removing, GoesTo, SameTask
    <3>17. CASE Doc!DropDocument(h)
      BY <1>4, <3>17, DropDocumentEffect DEF CarriesOn, Removing, GoesTo, SameTask
    <3>18. CASE Doc!DropFiles(h)
      BY <1>3, <3>18, DropFilesEffect DEF Removing
    <3>19. CASE Doc!Crash(h)
      BY <1>4, <3>19, CrashEffect
    <3>20. QED
      BY <1>5, <3>1, <3>2, <3>3, <3>4, <3>5, <3>6, <3>7, <3>8, <3>9, <3>10, <3>11, <3>12,
         <3>13, <3>14, <3>15, <3>16, <3>17, <3>18, <3>19
  <2>3. QED
    BY <1>2, <2>1, <2>2 DEF GoesOn
<1>6. CASE Doc!Latest(h)
  <2>1. /\ UNCHANGED vers /\ Moves(h) /\ todo'[h].at = "insert" /\ todo[h].at = "latest"
    BY <1>6, LatestEffect DEF Doc!Rows
  <2>2. QED
    BY <1>2, <2>1 DEF SamePlaces, Present, CarriesOn, Removing, Inserted
<1>7. CASE Doc!Look(h)
  <2>1. CASE Aborted(h)
    <3>1. UNCHANGED vers /\ todo[h].at = "look"
      BY <1>7, LookEffect DEF Doc!Rows
    <3>2. QED
      BY <1>2, <1>4, <2>1, <3>1 DEF SamePlaces, Present, Inserted, Aborted, GoesTo
  <2>2. CASE ~Aborted(h)
    <3>1. /\ UNCHANGED vers /\ todo[h].at = "look" /\ Moves(h) /\ todo'[h].at = "purge"
          /\ todo'[h].doc = todo[h].doc /\ todo'[h].seen = Doc!Versions(todo[h].doc)
      BY <1>7, <2>2, LookEffect DEF Doc!Rows
    <3>2. \A v \in todo'[h].seen : /\ v \in Handlers /\ Present(v)
                                   /\ vers[v].doc = todo[h].doc
      BY <3>1 DEF Doc!Versions, Present
    <3>3. \A v \in Handlers : todo[v].at \in Inserted => todo'[v].at \in Inserted
      BY <3>1 DEF Moves, Inserted
    <3>4. ASSUME NEW g \in Handlers, g # h, todo'[g].at \in Removing
          PROVE  /\ \A v \in todo'[g].seen :
                      /\ todo'[v].at \in Inserted
                      /\ Present(v)' => vers'[v].doc = todo'[g].doc
                      /\ todo'[g].at \in {"drop document", "drop files"} => ~Present(v)'
                 /\ todo'[g].at = "drop runs" => todo'[g].listed \subseteq todo'[g].seen
      BY <1>1, <3>1, <3>3, <3>4 DEF DeletionsOK, Moves, Present
    <3>5. QED
      BY <1>1, <3>1, <3>2, <3>3, <3>4 DEF DeletionsOK, Present, Removing
  <2>3. QED
    BY <2>1, <2>2
<1>8. CASE Doc!Insert(h)
  <2>1. /\ Moves(h) /\ todo'[h].at \in Inserted /\ todo[h].at = "insert"
        /\ \A v \in Handlers \ {h} : vers'[v] = vers[v]
    BY <1>8, InsertEffect DEF Aborted, GoesTo, Inserted, NewRow
  <2>2. ASSUME NEW g \in Handlers, todo'[g].at \in Removing
        PROVE  /\ \A v \in todo'[g].seen :
                    /\ todo'[v].at \in Inserted
                    /\ Present(v)' => vers'[v].doc = todo'[g].doc
                    /\ todo'[g].at \in {"drop document", "drop files"} => ~Present(v)'
               /\ todo'[g].at = "drop runs" => todo'[g].listed \subseteq todo'[g].seen
    <3>1. g # h /\ todo'[g] = todo[g]
      BY <2>1, <2>2 DEF Moves, Inserted, Removing
    <3>2. \A v \in todo[g].seen : v # h /\ v \in Handlers /\ todo'[v] = todo[v]
      BY <1>1, <2>1, <2>2, <3>1 DEF DeletionsOK, Inserted, Moves
    <3>3. /\ todo[g].at \in Removing
          /\ todo[g].at = "drop runs" => todo[g].listed \subseteq todo[g].seen
      BY <2>2, <3>1 DEF DeletionsOK
    <3>4. ASSUME NEW v \in todo[g].seen
          PROVE  /\ todo'[v].at \in Inserted
                 /\ Present(v)' => vers'[v].doc = todo[g].doc
                 /\ todo[g].at \in {"drop document", "drop files"} => ~Present(v)'
      <4>1. /\ todo[v].at \in Inserted
            /\ Present(v) => vers[v].doc = todo[g].doc
            /\ todo[g].at \in {"drop document", "drop files"} => ~Present(v)
        BY <3>3 DEF DeletionsOK
      <4>2. vers'[v] = vers[v] /\ todo'[v] = todo[v]
        BY <2>1, <3>2
      <4>3. QED
        BY <4>1, <4>2 DEF Present
    <3>5. QED
      BY <3>1, <3>3, <3>4
  <2>3. QED
    BY <2>2 DEF DeletionsOK, Present, Removing
<1>9. CASE Doc!DropVersions(h)
  <2>1. todo[h].at = "drop versions"
    BY <1>9, DropVersionsEffect
  <2>2. CASE Aborted(h) /\ UNCHANGED vers
    BY <1>2, <1>4, <2>1, <2>2 DEF SamePlaces, Present, Inserted, Aborted, GoesTo
  <2>3. CASE /\ \A v \in Handlers :
                  vers'[v] = IF Present(v) /\ vers[v].doc = todo[h].doc
                             THEN Doc!NoVersion ELSE vers[v]
             /\ GoesTo(h, "drop document")
    <3>1. \A v \in Handlers : Present(v)' => /\ Present(v) /\ vers'[v] = vers[v]
                                             /\ vers[v].doc # todo[h].doc
      <4>1. Doc!NoVersion.life = "absent"
        BY DEF Doc!NoVersion
      <4>2. QED
        BY <2>3, <4>1 DEF Present
    <3>2. \A v \in Handlers : todo[v].at \in Inserted => todo'[v].at \in Inserted
      BY <2>1, <2>3 DEF GoesTo, Moves, Inserted
    <3>3. ASSUME NEW g \in Handlers, todo'[g].at \in Removing
          PROVE  /\ todo[g].at \in Removing /\ todo'[g].doc = todo[g].doc
                 /\ todo'[g].seen = todo[g].seen /\ todo'[g].listed = todo[g].listed
                 /\ g # h => todo'[g].at = todo[g].at
      BY <2>1, <2>3, <3>3 DEF GoesTo, SameTask, Moves, Removing
    <3>4. ASSUME NEW g \in Handlers, todo'[g].at \in Removing, NEW v \in todo[g].seen
          PROVE  /\ todo'[v].at \in Inserted
                 /\ Present(v)' => vers'[v].doc = todo'[g].doc
                 /\ todo'[g].at \in {"drop document", "drop files"} => ~Present(v)'
      <4>1. /\ v \in Handlers /\ todo[v].at \in Inserted
            /\ Present(v) => vers[v].doc = todo[g].doc
            /\ todo[g].at \in {"drop document", "drop files"} => ~Present(v)
        BY <1>1, <3>3, <3>4 DEF DeletionsOK
      <4>2. QED
        BY <3>1, <3>2, <3>3, <3>4, <4>1
    <3>5. todo'[h].at # "drop runs"
      BY <2>3 DEF GoesTo
    <3>6. QED
      BY <3>3, <3>4, <3>5 DEF DeletionsOK, Present, Removing
  <2>4. QED
    BY <1>9, <2>2, <2>3, DropVersionsEffect
<1>10. QED
  BY <1>5, <1>6, <1>7, <1>8, <1>9 DEF Doc!Sync, Doc!Remove

\* Request h goes on with what it registers or deletes.
Owes(h) ==
  /\ todo[h].at \in {"latest", "insert", "supersede", "run"} =>
       todo'[h].at \in {"latest", "insert", "supersede", "run"}
  /\ todo[h].at \in {"supersede", "run"} => todo'[h].at \in {"supersede", "run"}
  /\ todo[h].at \in Removing => todo'[h].at \in Removing /\ todo'[h].seen = todo[h].seen

LEMMA DoomedKept ==
  ASSUME NEW h \in Handlers, Moves(h), NEW v, Doomed(v),
         todo[h].at \in Removing => todo'[h].at \in Removing /\ todo'[h].seen = todo[h].seen
  PROVE  Doomed(v)'
<1>1. PICK g \in Handlers : todo[g].at \in Removing /\ v \in todo[g].seen
  BY DEF Doomed
<1>2. todo'[g].at \in Removing /\ v \in todo'[g].seen
  BY <1>1 DEF Moves
<1>3. QED
  BY <1>2 DEF Doomed, Removing

LEMMA OwedKept ==
  ASSUME FilesOwed, NEW h \in Handlers, Moves(h), SamePlaces, Owes(h), UNCHANGED <<files, trouble>>,
         \A v \in Handlers : vers'[v].run = "none" => vers[v].run = "none" \/ Doomed(v)
  PROVE  FilesOwed'
<1>1. \A v \in Handlers : Doomed(v) => Doomed(v)'
  BY DoomedKept DEF Owes
<1> HIDE DEF Doomed
<1>2. ASSUME ~trouble, NEW v \in Handlers
      PROVE  /\ v \in files' /\ ~Present(v)' =>
                  todo'[v].at \in {"latest", "insert", "supersede", "run"} \/ Doomed(v)'
             /\ Present(v)' /\ vers'[v].run = "none" =>
                  todo'[v].at \in {"supersede", "run"} \/ Doomed(v)'
  <2>1. Present(v)' = Present(v)
    BY DEF SamePlaces
  <2>2. /\ todo[v].at \in {"latest", "insert", "supersede", "run"} =>
             todo'[v].at \in {"latest", "insert", "supersede", "run"}
        /\ todo[v].at \in {"supersede", "run"} => todo'[v].at \in {"supersede", "run"}
    BY DEF Owes, Moves
  <2>3. QED
    BY <1>1, <1>2, <2>1, <2>2 DEF FilesOwed
<1>3. QED
  BY <1>2, Zenon DEF FilesOwed

LEMMA OwedStep ==
  ASSUME Doc!TypeOK, Histories, DeletionsOK, FilesOwed, NEW h \in Handlers,
         Doc!Request(h) \/ Doc!Reread(h) \/ Doc!Sync(h) \/ Doc!Remove(h) \/ Doc!Crash(h)
  PROVE  FilesOwed'
<1>1. trouble' => FilesOwed'
  BY DEF FilesOwed
<1>2. Aborted(h) => FilesOwed'
  BY <1>1 DEF Aborted
<1>3. /\ \A v \in Handlers : Present(v) => todo[v].at \in Inserted
      /\ \A v \in Handlers : ~Present(v) => vers[v].run = "none"
      /\ \A g \in Handlers : todo[g].seen \subseteq Handlers
  BY DEF Doc!TypeOK, Doc!Task, Histories, VersionsOnce
<1>4. ASSUME UNCHANGED <<vers, files, trouble>>, Moves(h), Owes(h)
      PROVE  FilesOwed'
  BY <1>4, OwedKept DEF SamePlaces, Present
<1>5. CASE Doc!Request(h)
  <2>1. /\ UNCHANGED <<vers, files, trouble>> /\ Moves(h) /\ Owes(h)
    BY <1>5, RequestEffect DEF Owes, Removing
  <2>2. QED
    BY <1>4, <2>1
<1>6. CASE \/ Doc!Reread(h) \/ Doc!Source(h) \/ Doc!NewSource(h) \/ Doc!Find(h)
           \/ Doc!CreateDocument(h) \/ Doc!Stale(h) \/ Doc!Latest(h) \/ Doc!Marker(h)
           \/ Doc!Look(h) \/ Doc!DropDocument(h) \/ Doc!Crash(h)
  <2>1. Doc!Reread(h) => Aborted(h) \/ (UNCHANGED <<vers, files, trouble>> /\ Moves(h) /\ Owes(h))
    BY RereadEffect DEF Owes, Removing, Doc!Rows
  <2>2. Doc!Source(h) => Aborted(h) \/ (UNCHANGED <<vers, files, trouble>> /\ Moves(h) /\ Owes(h))
    BY SourceEffect DEF Owes, Removing, Doc!Rows, GoesTo
  <2>3. Doc!NewSource(h) => UNCHANGED <<vers, files, trouble>> /\ Moves(h) /\ Owes(h)
    BY NewSourceEffect DEF Owes, Removing, GoesTo
  <2>4. Doc!Find(h) => UNCHANGED <<vers, files, trouble>> /\ Moves(h) /\ Owes(h)
    BY FindEffect DEF Owes, Removing, Doc!Rows
  <2>5. Doc!CreateDocument(h) => UNCHANGED <<vers, files, trouble>> /\ Moves(h) /\ Owes(h)
    BY CreateDocumentEffect DEF Owes, Removing
  <2>6. Doc!Stale(h) => Aborted(h) \/ (UNCHANGED <<vers, files, trouble>> /\ Moves(h) /\ Owes(h))
    BY StaleEffect DEF Owes, Removing, Doc!Rows, GoesTo
  <2>7. Doc!Latest(h) => UNCHANGED <<vers, files, trouble>> /\ Moves(h) /\ Owes(h)
    BY LatestEffect DEF Owes, Removing, Doc!Rows
  <2>8. Doc!Marker(h) => UNCHANGED <<vers, files, trouble>> /\ Moves(h) /\ Owes(h)
    BY MarkerEffect DEF Owes, Removing, Doc!Rows
  <2>9. Doc!Look(h) => Aborted(h) \/ (UNCHANGED <<vers, files, trouble>> /\ Moves(h) /\ Owes(h))
    BY LookEffect DEF Owes, Removing, Doc!Rows
  <2>10. Doc!DropDocument(h) =>
           Aborted(h) \/ (UNCHANGED <<vers, files, trouble>> /\ Moves(h) /\ Owes(h))
    BY DropDocumentEffect DEF Owes, Removing, GoesTo, SameTask
  <2>11. Doc!Crash(h) => Aborted(h)
    BY CrashEffect
  <2>12. QED
    BY <1>2, <1>4, <1>6, <2>1, <2>2, <2>3, <2>4, <2>5, <2>6, <2>7, <2>8, <2>9, <2>10, <2>11
<1>7. CASE Doc!Upload(h)
  <2>1. CASE Aborted(h)
    BY <1>2, <2>1
  <2>2. CASE ~Aborted(h)
    <3>1. /\ vers' = vers /\ trouble' = trouble /\ files' = files \cup {h}
          /\ Moves(h) /\ todo[h].at = "upload" /\ todo'[h].at = "latest"
      BY <1>7, <2>2, UploadEffect DEF GoesTo
    <3>2. \A v \in Handlers : Doomed(v) => Doomed(v)'
      BY <3>1, DoomedKept DEF Removing
    <3> HIDE DEF Doomed
    <3>3. QED
      BY <1>3, <3>1, <3>2 DEF FilesOwed, Moves, Present, Inserted
  <2>3. QED
    BY <2>1, <2>2
<1>8. CASE Doc!Insert(h)
  <2>1. CASE Aborted(h)
    BY <1>2, <2>1
  <2>2. CASE ~Aborted(h)
    <3>1. /\ NewRow(h) /\ trouble' = trouble /\ files' = files
          /\ Moves(h) /\ todo[h].at = "insert" /\ todo'[h].at \in {"run", "supersede"}
      BY <1>8, <2>2, InsertEffect DEF GoesTo
    <3>2. \A v \in Handlers : Doomed(v) => Doomed(v)'
      BY <3>1, DoomedKept DEF Removing
    <3>3. Present(h)' /\ \A v \in Handlers \ {h} : vers'[v] = vers[v] /\ todo'[v] = todo[v]
      BY <3>1 DEF NewRow, Present, Moves
    <3> HIDE DEF Doomed
    <3>4. QED
      BY <3>1, <3>2, <3>3 DEF FilesOwed, Present
  <2>3. QED
    BY <2>1, <2>2
<1>9. CASE Doc!Supersede(h) \/ Doc!PublishVersion(h)
  <2>1. SamePlaces
    BY <1>9, OtherHistory
  <2>2. /\ Moves(h) /\ UNCHANGED <<files, trouble>>
        /\ \A v \in Handlers : vers'[v].run = vers[v].run
        /\ \/ todo[h].at = "supersede" /\ todo'[h].at = "run"
           \/ todo[h].at = "publish" /\ todo'[h].at = "done"
    <3>1. CASE Doc!Supersede(h)
      <4>1. PICK w \in Handlers : w = todo[h].latest
        BY <3>1 DEF Doc!Supersede, Doc!At, Histories, LatestRead
      <4>2. /\ todo[h].at = "supersede" /\ GoesTo(h, "run") /\ UNCHANGED <<files, trouble>>
            /\ \E life : Row(w, life, vers[w].run)
        BY <3>1, <4>1, SupersedeEffect
      <4>3. QED
        BY <4>2 DEF GoesTo, Row
    <3>2. CASE Doc!PublishVersion(h)
      BY <3>2, PublishEffect DEF GoesTo, Row
    <3>3. QED
      BY <1>9, <3>1, <3>2
  <2>3. Owes(h)
    BY <2>2 DEF Owes, Removing
  <2>4. QED
    BY <2>1, <2>2, <2>3, OwedKept
<1>10. CASE Doc!CreateRun(h)
  <2>1. CASE Aborted(h)
    BY <1>2, <2>1
  <2>2. CASE ~Aborted(h)
    <3>1. /\ Present(h) /\ Row(h, vers[h].life, "bare") /\ UNCHANGED <<files, trouble>>
          /\ Moves(h) /\ todo[h].at = "run" /\ todo'[h].at = "chunk"
      BY <1>10, <2>2, CreateRunEffect DEF GoesTo
    <3>2. \A v \in Handlers : Doomed(v) => Doomed(v)'
      BY <3>1, DoomedKept DEF Removing
    <3>3. /\ Present(h)' /\ vers'[h].run = "bare"
          /\ \A v \in Handlers \ {h} : vers'[v] = vers[v] /\ todo'[v] = todo[v]
      BY <3>1 DEF Row, Present, Moves
    <3> HIDE DEF Doomed
    <3>4. QED
      BY <3>1, <3>2, <3>3 DEF FilesOwed, Present
  <2>3. QED
    BY <2>1, <2>2
<1>11. CASE Doc!ChunkRun(h) \/ Doc!EmbedRun(h)
  <2>1. CASE Aborted(h)
    BY <1>2, <2>1
  <2>2. CASE ~Aborted(h)
    <3>1. SamePlaces
      BY <1>11, OtherHistory
    <3>2. /\ Moves(h) /\ UNCHANGED <<files, trouble>>
          /\ \A v \in Handlers : vers'[v].run = "none" => vers[v].run = "none"
          /\ todo[h].at \in {"chunk", "embed"}
      <4>1. CASE Doc!ChunkRun(h)
        BY <2>2, <4>1, StageEffect DEF Doc!ChunkRun, Doc!At, GoesTo, Row
      <4>2. CASE Doc!EmbedRun(h)
        BY <2>2, <4>2, StageEffect DEF Doc!EmbedRun, Doc!At, GoesTo, Row
      <4>3. QED
        BY <1>11, <4>1, <4>2
    <3>3. Owes(h)
      BY <3>2 DEF Owes, Removing
    <3>4. QED
      BY <3>1, <3>2, <3>3, OwedKept
  <2>3. QED
    BY <2>1, <2>2
<1>12. CASE Doc!Purge(h) \/ Doc!DropRuns(h)
  <2>1. CASE Aborted(h)
    BY <1>2, <2>1
  <2>2. CASE ~Aborted(h)
    <3>1. SamePlaces
      BY <1>12, OtherHistory
    <3>2. /\ Moves(h) /\ UNCHANGED <<files, trouble>>
          /\ todo[h].at \in {"purge", "drop runs"} /\ todo'[h].seen = todo[h].seen
          /\ todo'[h].at \in {"drop runs", "drop versions"}
          /\ \A v \in Handlers : vers'[v].run = "none" => vers[v].run = "none" \/ Doomed(v)
      <4>1. CASE Doc!Purge(h)
        BY <4>1, PurgeEffect DEF RunRows
      <4>2. CASE Doc!DropRuns(h)
        <5>1. /\ RunRows(todo[h].listed, "none") /\ GoesTo(h, "drop versions")
              /\ UNCHANGED <<files, trouble>> /\ todo[h].at = "drop runs"
          BY <2>2, <4>2, DropRunsEffect
        <5>2. todo[h].at \in Removing /\ todo[h].listed \subseteq todo[h].seen
          BY <5>1 DEF DeletionsOK, Removing
        <5>3. \A v \in todo[h].listed : Doomed(v)
          BY <5>2 DEF Doomed
        <5>4. \A v \in Handlers : v \notin todo[h].listed => vers'[v] = vers[v]
          BY <5>1 DEF RunRows
        <5> HIDE DEF Doomed
        <5>5. QED
          BY <5>1, <5>3, <5>4 DEF GoesTo, SameTask
      <4>3. QED
        BY <1>12, <4>1, <4>2
    <3>3. Owes(h)
      BY <3>2 DEF Owes, Removing
    <3>4. QED
      BY <3>1, <3>2, <3>3, OwedKept
  <2>3. QED
    BY <2>1, <2>2
<1>13. CASE Doc!DropVersions(h)
  <2>1. CASE Aborted(h)
    BY <1>2, <2>1
  <2>2. CASE ~Aborted(h)
    <3>1. /\ \A v \in Handlers :
               vers'[v] = IF Present(v) /\ vers[v].doc = todo[h].doc
                          THEN Doc!NoVersion ELSE vers[v]
          /\ \A v \in Handlers : Present(v) /\ vers[v].doc = todo[h].doc => vers[v].run = "none"
          /\ todo[h].at = "drop versions" /\ todo'[h].at = "drop document"
          /\ Moves(h) /\ todo'[h].seen = todo[h].seen /\ UNCHANGED <<files, trouble>>
      BY <1>13, <2>2, DropVersionsEffect DEF GoesTo, SameTask
    <3>2. \A v \in Handlers : Doomed(v) => Doomed(v)'
      BY <3>1, DoomedKept DEF Removing
    <3>3. ASSUME NEW v \in Handlers
          PROVE  \/ Present(v)' /\ Present(v) /\ vers'[v] = vers[v]
                 \/ ~Present(v)' /\ Present(v) /\ vers[v].run = "none"
                 \/ ~Present(v)' /\ ~Present(v)
      <4>1. Doc!NoVersion.life = "absent"
        BY DEF Doc!NoVersion
      <4>2. QED
        BY <3>1, <4>1 DEF Present
    <3>4. \A v \in Handlers :
            /\ todo[v].at \in {"latest", "insert", "supersede", "run"} => todo'[v].at = todo[v].at
      BY <3>1 DEF Moves
    <3> HIDE DEF Doomed
    <3>5. QED
      BY <3>1, <3>2, <3>3, <3>4 DEF FilesOwed, Present
  <2>3. QED
    BY <2>1, <2>2
<1>14. CASE Doc!DropFiles(h)
  <2>1. CASE trouble'
    BY <1>1, <2>1
  <2>2. CASE ~trouble'
    <3>1. /\ files' = files \ todo[h].seen /\ UNCHANGED <<vers, trouble>> /\ Moves(h)
          /\ todo[h].at = "drop files" /\ todo'[h].at = "done"
      BY <1>14, <2>2, DropFilesEffect DEF GoesTo
    <3>2. \A v \in todo[h].seen : ~Present(v)
      BY <3>1 DEF DeletionsOK, Removing
    <3>3. ASSUME NEW v \in Handlers \ todo[h].seen, Doomed(v)
          PROVE  Doomed(v)'
      <4>1. PICK g \in Handlers : todo[g].at \in Removing /\ v \in todo[g].seen
        BY <3>3 DEF Doomed
      <4>2. g # h /\ todo'[g] = todo[g]
        BY <3>1, <4>1 DEF Moves
      <4>3. QED
        BY <4>1, <4>2 DEF Doomed, Removing
    <3>4. \A v \in Handlers : todo[v].at \in {"latest", "insert", "supersede", "run"}
                                => todo'[v].at = todo[v].at
      BY <3>1 DEF Moves
    <3> HIDE DEF Doomed
    <3>5. QED
      BY <3>1, <3>2, <3>3, <3>4 DEF FilesOwed, Present
  <2>3. QED
    BY <2>1, <2>2
<1>15. QED
  BY <1>5, <1>6, <1>7, <1>8, <1>9, <1>10, <1>11, <1>12, <1>13, <1>14 DEF Doc!Sync, Doc!Remove

THEOREM DocInvariance == Doc!Spec => []DocInv
<1>1. Doc!Init => DocInv
  <2>1. ASSUME Doc!Init
        PROVE  DeletionsOK /\ FilesOwed
    <3>1. \A v \in Handlers : vers[v] = Doc!NoVersion /\ todo[v] = Doc!Idle
      BY <2>1 DEF Doc!Init
    <3>2. Doc!NoVersion.life = "absent" /\ Doc!Idle.at = "idle" /\ files = {}
      BY <2>1 DEF Doc!NoVersion, Doc!Idle, Doc!Init
    <3>3. QED
      BY <3>1, <3>2 DEF DeletionsOK, FilesOwed, Removing, Present
  <2>2. QED
    BY <2>1, HistoryInit DEF DocInv
<1>2. DocInv /\ [Doc!Next]_Doc!vars => DocInv'
  <2> SUFFICES ASSUME DocInv, [Doc!Next]_Doc!vars
               PROVE  DocInv'
    OBVIOUS
  <2>1. CASE UNCHANGED Doc!vars
    <3>1. DeletionsOK' /\ FilesOwed'
      BY <2>1 DEF Doc!vars, DocInv, DeletionsOK, FilesOwed, Doomed, Present, Removing
    <3>2. QED
      BY <3>1, HistoryStep DEF DocInv
  <2>2. ASSUME NEW h \in Handlers,
               Doc!Request(h) \/ Doc!Reread(h) \/ Doc!Sync(h) \/ Doc!Remove(h) \/ Doc!Crash(h)
        PROVE  DeletionsOK' /\ FilesOwed'
    BY <2>2, DeletionsStep, OwedStep DEF DocInv
  <2>3. QED
    BY <2>1, <2>2, HistoryStep DEF Doc!Next, DocInv
<1>3. QED
  BY <1>1, <1>2, PTL DEF Doc!Spec

\* While no call fails, no stored file is left behind that no row names.
THEOREM FilesAreAccounted == Doc!Spec => []FilesAccounted
<1>1. DocInv => FilesAccounted
  <2> SUFFICES ASSUME DocInv, Doc!Busy = {}, ~trouble, NEW h \in files
               PROVE  vers[h].life # "absent"
    BY DEF FilesAccounted, Doc!FilesAccounted, Doc!Quiet
  <2>1. \A g \in Handlers : todo[g].at \in {"idle", "done"}
    BY DEF Doc!Busy
  <2>2. h \in Handlers /\ ~Doomed(h)
    BY <2>1 DEF DocInv, Doc!TypeOK, Doomed, Removing
  <2>3. QED
    BY <2>1, <2>2 DEF DocInv, FilesOwed, Present
<1>2. QED
  BY <1>1, DocInvariance, PTL

--------------------------------------------------------------------------------
(* One request after the other *)

\* What request h, at work alone, leaves to its next call or to the next request.
Leaves(h) ==
  /\ OneDocument'
  /\ todo'[h].at = "done" => WhenIdle'
  /\ todo'[h].at \notin {"idle", "done"} => WhenAlone(h)'

\* With one document, only one version has the highest number.
LEMMA OneTop ==
  ASSUME Doc!TypeOK, Histories, OneDocument
  PROVE  \A v, w \in Handlers : Top(v) /\ Top(w) => v = w
<1> SUFFICES ASSUME NEW v \in Handlers, NEW w \in Handlers, Top(v), Top(w)
             PROVE  v = w
  OBVIOUS
<1>1. vers[v].number \in Nat /\ vers[w].number \in Nat /\ Present(v) /\ Present(w)
  BY DEF Top, Doc!TypeOK, Doc!Version
<1>2. vers[v].number = vers[w].number
  BY <1>1 DEF Top
<1>3. vers[v].doc = vers[w].doc
  BY <1>1 DEF OneDocument, AllOf
<1>4. QED
  BY <1>1, <1>2, <1>3 DEF Histories, NumbersUnique

\* A call that changes neither the record nor a version.
LEMMA VersionsUnchanged ==
  ASSUME UNCHANGED <<rec, vers>>
  PROVE  /\ OneDocument' = OneDocument /\ DocSettled' = DocSettled /\ NotLive' = NotLive
         /\ Empty' = Empty
         /\ \A v : Top(v)' = Top(v)
         /\ \A d, e : d = e => AllOf(d)' = AllOf(e)
  BY DEF OneDocument, DocSettled, NotLive, Empty, Top, AllOf, Present

LEMMA AloneRequest ==
  ASSUME Doc!TypeOK, WhenIdle, OneDocument, NEW h \in Handlers, Doc!Request(h)
  PROVE  OneDocument' /\ todo'[h].at \notin {"idle", "done"} /\ WhenAlone(h)'
<1>1. vers' = vers /\ Starts(h)
  BY RequestEffect
<1>2. OneDocument' /\ DocSettled'
  BY <1>1 DEF WhenIdle, OneDocument, DocSettled, Top, AllOf, Present
<1>3. CASE todo'[h].at = "source" /\ Shown' /\ todo'[h].text = rec'.text
  BY <1>2, <1>3 DEF WhenAlone, Rendered, Shown, Removing
<1>4. CASE todo'[h].at = "reread" /\ Shown'
  BY <1>2, <1>4 DEF WhenAlone, Removing
<1>5. CASE todo'[h].at = "marker" /\ NotLive'
  BY <1>2, <1>5 DEF WhenAlone, Removing
<1>6. QED
  BY <1>1, <1>2, <1>3, <1>4, <1>5 DEF Starts

LEMMA AlonePrepares ==
  ASSUME Doc!TypeOK, Histories, NEW h \in Handlers, WhenAlone(h), OneDocument, ~trouble',
         \/ Doc!Reread(h) \/ Doc!Source(h) \/ Doc!NewSource(h) \/ Doc!Find(h)
         \/ Doc!CreateDocument(h) \/ Doc!Stale(h) \/ Doc!Upload(h)
  PROVE  Leaves(h)
<1>1. UNCHANGED <<rec, vers>>
  BY RereadEffect, SourceEffect, NewSourceEffect, FindEffect, CreateDocumentEffect,
     StaleEffect, UploadEffect DEF Doc!Rows
<1>2. OneDocument' /\ DocSettled' = DocSettled /\ \A d, e : d = e => AllOf(d)' = AllOf(e)
  BY <1>1, VersionsUnchanged
<1>3. ~Aborted(h)
  BY DEF Aborted
<1>4. Shown /\ todo'[h].text = rec.text => Rendered(h)'
  BY <1>1 DEF Rendered, Shown
<1>5. CASE Doc!Reread(h)
  BY <1>2, <1>3, <1>4, <1>5, RereadEffect DEF WhenAlone, Leaves, Removing
<1>6. ASSUME NEW at \in {"new source", "find"}, GoesTo(h, at),
             todo[h].at \in {"source", "new source"}
      PROVE  Leaves(h)
  BY <1>2, <1>4, <1>6 DEF WhenAlone, Leaves, Removing, Rendered, Shown, GoesTo, SameTask
<1>7. CASE Doc!Source(h) \/ Doc!NewSource(h)
  BY <1>3, <1>6, <1>7, SourceEffect, NewSourceEffect
<1>8. CASE Doc!Find(h)
  <2>1. /\ todo[h].at = "find" /\ todo'[h].text = todo[h].text
        /\ \/ todo'[h].at = "document" /\ \A v \in Handlers : ~Present(v)
           \/ /\ todo'[h].at = "stale"
              /\ \E v \in Handlers : Present(v) /\ vers[v].doc = todo'[h].doc
    BY <1>8, FindEffect DEF Keeps
  <2>2. DocSettled' /\ Rendered(h)'
    BY <1>2, <1>4, <2>1 DEF WhenAlone, Rendered, Shown
  <2>3. CASE todo'[h].at = "document" /\ \A v \in Handlers : ~Present(v)
    BY <1>1, <1>2, <2>2, <2>3 DEF WhenAlone, Leaves, Removing, Empty, Present
  <2>4. CASE /\ todo'[h].at = "stale"
             /\ \E v \in Handlers : Present(v) /\ vers[v].doc = todo'[h].doc
    <3>1. AllOf(todo[h].doc)'
      BY <1>1, <2>4 DEF OneDocument, AllOf, Present
    <3>2. QED
      BY <1>2, <2>2, <2>4, <3>1 DEF WhenAlone, Leaves, Removing
  <2>5. QED
    BY <2>1, <2>3, <2>4
<1>9. CASE Doc!CreateDocument(h)
  <2>1. /\ todo[h].at = "document" /\ todo'[h].text = todo[h].text /\ todo'[h].at = "upload"
    BY <1>9, CreateDocumentEffect DEF Keeps
  <2>2. DocSettled' /\ Rendered(h)' /\ Empty
    BY <1>2, <1>4, <2>1 DEF WhenAlone, Rendered, Shown
  <2>3. AllOf(todo[h].doc)'
    BY <1>1, <2>2 DEF Empty, AllOf, Present
  <2>4. QED
    BY <1>2, <2>1, <2>2, <2>3 DEF WhenAlone, Leaves, Removing
<1>10. CASE Doc!Stale(h) \/ Doc!Upload(h)
  <2>1. /\ todo[h].at \in {"stale", "upload"} /\ todo'[h].at \in {"upload", "latest"}
        /\ todo'[h].text = todo[h].text /\ todo'[h].doc = todo[h].doc
    BY <1>3, <1>10, StaleEffect, UploadEffect DEF GoesTo, SameTask
  <2>2. DocSettled' /\ Rendered(h)' /\ AllOf(todo[h].doc)
    BY <1>2, <1>4, <2>1 DEF WhenAlone, Rendered, Shown
  <2>3. AllOf(todo[h].doc)'
    BY <1>1, <2>1, <2>2 DEF AllOf, Present
  <2>4. QED
    BY <1>2, <2>1, <2>2, <2>3 DEF WhenAlone, Leaves, Removing
<1>11. QED
  BY <1>5, <1>7, <1>8, <1>9, <1>10

LEMMA AloneReads ==
  ASSUME Doc!TypeOK, Histories, NEW h \in Handlers, WhenAlone(h), OneDocument, Doc!Latest(h)
  PROVE  Leaves(h)
<1>1. /\ todo[h].at = "latest" /\ UNCHANGED <<rec, vers>> /\ todo'[h].at = "insert"
      /\ todo'[h].text = todo[h].text /\ todo'[h].doc = todo[h].doc
  BY LatestEffect DEF Doc!Rows
<1>2. DocSettled /\ Rendered(h) /\ AllOf(todo[h].doc) /\ todo[h].latest = None
  BY <1>1 DEF WhenAlone, Histories, LatestRead, Inserted
<1>3. OneDocument' /\ DocSettled' /\ Rendered(h)' /\ AllOf(todo[h].doc)'
  BY <1>1, <1>2 DEF OneDocument, DocSettled, Rendered, Shown, AllOf, Top, Present
<1>4. CASE /\ \A v \in Handlers : ~(Present(v) /\ vers[v].doc = todo[h].doc)
           /\ todo'[h].latest = todo[h].latest
  <2>1. Empty'
    BY <1>1, <1>2, <1>4 DEF Empty, AllOf, Present
  <2>2. todo'[h].latest = None
    BY <1>2, <1>4
  <2>3. QED
    BY <1>1, <1>3, <2>1, <2>2 DEF WhenAlone, Leaves, Removing
<1>5. ASSUME NEW v \in Handlers, LatestOf(h, v)
      PROVE  Leaves(h)
  <2>1. Top(v)
    BY <1>2, <1>5 DEF LatestOf, Top, AllOf
  <2>2. vers[v].life = "published"
    BY <1>2, <2>1 DEF DocSettled, Top
  <2>3. ~todo'[h].superseded
    <3>1. todo'[h].superseded = (vers[v].life = "superseded")
      BY <1>5, Zenon DEF LatestOf
    <3>2. ~(vers[v].life = "superseded")
      BY <2>2
    <3>3. QED
      BY <3>1, <3>2, Zenon
  <2>4. Top(todo[h].latest)' /\ todo'[h].latest # None
    <3>1. todo'[h].latest = v /\ v # None
      BY <1>5, HandlersAssumption DEF LatestOf
    <3>2. QED
      BY <1>1, <2>1, <3>1 DEF Top, Present
  <2>5. QED
    BY <1>1, <1>3, <2>3, <2>4 DEF WhenAlone, Leaves, Removing
<1>6. QED
  BY <1>4, <1>5, LatestEffect

LEMMA AloneInserts ==
  ASSUME Doc!TypeOK, Histories, NEW h \in Handlers, WhenAlone(h), OneDocument, Doc!Insert(h),
         ~trouble'
  PROVE  Leaves(h)
<1>1. /\ todo[h].at = "insert" /\ rec' = rec /\ Doc!Insertable(h) /\ NewRow(h)
      /\ GoesTo(h, IF todo[h].latest = None \/ todo[h].superseded
                   THEN "run" ELSE "supersede")
  BY InsertEffect DEF Aborted
<1>2. /\ DocSettled /\ Rendered(h) /\ AllOf(todo[h].doc)
      /\ IF todo[h].latest = None THEN Empty ELSE Top(todo[h].latest) /\ ~todo[h].superseded
  BY <1>1 DEF WhenAlone
<1>3. ~Present(h) /\ todo[h].doc # None
  BY <1>1, HandlersAssumption DEF Histories, VersionsOnce, Inserted, Doc!Insertable,
                                  Doc!TypeOK
<1>4. /\ Present(h)' /\ vers'[h].doc = todo[h].doc /\ vers'[h].number = todo[h].number
      /\ vers'[h].text = todo[h].text /\ vers'[h].life = "draft" /\ vers'[h].run = "none"
      /\ \A v \in Handlers \ {h} : vers'[v] = vers[v] /\ Present(v)' = Present(v)
  BY <1>1 DEF NewRow, Present
<1>5. todo'[h].text = todo[h].text /\ todo'[h].latest = todo[h].latest
  BY <1>1 DEF GoesTo, SameTask
<1>6. \A v \in Handlers : Present(v)' => vers'[v].doc = todo[h].doc
  BY <1>2, <1>4 DEF AllOf
<1>7. OneDocument' /\ AllOf(vers[h].doc)'
  BY <1>4, <1>6 DEF OneDocument, AllOf, Present
<1>8. Rendered(h)'
  BY <1>1, <1>2, <1>5 DEF Rendered, Shown
<1> PICK n \in Nat : n = todo[h].number
  BY DEF Doc!TypeOK, Doc!Task
<1>9. CASE todo[h].latest = None
  <2>1. \A v \in Handlers \ {h} : ~Present(v)'
    BY <1>2, <1>4, <1>9 DEF Empty
  <2>2. Top(h)'
    <3>1. \A v \in Handlers : Present(v)' => vers'[v].number <= vers'[h].number
      BY <1>4, <2>1
    <3>2. QED
      BY <1>4, <3>1 DEF Top, Present
  <2>3. OthersSuperseded(h)'
    BY <2>1 DEF OthersSuperseded, Present
  <2>4. todo'[h].at = "run"
    BY <1>1, <1>9 DEF GoesTo
  <2>5. QED
    BY <1>4, <1>5, <1>7, <1>8, <2>2, <2>3, <2>4 DEF WhenAlone, Leaves, NewVersion, Removing
<1>10. CASE todo[h].latest # None
  <2>1. PICK w \in Handlers : /\ w = todo[h].latest /\ Top(w) /\ w # h
                              /\ vers[w].number + 1 = todo[h].number
    <3>1. Top(todo[h].latest) /\ todo[h].latest \in Handlers
      BY <1>1, <1>2, <1>10 DEF Histories, LatestRead
    <3>2. QED
      BY <1>1, <1>3, <1>10, <3>1 DEF Histories, LatestRead, Precedes, Top
  <2>2. Top(h)'
    <3>1. ASSUME NEW v \in Handlers, Present(v)'
          PROVE  vers'[v].number <= vers'[h].number
      <4>1. CASE v = h
        BY <1>4, <4>1
      <4>2. CASE v # h
        <5>1. vers[v].number <= vers[w].number /\ vers'[v] = vers[v]
          BY <1>4, <2>1, <3>1, <4>2 DEF Top
        <5>2. vers[v].number \in Nat /\ vers[w].number \in Nat
          BY DEF Doc!TypeOK, Doc!Version
        <5>3. QED
          BY <1>4, <2>1, <5>1, <5>2
      <4>3. QED
        BY <4>1, <4>2
    <3>2. QED
      BY <1>4, <3>1 DEF Top, Present
  <2>3. \A v \in Handlers \ {h, w} : Present(v)' => vers'[v].life = "superseded"
    <3>1. ASSUME NEW v \in Handlers \ {h, w}, Present(v)
          PROVE  vers[v].life = "superseded"
      BY <1>2, <2>1, <3>1, OneTop DEF DocSettled
    <3>2. QED
      BY <1>4, <3>1
  <2>4. \A v \in Handlers \ {h, todo'[h].latest} : Present(v)' => vers'[v].life = "superseded"
    BY <1>5, <2>1, <2>3
  <2>5. todo'[h].at = "supersede" /\ todo'[h].latest # h
    BY <1>1, <1>2, <1>5, <1>10, <2>1, Zenon DEF GoesTo
  <2>6. QED
    BY <1>4, <1>5, <1>7, <1>8, <2>2, <2>4, <2>5
       DEF WhenAlone, Leaves, NewVersion, Removing, Present
<1>11. QED
  BY <1>9, <1>10

\* A call that changes the life or the run of version v only.
LEMMA AloneRow ==
  ASSUME Doc!TypeOK, NEW v \in Handlers, NEW life, NEW run, Row(v, life, run),
         Present(v), life # "absent"
  PROVE  /\ OneDocument => OneDocument'
         /\ \A w \in Handlers : /\ Present(w)' = Present(w) /\ Top(w)' = Top(w)
                                /\ vers'[w].doc = vers[w].doc /\ vers'[w].text = vers[w].text
         /\ \A d, e : d = e => AllOf(d)' = AllOf(e)
<1>1. \A w \in Handlers : /\ Present(w)' = Present(w) /\ vers'[w].number = vers[w].number
                          /\ vers'[w].doc = vers[w].doc /\ vers'[w].text = vers[w].text
  BY DEF Row, Present
<1>2. \A w \in Handlers : Top(w)' = Top(w)
  BY <1>1 DEF Top, Present
<1>3. OneDocument => OneDocument'
  BY <1>1 DEF OneDocument, AllOf, Present
<1>4. \A d, e : d = e => AllOf(d)' = AllOf(e)
  BY <1>1 DEF AllOf, Present
<1>5. QED
  BY <1>1, <1>2, <1>3, <1>4

LEMMA AloneSupersedes ==
  ASSUME Doc!TypeOK, Histories, NEW h \in Handlers, WhenAlone(h), OneDocument, Doc!Supersede(h)
  PROVE  Leaves(h)
<1>1. PICK w \in Handlers : w = todo[h].latest
  BY DEF Doc!Supersede, Doc!At, Histories, LatestRead
<1>2. /\ todo[h].at = "supersede" /\ GoesTo(h, "run") /\ rec' = rec
      /\ Row(w, IF Present(w) THEN "superseded" ELSE "absent", vers[w].run)
  BY <1>1, SupersedeEffect
<1>3. /\ NewVersion(h, "none") /\ w # h
      /\ \A v \in Handlers \ {h, w} : Present(v) => vers[v].life = "superseded"
  BY <1>1, <1>2 DEF WhenAlone
<1>4. /\ \A v \in Handlers \ {w} : vers'[v] = vers[v]
      /\ \A v \in Handlers : /\ vers'[v].doc = vers[v].doc /\ vers'[v].number = vers[v].number
                             /\ Present(v)' = Present(v)
      /\ Present(w) => vers'[w].life = "superseded"
  BY <1>2 DEF Row, Present
<1>5. OneDocument' /\ \A d, e : d = e => AllOf(d)' = AllOf(e)
  BY <1>4 DEF OneDocument, AllOf, Present
<1>6. NewVersion(h, "none")'
  <2>1. Top(h)'
    BY <1>3, <1>4 DEF NewVersion, Top, Present
  <2>2. vers'[h] = vers[h]
    BY <1>3, <1>4
  <2>3. Rendered(h)' /\ todo'[h].text = todo[h].text
    BY <1>2, <1>3 DEF NewVersion, Rendered, Shown, GoesTo, SameTask
  <2>4. AllOf(vers[h].doc)'
    BY <1>3, <1>5, <2>2 DEF NewVersion
  <2>5. QED
    BY <1>3, <2>1, <2>2, <2>3, <2>4 DEF NewVersion
<1>7. OthersSuperseded(h)'
  BY <1>3, <1>4 DEF OthersSuperseded, Present
<1>8. todo'[h].at = "run"
  BY <1>2 DEF GoesTo
<1>9. QED
  BY <1>5, <1>6, <1>7, <1>8 DEF WhenAlone, Leaves, Removing

LEMMA AloneIndexes ==
  ASSUME Doc!TypeOK, Histories, NEW h \in Handlers, WhenAlone(h), OneDocument, ~trouble',
         Doc!CreateRun(h) \/ Doc!ChunkRun(h) \/ Doc!EmbedRun(h)
  PROVE  Leaves(h)
<1>1. ASSUME NEW from \in {"none", "bare", "chunked"}, NEW to \in {"bare", "chunked", "indexed"},
             NEW at, NewVersion(h, from), OthersSuperseded(h), rec' = rec,
             Row(h, vers[h].life, to), GoesTo(h, at)
      PROVE  OneDocument' /\ NewVersion(h, to)' /\ OthersSuperseded(h)' /\ todo'[h].at = at
  <2>1. Present(h) /\ vers[h].life = "draft" /\ vers[h].text = todo[h].text /\ Top(h)
    BY <1>1 DEF NewVersion, Top
  <2>2. /\ OneDocument' /\ Top(h)' /\ vers'[h].text = vers[h].text
        /\ vers'[h].doc = vers[h].doc /\ \A d, e : d = e => AllOf(d)' = AllOf(e)
    BY <1>1, <2>1, AloneRow
  <2>3. AllOf(vers[h].doc)'
    BY <1>1, <2>2 DEF NewVersion
  <2>4. Rendered(h)' /\ todo'[h].text = todo[h].text
    BY <1>1 DEF NewVersion, Rendered, Shown, GoesTo, SameTask
  <2>5. vers'[h].life = "draft" /\ vers'[h].run = to
    BY <1>1, <2>1 DEF Row
  <2>6. NewVersion(h, to)'
    BY <2>1, <2>2, <2>3, <2>4, <2>5 DEF NewVersion
  <2>7. OthersSuperseded(h)'
    BY <1>1 DEF Row, OthersSuperseded, Present
  <2>8. QED
    BY <1>1, <2>2, <2>6, <2>7 DEF GoesTo
<1>2. ~Aborted(h)
  BY DEF Aborted
<1>3. CASE Doc!CreateRun(h)
  <2>1. /\ todo[h].at = "run" /\ Row(h, vers[h].life, "bare") /\ GoesTo(h, "chunk")
        /\ rec' = rec
    BY <1>2, <1>3, CreateRunEffect
  <2>2. NewVersion(h, "none") /\ OthersSuperseded(h)
    BY <2>1 DEF WhenAlone
  <2>3. /\ OneDocument' /\ NewVersion(h, "bare")' /\ OthersSuperseded(h)'
        /\ todo'[h].at = "chunk"
    BY <1>1, <2>1, <2>2
  <2>4. QED
    BY <2>3 DEF WhenAlone, Leaves, Removing
<1>4. CASE Doc!ChunkRun(h)
  <2>1. /\ todo[h].at = "chunk" /\ Row(h, vers[h].life, "chunked") /\ GoesTo(h, "embed")
        /\ rec' = rec
    BY <1>2, <1>4, StageEffect DEF Doc!ChunkRun, Doc!At
  <2>2. NewVersion(h, "bare") /\ OthersSuperseded(h)
    BY <2>1 DEF WhenAlone
  <2>3. /\ OneDocument' /\ NewVersion(h, "chunked")' /\ OthersSuperseded(h)'
        /\ todo'[h].at = "embed"
    BY <1>1, <2>1, <2>2
  <2>4. QED
    BY <2>3 DEF WhenAlone, Leaves, Removing
<1>5. CASE Doc!EmbedRun(h)
  <2>1. /\ todo[h].at = "embed" /\ Row(h, vers[h].life, "indexed") /\ GoesTo(h, "publish")
        /\ rec' = rec
    BY <1>2, <1>5, StageEffect DEF Doc!EmbedRun, Doc!At
  <2>2. NewVersion(h, "chunked") /\ OthersSuperseded(h)
    BY <2>1 DEF WhenAlone
  <2>3. /\ OneDocument' /\ NewVersion(h, "indexed")' /\ OthersSuperseded(h)'
        /\ todo'[h].at = "publish"
    BY <1>1, <2>1, <2>2
  <2>4. QED
    BY <2>3 DEF WhenAlone, Leaves, Removing
<1>6. QED
  BY <1>3, <1>4, <1>5

LEMMA AlonePublishes ==
  ASSUME Doc!TypeOK, Histories, NEW h \in Handlers, WhenAlone(h), OneDocument,
         Doc!PublishVersion(h)
  PROVE  Leaves(h)
<1>1. /\ todo[h].at = "publish" /\ GoesTo(h, "done") /\ rec' = rec
      /\ Row(h, IF Present(h) THEN "published" ELSE "absent", vers[h].run)
  BY PublishEffect
<1>2. NewVersion(h, "indexed") /\ OthersSuperseded(h) /\ Present(h) /\ Top(h)
  BY <1>1 DEF WhenAlone, NewVersion, Top
<1>3. Row(h, "published", vers[h].run)
  BY <1>1, <1>2
<1>4. /\ OneDocument'
      /\ \A w \in Handlers : /\ Present(w)' = Present(w) /\ Top(w)' = Top(w)
                             /\ vers'[w].text = vers[w].text
  BY <1>2, <1>3, AloneRow
<1>5. /\ vers'[h].life = "published" /\ vers'[h].run = "indexed"
      /\ \A v \in Handlers \ {h} : vers'[v] = vers[v]
  BY <1>2, <1>3 DEF Row, NewVersion
<1>6. \A v \in Handlers : Top(v) => v = h
  BY <1>2, OneTop
<1>7. ASSUME NEW v \in Handlers, Present(v)
      PROVE  /\ IF Top(v) THEN vers'[v].life = "published" /\ vers'[v].run = "indexed"
                ELSE vers'[v].life = "superseded"
             /\ Top(v) => Shown /\ vers'[v].text = rec.text
  <2>1. CASE v = h
    BY <1>2, <1>4, <1>5, <2>1 DEF NewVersion, Rendered, Shown
  <2>2. CASE v # h
    BY <1>2, <1>5, <1>6, <1>7, <2>2 DEF OthersSuperseded
  <2>3. QED
    BY <2>1, <2>2
<1>8. DocSettled'
  BY <1>4, <1>7 DEF DocSettled
<1>9. WhenIdle'
  BY <1>1, <1>2, <1>4, <1>7, <1>8 DEF WhenIdle, Shown
<1>10. QED
  BY <1>1, <1>4, <1>9 DEF Leaves, GoesTo

\* Nothing is left to retrieve, and the record is not live.
LEMMA IdleWhenEmpty == Empty /\ NotLive => WhenIdle
  BY DEF Empty, WhenIdle, DocSettled, Top

LEMMA AloneRemoves ==
  ASSUME Doc!TypeOK, Histories, NEW h \in Handlers, WhenAlone(h), OneDocument, ~trouble',
         Doc!Remove(h)
  PROVE  Leaves(h)
<1>1. ~Aborted(h)
  BY DEF Aborted
<1>2. CASE Doc!Marker(h)
  <2>1. /\ todo[h].at = "marker" /\ UNCHANGED <<rec, vers>>
        /\ \/ todo'[h].at = "done" /\ \A v \in Handlers : ~Present(v)
           \/ /\ todo'[h].at = "look"
              /\ \E v \in Handlers : Present(v) /\ vers[v].doc = todo'[h].doc
    BY <1>2, MarkerEffect DEF Doc!Rows
  <2>2. OneDocument' /\ NotLive' /\ Empty' = Empty
    BY <2>1, VersionsUnchanged DEF WhenAlone
  <2>3. CASE todo'[h].at = "done" /\ \A v \in Handlers : ~Present(v)
    <3>1. Empty
      BY <2>3 DEF Empty
    <3>2. Empty' /\ NotLive' => WhenIdle'
      BY IdleWhenEmpty, PTL
    <3>3. QED
      BY <2>2, <2>3, <3>1, <3>2 DEF Leaves
  <2>4. CASE /\ todo'[h].at = "look"
             /\ \E v \in Handlers : Present(v) /\ vers[v].doc = todo'[h].doc
    <3>1. AllOf(todo[h].doc)'
      BY <2>1, <2>4 DEF OneDocument, AllOf, Present
    <3>2. QED
      BY <2>2, <2>4, <3>1 DEF WhenAlone, Leaves, Removing
  <2>5. QED
    BY <2>1, <2>3, <2>4
<1>3. CASE Doc!Look(h) \/ Doc!Purge(h) \/ Doc!DropRuns(h)
  <2>1. /\ todo[h].at \in {"look", "purge", "drop runs"} /\ rec' = rec
        /\ todo'[h].at \in {"purge", "drop runs", "drop versions"}
        /\ todo'[h].doc = todo[h].doc
        /\ \A v \in Handlers : vers'[v].doc = vers[v].doc /\ Present(v)' = Present(v)
    <3>1. CASE Doc!Look(h)
      BY <1>1, <3>1, LookEffect DEF Present, Doc!Rows
    <3>2. CASE Doc!Purge(h)
      BY <3>2, PurgeEffect DEF RunRows, Present
    <3>3. CASE Doc!DropRuns(h)
      <4>1. /\ todo[h].at = "drop runs" /\ rec' = rec /\ GoesTo(h, "drop versions")
            /\ RunRows(todo[h].listed, "none")
        BY <1>1, <3>3, DropRunsEffect
      <4>2. QED
        BY <4>1 DEF GoesTo, SameTask, RunRows, Present
    <3>4. QED
      BY <1>3, <3>1, <3>2, <3>3
  <2>2. NotLive /\ AllOf(todo[h].doc)
    BY <2>1 DEF WhenAlone, Removing
  <2>3. OneDocument' /\ NotLive' /\ AllOf(todo[h].doc)'
    BY <2>1, <2>2 DEF OneDocument, NotLive, AllOf, Present
  <2>4. QED
    BY <2>1, <2>3 DEF WhenAlone, Leaves, Removing
<1>4. CASE Doc!DropVersions(h)
  <2>1. /\ todo[h].at = "drop versions" /\ rec' = rec /\ todo'[h].at = "drop document"
        /\ \A v \in Handlers :
              vers'[v] = IF Present(v) /\ vers[v].doc = todo[h].doc
                         THEN Doc!NoVersion ELSE vers[v]
    BY <1>1, <1>4, DropVersionsEffect DEF GoesTo
  <2>2. NotLive /\ AllOf(todo[h].doc) /\ Doc!NoVersion.life = "absent"
    BY <2>1 DEF WhenAlone, Removing, Doc!NoVersion
  <2>3. Empty' /\ NotLive'
    BY <2>1, <2>2 DEF NotLive, AllOf, Present, Empty
  <2>4. OneDocument'
    BY <2>3 DEF Empty, OneDocument
  <2>5. QED
    BY <2>1, <2>3, <2>4 DEF WhenAlone, Leaves, Removing
<1>5. CASE Doc!DropDocument(h) \/ Doc!DropFiles(h)
  <2>1. /\ todo[h].at \in {"drop document", "drop files"} /\ UNCHANGED <<rec, vers>>
        /\ todo'[h].at \in {"drop files", "done"}
    BY <1>1, <1>5, DropDocumentEffect, DropFilesEffect DEF GoesTo
  <2>2. NotLive /\ Empty
    BY <2>1 DEF WhenAlone, Removing
  <2>3. NotLive' /\ Empty' /\ OneDocument'
    BY <2>1, <2>2, VersionsUnchanged
  <2>4. Empty' /\ NotLive' => WhenIdle'
    BY IdleWhenEmpty, PTL
  <2>5. QED
    BY <2>1, <2>3, <2>4 DEF WhenAlone, Leaves, Removing
<1>6. QED
  BY <1>2, <1>3, <1>4, <1>5 DEF Doc!Remove

LEMMA SerialStep ==
  ASSUME Doc!TypeOK, Histories, SerialInv, NEW h \in Handlers,
         Doc!Request(h) \/ Doc!Reread(h) \/ Doc!Sync(h) \/ Doc!Remove(h) \/ Doc!Crash(h)
  PROVE  SerialInv'
<1> SUFFICES ASSUME ~trouble', ~overlap'
             PROVE  /\ \A g, k \in Doc!Busy' : g = k
                    /\ OneDocument'
                    /\ Doc!Busy' = {} => WhenIdle'
                    /\ \A g \in Doc!Busy' : WhenAlone(g)'
  BY DEF SerialInv
<1>1. Moves(h)
  BY DocTypeStep DEF Histories, LatestRead
<1>2. CASE Doc!Request(h)
  <2>1. ~trouble /\ ~overlap /\ Doc!Busy = {}
    BY <1>2, RequestEffect
  <2>2. WhenIdle /\ OneDocument
    BY <2>1 DEF SerialInv
  <2>3. OneDocument' /\ todo'[h].at \notin {"idle", "done"} /\ WhenAlone(h)'
    BY <1>2, <2>2, AloneRequest
  <2>4. \A g \in Doc!Busy' : g = h
    BY <1>1, <2>1 DEF Doc!Busy, Moves
  <2>5. h \in Doc!Busy'
    BY <2>3 DEF Doc!Busy
  <2>6. QED
    BY <2>3, <2>4, <2>5
<1>3. CASE ~Doc!Request(h)
  <2>1. /\ ~trouble /\ ~overlap /\ todo[h].at \notin {"idle", "done"}
        /\ todo'[h].at # "idle" /\ ~Doc!Crash(h)
    <3>1. Doc!Crash(h) => FALSE
      BY CrashEffect DEF Aborted
    <3>2. Doc!Supersede(h) => todo[h].latest \in Handlers
      BY Zenon DEF Doc!Supersede, Doc!At, Histories, LatestRead
    <3>3. overlap' = overlap
      BY <1>3, <3>1, ZenonT(30) DEF Doc!Reread, Doc!Sync, Doc!Remove, Doc!Source, Doc!NewSource, Doc!Find,
         Doc!CreateDocument, Doc!Stale, Doc!Upload, Doc!Latest, Doc!Insert, Doc!Supersede,
         Doc!CreateRun, Doc!ChunkRun, Doc!EmbedRun, Doc!Stage, Doc!PublishVersion, Doc!Marker,
         Doc!Look, Doc!Purge, Doc!DropRuns, Doc!DropVersions, Doc!DropDocument, Doc!DropFiles
    <3>4. trouble' = trouble
      <4>1. Doc!Raise(h) => trouble'
        BY Zenon DEF Doc!Raise
      <4>2. QED
        BY <1>3, <3>1, <4>1 DEF Doc!Reread, Doc!Sync, Doc!Remove, Doc!Source, Doc!NewSource,
           Doc!Find, Doc!CreateDocument, Doc!Stale, Doc!Upload, Doc!Latest, Doc!Insert,
           Doc!Unregistered, Doc!Supersede, Doc!CreateRun, Doc!ChunkRun, Doc!EmbedRun,
           Doc!Stage, Doc!PublishVersion, Doc!Marker, Doc!Look, Doc!Purge, Doc!DropRuns,
           Doc!DropVersions, Doc!DropDocument, Doc!DropFiles
    <3>5. todo[h].at \notin {"idle", "done"}
      BY <1>3, <3>1 DEF Doc!Reread, Doc!Sync, Doc!Remove, Doc!Source, Doc!NewSource, Doc!Find,
         Doc!CreateDocument, Doc!Stale, Doc!Upload, Doc!Latest, Doc!Insert, Doc!Supersede,
         Doc!CreateRun, Doc!ChunkRun, Doc!EmbedRun, Doc!PublishVersion, Doc!Marker,
         Doc!Look, Doc!Purge, Doc!DropRuns, Doc!DropVersions, Doc!DropDocument, Doc!DropFiles,
         Doc!At
    <3>6. todo'[h].at # "idle"
      <4>1. CASE Doc!Latest(h)
        BY <4>1, LatestEffect
      <4>2. CASE Doc!Insert(h)
        BY <4>2, InsertEffect DEF Aborted, GoesTo
      <4>3. CASE Doc!DropVersions(h)
        BY <4>3, DropVersionsEffect DEF Aborted, GoesTo
      <4>4. CASE Doc!Supersede(h)
        BY <4>4, <3>2, SupersedeEffect DEF GoesTo
      <4>5. CASE \/ Doc!Reread(h) \/ Doc!Source(h) \/ Doc!NewSource(h) \/ Doc!Find(h)
                 \/ Doc!CreateDocument(h) \/ Doc!Stale(h) \/ Doc!Upload(h)
        BY <4>5, RereadEffect, SourceEffect, NewSourceEffect, FindEffect,
           CreateDocumentEffect, StaleEffect, UploadEffect DEF Aborted, GoesTo
      <4>6. CASE Doc!CreateRun(h) \/ Doc!PublishVersion(h)
        BY <4>6, CreateRunEffect, PublishEffect DEF Aborted, GoesTo
      <4>7. CASE Doc!ChunkRun(h)
        BY <4>7, StageEffect DEF Doc!ChunkRun, Aborted, GoesTo
      <4>8. CASE Doc!EmbedRun(h)
        BY <4>8, StageEffect DEF Doc!EmbedRun, Aborted, GoesTo
      <4>9. CASE \/ Doc!Marker(h) \/ Doc!Look(h) \/ Doc!Purge(h) \/ Doc!DropRuns(h)
                 \/ Doc!DropDocument(h) \/ Doc!DropFiles(h)
        BY <4>9, MarkerEffect, LookEffect, PurgeEffect, DropRunsEffect, DropDocumentEffect,
           DropFilesEffect DEF Aborted, GoesTo
      <4>10. QED
        BY <1>3, <3>1, <4>1, <4>2, <4>3, <4>4, <4>5, <4>6, <4>7, <4>8, <4>9
           DEF Doc!Sync, Doc!Remove
    <3>7. QED
      BY <3>1, <3>3, <3>4, <3>5, <3>6
  <2>2. h \in Doc!Busy
    BY <2>1 DEF Doc!Busy
  <2>3. OneDocument /\ WhenAlone(h) /\ \A g \in Doc!Busy : g = h
    BY <2>1, <2>2 DEF SerialInv
  <2>4. Leaves(h)
    BY <1>3, <2>1, <2>3, AlonePrepares, AloneReads, AloneInserts, AloneSupersedes,
       AloneIndexes, AlonePublishes, AloneRemoves DEF Doc!Sync
  <2>5. \A g \in Doc!Busy' : g = h
    BY <1>1, <2>3 DEF Doc!Busy, Moves
  <2>6. h \in Doc!Busy' <=> todo'[h].at \notin {"idle", "done"}
    BY DEF Doc!Busy
  <2>7. QED
    BY <2>1, <2>4, <2>5, <2>6 DEF Leaves
<1>4. QED
  BY <1>2, <1>3

THEOREM SerialInvariance == Doc!Spec => []SerialInv
<1>1. Doc!Init => SerialInv
  <2> SUFFICES ASSUME Doc!Init
               PROVE  SerialInv
    OBVIOUS
  <2>1. \A v \in Handlers : vers[v] = Doc!NoVersion /\ todo[v] = Doc!Idle
    BY DEF Doc!Init
  <2>2. Doc!NoVersion.life = "absent" /\ Doc!Idle.at = "idle"
    BY DEF Doc!NoVersion, Doc!Idle
  <2>3. Empty /\ Doc!Busy = {}
    BY <2>1, <2>2 DEF Empty, Present, Doc!Busy
  <2>4. NotLive
    BY DEF Doc!Init, NotLive
  <2>5. OneDocument
    BY <2>3 DEF Empty, OneDocument
  <2>6. QED
    BY <2>3, <2>4, <2>5, IdleWhenEmpty DEF SerialInv
<1>2. SerialInv /\ UNCHANGED Doc!vars => SerialInv'
  <2> SUFFICES ASSUME SerialInv, UNCHANGED Doc!vars
               PROVE  SerialInv'
    OBVIOUS
  <2>1. UNCHANGED <<rec, vers, todo, overlap, trouble>>
    BY DEF Doc!vars
  <2>2. /\ OneDocument' = OneDocument /\ DocSettled' = DocSettled /\ NotLive' = NotLive
        /\ Empty' = Empty /\ Doc!Busy' = Doc!Busy
        /\ \A v : Top(v)' = Top(v)
        /\ \A d, e : d = e => AllOf(d)' = AllOf(e)
    BY <2>1, VersionsUnchanged DEF Doc!Busy
  <2>3. WhenIdle => WhenIdle'
    BY <2>1, <2>2 DEF WhenIdle, Present, Shown
  <2>4. ASSUME NEW h \in Handlers, WhenAlone(h)
        PROVE  WhenAlone(h)'
    <3>1. AllOf(vers[h].doc) => AllOf(vers[h].doc)'
      BY <2>1 DEF AllOf, Present
    <3>2. AllOf(todo[h].doc) => AllOf(todo[h].doc)'
      BY <2>1 DEF AllOf, Present
    <3>3. Top(todo[h].latest) => Top(todo[h].latest)'
      BY <2>1 DEF Top, Present
    <3>4. Rendered(h)' = Rendered(h) /\ OthersSuperseded(h)' = OthersSuperseded(h)
      BY <2>1 DEF Rendered, Shown, OthersSuperseded, Present
    <3>5. \A run : NewVersion(h, run) => NewVersion(h, run)'
      BY <2>1, <2>2, <3>1, <3>4 DEF NewVersion
    <3>6. Shown => Shown'
      BY <2>1 DEF Shown
    <3>7. QED
      BY <2>1, <2>2, <2>4, <3>2, <3>3, <3>4, <3>5, <3>6, ZenonT(30) DEF WhenAlone, Removing, Present
  <2>5. QED
    BY <2>1, <2>2, <2>3, <2>4 DEF SerialInv, Doc!Busy
<1>3. Doc!TypeOK /\ Histories /\ SerialInv /\ [Doc!Next]_Doc!vars => SerialInv'
  BY <1>2, SerialStep DEF Doc!Next
<1>4. QED
  BY <1>1, <1>3, DocHistoryInvariance, PTL DEF Doc!Spec

\* Requests made one after the other, none of which fails, leave nothing of a deleted
\* or unpublished record retrievable, exactly the present wording of a live one, and
\* of a published inactive one nothing but its present wording.
THEOREM WordingIsCurrent == Doc!Spec => []CurrentWhenSerial
<1>1. SerialInv => CurrentWhenSerial
  <2> SUFFICES ASSUME WhenIdle
               PROVE  IF rec = None \/ ~rec.published THEN Doc!Retrievable = {}
                      ELSE IF rec.active THEN Doc!Retrievable = {rec.text}
                      ELSE Doc!Retrievable \subseteq {rec.text}
    BY DEF SerialInv, CurrentWhenSerial, Doc!CurrentWhenSerial, Doc!Quiet
  <2>1. ASSUME NEW t \in Doc!Retrievable
        PROVE  Shown /\ t = rec.text
    <3>1. PICK v \in Handlers : vers[v].life = "published" /\ vers[v].text = t
      BY <2>1 DEF Doc!Retrievable
    <3>2. QED
      BY <3>1 DEF WhenIdle, DocSettled, Present
  <2>2. ASSUME ~NotLive
        PROVE  rec.text \in Doc!Retrievable
    <3>1. PICK v \in Handlers : Top(v)
      BY <2>2 DEF WhenIdle
    <3>2. /\ vers[v].life = "published" /\ vers[v].run = "indexed"
          /\ vers[v].text = rec.text
      BY <3>1 DEF WhenIdle, DocSettled, Top
    <3>3. QED
      BY <3>2 DEF Doc!Retrievable
  <2>3. QED
    BY <2>1, <2>2 DEF NotLive, Shown
<1>2. QED
  BY <1>1, SerialInvariance, PTL

--------------------------------------------------------------------------------
(* All parts *)

\* Every part keeps its rows and requests in the states it knows.
THEOREM TypesAreKept == Spec /\ Doc!Spec /\ Chat!Spec => []TypesOK
<1>1. TypeOK /\ Doc!TypeOK /\ Chat!TypeOK => TypesOK
  BY DEF TypesOK
<1>2. ChatInv => Chat!TypeOK
  BY DEF ChatInv, PlacesInv
<1>3. QED
  BY <1>1, <1>2, IndexTypes, DocHistoryInvariance, ChatInvariance, PTL
================================================================================
