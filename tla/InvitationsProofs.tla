---------------------------- MODULE InvitationsProofs ----------------------------
(***************************************************************************)
(* Theorems about Invitations, for every set of invitations and requests    *)
(* and every bound.                                                         *)
(***************************************************************************)
EXTENDS Invitations, FiniteSetTheorems, TLAPS

--------------------------------------------------------------------------------
(* The invariant *)

\* The stages from which a claim may begin, or that follow it.
Provided == {"user_created", "accepted", "confirmed"}

\* An invitation, its operation and its requests to the provider agree: how far the
\* operation came determines what it knows, who may have asked, and whether the
\* invitation is accepted.
RowOK(i) ==
  /\ op[i].stage = None => op[i].auth = None /\ op[i].user = None
  /\ op[i].stage \in {"reserved", "provider_started"} =>
       op[i].new /\ op[i].auth = None /\ op[i].user = None
  /\ op[i].stage = "provider_created" => op[i].new /\ op[i].auth \in asked[i] /\ op[i].user = None
  /\ op[i].stage \in Provided => op[i].user # None /\ op[i].auth = op[i].user
  /\ op[i].user # None => user = op[i].user
  /\ op[i].stage \in {"accepted", "confirmed"} <=> inv[i].status = "accepted"
  /\ inv[i].status = "accepted" => inv[i].by = op[i].user
  /\ op[i].stage \in {None, "reserved"} => asked[i] = {}
  /\ inv[i].status \in {"cancelled", "expired"} => asked[i] = {}
  /\ \A p, q \in asked[i] : p = q

\* The calls that follow a reservation.
Late == {"start", "create", "record", "provision", "claim", "confirm", "mark"}

\* What a request knows, by its next call.  One that has a reservation holds the
\* present link.
ReqOK(r) ==
  /\ IF At(r, "idle") THEN Mine(r) = None ELSE Mine(r) \in Invites
  /\ req[r].actor => user # None
  /\ req[r].at \in Late => op[Mine(r)].stage # None /\ req[r].token = inv[Mine(r)].token
  /\ At(r, "create") => /\ op[Mine(r)].stage = "provider_started"
                        /\ asked[Mine(r)] = {}
                        /\ inv[Mine(r)].status \notin {"cancelled", "expired"}
  /\ At(r, "record") => r \in asked[Mine(r)]
  /\ At(r, "provision") => req[r].op.auth = op[Mine(r)].auth /\ req[r].op.auth # None
  /\ At(r, "claim") => req[r].op.auth = req[r].op.user
  /\ req[r].at \in {"confirm", "mark"} => /\ inv[Mine(r)].status = "accepted"
                                          /\ inv[Mine(r)].by = req[r].op.auth

\* One request at most is about to ask the provider for an invitation.
SoleCreator ==
  \A p, q \in Requests : At(p, "create") /\ At(q, "create") /\ Mine(p) = Mine(q) => p = q

Tables == /\ \A i \in Invites : RowOK(i)
          /\ \A r \in Requests : ReqOK(r)
          /\ SoleCreator

IInv == Distinct /\ TypeOK /\ Tables /\ AccountTraced /\ ConfirmedAfterAcceptance

LEMMA Initially == Init => IInv
<1> SUFFICES ASSUME Init
             PROVE  IInv
  OBVIOUS
<1>0. Distinct
  BY NamesAssumption
<1>1. NoOperation \in Operation
  BY DEF NoOperation, Operation
<1>2. 0 \in 0..MaxTokens
  BY <1>0 DEF Distinct
<1>3. TypeOK
  BY <1>1, <1>2 DEF Init, TypeOK, Invitation, Request
<1>4. ASSUME NEW i \in Invites
      PROVE  RowOK(i)
  BY <1>0 DEF Init, RowOK, NoOperation, Distinct, Provided
<1>5. ASSUME NEW r \in Requests
      PROVE  ReqOK(r) /\ At(r, "idle")
  BY DEF Init, ReqOK, At, Mine, Late
<1>6. AccountTraced /\ ConfirmedAfterAcceptance
  BY <1>0 DEF Init, AccountTraced, ConfirmedAfterAcceptance, Distinct, Accounts
<1>7. QED
  BY <1>0, <1>3, <1>4, <1>5, <1>6 DEF IInv, Tables, SoleCreator, At

--------------------------------------------------------------------------------
(* What a step does to an invitation *)

\* The operation of i goes on, and what is settled about i stays.
Goes(i) ==
  /\ op[i].stage # None => op'[i].stage # None /\ inv'[i].token = inv[i].token
  /\ op[i].auth # None => op'[i].auth = op[i].auth
  /\ op[i].stage = "provider_started" =>
       op'[i].stage = "provider_started" \/ op'[i].auth \in asked[i]
  /\ asked[i] \subseteq asked'[i]
  /\ inv[i].status = "accepted" => inv'[i].status = "accepted" /\ inv'[i].by = inv[i].by

\* A request that is about to ask for an account of i still is.
CreatorStays(i) ==
  /\ op'[i].stage = op[i].stage
  /\ asked'[i] = asked[i]
  /\ inv'[i].status \in {"cancelled", "expired"} => inv[i].status \in {"cancelled", "expired"}

\* The request r does nothing, and what it knows stays true.
LEMMA OtherRequest ==
  ASSUME IInv, NEW r \in Requests, req'[r] = req[r], \A i \in Invites : Goes(i),
         user # None => user' = user,
         At(r, "create") => CreatorStays(Mine(r))
  PROVE  ReqOK(r)'
<1>1. ReqOK(r) /\ (Mine(r) # None => Mine(r) \in Invites)
  BY DEF IInv, Tables, ReqOK
<1>2. CASE At(r, "idle")
  BY <1>1, <1>2 DEF ReqOK, At, Mine, Late
<1>3. CASE ~At(r, "idle")
  <2>1. Mine(r) \in Invites /\ Goes(Mine(r))
    BY <1>1, <1>3 DEF ReqOK
  <2>2. QED
    BY <1>1, <1>3, <2>1 DEF ReqOK, At, Mine, Goes, CreatorStays
<1>4. QED
  BY <1>2, <1>3

\* While the account stays, so does what is known of it.
LEMMA AccountStays ==
  ASSUME IInv, UNCHANGED account, \A i \in Invites : Goes(i)
  PROVE  AccountTraced' /\ ConfirmedAfterAcceptance'
<1>1. AccountTraced'
  <2> SUFFICES ASSUME account.owner \in Requests
               PROVE  AccountTraced'
    BY DEF AccountTraced
  <2>1. PICK i \in Invites : /\ account.owner \in asked[i]
                             /\ \/ op[i].stage = "provider_started"
                                \/ op[i].auth = account.owner
    BY DEF IInv, AccountTraced
  <2>2. Goes(i) /\ RowOK(i) /\ account.owner # None
    BY DEF IInv, Tables, Distinct, Accounts
  <2>3. \/ op'[i].stage = "provider_started"
        \/ op'[i].auth = account.owner
    BY <2>1, <2>2 DEF Goes, RowOK
  <2>4. account.owner \in asked'[i]
    BY <2>1, <2>2 DEF Goes
  <2>5. QED
    BY <2>3, <2>4 DEF AccountTraced
<1>2. ConfirmedAfterAcceptance'
  BY DEF IInv, ConfirmedAfterAcceptance, Goes
<1>3. QED
  BY <1>1, <1>2

\* A step of the request r that concerns the invitation i.
LEMMA RequestStep ==
  ASSUME IInv, TypeOK', NEW r \in Requests, NEW i \in Invites,
         \A j \in Invites \ {i} : /\ inv'[j] = inv[j]
                                  /\ op'[j] = op[j]
                                  /\ asked'[j] = asked[j],
         \A p \in Requests \ {r} : req'[p] = req[p],
         user # None => user' = user,
         RowOK(i)', ReqOK(r)', Goes(i),
         \A p \in Requests \ {r} : At(p, "create") /\ Mine(p) = i =>
            CreatorStays(i) /\ ~(At(r, "create")' /\ Mine(r)' = i),
         At(r, "create")' => Mine(r)' = i
  PROVE  /\ Tables'
         /\ UNCHANGED account => AccountTraced' /\ ConfirmedAfterAcceptance'
<1>1. \A j \in Invites : Goes(j)
  BY DEF Goes
<1>2. \A j \in Invites : RowOK(j)'
  BY DEF IInv, Tables, RowOK
<1>3. ASSUME NEW p \in Requests \ {r}
      PROVE  ReqOK(p)'
  <2>1. req'[p] = req[p]
    OBVIOUS
  <2>2. ASSUME At(p, "create")
        PROVE  CreatorStays(Mine(p))
    <3>1. Mine(p) \in Invites
      BY <2>2 DEF IInv, Tables, ReqOK, At
    <3>2. CASE Mine(p) = i
      BY <2>2, <3>2
    <3>3. CASE Mine(p) # i
      BY <3>1, <3>3 DEF CreatorStays
    <3>4. QED
      BY <3>2, <3>3
  <2>3. QED
    BY <1>1, <2>1, <2>2, OtherRequest
<1>4. SoleCreator'
  BY DEF IInv, Tables, SoleCreator, At, Mine
<1>5. QED
  BY <1>1, <1>2, <1>3, <1>4, AccountStays DEF Tables

--------------------------------------------------------------------------------
(* The administrator, the clock and the person *)

\* A step that changes only rows of invitations: a new link only before anybody
\* reserved the old one, an end only before anybody can have asked for an account.
LEMMA RowStep ==
  ASSUME IInv, inv' \in [Invites -> Invitation],
         UNCHANGED <<kind, op, account, user, req, asked>>, granted' \in BOOLEAN,
         \A i \in Invites :
           /\ inv'[i].by = inv[i].by
           /\ op[i].stage # None => inv'[i].token = inv[i].token
           /\ inv'[i].status = "accepted" <=> inv[i].status = "accepted"
           /\ inv'[i].status \in {"cancelled", "expired"} =>
                inv[i].status \in {"cancelled", "expired"} \/ op[i].stage \in {None, "reserved"}
  PROVE  IInv'
<1>1. TypeOK'
  BY DEF IInv, TypeOK
<1>2. \A i \in Invites : Goes(i)
  BY DEF Goes
<1>3. ASSUME NEW i \in Invites
      PROVE  RowOK(i)'
  BY DEF IInv, Tables, RowOK
<1>4. ASSUME NEW r \in Requests
      PROVE  ReqOK(r)'
  <2>1. ASSUME At(r, "create")
        PROVE  CreatorStays(Mine(r))
    <3>1. Mine(r) \in Invites /\ op[Mine(r)].stage = "provider_started"
      BY <2>1 DEF IInv, Tables, ReqOK, At
    <3>2. op[Mine(r)].stage \notin {None, "reserved"}
      BY <3>1 DEF IInv, Distinct
    <3>3. QED
      BY <3>1, <3>2 DEF CreatorStays
  <2>2. QED
    BY <1>2, <2>1, OtherRequest
<1>5. SoleCreator'
  BY DEF IInv, Tables, SoleCreator, At, Mine
<1>6. QED
  BY <1>1, <1>2, <1>3, <1>4, <1>5, AccountStays DEF IInv, Tables, Distinct, Accounts

LEMMA CreateKeeps ==
  ASSUME IInv, NEW i \in Invites, Create(i)
  PROVE  IInv'
<1>1. \A j \in Invites : inv[j] \in Invitation
  BY DEF IInv, TypeOK
<1>2. inv' \in [Invites -> Invitation]
  BY <1>1 DEF Create, Invitation
<1>3. ASSUME NEW j \in Invites
      PROVE  /\ inv'[j].by = inv[j].by
             /\ inv'[j].token = inv[j].token
             /\ inv'[j].status = "accepted" <=> inv[j].status = "accepted"
             /\ inv'[j].status \in {"cancelled", "expired"} =>
                  inv[j].status \in {"cancelled", "expired"} \/ op[j].stage = None
  BY <1>1 DEF Create, Invitation
<1>4. UNCHANGED <<kind, op, account, user, req, asked, granted>> /\ granted \in BOOLEAN
  BY DEF Create, People, IInv, TypeOK
<1>5. QED
  BY <1>2, <1>3, <1>4, RowStep

LEMMA AdministerKeeps ==
  ASSUME IInv, NEW i \in Invites, Resend(i) \/ Cancel(i) \/ Expire(i) \/ Elapse(i)
  PROVE  IInv'
<1>1. inv \in [Invites -> Invitation] /\ inv[i] \in Invitation
  BY DEF IInv, TypeOK
<1>2. inv' \in [Invites -> Invitation]
  <2>1. CASE Resend(i)
    <3>1. inv[i].token + 1 \in 0..MaxTokens
      BY <2>1, <1>1 DEF Resend, Invitation, IInv, Distinct
    <3>2. QED
      BY <2>1, <3>1, <1>1 DEF Resend, Invitation
  <2>2. CASE Cancel(i)
    BY <2>2, <1>1 DEF Cancel, SetStatus, Invitation
  <2>3. CASE Expire(i)
    BY <2>3, <1>1 DEF Expire, SetStatus, Invitation
  <2>4. CASE Elapse(i)
    BY <2>4, <1>1 DEF Elapse, Invitation
  <2>5. QED
    BY <2>1, <2>2, <2>3, <2>4
<1>3. ASSUME NEW j \in Invites
      PROVE  /\ inv'[j].by = inv[j].by
             /\ op[j].stage # None => inv'[j].token = inv[j].token
             /\ inv'[j].status = "accepted" <=> inv[j].status = "accepted"
             /\ inv'[j].status \in {"cancelled", "expired"} =>
                  \/ inv[j].status \in {"cancelled", "expired"}
                  \/ op[j].stage \in {None, "reserved"}
  <2>1. CASE j # i
    BY <2>1, <1>1 DEF Resend, Cancel, Expire, Elapse, SetStatus
  <2>2. CASE j = i
    BY <2>2, <1>1 DEF Resend, Cancel, Expire, Elapse, SetStatus, Unstarted, Invitation
  <2>3. QED
    BY <2>1, <2>2
<1>4. UNCHANGED <<kind, op, account, user, req, asked, granted>> /\ granted \in BOOLEAN
  BY DEF Resend, Cancel, Expire, Elapse, People, IInv, TypeOK
<1>5. QED
  BY <1>2, <1>3, <1>4, RowStep

LEMMA RevokeKeeps ==
  ASSUME IInv, RevokeAdmin
  PROVE  IInv'
<1>1. UNCHANGED <<kind, inv, op, account, user, req, asked>> /\ granted' \in BOOLEAN
  BY DEF RevokeAdmin, People
<1>2. QED
  BY <1>1, RowStep DEF IInv, TypeOK

\* The person's own account is no request's, and nobody else's becomes confirmed by it.
LEMMA PersonKeeps ==
  ASSUME IInv, SignUp \/ Profile
  PROVE  IInv'
<1>1. UNCHANGED <<kind, inv, op, granted, req, asked>>
  BY DEF SignUp, Profile
<1>2. account.owner # None => UNCHANGED account
  BY DEF SignUp, Profile
<1>3. user # None => UNCHANGED user
  BY DEF SignUp, Profile
<1>4. TypeOK'
  BY <1>1 DEF IInv, TypeOK, SignUp, Profile, Accounts
<1>5. Tables'
  BY <1>1, <1>3 DEF IInv, Tables, RowOK, ReqOK, SoleCreator, At, Mine
<1>6. CASE UNCHANGED account
  BY <1>1, <1>4, <1>5, <1>6 DEF IInv, AccountTraced, ConfirmedAfterAcceptance, Distinct, Accounts
<1>7. CASE SignUp
  <2>1. account.owner = None /\ account'.owner = Self /\ account'.confirmed = account.confirmed
    BY <1>7 DEF SignUp, IInv, TypeOK
  <2>2. AccountTraced'
    BY <2>1 DEF AccountTraced, IInv, Distinct
  <2>3. ~account.confirmed
    <3> SUFFICES ASSUME account.confirmed
                 PROVE  FALSE
      OBVIOUS
    <3>1. PICK i \in Invites : inv[i].status = "accepted" /\ inv[i].by = None
      BY <2>1 DEF IInv, ConfirmedAfterAcceptance
    <3>2. RowOK(i) /\ op[i].stage \in Provided
      BY <3>1 DEF IInv, Tables, RowOK, Provided
    <3>3. QED
      BY <3>1, <3>2 DEF RowOK
  <2>4. QED
    BY <1>4, <1>5, <2>1, <2>2, <2>3 DEF IInv, ConfirmedAfterAcceptance, Distinct, Accounts
<1>8. QED
  BY <1>6, <1>7 DEF Profile

--------------------------------------------------------------------------------
(* The requests *)

\* The request r goes on with what it knows, and nothing else changes.
LEMMA ReadStep ==
  ASSUME IInv, NEW r \in Requests, NEW q \in Request,
         req' = [req EXCEPT ![r] = q],
         UNCHANGED <<kind, inv, op, account, user, granted, asked>>,
         q.inv \in Invites, q.at # "create",
         ReqOK(r)'
  PROVE  IInv'
<1>1. /\ TypeOK'
      /\ req'[r] = q
      /\ \A p \in Requests \ {r} : req'[p] = req[p]
  BY DEF IInv, TypeOK
<1>2. RowOK(q.inv)' /\ Goes(q.inv)
  BY DEF IInv, Tables, RowOK, Goes
<1>3. CreatorStays(q.inv) /\ ~At(r, "create")'
  BY <1>1 DEF CreatorStays, At
<1>4. Tables' /\ AccountTraced' /\ ConfirmedAfterAcceptance'
  BY <1>1, <1>2, <1>3, RequestStep
<1>5. QED
  BY <1>1, <1>4 DEF IInv, Distinct, Accounts

\* The request r ends, having changed nothing in this step.
LEMMA EndStep ==
  ASSUME IInv, NEW r \in Requests, ~At(r, "idle"), Go(r, "done"),
         UNCHANGED <<kind, inv, op, account, user, granted, asked>>
  PROVE  IInv'
<1> DEFINE q == [req[r] EXCEPT !.at = "done"]
<1>1. req[r] \in Request /\ Mine(r) \in Invites
  BY DEF IInv, TypeOK, Tables, ReqOK
<1>2. /\ q \in Request /\ q.at = "done" /\ q.inv = Mine(r) /\ q.actor = req[r].actor
      /\ req' = [req EXCEPT ![r] = q]
  BY <1>1 DEF Request, Go, Mine
<1>3. req'[r] = q
  BY <1>2 DEF IInv, TypeOK
<1> HIDE DEF q
<1>4. ReqOK(r)'
  BY <1>1, <1>2, <1>3 DEF ReqOK, At, Mine, Late, IInv, Tables
<1>5. QED
  BY <1>1, <1>2, <1>4, ReadStep

LEMMA OpenKeeps ==
  ASSUME IInv, NEW r \in Requests, NEW i \in Invites, Accept(r, i) \/ AskRecovery(r, i)
  PROVE  IInv'
<1>1. PICK actor \in BOOLEAN, next \in {"lookup", "recover"} :
        Open(r, i, actor, next) /\ (actor => user # None)
  BY DEF Accept, AskRecovery
<1> DEFINE q == [at |-> next, inv |-> i, token |-> inv[i].token, actor |-> actor, op |-> op[i]]
<1>2. q \in Request /\ q.inv = i /\ q.at = next /\ q.actor = actor
  BY DEF IInv, TypeOK, Request, Invitation
<1>3. req' = [req EXCEPT ![r] = q]
      /\ UNCHANGED <<kind, inv, op, account, user, granted, asked>>
  BY <1>1 DEF Open, People
<1> HIDE DEF q
<1>4. req'[r] = q
  BY <1>3 DEF IInv, TypeOK
<1>5. ReqOK(r)'
  BY <1>1, <1>2, <1>3, <1>4 DEF ReqOK, At, Mine, Late
<1>6. QED
  BY <1>2, <1>3, <1>5, ReadStep

\* Before there is an account, none is confirmed.
LEMMA NothingConfirmed ==
  ASSUME IInv, account.owner = None
  PROVE  ~account.confirmed
<1> SUFFICES ASSUME account.confirmed
             PROVE  FALSE
  OBVIOUS
<1>1. PICK i \in Invites : inv[i].status = "accepted" /\ inv[i].by = None
  BY DEF IInv, ConfirmedAfterAcceptance
<1>2. RowOK(i) /\ op[i].stage \in Provided
  BY <1>1 DEF IInv, Tables, RowOK, Provided
<1>3. QED
  BY <1>1, <1>2 DEF RowOK

\* The request r makes its next call, and knows what it knew.
LEMMA GoStep ==
  ASSUME IInv, NEW r \in Requests, ~At(r, "idle"),
         NEW step \in {"lookup", "reserve", "start", "create", "record", "provision",
                       "claim", "recover", "confirm", "mark", "done"},
         Go(r, step)
  PROVE  /\ req' \in [Requests -> Request]
         /\ req' = [req EXCEPT ![r] = req'[r]]
         /\ req'[r].at = step /\ req'[r].inv = Mine(r) /\ Mine(r) \in Invites
         /\ req'[r].token = req[r].token /\ req'[r].actor = req[r].actor
         /\ req'[r].op = req[r].op
         /\ \A p \in Requests \ {r} : req'[p] = req[p]
<1>1. req \in [Requests -> Request] /\ req[r] \in Request /\ Mine(r) \in Invites
  BY DEF IInv, TypeOK, Tables, ReqOK
<1> DEFINE q == [req[r] EXCEPT !.at = step]
<1>2. /\ q \in Request /\ q.at = step /\ q.inv = Mine(r) /\ q.token = req[r].token
      /\ q.actor = req[r].actor /\ q.op = req[r].op
  BY <1>1 DEF Request, Mine
<1>3. req' = [req EXCEPT ![r] = q]
  BY DEF Go
<1> HIDE DEF q
<1>4. QED
  BY <1>1, <1>2, <1>3

LEMMA LookUpKeeps ==
  ASSUME IInv, NEW r \in Requests, LookUp(r)
  PROVE  IInv'
<1>1. PICK step \in {"reserve", "done"} : Go(r, step)
  BY DEF LookUp
<1>2. ~At(r, "idle") /\ UNCHANGED <<kind, inv, op, account, user, granted, asked>>
  BY DEF LookUp, At, People
<1>3. ReqOK(r)'
  BY <1>1, <1>2, GoStep DEF ReqOK, At, Mine, Late, IInv, Tables
<1>4. QED
  BY <1>1, <1>2, <1>3, GoStep, ReadStep

\* A request that is handed the operation o of its invitation.
LEMMA ResumeStep ==
  ASSUME IInv, NEW r \in Requests, At(r, "reserve"), NEW o \in Operation, Resume(r, o)
  PROVE  /\ req' \in [Requests -> Request]
         /\ req' = [req EXCEPT ![r] = req'[r]]
         /\ req'[r].inv = Mine(r) /\ Mine(r) \in Invites /\ Mine(r) # None
         /\ req'[r].token = req[r].token /\ req'[r].actor = req[r].actor
         /\ req'[r].op = o
         /\ req'[r].at \in {"start", "provision", "claim", "confirm", "done"}
         /\ req'[r].at = "start" => o.stage = "reserved"
         /\ req'[r].at = "provision" => o.stage = "provider_created"
         /\ req'[r].at = "claim" => o.stage = "user_created"
         /\ req'[r].at = "confirm" => o.stage = "accepted"
         /\ \A p \in Requests \ {r} : req'[p] = req[p]
<1>1. /\ req \in [Requests -> Request] /\ req[r] \in Request
      /\ Mine(r) \in Invites /\ Mine(r) # None
  BY DEF IInv, TypeOK, Tables, ReqOK, At, Distinct
<1> DEFINE step == CASE o.stage = "reserved"         -> IF req[r].actor THEN "done" ELSE "start"
                     [] o.stage = "provider_created" -> "provision"
                     [] o.stage = "user_created"     -> "claim"
                     [] o.stage = "accepted"         -> IF o.new THEN "confirm" ELSE "done"
                     [] OTHER                        -> "done"
           q == [req[r] EXCEPT !.op = o, !.at = step]
<1>2. /\ step \in {"start", "provision", "claim", "confirm", "done"}
      /\ step = "start" => o.stage = "reserved"
      /\ step = "provision" => o.stage = "provider_created"
      /\ step = "claim" => o.stage = "user_created"
      /\ step = "confirm" => o.stage = "accepted"
  OBVIOUS
<1>3. req' = [req EXCEPT ![r] = q]
  BY <1>1 DEF Resume
<1> HIDE DEF step
<1>4. /\ q \in Request /\ q.at = step /\ q.inv = Mine(r) /\ q.token = req[r].token
      /\ q.actor = req[r].actor /\ q.op = o
  BY <1>1, <1>2 DEF Request, Mine
<1> HIDE DEF q
<1>5. QED
  BY <1>1, <1>2, <1>3, <1>4

LEMMA ReopenKeeps ==
  ASSUME IInv, NEW r \in Requests, At(r, "reserve"), Reopen(r, Mine(r)),
         UNCHANGED <<kind, inv, account, user, granted, asked>>
  PROVE  IInv'
<1> DEFINE i == Mine(r)
<1>1. i \in Invites /\ op[i] \in Operation /\ RowOK(i) /\ ReqOK(r)
  BY DEF IInv, TypeOK, Tables, ReqOK, At
<1>2. Resume(r, op[i]) /\ UNCHANGED op /\ op[i].stage # None /\ inv[i].token = req[r].token
  BY DEF Reopen
<1>3. op[i].stage = "provider_created" => op[i].auth # None
  BY <1>1 DEF RowOK, IInv, TypeOK, Distinct, Accounts
<1>4. ReqOK(r)'
  BY <1>1, <1>2, <1>3, ResumeStep DEF ReqOK, RowOK, Provided, At, Mine, Late
<1>5. QED
  BY <1>1, <1>2, <1>4, ResumeStep, ReadStep

LEMMA ReserveNewKeeps ==
  ASSUME IInv, NEW r \in Requests, NEW i \in Invites, i = Mine(r),
         At(r, "reserve"), ReserveNew(r, i),
         UNCHANGED <<kind, inv, account, user, granted, asked>>
  PROVE  IInv'
<1> DEFINE o == NewOperation(r)
<1>1. i \in Invites /\ op[i] \in Operation /\ RowOK(i) /\ ReqOK(r)
  BY DEF IInv, TypeOK, Tables, ReqOK, At
<1>2. /\ o \in Operation
      /\ o.stage = IF req[r].actor THEN "user_created" ELSE "reserved"
      /\ o.new = ~req[r].actor
      /\ o.auth = o.user
      /\ o.user = IF req[r].actor THEN user ELSE None
  BY DEF NewOperation, Operation, IInv, TypeOK, Request
<1>3. /\ Resume(r, o) /\ op[i].stage = None /\ inv[i].token = req[r].token
      /\ inv[i].status = "invited" /\ op' = [op EXCEPT ![i] = o]
  BY DEF ReserveNew
<1> HIDE DEF o
<1>4. TypeOK'
  BY <1>1, <1>2, <1>3, ResumeStep DEF IInv, TypeOK
<1>5. op'[i] = o /\ \A j \in Invites \ {i} : op'[j] = op[j]
  BY <1>1, <1>3 DEF IInv, TypeOK
<1>6. req[r].actor => user # None
  BY <1>1 DEF ReqOK
<1>7. o.stage # None
  BY <1>2 DEF IInv, Distinct
<1>8. RowOK(i)'
  <2>1. asked'[i] = {} /\ inv'[i] = inv[i] /\ user' = user
    BY <1>1, <1>3 DEF RowOK
  <2>2. CASE req[r].actor
    BY <1>2, <1>3, <1>5, <1>6, <1>7, <2>1, <2>2 DEF RowOK, Provided
  <2>3. CASE ~req[r].actor
    BY <1>2, <1>3, <1>5, <1>7, <2>1, <2>3 DEF RowOK, Provided
  <2>4. QED
    BY <2>2, <2>3
<1>9. ReqOK(r)'
  BY <1>1, <1>2, <1>3, <1>5, <1>6, <1>7, ResumeStep DEF ReqOK, At, Mine, Late
<1>10. Goes(i)
  BY <1>1, <1>3, <1>5 DEF Goes, RowOK, IInv, Distinct
<1>11. ASSUME NEW p \in Requests \ {r}, At(p, "create"), Mine(p) = i
       PROVE  FALSE
  BY <1>3, <1>11 DEF IInv, Tables, ReqOK, At, Mine, Distinct
<1>12. ~At(r, "create")'
  BY <1>2, <1>3, ResumeStep DEF At
<1>13. Tables' /\ AccountTraced' /\ ConfirmedAfterAcceptance'
  BY <1>1, <1>2, <1>3, <1>4, <1>5, <1>8, <1>9, <1>10, <1>11, <1>12, ResumeStep, RequestStep
<1>14. QED
  BY <1>4, <1>13 DEF IInv, Distinct, Accounts

LEMMA ReserveKeeps ==
  ASSUME IInv, NEW r \in Requests, Reserve(r)
  PROVE  IInv'
<1>1. /\ At(r, "reserve") /\ ~At(r, "idle")
      /\ UNCHANGED <<kind, inv, account, user, granted, asked>>
  BY DEF Reserve, People, At
<1>2. CASE Reopen(r, Mine(r))
  BY <1>1, <1>2, ReopenKeeps
<1>3. CASE ReserveNew(r, Mine(r))
  BY <1>1, <1>3, ReserveNewKeeps DEF IInv, Tables, ReqOK
<1>4. CASE Go(r, "done") /\ UNCHANGED op
  BY <1>1, <1>4, EndStep
<1>5. QED
  BY <1>2, <1>3, <1>4 DEF Reserve

LEMMA StartKeeps ==
  ASSUME IInv, NEW r \in Requests, NEW i \in Invites, i = Mine(r), Start(r)
  PROVE  IInv'
<1>1. ~At(r, "idle") /\ UNCHANGED <<kind, inv, account, user, granted, asked>>
  BY DEF Start, People, At
<1>2. i \in Invites /\ op[i] \in Operation /\ RowOK(i) /\ ReqOK(r) /\ At(r, "start")
  BY DEF IInv, TypeOK, Tables, ReqOK, At, Start
<1>3. CASE Advanceable(i, "reserved")
  <2>1. /\ op' = [op EXCEPT ![i].stage = "provider_started"] /\ Go(r, "create")
        /\ op[i].stage = "reserved" /\ inv[i].status = "invited"
    BY <1>3 DEF Start, Advanceable
  <2>2. /\ op'[i] \in Operation
        /\ op'[i].stage = "provider_started" /\ op'[i].new = op[i].new
        /\ op'[i].auth = op[i].auth /\ op'[i].user = op[i].user
        /\ \A j \in Invites \ {i} : op'[j] = op[j]
    BY <1>2, <2>1 DEF IInv, TypeOK, Operation
  <2>3. TypeOK'
    BY <1>1, <1>2, <2>1, <2>2, GoStep DEF IInv, TypeOK
  <2>4. op[i].stage # None /\ op'[i].stage # None
    BY <2>1, <2>2 DEF IInv, Distinct
  <2>5. RowOK(i)'
    BY <1>1, <1>2, <2>1, <2>2, <2>4 DEF RowOK, Provided
  <2>6. ReqOK(r)'
    <3>1. /\ req'[r].at = "create" /\ req'[r].inv = i /\ req'[r].op = req[r].op
          /\ req'[r].token = req[r].token /\ req'[r].actor = req[r].actor
      BY <1>1, <2>1, GoStep
    <3>2. QED
      BY <1>1, <1>2, <2>1, <2>2, <2>4, <3>1 DEF ReqOK, RowOK, At, Mine, Late
  <2>7. Goes(i)
    BY <1>1, <2>1, <2>2, <2>4 DEF Goes
  <2>8. ASSUME NEW p \in Requests \ {r}, At(p, "create"), Mine(p) = i
        PROVE  FALSE
    BY <2>1, <2>8 DEF IInv, Tables, ReqOK, At, Mine
  <2>9. Mine(r)' = i
    BY <1>1, <2>1, GoStep DEF Mine
  <2>10. Tables' /\ AccountTraced' /\ ConfirmedAfterAcceptance'
    BY <1>1, <1>2, <2>1, <2>2, <2>3, <2>5, <2>6, <2>7, <2>8, <2>9, GoStep, RequestStep
  <2>11. QED
    BY <2>3, <2>10 DEF IInv, Distinct, Accounts
<1>4. CASE ~Advanceable(i, "reserved")
  <2>1. Go(r, "done") /\ UNCHANGED op
    BY <1>4 DEF Start
  <2>2. QED
    BY <1>1, <2>1, EndStep
<1>5. QED
  BY <1>3, <1>4

LEMMA CreateAccountKeeps ==
  ASSUME IInv, NEW r \in Requests, NEW i \in Invites, i = Mine(r), CreateAccount(r)
  PROVE  IInv'
<1>1. ~At(r, "idle") /\ At(r, "create") /\ UNCHANGED <<kind, inv, op, user, granted>>
  BY DEF CreateAccount, At
<1>2. /\ RowOK(i) /\ ReqOK(r) /\ op[i].stage = "provider_started" /\ asked[i] = {}
      /\ inv[i].status \notin {"cancelled", "expired"}
  BY <1>1 DEF IInv, Tables, ReqOK
<1>3. PICK step \in {"record", "done"} : Go(r, step)
  BY DEF CreateAccount
<1>4. /\ asked' \in [Invites -> SUBSET Requests]
      /\ asked'[i] = {r}
      /\ \A j \in Invites \ {i} : asked'[j] = asked[j]
  BY <1>2 DEF CreateAccount, IInv, TypeOK
<1>5. \/ account.owner = None /\ account'.owner = r /\ account'.confirmed = account.confirmed
      \/ UNCHANGED account
  BY DEF CreateAccount, IInv, TypeOK
<1>6. account' \in [owner : Accounts \cup {None}, confirmed : BOOLEAN]
  BY DEF CreateAccount, IInv, TypeOK, Accounts
<1>7. TypeOK'
  BY <1>1, <1>3, <1>4, <1>6, GoStep DEF IInv, TypeOK
<1>8. RowOK(i)'
  BY <1>1, <1>2, <1>4 DEF RowOK, Provided, IInv, Distinct
<1>9. ReqOK(r)'
  <2>1. /\ req'[r].at = step /\ req'[r].inv = i /\ req'[r].op = req[r].op
        /\ req'[r].token = req[r].token /\ req'[r].actor = req[r].actor
    BY <1>1, <1>3, GoStep
  <2>2. QED
    BY <1>1, <1>2, <1>4, <2>1 DEF ReqOK, At, Mine, Late
<1>10. Goes(i)
  BY <1>1, <1>2, <1>4 DEF Goes
<1>11. ASSUME NEW p \in Requests \ {r}, At(p, "create"), Mine(p) = i
       PROVE  FALSE
  BY <1>1, <1>11 DEF IInv, Tables, SoleCreator
<1>12. ~At(r, "create")'
  BY <1>1, <1>3, GoStep DEF At
<1>13. Tables' /\ (UNCHANGED account => AccountTraced' /\ ConfirmedAfterAcceptance')
  BY <1>1, <1>3, <1>4, <1>7, <1>8, <1>9, <1>10, <1>11, <1>12, GoStep, RequestStep
<1>14. CASE UNCHANGED account
  BY <1>7, <1>13, <1>14 DEF IInv, Distinct, Accounts
<1>15. CASE account.owner = None /\ account'.owner = r /\ account'.confirmed = account.confirmed
  <2>1. AccountTraced'
    BY <1>1, <1>2, <1>4, <1>15 DEF AccountTraced
  <2>2. ConfirmedAfterAcceptance'
    BY <1>15, NothingConfirmed DEF ConfirmedAfterAcceptance
  <2>3. QED
    BY <1>7, <1>13, <2>1, <2>2 DEF IInv, Distinct, Accounts
<1>16. QED
  BY <1>5, <1>14, <1>15

LEMMA RecordKeeps ==
  ASSUME IInv, NEW r \in Requests, NEW i \in Invites, i = Mine(r), Record(r)
  PROVE  IInv'
<1>1. ~At(r, "idle") /\ UNCHANGED <<kind, inv, account, user, granted, asked>>
  BY DEF Record, People, At
<1>2. op[i] \in Operation /\ req[r] \in Request /\ RowOK(i) /\ ReqOK(r) /\ At(r, "record")
  BY DEF IInv, TypeOK, Tables, Record
<1>3. r \in asked[i] /\ r # None /\ r \in Accounts
  BY <1>2 DEF ReqOK, IInv, Distinct, Accounts
<1>4. CASE Advanceable(i, "provider_started")
  <2> DEFINE q == [req[r] EXCEPT !.at = "provision", !.op.auth = r]
  <2>1. /\ op' = [op EXCEPT ![i].stage = "provider_created", ![i].auth = r]
        /\ req' = [req EXCEPT ![r] = q]
        /\ op[i].stage = "provider_started" /\ inv[i].status = "invited"
    BY <1>2, <1>4 DEF Record, Advanceable, IInv, TypeOK
  <2>2. /\ op' \in [Invites -> Operation]
        /\ op'[i].stage = "provider_created" /\ op'[i].new = op[i].new
        /\ op'[i].auth = r /\ op'[i].user = op[i].user
        /\ \A j \in Invites \ {i} : op'[j] = op[j]
    BY <1>2, <1>3, <2>1 DEF IInv, TypeOK, Operation
  <2>3. /\ q \in Request /\ q.at = "provision" /\ q.inv = i /\ q.token = req[r].token
        /\ q.actor = req[r].actor /\ q.op.auth = r
    BY <1>2, <1>3 DEF Request, Operation, Mine
  <2> HIDE DEF q
  <2>4. /\ req' \in [Requests -> Request] /\ req'[r] = q
        /\ \A p \in Requests \ {r} : req'[p] = req[p]
    BY <2>1, <2>3 DEF IInv, TypeOK
  <2>5. TypeOK'
    BY <1>1, <2>2, <2>4 DEF IInv, TypeOK
  <2>6. op[i].auth = None /\ op'[i].stage # None
    BY <1>2, <2>1, <2>2 DEF RowOK, IInv, Distinct
  <2>7. RowOK(i)'
    BY <1>1, <1>2, <1>3, <2>1, <2>2, <2>6 DEF RowOK, Provided
  <2>8. ReqOK(r)'
    BY <1>1, <1>2, <1>3, <2>2, <2>3, <2>4, <2>6 DEF ReqOK, At, Mine, Late
  <2>9. Goes(i)
    BY <1>1, <1>3, <2>1, <2>2, <2>6 DEF Goes
  <2>10. ASSUME NEW p \in Requests \ {r}, At(p, "create"), Mine(p) = i
         PROVE  FALSE
    BY <1>3, <2>10 DEF IInv, Tables, ReqOK
  <2>11. ~At(r, "create")'
    BY <2>3, <2>4 DEF At
  <2>12. Tables' /\ AccountTraced' /\ ConfirmedAfterAcceptance'
    BY <1>1, <2>2, <2>4, <2>5, <2>7, <2>8, <2>9, <2>10, <2>11, RequestStep
  <2>13. QED
    BY <2>5, <2>12 DEF IInv, Distinct, Accounts
<1>5. CASE ~Advanceable(i, "provider_started")
  <2>1. Go(r, "done") /\ UNCHANGED op
    BY <1>5 DEF Record
  <2>2. QED
    BY <1>1, <2>1, EndStep
<1>6. QED
  BY <1>4, <1>5

LEMMA ProvisionKeeps ==
  ASSUME IInv, NEW r \in Requests, NEW i \in Invites, i = Mine(r), Provision(r)
  PROVE  IInv'
<1>1. ~At(r, "idle") /\ UNCHANGED <<kind, inv, account, granted, asked>>
  BY DEF Provision, At
<1>2. op[i] \in Operation /\ req[r] \in Request /\ RowOK(i) /\ ReqOK(r) /\ At(r, "provision")
  BY DEF IInv, TypeOK, Tables, Provision
<1>3. CASE Advanceable(i, "provider_created") /\ user \in {None, op[i].auth}
  <2> DEFINE q == [req[r] EXCEPT !.at = "claim", !.op.user = op[i].auth]
  <2>1. /\ op' = [op EXCEPT ![i].stage = "user_created", ![i].user = op[i].auth]
        /\ user' = op[i].auth
        /\ req' = [req EXCEPT ![r] = q]
        /\ op[i].stage = "provider_created" /\ inv[i].status = "invited"
    BY <1>2, <1>3 DEF Provision, Advanceable, IInv, TypeOK
  <2>2. op[i].auth \in asked[i] /\ op[i].auth \in Accounts /\ op[i].auth # None
    BY <1>2, <2>1 DEF RowOK, IInv, TypeOK, Distinct, Accounts
  <2>3. /\ op' \in [Invites -> Operation]
        /\ op'[i].stage = "user_created" /\ op'[i].new = op[i].new
        /\ op'[i].auth = op[i].auth /\ op'[i].user = op[i].auth
        /\ \A j \in Invites \ {i} : op'[j] = op[j]
    BY <1>2, <2>1, <2>2 DEF IInv, TypeOK, Operation
  <2>4. /\ q \in Request /\ q.at = "claim" /\ q.inv = i /\ q.token = req[r].token
        /\ q.actor = req[r].actor /\ q.op.auth = req[r].op.auth /\ q.op.user = op[i].auth
    BY <1>2, <2>2 DEF Request, Operation, Mine
  <2> HIDE DEF q
  <2>5. /\ req' \in [Requests -> Request] /\ req'[r] = q
        /\ \A p \in Requests \ {r} : req'[p] = req[p]
    BY <2>1, <2>4 DEF IInv, TypeOK
  <2>6. TypeOK'
    BY <1>1, <2>1, <2>2, <2>3, <2>5 DEF IInv, TypeOK
  <2>7. user # None => user' = user
    BY <1>3, <2>1
  <2>8. RowOK(i)'
    BY <1>1, <1>2, <2>1, <2>2, <2>3 DEF RowOK, Provided, IInv, Distinct
  <2>9. ReqOK(r)'
    BY <1>1, <1>2, <2>1, <2>2, <2>3, <2>4, <2>5 DEF ReqOK, At, Mine, Late, IInv, Distinct
  <2>10. Goes(i)
    BY <1>1, <2>1, <2>2, <2>3 DEF Goes, IInv, Distinct
  <2>11. ASSUME NEW p \in Requests \ {r}, At(p, "create"), Mine(p) = i
         PROVE  FALSE
    BY <2>1, <2>11 DEF IInv, Tables, ReqOK, At
  <2>12. ~At(r, "create")'
    BY <2>4, <2>5 DEF At
  <2>13. Tables' /\ AccountTraced' /\ ConfirmedAfterAcceptance'
    BY <1>1, <2>3, <2>5, <2>6, <2>7, <2>8, <2>9, <2>10, <2>11, <2>12, RequestStep
  <2>14. QED
    BY <2>6, <2>13 DEF IInv, Distinct, Accounts
<1>4. CASE ~(Advanceable(i, "provider_created") /\ user \in {None, op[i].auth})
  <2>1. Go(r, "done") /\ UNCHANGED <<user, op>>
    BY <1>4 DEF Provision
  <2>2. QED
    BY <1>1, <2>1, EndStep
<1>5. QED
  BY <1>3, <1>4

LEMMA FirstClaimKeeps ==
  ASSUME IInv, NEW r \in Requests, NEW i \in Invites, i = Mine(r), At(r, "claim"),
         Finalizable(r, i), FirstClaim(i), Go(r, AfterClaim(r)),
         UNCHANGED <<kind, account, user, asked>>
  PROVE  IInv'
<1>1. inv[i] \in Invitation /\ op[i] \in Operation /\ RowOK(i) /\ ReqOK(r) /\ ~At(r, "idle")
  BY DEF IInv, TypeOK, Tables, At
<1>2. PICK step \in {"confirm", "done"} : Go(r, step)
  BY DEF AfterClaim
<1>3. /\ op[i].stage = "user_created" /\ inv[i].status = "invited"
      /\ op[i].user = req[r].op.user /\ req[r].op.auth = req[r].op.user
  BY <1>1 DEF Finalizable, FirstClaim, RowOK, ReqOK
<1>4. /\ inv' \in [Invites -> Invitation]
      /\ inv'[i].status = "accepted" /\ inv'[i].by = op[i].user
      /\ inv'[i].token = inv[i].token
      /\ \A j \in Invites \ {i} : inv'[j] = inv[j]
  BY <1>1 DEF FirstClaim, IInv, TypeOK, Invitation, Operation
<1>5. /\ op' \in [Invites -> Operation]
      /\ op'[i].stage = "accepted" /\ op'[i].new = op[i].new
      /\ op'[i].auth = op[i].auth /\ op'[i].user = op[i].user
      /\ \A j \in Invites \ {i} : op'[j] = op[j]
  BY <1>1 DEF FirstClaim, IInv, TypeOK, Operation
<1>6. TypeOK'
  BY <1>1, <1>2, <1>4, <1>5, GoStep DEF IInv, TypeOK, FirstClaim
<1>7. op[i].stage # None /\ op'[i].stage # None
  BY <1>3, <1>5 DEF IInv, Distinct
<1>8. RowOK(i)'
  BY <1>1, <1>3, <1>4, <1>5, <1>7 DEF RowOK, Provided, IInv, Distinct
<1>9. ReqOK(r)'
  <2>1. /\ req'[r].at = step /\ req'[r].inv = i /\ req'[r].op = req[r].op
        /\ req'[r].token = req[r].token /\ req'[r].actor = req[r].actor
    BY <1>1, <1>2, GoStep
  <2>2. QED
    BY <1>1, <1>3, <1>4, <1>5, <1>7, <2>1 DEF ReqOK, At, Mine, Late
<1>10. Goes(i)
  BY <1>3, <1>4, <1>5, <1>7 DEF Goes
<1>11. ASSUME NEW p \in Requests \ {r}, At(p, "create"), Mine(p) = i
       PROVE  FALSE
  BY <1>3, <1>11 DEF IInv, Tables, ReqOK, At
<1>12. ~At(r, "create")'
  BY <1>1, <1>2, GoStep DEF At
<1>13. Tables' /\ AccountTraced' /\ ConfirmedAfterAcceptance'
  BY <1>1, <1>2, <1>4, <1>5, <1>6, <1>8, <1>9, <1>10, <1>11, <1>12, GoStep, RequestStep
<1>14. QED
  BY <1>6, <1>13 DEF IInv, Distinct, Accounts

LEMMA ClaimKeeps ==
  ASSUME IInv, NEW r \in Requests, NEW i \in Invites, i = Mine(r), Claim(r)
  PROVE  IInv'
<1>1. At(r, "claim") /\ ~At(r, "idle") /\ UNCHANGED <<kind, account, user, asked>>
  BY DEF Claim, People, At
<1>2. CASE Go(r, "done") /\ UNCHANGED <<inv, op, granted>>
  BY <1>1, <1>2, EndStep
<1>3. CASE Finalizable(r, i) /\ FirstClaim(i) /\ Go(r, AfterClaim(r))
  BY <1>1, <1>3, FirstClaimKeeps
<1>4. CASE Finalizable(r, i) /\ RepeatedClaim(i) /\ Go(r, AfterClaim(r))
  <2>1. PICK step \in {"confirm", "done"} : Go(r, step)
    BY <1>4 DEF AfterClaim
  <2>2. /\ UNCHANGED <<inv, op, granted>> /\ ReqOK(r)
        /\ inv[i].status = "accepted" /\ inv[i].by = req[r].op.auth
    BY <1>1, <1>4 DEF RepeatedClaim, Finalizable, IInv, Tables, ReqOK
  <2>3. ReqOK(r)'
    <3>1. /\ req'[r].at = step /\ req'[r].inv = i /\ req'[r].op = req[r].op
          /\ req'[r].token = req[r].token /\ req'[r].actor = req[r].actor
      BY <1>1, <2>1, GoStep
    <3>2. QED
      BY <1>1, <2>2, <3>1 DEF ReqOK, At, Mine, Late
  <2>4. QED
    BY <1>1, <2>1, <2>2, <2>3, GoStep, ReadStep
<1>5. QED
  BY <1>2, <1>3, <1>4 DEF Claim

LEMMA RecoverKeeps ==
  ASSUME IInv, NEW r \in Requests, NEW i \in Invites, i = Mine(r), Recover(r)
  PROVE  IInv'
<1>1. ~At(r, "idle") /\ UNCHANGED <<kind, inv, op, account, user, granted, asked>>
  BY DEF Recover, People, At
<1>2. op[i] \in Operation /\ req[r] \in Request /\ RowOK(i) /\ ReqOK(r)
  BY DEF IInv, TypeOK, Tables
<1>3. CASE Recoverable(i) /\ inv[i].token = req[r].token /\ op[i].stage = "accepted"
  <2> DEFINE q == [req[r] EXCEPT !.at = "confirm", !.op = op[i]]
  <2>1. req' = [req EXCEPT ![r] = q]
    BY <1>2, <1>3 DEF Recover, IInv, TypeOK
  <2>2. /\ q \in Request /\ q.at = "confirm" /\ q.inv = i /\ q.token = req[r].token
        /\ q.actor = req[r].actor /\ q.op = op[i]
    BY <1>2 DEF Request, Mine
  <2> HIDE DEF q
  <2>3. req'[r] = q
    BY <2>1 DEF IInv, TypeOK
  <2>4. op[i].stage # None /\ inv[i].status = "accepted" /\ inv[i].by = op[i].auth
    BY <1>2, <1>3 DEF RowOK, Recoverable, Provided, IInv, Distinct
  <2>5. ReqOK(r)'
    BY <1>1, <1>2, <1>3, <2>2, <2>3, <2>4 DEF ReqOK, At, Mine, Late
  <2>6. QED
    BY <1>1, <2>1, <2>2, <2>5, ReadStep
<1>4. CASE ~(Recoverable(i) /\ inv[i].token = req[r].token /\ op[i].stage = "accepted")
  <2>1. Go(r, "done")
    BY <1>4 DEF Recover
  <2>2. QED
    BY <1>1, <2>1, EndStep
<1>5. QED
  BY <1>3, <1>4

LEMMA ConfirmKeeps ==
  ASSUME IInv, NEW r \in Requests, NEW i \in Invites, i = Mine(r), Confirm(r)
  PROVE  IInv'
<1>1. /\ At(r, "confirm") /\ ~At(r, "idle") /\ Go(r, "mark")
      /\ UNCHANGED <<kind, inv, op, user, granted, asked>>
  BY DEF Confirm, At
<1>2. RowOK(i) /\ ReqOK(r) /\ inv[i].status = "accepted" /\ inv[i].by = req[r].op.auth
  BY <1>1 DEF IInv, Tables, ReqOK, At
<1>3. /\ account' \in [owner : Accounts \cup {None}, confirmed : BOOLEAN]
      /\ account'.owner = account.owner
      /\ account'.confirmed => account.confirmed \/ account.owner = req[r].op.auth
  BY DEF Confirm, IInv, TypeOK
<1>4. TypeOK'
  BY <1>1, <1>3, GoStep DEF IInv, TypeOK
<1>5. RowOK(i)' /\ Goes(i) /\ CreatorStays(i)
  BY <1>1, <1>2 DEF RowOK, Goes, CreatorStays
<1>6. ReqOK(r)' /\ ~At(r, "create")'
  BY <1>1, <1>2, GoStep DEF ReqOK, At, Mine, Late
<1>7. Tables'
  BY <1>1, <1>4, <1>5, <1>6, GoStep, RequestStep
<1>8. AccountTraced'
  BY <1>1, <1>3 DEF IInv, AccountTraced
<1>9. ConfirmedAfterAcceptance'
  BY <1>1, <1>2, <1>3 DEF IInv, ConfirmedAfterAcceptance
<1>10. QED
  BY <1>4, <1>7, <1>8, <1>9 DEF IInv, Distinct, Accounts

LEMMA MarkKeeps ==
  ASSUME IInv, NEW r \in Requests, NEW i \in Invites, i = Mine(r), Mark(r)
  PROVE  IInv'
<1>1. /\ At(r, "mark") /\ ~At(r, "idle") /\ Go(r, "done")
      /\ UNCHANGED <<kind, inv, account, user, granted, asked>>
  BY DEF Mark, People, At
<1>2. CASE UNCHANGED op
  BY <1>1, <1>2, EndStep
<1>3. CASE op[i].stage = "accepted" /\ op' = [op EXCEPT ![i].stage = "confirmed"]
  <2>1. op[i] \in Operation /\ RowOK(i) /\ ReqOK(r)
    BY DEF IInv, TypeOK, Tables
  <2>2. /\ op' \in [Invites -> Operation]
        /\ op'[i].stage = "confirmed" /\ op'[i].new = op[i].new
        /\ op'[i].auth = op[i].auth /\ op'[i].user = op[i].user
        /\ \A j \in Invites \ {i} : op'[j] = op[j]
    BY <1>3, <2>1 DEF IInv, TypeOK, Operation
  <2>3. TypeOK'
    BY <1>1, <2>2, GoStep DEF IInv, TypeOK
  <2>4. op'[i].stage # None
    BY <2>2 DEF IInv, Distinct
  <2>5. RowOK(i)'
    BY <1>1, <1>3, <2>1, <2>2, <2>4 DEF RowOK, Provided
  <2>6. ReqOK(r)' /\ ~At(r, "create")'
    BY <1>1, <2>1, GoStep DEF ReqOK, At, Mine, Late
  <2>7. Goes(i)
    BY <1>1, <1>3, <2>2, <2>4 DEF Goes
  <2>8. ASSUME NEW p \in Requests \ {r}, At(p, "create"), Mine(p) = i
        PROVE  FALSE
    BY <1>3, <2>8 DEF IInv, Tables, ReqOK, At
  <2>9. Tables' /\ AccountTraced' /\ ConfirmedAfterAcceptance'
    BY <1>1, <2>2, <2>3, <2>5, <2>6, <2>7, <2>8, GoStep, RequestStep
  <2>10. QED
    BY <2>3, <2>9 DEF IInv, Distinct, Accounts
<1>4. QED
  BY <1>2, <1>3 DEF Mark

LEMMA StepKeeps ==
  ASSUME IInv, NEW r \in Requests, Step(r)
  PROVE  IInv'
<1>1. ~At(r, "idle")
  BY DEF Step, LookUp, Reserve, Start, CreateAccount, Record, Provision, Claim, Recover,
         Confirm, Mark, Lose, At
<1>2. PICK i \in Invites : i = Mine(r)
  BY <1>1 DEF IInv, Tables, ReqOK
<1>3. CASE LookUp(r) \/ Reserve(r)
  BY <1>3, LookUpKeeps, ReserveKeeps
<1>4. CASE Start(r) \/ CreateAccount(r) \/ Record(r) \/ Provision(r)
  BY <1>2, <1>4, StartKeeps, CreateAccountKeeps, RecordKeeps, ProvisionKeeps
<1>5. CASE Claim(r) \/ Recover(r) \/ Confirm(r) \/ Mark(r)
  BY <1>2, <1>5, ClaimKeeps, RecoverKeeps, ConfirmKeeps, MarkKeeps
<1>6. CASE Lose(r)
  BY <1>1, <1>6, EndStep DEF Lose, People
<1>7. QED
  BY <1>3, <1>4, <1>5, <1>6 DEF Step

LEMMA StutterKeeps ==
  ASSUME IInv, UNCHANGED vars
  PROVE  IInv'
BY DEF vars, IInv, Distinct, Accounts, TypeOK, Tables, RowOK, ReqOK, SoleCreator, At, Mine,
       AccountTraced, ConfirmedAfterAcceptance

LEMMA NextKeeps == IInv /\ [Next]_vars => IInv'
<1> SUFFICES ASSUME IInv, [Next]_vars
             PROVE  IInv'
  OBVIOUS
<1>1. CASE \E i \in Invites : Administer(i)
  BY <1>1, CreateKeeps, AdministerKeeps DEF Administer
<1>2. CASE RevokeAdmin \/ SignUp \/ Profile
  BY <1>2, RevokeKeeps, PersonKeeps
<1>3. CASE \E r \in Requests : \E i \in Invites : Accept(r, i) \/ AskRecovery(r, i)
  BY <1>3, OpenKeeps
<1>4. CASE \E r \in Requests : Step(r)
  BY <1>4, StepKeeps
<1>5. CASE UNCHANGED vars
  BY <1>5, StutterKeeps
<1>6. QED
  BY <1>1, <1>2, <1>3, <1>4, <1>5 DEF Next

LEMMA Invariance == Spec => []IInv
BY Initially, NextKeeps, PTL DEF Spec

--------------------------------------------------------------------------------
(* The theorems *)

\* Every row, request and account keeps its type.
THEOREM InvitationTypes == Spec => []TypeOK
<1>1. IInv => TypeOK
  BY DEF IInv
<1>2. QED
  BY <1>1, Invariance, PTL

\* Whatever the number of invitations and requests: one invitation asks the provider
\* for an account once at most (b05_advance_invitation_operation lets one request
\* through), and never after it was cancelled or expired.
THEOREM OneAccountRequest == Spec => []AskedOnce
<1>1. IInv => AskedOnce
  <2> SUFFICES ASSUME IInv, NEW i \in Invites
               PROVE  /\ Cardinality(asked[i]) <= 1
                      /\ inv[i].status \in {"cancelled", "expired"} => asked[i] = {}
    BY DEF AskedOnce
  <2>1. RowOK(i)
    BY DEF IInv, Tables
  <2>2. CASE asked[i] = {}
    BY <2>2, FS_EmptySet
  <2>3. CASE asked[i] # {}
    <3>1. PICK p \in asked[i] : asked[i] = {p}
      BY <2>1, <2>3 DEF RowOK
    <3>2. Cardinality({p}) = 1
      BY FS_Singleton
    <3>3. QED
      BY <2>1, <3>1, <3>2 DEF RowOK
  <2>4. QED
    BY <2>2, <2>3
<1>2. QED
  BY <1>1, Invariance, PTL

\* An account made at the provider is recorded, or its operation stays where an
\* operator finds it.
THEOREM NoAccountForgotten == Spec => []AccountTraced
<1>1. IInv => AccountTraced
  BY DEF IInv
<1>2. QED
  BY <1>1, Invariance, PTL

\* No account can sign in before the invitation was accepted by that account.
THEOREM NoEarlySignIn == Spec => []ConfirmedAfterAcceptance
<1>1. IInv => ConfirmedAfterAcceptance
  BY DEF IInv
<1>2. QED
  BY <1>1, Invariance, PTL

\* b05_recover_accepted_invitation answers for every accepted invitation that made
\* an account, wherever the accepting request was lost.
THEOREM RecoveryIsPossible == Spec => []AcceptedIsRecoverable
<1>1. IInv => AcceptedIsRecoverable
  <2> SUFFICES ASSUME IInv, NEW i \in Invites, inv[i].status = "accepted", op[i].new
               PROVE  Recoverable(i)
    BY DEF AcceptedIsRecoverable
  <2>1. RowOK(i)
    BY DEF IInv, Tables
  <2>2. QED
    BY <2>1 DEF RowOK, Provided, Recoverable
<1>2. QED
  BY <1>1, Invariance, PTL

\* b05_finalize_invitation inserts the grant only where it consumes the invitation:
\* neither a repeated claim nor a recovery brings a revoked role back.
THEOREM NoRegrant == Spec => GrantConsumesInvitation
<1> DEFINE Consumed == ~granted /\ granted' =>
                         \E i \in Invites : /\ inv[i].status = "invited"
                                            /\ inv'[i].status = "accepted"
<1>1. IInv /\ [Next]_vars => [Consumed]_vars
  <2> SUFFICES ASSUME IInv, Next, ~granted, granted'
               PROVE  \E i \in Invites : inv[i].status = "invited" /\ inv'[i].status = "accepted"
    BY DEF vars
  <2>1. ~(\E i \in Invites : Administer(i))
    BY DEF Administer, Create, Resend, Cancel, Expire, Elapse
  <2>2. ~(RevokeAdmin \/ SignUp \/ Profile)
    BY DEF RevokeAdmin, SignUp, Profile
  <2>3. ~(\E r \in Requests : \E i \in Invites : Accept(r, i) \/ AskRecovery(r, i))
    BY DEF Accept, AskRecovery, Open
  <2>4. PICK r \in Requests : Step(r)
    BY <2>1, <2>2, <2>3 DEF Next
  <2>5. Claim(r) /\ At(r, "claim")
    BY <2>4 DEF Step, LookUp, Reserve, Start, CreateAccount, Record, Provision, Claim,
                Recover, Confirm, Mark, Lose
  <2>6. Mine(r) \in Invites
    BY <2>5 DEF IInv, Tables, ReqOK, At
  <2>7. FirstClaim(Mine(r))
    BY <2>5 DEF Claim, RepeatedClaim
  <2>8. QED
    BY <2>6, <2>7 DEF FirstClaim, IInv, TypeOK
<1>2. QED
  BY <1>1, Invariance, PTL DEF Spec, GrantConsumesInvitation

\* The link is compared with the present one by every call that can change
\* something, so a request that holds an older one changes nothing.
THEOREM NoOldLink == Spec => OldLinkIsDead
<1> DEFINE Dead == \A r \in Requests :
                      /\ Mine(r) # None /\ Mine(r) = req'[r].inv
                      /\ req[r].token # inv[Mine(r)].token
                      /\ req'[r] # req[r]
                      => UNCHANGED <<op, granted, account, user>>
<1>1. IInv /\ [Next]_vars => [Dead]_vars
  <2> SUFFICES ASSUME IInv, Next, NEW r \in Requests, Mine(r) # None,
                      req[r].token # inv[Mine(r)].token, req'[r] # req[r]
               PROVE  UNCHANGED <<op, granted, account, user>>
    BY DEF vars
  <2>1. ~At(r, "idle") /\ req[r].at \notin Late
    BY DEF IInv, Tables, ReqOK
  <2>2. ~(\E i \in Invites : Administer(i)) /\ ~(RevokeAdmin \/ SignUp \/ Profile)
    BY DEF Administer, Create, Resend, Cancel, Expire, Elapse, RevokeAdmin, SignUp, Profile
  <2>3. CASE \E p \in Requests : \E i \in Invites : Accept(p, i) \/ AskRecovery(p, i)
    BY <2>3 DEF Accept, AskRecovery, Open, People
  <2>4. ASSUME NEW p \in Requests, Step(p)
        PROVE  UNCHANGED <<op, granted, account, user>>
    <3>1. p = r
      <4> SUFFICES ASSUME p # r
                   PROVE  FALSE
        OBVIOUS
      <4>1. req'[r] = req[r]
        BY <2>4 DEF Step, LookUp, Reserve, Reopen, ReserveNew, Resume, Start, CreateAccount,
                    Record, Provision, Claim, Recover, Confirm, Mark, Lose, Go, IInv, TypeOK
      <4>2. QED
        BY <4>1
    <3>2. LookUp(r) \/ Reserve(r) \/ Recover(r) \/ Lose(r)
      BY <2>1, <2>4, <3>1 DEF Step, Start, CreateAccount, Record, Provision, Claim, Confirm,
                              Mark, At, Late
    <3>3. QED
      BY <3>2 DEF LookUp, Reserve, Reopen, ReserveNew, Recover, Lose, People
  <2>5. QED
    BY <2>2, <2>3, <2>4 DEF Next
<1>2. QED
  BY <1>1, Invariance, PTL DEF Spec, OldLinkIsDead
================================================================================
