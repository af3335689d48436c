------------------------------ MODULE Invitations ------------------------------
(***************************************************************************)
(* The invitations issued to one e-mail address and the acceptance of each: *)
(* either University Admin invitations of one institution, or platform      *)
(* (Super Admin) invitations.                                               *)
(*                                                                         *)
(* Accepting creates an account at the authentication provider, a user row, *)
(* the role grant, and only then confirms the account, each in a call of    *)
(* its own.  An operation row records how far that came; every call to the  *)
(* database locks the invitation and then the operation.  A request may be  *)
(* lost anywhere, a call's answer may be lost, and the person may press     *)
(* twice or come back with the link: a later request resumes from the       *)
(* recorded stage, except that an account creation whose outcome is unknown *)
(* is never repeated.                                                       *)
(*                                                                         *)
(* The person may also register without the link, the administrator may     *)
(* cancel, resend or revoke, and the invitation may elapse, in between.     *)
(***************************************************************************)
EXTENDS Naturals, FiniteSets

CONSTANTS Invites,    \* rows of the invitation table
          Requests,   \* accept and recovery requests; each is made at most once
          Self,       \* the account of a person who registers without the link
          MaxTokens,  \* bound: resends of one invitation
          None        \* SQL null

VARIABLES kind,     \* "institution" or "platform"
          inv,      \* [Invites -> row of the invitation table]
          op,       \* [Invites -> row of b05_invitation_operations]
          account,  \* the provider's account for the address
          user,     \* the row of public.users for the address, by its account
          granted,  \* the role is in user_roles
          req,      \* [Requests -> the request and its next call]
          asked     \* [Invites -> requests that asked the provider for an account]

vars == <<kind, inv, op, account, user, granted, req, asked>>

--------------------------------------------------------------------------------

Accounts == Requests \cup {Self}

\* acceptance_id is null exactly while stage is None.
Operation == [stage : {None, "reserved", "provider_started", "provider_created",
                       "user_created", "accepted", "confirmed"},
              new : BOOLEAN, auth : Accounts \cup {None}, user : Accounts \cup {None}]

Invitation == [status : {"absent", "invited", "accepted", "cancelled", "expired"},
               elapsed : BOOLEAN, token : 0..MaxTokens, by : Accounts \cup {None}]

Request == [at : {"idle", "lookup", "reserve", "start", "create", "record", "provision",
                  "claim", "recover", "confirm", "mark", "done"},
            inv : Invites \cup {None}, token : 0..MaxTokens,
            actor : BOOLEAN,        \* signed in as the invited address
            op : Operation]         \* the operation as last read

\* The constants are told apart: null, the person and the requests.
Distinct == /\ MaxTokens \in Nat
            /\ None \notin Accounts \cup Invites \cup
                  {"reserved", "provider_started", "provider_created", "user_created",
                   "accepted", "confirmed"}
            /\ Self \notin Requests

ASSUME NamesAssumption == Distinct

TypeOK == /\ kind \in {"institution", "platform"}
          /\ inv \in [Invites -> Invitation]
          /\ op \in [Invites -> Operation]
          /\ account \in [owner : Accounts \cup {None}, confirmed : BOOLEAN]
          /\ user \in Accounts \cup {None}
          /\ granted \in BOOLEAN
          /\ req \in [Requests -> Request]
          /\ asked \in [Invites -> SUBSET Requests]

NoOperation == [stage |-> None, new |-> FALSE, auth |-> None, user |-> None]

Init == /\ kind \in {"institution", "platform"}
        /\ inv = [i \in Invites |-> [status |-> "absent", elapsed |-> FALSE,
                                     token |-> 0, by |-> None]]
        /\ op = [i \in Invites |-> NoOperation]
        /\ account = [owner |-> None, confirmed |-> FALSE]
        /\ user = None
        /\ granted = FALSE
        /\ req = [r \in Requests |-> [at |-> "idle", inv |-> None, token |-> 0,
                                      actor |-> FALSE, op |-> NoOperation]]
        /\ asked = [i \in Invites |-> {}]

--------------------------------------------------------------------------------

At(r, step) == req[r].at = step

Go(r, step) == req' = [req EXCEPT ![r].at = step]

Mine(r) == req[r].inv

SetStatus(i, status) == inv' = [inv EXCEPT ![i].status = status]

Unstarted(i) == \/ op[i].stage = None
                \/ op[i].stage = "reserved" /\ op[i].new

People == UNCHANGED <<account, user>>

--------------------------------------------------------------------------------
(* The administrator and the clock *)

\* One live invitation for an address (a partial unique index).  Elapsed rows are
\* expired first, which an acceptance under way forbids.  That a Super Admin has no
\* account yet is read long before the insert, so it guards nothing here.
Create(i) ==
    /\ inv[i].status = "absent"
    /\ \A j \in Invites : inv[j].status = "invited" => inv[j].elapsed /\ op[j].stage = None
    /\ inv' = [j \in Invites |->
          IF j = i THEN [inv[i] EXCEPT !.status = "invited"]
          ELSE IF inv[j].status = "invited" THEN [inv[j] EXCEPT !.status = "expired"]
          ELSE inv[j]]
    /\ UNCHANGED <<kind, op, granted, req, asked>> /\ People

\* A new token and a new lifetime; only institution invitations are resent.
Resend(i) ==
    /\ kind = "institution"
    /\ inv[i].status = "invited"
    /\ ~inv[i].elapsed
    /\ op[i].stage = None
    /\ inv[i].token < MaxTokens
    /\ inv' = [inv EXCEPT ![i].token = @ + 1]
    /\ UNCHANGED <<kind, op, granted, req, asked>> /\ People

\* Another word than the table's.
CancelMisspelt(i) ==
    /\ inv[i].status = "invited"
    /\ Unstarted(i)
    /\ SetStatus(i, "canceled")
    /\ UNCHANGED <<kind, op, granted, req, asked>> /\ People

\* b05_transition_invitation
Cancel(i) ==
    /\ inv[i].status = "invited"
    /\ Unstarted(i)
    /\ SetStatus(i, "cancelled")
    /\ UNCHANGED <<kind, op, granted, req, asked>> /\ People

\* The sweep, and a resend that finds the invitation elapsed.
Expire(i) ==
    /\ inv[i].status = "invited"
    /\ inv[i].elapsed
    /\ Unstarted(i)
    /\ SetStatus(i, "expired")
    /\ UNCHANGED <<kind, op, granted, req, asked>> /\ People

Elapse(i) ==
    /\ inv[i].status = "invited"
    /\ ~inv[i].elapsed
    /\ inv' = [inv EXCEPT ![i].elapsed = TRUE]
    /\ UNCHANGED <<kind, op, granted, req, asked>> /\ People

\* Deletes the grant; the account, the user row and the invitation stay.
RevokeAdmin ==
    /\ kind = "institution"
    /\ granted
    /\ granted' = FALSE
    /\ UNCHANGED <<kind, inv, op, req, asked>> /\ People

\* Ordinary registration of the same address, in its two steps.
SignUp ==
    /\ account.owner = None
    /\ account' = [account EXCEPT !.owner = Self]
    /\ UNCHANGED <<kind, inv, op, user, granted, req, asked>>

Profile ==
    /\ account.owner = Self
    /\ user = None
    /\ user' = Self
    /\ UNCHANGED <<kind, inv, op, account, granted, req, asked>>

--------------------------------------------------------------------------------
(* Accepting: from the link to the reservation *)

\* A link resolves by its present token, unless the invitation was closed or
\* elapsed before anybody reserved it.
Live(i) == \/ inv[i].status = "accepted"
           \/ inv[i].status = "invited" /\ (inv[i].elapsed => op[i].stage # None)

Open(r, i, actor, next) ==
    /\ At(r, "idle")
    /\ Live(i)
    /\ req' = [req EXCEPT ![r] = [at |-> next, inv |-> i, token |-> inv[i].token,
                                  actor |-> actor, op |-> op[i]]]
    /\ UNCHANGED <<kind, inv, op, granted, asked>> /\ People

Accept(r, i) ==
    \E actor \in BOOLEAN :
        /\ actor => kind = "institution" /\ user # None
        /\ Open(r, i, actor, "lookup")

AskRecovery(r, i) == Open(r, i, FALSE, "recover")

\* The existing user must be signed in, or be the one this operation created.
\* The operation is read again when the link showed a reservation.
LookUp(r) ==
    /\ At(r, "lookup")
    /\ LET reserved == req[r].op.stage # None
           resuming == reserved /\ op[Mine(r)].new
           allowed  == CASE user = None         -> ~req[r].actor
                         [] kind = "platform"   -> reserved
                         [] resuming            -> op[Mine(r)].user = user
                         [] OTHER               -> req[r].actor
       IN Go(r, IF allowed THEN "reserve" ELSE "done")
    /\ UNCHANGED <<kind, inv, op, granted, asked>> /\ People

\* Where complete_acceptance goes on from the stage it was given.
Resume(r, o) ==
    req' = [req EXCEPT ![r].op = o, ![r].at =
        CASE o.stage = "reserved"         -> IF req[r].actor THEN "done" ELSE "start"
          [] o.stage = "provider_created" -> "provision"
          [] o.stage = "user_created"     -> "claim"
          [] o.stage = "accepted"         -> IF o.new THEN "confirm" ELSE "done"
          [] OTHER                        -> "done"]

\* An operation that exists is handed back as it is, to the account it belongs to.
Reopen(r, i) ==
    /\ op[i].stage # None
    /\ inv[i].token = req[r].token
    /\ IF inv[i].status = "accepted"
       THEN op[i].stage \in {"accepted", "confirmed"} /\ op[i].user = inv[i].by
       ELSE inv[i].status = "invited" /\ ~inv[i].elapsed
    /\ IF op[i].new THEN req[r].actor => op[i].user = user
                    ELSE req[r].actor /\ op[i].user = user
    /\ Resume(r, op[i])
    /\ UNCHANGED op

\* A signed-in user starts where the account and the user row exist already.
NewOperation(r) ==
    [stage |-> IF req[r].actor THEN "user_created" ELSE "reserved", new |-> ~req[r].actor,
     auth |-> IF req[r].actor THEN user ELSE None, user |-> IF req[r].actor THEN user ELSE None]

\* A link is as good as any other.
ReserveByOldLink(r, i) ==
    /\ op[i].stage = None
    /\ inv[i].status = "invited"
    /\ ~inv[i].elapsed
    /\ req[r].actor \/ user = None
    /\ op' = [op EXCEPT ![i] = NewOperation(r)]
    /\ Resume(r, NewOperation(r))

ReserveNew(r, i) ==
    /\ op[i].stage = None
    /\ inv[i].token = req[r].token
    /\ inv[i].status = "invited"
    /\ ~inv[i].elapsed
    /\ req[r].actor \/ user = None
    /\ op' = [op EXCEPT ![i] = NewOperation(r)]
    /\ Resume(r, NewOperation(r))

\* b05_reserve_invitation.  It also refuses when the issuer lost the authority to
\* invite or the institution is no longer active.
Reserve(r) ==
    /\ At(r, "reserve")
    /\ \/ Reopen(r, Mine(r))
       \/ ReserveNew(r, Mine(r))
       \/ Go(r, "done") /\ UNCHANGED op
    /\ UNCHANGED <<kind, inv, granted, asked>> /\ People

--------------------------------------------------------------------------------
(* Accepting: from the reservation to the account *)

\* An update without its expected stage.
AdvanceableFromAny(i, from) ==
    /\ inv[i].status = "invited"
    /\ from # "provider_started" => ~inv[i].elapsed

\* b05_advance_invitation_operation: the stage must be the expected one, and the
\* invitation open; only the record of a created account may come late.
Advanceable(i, from) ==
    /\ op[i].stage = from
    /\ inv[i].status = "invited"
    /\ from # "provider_started" => ~inv[i].elapsed

\* The compare-and-set that precedes the provider call.
Start(r) ==
    /\ At(r, "start")
    /\ IF Advanceable(Mine(r), "reserved")
       THEN op' = [op EXCEPT ![Mine(r)].stage = "provider_started"] /\ Go(r, "create")
       ELSE Go(r, "done") /\ UNCHANGED op
    /\ UNCHANGED <<kind, inv, granted, asked>> /\ People

\* The account is created with a confirmed address.
CreateConfirmed(r) ==
    /\ At(r, "create")
    /\ asked' = [asked EXCEPT ![Mine(r)] = @ \cup {r}]
    /\ IF account.owner = None
       THEN account' = [owner |-> r, confirmed |-> TRUE] /\ Go(r, "record")
       ELSE Go(r, "done") /\ UNCHANGED account
    /\ UNCHANGED <<kind, inv, op, user, granted>>

\* The provider refuses an address that has an account already.
CreateAccount(r) ==
    /\ At(r, "create")
    /\ asked' = [asked EXCEPT ![Mine(r)] = @ \cup {r}]
    /\ IF account.owner = None
       THEN account' = [account EXCEPT !.owner = r] /\ Go(r, "record")
       ELSE Go(r, "done") /\ UNCHANGED account
    /\ UNCHANGED <<kind, inv, op, user, granted>>

\* The stage without the account.
RecordStageOnly(r) ==
    /\ At(r, "record")
    /\ op' = [op EXCEPT ![Mine(r)].stage = "provider_created"]
    /\ Go(r, "provision")
    /\ UNCHANGED <<kind, inv, granted, asked>> /\ People

Record(r) ==
    /\ At(r, "record")
    /\ IF Advanceable(Mine(r), "provider_started")
       THEN /\ op' = [op EXCEPT ![Mine(r)].stage = "provider_created", ![Mine(r)].auth = r]
            /\ req' = [req EXCEPT ![r].at = "provision", ![r].op.auth = r]
       ELSE Go(r, "done") /\ UNCHANGED op
    /\ UNCHANGED <<kind, inv, granted, asked>> /\ People

\* Inserts the user row, or resolves it by the recorded account.
Provision(r) ==
    /\ At(r, "provision")
    /\ LET i == Mine(r)
       IN IF Advanceable(i, "provider_created") /\ user \in {None, op[i].auth}
          THEN /\ user' = op[i].auth
               /\ op' = [op EXCEPT ![i].stage = "user_created", ![i].user = op[i].auth]
               /\ req' = [req EXCEPT ![r].at = "claim", ![r].op.user = op[i].auth]
          ELSE Go(r, "done") /\ UNCHANGED <<user, op>>
    /\ UNCHANGED <<kind, inv, account, granted, asked>>

\* b05_finalize_invitation: claim, grant and audit are one transaction, and a
\* repetition changes nothing.  The grant may be refused (the role is held in
\* another scope, or the issuer lost the authority to invite).
AfterClaim(r) == IF req[r].op.new THEN "confirm" ELSE "done"

Finalizable(r, i) == /\ inv[i].token = req[r].token
                     /\ op[i].stage \in {"user_created", "accepted", "confirmed"}
                     /\ op[i].user = req[r].op.user

\* The operation is not advanced.
FirstClaimOnly(i) ==
    /\ inv[i].status = "invited"
    /\ ~inv[i].elapsed
    /\ user = op[i].user
    /\ inv' = [inv EXCEPT ![i].status = "accepted", ![i].by = op[i].user]
    /\ granted' = TRUE
    /\ UNCHANGED op

FirstClaim(i) ==
    /\ inv[i].status = "invited"
    /\ ~inv[i].elapsed
    /\ user = op[i].user
    /\ inv' = [inv EXCEPT ![i].status = "accepted", ![i].by = op[i].user]
    /\ op' = [op EXCEPT ![i].stage = "accepted"]
    /\ granted' = TRUE

\* Whoever repeats the claim is granted the role again.
RepeatedGrant(i) ==
    /\ inv[i].status = "accepted"
    /\ inv[i].by = op[i].user
    /\ granted' = TRUE
    /\ UNCHANGED <<inv, op>>

RepeatedClaim(i) ==
    /\ inv[i].status = "accepted"
    /\ inv[i].by = op[i].user
    /\ UNCHANGED <<inv, op, granted>>

Claim(r) ==
    /\ At(r, "claim")
    /\ \/ /\ Finalizable(r, Mine(r))
          /\ FirstClaim(Mine(r)) \/ RepeatedClaim(Mine(r))
          /\ Go(r, AfterClaim(r))
       \/ Go(r, "done") /\ UNCHANGED <<inv, op, granted>>
    /\ UNCHANGED <<kind, asked>> /\ People

--------------------------------------------------------------------------------
(* Confirmation of the new account, and its recovery *)

\* b05_recover_accepted_invitation
Recoverable(i) == /\ inv[i].status = "accepted"
                  /\ op[i].new
                  /\ op[i].stage \in {"accepted", "confirmed"}
                  /\ op[i].auth # None
                  /\ op[i].user = inv[i].by
                  /\ user = op[i].user

Recover(r) ==
    /\ At(r, "recover")
    /\ LET i == Mine(r)
       IN IF Recoverable(i) /\ inv[i].token = req[r].token /\ op[i].stage = "accepted"
          THEN req' = [req EXCEPT ![r].at = "confirm", ![r].op = op[i]]
          ELSE Go(r, "done")
    /\ UNCHANGED <<kind, inv, op, granted, asked>> /\ People

Confirm(r) ==
    /\ At(r, "confirm")
    /\ account' = [account EXCEPT !.confirmed = @ \/ account.owner = req[r].op.auth]
    /\ Go(r, "mark")
    /\ UNCHANGED <<kind, inv, op, user, granted, asked>>

Mark(r) ==
    /\ At(r, "mark")
    /\ LET i == Mine(r)
       IN IF op[i].stage = "accepted" /\ inv[i].status = "accepted"
          THEN op' = [op EXCEPT ![i].stage = "confirmed"]
          ELSE UNCHANGED op
    /\ Go(r, "done")
    /\ UNCHANGED <<kind, inv, granted, asked>> /\ People

\* The server stops, a call fails, or the answer to the last call is lost.
Lose(r) == /\ req[r].at \notin {"idle", "done"}
           /\ Go(r, "done")
           /\ UNCHANGED <<kind, inv, op, granted, asked>> /\ People

--------------------------------------------------------------------------------

Administer(i) == Create(i) \/ Resend(i) \/ Cancel(i) \/ Expire(i) \/ Elapse(i)

Step(r) == \/ LookUp(r) \/ Reserve(r) \/ Start(r) \/ CreateAccount(r) \/ Record(r)
           \/ Provision(r) \/ Claim(r) \/ Recover(r) \/ Confirm(r) \/ Mark(r) \/ Lose(r)

Next == \/ \E i \in Invites : Administer(i)
        \/ RevokeAdmin \/ SignUp \/ Profile
        \/ \E r \in Requests : \/ \E i \in Invites : Accept(r, i) \/ AskRecovery(r, i)
                               \/ Step(r)

Spec == Init /\ [][Next]_vars

--------------------------------------------------------------------------------
(* Properties *)

\* However often the person presses, retries or comes back, one invitation asks the
\* provider for an account at most once, as an uncertain creation is never repeated;
\* and one that was cancelled or expired never asks: a request that reserved it
\* before is stopped before the provider call.
AskedOnce ==
    \A i \in Invites : /\ Cardinality(asked[i]) <= 1
                       /\ inv[i].status \in {"cancelled", "expired"} => asked[i] = {}

\* An account made for an invitation is recorded by its operation, or the
\* operation stays where an operator must reconcile it; it is never forgotten.
AccountTraced ==
    account.owner \in Requests =>
        \E i \in Invites : /\ account.owner \in asked[i]
                           /\ \/ op[i].stage = "provider_started"
                              \/ op[i].auth = account.owner

\* Nobody can sign in with an invitation's account before the invitation was
\* accepted by exactly that account.
ConfirmedAfterAcceptance ==
    account.confirmed => \E i \in Invites : inv[i].status = "accepted" /\ inv[i].by = account.owner

\* An accepted invitation that made an account always allows its confirmation to
\* be repeated from the link, wherever the accepting request was lost.
AcceptedIsRecoverable ==
    \A i \in Invites : inv[i].status = "accepted" /\ op[i].new => Recoverable(i)

\* The role is granted only in the step that consumes an invitation: no retry and
\* no recovery restores a grant that was revoked since.
GrantConsumesInvitation ==
    [][~granted /\ granted' => \E i \in Invites : /\ inv[i].status = "invited"
                                                  /\ inv'[i].status = "accepted"]_vars

\* Once a new token is issued, a request that holds the old link, however far it
\* came, reserves nothing and is granted nothing.
OldLinkIsDead ==
    [][\A r \in Requests :
          /\ Mine(r) # None /\ Mine(r) = req'[r].inv
          /\ req[r].token # inv[Mine(r)].token
          /\ req'[r] # req[r]
          => UNCHANGED <<op, granted, account, user>>]_vars
================================================================================
