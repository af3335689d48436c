-------------------------------- MODULE Tenancy --------------------------------
(***************************************************************************)
(* Registration of accounts and tenants: every public registration made     *)
(* with one e-mail address, and with one organization code or one           *)
(* institution code where it brings a tenant; the decisions about the       *)
(* tenants it leaves behind.                                                *)
(*                                                                         *)
(* A registration is a chain of calls to the authentication provider and to *)
(* the database, each its own transaction: account, user row, tenant row,   *)
(* role grant, request or profile.  When one fails, the rows made so far    *)
(* are deleted again, each best effort.  A second registration may do all   *)
(* this at the same time, even with the same account: the provider answers  *)
(* a sign-up for an address whose account is not confirmed with that very   *)
(* account.  Foreign keys without cascade decide what a deletion may take.  *)
(***************************************************************************)
EXTENDS Naturals, Sequences

CONSTANTS Requests,  \* registrations; each is made at most once
          Admins,    \* administrators who decide about organizations and joins
          None       \* SQL null

VARIABLES account,  \* the provider's account for the address
          user,     \* the row of public.users for the address
          org,      \* the row of organizations with the code
          inst,     \* the row of institutions with the code
          rows,     \* [Requests -> rows that refer to the user row it inserted]
          join,     \* the institution's row of institution_join_requests
          req,      \* [Requests -> the registration and its next call]
          deciding, \* [Admins -> the decision under way]
          trouble   \* history: an answer was lost, a deletion failed, or a server stopped

vars == <<account, user, org, inst, rows, join, req, deciding, trouble>>

--------------------------------------------------------------------------------

\* A college asks to join an organization that decides about it; a university
\* joins the reserved platform organization and is active at once.
Kinds == {"student", "member", "organization", "college", "university"}

Colleges == {"college", "university"}

\* The calls after the user row, in order.
Rest(kind) == CASE kind = "student"      -> <<"profile">>
                [] kind = "member"       -> <<"membership">>
                [] kind = "organization" -> <<"tenant", "grant">>
                [] kind = "college"      -> <<"tenant", "grant", "join">>
                [] kind = "university"   -> <<"tenant", "grant">>

Dependent == {"profile", "membership", "grant", "join"}

Needs(kind) == {Rest(kind)[i] : i \in DOMAIN Rest(kind)} \cap Dependent

Statuses == {"pending", "active", "suspended", "rejected"}

Tenants == [by : Requests \cup {None}, status : Statuses]

JoinRequest == [status : {None, "pending", "approved", "rejected"},
                decidedBy : Admins \cup {None}]

Registration == [kind : Kinds,
                 at : {"idle", "account", "user", "tenant", "undo user", "undo tenant",
                       "undo account", "registered", "failed", "lost"} \cup Dependent,
                 account : Requests \cup {None},  \* the account the provider answered with
                 user : BOOLEAN, tenant : BOOLEAN] \* the row's insertion was answered

TypeOK == /\ account \in [owner : Requests \cup {None}, confirmed : BOOLEAN]
          /\ user \in [by : Requests \cup {None}, account : Requests \cup {None}]
          /\ org \in Tenants
          /\ inst \in Tenants
          /\ rows \in [Requests -> SUBSET Dependent]
          /\ join \in JoinRequest
          /\ req \in [Requests -> Registration]
          /\ deciding \in [Admins -> {None, "organization", "join"}
                                     \X {None, "active", "approved", "rejected"}]
          /\ trouble \in BOOLEAN

NoAccount == [owner |-> None, confirmed |-> FALSE]

NoUser == [by |-> None, account |-> None]

NoTenant == [by |-> None, status |-> "pending"]

NoJoin == [status |-> None, decidedBy |-> None]

Init == /\ account = NoAccount
        /\ user = NoUser
        /\ org = NoTenant
        /\ inst = NoTenant
        /\ rows = [r \in Requests |-> {}]
        /\ join = NoJoin
        /\ req = [r \in Requests |-> [kind |-> "student", at |-> "idle", account |-> None,
                                      user |-> FALSE, tenant |-> FALSE]]
        /\ deciding = [a \in Admins |-> <<None, None>>]
        /\ trouble = FALSE

--------------------------------------------------------------------------------

At(r, step) == req[r].at = step

Kind(r) == req[r].kind

Go(r, step) == req' = [req EXCEPT ![r].at = step]

\* The call that follows the given one.
After(r, step) ==
    LET rest == <<"user">> \o Rest(Kind(r)) \o <<"registered">>
        i    == CHOOSE j \in DOMAIN rest : rest[j] = step
    IN rest[i + 1]

\* The institution, if there is one to delete, then the account.
UndoFromTenant(r, step) ==
    IF step # "account" /\ req[r].tenant /\ Kind(r) \in Colleges THEN "undo tenant"
    ELSE "undo account"

\* The compensation deletes what it knows of: user row, institution, account.
UndoFrom(r, step) ==
    IF step = "user" /\ req[r].user THEN "undo user" ELSE UndoFromTenant(r, step)

\* A call answers, fails without effect, or has its effect and loses the answer.
Answered(r, step, known) ==
    /\ req' = [req EXCEPT ![r] = [known EXCEPT !.at = After(r, step)]]
    /\ UNCHANGED trouble

Failed(r) == Go(r, UndoFrom(r, "user")) /\ UNCHANGED trouble

Unanswered(r) == Go(r, UndoFrom(r, "user")) /\ trouble' = TRUE

Decisions == UNCHANGED deciding

--------------------------------------------------------------------------------
(* Registering *)

\* The checks: the address has no user row, the code is not taken.
Begin(r, kind) ==
    /\ At(r, "idle")
    /\ user.by = None
    /\ kind = "organization" => org.by = None
    /\ kind \in Colleges => inst.by = None
    /\ req' = [req EXCEPT ![r].kind = kind, ![r].at = "account"]
    /\ UNCHANGED <<account, user, org, inst, rows, join, trouble>> /\ Decisions

\* sign_up, or create_user with a confirmed address for a university.  An address
\* that has an account is refused, or answered with the unconfirmed account.
CreateAccount(r) ==
    /\ At(r, "account")
    /\ \/ /\ account.owner = None
          /\ account' = [owner |-> r, confirmed |-> Kind(r) = "university"]
          /\ \/ req' = [req EXCEPT ![r].at = "user", ![r].account = r] /\ UNCHANGED trouble
             \/ Go(r, "failed") /\ trouble' = TRUE
       \/ /\ account.owner # None /\ ~account.confirmed /\ Kind(r) # "university"
          /\ req' = [req EXCEPT ![r].at = "user", ![r].account = account.owner]
          /\ UNCHANGED <<account, trouble>>
       \/ Go(r, "failed") /\ UNCHANGED <<account, trouble>>
    /\ UNCHANGED <<user, org, inst, rows, join>> /\ Decisions

\* users_email_key, users_auth_user_id_key and users_auth_user_id_fkey
InsertUser(r) ==
    /\ At(r, "user")
    /\ \/ /\ user.by = None /\ account.owner = req[r].account
          /\ user' = [by |-> r, account |-> req[r].account]
          /\ Answered(r, "user", [req[r] EXCEPT !.user = TRUE]) \/ Unanswered(r)
       \/ Failed(r) /\ UNCHANGED user
    /\ UNCHANGED <<account, org, inst, rows, join>> /\ Decisions

\* The codes are unique.
InsertTenant(r) ==
    /\ At(r, "tenant")
    /\ \/ /\ Kind(r) = "organization" /\ org.by = None
          /\ org' = [by |-> r, status |-> "pending"]
          /\ Answered(r, "tenant", [req[r] EXCEPT !.tenant = TRUE]) \/ Unanswered(r)
          /\ UNCHANGED inst
       \/ /\ Kind(r) \in Colleges /\ inst.by = None
          /\ inst' = [by |-> r, status |-> IF Kind(r) = "college" THEN "pending" ELSE "active"]
          /\ Answered(r, "tenant", [req[r] EXCEPT !.tenant = TRUE]) \/ Unanswered(r)
          /\ UNCHANGED org
       \/ Failed(r) /\ UNCHANGED <<org, inst>>
    /\ UNCHANGED <<account, user, rows, join>> /\ Decisions

\* A profile, a membership request, a role grant or a join request: a row that
\* refers to the user row.
InsertDependent(r, row) ==
    /\ At(r, row)
    /\ \/ /\ user.by = r
          /\ rows' = [rows EXCEPT ![r] = @ \cup {row}]
          /\ join' = IF row = "join" THEN [NoJoin EXCEPT !.status = "pending"] ELSE join
          /\ Answered(r, row, req[r]) \/ Unanswered(r)
       \/ Failed(r) /\ UNCHANGED <<rows, join>>
    /\ UNCHANGED <<account, user, org, inst>> /\ Decisions

--------------------------------------------------------------------------------
(* Compensation: every exception is swallowed *)

\* A grant or a request prevents the deletion of the user row it refers to; a
\* student profile goes with it.
UserDeletable(r) == user.by = r /\ rows[r] \subseteq {"profile"}

UndoUser(r) ==
    /\ At(r, "undo user")
    /\ req' = [req EXCEPT ![r].at = UndoFrom(r, "tenant")]
    /\ \/ /\ IF UserDeletable(r)
             THEN user' = NoUser /\ rows' = [rows EXCEPT ![r] = {}]
             ELSE UNCHANGED <<user, rows>>
          /\ UNCHANGED trouble
       \/ trouble' = TRUE /\ UNCHANGED <<user, rows>>
    /\ UNCHANGED <<account, org, inst, join>> /\ Decisions

UndoTenant(r) ==
    /\ At(r, "undo tenant")
    /\ Go(r, "undo account")
    /\ \/ /\ inst' = IF inst.by = r /\ "join" \notin rows[r] THEN NoTenant ELSE inst
          /\ UNCHANGED trouble
       \/ trouble' = TRUE /\ UNCHANGED inst
    /\ UNCHANGED <<account, user, org, rows, join>> /\ Decisions

\* The user row does not prevent it.
AccountUnguarded(r) == account.owner = req[r].account

\* So does a user row prevent the deletion of its account.
AccountDeletable(r) == account.owner = req[r].account /\ user.account # req[r].account

UndoAccount(r) ==
    /\ At(r, "undo account")
    /\ Go(r, "failed")
    /\ \/ /\ account' = IF AccountDeletable(r) THEN NoAccount ELSE account
          /\ UNCHANGED trouble
       \/ trouble' = TRUE /\ UNCHANGED account
    /\ UNCHANGED <<user, org, inst, rows, join>> /\ Decisions

Crash(r) ==
    /\ req[r].at \notin {"idle", "registered", "failed", "lost"}
    /\ Go(r, "lost")
    /\ trouble' = TRUE
    /\ UNCHANGED <<account, user, org, inst, rows, join>> /\ Decisions

\* The person follows the link in the provider's message.
ConfirmAddress ==
    /\ account.owner # None
    /\ account' = [account EXCEPT !.confirmed = TRUE]
    /\ UNCHANGED <<user, org, inst, rows, join, req, trouble>> /\ Decisions

--------------------------------------------------------------------------------
(* Decisions: the status is read in one call and written in another *)

Registrations == UNCHANGED <<account, user, rows, req, trouble>>

LookAtOrganization(a, status) ==
    /\ deciding[a] = <<None, None>>
    /\ org.by # None /\ org.status = "pending"
    /\ deciding' = [deciding EXCEPT ![a] = <<"organization", status>>]
    /\ UNCHANGED <<org, inst, join>> /\ Registrations

\* The cascade over pending joins finds none: an organization that is pending
\* accepts no institution.
DecideOrganization(a) ==
    /\ deciding[a][1] = "organization"
    /\ org' = [org EXCEPT !.status = deciding[a][2]]
    /\ deciding' = [deciding EXCEPT ![a] = <<None, None>>]
    /\ UNCHANGED <<inst, join>> /\ Registrations

LookAtJoin(a, status) ==
    /\ deciding[a] = <<None, None>>
    /\ join.status = "pending"
    /\ deciding' = [deciding EXCEPT ![a] = <<"join", status>>]
    /\ UNCHANGED <<org, inst, join>> /\ Registrations

\* institution_join_requests_decision_check
DecisionCheck(row) == (row.status = "pending") = (row.decidedBy = None)

\* update_join_request_status writes the status alone; the institution's status is
\* written after it, unless the row is refused.
DecideJoin(a) ==
    /\ deciding[a][1] = "join"
    /\ deciding' = [deciding EXCEPT ![a] = <<None, None>>]
    /\ LET status == deciding[a][2]
           row == [join EXCEPT !.status = status]
       IN IF DecisionCheck(row)
          THEN /\ join' = row
               /\ inst' = [inst EXCEPT !.status = IF status = "approved" THEN "active" ELSE status]
          ELSE UNCHANGED <<inst, join>>
    /\ UNCHANGED org /\ Registrations

\* suspend_institution and activate_institution of the platform, whatever the
\* status was before.
SetLifecycle(status) ==
    /\ inst.by # None
    /\ inst.status # status
    /\ inst' = [inst EXCEPT !.status = status]
    /\ UNCHANGED <<org, join>> /\ Registrations /\ Decisions

--------------------------------------------------------------------------------

Register(r) == \/ \E kind \in Kinds : Begin(r, kind)
               \/ CreateAccount(r) \/ InsertUser(r) \/ InsertTenant(r)
               \/ \E row \in Dependent : InsertDependent(r, row)
               \/ UndoUser(r) \/ UndoTenant(r) \/ UndoAccount(r)

Decide(a) == \/ \E status \in {"active", "rejected"} : LookAtOrganization(a, status)
             \/ \E status \in {"approved", "rejected"} : LookAtJoin(a, status)
             \/ DecideOrganization(a) \/ DecideJoin(a)

Next == \/ \E r \in Requests : Register(r) \/ Crash(r)
        \/ ConfirmAddress
        \/ \E a \in Admins : Decide(a)
        \/ \E status \in {"active", "suspended"} : SetLifecycle(status)

Spec == Init /\ [][Next]_vars

\* Administrators finish what they began and come back to what is pending.
FairSpec == Spec /\ \A a \in Admins : WF_vars(Decide(a))

--------------------------------------------------------------------------------
(* Properties *)

\* A registration that was reported successful keeps all it made, whatever other
\* registrations of the address or the code do afterwards: no compensation takes
\* away an account, a user row or a tenant that another registration uses.
RegisteredStays ==
    \A r \in Requests : At(r, "registered") =>
        /\ account.owner = req[r].account
        /\ user = [by |-> r, account |-> req[r].account]
        /\ rows[r] = Needs(Kind(r))
        /\ Kind(r) = "organization" => org.by = r
        /\ Kind(r) \in Colleges => inst.by = r

\* When calls fail and none of them is uncertain, nothing is left of a refused
\* registration: the address and the institution code are free again.  (Not so
\* for the organization code, and not after the role grant.)
FailureLeavesNothing ==
    /\ \A r \in Requests : /\ req[r].at \in {"idle", "registered", "failed"}
                           /\ At(r, "failed") => "grant" \notin rows[r]
    /\ ~trouble
    => /\ account.owner # None => \E r \in Requests : At(r, "registered")
       /\ user.by # None => At(user.by, "registered")
       /\ inst.by # None => At(inst.by, "registered")

\* Claimed of the decision endpoint ("Approval activates the institution,
\* rejection sets the join request and institution to rejected"): a join request
\* that an administrator keeps deciding is decided.
JoinDecided == join.status = "pending" ~> join.status # "pending"
================================================================================
