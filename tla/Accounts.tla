-------------------------------- MODULE Accounts --------------------------------
(***************************************************************************)
(* Four parts of how accounts come about, side by side: the invitations of  *)
(* administrators, those of students, public registrations, and the budget  *)
(* that limits how often people try.  Each part has its own variables and   *)
(* its own specification; none reads those of another.                      *)
(***************************************************************************)
EXTENDS Invitations

CONSTANTS Enrolled, Emails, Senders, Visits,
          MaxLinks,     \* bound: links to students
          Admins,
          Callers,      \* requests that are charged
          Scopes, Charges, Limit, Window, MaxTime

VARIABLES invite, owner, issued, mail, sender, visit,
          login, row, org, inst, rows, join, reg, deciding, trouble,
          clock, events, call, charged, straggler, since

Students == INSTANCE StudentOnboarding WITH Invites <- Enrolled, MaxTokens <- MaxLinks

Tenants == INSTANCE Tenancy WITH account <- login, user <- row, req <- reg

Limiter == INSTANCE RateLimiter WITH Requests <- Callers, req <- call

ASSUME StudentsAssumption == Students!Distinct

\* The registrations are told apart from null, and null from the kinds of decisions.
ASSUME TenantsAssumption == None \notin Requests \cup {"organization", "join"}

\* Settings refuse a budget or a window of zero (config.py:103-146).
ASSUME LimiterAssumption ==
  /\ Charges \subseteq SUBSET Scopes
  /\ Limit \in [Scopes -> Nat \ {0}]
  /\ Window \in Nat \ {0}
  /\ MaxTime \in Nat
  /\ IsFiniteSet(Callers)

TypesOK == /\ TypeOK
           /\ Students!TypeOK
           /\ Tenants!TypeOK
           /\ Limiter!TypeOK

\* The properties of the other parts, where they are stated and explained.
SentIsCurrent        == Students!SentIsCurrent
AcceptedFits         == Students!AcceptedFits
RegisteredStays      == Tenants!RegisteredStays
FailureLeavesNothing == Tenants!FailureLeavesNothing
WindowKept           == Limiter!WindowKept
RetryIsEnough        == Limiter!RetryIsEnough
================================================================================
