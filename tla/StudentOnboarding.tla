--------------------------- MODULE StudentOnboarding ---------------------------
(***************************************************************************)
(* Student onboarding invitations: an administrator invites a student by    *)
(* e-mail, the student opens the setup link and chooses a password.         *)
(*                                                                         *)
(* Inviting is a database transaction that stores a new link, a message     *)
(* with it, and a transaction that records what became of the message.      *)
(* Setting up is a chain of calls that each carry the link: claim, create   *)
(* or update the account at the authentication provider, record the         *)
(* account, complete.  The administrator may resend, edit or cancel the     *)
(* invitation between any two of these calls.                               *)
(*                                                                         *)
(* The functions are those of the last migration that defines them.  A      *)
(* section that was closed or is full, and a resend over the hourly limit,  *)
(* are refusals that change nothing and are not shown; names, register      *)
(* numbers and sections are data.                                           *)
(***************************************************************************)
EXTENDS Naturals

CONSTANTS Invites,    \* rows of student_onboarding_invitations of one institution
          Emails,     \* addresses
          Senders,    \* administrators' requests that send a link
          Visits,     \* students' requests to set up an account
          MaxTokens,  \* bound: no more links are issued than this
          None        \* SQL null

VARIABLES invite,  \* [Invites -> row]
          owner,   \* [Emails -> the invitation the account at this address was made for]
          issued,  \* links issued so far; the next one is a new one
          mail,    \* the links in the mailboxes
          sender,  \* [Senders -> the link it is sending]
          visit    \* [Visits -> the setup and its next call]

vars == <<invite, owner, issued, mail, sender, visit>>

--------------------------------------------------------------------------------

Links == [inv : Invites, email : Emails, token : 1..MaxTokens]

\* An account somebody made without an invitation.
Stranger == "stranger"

\* The constants are told apart: null, the invitations and accounts made without one.
Distinct == /\ MaxTokens \in Nat
            /\ None \notin Invites \cup Emails
            /\ Stranger \notin Invites

Row == [status   : {"none", "pending", "accepted", "cancelled"},
        email    : Emails \cup {None},
        token    : 0..MaxTokens,
        live     : BOOLEAN,                          \* expires_at is in the future
        account  : Emails \cup {None},               \* provisioned_auth_user_id
        accepted : Emails \cup {None},               \* accepted_auth_user_id
        delivery : {"pending", "sent", "failed"}]    \* email_delivery_status

Sending == [at : {"send", "record"}, link : Links, result : {"none", "sent", "failed"}]

Setup == [at : {"claim", "account", "release", "record", "complete"},
          link    : Links,                 \* its token, and the row as _resolve read it
          account : Emails \cup {None}]

TypeOK == /\ invite \in [Invites -> Row]
          /\ owner \in [Emails -> Invites \cup {None, Stranger}]
          /\ issued \in 0..MaxTokens
          /\ mail \subseteq Links
          /\ sender \in [Senders -> Sending \cup {None}]
          /\ visit \in [Visits -> Setup \cup {None}]

NoRow == [status |-> "none", email |-> None, token |-> 0, live |-> FALSE,
          account |-> None, accepted |-> None, delivery |-> "pending"]

Init == /\ invite = [i \in Invites |-> NoRow]
        /\ owner = [e \in Emails |-> None]
        /\ issued = 0
        /\ mail = {}
        /\ sender = [s \in Senders |-> None]
        /\ visit = [v \in Visits |-> None]

--------------------------------------------------------------------------------
(* The administrator *)

\* The unique index on the addresses of pending invitations.
AddressFree(i, e) ==
  \A j \in Invites \ {i} : ~(invite[j].status = "pending" /\ invite[j].email = e)

\* Row i with a new link that was not sent yet.
Rotated(i, e) == [invite[i] EXCEPT !.email = e, !.token = issued + 1, !.live = TRUE,
                                   !.delivery = "pending"]

CurrentLink(i) == [inv |-> i, email |-> invite[i].email, token |-> invite[i].token]

\* A request issues a new link of invitation i for the address e, and is to send it.
Issue(s, i, e) ==
  /\ sender[s] = None
  /\ sender' = [sender EXCEPT ![s] =
       [at |-> "send", link |-> [inv |-> i, email |-> e, token |-> issued + 1],
        result |-> "none"]]

Create(s, i, e) ==
  /\ issued < MaxTokens
  /\ invite[i].status = "none"
  /\ owner[e] = None
  /\ AddressFree(i, e)
  /\ Issue(s, i, e)
  /\ invite' = [invite EXCEPT ![i] = [Rotated(i, e) EXCEPT !.status = "pending"]]
  /\ issued' = issued + 1
  /\ UNCHANGED <<owner, mail, visit>>

Resend(s, i) ==
  /\ issued < MaxTokens
  /\ invite[i].status = "pending"
  /\ Issue(s, i, invite[i].email)
  /\ invite' = [invite EXCEPT ![i] = Rotated(i, invite[i].email)]
  /\ issued' = issued + 1
  /\ UNCHANGED <<owner, mail, visit>>

\* The row that comes back does not say email_changed, so update sends nothing.
Edit(i, e) ==
  /\ issued < MaxTokens
  /\ invite[i].status = "pending"
  /\ AddressFree(i, e)
  /\ invite' = [invite EXCEPT ![i] = Rotated(i, e)]
  /\ issued' = issued + 1
  /\ UNCHANGED <<owner, mail, sender, visit>>

Cancel(i) ==
  /\ invite[i].status = "pending"
  /\ invite' = [invite EXCEPT ![i].status = "cancelled"]
  /\ UNCHANGED <<owner, issued, mail, sender, visit>>

Expire(i) ==
  /\ invite[i].live
  /\ invite' = [invite EXCEPT ![i].live = FALSE]
  /\ UNCHANGED <<owner, issued, mail, sender, visit>>

\* The provider takes the message, or does not, and may do so without an answer.
Send(s) ==
  /\ sender[s] # None /\ sender[s].at = "send"
  /\ \E result \in {"sent", "failed"}, delivered \in BOOLEAN :
       /\ result = "sent" => delivered
       /\ mail' = IF delivered THEN mail \cup {sender[s].link} ELSE mail
       /\ sender' = [sender EXCEPT ![s].at = "record", ![s].result = result]
  /\ UNCHANGED <<invite, owner, issued, visit>>

\* The result is recorded for whatever link the invitation has.
RecordUnfenced(s) ==
  /\ sender[s] # None /\ sender[s].at = "record"
  /\ LET link == sender[s].link IN
       invite' = IF invite[link.inv].status = "pending"
                 THEN [invite EXCEPT ![link.inv].delivery = sender[s].result]
                 ELSE invite
  /\ sender' = [sender EXCEPT ![s] = None]
  /\ UNCHANGED <<owner, issued, mail, visit>>

\* The result is recorded for the link that was sent.  After a failure the refund of
\* the resend is refused: the service has no privilege on the table.
RecordDelivery(s) ==
  /\ sender[s] # None /\ sender[s].at = "record"
  /\ LET link == sender[s].link IN
       invite' = IF invite[link.inv].status = "pending" /\ invite[link.inv].token = link.token
                 THEN [invite EXCEPT ![link.inv].delivery = sender[s].result]
                 ELSE invite
  /\ sender' = [sender EXCEPT ![s] = None]
  /\ UNCHANGED <<owner, issued, mail, visit>>

\* The request raises, or its server stops.
SenderLost(s) ==
  /\ sender[s] # None
  /\ sender' = [sender EXCEPT ![s] = None]
  /\ UNCHANGED <<invite, owner, issued, mail, visit>>

--------------------------------------------------------------------------------
(* The student *)

\* The link is that of a pending invitation and has not expired.
Usable(link) == /\ invite[link.inv].status = "pending"
                /\ invite[link.inv].token = link.token
                /\ invite[link.inv].live

\* The account passes whatever its address is.
FitsById(i, e) == e # None /\ owner[e] \in {i, Stranger}

\* The account at e passes as that of invitation i.  In an account that was made without
\* an invitation the key is missing, and SQL's null is no mismatch.
Fits(i, e) == e # None /\ e = invite[i].email /\ owner[e] \in {i, Stranger}

\* The account a setup of invitation i continues with.
Provisioned(i) == CASE invite[i].account # None        -> invite[i].account
                    [] owner[invite[i].email] = i      -> invite[i].email
                    [] OTHER                           -> None

Leave(v) == visit' = [visit EXCEPT ![v] = None]

Proceed(v, at) == visit' = [visit EXCEPT ![v].at = at]

\* The setup begins: _resolve reads the row of the link.
Open(v, link) ==
  /\ visit[v] = None
  /\ Usable(link)
  /\ visit' = [visit EXCEPT ![v] = [at |-> "claim", link |-> CurrentLink(link.inv),
                                    account |-> Provisioned(link.inv)]]
  /\ UNCHANGED <<invite, owner, issued, mail, sender>>

Claim(v) ==
  /\ visit[v] # None /\ visit[v].at = "claim"
  /\ IF Usable(visit[v].link) THEN Proceed(v, "account") ELSE Leave(v)
  /\ UNCHANGED <<invite, owner, issued, mail, sender>>

UpdateAccount(v) ==
  /\ visit[v] # None /\ visit[v].at = "account" /\ visit[v].account # None
  /\ Proceed(v, "record") \/ Proceed(v, "release")
  /\ UNCHANGED <<invite, owner, issued, mail, sender>>

\* The provider has one account per address.  Its answer may not arrive.
CreateAccount(v) ==
  /\ visit[v] # None /\ visit[v].at = "account" /\ visit[v].account = None
  /\ LET link == visit[v].link IN
       \/ /\ owner[link.email] = None
          /\ owner' = [owner EXCEPT ![link.email] = link.inv]
          /\ \/ visit' = [visit EXCEPT ![v].at = "record", ![v].account = link.email]
             \/ Proceed(v, "release")
       \/ Proceed(v, "release") /\ UNCHANGED owner
  /\ UNCHANGED <<invite, issued, mail, sender>>

\* The release of a claim writes only updated_at.
Release(v) ==
  /\ visit[v] # None /\ visit[v].at = "release"
  /\ Leave(v)
  /\ UNCHANGED <<invite, owner, issued, mail, sender>>

RecordAccount(v) ==
  /\ visit[v] # None /\ visit[v].at = "record"
  /\ LET i == visit[v].link.inv
         e == visit[v].account
     IN  IF Usable(visit[v].link) /\ Fits(i, e) /\ invite[i].account \in {None, e}
         THEN invite' = [invite EXCEPT ![i].account = e] /\ Proceed(v, "complete")
         ELSE Leave(v) /\ UNCHANGED invite
  /\ UNCHANGED <<owner, issued, mail, sender>>

Complete(v) ==
  /\ visit[v] # None /\ visit[v].at = "complete"
  /\ LET i == visit[v].link.inv
         e == visit[v].account
     IN  invite' = IF Usable(visit[v].link) /\ invite[i].account = e /\ Fits(i, e)
                   THEN [invite EXCEPT ![i].status = "accepted", ![i].accepted = e]
                   ELSE invite
  /\ Leave(v)
  /\ UNCHANGED <<owner, issued, mail, sender>>

\* A call is refused for another reason, or the server stops.
VisitLost(v) ==
  /\ visit[v] # None
  /\ Leave(v)
  /\ UNCHANGED <<invite, owner, issued, mail, sender>>

\* Somebody registers with the address.
Register(e) ==
  /\ owner[e] = None
  /\ owner' = [owner EXCEPT ![e] = Stranger]
  /\ UNCHANGED <<invite, issued, mail, sender, visit>>

--------------------------------------------------------------------------------

Administrator == \/ \E s \in Senders, i \in Invites, e \in Emails : Create(s, i, e)
                 \/ \E s \in Senders, i \in Invites : Resend(s, i)
                 \/ \E i \in Invites, e \in Emails : Edit(i, e)
                 \/ \E i \in Invites : Cancel(i)
                 \/ \E s \in Senders : Send(s) \/ RecordDelivery(s) \/ SenderLost(s)

Student(v) == \/ \E link \in mail : Open(v, link)
              \/ Claim(v)
              \/ UpdateAccount(v)
              \/ CreateAccount(v)
              \/ Release(v)
              \/ RecordAccount(v)
              \/ Complete(v)
              \/ VisitLost(v)

Next == \/ Administrator
        \/ \E v \in Visits : Student(v)
        \/ \E i \in Invites : Expire(i)
        \/ \E e \in Emails : Register(e)

Spec == Init /\ [][Next]_vars

--------------------------------------------------------------------------------
(* Properties *)

\* SentIsCurrent: an invitation that is listed as sent was sent its current link, to
\* its current address; the result of an older message, recorded after a resend or an
\* edit, does not show (record_student_onboarding_delivery).
SentIsCurrent ==
  \A i \in Invites : invite[i].status = "pending" /\ invite[i].delivery = "sent"
                       => CurrentLink(i) \in mail

\* AcceptedFits: an accepted invitation belongs to the account at its address, which
\* was made for it, although the address may have changed between the calls of the
\* setup (complete_student_onboarding_invitation).
AcceptedFits ==
  \A i \in Invites : invite[i].status = "accepted"
                       => /\ invite[i].accepted = invite[i].account
                          /\ invite[i].accepted = invite[i].email
                          /\ owner[invite[i].email] = i

\* The setup of invitation i holds a claim, or has made an account.
Started(i) ==
  \/ \E v \in Visits : visit[v] # None /\ visit[v].link.inv = i /\ visit[v].at # "claim"
  \/ \E e \in Emails : owner[e] = i

\* SetupLocks: once a student has begun to set up the account, the invitation is not
\* cancelled and keeps its address.  This is what the dialogs and the messages of the
\* service say; the functions of the last migration do not do it.
SetupLocks ==
  [][\A i \in Invites :
       Started(i) => /\ invite[i].status = "pending" => invite'[i].status # "cancelled"
                     /\ invite'[i].email = invite[i].email]_vars
================================================================================
