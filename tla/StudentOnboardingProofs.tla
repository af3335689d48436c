------------------------- MODULE StudentOnboardingProofs -------------------------
(***************************************************************************)
(* Theorems about StudentOnboarding, for every set of invitations,          *)
(* addresses, administrators and students.                                  *)
(***************************************************************************)
EXTENDS StudentOnboarding, TLAPS

--------------------------------------------------------------------------------
(* The invariant *)

\* A row that exists has an address and a link that was issued.
RowsHaveLinks ==
  \A i \in Invites : /\ invite[i].token <= issued
                     /\ invite[i].status # "none" => /\ invite[i].email \in Emails
                                                     /\ invite[i].token # 0

\* What is being sent was issued, and if it is still the link of its invitation, it
\* goes to the address of the invitation.
SendersHaveLinks ==
  \A s \in Senders : sender[s] # None =>
    LET link == sender[s].link IN
      /\ link.token <= issued
      /\ link.token = invite[link.inv].token => link.email = invite[link.inv].email

\* What is about to be recorded has a result, and as sent was sent.
SentIsMailed ==
  \A s \in Senders : sender[s] # None /\ sender[s].at = "record" =>
                       /\ sender[s].result # "none"
                       /\ sender[s].result = "sent" => sender[s].link \in mail

IInv == TypeOK /\ RowsHaveLinks /\ SendersHaveLinks /\ SentIsMailed
               /\ SentIsCurrent /\ AcceptedFits

\* An account that an invitation or a setup names was made for some invitation.  The
\* checks of the database do not refuse one that was not.
AccountsAreMade ==
  /\ \A i \in Invites : invite[i].account # None => owner[invite[i].account] \in Invites
  /\ \A v \in Visits : visit[v] # None /\ visit[v].account # None
                         => owner[visit[v].account] \in Invites

LEMMA Initially == Distinct /\ Init => IInv /\ AccountsAreMade
  BY DEF Distinct, Init, IInv, TypeOK, RowsHaveLinks, SendersHaveLinks, SentIsMailed, SentIsCurrent,
         AcceptedFits, AccountsAreMade, NoRow, Row, CurrentLink

--------------------------------------------------------------------------------
(* The steps of the administrator *)

\* A new link of invitation i is stored: what the new row is, and what stays.
LEMMA RotatedRow ==
  ASSUME Distinct, TypeOK, NEW i \in Invites, NEW e \in Emails, issued < MaxTokens
  PROVE  /\ Rotated(i, e) \in Row
         /\ [Rotated(i, e) EXCEPT !.status = "pending"] \in Row
         /\ Rotated(i, e).email = e
         /\ Rotated(i, e).token = issued + 1
         /\ Rotated(i, e).delivery = "pending"
         /\ Rotated(i, e).status = invite[i].status
         /\ [inv |-> i, email |-> e, token |-> issued + 1] \in Links
         /\ issued \in Nat /\ issued + 1 \in 0..MaxTokens
<1>1. invite[i] \in Row
  BY DEF TypeOK
<1>2. issued \in Nat /\ issued + 1 \in 0..MaxTokens /\ issued + 1 \in 1..MaxTokens
  BY DEF Distinct, TypeOK
<1>3. QED
  BY <1>1, <1>2 DEF Rotated, Row, Links

\* A step that gives invitation i the row r with a new link for the address e, and
\* at most sends that link.
LEMMA RotateStep ==
  ASSUME Distinct, IInv, NEW i \in Invites, NEW e \in Emails, NEW r \in Row,
         issued < MaxTokens,
         r.email = e, r.token = issued + 1, r.delivery = "pending", r.status = "pending",
         invite[i].status # "accepted",
         invite' = [invite EXCEPT ![i] = r],
         issued' = issued + 1,
         UNCHANGED <<owner, mail, visit>>,
         sender' \in [Senders -> Sending \cup {None}],
         \A s \in Senders : \/ sender'[s] = sender[s]
                            \/ sender'[s] = [at |-> "send", result |-> "none",
                                  link |-> [inv |-> i, email |-> e, token |-> issued + 1]]
  PROVE  IInv'
<1> USE DEF IInv
<1>0. issued \in Nat /\ issued + 1 \in 0..MaxTokens
  BY DEF Distinct, TypeOK
<1>1. /\ invite' \in [Invites -> Row]
      /\ invite'[i] = r
      /\ \A j \in Invites \ {i} : invite'[j] = invite[j]
  BY DEF TypeOK
<1>2. TypeOK'
  BY <1>0, <1>1 DEF TypeOK
<1>3. RowsHaveLinks'
  <2> SUFFICES ASSUME NEW j \in Invites
               PROVE  /\ invite'[j].token <= issued + 1
                      /\ invite'[j].status # "none" => /\ invite'[j].email \in Emails
                                                      /\ invite'[j].token # 0
    BY DEF RowsHaveLinks
  <2>1. CASE j = i
    BY <2>1, <1>0, <1>1
  <2>2. CASE j # i
    <3>1. invite[j].token \in Nat
      BY DEF Distinct, TypeOK, Row
    <3>2. QED
      BY <2>2, <3>1, <1>0, <1>1 DEF RowsHaveLinks
  <2>3. QED
    BY <2>1, <2>2
<1>4. SendersHaveLinks'
  <2> SUFFICES ASSUME NEW s \in Senders, sender'[s] # None
               PROVE  LET link == sender'[s].link IN
                        /\ link.token <= issued + 1
                        /\ link.token = invite'[link.inv].token
                             => link.email = invite'[link.inv].email
    BY DEF SendersHaveLinks
  <2>1. CASE sender'[s] = sender[s]
    <3>1. /\ sender[s].link.token \in Nat
          /\ sender[s].link.token <= issued
          /\ sender[s].link.inv \in Invites
      BY <2>1 DEF Distinct, TypeOK, Sending, Links, SendersHaveLinks
    <3>2. QED
      BY <2>1, <3>1, <1>0, <1>1 DEF SendersHaveLinks
  <2>2. CASE sender'[s] # sender[s]
    BY <2>2, <1>0, <1>1
  <2>3. QED
    BY <2>1, <2>2
<1>5. SentIsMailed'
  BY DEF SentIsMailed
<1>6. SentIsCurrent'
  BY <1>1 DEF SentIsCurrent, CurrentLink
<1>7. AcceptedFits'
  BY <1>1 DEF AcceptedFits
<1>8. QED
  BY <1>2, <1>3, <1>4, <1>5, <1>6, <1>7

LEMMA CreateKeeps ==
  ASSUME Distinct, IInv, NEW s \in Senders, NEW i \in Invites, NEW e \in Emails, Create(s, i, e)
  PROVE  IInv'
<1> DEFINE r == [Rotated(i, e) EXCEPT !.status = "pending"]
<1>1. TypeOK
  BY DEF IInv
<1>2. /\ r \in Row
      /\ r.email = e /\ r.token = issued + 1 /\ r.delivery = "pending" /\ r.status = "pending"
      /\ [inv |-> i, email |-> e, token |-> issued + 1] \in Links
  BY <1>1, RotatedRow DEF Create, Row
<1>3. sender' \in [Senders -> Sending \cup {None}]
  BY <1>1, <1>2 DEF Create, Issue, TypeOK, Sending
<1>4. \A t \in Senders : \/ sender'[t] = sender[t]
                         \/ sender'[t] = [at |-> "send", result |-> "none",
                               link |-> [inv |-> i, email |-> e, token |-> issued + 1]]
  BY <1>1 DEF Create, Issue, TypeOK
<1>5. QED
  BY <1>2, <1>3, <1>4, RotateStep DEF Create

LEMMA ResendKeeps ==
  ASSUME Distinct, IInv, NEW s \in Senders, NEW i \in Invites, Resend(s, i)
  PROVE  IInv'
<1> DEFINE e == invite[i].email
           r == Rotated(i, e)
<1>1. TypeOK /\ e \in Emails
  BY DEF IInv, RowsHaveLinks, Resend
<1>2. /\ r \in Row
      /\ r.email = e /\ r.token = issued + 1 /\ r.delivery = "pending" /\ r.status = "pending"
      /\ [inv |-> i, email |-> e, token |-> issued + 1] \in Links
  BY <1>1, RotatedRow DEF Resend
<1>3. sender' \in [Senders -> Sending \cup {None}]
  BY <1>1, <1>2 DEF Resend, Issue, TypeOK, Sending
<1>4. \A t \in Senders : \/ sender'[t] = sender[t]
                         \/ sender'[t] = [at |-> "send", result |-> "none",
                               link |-> [inv |-> i, email |-> e, token |-> issued + 1]]
  BY <1>1 DEF Resend, Issue, TypeOK
<1> HIDE DEF r
<1>5. QED
  BY <1>1, <1>2, <1>3, <1>4, RotateStep DEF Resend, r

LEMMA EditKeeps ==
  ASSUME Distinct, IInv, NEW i \in Invites, NEW e \in Emails, Edit(i, e)
  PROVE  IInv'
<1> DEFINE r == Rotated(i, e)
<1>1. TypeOK
  BY DEF IInv
<1>2. /\ r \in Row
      /\ r.email = e /\ r.token = issued + 1 /\ r.delivery = "pending" /\ r.status = "pending"
  BY <1>1, RotatedRow DEF Edit
<1>3. sender' \in [Senders -> Sending \cup {None}]
  BY <1>1 DEF Edit, TypeOK
<1>4. QED
  BY <1>2, <1>3, RotateStep DEF Edit

\* The steps that change only the mailboxes, the senders, or how a row fares.
LEMMA SendKeeps ==
  ASSUME IInv, NEW s \in Senders, Send(s)
  PROVE  IInv'
<1> USE DEF IInv
<1>1. PICK result \in {"sent", "failed"}, delivered \in BOOLEAN :
         /\ result = "sent" => delivered
         /\ mail' = IF delivered THEN mail \cup {sender[s].link} ELSE mail
         /\ sender' = [sender EXCEPT ![s].at = "record", ![s].result = result]
  BY DEF Send
<1>2. sender[s] \in Sending /\ sender[s].link \in Links
  BY DEF Send, TypeOK, Sending
<1>3. /\ mail \subseteq mail' /\ mail' \subseteq Links
      /\ result = "sent" => sender[s].link \in mail'
  BY <1>1, <1>2 DEF TypeOK
<1>4. /\ sender'[s].link = sender[s].link
      /\ sender'[s].result = result
      /\ sender'[s] \in Sending
      /\ \A t \in Senders \ {s} : sender'[t] = sender[t]
      /\ sender' \in [Senders -> Sending \cup {None}]
  BY <1>1, <1>2 DEF TypeOK, Sending
<1>5. TypeOK'
  BY <1>3, <1>4 DEF Send, TypeOK
<1>6. SendersHaveLinks'
  BY <1>4 DEF Send, SendersHaveLinks
<1>7. SentIsMailed'
  BY <1>3, <1>4 DEF SentIsMailed
<1>8. RowsHaveLinks' /\ SentIsCurrent' /\ AcceptedFits'
  BY <1>3 DEF Send, RowsHaveLinks, SentIsCurrent, AcceptedFits, CurrentLink
<1>9. QED
  BY <1>5, <1>6, <1>7, <1>8

LEMMA SenderEnds ==
  ASSUME IInv, NEW s \in Senders, sender' = [sender EXCEPT ![s] = None]
  PROVE  /\ sender' \in [Senders -> Sending \cup {None}]
         /\ UNCHANGED <<invite, issued>> => SendersHaveLinks'
         /\ UNCHANGED mail => SentIsMailed'
<1>1. /\ sender' \in [Senders -> Sending \cup {None}]
      /\ \A t \in Senders : sender'[t] # None => sender'[t] = sender[t]
  BY DEF IInv, TypeOK
<1>2. QED
  BY <1>1 DEF IInv, SendersHaveLinks, SentIsMailed

\* A step that changes no link, address, delivery status or account, and accepts an
\* invitation only for the account at its address.
LEMMA RowStep ==
  ASSUME IInv, NEW i \in Invites, NEW r \in Row,
         invite' = [invite EXCEPT ![i] = r],
         UNCHANGED <<owner, issued, mail, sender>>,
         visit' \in [Visits -> Setup \cup {None}],
         r.email = invite[i].email, r.token = invite[i].token,
         r.status # "none" => invite[i].status # "none",
         r.status = "pending" => invite[i].status = "pending",
         r.delivery = invite[i].delivery,
         r.status = "accepted" => /\ r.accepted = r.account
                                  /\ r.accepted = r.email
                                  /\ owner[r.email] = i
  PROVE  IInv'
<1> USE DEF IInv
<1>1. /\ invite' \in [Invites -> Row]
      /\ invite'[i] = r
      /\ \A j \in Invites \ {i} : invite'[j] = invite[j]
  BY DEF TypeOK
<1>2. \A j \in Invites : /\ invite'[j].email = invite[j].email
                         /\ invite'[j].token = invite[j].token
                         /\ invite'[j].delivery = invite[j].delivery
                         /\ invite'[j].status = "pending" => invite[j].status = "pending"
                         /\ invite'[j].status # "none" => invite[j].status # "none"
  BY <1>1
<1>3. TypeOK'
  BY <1>1 DEF TypeOK
<1>4. RowsHaveLinks'
  BY <1>2 DEF RowsHaveLinks
<1>5. SendersHaveLinks'
  <2> SUFFICES ASSUME NEW s \in Senders, sender[s] # None
               PROVE  LET link == sender[s].link IN
                        /\ link.token <= issued
                        /\ link.token = invite'[link.inv].token
                             => link.email = invite'[link.inv].email
    BY DEF SendersHaveLinks
  <2>1. sender[s].link.inv \in Invites
    BY DEF TypeOK, Sending, Links
  <2>2. QED
    BY <2>1, <1>2 DEF SendersHaveLinks
<1>6. SentIsMailed' /\ SentIsCurrent'
  BY <1>2 DEF SentIsMailed, SentIsCurrent, CurrentLink
<1>7. AcceptedFits'
  BY <1>1 DEF AcceptedFits
<1>8. QED
  BY <1>3, <1>4, <1>5, <1>6, <1>7

LEMMA RecordDeliveryKeeps ==
  ASSUME IInv, NEW s \in Senders, RecordDelivery(s)
  PROVE  IInv'
<1> USE DEF IInv
<1> DEFINE link == sender[s].link
           i == link.inv
           recorded == invite[i].status = "pending" /\ invite[i].token = link.token
<1>1. /\ sender[s] \in Sending /\ link \in Links /\ i \in Invites
      /\ sender[s].at = "record" /\ sender[s] # None
  BY DEF RecordDelivery, TypeOK, Sending, Links
<1>2. /\ sender' \in [Senders -> Sending \cup {None}]
      /\ SentIsMailed'
      /\ \A t \in Senders : sender'[t] # None => sender'[t] = sender[t]
  BY SenderEnds DEF RecordDelivery, TypeOK
<1>6. UNCHANGED <<owner, issued, mail, visit>>
  BY DEF RecordDelivery
<1>3. CASE ~recorded
  <2>1. UNCHANGED invite
    BY <1>3 DEF RecordDelivery
  <2>2. QED
    BY <2>1, <1>2, SenderEnds DEF RecordDelivery, TypeOK, RowsHaveLinks, SentIsCurrent,
       AcceptedFits, CurrentLink
<1>4. CASE recorded
  <2>1. invite' = [invite EXCEPT ![i].delivery = sender[s].result]
    BY <1>4 DEF RecordDelivery
  <2>2. /\ sender[s].result \in {"sent", "failed"}
        /\ sender[s].result = "sent" => link \in mail
    BY <1>1 DEF Sending, SentIsMailed
  <2>3. /\ invite' \in [Invites -> Row]
        /\ invite'[i] = [invite[i] EXCEPT !.delivery = sender[s].result]
        /\ \A j \in Invites \ {i} : invite'[j] = invite[j]
    BY <2>1, <2>2, <1>1 DEF TypeOK, Row
  <2>4. /\ \A j \in Invites : /\ invite'[j].email = invite[j].email
                             /\ invite'[j].token = invite[j].token
                             /\ invite'[j].status = invite[j].status
                             /\ invite'[j].account = invite[j].account
                             /\ invite'[j].accepted = invite[j].accepted
        /\ invite'[i].delivery = sender[s].result
    BY <2>3, <1>1 DEF TypeOK, Row
  <2>5. TypeOK'
    BY <2>3, <1>2, <1>6 DEF TypeOK
  <2>6. RowsHaveLinks' /\ AcceptedFits'
    BY <2>4, <1>6 DEF RowsHaveLinks, AcceptedFits
  <2>7. SendersHaveLinks'
    <3> SUFFICES ASSUME NEW t \in Senders, sender'[t] # None
                 PROVE  LET l == sender'[t].link IN
                          /\ l.token <= issued
                          /\ l.token = invite'[l.inv].token => l.email = invite'[l.inv].email
      BY DEF SendersHaveLinks, RecordDelivery
    <3>1. sender'[t] = sender[t] /\ sender[t].link.inv \in Invites
      BY <1>2 DEF TypeOK, Sending, Links
    <3>2. QED
      BY <3>1, <2>4 DEF SendersHaveLinks
  <2>8. SentIsCurrent'
    <3> SUFFICES ASSUME NEW j \in Invites,
                        invite'[j].status = "pending", invite'[j].delivery = "sent"
                 PROVE  CurrentLink(j)' \in mail
      BY DEF SentIsCurrent, RecordDelivery
    <3>1. CurrentLink(j)' = CurrentLink(j)
      BY <2>4 DEF CurrentLink
    <3>2. CASE j # i
      BY <3>1, <3>2, <2>3 DEF SentIsCurrent
    <3>3. CASE j = i
      <4>1. link \in mail
        BY <3>3, <2>2, <2>4
      <4>2. link = CurrentLink(i)
        BY <1>1, <1>4 DEF CurrentLink, Links, SendersHaveLinks
      <4>3. QED
        BY <4>1, <4>2, <3>1, <3>3
    <3>4. QED
      BY <3>2, <3>3
  <2>9. QED
    BY <2>5, <2>6, <2>7, <1>2, <2>8
<1>5. QED
  BY <1>3, <1>4

LEMMA SenderLostKeeps ==
  ASSUME IInv, NEW s \in Senders, SenderLost(s)
  PROVE  IInv'
<1>1. sender' = [sender EXCEPT ![s] = None] /\ UNCHANGED <<invite, owner, issued, mail, visit>>
  BY DEF SenderLost
<1>2. QED
  BY <1>1, SenderEnds DEF IInv, TypeOK, RowsHaveLinks, SentIsCurrent, AcceptedFits, CurrentLink

LEMMA CancelKeeps ==
  ASSUME IInv, NEW i \in Invites, Cancel(i)
  PROVE  IInv'
<1> DEFINE r == [invite[i] EXCEPT !.status = "cancelled"]
<1>1. /\ r \in Row /\ visit' \in [Visits -> Setup \cup {None}]
      /\ r.email = invite[i].email /\ r.token = invite[i].token
      /\ r.delivery = invite[i].delivery /\ r.status = "cancelled"
      /\ invite' = [invite EXCEPT ![i] = r]
  BY DEF IInv, TypeOK, Cancel, Row
<1> HIDE DEF r
<1>2. QED
  BY <1>1, RowStep DEF Cancel

LEMMA ExpireKeeps ==
  ASSUME IInv, NEW i \in Invites, Expire(i)
  PROVE  IInv'
<1> DEFINE r == [invite[i] EXCEPT !.live = FALSE]
<1>1. /\ r \in Row /\ visit' \in [Visits -> Setup \cup {None}]
      /\ r.email = invite[i].email /\ r.token = invite[i].token
      /\ r.delivery = invite[i].delivery /\ r.status = invite[i].status
      /\ r.accepted = invite[i].accepted /\ r.account = invite[i].account
      /\ invite' = [invite EXCEPT ![i] = r]
  BY DEF IInv, TypeOK, Expire, Row
<1>2. r.status = "accepted" => /\ r.accepted = r.account
                              /\ r.accepted = r.email
                              /\ owner[r.email] = i
  BY <1>1 DEF IInv, AcceptedFits
<1>3. UNCHANGED <<owner, issued, mail, sender>>
  BY DEF Expire
<1> HIDE DEF r
<1>4. QED
  BY <1>1, <1>2, <1>3, RowStep

--------------------------------------------------------------------------------
(* The steps of the student *)

\* A step that changes only the setups.
LEMMA VisitStep ==
  ASSUME IInv, UNCHANGED <<invite, owner, issued, mail, sender>>,
         visit' \in [Visits -> Setup \cup {None}]
  PROVE  IInv'
  BY DEF IInv, TypeOK, RowsHaveLinks, SendersHaveLinks, SentIsMailed, SentIsCurrent,
         AcceptedFits, CurrentLink

LEMMA SetupTypes ==
  ASSUME IInv, NEW v \in Visits
  PROVE  /\ Leave(v) => visit' \in [Visits -> Setup \cup {None}]
         /\ visit[v] # None =>
              /\ visit[v] \in Setup
              /\ visit[v].link \in Links
              /\ visit[v].link.inv \in Invites
              /\ \A at \in {"claim", "account", "release", "record", "complete"} :
                   Proceed(v, at) => visit' \in [Visits -> Setup \cup {None}]
  BY DEF IInv, TypeOK, Leave, Proceed, Setup, Links

LEMMA OpenKeeps ==
  ASSUME Distinct, IInv, NEW v \in Visits, NEW link \in mail, Open(v, link)
  PROVE  IInv'
<1> DEFINE i == link.inv
<1>1. i \in Invites /\ invite[i] \in Row /\ invite[i].status = "pending"
  BY DEF IInv, TypeOK, Links, Open, Usable
<1>2. /\ invite[i].email \in Emails
      /\ invite[i].token \in 1..MaxTokens
  BY <1>1 DEF Distinct, IInv, RowsHaveLinks, Row
<1>3. CurrentLink(i) \in Links
  BY <1>1, <1>2 DEF CurrentLink, Links
<1>4. Provisioned(i) \in Emails \cup {None}
  BY <1>1, <1>2 DEF Provisioned, Row
<1>5. visit' \in [Visits -> Setup \cup {None}]
  BY <1>3, <1>4 DEF Open, IInv, TypeOK, Setup
<1>6. QED
  BY <1>5, VisitStep DEF Open

LEMMA CallKeeps ==
  ASSUME IInv, NEW v \in Visits,
         Claim(v) \/ UpdateAccount(v) \/ Release(v) \/ VisitLost(v)
  PROVE  IInv'
<1>1. visit' \in [Visits -> Setup \cup {None}]
  BY SetupTypes DEF Claim, UpdateAccount, Release, VisitLost
<1>2. UNCHANGED <<invite, owner, issued, mail, sender>>
  BY DEF Claim, UpdateAccount, Release, VisitLost
<1>3. QED
  BY <1>1, <1>2, VisitStep

\* A step that makes an account where there is none.
LEMMA OwnerStep ==
  ASSUME Distinct, IInv, NEW e \in Emails, NEW o \in Invites \cup {Stranger},
         owner[e] = None, owner' = [owner EXCEPT ![e] = o],
         UNCHANGED <<invite, issued, mail, sender>>,
         visit' \in [Visits -> Setup \cup {None}]
  PROVE  IInv'
<1> USE DEF IInv
<1>1. TypeOK'
  BY DEF TypeOK
<1>2. RowsHaveLinks' /\ SendersHaveLinks' /\ SentIsMailed' /\ SentIsCurrent'
  BY DEF RowsHaveLinks, SendersHaveLinks, SentIsMailed, SentIsCurrent, CurrentLink
<1>3. AcceptedFits'
  <2> SUFFICES ASSUME NEW i \in Invites, invite[i].status = "accepted"
               PROVE  owner'[invite[i].email] = i
    BY DEF AcceptedFits
  <2>1. owner[invite[i].email] = i /\ i # None /\ invite[i].email \in Emails
    BY DEF Distinct, AcceptedFits, RowsHaveLinks
  <2>2. QED
    BY <2>1 DEF TypeOK
<1>4. QED
  BY <1>1, <1>2, <1>3

LEMMA CreateAccountKeeps ==
  ASSUME Distinct, IInv, NEW v \in Visits, CreateAccount(v)
  PROVE  IInv'
<1> DEFINE link == visit[v].link
<1>1. visit[v] \in Setup /\ link \in Links /\ link.inv \in Invites /\ link.email \in Emails
  BY SetupTypes DEF CreateAccount, Links
<1>2. visit' \in [Visits -> Setup \cup {None}]
  <2>1. CASE visit' = [visit EXCEPT ![v].at = "record", ![v].account = link.email]
    BY <2>1, <1>1 DEF IInv, TypeOK, Setup
  <2>2. CASE Proceed(v, "release")
    BY <2>2, SetupTypes DEF CreateAccount
  <2>3. QED
    BY <2>1, <2>2 DEF CreateAccount
<1>3. UNCHANGED <<invite, issued, mail, sender>>
  BY DEF CreateAccount
<1>4. \/ UNCHANGED owner
      \/ owner[link.email] = None /\ owner' = [owner EXCEPT ![link.email] = link.inv]
  BY DEF CreateAccount
<1>5. QED
  BY <1>1, <1>2, <1>3, <1>4, OwnerStep, VisitStep

LEMMA RegisterKeeps ==
  ASSUME Distinct, IInv, NEW e \in Emails, Register(e)
  PROVE  IInv'
<1>1. visit' \in [Visits -> Setup \cup {None}]
  BY DEF Register, IInv, TypeOK
<1>2. QED
  BY <1>1, OwnerStep DEF Register

LEMMA RecordAccountKeeps ==
  ASSUME IInv, NEW v \in Visits, RecordAccount(v)
  PROVE  IInv'
<1> DEFINE i == visit[v].link.inv
           e == visit[v].account
           r == [invite[i] EXCEPT !.account = e]
<1>1. /\ visit[v] # None /\ i \in Invites /\ visit[v] \in Setup /\ invite[i] \in Row
      /\ UNCHANGED <<owner, issued, mail, sender>>
  BY SetupTypes DEF RecordAccount, IInv, TypeOK
<1>2. visit' \in [Visits -> Setup \cup {None}]
  BY SetupTypes DEF RecordAccount
<1>3. CASE UNCHANGED invite
  BY <1>1, <1>2, <1>3, VisitStep
<1>4. CASE invite[i].status = "pending" /\ invite' = [invite EXCEPT ![i].account = e]
  <2>1. /\ r \in Row /\ invite' = [invite EXCEPT ![i] = r]
        /\ r.email = invite[i].email /\ r.token = invite[i].token
        /\ r.delivery = invite[i].delivery /\ r.status = "pending"
    BY <1>1, <1>4 DEF Row, Setup
  <2> HIDE DEF r
  <2>2. QED
    BY <1>1, <1>2, <1>4, <2>1, RowStep
<1>5. QED
  BY <1>3, <1>4 DEF RecordAccount, Usable

LEMMA CompleteKeeps ==
  ASSUME Distinct, IInv, AccountsAreMade, NEW v \in Visits, Complete(v)
  PROVE  IInv'
<1> DEFINE i == visit[v].link.inv
           e == visit[v].account
           r == [invite[i] EXCEPT !.status = "accepted", !.accepted = e]
<1>1. /\ visit[v] # None /\ i \in Invites /\ visit[v] \in Setup /\ invite[i] \in Row
      /\ UNCHANGED <<owner, issued, mail, sender>>
  BY SetupTypes DEF Complete, IInv, TypeOK
<1>2. visit' \in [Visits -> Setup \cup {None}]
  BY SetupTypes DEF Complete
<1>3. CASE UNCHANGED invite
  BY <1>1, <1>2, <1>3, VisitStep
<1>4. CASE /\ invite[i].status = "pending" /\ invite[i].account = e /\ Fits(i, e)
           /\ invite' = [invite EXCEPT ![i].status = "accepted", ![i].accepted = e]
  <2>1. /\ r \in Row /\ invite' = [invite EXCEPT ![i] = r]
        /\ r.email = invite[i].email /\ r.token = invite[i].token
        /\ r.delivery = invite[i].delivery /\ r.status = "accepted"
        /\ r.accepted = r.account /\ r.accepted = r.email /\ owner[r.email] = i
    <3>1. e # None /\ e = invite[i].email /\ owner[e] \in {i, Stranger}
      BY <1>4 DEF Fits
    <3>2. owner[e] \in Invites
      BY <1>1, <3>1 DEF AccountsAreMade
    <3>3. owner[e] = i
      BY <3>1, <3>2 DEF Distinct
    <3>4. QED
      BY <1>1, <1>4, <3>1, <3>3 DEF Row
  <2> HIDE DEF r
  <2>2. QED
    BY <1>1, <1>2, <1>4, <2>1, RowStep
<1>5. QED
  BY <1>3, <1>4 DEF Complete, Usable

--------------------------------------------------------------------------------
(* Where accounts come from *)

\* The accounts of the rows and the setups that a step leaves alone stay accounts that
\* were made for an invitation.
LEMMA MadeStep ==
  ASSUME TypeOK, AccountsAreMade,
         \A e \in Emails : owner[e] \in Invites => owner'[e] = owner[e],
         \A i \in Invites : \/ invite'[i].account = invite[i].account
                            \/ owner'[invite'[i].account] \in Invites,
         \A v \in Visits : \/ visit'[v] = None
                           \/ visit[v] # None /\ visit'[v].account = visit[v].account
                           \/ visit'[v].account = None
                           \/ owner'[visit'[v].account] \in Invites
  PROVE  AccountsAreMade'
<1>1. /\ \A i \in Invites : invite[i].account \in Emails \cup {None}
      /\ \A v \in Visits : visit[v] # None => visit[v].account \in Emails \cup {None}
  BY DEF TypeOK, Row, Setup
<1>2. QED
  BY <1>1 DEF AccountsAreMade

LEMMA NextMakesAccounts ==
  Distinct /\ IInv /\ AccountsAreMade /\ [Next]_vars => AccountsAreMade'
<1> SUFFICES ASSUME Distinct, IInv, AccountsAreMade, [Next]_vars
             PROVE  AccountsAreMade'
  OBVIOUS
<1>0. TypeOK
  BY DEF IInv
<1>1. CASE Administrator
  <2>1. UNCHANGED <<owner, visit>>
    BY <1>1 DEF Administrator, Create, Resend, Edit, Cancel, Send, RecordDelivery, SenderLost
  <2>2. \A i \in Invites : invite'[i].account = invite[i].account
    <3>1. CASE \E s \in Senders, i \in Invites, e \in Emails : Create(s, i, e)
      BY <3>1, <1>0 DEF Create, Rotated, TypeOK, Row
    <3>2. CASE \E s \in Senders, i \in Invites : Resend(s, i)
      BY <3>2, <1>0 DEF Resend, Rotated, TypeOK, Row
    <3>3. CASE \E i \in Invites, e \in Emails : Edit(i, e)
      BY <3>3, <1>0 DEF Edit, Rotated, TypeOK, Row
    <3>4. CASE \E i \in Invites : Cancel(i)
      BY <3>4, <1>0 DEF Cancel, TypeOK, Row
    <3>5. CASE \E s \in Senders : Send(s) \/ RecordDelivery(s) \/ SenderLost(s)
      BY <3>5, <1>0 DEF Send, RecordDelivery, SenderLost, TypeOK, Row
    <3>6. QED
      BY <1>1, <3>1, <3>2, <3>3, <3>4, <3>5 DEF Administrator
  <2>3. QED
    BY <1>0, <2>1, <2>2, MadeStep
<1>2. ASSUME NEW v \in Visits, Student(v)
      PROVE  AccountsAreMade'
  <2>1. ASSUME NEW link \in mail, Open(v, link)
        PROVE  AccountsAreMade'
    <3> DEFINE i == link.inv
    <3>1. i \in Invites /\ invite[i].status = "pending" /\ invite[i].email \in Emails
      BY <2>1 DEF IInv, TypeOK, Links, Open, Usable, RowsHaveLinks
    <3>2. Provisioned(i) = None \/ owner[Provisioned(i)] \in Invites
      BY <3>1 DEF Provisioned, AccountsAreMade
    <3>3. /\ \A w \in Visits \ {v} : visit'[w] = visit[w]
          /\ visit'[v].account = Provisioned(i)
      BY <2>1, <1>0 DEF Open, TypeOK
    <3> HIDE DEF i
    <3>4. UNCHANGED <<invite, owner>>
      BY <2>1 DEF Open
    <3>5. \A w \in Visits : \/ visit'[w] = None
                            \/ visit[w] # None /\ visit'[w].account = visit[w].account
                            \/ visit'[w].account = None
                            \/ owner'[visit'[w].account] \in Invites
      BY <3>2, <3>3, <3>4
    <3>6. QED
      BY <1>0, <3>4, <3>5, MadeStep
  <2>2. CASE Claim(v) \/ UpdateAccount(v) \/ Release(v) \/ VisitLost(v)
    <3>1. UNCHANGED <<invite, owner>>
      BY <2>2 DEF Claim, UpdateAccount, Release, VisitLost
    <3>2. \A w \in Visits : \/ visit'[w] = None
                            \/ visit[w] # None /\ visit'[w].account = visit[w].account
      BY <2>2, <1>0 DEF Claim, UpdateAccount, Release, VisitLost, Leave, Proceed, TypeOK, Setup
    <3>3. QED
      BY <1>0, <3>1, <3>2, MadeStep
  <2>3. CASE CreateAccount(v)
    <3> DEFINE link == visit[v].link
    <3>1. visit[v] \in Setup /\ link.inv \in Invites /\ link.email \in Emails
      BY <2>3, SetupTypes DEF CreateAccount, Links
    <3>2. \A e \in Emails : owner[e] \in Invites => owner'[e] = owner[e]
      BY <2>3, <3>1, <1>0 DEF Distinct, CreateAccount, TypeOK
    <3>3. \A w \in Visits : \/ visit'[w] = None
                            \/ visit[w] # None /\ visit'[w].account = visit[w].account
                            \/ owner'[visit'[w].account] \in Invites
      <4>1. CASE /\ owner' = [owner EXCEPT ![link.email] = link.inv]
                 /\ visit' = [visit EXCEPT ![v].at = "record", ![v].account = link.email]
        BY <4>1, <3>1, <1>0 DEF TypeOK, Setup
      <4>2. CASE Proceed(v, "release")
        BY <4>2, <2>3, <1>0 DEF Proceed, CreateAccount, TypeOK, Setup
      <4>3. QED
        BY <2>3, <4>1, <4>2 DEF CreateAccount
    <3>4. UNCHANGED invite
      BY <2>3 DEF CreateAccount
    <3>5. QED
      BY <1>0, <3>2, <3>3, <3>4, MadeStep
  <2>4. CASE RecordAccount(v) \/ Complete(v)
    <3> DEFINE i == visit[v].link.inv
               e == visit[v].account
    <3>1. visit[v] # None /\ visit[v] \in Setup /\ i \in Invites /\ UNCHANGED owner
      BY <2>4, SetupTypes DEF RecordAccount, Complete
    <3>2. \A w \in Visits : \/ visit'[w] = None
                            \/ visit[w] # None /\ visit'[w].account = visit[w].account
      BY <2>4, <1>0 DEF RecordAccount, Complete, Leave, Proceed, TypeOK, Setup
    <3>3. \A j \in Invites : \/ invite'[j].account = invite[j].account
                             \/ owner'[invite'[j].account] \in Invites
      <4>1. CASE UNCHANGED invite
        BY <4>1
      <4>2. CASE Fits(i, e) /\ invite' = [invite EXCEPT ![i].account = e]
        <5>1. owner[e] \in Invites
          BY <4>2, <3>1 DEF Fits, AccountsAreMade
        <5>2. QED
          BY <4>2, <5>1, <3>1, <1>0 DEF TypeOK, Row
      <4>3. CASE invite' = [invite EXCEPT ![i].status = "accepted", ![i].accepted = e]
        BY <4>3, <3>1, <1>0 DEF TypeOK, Row
      <4>4. QED
        BY <2>4, <4>1, <4>2, <4>3 DEF RecordAccount, Complete
    <3>4. QED
      BY <1>0, <3>1, <3>2, <3>3, MadeStep
  <2>5. QED
    BY <1>2, <2>1, <2>2, <2>3, <2>4 DEF Student
<1>3. ASSUME NEW i \in Invites, Expire(i)
      PROVE  AccountsAreMade'
  BY <1>3, <1>0, MadeStep DEF Expire, TypeOK, Row
<1>4. ASSUME NEW e \in Emails, Register(e)
      PROVE  AccountsAreMade'
  <2>1. \A f \in Emails : owner[f] \in Invites => owner'[f] = owner[f]
    BY <1>4, <1>0 DEF Distinct, Register, TypeOK
  <2>2. UNCHANGED <<invite, visit>>
    BY <1>4 DEF Register
  <2>3. QED
    BY <1>0, <2>1, <2>2, MadeStep DEF AccountsAreMade
<1>5. CASE UNCHANGED vars
  BY <1>5 DEF vars, AccountsAreMade
<1>6. QED
  BY <1>1, <1>2, <1>3, <1>4, <1>5 DEF Next

--------------------------------------------------------------------------------
(* Theorems *)

LEMMA NextKeeps ==
  Distinct /\ IInv /\ AccountsAreMade /\ [Next]_vars => IInv'
<1> SUFFICES ASSUME Distinct, IInv, AccountsAreMade, [Next]_vars
             PROVE  IInv'
  OBVIOUS
<1>1. CASE Administrator
  BY <1>1, CreateKeeps, ResendKeeps, EditKeeps, CancelKeeps, SendKeeps, RecordDeliveryKeeps,
     SenderLostKeeps DEF Administrator
<1>2. ASSUME NEW v \in Visits, Student(v)
      PROVE  IInv'
  BY <1>2, OpenKeeps, CallKeeps, CreateAccountKeeps, RecordAccountKeeps, CompleteKeeps
     DEF Student
<1>3. ASSUME NEW i \in Invites, Expire(i)
      PROVE  IInv'
  BY <1>3, ExpireKeeps
<1>4. ASSUME NEW e \in Emails, Register(e)
      PROVE  IInv'
  BY <1>4, RegisterKeeps
<1>5. CASE UNCHANGED vars
  BY <1>5 DEF vars, IInv, TypeOK, RowsHaveLinks, SendersHaveLinks, SentIsMailed,
     SentIsCurrent, AcceptedFits, CurrentLink
<1>6. QED
  BY <1>1, <1>2, <1>3, <1>4, <1>5 DEF Next

LEMMA Invariance == Distinct /\ Spec => []IInv
<1> DEFINE Inv == Distinct /\ IInv /\ AccountsAreMade
<1>1. Distinct /\ Init => Inv
  BY Initially
<1>2. Distinct => Distinct'
  BY DEF Distinct
<1>3. Inv /\ [Next]_vars => Inv'
  BY <1>2, NextKeeps, NextMakesAccounts
<1>4. Inv => IInv
  OBVIOUS
<1> HIDE DEF Inv
<1>5. QED
  BY <1>1, <1>3, <1>4, PTL DEF Spec

\* Type correctness: every row, link, account, message and setup is well typed.
THEOREM OnboardingTypes == Distinct /\ Spec => []TypeOK
<1>1. IInv => TypeOK
  BY DEF IInv
<1>2. QED
  BY <1>1, Invariance, PTL

\* SentIsCurrent: an invitation that shows as sent was sent the link it has now, to the
\* address it has now, however many resends and edits overtook its messages.
THEOREM SentLinksAreCurrent == Distinct /\ Spec => []SentIsCurrent
<1>1. IInv => SentIsCurrent
  BY DEF IInv
<1>2. QED
  BY <1>1, Invariance, PTL

\* AcceptedFits: an accepted invitation belongs to the account that was made for it at
\* its address, and stays so, however many setups and edits ran at the same time.
THEOREM AcceptedAccountsFit == Distinct /\ Spec => []AcceptedFits
<1>1. IInv => AcceptedFits
  BY DEF IInv
<1>2. QED
  BY <1>1, Invariance, PTL
================================================================================
