---------------------------- MODULE MCEmailRecords ----------------------------
(* Two instances of EmailOutbox for TLC, one invitation whose jobs two workers *)
(* retry, and two invitations of whose messages, sent once by one worker, the  *)
(* provider reports.  A behaviour is one of either, chosen in its first state. *)
EXTENDS EmailOutbox, TLC

CONSTANTS w1, w2, i1, i2

VARIABLES crew,  \* the workers that are run
          rows   \* the invitations that are made

SentOnce == INSTANCE EmailOutbox WITH RetryLimit <- 1

MCInit == /\ Init
          /\ \/ crew = Workers /\ rows \in {{i} : i \in Invitations}
             \/ crew \in {{w} : w \in Workers} /\ rows = Invitations

Retried == /\ crew = Workers
           /\ \/ \E i \in rows : InvitationStep(i)
              \/ \E w \in crew : WorkerStep(w)
              \/ \E j \in DOMAIN jobs : Lapse(j)

Reported == /\ crew # Workers
            /\ \/ \E i \in rows : SentOnce!InvitationStep(i)
               \/ \E w \in crew : SentOnce!WorkerStep(w)
               \/ \E j \in DOMAIN jobs : SentOnce!Lapse(j)
               \/ SentOnce!ProviderStep

MCSpec == MCInit /\ [][(Retried \/ Reported) /\ UNCHANGED <<crew, rows>>]_<<vars, crew, rows>>

Symmetry == {p @@ q : p \in Permutations(Workers), q \in Permutations(Invitations)}
================================================================================
