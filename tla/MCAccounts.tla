------------------------------- MODULE MCAccounts ------------------------------
(* An instance of Accounts for TLC.  A behaviour is one of one part; the      *)
(* others keep their initial states.                                          *)
EXTENDS Accounts, TLC

CONSTANTS a, b, all

\* Two addresses with a budget of one, and everybody with a budget of two.
MCScopes == {a, b, all}

MCLimit == a :> 1 @@ b :> 1 @@ all :> 2

MCCharges == {{a, all}, {b, all}}

VARIABLE component

studentVars == <<invite, owner, issued, mail, sender, visit>>

tenancyVars == <<login, row, org, inst, rows, join, reg, deciding, trouble>>

limiterVars == <<clock, events, call, charged, straggler, since>>

\* Callers are alike; they come in the order of their numbers.
InOrder == \A p, q \in Callers : p < q /\ call[q].at # "idle" => call[p].at # "idle"

allVars == <<component, vars, studentVars, tenancyVars, limiterVars>>

MCInit == /\ component \in {"students", "invitations", "tenancy", "limiter"}
          /\ Init
          /\ Students!Init
          /\ Tenants!Init
          /\ Limiter!Init
          /\ component # "invitations" => kind = "platform"

MCNext ==
  /\ UNCHANGED component
  /\ \/ /\ component = "invitations" /\ Next
        /\ UNCHANGED <<studentVars, tenancyVars, limiterVars>>
     \/ /\ component = "students" /\ Students!Next
        /\ UNCHANGED <<vars, tenancyVars, limiterVars>>
     \/ /\ component = "tenancy" /\ Tenants!Next
        /\ UNCHANGED <<vars, studentVars, limiterVars>>
     \/ /\ component = "limiter" /\ Limiter!Next
        /\ InOrder'
        /\ UNCHANGED <<vars, studentVars, tenancyVars>>

MCSpec == MCInit /\ [][MCNext]_allVars

\* The same two values are e-mail addresses and requests.
Symmetry == {p @@ q @@ r : p \in Permutations(Requests), q \in Permutations(Senders),
                           r \in Permutations(Visits)}
================================================================================
