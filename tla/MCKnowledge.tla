------------------------------ MODULE MCKnowledge ------------------------------
(* An instance of Knowledge for TLC.  A behaviour is one of one part; the     *)
(* others keep their initial states.                                          *)
EXTENDS Knowledge, TLC

CONSTANTS code1, s1, s2, k1, k2

\* Two sources of one institution, each with a chunk; the other one has none.
MCCodeOf == s1 :> code1 @@ s2 :> code1

MCSourceOf == k1 :> s1 @@ k2 :> s2

VARIABLE component

docVars == <<rec, sources, docs, vers, files, todo, overlap, trouble>>

chatVars == <<tenants, open, live, active, perCode, req, changes, gone, readAt>>

allVars == <<vars, component, docVars, chatVars>>

MCInit == /\ component \in {"index", "canonical", "public"}
          /\ Init
          /\ Doc!Init
          /\ Chat!Init
          /\ component # "index" => file = "words"

MCNext == \/ component = "index" /\ Next /\ UNCHANGED <<component, docVars, chatVars>>
          \/ component = "canonical" /\ Doc!Next /\ UNCHANGED <<component, vars, chatVars>>
          \/ component = "public" /\ Chat!Next /\ UNCHANGED <<component, vars, docVars>>

MCSpec == MCInit /\ [][MCNext]_allVars

Symmetry == {p @@ q : p \in Permutations(Handlers), q \in Permutations(Wordings)}
================================================================================
