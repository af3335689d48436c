------------------------------ MODULE MCChatTurns ------------------------------
(* Instances of ChatTurns for TLC.                                            *)
EXTENDS ChatTurns, TLC

CONSTANTS t1, t2, c1, q1, q2, s1, a1, h1, h2

Ask(t, q, s) == [turn |-> t, conv |-> c1, query |-> q, source |-> s]

\* One turn asked twice (a retry or a second tab) and once with another text.
OneTurn == {Ask(t1, q1, Null), Ask(t1, q2, Null)}

\* Two turns of one conversation and an unkeyed request.
Mixed == {Ask(t1, q1, Null), Ask(t2, q2, Null), Ask(Null, q1, Null)}

TwoTurns == {Ask(t1, q1, Null), Ask(t2, q2, Null)}

\* Two turns that name no resource: the conversation is a general one, or that of
\* the resource if an unkeyed request for it comes first.
Scoped == {Ask(t1, q1, Null), Ask(t2, q2, Null), Ask(Null, q1, s1)}

Symmetry == Permutations({h1, h2})
================================================================================
