----------------------------- MODULE MCChatRetries -----------------------------
(* Two instances of ChatTurns for TLC, one turn with many faults and two      *)
(* turns with unkeyed requests between them.  A behaviour is one of either;   *)
(* the constants of this module include those of both.                        *)
EXTENDS MCChatTurns

VARIABLE instance

OneTurnManyFaults == INSTANCE ChatTurns WITH Requests <- OneTurn, MaxRaw <- 0

TwoTurnsMixed == INSTANCE ChatTurns WITH Requests <- Mixed, MaxFaults <- 1

MCInit == instance \in {"one turn", "mixed"} /\ Init

MCNext == /\ \/ instance = "one turn" /\ OneTurnManyFaults!Next
             \/ instance = "mixed" /\ TwoTurnsMixed!Next
          /\ UNCHANGED instance

MCSpec == MCInit /\ [][MCNext]_<<vars, instance>>

AllRequests == OneTurn \cup Mixed
================================================================================
