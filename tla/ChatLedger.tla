------------------------------ MODULE ChatLedger ------------------------------
(***************************************************************************)
(* What durable chat recovery promises a signed-in reader, whatever happens *)
(* to the workers that prepare the replies: each conversation is one        *)
(* append-only transcript; a turn's question enters it once; while a        *)
(* question is open nothing else enters; its one answer comes right after.  *)
(* Unkeyed (raw) messages may only precede the first turn.                  *)
(***************************************************************************)
EXTENDS Sequences, Naturals

CONSTANTS Turns, Convs, Texts, Null

VARIABLES log,   \* [Convs -> Seq(entry)]: the transcript, in message_sequence order
          open   \* [Convs -> Turns \cup {Null}]: the turn still to be answered

vars == <<log, open>>

Entry == [kind : {"user", "assistant"}, turn : Turns \cup {Null}, text : Texts]

Entries(c) == {log[c][i] : i \in DOMAIN log[c]}

Asked(t) == \E c \in Convs : \E e \in Entries(c) : e.turn = t

Init == /\ log = [c \in Convs |-> <<>>]
        /\ open = [c \in Convs |-> Null]

\* One conversation grows by one entry.
Append1(c) == /\ Len(log'[c]) = Len(log[c]) + 1
              /\ \E e \in Entry : log' = [log EXCEPT ![c] = Append(@, e)]

New(c) == log'[c][Len(log'[c])]

Ask(c) ==
  /\ New(c).kind = "user"
  /\ New(c).turn # Null
  /\ open[c] = Null
  /\ ~Asked(New(c).turn)
  /\ open' = [open EXCEPT ![c] = New(c).turn]

Answer(c) ==
  /\ New(c).kind = "assistant"
  /\ New(c).turn = open[c]
  /\ open[c] # Null
  /\ open' = [open EXCEPT ![c] = Null]

Raw(c) ==
  /\ New(c).turn = Null
  /\ \A e \in Entries(c) : e.turn = Null
  /\ UNCHANGED open

Next == \E c \in Convs : Append1(c) /\ (Ask(c) \/ Answer(c) \/ Raw(c))

Spec == Init /\ [][Next]_vars
===============================================================================
