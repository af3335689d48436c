----------------------------- MODULE AccountsProofs -----------------------------
(***************************************************************************)
(* Theorems about the parts of Accounts, for every set of invitations,      *)
(* requests, addresses, scopes and budgets.                                 *)
(***************************************************************************)
EXTENDS Accounts, InvitationsProofs, SequenceTheorems, WellFoundedInduction

--------------------------------------------------------------------------------
(* Sweeping a deque                                                           *)

LEMMA LeastIndex ==
  ASSUME NEW K, K \subseteq Nat, K # {}
  PROVE  \E i \in K : \A j \in K : i <= j
<1> DEFINE less == OpToRel(<, Nat)
<1>1. IsWellFoundedOn(less, Nat)
  BY NatLessThanWellFounded
<1>2. PICK x \in K : \A y \in K : ~ (<<y, x>> \in less)
  BY <1>1, WFMin, Zenon
<1>3. \A y \in K : ~ (y < x)
  BY <1>2 DEF OpToRel
<1>4. \A y \in K : x <= y
  BY <1>3
<1>5. QED
  BY <1>4

\* A sweep drops times from the front, as long as they have expired.
FirstKept(times, now, k) ==
  /\ k \in 1 .. Len(times) + 1
  /\ \A i \in 1 .. k - 1 : times[i] + Window <= now
  /\ k <= Len(times) => times[k] + Window > now

LEMMA SweptDrops ==
  ASSUME NEW times \in Seq(Nat), NEW now \in Nat
  PROVE  \E k : /\ FirstKept(times, now, k)
                /\ Limiter!Swept(times, now) = SubSeq(times, k, Len(times))
<1> DEFINE kept == {i \in DOMAIN times : times[i] + Window > now}
           from == IF kept = {} THEN Len(times) + 1
                   ELSE CHOOSE i \in kept : \A j \in kept : i <= j
<1>0. /\ DOMAIN times = 1 .. Len(times)
      /\ Len(times) \in Nat
      /\ \A i \in 1 .. Len(times) : times[i] \in Nat
      /\ Window \in Nat
  BY LimiterAssumption
<1>1. Limiter!Swept(times, now) = SubSeq(times, from, Len(times))
  BY DEF Limiter!Swept
<1>2. FirstKept(times, now, from)
  <2>1. CASE kept = {}
    <3>1. from = Len(times) + 1
      BY <2>1
    <3>2. ASSUME NEW i \in 1 .. Len(times) PROVE times[i] + Window <= now
      <4>1. ~(times[i] + Window > now)
        BY <2>1, <1>0
      <4>2. QED
        BY <4>1, <1>0
    <3> HIDE DEF from, kept
    <3>3. QED
      BY <1>0, <3>1, <3>2 DEF FirstKept
  <2>2. CASE kept # {}
    <3>1. kept \subseteq Nat
      BY <1>0
    <3>2. \E i \in kept : \A j \in kept : i <= j
      BY <3>1, <2>2, LeastIndex
    <3>3. from \in kept /\ \A j \in kept : from <= j
      BY <2>2, <3>2
    <3> HIDE DEF from
    <3>4. from \in 1 .. Len(times) /\ times[from] + Window > now
      BY <1>0, <3>3
    <3>5. ASSUME NEW i \in 1 .. from - 1 PROVE times[i] + Window <= now
      <4>1. i \in 1 .. Len(times) /\ ~(from <= i)
        BY <1>0, <3>4
      <4>2. i \notin kept
        BY <4>1, <3>3
      <4>3. ~(times[i] + Window > now)
        BY <4>1, <4>2, <1>0
      <4>4. times[i] \in Nat
        BY <4>1, <1>0
      <4> HIDE DEF kept
      <4>5. QED
        BY <4>3, <4>4, <1>0
    <3> HIDE DEF kept
    <3>6. QED
      BY <1>0, <3>4, <3>5 DEF FirstKept
  <2>3. QED
    BY <2>1, <2>2
<1>3. QED
  BY <1>1, <1>2

\* What is left, by its indices.
LEMMA SweptElements ==
  ASSUME NEW times \in Seq(Nat), NEW k, NEW now, FirstKept(times, now, k)
  PROVE  /\ SubSeq(times, k, Len(times)) \in Seq(Nat)
         /\ Len(SubSeq(times, k, Len(times))) = Len(times) - k + 1
         /\ \A i \in 1 .. Len(times) - k + 1 : SubSeq(times, k, Len(times))[i] = times[k + i - 1]
<1>1. k \in Int /\ Len(times) \in Int /\ k >= 1
  BY DEF FirstKept
<1>2. \A i \in k .. Len(times) : times[i] \in Nat
  BY <1>1
<1>3. QED
  BY <1>1, <1>2, SubSeqProperties DEF FirstKept

LEMMA SeqMonotone ==
  ASSUME NEW S, NEW T, S \subseteq T, NEW q \in Seq(S)
  PROVE  q \in Seq(T)
<1>1. \A i \in 1 .. Len(q) : q[i] \in S
  OBVIOUS
<1>2. SubSeq(q, 1, Len(q)) \in Seq(T)
  BY <1>1, SubSeqProperties
<1>3. QED
  BY <1>2, SubSeqFull

LEMMA SweptType ==
  ASSUME NEW T \in SUBSET Nat, NEW times \in Seq(T), NEW now \in Nat
  PROVE  /\ Limiter!Swept(times, now) \in Seq(T)
         /\ Len(Limiter!Swept(times, now)) <= Len(times)
<1>1. times \in Seq(Nat)
  BY SeqMonotone
<1>2. PICK k : /\ FirstKept(times, now, k)
               /\ Limiter!Swept(times, now) = SubSeq(times, k, Len(times))
  BY <1>1, SweptDrops
<1>3. k \in Int /\ Len(times) \in Int /\ k >= 1 /\ k <= Len(times) + 1
  BY <1>2 DEF FirstKept
<1>4. \A i \in k .. Len(times) : times[i] \in T
  BY <1>3
<1>5. QED
  BY <1>2, <1>3, <1>4, SubSeqProperties

\* Sweeping twice leaves no more than sweeping once to the second time.
LEMMA SweptTwice ==
  ASSUME NEW times \in Seq(Nat), NEW now \in Nat, NEW t \in Nat
  PROVE  LET once == Limiter!Swept(times, now) IN
         /\ Len(Limiter!Swept(once, t)) <= Len(Limiter!Swept(times, t))
         /\ now <= t => Len(Limiter!Swept(once, t)) = Len(Limiter!Swept(times, t))
<1> DEFINE once == Limiter!Swept(times, now)
<1>1. PICK k : FirstKept(times, now, k) /\ once = SubSeq(times, k, Len(times))
  BY SweptDrops
<1>2. /\ once \in Seq(Nat)
      /\ Len(once) = Len(times) - k + 1
      /\ \A i \in 1 .. Len(once) : once[i] = times[k + i - 1]
  BY <1>1, SweptElements
<1> HIDE DEF once
<1>3. PICK m : FirstKept(once, t, m) /\ Limiter!Swept(once, t) = SubSeq(once, m, Len(once))
  BY <1>2, SweptDrops
<1>4. PICK n : FirstKept(times, t, n) /\ Limiter!Swept(times, t) = SubSeq(times, n, Len(times))
  BY SweptDrops
<1>5. /\ Len(Limiter!Swept(once, t)) = Len(once) - m + 1
      /\ Len(Limiter!Swept(times, t)) = Len(times) - n + 1
  BY <1>2, <1>3, <1>4, SweptElements
<1>6. /\ k \in 1 .. Len(times) + 1 /\ m \in 1 .. Len(once) + 1 /\ n \in 1 .. Len(times) + 1
      /\ Len(times) \in Nat /\ Window \in Nat
      /\ \A i \in 1 .. Len(times) : times[i] \in Nat
  <2>1. Len(times) \in Nat /\ Window \in Nat /\ \A i \in 1 .. Len(times) : times[i] \in Nat
    BY LimiterAssumption
  <2>2. k \in 1 .. Len(times) + 1 /\ m \in 1 .. Len(once) + 1 /\ n \in 1 .. Len(times) + 1
    BY <1>1, <1>3, <1>4 DEF FirstKept
  <2>3. QED
    BY <2>1, <2>2
<1>7. n <= k + m - 1
  <2>1. SUFFICES ASSUME n > k + m - 1 PROVE FALSE
    BY <1>6
  <2>2. m <= Len(once)
    BY <2>1, <1>2, <1>6
  <2>3. once[m] + Window > t
    BY <2>2, <1>3 DEF FirstKept
  <2>4. once[m] = times[k + m - 1]
    BY <2>2, <1>2, <1>6
  <2>5. times[k + m - 1] + Window <= t
    <3>1. k + m - 1 \in 1 .. n - 1
      BY <2>1, <1>6, <1>2
    <3>2. QED
      BY <3>1, <1>4 DEF FirstKept
  <2>6. QED
    <3> DEFINE e == times[k + m - 1]
    <3>1. e \in Nat
      BY <2>2, <1>2, <1>6
    <3>2. e + Window > t /\ e + Window <= t
      BY <2>3, <2>4, <2>5
    <3> HIDE DEF e
    <3>3. QED
      BY <3>1, <3>2, <1>6
<1>8. ASSUME now <= t PROVE n >= k + m - 1
  <2>1. SUFFICES ASSUME n < k + m - 1 PROVE FALSE
    BY <1>6
  <2>2. n <= Len(times)
    BY <2>1, <1>2, <1>6
  <2>3. times[n] + Window > t /\ times[n] \in Nat
    BY <2>2, <1>4, <1>6 DEF FirstKept
  <2>4. CASE n < k
    <3>1. times[n] + Window <= now
      BY <2>4, <1>1, <1>6 DEF FirstKept
    <3>2. QED
      BY <3>1, <2>3, <1>6, <1>8
  <2>5. CASE n >= k
    <3>1. n - k + 1 \in 1 .. m - 1
      BY <2>5, <2>1, <1>6
    <3>2. once[n - k + 1] + Window <= t
      BY <3>1, <1>3 DEF FirstKept
    <3>3. n - k + 1 \in 1 .. Len(once)
      BY <3>1, <1>6, <1>2
    <3>4. once[n - k + 1] = times[k + (n - k + 1) - 1]
      BY <3>3, <1>2
    <3>5. k + (n - k + 1) - 1 = n
      BY <1>6
    <3>6. once[n - k + 1] = times[n]
      BY <3>4, <3>5
    <3>7. QED
      BY <3>1, <3>2, <3>6, <2>3, <1>6
  <2>6. QED
    BY <2>4, <2>5, <1>6
<1>9. /\ Len(Limiter!Swept(once, t)) <= Len(Limiter!Swept(times, t))
      /\ now <= t => Len(Limiter!Swept(once, t)) = Len(Limiter!Swept(times, t))
  <2>1. k \in Nat /\ m \in Nat /\ n \in Nat /\ Len(times) \in Nat
    BY <1>6
  <2>2. Len(Limiter!Swept(once, t)) = Len(times) - k + 1 - m + 1
    <3>1. Len(once) = Len(times) - k + 1
      BY <1>2
    <3>2. Len(Limiter!Swept(once, t)) = Len(once) - m + 1
      BY <1>5
    <3>3. QED
      BY <2>1, <3>1, <3>2
  <2>3. Len(Limiter!Swept(times, t)) = Len(times) - n + 1
    BY <1>5
  <2>4. now <= t => n >= k + m - 1
    BY <1>8
  <2>5. QED
    BY <2>1, <2>2, <2>3, <2>4, <1>7
<1>10. QED
  BY <1>9 DEF once

\* A new time at the end is one more, until it expires itself.
LEMMA SweptAppend ==
  ASSUME NEW times \in Seq(Nat), NEW now \in Nat, NEW t \in Nat
  PROVE  /\ Len(Limiter!Swept(Append(times, now), t)) >= Len(Limiter!Swept(times, t))
         /\ now + Window > t => Len(Limiter!Swept(Append(times, now), t))
                                  = Len(Limiter!Swept(times, t)) + 1
<1> DEFINE more == Append(times, now)
<1>1. /\ more \in Seq(Nat) /\ Len(more) = Len(times) + 1
      /\ \A i \in 1 .. Len(times) : more[i] = times[i]
      /\ more[Len(times) + 1] = now
  OBVIOUS
<1> HIDE DEF more
<1>2. PICK k : FirstKept(times, t, k) /\ Limiter!Swept(times, t) = SubSeq(times, k, Len(times))
  BY SweptDrops
<1>3. PICK m : FirstKept(more, t, m) /\ Limiter!Swept(more, t) = SubSeq(more, m, Len(more))
  BY <1>1, SweptDrops
<1>4. /\ Len(Limiter!Swept(times, t)) = Len(times) - k + 1
      /\ Len(Limiter!Swept(more, t)) = Len(times) - m + 2
  <2>1. Len(Limiter!Swept(times, t)) = Len(times) - k + 1
    BY <1>2, SweptElements
  <2>2. Len(Limiter!Swept(more, t)) = Len(more) - m + 1
    BY <1>1, <1>3, SweptElements
  <2>3. m \in Int /\ Len(times) \in Int
    BY <1>3 DEF FirstKept
  <2>4. QED
    BY <1>1, <2>1, <2>2, <2>3
<1>5. /\ k \in 1 .. Len(times) + 1 /\ m \in 1 .. Len(times) + 2
      /\ Len(times) \in Nat /\ Window \in Nat
      /\ \A i \in 1 .. Len(times) : times[i] \in Nat
  <2>1. Len(times) \in Nat /\ Window \in Nat /\ \A i \in 1 .. Len(times) : times[i] \in Nat
    BY LimiterAssumption
  <2>2. k \in 1 .. Len(times) + 1 /\ m \in 1 .. Len(more) + 1
    BY <1>2, <1>3 DEF FirstKept
  <2>3. QED
    BY <2>1, <2>2, <1>1
<1>6. \/ k = m
      \/ k = Len(times) + 1 /\ m = Len(times) + 2
  <2>1. k <= Len(times) => times[k] + Window > t
    BY <1>2 DEF FirstKept
  <2>2. \A i \in 1 .. k - 1 : times[i] + Window <= t
    BY <1>2 DEF FirstKept
  <2>3. m <= Len(times) + 1 => more[m] + Window > t
    BY <1>3, <1>1 DEF FirstKept
  <2>4. \A i \in 1 .. m - 1 : more[i] + Window <= t
    BY <1>3 DEF FirstKept
  <2>5. ~(k < m /\ k <= Len(times))
    <3>1. SUFFICES ASSUME k < m, k <= Len(times) PROVE FALSE
      OBVIOUS
    <3>2. k \in 1 .. m - 1 /\ k \in 1 .. Len(times)
      BY <3>1, <1>5
    <3>3. more[k] + Window <= t
      BY <3>2, <2>4
    <3>4. more[k] = times[k] /\ times[k] \in Nat
      BY <3>2, <1>1, <1>5
    <3>5. times[k] + Window > t
      BY <3>1, <2>1
    <3>6. QED
      BY <3>3, <3>4, <3>5, <1>5
  <2>6. ~(m < k)
    <3>1. SUFFICES ASSUME m < k PROVE FALSE
      OBVIOUS
    <3>2. m \in 1 .. k - 1 /\ m \in 1 .. Len(times)
      BY <3>1, <1>5
    <3>3. times[m] + Window <= t
      BY <3>2, <2>2
    <3>4. times[m] + Window > t
      <4>1. more[m] = times[m]
        BY <3>2, <1>1
      <4>2. m <= Len(times) + 1
        BY <3>2, <1>5
      <4>3. QED
        BY <4>1, <4>2, <2>3
    <3>5. times[m] \in Nat
      BY <3>2, <1>5
    <3>6. QED
      BY <3>3, <3>4, <3>5, <1>5
  <2>7. QED
    BY <2>5, <2>6, <1>5
<1>7. now + Window > t => m # Len(times) + 2
  <2>1. \A i \in 1 .. m - 1 : more[i] + Window <= t
    BY <1>3 DEF FirstKept
  <2>2. SUFFICES ASSUME now + Window > t, m = Len(times) + 2 PROVE FALSE
    OBVIOUS
  <2>3. Len(times) + 1 \in 1 .. m - 1
    BY <2>2, <1>5
  <2>4. now + Window <= t
    BY <2>1, <2>3, <1>1
  <2>5. QED
    BY <2>2, <2>4, <1>5
<1>8. /\ Len(Limiter!Swept(more, t)) >= Len(Limiter!Swept(times, t))
      /\ now + Window > t => Len(Limiter!Swept(more, t)) = Len(Limiter!Swept(times, t)) + 1
  <2>1. CASE k = m
    BY <1>4, <1>5, <2>1
  <2>2. CASE k = Len(times) + 1 /\ m = Len(times) + 2
    BY <1>4, <1>5, <1>7, <2>2
  <2>3. QED
    BY <1>6, <2>1, <2>2
<1>9. QED
  BY <1>8 DEF more

\* Once the oldest time has left the window, at least one is dropped.
LEMMA SweptHead ==
  ASSUME NEW times \in Seq(Nat), NEW t \in Nat, Len(times) >= 1, times[1] + Window <= t
  PROVE  Len(Limiter!Swept(times, t)) < Len(times)
<1>1. PICK k : FirstKept(times, t, k) /\ Limiter!Swept(times, t) = SubSeq(times, k, Len(times))
  BY SweptDrops
<1>2. Len(Limiter!Swept(times, t)) = Len(times) - k + 1
  BY <1>1, SweptElements
<1>3. k \in 1 .. Len(times) + 1 /\ k # 1
  BY <1>1, LimiterAssumption DEF FirstKept
<1>4. QED
  BY <1>2, <1>3

--------------------------------------------------------------------------------
(* The budget of a window                                                     *)

Checked(q) == call[q].at \in {"admitted", "refused"}

\* The charges of scope s that are still in the window at time t.
Recent(s, t) == {q \in charged[s] : call[q].now + Window > t}

\* No deque is longer than its budget, and only admitted requests were charged.
DequesOK ==
  \A s \in Scopes : /\ Len(events[s]) <= Limit[s]
                    /\ \A q \in charged[s] : call[q].at = "admitted"

\* As long as nobody was checked late, a deque holds what a window still counts.
DequesCount ==
  ~straggler =>
    \A s \in Scopes, t \in Nat :
      (\A q \in Callers : Checked(q) => call[q].now <= t)
        => Cardinality(Recent(s, t)) <= Len(Limiter!Swept(events[s], t))

WindowInv == Limiter!TypeOK /\ DequesOK /\ DequesCount /\ WindowKept

LEMMA LimiterCardinality == \A S : Limiter!Cardinality(S) = Cardinality(S)
  BY DEF Limiter!Cardinality, Cardinality

Sweep(now) == [s \in Scopes |-> Limiter!Swept(events[s], now)]

\* The two ways a check ends.
Admits(r) ==
  LET swept == Sweep(call[r].now) IN
  /\ \A s \in call[r].scopes : Len(swept[s]) < Limit[s]
  /\ events' = [s \in Scopes |-> IF s \in call[r].scopes THEN Append(swept[s], call[r].now)
                                 ELSE swept[s]]
  /\ charged' = [s \in Scopes |-> IF s \in call[r].scopes THEN charged[s] \cup {r}
                                  ELSE charged[s]]
  /\ since' = [q \in Callers |-> since[q] \/ call[q].at = "refused"]
  /\ call' = [call EXCEPT ![r].at = "admitted"]

Refuses(r) ==
  LET swept == Sweep(call[r].now) IN
  /\ events' = swept
  /\ \E s \in call[r].scopes :
       /\ Len(swept[s]) >= Limit[s]
       /\ \A t \in call[r].scopes : Len(swept[t]) >= Limit[t] =>
            Limiter!Wait(swept[t], call[r].now) <= Limiter!Wait(swept[s], call[r].now)
       /\ call' = [call EXCEPT ![r] = [@ EXCEPT !.at = "refused",
                                         !.retry = Limiter!Wait(swept[s], call[r].now)]]
  /\ UNCHANGED <<charged, since>>

\* What is known of the request checked and of the deques it sweeps.
LEMMA CheckParts ==
  ASSUME Limiter!TypeOK, NEW r \in Callers, Limiter!Check(r)
  PROVE  /\ call[r].at = "lock"
         /\ call[r].now \in Limiter!Times /\ call[r].now \in Nat
         /\ call[r].scopes \subseteq Scopes
         /\ \A s \in Scopes : /\ events[s] \in Seq(Nat)
                              /\ Limit[s] \in Nat \ {0}
                              /\ Sweep(call[r].now)[s] = Limiter!Swept(events[s], call[r].now)
                              /\ Sweep(call[r].now)[s] \in Seq(Limiter!Times)
                              /\ Sweep(call[r].now)[s] \in Seq(Nat)
                              /\ Len(Sweep(call[r].now)[s]) <= Len(events[s])
         /\ Admits(r) \/ Refuses(r)
         /\ straggler' = (straggler \/ Limiter!Late(r))
         /\ clock' = clock
<1> DEFINE now == call[r].now
           swept == [s \in Scopes |-> Limiter!Swept(events[s], now)]
           full == {s \in call[r].scopes : Limiter!Full(swept[s], s)}
<1>1. /\ call[r].at = "lock"
      /\ now \in Limiter!Times /\ now \in Nat
      /\ call[r].scopes \subseteq Scopes
      /\ Limiter!Times \in SUBSET Nat
  <2>1. call[r].at = "lock"
    BY Zenon DEF Limiter!Check
  <2>2. call[r] \in Limiter!Request
    BY DEF Limiter!TypeOK
  <2>3. Limiter!Times \in SUBSET Nat
    BY DEF Limiter!Times
  <2>4. now \in Limiter!Times /\ call[r].scopes \subseteq Scopes
    BY <2>2 DEF Limiter!Request
  <2>5. QED
    BY <2>1, <2>3, <2>4
<1>2. ASSUME NEW s \in Scopes
      PROVE  /\ events[s] \in Seq(Nat)
             /\ Limit[s] \in Nat \ {0}
             /\ swept[s] = Limiter!Swept(events[s], now)
             /\ swept[s] \in Seq(Limiter!Times)
             /\ swept[s] \in Seq(Nat)
             /\ Len(swept[s]) <= Len(events[s])
  <2>1. events[s] \in Seq(Limiter!Times)
    BY DEF Limiter!TypeOK
  <2>2. events[s] \in Seq(Nat)
    BY <1>1, <2>1, SeqMonotone
  <2>3. /\ Limiter!Swept(events[s], now) \in Seq(Limiter!Times)
        /\ Len(Limiter!Swept(events[s], now)) <= Len(events[s])
    BY <1>1, <2>1, SweptType
  <2>4. Limiter!Swept(events[s], now) \in Seq(Nat)
    BY <1>1, <2>3, SeqMonotone
  <2>5. QED
    BY <2>2, <2>3, <2>4, LimiterAssumption
<1>3. /\ IF full = {}
         THEN /\ events' = [s \in Scopes |-> IF s \in call[r].scopes THEN Append(swept[s], now)
                                             ELSE swept[s]]
              /\ charged' = [s \in Scopes |-> IF s \in call[r].scopes THEN charged[s] \cup {r}
                                              ELSE charged[s]]
              /\ since' = [q \in Callers |-> since[q] \/ call[q].at = "refused"]
              /\ call' = [call EXCEPT ![r].at = "admitted"]
         ELSE /\ events' = swept
              /\ \E s \in full :
                    /\ \A t \in full : Limiter!Wait(swept[t], now) <= Limiter!Wait(swept[s], now)
                    /\ call' = [call EXCEPT ![r] = [@ EXCEPT !.at = "refused",
                                                     !.retry = Limiter!Wait(swept[s], now)]]
              /\ UNCHANGED <<charged, since>>
      /\ straggler' = (straggler \/ Limiter!Late(r))
      /\ clock' = clock
  BY DEF Limiter!Check
<1>4. Sweep(now) = swept
  BY DEF Sweep
<1>5. \A s \in call[r].scopes : s \in full <=> Len(swept[s]) >= Limit[s]
  BY DEF Limiter!Full
<1> HIDE DEF swept, full
<1>6. CASE full = {}
  <2>1. \A s \in call[r].scopes : Len(swept[s]) < Limit[s]
    BY <1>1, <1>2, <1>5, <1>6
  <2>2. Admits(r)
    BY <1>3, <1>4, <1>6, <2>1 DEF Admits
  <2>3. straggler' = (straggler \/ Limiter!Late(r)) /\ clock' = clock
    BY <1>3
  <2>4. QED
    BY <1>1, <1>2, <1>4, <2>2, <2>3
<1>7. CASE full # {}
  <2>1. full \subseteq call[r].scopes
    BY DEF full
  <2>2. Refuses(r)
    BY <1>3, <1>4, <1>5, <1>7, <2>1 DEF Refuses
  <2>3. straggler' = (straggler \/ Limiter!Late(r)) /\ clock' = clock
    BY <1>3
  <2>4. QED
    BY <1>1, <1>2, <1>4, <2>2, <2>3
<1>8. QED
  BY <1>6, <1>7

LEMMA WaitType ==
  ASSUME NEW times \in Seq(Nat), NEW now \in Nat, Len(times) >= 1
  PROVE  /\ Limiter!Wait(times, now) \in Nat
         /\ times[1] + Window <= now + Limiter!Wait(times, now)
<1>1. times[1] \in Nat /\ Window \in Nat
  BY LimiterAssumption
<1>2. QED
  BY <1>1 DEF Limiter!Wait

LEMMA LimiterTypes ==
  ASSUME Limiter!TypeOK, [Limiter!Next]_(Limiter!vars)
  PROVE  Limiter!TypeOK'
<1>1. ASSUME Limiter!Tick PROVE Limiter!TypeOK'
  BY <1>1, LimiterAssumption DEF Limiter!Tick, Limiter!Times, Limiter!TypeOK, Limiter!Request
<1>2. ASSUME NEW r \in Callers, NEW scopes \in Charges, Limiter!Arrive(r, scopes)
      PROVE  Limiter!TypeOK'
  <2> DEFINE q == [call[r] EXCEPT !.at = "lock", !.scopes = scopes, !.now = clock]
  <2>1. call' = [call EXCEPT ![r] = q]
    BY <1>2 DEF Limiter!Arrive
  <2>2. q \in Limiter!Request
    <3>1. scopes \in SUBSET Scopes
      BY LimiterAssumption
    <3>2. call[r] \in Limiter!Request /\ clock \in Limiter!Times
      BY DEF Limiter!TypeOK
    <3>3. QED
      BY <3>1, <3>2 DEF Limiter!Request
  <2> HIDE DEF q
  <2>3. QED
    BY <1>2, <2>1, <2>2 DEF Limiter!Arrive, Limiter!TypeOK
<1>3. ASSUME NEW r \in Callers, Limiter!Check(r) PROVE Limiter!TypeOK'
  <2> DEFINE swept == Sweep(call[r].now)
  <2>1. /\ \A s \in Scopes : /\ swept[s] \in Seq(Limiter!Times)
                             /\ swept[s] \in Seq(Nat)
                             /\ Limit[s] \in Nat \ {0}
        /\ call[r].now \in Limiter!Times /\ call[r].now \in Nat
        /\ call[r].scopes \subseteq Scopes
        /\ straggler' \in BOOLEAN
        /\ clock' = clock
        /\ Admits(r) \/ Refuses(r)
    BY <1>3, CheckParts DEF Limiter!TypeOK
  <2>2. swept = [s \in Scopes |-> swept[s]]
    BY DEF Sweep
  <2> HIDE DEF swept
  <2>3. swept \in [Scopes -> Seq(Limiter!Times)]
    BY <2>1, <2>2
  <2>4. CASE Admits(r)
    <3>1. \A s \in Scopes : Append(swept[s], call[r].now) \in Seq(Limiter!Times)
      BY <2>1
    <3>2. events' \in [Scopes -> Seq(Limiter!Times)]
      BY <2>1, <2>4, <3>1 DEF Admits, swept
    <3>3. call' \in [Callers -> Limiter!Request]
      BY <2>4 DEF Admits, Limiter!TypeOK, Limiter!Request
    <3>4. charged' \in [Scopes -> SUBSET Callers]
      BY <2>4 DEF Admits, Limiter!TypeOK
    <3>5. since' \in [Callers -> BOOLEAN]
      BY <2>4 DEF Admits, Limiter!TypeOK
    <3>6. QED
      BY <2>1, <3>2, <3>3, <3>4, <3>5 DEF Limiter!TypeOK
  <2>5. CASE Refuses(r)
    <3>1. PICK s \in call[r].scopes :
            /\ Len(swept[s]) >= Limit[s]
            /\ call' = [call EXCEPT ![r] = [@ EXCEPT !.at = "refused",
                                              !.retry = Limiter!Wait(swept[s], call[r].now)]]
      BY <2>5 DEF Refuses, swept
    <3> DEFINE w == Limiter!Wait(swept[s], call[r].now)
               q == [call[r] EXCEPT !.at = "refused", !.retry = w]
    <3>2. w \in Nat
      BY <2>1, <3>1, WaitType
    <3>3. call' = [call EXCEPT ![r] = q]
      BY <3>1
    <3> HIDE DEF w
    <3>4. q \in Limiter!Request
      BY <3>2 DEF Limiter!TypeOK, Limiter!Request
    <3> HIDE DEF q
    <3>5. call' \in [Callers -> Limiter!Request]
      BY <3>3, <3>4 DEF Limiter!TypeOK
    <3>6. events' = swept /\ UNCHANGED <<charged, since>>
      BY <2>5 DEF Refuses, swept
    <3>7. QED
      BY <2>1, <2>3, <3>5, <3>6 DEF Limiter!TypeOK
  <2>6. QED
    BY <2>1, <2>4, <2>5
<1>4. ASSUME UNCHANGED Limiter!vars PROVE Limiter!TypeOK'
  BY <1>4 DEF Limiter!vars, Limiter!TypeOK
<1>5. QED
  BY <1>1, <1>2, <1>3, <1>4 DEF Limiter!Next

\* Nobody is checked, charged or swept.
Idles ==
  /\ events' = events /\ charged' = charged /\ straggler' = straggler /\ since' = since
  /\ \A q \in Callers : /\ call'[q].at = call[q].at \/ {call[q].at, call'[q].at} = {"idle", "lock"}
                        /\ Checked(q) => call'[q] = call[q]
                        /\ Checked(q)' <=> Checked(q)

LEMMA LimiterSteps ==
  ASSUME Limiter!TypeOK, [Limiter!Next]_(Limiter!vars)
  PROVE  Idles \/ \E r \in Callers : Limiter!Check(r)
<1>1. ASSUME Limiter!Tick \/ UNCHANGED Limiter!vars PROVE Idles
  BY <1>1 DEF Limiter!Tick, Limiter!vars, Idles, Checked
<1>2. ASSUME NEW r \in Callers, NEW scopes \in Charges, Limiter!Arrive(r, scopes)
      PROVE  Idles
  <2> DEFINE q == [call[r] EXCEPT !.at = "lock", !.scopes = scopes, !.now = clock]
  <2>1. call' = [call EXCEPT ![r] = q] /\ call[r].at = "idle"
    BY <1>2 DEF Limiter!Arrive
  <2>2. q.at = "lock"
    BY DEF Limiter!TypeOK, Limiter!Request
  <2> HIDE DEF q
  <2>3. call'[r] = q /\ \A x \in Callers \ {r} : call'[x] = call[x]
    BY <2>1 DEF Limiter!TypeOK
  <2>4. QED
    BY <1>2, <2>1, <2>2, <2>3 DEF Limiter!Arrive, Idles, Checked
<1>3. QED
  BY <1>1, <1>2 DEF Limiter!Next

\* How a check leaves requests and deques, admitted or refused.
LEMMA CheckEffect ==
  ASSUME Limiter!TypeOK, NEW r \in Callers, Limiter!Check(r)
  PROVE  /\ \A q \in Callers \ {r} : call'[q] = call[q]
         /\ call'[r].now = call[r].now /\ call'[r].scopes = call[r].scopes
         /\ ~Checked(r) /\ Checked(r)'
         /\ \A s \in Scopes :
              \/ events'[s] = Sweep(call[r].now)[s] /\ charged'[s] = charged[s]
              \/ /\ events'[s] = Append(Sweep(call[r].now)[s], call[r].now)
                 /\ charged'[s] = charged[s] \cup {r}
                 /\ call'[r].at = "admitted"
                 /\ Len(Sweep(call[r].now)[s]) < Limit[s]
<1> DEFINE swept == Sweep(call[r].now)
<1>1. /\ call[r].at = "lock" /\ call[r].scopes \subseteq Scopes
      /\ Admits(r) \/ Refuses(r)
  BY CheckParts
<1>2. swept = [s \in Scopes |-> swept[s]]
  BY DEF Sweep
<1>3. CASE Admits(r)
  <2>1. /\ \A s \in call[r].scopes : Len(swept[s]) < Limit[s]
        /\ events' = [s \in Scopes |-> IF s \in call[r].scopes
                                       THEN Append(swept[s], call[r].now) ELSE swept[s]]
        /\ charged' = [s \in Scopes |-> IF s \in call[r].scopes THEN charged[s] \cup {r}
                                        ELSE charged[s]]
        /\ call' = [call EXCEPT ![r].at = "admitted"]
    BY <1>3 DEF Admits
  <2> HIDE DEF swept
  <2>2. \A q \in Callers \ {r} : call'[q] = call[q]
    BY <2>1 DEF Limiter!TypeOK
  <2>3. call'[r].now = call[r].now /\ call'[r].scopes = call[r].scopes /\ call'[r].at = "admitted"
    BY <2>1 DEF Limiter!TypeOK, Limiter!Request
  <2>4. \A s \in Scopes :
          \/ events'[s] = swept[s] /\ charged'[s] = charged[s]
          \/ /\ events'[s] = Append(swept[s], call[r].now)
             /\ charged'[s] = charged[s] \cup {r}
             /\ Len(swept[s]) < Limit[s]
    BY <2>1
  <2>5. QED
    BY <1>1, <2>2, <2>3, <2>4 DEF Checked, swept
<1>4. CASE Refuses(r)
  <2>1. PICK w : call' = [call EXCEPT ![r] = [@ EXCEPT !.at = "refused", !.retry = w]]
    BY <1>4 DEF Refuses
  <2>2. events' = swept /\ charged' = charged
    BY <1>4 DEF Refuses
  <2> HIDE DEF swept
  <2> DEFINE q == [call[r] EXCEPT !.at = "refused", !.retry = w]
  <2>3. q.at = "refused" /\ q.now = call[r].now /\ q.scopes = call[r].scopes
    BY DEF Limiter!TypeOK, Limiter!Request
  <2>4. call' = [call EXCEPT ![r] = q]
    BY <2>1
  <2> HIDE DEF q
  <2>5. call'[r] = q /\ \A x \in Callers \ {r} : call'[x] = call[x]
    BY <2>4 DEF Limiter!TypeOK
  <2>6. QED
    BY <1>1, <2>2, <2>3, <2>5 DEF Checked, swept
<1>5. QED
  BY <1>1, <1>3, <1>4

LEMMA ChargesFinite ==
  ASSUME Limiter!TypeOK, NEW s \in Scopes, NEW S \in SUBSET charged[s]
  PROVE  IsFiniteSet(S) /\ Cardinality(S) \in Nat
<1>1. S \subseteq Callers
  BY DEF Limiter!TypeOK
<1>2. QED
  BY <1>1, LimiterAssumption, FS_Subset, FS_CardinalityType

LEMMA DequesStep ==
  ASSUME Limiter!TypeOK, DequesOK, [Limiter!Next]_(Limiter!vars)
  PROVE  DequesOK'
<1>1. CASE Idles
  BY <1>1 DEF Idles, DequesOK, Limiter!TypeOK, Checked
<1>2. ASSUME NEW r \in Callers, Limiter!Check(r) PROVE DequesOK'
  <2>1. ASSUME NEW s \in Scopes
        PROVE  Len(events'[s]) <= Limit[s] /\ \A q \in charged'[s] : call'[q].at = "admitted"
    <3>1. /\ Sweep(call[r].now)[s] \in Seq(Nat) /\ call[r].now \in Nat
          /\ Limit[s] \in Nat /\ Len(Sweep(call[r].now)[s]) <= Len(events[s])
          /\ events[s] \in Seq(Nat)
      BY <1>2, CheckParts
    <3>2. Len(events[s]) <= Limit[s] /\ \A q \in charged[s] : call[q].at = "admitted"
      BY DEF DequesOK
    <3>3. r \notin charged[s] /\ \A q \in Callers \ {r} : call'[q] = call[q]
      BY <1>2, <3>2, CheckEffect DEF Checked
    <3>4. charged[s] \subseteq Callers
      BY DEF Limiter!TypeOK
    <3>5. CASE events'[s] = Sweep(call[r].now)[s] /\ charged'[s] = charged[s]
      <4>1. Len(Sweep(call[r].now)[s]) \in Nat /\ Len(events[s]) \in Nat
        BY <3>1
      <4>2. Len(events'[s]) <= Limit[s]
        BY <3>1, <3>2, <3>5, <4>1
      <4>3. QED
        BY <3>2, <3>3, <3>4, <3>5, <4>2
    <3>6. CASE /\ events'[s] = Append(Sweep(call[r].now)[s], call[r].now)
               /\ charged'[s] = charged[s] \cup {r}
               /\ call'[r].at = "admitted"
               /\ Len(Sweep(call[r].now)[s]) < Limit[s]
      <4>1. Len(events'[s]) = Len(Sweep(call[r].now)[s]) + 1
        BY <3>1, <3>6
      <4>2. Len(Sweep(call[r].now)[s]) \in Nat
        BY <3>1
      <4>3. Len(events'[s]) <= Limit[s]
        BY <3>1, <3>6, <4>1, <4>2
      <4>4. QED
        BY <3>2, <3>3, <3>4, <3>6, <4>3
    <3>7. QED
      BY <1>2, <3>5, <3>6, CheckEffect
  <2>2. QED
    BY <2>1 DEF DequesOK
<1>3. QED
  BY <1>1, <1>2, LimiterSteps

\* A check in time order leaves each deque with as many times as are still counted.
LEMMA CountStep ==
  ASSUME Limiter!TypeOK, DequesOK, DequesCount, [Limiter!Next]_(Limiter!vars)
  PROVE  DequesCount'
<1>1. CASE Idles
  <2> SUFFICES ASSUME ~straggler', NEW s \in Scopes, NEW t \in Nat,
                      \A q \in Callers : Checked(q)' => call'[q].now <= t
               PROVE  Cardinality(Recent(s, t)') <= Len(Limiter!Swept(events'[s], t))
    BY DEF DequesCount, Limiter!Swept
  <2>1. \A q \in charged[s] : q \in Callers /\ Checked(q)
    BY DEF DequesOK, Limiter!TypeOK, Checked
  <2>2. Recent(s, t)' = Recent(s, t)
    BY <1>1, <2>1 DEF Recent, Idles
  <2>3. \A q \in Callers : Checked(q) => call[q].now <= t
    BY <1>1 DEF Idles
  <2>4. Cardinality(Recent(s, t)) <= Len(Limiter!Swept(events[s], t))
    BY <1>1, <2>3 DEF Idles, DequesCount
  <2>5. events' = events
    BY <1>1 DEF Idles
  <2>6. QED
    BY <2>2, <2>4, <2>5
<1>2. ASSUME NEW r \in Callers, Limiter!Check(r) PROVE DequesCount'
  <2> SUFFICES ASSUME ~straggler', NEW s \in Scopes, NEW t \in Nat,
                      \A q \in Callers : Checked(q)' => call'[q].now <= t
               PROVE  Cardinality(Recent(s, t)') <= Len(Limiter!Swept(events'[s], t))
    BY DEF DequesCount, Limiter!Swept
  <2> DEFINE now == call[r].now
             once == Limiter!Swept(events[s], now)
  <2>1. /\ \A q \in Callers \ {r} : call'[q] = call[q]
        /\ call'[r].now = now
        /\ ~Checked(r) /\ Checked(r)'
    BY <1>2, CheckEffect
  <2>2. /\ now \in Nat /\ events[s] \in Seq(Nat) /\ once \in Seq(Nat)
        /\ once = Sweep(now)[s] /\ ~straggler
    BY <1>2, CheckParts
  <2>3. now <= t /\ \A q \in Callers : Checked(q) => call[q].now <= t
    BY <2>1 DEF Checked
  <2>4. Cardinality(Recent(s, t)) <= Len(Limiter!Swept(events[s], t))
    BY <2>2, <2>3 DEF DequesCount
  <2>5. Len(Limiter!Swept(once, t)) = Len(Limiter!Swept(events[s], t))
    BY <2>2, <2>3, SweptTwice
  <2>6. r \notin charged[s] /\ charged[s] \subseteq Callers
    BY <2>1 DEF DequesOK, Limiter!TypeOK, Checked
  <2>7. IsFiniteSet(Recent(s, t)) /\ Cardinality(Recent(s, t)) \in Nat
    BY ChargesFinite DEF Recent
  <2> HIDE DEF once, now
  <2>8. CASE events'[s] = once /\ charged'[s] = charged[s]
    <3>1. Recent(s, t)' = Recent(s, t)
      BY <2>1, <2>6, <2>8 DEF Recent
    <3>2. QED
      BY <2>4, <2>5, <2>8, <3>1
  <2>9. CASE events'[s] = Append(once, now) /\ charged'[s] = charged[s] \cup {r}
    <3>1. /\ Len(Limiter!Swept(events'[s], t)) >= Len(Limiter!Swept(once, t))
          /\ now + Window > t => Len(Limiter!Swept(events'[s], t))
                                   = Len(Limiter!Swept(once, t)) + 1
      <4>1. /\ Len(Limiter!Swept(Append(once, now), t)) >= Len(Limiter!Swept(once, t))
            /\ now + Window > t => Len(Limiter!Swept(Append(once, now), t))
                                     = Len(Limiter!Swept(once, t)) + 1
        BY <2>2, SweptAppend
      <4>2. QED
        BY <2>9, <4>1
    <3>2. Len(Limiter!Swept(once, t)) \in Nat /\ Len(Limiter!Swept(events'[s], t)) \in Nat
      <4>1. Append(once, now) \in Seq(Nat)
        BY <2>2
      <4>2. Nat \in SUBSET Nat
        OBVIOUS
      <4>3. Limiter!Swept(once, t) \in Seq(Nat) /\ Limiter!Swept(Append(once, now), t) \in Seq(Nat)
        BY <2>2, <4>1, <4>2, SweptType
      <4>4. QED
        BY <2>9, <4>3
    <3>3. CASE now + Window > t
      <4>1. Recent(s, t)' = Recent(s, t) \cup {r} /\ r \notin Recent(s, t)
        BY <2>1, <2>6, <2>9, <3>3 DEF Recent
      <4>2. Cardinality(Recent(s, t) \cup {r}) = Cardinality(Recent(s, t)) + 1
        BY <2>7, <4>1, FS_AddElement
      <4>3. QED
        BY <2>4, <2>5, <2>7, <3>1, <3>2, <3>3, <4>1, <4>2
    <3>4. CASE ~(now + Window > t)
      <4>1. Recent(s, t)' = Recent(s, t)
        BY <2>1, <2>6, <2>9, <3>4 DEF Recent
      <4>2. QED
        BY <2>4, <2>5, <2>7, <3>1, <3>2, <4>1
    <3>5. QED
      BY <3>3, <3>4
  <2>10. QED
    BY <1>2, <2>2, <2>8, <2>9, CheckEffect DEF now
<1>3. QED
  BY <1>1, <1>2, LimiterSteps

LEMMA WindowStep ==
  ASSUME WindowInv, [Limiter!Next]_(Limiter!vars)
  PROVE  WindowKept'
<1> DEFINE In(s, t) == {q \in charged[s] : t < call[q].now + Window /\ call[q].now <= t}
<1>1. WindowKept <=> (~straggler => \A s \in Scopes, t \in Limiter!Times :
                                      Cardinality(In(s, t)) <= Limit[s])
  BY LimiterCardinality DEF WindowKept, Limiter!WindowKept
<1>2. WindowKept' <=> (~straggler' => \A s \in Scopes, t \in Limiter!Times :
                                        Cardinality(In(s, t)') <= Limit[s])
  BY LimiterCardinality DEF WindowKept, Limiter!WindowKept, Limiter!Times
<1>3. CASE Idles
  <2>1. \A s \in Scopes : \A t : In(s, t)' = In(s, t)
    <3>1. \A s \in Scopes : \A q \in charged[s] : q \in Callers /\ Checked(q)
      BY DEF WindowInv, DequesOK, Limiter!TypeOK, Checked
    <3>2. QED
      BY <1>3, <3>1 DEF Idles
  <2>2. straggler' = straggler
    BY <1>3 DEF Idles
  <2> HIDE DEF In
  <2>3. QED
    BY <1>1, <1>2, <2>1, <2>2 DEF WindowInv
<1>4. ASSUME NEW r \in Callers, Limiter!Check(r) PROVE WindowKept'
  <2> SUFFICES ASSUME ~straggler', NEW s \in Scopes, NEW t \in Limiter!Times
               PROVE  Cardinality(In(s, t)') <= Limit[s]
    BY <1>2
  <2>1. /\ \A q \in Callers \ {r} : call'[q] = call[q]
        /\ call'[r].now = call[r].now
        /\ ~Checked(r) /\ Checked(r)'
        /\ charged'[s] \in {charged[s], charged[s] \cup {r}}
    BY <1>4, CheckEffect DEF WindowInv
  <2>2. /\ call[r].now \in Nat /\ Limit[s] \in Nat
        /\ ~straggler /\ ~Limiter!Late(r)
    BY <1>4, CheckParts DEF WindowInv
  <2>3. t \in Nat /\ Window \in Nat
    BY LimiterAssumption DEF Limiter!Times
  <2>4. \A q \in Callers : call[q].now \in Nat
    BY LimiterAssumption DEF WindowInv, Limiter!TypeOK, Limiter!Request, Limiter!Times
  <2>5. r \notin charged[s] /\ charged[s] \subseteq Callers
    BY <2>1 DEF WindowInv, DequesOK, Limiter!TypeOK, Checked
  <2>6. Limiter!TypeOK' /\ DequesOK' /\ DequesCount'
    BY LimiterTypes, DequesStep, CountStep DEF WindowInv
  \* A window that ends before the request: the request is not in it.
  <2>7. CASE t < call[r].now
    <3>1. In(s, t)' = In(s, t)
      BY <2>1, <2>2, <2>3, <2>5, <2>7
    <3>2. Cardinality(In(s, t)) <= Limit[s]
      BY <1>1, <2>2 DEF WindowInv
    <3>3. QED
      BY <3>1, <3>2
  \* A window that ends later: all others came before, and the deque counts them.
  <2>8. CASE call[r].now <= t
    <3>1. \A q \in Callers : Checked(q)' => call'[q].now <= t
      <4>1. ASSUME NEW q \in Callers \ {r}, Checked(q)' PROVE call'[q].now <= t
        <5>1. Checked(q)
          BY <2>1, <4>1 DEF Checked
        <5>2. ~(call[q].now > call[r].now)
          BY <2>2, <5>1 DEF Limiter!Late, Checked
        <5>3. QED
          BY <2>1, <2>2, <2>3, <2>4, <2>8, <5>2
      <4>2. QED
        BY <2>1, <2>8, <4>1
    <3>2. Cardinality(Recent(s, t)') <= Len(Limiter!Swept(events'[s], t))
      BY <2>3, <2>6, <3>1 DEF DequesCount, Limiter!Swept
    <3>3. Len(Limiter!Swept(events'[s], t)) <= Len(events'[s])
      <4>1. events'[s] \in Seq(Limiter!Times) /\ Limiter!Times \in SUBSET Nat
        BY <2>6 DEF Limiter!TypeOK, Limiter!Times
      <4>2. QED
        BY <2>3, <4>1, SweptType
    <3>4. Len(events'[s]) <= Limit[s]
      BY <2>6 DEF DequesOK
    <3>5. In(s, t)' = Recent(s, t)'
      <4>1. \A q \in charged'[s] : q \in Callers /\ Checked(q)'
        BY <2>6 DEF DequesOK, Limiter!TypeOK, Checked
      <4>2. \A q \in charged'[s] : call'[q].now <= t
        BY <3>1, <4>1
      <4>3. \A q \in charged'[s] : call'[q].now \in Nat
        BY <2>1, <2>2, <2>4, <4>1
      <4>4. QED
        BY <2>3, <4>2, <4>3 DEF Recent
    <3>6. Cardinality(Recent(s, t)') \in Nat
      <4>1. Recent(s, t)' \subseteq Callers
        BY <2>1, <2>5 DEF Recent
      <4>2. QED
        BY <4>1, LimiterAssumption, FS_Subset, FS_CardinalityType
    <3>7. /\ Len(events'[s]) \in Nat
          /\ Len(Limiter!Swept(events'[s], t)) \in Nat
      <4>1. events'[s] \in Seq(Limiter!Times) /\ Limiter!Times \in SUBSET Nat
        BY <2>6 DEF Limiter!TypeOK, Limiter!Times
      <4>2. Limiter!Swept(events'[s], t) \in Seq(Limiter!Times)
        BY <2>3, <4>1, SweptType
      <4>3. QED
        BY <4>1, <4>2
    <3> HIDE DEF In
    <3>8. QED
      BY <2>2, <3>2, <3>3, <3>4, <3>5, <3>6, <3>7
  <2>9. QED
    BY <2>2, <2>3, <2>7, <2>8
<1>5. QED
  BY <1>3, <1>4, LimiterSteps DEF WindowInv

LEMMA WindowInit == Limiter!Init => WindowInv
<1> SUFFICES ASSUME Limiter!Init PROVE WindowInv
  OBVIOUS
<1>1. Limiter!TypeOK
  <2>1. 0 \in Limiter!Times
    BY LimiterAssumption DEF Limiter!Times
  <2>2. <<>> \in Seq(Limiter!Times)
    OBVIOUS
  <2>3. QED
    BY <2>1, <2>2 DEF Limiter!Init, Limiter!TypeOK, Limiter!Request
<1>2. \A s \in Scopes : charged[s] = {} /\ events[s] = <<>> /\ Limit[s] \in Nat
  BY LimiterAssumption DEF Limiter!Init
<1>3. DequesOK
  BY <1>2 DEF DequesOK
<1>4. \A s \in Scopes : \A t : Recent(s, t) = {}
  BY <1>2 DEF Recent
<1>5. Cardinality({}) = 0
  BY FS_EmptySet
<1>6. DequesCount
  <2>1. ASSUME NEW s \in Scopes, NEW t \in Nat
        PROVE  Cardinality(Recent(s, t)) <= Len(Limiter!Swept(events[s], t))
    <3>1. <<>> \in Seq(Nat) /\ Nat \in SUBSET Nat
      OBVIOUS
    <3>2. Limiter!Swept(events[s], t) \in Seq(Nat)
      BY <1>2, <3>1, SweptType
    <3>3. Len(Limiter!Swept(events[s], t)) \in Nat
      BY <3>2
    <3>4. Cardinality(Recent(s, t)) = 0
      BY <1>4, <1>5
    <3>5. QED
      BY <3>3, <3>4
  <2>2. QED
    BY <2>1 DEF DequesCount
<1>7. WindowKept
  <2>1. ASSUME NEW s \in Scopes, NEW t
        PROVE  Limiter!Cardinality({q \in charged[s] : t < call[q].now + Window
                                                       /\ call[q].now <= t}) <= Limit[s]
    <3>1. {q \in charged[s] : t < call[q].now + Window /\ call[q].now <= t} = {}
      BY <1>2
    <3>2. Limiter!Cardinality({}) = 0 /\ Limit[s] \in Nat \ {0}
      BY <1>5, LimiterCardinality, LimiterAssumption
    <3>3. QED
      BY <3>1, <3>2
  <2>2. QED
    BY <2>1 DEF WindowKept, Limiter!WindowKept
<1>8. QED
  BY <1>1, <1>3, <1>6, <1>7 DEF WindowInv

\* Deques stay within their budgets and count what a window counts.
THEOREM LimiterInvariance == Limiter!Spec => []WindowInv
<1>1. WindowInv /\ [Limiter!Next]_(Limiter!vars) => WindowInv'
  BY LimiterTypes, DequesStep, CountStep, WindowStep DEF WindowInv
<1>2. QED
  BY WindowInit, <1>1, PTL DEF Limiter!Spec

\* As long as requests are checked in the order of their times, no window of any
\* scope admits more than its budget, wherever it is laid.
THEOREM WindowsAreKept == Limiter!Spec => []WindowKept
<1>1. WindowInv => WindowKept
  BY DEF WindowInv
<1>2. QED
  BY <1>1, LimiterInvariance, PTL

--------------------------------------------------------------------------------
(* The answer to a refused request                                            *)

\* RetryIsEnough for one request.
Returns(r) ==
  call[r].at = "refused" /\ ~since[r] =>
    \A s \in call[r].scopes :
      Len(Limiter!Swept(events[s], call[r].now + call[r].retry)) < Limit[s]

LEMMA RetryReads ==
  ASSUME Limiter!TypeOK
  PROVE  RetryIsEnough <=> \A r \in Callers : Returns(r)
<1>1. ASSUME NEW r \in Callers, NEW s \in call[r].scopes
      PROVE  ~Limiter!Full(Limiter!Swept(events[s], call[r].now + call[r].retry), s)
               <=> Len(Limiter!Swept(events[s], call[r].now + call[r].retry)) < Limit[s]
  <2>1. s \in Scopes /\ call[r].now + call[r].retry \in Nat
    BY LimiterAssumption DEF Limiter!TypeOK, Limiter!Request, Limiter!Times
  <2>2. events[s] \in Seq(Limiter!Times) /\ Limiter!Times \in SUBSET Nat /\ Limit[s] \in Nat
    BY <2>1, LimiterAssumption DEF Limiter!TypeOK, Limiter!Times
  <2>3. Limiter!Swept(events[s], call[r].now + call[r].retry) \in Seq(Limiter!Times)
    BY <2>1, <2>2, SweptType
  <2>4. QED
    BY <2>2, <2>3 DEF Limiter!Full
<1>2. QED
  BY <1>1 DEF RetryIsEnough, Limiter!RetryIsEnough, Returns

LEMMA RetryPrimed ==
  ASSUME NEW x \in Callers
  PROVE  Returns(x)' <=> (call'[x].at = "refused" /\ ~since'[x] =>
           \A s \in call'[x].scopes :
             Len(Limiter!Swept(events'[s], call'[x].now + call'[x].retry)) < Limit[s])
  BY DEF Returns, Limiter!Swept

LEMMA RetryStep ==
  ASSUME Limiter!TypeOK, DequesOK, [Limiter!Next]_(Limiter!vars),
         NEW x \in Callers, Returns(x)
  PROVE  Returns(x)'
<1>1. CASE Idles
  <2>1. SUFFICES ASSUME call'[x].at = "refused", ~since'[x], NEW s \in call'[x].scopes
                 PROVE  Len(Limiter!Swept(events'[s], call'[x].now + call'[x].retry)) < Limit[s]
    BY RetryPrimed
  <2>2. call'[x] = call[x]
    BY <1>1, <2>1 DEF Idles, Checked
  <2>3. events' = events /\ since' = since
    BY <1>1 DEF Idles
  <2>4. QED
    BY <2>1, <2>2, <2>3 DEF Returns
<1>2. ASSUME NEW r \in Callers, Limiter!Check(r) PROVE Returns(x)'
  <2> DEFINE now == call[r].now
             swept == Sweep(now)
  <2>1. /\ now \in Nat /\ call[r].scopes \subseteq Scopes /\ call[r].at = "lock"
        /\ \A s \in Scopes : /\ events[s] \in Seq(Nat) /\ Limit[s] \in Nat \ {0}
                             /\ swept[s] = Limiter!Swept(events[s], now)
                             /\ swept[s] \in Seq(Nat)
                             /\ Len(swept[s]) <= Len(events[s])
        /\ Admits(r) \/ Refuses(r)
    BY <1>2, CheckParts
  <2>2. /\ \A q \in Callers \ {r} : call'[q] = call[q]
        /\ call'[r].now = now /\ call'[r].scopes = call[r].scopes
    BY <1>2, CheckEffect
  <2>3. CASE Admits(r)
    <3>1. since'[x] = (since[x] \/ call[x].at = "refused") /\ call'[r].at = "admitted"
      BY <2>3 DEF Admits, Limiter!TypeOK, Limiter!Request
    <3>2. QED
      BY <2>2, <3>1 DEF Returns
  <2>4. CASE Refuses(r)
    <3>1. PICK f \in call[r].scopes :
            /\ Len(swept[f]) >= Limit[f]
            /\ \A s \in call[r].scopes : Len(swept[s]) >= Limit[s] =>
                 Limiter!Wait(swept[s], now) <= Limiter!Wait(swept[f], now)
            /\ call' = [call EXCEPT ![r] = [@ EXCEPT !.at = "refused",
                                              !.retry = Limiter!Wait(swept[f], now)]]
      BY <2>4 DEF Refuses
    <3>2. events' = swept /\ since' = since
      BY <2>4 DEF Refuses
    <3> HIDE DEF swept
    <3>3. CASE x # r
      <4> SUFFICES ASSUME call[x].at = "refused", ~since[x], NEW s \in call[x].scopes
                   PROVE  Len(Limiter!Swept(events'[s], call[x].now + call[x].retry)) < Limit[s]
        BY <2>2, <3>2, <3>3, RetryPrimed
      <4> DEFINE t == call[x].now + call[x].retry
      <4>1. s \in Scopes /\ t \in Nat
        BY LimiterAssumption DEF Limiter!TypeOK, Limiter!Request, Limiter!Times
      <4>2. Len(Limiter!Swept(events[s], t)) < Limit[s]
        BY DEF Returns
      <4> HIDE DEF t
      <4>3. Len(Limiter!Swept(swept[s], t)) <= Len(Limiter!Swept(events[s], t))
        BY <2>1, <4>1, SweptTwice
      <4>4. /\ Len(Limiter!Swept(swept[s], t)) \in Nat
            /\ Len(Limiter!Swept(events[s], t)) \in Nat
            /\ Limit[s] \in Nat
        <5>1. Nat \in SUBSET Nat
          OBVIOUS
        <5>2. Limiter!Swept(swept[s], t) \in Seq(Nat) /\ Limiter!Swept(events[s], t) \in Seq(Nat)
          BY <2>1, <4>1, <5>1, SweptType
        <5>3. QED
          BY <2>1, <4>1, <5>2
      <4>5. Len(Limiter!Swept(swept[s], t)) < Limit[s]
        BY <4>2, <4>3, <4>4
      <4>6. QED
        BY <3>2, <4>5 DEF t
    <3>4. CASE x = r
      <4> DEFINE w == Limiter!Wait(swept[f], now)
      <4>1. w \in Nat
        <5>1. f \in Scopes /\ Len(swept[f]) >= 1 /\ swept[f] \in Seq(Nat)
          BY <2>1, <3>1
        <5>2. QED
          BY <2>1, <5>1, WaitType
      <4>2. call'[r].retry = w
        BY <3>1 DEF Limiter!TypeOK, Limiter!Request
      <4> SUFFICES ASSUME NEW s \in call[r].scopes
                   PROVE  Len(Limiter!Swept(events'[s], now + w)) < Limit[s]
        <5> HIDE DEF w
        <5>1. QED
          BY <2>2, <3>4, <4>2, RetryPrimed
      <4>3. /\ s \in Scopes /\ swept[s] \in Seq(Nat) /\ Limit[s] \in Nat \ {0}
            /\ now + w \in Nat
        BY <2>1, <4>1
      <4>4. /\ Limiter!Swept(swept[s], now + w) \in Seq(Nat)
            /\ Len(Limiter!Swept(swept[s], now + w)) <= Len(swept[s])
        <5>1. Nat \in SUBSET Nat
          OBVIOUS
        <5>2. QED
          BY <4>3, <5>1, SweptType
      <4>5. CASE Len(swept[s]) < Limit[s]
        <5> HIDE DEF w
        <5>1. Len(swept[s]) \in Nat /\ Len(Limiter!Swept(swept[s], now + w)) \in Nat
          BY <4>3, <4>4
        <5>2. Len(Limiter!Swept(swept[s], now + w)) < Limit[s]
          BY <4>3, <4>4, <4>5, <5>1
        <5>3. QED
          BY <3>2, <5>2
      <4>6. CASE Len(swept[s]) >= Limit[s]
        <5>0. Len(swept[s]) >= 1 /\ Len(swept[s]) \in Nat
          BY <4>3, <4>6
        <5>1. /\ Limiter!Wait(swept[s], now) \in Nat
              /\ swept[s][1] + Window <= now + Limiter!Wait(swept[s], now)
          BY <2>1, <4>3, <5>0, WaitType
        <5>2. Limiter!Wait(swept[s], now) <= w
          BY <3>1, <4>6
        <5>3. swept[s][1] \in Nat /\ Window \in Nat
          BY <4>3, <5>0, LimiterAssumption
        <5> HIDE DEF w
        <5>4. swept[s][1] + Window <= now + w
          <6> DEFINE v == Limiter!Wait(swept[s], now)
                 e == swept[s][1]
          <6>1. v \in Nat /\ e \in Nat /\ e + Window <= now + v /\ v <= w
            BY <5>1, <5>2, <5>3
          <6> HIDE DEF v, e
          <6>2. e + Window <= now + w
            BY <2>1, <4>1, <5>3, <6>1
          <6>3. QED
            BY <6>2 DEF e
        <5>5. Len(Limiter!Swept(swept[s], now + w)) < Len(swept[s])
          BY <4>3, <5>0, <5>4, SweptHead
        <5>6. Len(swept[s]) <= Limit[s]
          <6>1. Len(events[s]) <= Limit[s] /\ Len(swept[s]) <= Len(events[s])
            BY <2>1, <4>3 DEF DequesOK
          <6>2. Len(events[s]) \in Nat /\ Len(swept[s]) \in Nat
            BY <2>1, <4>3
          <6>3. QED
            BY <4>3, <6>1, <6>2
        <5>7. Len(Limiter!Swept(swept[s], now + w)) < Limit[s]
          BY <4>3, <4>4, <5>0, <5>5, <5>6
        <5>8. QED
          BY <3>2, <5>7
      <4>7. QED
        BY <4>3, <4>5, <4>6
    <3>5. QED
      BY <3>3, <3>4
  <2>5. QED
    BY <2>1, <2>3, <2>4
<1>3. QED
  BY <1>1, <1>2, LimiterSteps

\* Whoever comes back when it was told to finds room in all its scopes, unless others
\* were charged in between.
THEOREM RetriesAreEnough == Limiter!Spec => []RetryIsEnough
<1> DEFINE Inv == WindowInv /\ \A r \in Callers : Returns(r)
<1>1. Limiter!Init => Inv
  BY WindowInit DEF Limiter!Init, Returns
<1>2. Inv /\ [Limiter!Next]_(Limiter!vars) => Inv'
  <2>1. WindowInv /\ [Limiter!Next]_(Limiter!vars) => WindowInv'
    BY LimiterTypes, DequesStep, CountStep, WindowStep DEF WindowInv
  <2>2. QED
    BY <2>1, RetryStep DEF WindowInv
<1>3. Inv => RetryIsEnough
  BY RetryReads DEF WindowInv
<1>4. QED
  BY <1>1, <1>2, <1>3, PTL DEF Limiter!Spec

--------------------------------------------------------------------------------
(* Registrations: the calls of each kind                                      *)

LEMMA NeedsAre ==
  /\ Tenants!Needs("student") = {"profile"}
  /\ Tenants!Needs("member") = {"membership"}
  /\ Tenants!Needs("organization") = {"grant"}
  /\ Tenants!Needs("college") = {"grant", "join"}
  /\ Tenants!Needs("university") = {"grant"}
<1> USE DEF Tenants!Needs, Tenants!Rest, Tenants!Dependent
<1>1. Tenants!Needs("student") = {"profile"}
  OBVIOUS
<1>2. Tenants!Needs("member") = {"membership"}
  OBVIOUS
<1>3. Tenants!Needs("organization") = {"grant"}
  OBVIOUS
<1>4. Tenants!Needs("college") = {"grant", "join"}
  OBVIOUS
<1>5. Tenants!Needs("university") = {"grant"}
  OBVIOUS
<1> HIDE DEF Tenants!Needs, Tenants!Rest, Tenants!Dependent
<1>6. QED
  BY <1>1, <1>2, <1>3, <1>4, <1>5

LEMMA Wrapped ==
  ASSUME NEW S, NEW s \in Seq(S), NEW a \in S, NEW e \in S
  PROVE  /\ DOMAIN (<<a>> \o s \o <<e>>) = 1 .. Len(s) + 2
         /\ (<<a>> \o s \o <<e>>)[1] = a
         /\ \A i \in 1 .. Len(s) : (<<a>> \o s \o <<e>>)[i + 1] = s[i]
         /\ (<<a>> \o s \o <<e>>)[Len(s) + 2] = e
  OBVIOUS

Calls == {"user", "profile", "membership", "tenant", "grant", "join", "registered"}

Chain(r) == <<"user">> \o Tenants!Rest(Tenants!Kind(r)) \o <<"registered">>

LEMMA ChainIs ==
  ASSUME NEW r, NEW s \in Seq(Calls), Tenants!Rest(Tenants!Kind(r)) = s
  PROVE  /\ DOMAIN Chain(r) = 1 .. Len(s) + 2
         /\ Chain(r)[1] = "user"
         /\ \A i \in 1 .. Len(s) : Chain(r)[i + 1] = s[i]
         /\ Chain(r)[Len(s) + 2] = "registered"
<1>1. "user" \in Calls /\ "registered" \in Calls
  BY DEF Calls
<1>2. QED
  BY <1>1, Wrapped DEF Chain

LEMMA FollowerIs ==
  ASSUME NEW r, NEW n \in DOMAIN Chain(r),
         \A j \in DOMAIN Chain(r) : Chain(r)[j] = Chain(r)[n] => j = n
  PROVE  Tenants!After(r, Chain(r)[n]) = Chain(r)[n + 1]
<1>1. (CHOOSE j \in DOMAIN Chain(r) : Chain(r)[j] = Chain(r)[n]) = n
  OBVIOUS
<1>2. QED
  BY <1>1 DEF Tenants!After, Chain

\* The calls after a given one.
LEMMA AfterIs ==
  ASSUME NEW r
  PROVE  /\ Tenants!Kind(r) = "student" =>
              /\ Tenants!After(r, "user") = "profile"
              /\ Tenants!After(r, "profile") = "registered"
         /\ Tenants!Kind(r) = "member" =>
              /\ Tenants!After(r, "user") = "membership"
              /\ Tenants!After(r, "membership") = "registered"
         /\ Tenants!Kind(r) \in {"organization", "college", "university"} =>
              /\ Tenants!After(r, "user") = "tenant"
              /\ Tenants!After(r, "tenant") = "grant"
         /\ Tenants!Kind(r) \in {"organization", "university"} =>
              Tenants!After(r, "grant") = "registered"
         /\ Tenants!Kind(r) = "college" =>
              /\ Tenants!After(r, "grant") = "join"
              /\ Tenants!After(r, "join") = "registered"
<1>1. CASE Tenants!Kind(r) = "student"
  <2> DEFINE s == <<"profile">>
  <2>1. Tenants!Rest(Tenants!Kind(r)) = s
    BY <1>1 DEF Tenants!Rest
  <2>2. s \in Seq(Calls) /\ Len(s) = 1 /\ s[1] = "profile"
    BY DEF Calls
  <2> HIDE DEF s
  <2>3. /\ DOMAIN Chain(r) = 1 .. Len(s) + 2
        /\ Chain(r)[1] = "user"
        /\ \A i \in 1 .. Len(s) : Chain(r)[i + 1] = s[i]
        /\ Chain(r)[Len(s) + 2] = "registered"
    BY <2>1, <2>2, ChainIs
  <2>4. DOMAIN Chain(r) = 1 .. 3
    BY <2>2, <2>3
  <2>5. Chain(r)[1] = "user"
    BY <2>2, <2>3
  <2>6. Chain(r)[2] = "profile"
    <3>1. 1 \in 1 .. Len(s) /\ 1 + 1 = 2
      BY <2>2
    <3>2. QED
      BY <2>2, <2>3, <3>1
  <2>7. Chain(r)[3] = "registered"
    BY <2>2, <2>3
  <2>8. Tenants!After(r, "user") = "profile"
    BY <2>4, <2>5, <2>6, <2>7, FollowerIs
  <2>9. Tenants!After(r, "profile") = "registered"
    BY <2>4, <2>5, <2>6, <2>7, FollowerIs
  <2>10. QED
    BY <1>1, <2>8, <2>9
<1>2. CASE Tenants!Kind(r) = "member"
  <2> DEFINE s == <<"membership">>
  <2>1. Tenants!Rest(Tenants!Kind(r)) = s
    BY <1>2 DEF Tenants!Rest
  <2>2. s \in Seq(Calls) /\ Len(s) = 1 /\ s[1] = "membership"
    BY DEF Calls
  <2> HIDE DEF s
  <2>3. /\ DOMAIN Chain(r) = 1 .. Len(s) + 2
        /\ Chain(r)[1] = "user"
        /\ \A i \in 1 .. Len(s) : Chain(r)[i + 1] = s[i]
        /\ Chain(r)[Len(s) + 2] = "registered"
    BY <2>1, <2>2, ChainIs
  <2>4. DOMAIN Chain(r) = 1 .. 3
    BY <2>2, <2>3
  <2>5. Chain(r)[1] = "user"
    BY <2>2, <2>3
  <2>6. Chain(r)[2] = "membership"
    <3>1. 1 \in 1 .. Len(s) /\ 1 + 1 = 2
      BY <2>2
    <3>2. QED
      BY <2>2, <2>3, <3>1
  <2>7. Chain(r)[3] = "registered"
    BY <2>2, <2>3
  <2>8. Tenants!After(r, "user") = "membership"
    BY <2>4, <2>5, <2>6, <2>7, FollowerIs
  <2>9. Tenants!After(r, "membership") = "registered"
    BY <2>4, <2>5, <2>6, <2>7, FollowerIs
  <2>10. QED
    BY <1>2, <2>8, <2>9
<1>3. CASE Tenants!Kind(r) \in {"organization", "university"}
  <2> DEFINE s == <<"tenant", "grant">>
  <2>1. Tenants!Rest(Tenants!Kind(r)) = s
    BY <1>3 DEF Tenants!Rest
  <2>2. s \in Seq(Calls) /\ Len(s) = 2 /\ s[1] = "tenant" /\ s[2] = "grant"
    BY DEF Calls
  <2> HIDE DEF s
  <2>3. /\ DOMAIN Chain(r) = 1 .. Len(s) + 2
        /\ Chain(r)[1] = "user"
        /\ \A i \in 1 .. Len(s) : Chain(r)[i + 1] = s[i]
        /\ Chain(r)[Len(s) + 2] = "registered"
    BY <2>1, <2>2, ChainIs
  <2>4. DOMAIN Chain(r) = 1 .. 4
    BY <2>2, <2>3
  <2>5. Chain(r)[1] = "user"
    BY <2>2, <2>3
  <2>6. Chain(r)[2] = "tenant"
    <3>1. 1 \in 1 .. Len(s) /\ 1 + 1 = 2
      BY <2>2
    <3>2. QED
      BY <2>2, <2>3, <3>1
  <2>7. Chain(r)[3] = "grant"
    <3>1. 2 \in 1 .. Len(s) /\ 2 + 1 = 3
      BY <2>2
    <3>2. QED
      BY <2>2, <2>3, <3>1
  <2>8. Chain(r)[4] = "registered"
    BY <2>2, <2>3
  <2>9. Tenants!After(r, "user") = "tenant"
    BY <2>4, <2>5, <2>6, <2>7, <2>8, FollowerIs
  <2>10. Tenants!After(r, "tenant") = "grant"
    BY <2>4, <2>5, <2>6, <2>7, <2>8, FollowerIs
  <2>11. Tenants!After(r, "grant") = "registered"
    BY <2>4, <2>5, <2>6, <2>7, <2>8, FollowerIs
  <2>12. QED
    BY <1>3, <2>9, <2>10, <2>11
<1>4. CASE Tenants!Kind(r) = "college"
  <2> DEFINE s == <<"tenant", "grant", "join">>
  <2>1. Tenants!Rest(Tenants!Kind(r)) = s
    BY <1>4 DEF Tenants!Rest
  <2>2. s \in Seq(Calls) /\ Len(s) = 3 /\ s[1] = "tenant" /\ s[2] = "grant" /\ s[3] = "join"
    BY DEF Calls
  <2> HIDE DEF s
  <2>3. /\ DOMAIN Chain(r) = 1 .. Len(s) + 2
        /\ Chain(r)[1] = "user"
        /\ \A i \in 1 .. Len(s) : Chain(r)[i + 1] = s[i]
        /\ Chain(r)[Len(s) + 2] = "registered"
    BY <2>1, <2>2, ChainIs
  <2>4. DOMAIN Chain(r) = 1 .. 5
    BY <2>2, <2>3
  <2>5. Chain(r)[1] = "user"
    BY <2>2, <2>3
  <2>6. Chain(r)[2] = "tenant"
    <3>1. 1 \in 1 .. Len(s) /\ 1 + 1 = 2
      BY <2>2
    <3>2. QED
      BY <2>2, <2>3, <3>1
  <2>7. Chain(r)[3] = "grant"
    <3>1. 2 \in 1 .. Len(s) /\ 2 + 1 = 3
      BY <2>2
    <3>2. QED
      BY <2>2, <2>3, <3>1
  <2>8. Chain(r)[4] = "join"
    <3>1. 3 \in 1 .. Len(s) /\ 3 + 1 = 4
      BY <2>2
    <3>2. QED
      BY <2>2, <2>3, <3>1
  <2>9. Chain(r)[5] = "registered"
    BY <2>2, <2>3
  <2>10. Tenants!After(r, "user") = "tenant"
    BY <2>4, <2>5, <2>6, <2>7, <2>8, <2>9, FollowerIs
  <2>11. Tenants!After(r, "tenant") = "grant"
    BY <2>4, <2>5, <2>6, <2>7, <2>8, <2>9, FollowerIs
  <2>12. Tenants!After(r, "grant") = "join"
    BY <2>4, <2>5, <2>6, <2>7, <2>8, <2>9, FollowerIs
  <2>13. Tenants!After(r, "join") = "registered"
    BY <2>4, <2>5, <2>6, <2>7, <2>8, <2>9, FollowerIs
  <2>14. QED
    BY <1>4, <2>10, <2>11, <2>12, <2>13
<1>5. QED
  BY <1>1, <1>2, <1>3, <1>4

--------------------------------------------------------------------------------
(* Registrations: the invariant                                               *)

\* Where a registration is once its user row was inserted and answered.
Forward == {"profile", "membership", "tenant", "grant", "join", "registered"}

Undoing == {"undo user", "undo tenant", "undo account"}

\* Only the calls of its kind are made.
KindFits(w) ==
  /\ w.at = "profile" => w.kind = "student"
  /\ w.at = "membership" => w.kind = "member"
  /\ w.at \in {"tenant", "grant"} => w.kind \in {"organization", "college", "university"}
  /\ w.at = "join" => w.kind = "college"

\* The rows that refer to the user row by now.
Made(w) == CASE w.at = "join"       -> {"grant"}
             [] w.at = "registered" -> Tenants!Needs(w.kind)
             [] OTHER               -> {}

\* A registration that goes on has all it made so far.
Progress(r) ==
  LET w == reg[r] IN
  /\ KindFits(w)
  /\ w.at \notin {"idle", "account", "failed", "lost"} => w.account \in Requests
  /\ w.at = "user" => rows[r] = {}
  /\ w.at \in Forward => row.by = r /\ w.user /\ rows[r] = Made(w)
  /\ w.at \in {"grant", "registered"} /\ w.kind = "organization" => org.by = r
  /\ w.at \in {"grant", "join", "registered"} /\ w.kind \in Tenants!Colleges =>
       inst.by = r /\ w.tenant
  /\ w.at \in {"idle", "account"} => rows[r] = {}
  /\ row.by = r => w.at \notin {"idle", "account", "user"} /\ row.account = w.account

\* users_auth_user_id_fkey: the user row has the account.
UserFits ==
  IF row.by = None THEN row.account = None
  ELSE row.account = login.owner /\ login.owner # None

\* While nothing was uncertain, what is left has somebody who keeps it or will
\* still take it back.
Accounted(r) ==
  LET w == reg[r] IN
  /\ w.at # "lost"
  /\ w.at \in Undoing \cup {"failed"} => rows[r] \subseteq {"grant"}
  /\ row.by = r => \/ w.at \in Forward \cup {"undo user"}
                   \/ w.at \in {"undo tenant", "undo account", "failed"} /\ "grant" \in rows[r]
  /\ inst.by = r => /\ w.kind \in Tenants!Colleges /\ w.tenant
                    /\ w.at \in {"grant", "join", "registered", "undo user", "undo tenant"}

Keeps(r) ==
  LET w == reg[r] IN
  /\ w.account = login.owner
  /\ \/ w.at \in {"user"} \cup Forward \cup Undoing
     \/ w.at = "failed" /\ row.by = r

LeftoversInv ==
  ~trouble => /\ \A r \in Requests : Accounted(r)
              /\ login.owner # None => \E r \in Requests : Keeps(r)

DecidingInv ==
  \A a \in Admins :
    /\ deciding[a][1] = "organization" => deciding[a][2] \in {"active", "rejected"}
    /\ deciding[a][1] = "join" => deciding[a][2] \in {"approved", "rejected"}

TenancyInv ==
  /\ Tenants!TypeOK /\ DecidingInv
  /\ \A r \in Requests : Progress(r)
  /\ UserFits
  /\ LeftoversInv

--------------------------------------------------------------------------------
(* Registrations: one step of one of them                                     *)

Steps(r) == /\ reg' \in [Requests -> Tenants!Registration]
            /\ \A q \in Requests \ {r} : reg'[q] = reg[q]

MovesTo(r, at) ==
  /\ Steps(r)
  /\ reg'[r].at = at
  /\ reg'[r].kind = reg[r].kind /\ reg'[r].account = reg[r].account
  /\ reg'[r].user = reg[r].user /\ reg'[r].tenant = reg[r].tenant

\* What other registrations inserted is left alone.
Apart(r) ==
  /\ \A q \in Requests \ {r} : rows'[q] = rows[q]
  /\ row' = row \/ {row.by, row'.by} \subseteq {None, r}
  /\ org.by # None => org'.by = org.by
  /\ inst'.by = inst.by \/ {inst.by, inst'.by} \subseteq {None, r}
  /\ trouble => trouble'

Typed ==
  /\ login' \in [owner : Requests \cup {None}, confirmed : BOOLEAN]
  /\ row' \in [by : Requests \cup {None}, account : Requests \cup {None}]
  /\ org' \in Tenants!Tenants
  /\ inst' \in Tenants!Tenants
  /\ rows' \in [Requests -> SUBSET Tenants!Dependent]
  /\ join' \in Tenants!JoinRequest
  /\ trouble' \in BOOLEAN

Steplist == {"idle", "account", "user", "tenant", "undo user", "undo tenant",
             "undo account", "registered", "failed", "lost",
             "profile", "membership", "grant", "join"}

LEMMA GoMoves ==
  ASSUME Tenants!TypeOK, NEW r \in Requests, NEW at \in Steplist, Tenants!Go(r, at)
  PROVE  MovesTo(r, at)
<1> DEFINE w == [reg[r] EXCEPT !.at = at]
<1>1. reg' = [reg EXCEPT ![r] = w]
  BY DEF Tenants!Go
<1>2. reg[r] \in Tenants!Registration
  BY DEF Tenants!TypeOK
<1>3. /\ w \in Tenants!Registration
      /\ w.at = at /\ w.kind = reg[r].kind /\ w.account = reg[r].account
      /\ w.user = reg[r].user /\ w.tenant = reg[r].tenant
  BY <1>2 DEF Tenants!Registration, Tenants!Dependent, Steplist
<1> HIDE DEF w
<1>4. reg'[r] = w /\ Steps(r)
  BY <1>1, <1>3 DEF Tenants!TypeOK, Steps
<1>5. QED
  BY <1>3, <1>4 DEF MovesTo

LEMMA AnsweredMoves ==
  ASSUME Tenants!TypeOK, NEW r \in Requests, NEW step, NEW known \in Tenants!Registration,
         Tenants!After(r, step) \in Steplist, Tenants!Answered(r, step, known)
  PROVE  /\ Steps(r)
         /\ reg'[r].at = Tenants!After(r, step)
         /\ reg'[r].kind = known.kind /\ reg'[r].account = known.account
         /\ reg'[r].user = known.user /\ reg'[r].tenant = known.tenant
         /\ trouble' = trouble
<1> DEFINE at == Tenants!After(r, step)
           w == [known EXCEPT !.at = at]
<1>1. reg' = [reg EXCEPT ![r] = w] /\ trouble' = trouble
  BY DEF Tenants!Answered
<1>2. at \in Steplist
  OBVIOUS
<1> HIDE DEF at
<1>3. /\ w \in Tenants!Registration
      /\ w.at = at /\ w.kind = known.kind /\ w.account = known.account
      /\ w.user = known.user /\ w.tenant = known.tenant
  BY <1>2 DEF Tenants!Registration, Tenants!Dependent, Steplist
<1> HIDE DEF w
<1>4. reg'[r] = w /\ Steps(r)
  BY <1>1, <1>3 DEF Tenants!TypeOK, Steps
<1>5. QED
  BY <1>1, <1>3, <1>4 DEF at

\* A failed call leads to the first deletion that has something to delete.
LEMMA FailureMoves ==
  ASSUME Tenants!TypeOK, NEW r \in Requests, Tenants!Go(r, Tenants!UndoFrom(r, "user"))
  PROVE  \E at \in Undoing : MovesTo(r, at) /\ (reg[r].user => at = "undo user")
<1> DEFINE at == Tenants!UndoFrom(r, "user")
<1>1. at \in Undoing /\ (reg[r].user => at = "undo user")
  BY DEF Tenants!UndoFrom, Tenants!UndoFromTenant, Undoing
<1>2. at \in Steplist
  BY <1>1 DEF Undoing, Steplist
<1> HIDE DEF at
<1>3. MovesTo(r, at)
  BY <1>2, GoMoves DEF at
<1>4. QED
  BY <1>1, <1>3

LEMMA OthersKeep ==
  ASSUME TenancyInv, NEW r \in Requests, Steps(r), Apart(r), NEW q \in Requests \ {r}
  PROVE  Progress(q)' /\ (~trouble' => Accounted(q)')
<1>1. reg'[q] = reg[q] /\ rows'[q] = rows[q] /\ Progress(q)
  BY DEF TenancyInv, Steps, Apart
<1>2. q # None
  BY TenantsAssumption
<1>3. /\ row.by = q => row' = row
      /\ row'.by = q => row' = row
      /\ org.by = q => org'.by = q
      /\ inst'.by = q <=> inst.by = q
  BY <1>2 DEF Apart
<1>4. Progress(q)'
  BY <1>1, <1>3 DEF Progress, KindFits, Made
<1>5. ASSUME ~trouble' PROVE Accounted(q)'
  <2>1. Accounted(q)
    BY <1>5 DEF TenancyInv, LeftoversInv, Apart
  <2>2. reg'[q].at # "lost"
    BY <1>1, <2>1 DEF Accounted
  <2>3. reg'[q].at \in Undoing \cup {"failed"} => rows'[q] \subseteq {"grant"}
    BY <1>1, <2>1 DEF Accounted
  <2>4. row'.by = q =>
          \/ reg'[q].at \in Forward \cup {"undo user"}
          \/ reg'[q].at \in {"undo tenant", "undo account", "failed"} /\ "grant" \in rows'[q]
    BY <1>1, <1>3, <2>1 DEF Accounted
  <2>5. inst'.by = q =>
          /\ reg'[q].kind \in Tenants!Colleges /\ reg'[q].tenant
          /\ reg'[q].at \in {"grant", "join", "registered", "undo user", "undo tenant"}
    BY <1>1, <1>3, <2>1 DEF Accounted
  <2>6. QED
    BY <2>2, <2>3, <2>4, <2>5 DEF Accounted
<1>6. QED
  BY <1>4, <1>5

LEMMA RegistrationStep ==
  ASSUME TenancyInv, NEW r \in Requests, Steps(r), Typed, deciding' = deciding, Apart(r),
         Progress(r)', UserFits',
         ~trouble' => Accounted(r)' /\ (login'.owner # None => \E q \in Requests : Keeps(q)')
  PROVE  TenancyInv'
<1>1. Tenants!TypeOK'
  BY DEF TenancyInv, Tenants!TypeOK, Typed, Steps
<1>2. DecidingInv'
  BY DEF TenancyInv, DecidingInv
<1>3. \A q \in Requests : Progress(q)' /\ (~trouble' => Accounted(q)')
  BY OthersKeep
<1>4. LeftoversInv'
  BY <1>3 DEF LeftoversInv
<1>5. QED
  BY <1>1, <1>2, <1>3, <1>4 DEF TenancyInv

\* As long as the account stays, so does somebody who keeps it.
LEMMA KeeperStays ==
  ASSUME TenancyInv, NEW r \in Requests, Steps(r), Apart(r), ~trouble',
         login.owner # None, login'.owner = login.owner, Keeps(r) => Keeps(r)'
  PROVE  \E q \in Requests : Keeps(q)'
<1>1. PICK q \in Requests : Keeps(q)
  BY DEF TenancyInv, LeftoversInv, Apart
<1>2. CASE q = r
  BY <1>1, <1>2
<1>3. CASE q # r
  <2>1. reg'[q] = reg[q] /\ q # None
    BY <1>3, TenantsAssumption DEF Steps
  <2>2. row.by = q => row'.by = q
    BY <1>3, <2>1 DEF Apart
  <2>3. Keeps(q)'
    BY <1>1, <2>1, <2>2 DEF Keeps
  <2>4. QED
    BY <2>3
<1>4. QED
  BY <1>2, <1>3

--------------------------------------------------------------------------------
(* Registrations: every call keeps the invariant                              *)

LEMMA TypesNow ==
  ASSUME Tenants!TypeOK, NEW r \in Requests
  PROVE  /\ reg[r] \in Tenants!Registration
         /\ reg[r].at \in Steplist /\ reg[r].kind \in Tenants!Kinds
         /\ reg[r].account \in Requests \cup {None}
         /\ reg[r].user \in BOOLEAN /\ reg[r].tenant \in BOOLEAN
         /\ r # None
<1>1. reg[r] \in Tenants!Registration
  BY DEF Tenants!TypeOK
<1>2. QED
  BY <1>1, TenantsAssumption DEF Tenants!Registration, Steplist, Tenants!Dependent

LEMMA BeginStep ==
  ASSUME TenancyInv, NEW r \in Requests, NEW k \in Tenants!Kinds, Tenants!Begin(r, k)
  PROVE  TenancyInv'
<1>0. Tenants!TypeOK
  BY DEF TenancyInv
<1> DEFINE w == [reg[r] EXCEPT !.kind = k, !.at = "account"]
<1>1. /\ reg[r].at = "idle" /\ reg' = [reg EXCEPT ![r] = w]
      /\ UNCHANGED <<login, row, org, inst, rows, join, trouble, deciding>>
  BY DEF Tenants!Begin, Tenants!Decisions, Tenants!At
<1>2. /\ w \in Tenants!Registration
      /\ w.at = "account" /\ w.account = reg[r].account
      /\ w.user = reg[r].user /\ w.tenant = reg[r].tenant
  <2>1. reg[r] \in Tenants!Registration
    BY <1>0 DEF Tenants!TypeOK
  <2>2. QED
    BY <2>1 DEF Tenants!Registration
<1> HIDE DEF w
<1>3. reg'[r] = w /\ Steps(r)
  BY <1>0, <1>1, <1>2 DEF Tenants!TypeOK, Steps
<1>4. Typed /\ Apart(r) /\ UserFits' /\ deciding' = deciding
  BY <1>0, <1>1 DEF Typed, Apart, TenancyInv, UserFits, Tenants!TypeOK
<1>5. Progress(r)
  BY DEF TenancyInv
<1>6. row.by # r /\ rows[r] = {}
  BY <1>1, <1>5 DEF Progress
<1>7. Progress(r)'
  BY <1>1, <1>2, <1>3, <1>6 DEF Progress, KindFits, Forward
<1>8. ASSUME ~trouble' PROVE Accounted(r)' /\ (login'.owner # None => \E q \in Requests : Keeps(q)')
  <2>1. Accounted(r)
    BY <1>1, <1>8 DEF TenancyInv, LeftoversInv
  <2>2. inst.by # r
    BY <1>1, <2>1 DEF Accounted
  <2>3. Accounted(r)'
    BY <1>1, <1>2, <1>3, <1>6, <2>2 DEF Accounted, Undoing
  <2>4. ~Keeps(r)
    BY <1>1 DEF Keeps, Forward, Undoing
  <2>5. QED
    BY <1>1, <1>3, <1>4, <1>8, <2>3, <2>4, KeeperStays
<1>9. QED
  BY <1>3, <1>4, <1>7, <1>8, RegistrationStep

LEMMA CreateAccountStep ==
  ASSUME TenancyInv, NEW r \in Requests, Tenants!CreateAccount(r)
  PROVE  TenancyInv'
<1>0. Tenants!TypeOK /\ Progress(r) /\ UserFits
  BY DEF TenancyInv
<1>1. /\ reg[r].at = "account"
      /\ UNCHANGED <<row, org, inst, rows, join, deciding>>
  BY DEF Tenants!CreateAccount, Tenants!Decisions, Tenants!At
<1>2. row.by # r /\ rows[r] = {}
  BY <1>0, <1>1 DEF Progress
<1>3. ~Keeps(r)
  BY <1>1 DEF Keeps, Forward, Undoing
<1>4. ~trouble => inst.by # r
  BY <1>1 DEF TenancyInv, LeftoversInv, Accounted
\* The account at hand: a new one or the unconfirmed one.
<1>5. ASSUME NEW a \in Requests,
             \/ login.owner = None /\ a = r /\ login' = [owner |-> r, confirmed |-> login'.confirmed]
                /\ login'.confirmed \in BOOLEAN
             \/ login.owner = a /\ login' = login,
             trouble' = trouble,
             reg' = [reg EXCEPT ![r].at = "user", ![r].account = a]
      PROVE  TenancyInv'
  <2> DEFINE w == [reg[r] EXCEPT !.at = "user", !.account = a]
  <2>1. reg' = [reg EXCEPT ![r] = w]
    BY <1>5
  <2>2. /\ w \in Tenants!Registration
        /\ w.at = "user" /\ w.account = a /\ w.kind = reg[r].kind
        /\ w.user = reg[r].user /\ w.tenant = reg[r].tenant
    <3>1. reg[r] \in Tenants!Registration
      BY <1>0 DEF Tenants!TypeOK
    <3>2. QED
      BY <3>1 DEF Tenants!Registration
  <2> HIDE DEF w
  <2>3. reg'[r] = w /\ Steps(r)
    BY <1>0, <2>1, <2>2 DEF Tenants!TypeOK, Steps
  <2>4. login'.owner = a /\ a # None
    BY <1>5, TenantsAssumption
  <2>5. Typed /\ Apart(r)
    BY <1>0, <1>1, <1>5, <2>4 DEF Typed, Apart, Tenants!TypeOK
  <2>6. UserFits'
    BY <1>0, <1>1, <1>5, <2>4 DEF UserFits
  <2>7. Progress(r)'
    BY <1>1, <1>2, <2>2, <2>3 DEF Progress, KindFits, Forward
  <2>8. ASSUME ~trouble' PROVE Accounted(r)' /\ Keeps(r)'
    <3>1. Accounted(r)'
      BY <1>1, <1>2, <1>4, <1>5, <2>2, <2>3, <2>8 DEF Accounted, Undoing
    <3>2. Keeps(r)'
      BY <2>2, <2>3, <2>4 DEF Keeps
    <3>3. QED
      BY <3>1, <3>2
  <2>9. QED
    BY <1>1, <2>3, <2>5, <2>6, <2>7, <2>8, RegistrationStep
\* Refused, or made without an answer.
<1>6. ASSUME Tenants!Go(r, "failed"),
             \/ trouble' = trouble /\ login' = login
             \/ /\ trouble' = TRUE /\ login.owner = None
                /\ login' \in [owner : Requests \cup {None}, confirmed : BOOLEAN]
      PROVE  TenancyInv'
  <2>1. MovesTo(r, "failed")
    BY <1>0, <1>6, GoMoves DEF Steplist
  <2>2. Steps(r) /\ Typed /\ Apart(r)
    <3>1. Steps(r)
      BY <2>1 DEF MovesTo
    <3>2. trouble' \in BOOLEAN /\ (trouble => trouble')
      <4>1. trouble \in BOOLEAN
        BY <1>0 DEF Tenants!TypeOK
      <4>2. trouble' = trouble \/ trouble' = TRUE
        BY <1>6
      <4>3. QED
        BY <4>1, <4>2, Zenon
    <3>3. login' \in [owner : Requests \cup {None}, confirmed : BOOLEAN]
      BY <1>0, <1>6 DEF Tenants!TypeOK
    <3>4. QED
      BY <1>0, <1>1, <3>1, <3>2, <3>3 DEF Typed, Apart, Tenants!TypeOK
  <2>3. UserFits'
    BY <1>0, <1>1, <1>6 DEF UserFits
  <2>4. Progress(r)'
    BY <1>0, <1>1, <1>2, <2>1 DEF Progress, KindFits, Forward, MovesTo
  <2>5. ASSUME ~trouble' PROVE Accounted(r)' /\ (login'.owner # None => \E q \in Requests : Keeps(q)')
    <3>1. Accounted(r)'
      BY <1>1, <1>2, <1>4, <1>6, <2>1, <2>5 DEF Accounted, MovesTo
    <3>2. QED
      BY <1>3, <1>6, <2>2, <2>5, <3>1, KeeperStays
  <2>6. QED
    BY <1>1, <2>2, <2>3, <2>4, <2>5, RegistrationStep
<1>7. \/ /\ login.owner = None
         /\ login' = [owner |-> r, confirmed |-> Tenants!Kind(r) = "university"]
         /\ \/ reg' = [reg EXCEPT ![r].at = "user", ![r].account = r] /\ UNCHANGED trouble
            \/ Tenants!Go(r, "failed") /\ trouble' = TRUE
      \/ /\ login.owner # None
         /\ reg' = [reg EXCEPT ![r].at = "user", ![r].account = login.owner]
         /\ UNCHANGED <<login, trouble>>
      \/ Tenants!Go(r, "failed") /\ UNCHANGED <<login, trouble>>
  BY DEF Tenants!CreateAccount
<1>8. CASE /\ login.owner = None
           /\ login' = [owner |-> r, confirmed |-> Tenants!Kind(r) = "university"]
  <2>1. /\ login'.confirmed \in BOOLEAN /\ login' = [owner |-> r, confirmed |-> login'.confirmed]
        /\ login' \in [owner : Requests \cup {None}, confirmed : BOOLEAN]
    BY <1>8
  <2>2. CASE reg' = [reg EXCEPT ![r].at = "user", ![r].account = r] /\ UNCHANGED trouble
    BY <1>8, <2>1, <2>2, <1>5
  <2>3. CASE Tenants!Go(r, "failed") /\ trouble' = TRUE
    BY <1>8, <2>1, <2>3, <1>6
  <2>4. CASE Tenants!Go(r, "failed") /\ UNCHANGED <<login, trouble>>
    BY <2>4, <1>6
  <2>5. QED
    BY <1>7, <1>8, <2>2, <2>3, <2>4
<1>9. CASE /\ login.owner # None
           /\ reg' = [reg EXCEPT ![r].at = "user", ![r].account = login.owner]
           /\ UNCHANGED <<login, trouble>>
  <2>1. login.owner \in Requests
    BY <1>0, <1>9 DEF Tenants!TypeOK
  <2>2. QED
    BY <1>5, <1>9, <2>1
<1>10. QED
  BY <1>6, <1>7, <1>8, <1>9

\* A call fails, with or without its effect: if the effect remains, that is trouble.
LEMMA FailureStep ==
  ASSUME TenancyInv, NEW r \in Requests,
         reg[r].at \in {"user"} \cup (Forward \ {"registered"}),
         Tenants!Go(r, Tenants!UndoFrom(r, "user")),
         Typed, Apart(r), deciding' = deciding,
         UserFits', login'.owner = login.owner,
         row'.by = r => row'.account = reg[r].account,
         \/ trouble'
         \/ row' = row /\ inst' = inst /\ rows' = rows
  PROVE  TenancyInv'
<1>0. Tenants!TypeOK /\ Progress(r)
  BY DEF TenancyInv
<1>1. PICK at \in Undoing : MovesTo(r, at) /\ (reg[r].user => at = "undo user")
  BY <1>0, FailureMoves
<1>2. reg[r].account \in Requests
  BY <1>0 DEF Progress, Forward
<1>3. Progress(r)'
  BY <1>1, <1>2 DEF Progress, KindFits, MovesTo, Forward, Undoing
<1>4. ASSUME ~trouble' PROVE Accounted(r)' /\ (login'.owner # None => \E q \in Requests : Keeps(q)')
  <2>1. Accounted(r) /\ row' = row /\ inst' = inst /\ rows' = rows
    BY <1>4 DEF TenancyInv, LeftoversInv, Apart
  <2>2. reg'[r].at = at /\ reg'[r].kind = reg[r].kind /\ reg'[r].tenant = reg[r].tenant
    BY <1>1 DEF MovesTo
  <2>3. rows[r] \subseteq {"grant"}
    BY <1>0 DEF Progress, Made, Forward
  <2>4. row.by = r => at = "undo user"
    <3>1. row.by = r => reg[r].at \in Forward
      BY <2>1 DEF Accounted, Undoing
    <3>2. QED
      BY <1>0, <1>1, <3>1 DEF Progress
  <2>5. inst.by = r => /\ reg[r].kind \in Tenants!Colleges /\ reg[r].tenant
                       /\ at = "undo user"
    <3>1. inst.by = r => /\ reg[r].kind \in Tenants!Colleges /\ reg[r].tenant
                         /\ reg[r].at \in Forward
      BY <2>1 DEF Accounted, Forward
    <3>2. QED
      BY <1>0, <1>1, <3>1 DEF Progress
  <2>6. Accounted(r)'
    BY <1>1, <2>1, <2>2, <2>3, <2>4, <2>5 DEF Accounted, Undoing
  <2>7. Keeps(r) => Keeps(r)'
    BY <1>1, <2>1 DEF Keeps, MovesTo
  <2>8. QED
    BY <1>1, <1>4, <2>6, <2>7, KeeperStays DEF MovesTo
<1>5. QED
  BY <1>1, <1>3, <1>4, RegistrationStep DEF MovesTo

LEMMA InsertUserStep ==
  ASSUME TenancyInv, NEW r \in Requests, Tenants!InsertUser(r)
  PROVE  TenancyInv'
<1>0. /\ Tenants!TypeOK /\ Progress(r) /\ UserFits
      /\ reg[r] \in Tenants!Registration /\ reg[r].kind \in Tenants!Kinds /\ r # None
      /\ trouble \in BOOLEAN
  BY TypesNow DEF TenancyInv, Tenants!TypeOK
<1>1. /\ reg[r].at = "user"
      /\ UNCHANGED <<login, org, inst, rows, join, deciding>>
  BY DEF Tenants!InsertUser, Tenants!Decisions, Tenants!At
<1>2. rows[r] = {} /\ reg[r].account \in Requests
  BY <1>0, <1>1 DEF Progress
<1>3. CASE Tenants!Failed(r) /\ row' = row
  <2>1. Typed /\ Apart(r) /\ UserFits'
    BY <1>0, <1>1, <1>3 DEF Typed, Apart, UserFits, Tenants!TypeOK, Tenants!Failed
  <2>2. row'.by = r => row'.account = reg[r].account
    BY <1>0, <1>3 DEF Progress
  <2>3. QED
    BY <1>1, <1>3, <2>1, <2>2, FailureStep DEF Tenants!Failed
<1>4. ASSUME row.by = None, login.owner = reg[r].account,
             row' = [by |-> r, account |-> reg[r].account]
      PROVE  /\ row'.by = r /\ row'.account = reg[r].account
             /\ row' \in [by : Requests \cup {None}, account : Requests \cup {None}]
             /\ UserFits'
  BY <1>0, <1>1, <1>2, <1>4, TenantsAssumption DEF UserFits
<1>5. CASE /\ row.by = None /\ login.owner = reg[r].account
           /\ row' = [by |-> r, account |-> reg[r].account]
           /\ Tenants!Answered(r, "user", [reg[r] EXCEPT !.user = TRUE])
  <2> DEFINE known == [reg[r] EXCEPT !.user = TRUE]
  <2>1. /\ known \in Tenants!Registration
        /\ known.kind = reg[r].kind /\ known.account = reg[r].account
        /\ known.tenant = reg[r].tenant /\ known.user
    BY <1>0 DEF Tenants!Registration
  <2>2. Tenants!Answered(r, "user", known)
    BY <1>5
  <2> HIDE DEF known
  <2> DEFINE at == Tenants!After(r, "user")
  <2>3. \/ reg[r].kind = "student" /\ at = "profile"
        \/ reg[r].kind = "member" /\ at = "membership"
        \/ reg[r].kind \in {"organization", "college", "university"} /\ at = "tenant"
    BY <1>0, AfterIs DEF Tenants!Kinds, Tenants!Kind
  <2>4. at \in Steplist
    BY <2>3 DEF Steplist
  <2>5. /\ Steps(r) /\ reg'[r].at = at
        /\ reg'[r].kind = reg[r].kind /\ reg'[r].account = reg[r].account
        /\ reg'[r].tenant = reg[r].tenant /\ reg'[r].user /\ trouble' = trouble
    BY <1>0, <2>1, <2>2, <2>4, AnsweredMoves
  <2> HIDE DEF at
  <2>6. Typed /\ Apart(r)
    BY <1>0, <1>1, <1>4, <1>5, <2>5 DEF Typed, Apart, Tenants!TypeOK
  <2>7. Progress(r)'
    <3>1. KindFits(reg'[r])
      BY <2>3, <2>5 DEF KindFits
    <3>2. rows'[r] = Made(reg'[r])
      BY <1>1, <1>2, <2>3, <2>5 DEF Made
    <3>3. QED
      BY <1>1, <1>2, <1>4, <1>5, <2>3, <2>5, <3>1, <3>2 DEF Progress, Forward, KindFits, Made
  <2>8. ASSUME ~trouble' PROVE Accounted(r)' /\ (login'.owner # None => \E q \in Requests : Keeps(q)')
    <3>1. Accounted(r)
      BY <2>5, <2>8 DEF TenancyInv, LeftoversInv
    <3>2. inst.by # r
      BY <1>1, <3>1 DEF Accounted
    <3>3. Accounted(r)'
      BY <1>1, <2>3, <2>5, <3>2 DEF Accounted, Forward, Undoing
    <3>4. Keeps(r) => Keeps(r)'
      BY <1>1, <2>3, <2>5 DEF Keeps, Forward
    <3>5. QED
      BY <1>1, <2>5, <2>6, <2>8, <3>3, <3>4, KeeperStays
  <2>9. QED
    BY <1>1, <1>4, <1>5, <2>5, <2>6, <2>7, <2>8, RegistrationStep
<1>6. CASE /\ row.by = None /\ login.owner = reg[r].account
           /\ row' = [by |-> r, account |-> reg[r].account]
           /\ Tenants!Unanswered(r)
  <2>1. trouble' = TRUE /\ Tenants!Go(r, Tenants!UndoFrom(r, "user"))
    BY <1>6 DEF Tenants!Unanswered
  <2>2. Typed /\ Apart(r)
    BY <1>0, <1>1, <1>4, <1>6, <2>1 DEF Typed, Apart, Tenants!TypeOK
  <2>3. QED
    BY <1>1, <1>4, <1>6, <2>1, <2>2, FailureStep
<1>7. QED
  BY <1>3, <1>5, <1>6 DEF Tenants!InsertUser

LEMMA InsertTenantStep ==
  ASSUME TenancyInv, NEW r \in Requests, Tenants!InsertTenant(r)
  PROVE  TenancyInv'
<1>0. /\ Tenants!TypeOK /\ Progress(r) /\ UserFits
      /\ reg[r] \in Tenants!Registration /\ reg[r].kind \in Tenants!Kinds /\ r # None
      /\ trouble \in BOOLEAN
  BY TypesNow DEF TenancyInv, Tenants!TypeOK
<1>1. /\ reg[r].at = "tenant"
      /\ UNCHANGED <<login, row, rows, join, deciding>>
  BY DEF Tenants!InsertTenant, Tenants!Decisions, Tenants!At
<1>2. /\ rows[r] = {} /\ reg[r].account \in Requests
      /\ row.by = r /\ reg[r].user /\ row.account = reg[r].account
      /\ reg[r].kind \in {"organization", "college", "university"}
  BY <1>0, <1>1 DEF Progress, Forward, Made, KindFits
<1>3. UserFits' /\ login'.owner = login.owner
  BY <1>0, <1>1 DEF UserFits
\* A row of its own, if the code is free.
<1>4. ASSUME org' \in Tenants!Tenants, inst' \in Tenants!Tenants,
             \/ /\ reg[r].kind = "organization" /\ org.by = None /\ org'.by = r /\ inst' = inst
             \/ /\ reg[r].kind \in Tenants!Colleges /\ inst.by = None /\ inst'.by = r /\ org' = org,
             Tenants!Answered(r, "tenant", [reg[r] EXCEPT !.tenant = TRUE])
      PROVE  TenancyInv'
  <2> DEFINE known == [reg[r] EXCEPT !.tenant = TRUE]
  <2>1. /\ known \in Tenants!Registration
        /\ known.kind = reg[r].kind /\ known.account = reg[r].account
        /\ known.tenant /\ known.user = reg[r].user
    BY <1>0 DEF Tenants!Registration
  <2>2. Tenants!Answered(r, "tenant", known)
    BY <1>4
  <2> HIDE DEF known
  <2>3. Tenants!After(r, "tenant") = "grant"
    BY <1>2, AfterIs DEF Tenants!Kind
  <2>4. /\ Steps(r) /\ reg'[r].at = "grant"
        /\ reg'[r].kind = reg[r].kind /\ reg'[r].account = reg[r].account
        /\ reg'[r].tenant /\ reg'[r].user /\ trouble' = trouble
    <3>1. Tenants!After(r, "tenant") \in Steplist
      BY <2>3 DEF Steplist
    <3>2. /\ Steps(r)
          /\ reg'[r].at = Tenants!After(r, "tenant")
          /\ reg'[r].kind = known.kind /\ reg'[r].account = known.account
          /\ reg'[r].user = known.user /\ reg'[r].tenant = known.tenant
          /\ trouble' = trouble
      BY <1>0, <2>1, <2>2, <3>1, AnsweredMoves
    <3>3. QED
      BY <1>2, <2>1, <2>3, <3>2
  <2>5. Typed /\ Apart(r)
    BY <1>0, <1>1, <1>4, <2>4 DEF Typed, Apart, Tenants!TypeOK
  <2>6. Progress(r)'
    <3>1. KindFits(reg'[r]) /\ rows'[r] = Made(reg'[r])
      BY <1>1, <1>2, <2>4 DEF KindFits, Made
    <3>2. reg[r].kind = "organization" => org'.by = r
      BY <1>4 DEF Tenants!Colleges
    <3>3. reg[r].kind \in Tenants!Colleges => inst'.by = r
      BY <1>4 DEF Tenants!Colleges
    <3>4. QED
      BY <1>1, <1>2, <2>4, <3>1, <3>2, <3>3 DEF Progress, KindFits, Made
  <2>7. ASSUME ~trouble' PROVE Accounted(r)' /\ (login'.owner # None => \E q \in Requests : Keeps(q)')
    <3>1. Accounted(r)
      BY <2>4, <2>7 DEF TenancyInv, LeftoversInv
    <3>2. inst'.by = r => reg[r].kind \in Tenants!Colleges
      BY <1>1, <1>4, <3>1 DEF Accounted
    <3>3. Accounted(r)'
      BY <1>1, <2>4, <3>2 DEF Accounted, Forward, Undoing
    <3>4. Keeps(r) => Keeps(r)'
      BY <1>1, <2>4 DEF Keeps, Forward
    <3>5. QED
      BY <1>1, <2>4, <2>5, <2>7, <3>3, <3>4, KeeperStays
  <2>8. QED
    BY <1>1, <1>3, <2>4, <2>5, <2>6, <2>7, RegistrationStep
<1>5. ASSUME org' \in Tenants!Tenants, inst' \in Tenants!Tenants,
             \/ org.by = None /\ inst' = inst
             \/ inst.by = None /\ inst'.by = r /\ org' = org,
             Tenants!Unanswered(r)
      PROVE  TenancyInv'
  <2>1. trouble' = TRUE /\ Tenants!Go(r, Tenants!UndoFrom(r, "user"))
    BY <1>5 DEF Tenants!Unanswered
  <2>2. Typed /\ Apart(r)
    BY <1>0, <1>1, <1>5, <2>1 DEF Typed, Apart, Tenants!TypeOK
  <2>3. QED
    BY <1>1, <1>2, <1>3, <2>1, <2>2, FailureStep DEF Forward
<1>6. CASE Tenants!Failed(r) /\ UNCHANGED <<org, inst>>
  <2>1. trouble' = trouble /\ Tenants!Go(r, Tenants!UndoFrom(r, "user"))
    BY <1>6 DEF Tenants!Failed
  <2>2. Typed /\ Apart(r)
    BY <1>0, <1>1, <1>6, <2>1 DEF Typed, Apart, Tenants!TypeOK
  <2>3. QED
    BY <1>1, <1>2, <1>3, <1>6, <2>1, <2>2, FailureStep DEF Forward
<1>7. ASSUME Tenants!Kind(r) = "organization", org.by = None,
             org' = [by |-> r, status |-> "pending"], inst' = inst,
             \/ Tenants!Answered(r, "tenant", [reg[r] EXCEPT !.tenant = TRUE])
             \/ Tenants!Unanswered(r)
      PROVE  TenancyInv'
  <2>1. org' \in Tenants!Tenants /\ org'.by = r /\ inst' \in Tenants!Tenants
    BY <1>0, <1>7 DEF Tenants!Tenants, Tenants!Statuses, Tenants!TypeOK
  <2>2. reg[r].kind = "organization"
    BY <1>7 DEF Tenants!Kind
  <2>3. QED
    BY <1>4, <1>5, <1>7, <2>1, <2>2
<1>8. ASSUME Tenants!Kind(r) \in Tenants!Colleges, inst.by = None, org' = org,
             inst' = [by |-> r,
                      status |-> IF Tenants!Kind(r) = "college" THEN "pending" ELSE "active"],
             \/ Tenants!Answered(r, "tenant", [reg[r] EXCEPT !.tenant = TRUE])
             \/ Tenants!Unanswered(r)
      PROVE  TenancyInv'
  <2>1. org' \in Tenants!Tenants /\ inst'.by = r /\ inst' \in Tenants!Tenants
    BY <1>0, <1>8 DEF Tenants!Tenants, Tenants!Statuses, Tenants!TypeOK
  <2>2. reg[r].kind \in Tenants!Colleges
    BY <1>8 DEF Tenants!Kind
  <2>3. QED
    BY <1>4, <1>5, <1>8, <2>1, <2>2
<1>9. QED
  BY <1>6, <1>7, <1>8 DEF Tenants!InsertTenant

LEMMA InsertDependentStep ==
  ASSUME TenancyInv, NEW r \in Requests, NEW dependent \in Tenants!Dependent,
         Tenants!InsertDependent(r, dependent)
  PROVE  TenancyInv'
<1>0. /\ Tenants!TypeOK /\ Progress(r) /\ UserFits
      /\ reg[r] \in Tenants!Registration /\ reg[r].kind \in Tenants!Kinds /\ r # None
      /\ trouble \in BOOLEAN
  BY TypesNow DEF TenancyInv, Tenants!TypeOK
<1>1. /\ reg[r].at = dependent
      /\ UNCHANGED <<login, row, org, inst, deciding>>
  BY DEF Tenants!InsertDependent, Tenants!Decisions, Tenants!At
<1>2. /\ reg[r].account \in Requests /\ dependent \in Forward \ {"registered"}
      /\ row.by = r /\ reg[r].user /\ row.account = reg[r].account
      /\ rows[r] = Made(reg[r]) /\ KindFits(reg[r])
  BY <1>0, <1>1 DEF Progress, Forward, Tenants!Dependent
<1>3. UserFits' /\ login'.owner = login.owner
  BY <1>0, <1>1 DEF UserFits
<1>4. CASE Tenants!Failed(r) /\ UNCHANGED <<rows, join>>
  <2>1. trouble' = trouble /\ Tenants!Go(r, Tenants!UndoFrom(r, "user"))
    BY <1>4 DEF Tenants!Failed
  <2>2. Typed /\ Apart(r)
    BY <1>0, <1>1, <1>4, <2>1 DEF Typed, Apart, Tenants!TypeOK
  <2>3. QED
    BY <1>1, <1>2, <1>3, <1>4, <2>1, <2>2, FailureStep
<1>5. ASSUME rows' = [rows EXCEPT ![r] = @ \cup {dependent}],
             join' = IF dependent = "join" THEN [Tenants!NoJoin EXCEPT !.status = "pending"] ELSE join
      PROVE  /\ rows' \in [Requests -> SUBSET Tenants!Dependent]
             /\ rows'[r] = rows[r] \cup {dependent}
             /\ \A q \in Requests \ {r} : rows'[q] = rows[q]
             /\ join' \in Tenants!JoinRequest
  <2>1. rows \in [Requests -> SUBSET Tenants!Dependent] /\ join \in Tenants!JoinRequest
    BY <1>0 DEF Tenants!TypeOK
  <2>2. [Tenants!NoJoin EXCEPT !.status = "pending"] \in Tenants!JoinRequest
    BY DEF Tenants!NoJoin, Tenants!JoinRequest
  <2>3. join' \in Tenants!JoinRequest
    BY <1>5, <2>1, <2>2
  <2>4. QED
    BY <1>5, <2>1, <2>3
<1>6. CASE /\ rows' = [rows EXCEPT ![r] = @ \cup {dependent}]
           /\ join' = IF dependent = "join" THEN [Tenants!NoJoin EXCEPT !.status = "pending"] ELSE join
           /\ Tenants!Unanswered(r)
  <2>1. trouble' = TRUE /\ Tenants!Go(r, Tenants!UndoFrom(r, "user"))
    BY <1>6 DEF Tenants!Unanswered
  <2>2. Typed /\ Apart(r)
    BY <1>0, <1>1, <1>5, <1>6, <2>1 DEF Typed, Apart, Tenants!TypeOK
  <2>3. QED
    BY <1>1, <1>2, <1>3, <2>1, <2>2, FailureStep
<1>7. CASE /\ rows' = [rows EXCEPT ![r] = @ \cup {dependent}]
           /\ join' = IF dependent = "join" THEN [Tenants!NoJoin EXCEPT !.status = "pending"] ELSE join
           /\ Tenants!Answered(r, dependent, reg[r])
  <2> DEFINE at == Tenants!After(r, dependent)
  <2>1. \/ dependent = "profile" /\ reg[r].kind = "student" /\ at = "registered"
        \/ dependent = "membership" /\ reg[r].kind = "member" /\ at = "registered"
        \/ dependent = "grant" /\ reg[r].kind \in {"organization", "university"} /\ at = "registered"
        \/ dependent = "grant" /\ reg[r].kind = "college" /\ at = "join"
        \/ dependent = "join" /\ reg[r].kind = "college" /\ at = "registered"
    BY <1>1, <1>2, AfterIs DEF Tenants!Dependent, KindFits, Tenants!Kind
  <2>2. at \in {"join", "registered"} /\ at \in Steplist /\ at \in Forward
    BY <2>1 DEF Steplist, Forward
  <2>3. /\ Steps(r) /\ reg'[r].at = at
        /\ reg'[r].kind = reg[r].kind /\ reg'[r].account = reg[r].account
        /\ reg'[r].tenant = reg[r].tenant /\ reg'[r].user = reg[r].user
        /\ trouble' = trouble
    BY <1>0, <1>7, <2>2, AnsweredMoves
  <2> HIDE DEF at
  <2>4. Typed /\ Apart(r)
    BY <1>0, <1>1, <1>5, <1>7, <2>3 DEF Typed, Apart, Tenants!TypeOK
  <2>5. rows'[r] = Made(reg'[r])
    <3>1. rows'[r] = Made(reg[r]) \cup {dependent}
      BY <1>2, <1>5, <1>7
    <3>2. CASE at = "join"
      <4>1. dependent = "grant"
        BY <2>1, <3>2
      <4>2. Made(reg[r]) = {} /\ Made(reg'[r]) = {"grant"}
        BY <1>1, <2>3, <3>2, <4>1 DEF Made
      <4>3. QED
        BY <3>1, <4>1, <4>2
    <3>3. CASE at = "registered"
      <4>1. Made(reg'[r]) = Tenants!Needs(reg[r].kind)
        BY <2>3, <3>3 DEF Made
      <4>2. CASE dependent = "join"
        <5>1. Made(reg[r]) = {"grant"} /\ reg[r].kind = "college"
          BY <1>1, <2>1, <4>2 DEF Made
        <5>2. QED
          BY <3>1, <4>1, <4>2, <5>1, NeedsAre
      <4>3. CASE dependent # "join"
        <5>1. Made(reg[r]) = {}
          BY <1>1, <2>1, <4>3 DEF Made
        <5>2. Tenants!Needs(reg[r].kind) = {dependent}
          BY <2>1, <3>3, <4>3, NeedsAre
        <5>3. QED
          BY <3>1, <4>1, <5>1, <5>2
      <4>4. QED
        BY <4>2, <4>3
    <3>4. QED
      BY <2>2, <3>2, <3>3
  <2>6. Progress(r)'
    <3>1. KindFits(reg'[r])
      BY <2>1, <2>2, <2>3 DEF KindFits
    <3>2. reg[r].kind = "organization" /\ at = "registered" => org.by = r
      BY <1>0, <1>1, <2>1 DEF Progress
    <3>3. reg[r].kind \in Tenants!Colleges => inst.by = r /\ reg[r].tenant
      <4>1. reg[r].kind \in Tenants!Colleges => dependent \in {"grant", "join"}
        BY <2>1 DEF Tenants!Colleges
      <4>2. QED
        BY <1>0, <1>1, <4>1 DEF Progress
    <3>4. QED
      BY <1>1, <1>2, <2>2, <2>3, <2>5, <3>1, <3>2, <3>3 DEF Progress
  <2>7. ASSUME ~trouble' PROVE Accounted(r)' /\ (login'.owner # None => \E q \in Requests : Keeps(q)')
    <3>1. Accounted(r)
      BY <2>3, <2>7 DEF TenancyInv, LeftoversInv
    <3>2. inst.by = r => reg[r].kind \in Tenants!Colleges /\ reg[r].tenant
      BY <3>1 DEF Accounted
    <3>3. Accounted(r)'
      BY <1>1, <2>2, <2>3, <3>2 DEF Accounted, Undoing
    <3>4. Keeps(r) => Keeps(r)'
      BY <1>1, <2>2, <2>3 DEF Keeps
    <3>5. QED
      BY <1>1, <2>3, <2>4, <2>7, <3>3, <3>4, KeeperStays
  <2>8. QED
    BY <1>1, <1>3, <2>3, <2>4, <2>6, <2>7, RegistrationStep
<1>8. QED
  BY <1>4, <1>6, <1>7 DEF Tenants!InsertDependent

LEMMA UndoUserStep ==
  ASSUME TenancyInv, NEW r \in Requests, Tenants!UndoUser(r)
  PROVE  TenancyInv'
<1>0. /\ Tenants!TypeOK /\ Progress(r) /\ UserFits /\ r # None /\ trouble \in BOOLEAN
  BY TypesNow DEF TenancyInv, Tenants!TypeOK
<1>1. /\ reg[r].at = "undo user"
      /\ UNCHANGED <<login, org, inst, join, deciding>>
      /\ Tenants!Go(r, Tenants!UndoFrom(r, "tenant"))
  BY DEF Tenants!UndoUser, Tenants!Decisions, Tenants!At, Tenants!Go
<1>2. reg[r].account \in Requests
  BY <1>0, <1>1 DEF Progress
<1> DEFINE at == Tenants!UndoFrom(r, "tenant")
<1>3. /\ at \in {"undo tenant", "undo account"}
      /\ reg[r].tenant /\ reg[r].kind \in Tenants!Colleges => at = "undo tenant"
  BY DEF Tenants!UndoFrom, Tenants!UndoFromTenant, Tenants!Kind
<1>4. at \in Steplist
  BY <1>3 DEF Steplist
<1> HIDE DEF at
<1>5. MovesTo(r, at)
  BY <1>0, <1>1, <1>4, GoMoves DEF at
\* The row was deleted, or stays.
<1>6. \/ row' = row /\ rows' = rows
      \/ /\ row.by = r /\ row' = Tenants!NoUser /\ rows' = [rows EXCEPT ![r] = {}]
  BY DEF Tenants!UndoUser, Tenants!UserDeletable
<1>7. trouble' = trouble \/ trouble' = TRUE
  BY DEF Tenants!UndoUser
<1>8. trouble' \in BOOLEAN /\ (trouble => trouble')
  BY <1>0, <1>7, Zenon
<1>9. CASE row' = row /\ rows' = rows
  <2>1. Typed /\ Apart(r) /\ UserFits'
    BY <1>0, <1>1, <1>8, <1>9 DEF Typed, Apart, UserFits, Tenants!TypeOK
  <2>2. Progress(r)'
    BY <1>0, <1>1, <1>2, <1>3, <1>5, <1>9 DEF Progress, KindFits, Forward, MovesTo
  <2>3. ASSUME ~trouble' PROVE Accounted(r)' /\ (login'.owner # None => \E q \in Requests : Keeps(q)')
    <3>1. Accounted(r)
      BY <1>8, <2>3 DEF TenancyInv, LeftoversInv
    <3>2. row.by = r => "grant" \in rows[r]
      <4>1. ~Tenants!UserDeletable(r) \/ row' = Tenants!NoUser
        BY <2>3 DEF Tenants!UndoUser
      <4>2. row.by = r => ~(rows[r] \subseteq {"profile"})
        BY <1>0, <1>9, <4>1 DEF Tenants!UserDeletable, Tenants!NoUser
      <4>3. rows[r] \subseteq {"grant"}
        BY <1>1, <3>1 DEF Accounted, Undoing
      <4>4. QED
        BY <4>2, <4>3
    <3>3. inst.by = r => at = "undo tenant"
      BY <1>3, <3>1 DEF Accounted
    <3>4. Accounted(r)'
      BY <1>1, <1>3, <1>5, <1>9, <3>1, <3>2, <3>3 DEF Accounted, Undoing, MovesTo
    <3>5. Keeps(r) => Keeps(r)'
      BY <1>1, <1>3, <1>5 DEF Keeps, MovesTo, Undoing
    <3>6. QED
      BY <1>1, <1>5, <2>1, <2>3, <3>4, <3>5, KeeperStays DEF MovesTo
  <2>4. QED
    BY <1>1, <1>5, <2>1, <2>2, <2>3, RegistrationStep DEF MovesTo
<1>10. CASE /\ row.by = r /\ row' = Tenants!NoUser /\ rows' = [rows EXCEPT ![r] = {}]
  <2>1. /\ rows' \in [Requests -> SUBSET Tenants!Dependent]
        /\ rows'[r] = {} /\ \A q \in Requests \ {r} : rows'[q] = rows[q]
        /\ row'.by = None /\ row'.account = None
        /\ row' \in [by : Requests \cup {None}, account : Requests \cup {None}]
    BY <1>0, <1>10 DEF Tenants!TypeOK, Tenants!NoUser
  <2>2. Typed /\ Apart(r) /\ UserFits'
    BY <1>0, <1>1, <1>8, <1>10, <2>1 DEF Typed, Apart, UserFits, Tenants!TypeOK
  <2>3. Progress(r)'
    BY <1>0, <1>2, <1>3, <1>5, <2>1 DEF Progress, KindFits, Forward, MovesTo
  <2>4. ASSUME ~trouble' PROVE Accounted(r)' /\ (login'.owner # None => \E q \in Requests : Keeps(q)')
    <3>1. Accounted(r)
      BY <1>8, <2>4 DEF TenancyInv, LeftoversInv
    <3>2. inst.by = r => at = "undo tenant"
      BY <1>3, <3>1 DEF Accounted
    <3>3. Accounted(r)'
      BY <1>0, <1>1, <1>3, <1>5, <2>1, <3>1, <3>2 DEF Accounted, Undoing, MovesTo
    <3>4. Keeps(r) => Keeps(r)'
      BY <1>1, <1>3, <1>5 DEF Keeps, MovesTo, Undoing
    <3>5. QED
      BY <1>1, <1>5, <2>2, <2>4, <3>3, <3>4, KeeperStays DEF MovesTo
  <2>5. QED
    BY <1>1, <1>5, <2>2, <2>3, <2>4, RegistrationStep DEF MovesTo
<1>11. QED
  BY <1>6, <1>9, <1>10

LEMMA UndoTenantStep ==
  ASSUME TenancyInv, NEW r \in Requests, Tenants!UndoTenant(r)
  PROVE  TenancyInv'
<1>0. /\ Tenants!TypeOK /\ Progress(r) /\ UserFits /\ r # None /\ trouble \in BOOLEAN
  BY TypesNow DEF TenancyInv, Tenants!TypeOK
<1>1. /\ reg[r].at = "undo tenant"
      /\ UNCHANGED <<login, row, org, rows, join, deciding>>
      /\ Tenants!Go(r, "undo account")
  BY DEF Tenants!UndoTenant, Tenants!Decisions, Tenants!At
<1>2. MovesTo(r, "undo account")
  BY <1>0, <1>1, GoMoves DEF Steplist
<1>3. trouble' = trouble \/ trouble' = TRUE
  BY DEF Tenants!UndoTenant
<1>4. trouble' \in BOOLEAN /\ (trouble => trouble')
  BY <1>0, <1>3, Zenon
<1>5. \/ inst' = inst
      \/ inst.by = r /\ inst' = Tenants!NoTenant
  BY DEF Tenants!UndoTenant
<1>6. /\ inst' \in Tenants!Tenants
      /\ inst'.by = inst.by \/ {inst.by, inst'.by} \subseteq {None, r}
  BY <1>0, <1>5 DEF Tenants!TypeOK, Tenants!Tenants, Tenants!Statuses, Tenants!NoTenant
<1>7. Typed /\ Apart(r) /\ UserFits'
  BY <1>0, <1>1, <1>4, <1>6 DEF Typed, Apart, UserFits, Tenants!TypeOK
<1>8. Progress(r)'
  BY <1>0, <1>1, <1>2 DEF Progress, KindFits, Forward, MovesTo
<1>9. ASSUME ~trouble' PROVE Accounted(r)' /\ (login'.owner # None => \E q \in Requests : Keeps(q)')
  <2>1. Accounted(r)
    BY <1>4, <1>9 DEF TenancyInv, LeftoversInv
  <2>2. "join" \notin rows[r]
    BY <1>1, <2>1 DEF Accounted, Undoing
  <2>3. inst'.by # r
    <3>1. inst' = IF inst.by = r /\ "join" \notin rows[r] THEN Tenants!NoTenant ELSE inst
      BY <1>9 DEF Tenants!UndoTenant
    <3>2. QED
      BY <1>0, <2>2, <3>1 DEF Tenants!NoTenant
  <2>4. Accounted(r)'
    BY <1>1, <1>2, <2>1, <2>3 DEF Accounted, Undoing, Forward, MovesTo
  <2>5. Keeps(r) => Keeps(r)'
    BY <1>1, <1>2 DEF Keeps, MovesTo, Undoing
  <2>6. QED
    BY <1>1, <1>2, <1>7, <1>9, <2>4, <2>5, KeeperStays DEF MovesTo
<1>10. QED
  BY <1>1, <1>2, <1>7, <1>8, <1>9, RegistrationStep DEF MovesTo

LEMMA UndoAccountStep ==
  ASSUME TenancyInv, NEW r \in Requests, Tenants!UndoAccount(r)
  PROVE  TenancyInv'
<1>0. /\ Tenants!TypeOK /\ Progress(r) /\ UserFits /\ r # None /\ trouble \in BOOLEAN
  BY TypesNow DEF TenancyInv, Tenants!TypeOK
<1>1. /\ reg[r].at = "undo account"
      /\ UNCHANGED <<row, org, inst, rows, join, deciding>>
      /\ Tenants!Go(r, "failed")
  BY DEF Tenants!UndoAccount, Tenants!Decisions, Tenants!At
<1>2. MovesTo(r, "failed")
  BY <1>0, <1>1, GoMoves DEF Steplist
<1>3. trouble' = trouble \/ trouble' = TRUE
  BY DEF Tenants!UndoAccount
<1>4. trouble' \in BOOLEAN /\ (trouble => trouble')
  BY <1>0, <1>3, Zenon
<1>5. \/ login' = login
      \/ Tenants!AccountDeletable(r) /\ login' = Tenants!NoAccount
  BY DEF Tenants!UndoAccount
<1>6. login' \in [owner : Requests \cup {None}, confirmed : BOOLEAN]
  <2>1. login \in [owner : Requests \cup {None}, confirmed : BOOLEAN]
    BY <1>0 DEF Tenants!TypeOK
  <2>2. Tenants!NoAccount \in [owner : Requests \cup {None}, confirmed : BOOLEAN]
    BY DEF Tenants!NoAccount
  <2>3. QED
    BY <1>5, <2>1, <2>2
<1>7. Typed /\ Apart(r)
  BY <1>0, <1>1, <1>4, <1>6 DEF Typed, Apart, Tenants!TypeOK
<1>8. UserFits'
  BY <1>0, <1>1, <1>5 DEF UserFits, Tenants!AccountDeletable
<1>9. Progress(r)'
  BY <1>0, <1>1, <1>2 DEF Progress, KindFits, Forward, MovesTo
<1>10. ASSUME ~trouble' PROVE Accounted(r)' /\ (login'.owner # None => \E q \in Requests : Keeps(q)')
  <2>1. /\ \A q \in Requests : Accounted(q) /\ Progress(q)
        /\ login.owner # None => \E q \in Requests : Keeps(q)
    BY <1>4, <1>10 DEF TenancyInv, LeftoversInv
  <2>2. Accounted(r)'
    BY <1>1, <1>2, <2>1 DEF Accounted, Undoing, Forward, MovesTo
  <2>3. ASSUME login'.owner # None PROVE \E q \in Requests : Keeps(q)'
    <3>1. ~Tenants!AccountDeletable(r)
      <4>1. login' = IF Tenants!AccountDeletable(r) THEN Tenants!NoAccount ELSE login
        BY <1>10, Zenon DEF Tenants!UndoAccount
      <4>2. QED
        BY <2>3, <4>1 DEF Tenants!NoAccount
    <3>2. login' = login
      BY <1>5, <3>1
    <3>3. CASE login.owner # reg[r].account
      BY <1>2, <1>7, <1>10, <2>3, <3>2, <3>3, KeeperStays DEF Keeps, MovesTo
    <3>4. CASE login.owner = reg[r].account
      <4>1. row.account = login.owner
        BY <3>1, <3>4 DEF Tenants!AccountDeletable
      <4>2. PICK q \in Requests : q = row.by
        BY <1>0, <2>3, <3>2, <4>1 DEF UserFits, Tenants!TypeOK
      <4>3. reg[q].account = login.owner
        BY <2>1, <4>1, <4>2 DEF Progress
      <4>4. reg[q].at \in Forward \cup Undoing \cup {"failed"}
        BY <2>1, <4>2 DEF Accounted, Undoing
      <4>5. CASE q = r
        BY <1>1, <1>2, <3>2, <4>2, <4>3, <4>5 DEF Keeps, MovesTo
      <4>6. CASE q # r
        <5>1. reg'[q] = reg[q]
          BY <1>2, <4>6 DEF MovesTo, Steps
        <5>2. Keeps(q)'
          BY <1>1, <3>2, <4>2, <4>3, <4>4, <5>1 DEF Keeps
        <5>3. QED
          BY <5>2
      <4>7. QED
        BY <4>5, <4>6
    <3>5. QED
      BY <3>3, <3>4
  <2>4. QED
    BY <2>2, <2>3
<1>11. QED
  BY <1>1, <1>2, <1>7, <1>8, <1>9, <1>10, RegistrationStep DEF MovesTo

LEMMA CrashStep ==
  ASSUME TenancyInv, NEW r \in Requests, Tenants!Crash(r)
  PROVE  TenancyInv'
<1>0. Tenants!TypeOK /\ Progress(r) /\ UserFits
  BY DEF TenancyInv
<1>1. /\ reg[r].at \notin {"idle", "registered", "failed", "lost"}
      /\ UNCHANGED <<login, row, org, inst, rows, join, deciding>>
      /\ trouble' = TRUE /\ Tenants!Go(r, "lost")
  BY DEF Tenants!Crash, Tenants!Decisions
<1>2. MovesTo(r, "lost")
  BY <1>0, <1>1, GoMoves DEF Steplist
<1>3. Typed /\ Apart(r) /\ UserFits'
  BY <1>0, <1>1 DEF Typed, Apart, UserFits, Tenants!TypeOK
<1>4. Progress(r)'
  BY <1>0, <1>1, <1>2 DEF Progress, KindFits, Forward, MovesTo
<1>5. QED
  BY <1>1, <1>2, <1>3, <1>4, RegistrationStep DEF MovesTo

\* Decisions and confirmations take nothing from a registration.
LEMMA QuietStep ==
  ASSUME TenancyInv, UNCHANGED <<row, rows, reg, trouble>>,
         login' \in [owner : Requests \cup {None}, confirmed : BOOLEAN],
         login'.owner = login.owner,
         org' \in Tenants!Tenants, org'.by = org.by,
         inst' \in Tenants!Tenants, inst'.by = inst.by,
         join' \in Tenants!JoinRequest,
         deciding' \in [Admins -> {None, "organization", "join"}
                                  \X {None, "active", "approved", "rejected"}],
         DecidingInv'
  PROVE  TenancyInv'
<1>1. Tenants!TypeOK'
  BY DEF TenancyInv, Tenants!TypeOK
<1>2. ASSUME NEW q \in Requests PROVE Progress(q)'
  <2>1. Progress(q)
    BY DEF TenancyInv
  <2>2. reg'[q] = reg[q] /\ rows'[q] = rows[q] /\ row' = row
    OBVIOUS
  <2>3. QED
    BY <2>1, <2>2 DEF Progress
<1>3. UserFits'
  BY DEF TenancyInv, UserFits
<1>4. ASSUME NEW q \in Requests
      PROVE  (Accounted(q) => Accounted(q)') /\ (Keeps(q) => Keeps(q)')
  <2>1. reg'[q] = reg[q] /\ rows'[q] = rows[q] /\ row' = row
    OBVIOUS
  <2>2. Accounted(q) => Accounted(q)'
    BY <2>1 DEF Accounted
  <2>3. Keeps(q) => Keeps(q)'
    BY <2>1 DEF Keeps
  <2>4. QED
    BY <2>2, <2>3
<1>5. LeftoversInv'
  BY <1>4 DEF TenancyInv, LeftoversInv
<1>6. QED
  BY <1>1, <1>2, <1>3, <1>5 DEF TenancyInv

LEMMA DecidingMoves ==
  ASSUME TenancyInv, NEW a \in Admins, NEW what, NEW status,
         \/ what = None /\ status = None
         \/ what = "organization" /\ status \in {"active", "rejected"}
         \/ what = "join" /\ status \in {"approved", "rejected"},
         deciding' = [deciding EXCEPT ![a] = <<what, status>>]
  PROVE  /\ deciding' \in [Admins -> {None, "organization", "join"}
                                     \X {None, "active", "approved", "rejected"}]
         /\ DecidingInv'
<1>1. deciding \in [Admins -> {None, "organization", "join"}
                              \X {None, "active", "approved", "rejected"}]
  BY DEF TenancyInv, Tenants!TypeOK
<1> DEFINE d == <<what, status>>
<1>2. /\ d \in {None, "organization", "join"} \X {None, "active", "approved", "rejected"}
      /\ d[1] = what /\ d[2] = status
      /\ deciding' = [deciding EXCEPT ![a] = d]
  OBVIOUS
<1> HIDE DEF d
<1>3. deciding' \in [Admins -> {None, "organization", "join"}
                              \X {None, "active", "approved", "rejected"}]
  BY <1>1, <1>2
<1>4. \A b \in Admins : deciding'[b] = IF b = a THEN d ELSE deciding[b]
  BY <1>1, <1>2
<1>5. DecidingInv'
  <2>1. SUFFICES ASSUME NEW b \in Admins
                 PROVE  /\ deciding'[b][1] = "organization" => deciding'[b][2] \in {"active", "rejected"}
                        /\ deciding'[b][1] = "join" => deciding'[b][2] \in {"approved", "rejected"}
    BY DEF DecidingInv
  <2>2. CASE b = a
    <3>1. deciding'[b][1] = what /\ deciding'[b][2] = status
      BY <1>2, <1>4, <2>2
    <3>2. QED
      BY <3>1, TenantsAssumption
  <2>3. CASE b # a
    <3>1. deciding'[b] = deciding[b]
      BY <1>4, <2>3
    <3>2. QED
      BY <3>1 DEF DecidingInv, TenancyInv
  <2>4. QED
    BY <2>2, <2>3
<1>6. QED
  BY <1>3, <1>5

LEMMA DecisionStep ==
  ASSUME TenancyInv, NEW a \in Admins, Tenants!Decide(a)
  PROVE  TenancyInv'
<1>0. /\ Tenants!TypeOK /\ DecidingInv
      /\ login \in [owner : Requests \cup {None}, confirmed : BOOLEAN]
      /\ org \in Tenants!Tenants /\ inst \in Tenants!Tenants /\ join \in Tenants!JoinRequest
  BY DEF TenancyInv, Tenants!TypeOK
<1>1. CASE \E status \in {"active", "rejected"} : Tenants!LookAtOrganization(a, status)
  <2>1. PICK status \in {"active", "rejected"} : Tenants!LookAtOrganization(a, status)
    BY <1>1
  <2>2. /\ deciding' = [deciding EXCEPT ![a] = <<"organization", status>>]
        /\ UNCHANGED <<org, inst, join, login, row, rows, reg, trouble>>
    BY <2>1 DEF Tenants!LookAtOrganization, Tenants!Registrations
  <2>3. QED
    BY <1>0, <2>2, DecidingMoves, QuietStep
<1>2. CASE \E status \in {"approved", "rejected"} : Tenants!LookAtJoin(a, status)
  <2>1. PICK status \in {"approved", "rejected"} : Tenants!LookAtJoin(a, status)
    BY <1>2
  <2>2. /\ deciding' = [deciding EXCEPT ![a] = <<"join", status>>]
        /\ UNCHANGED <<org, inst, join, login, row, rows, reg, trouble>>
    BY <2>1 DEF Tenants!LookAtJoin, Tenants!Registrations
  <2>3. QED
    BY <1>0, <2>2, DecidingMoves, QuietStep
<1>3. CASE Tenants!DecideOrganization(a)
  <2>1. /\ deciding[a][2] \in {"active", "rejected"}
        /\ org' = [org EXCEPT !.status = deciding[a][2]]
        /\ deciding' = [deciding EXCEPT ![a] = <<None, None>>]
        /\ UNCHANGED <<inst, join, login, row, rows, reg, trouble>>
    BY <1>0, <1>3 DEF Tenants!DecideOrganization, Tenants!Registrations, DecidingInv
  <2>2. org' \in Tenants!Tenants /\ org'.by = org.by
    BY <1>0, <2>1 DEF Tenants!Tenants, Tenants!Statuses
  <2>3. QED
    BY <1>0, <2>1, <2>2, DecidingMoves, QuietStep
<1>4. CASE Tenants!DecideJoin(a)
  <2> DEFINE status == deciding[a][2]
             decided == [join EXCEPT !.status = status]
  <2>1. /\ status \in {"approved", "rejected"}
        /\ deciding' = [deciding EXCEPT ![a] = <<None, None>>]
        /\ UNCHANGED <<org, login, row, rows, reg, trouble>>
    BY <1>0, <1>4 DEF Tenants!DecideJoin, Tenants!Registrations, DecidingInv
  <2>2. \/ /\ join' = decided
           /\ inst' = [inst EXCEPT !.status = IF status = "approved" THEN "active" ELSE status]
        \/ UNCHANGED <<inst, join>>
    BY <1>4 DEF Tenants!DecideJoin
  <2> HIDE DEF status
  <2>3. decided \in Tenants!JoinRequest
    BY <1>0, <2>1 DEF Tenants!JoinRequest
  <2>4. join' \in Tenants!JoinRequest /\ inst' \in Tenants!Tenants /\ inst'.by = inst.by
    BY <1>0, <2>1, <2>2, <2>3 DEF Tenants!Tenants, Tenants!Statuses
  <2>5. QED
    BY <1>0, <2>1, <2>4, DecidingMoves, QuietStep
<1>5. QED
  BY <1>1, <1>2, <1>3, <1>4 DEF Tenants!Decide

LEMMA ConfirmStep ==
  ASSUME TenancyInv, Tenants!ConfirmAddress
  PROVE  TenancyInv'
<1>1. /\ Tenants!TypeOK /\ DecidingInv
      /\ UNCHANGED <<row, org, inst, rows, join, reg, trouble, deciding>>
      /\ login' = [login EXCEPT !.confirmed = TRUE]
  BY DEF TenancyInv, Tenants!ConfirmAddress, Tenants!Decisions
<1>2. /\ login' \in [owner : Requests \cup {None}, confirmed : BOOLEAN]
      /\ login'.owner = login.owner
  BY <1>1 DEF Tenants!TypeOK
<1>3. QED
  BY <1>1, <1>2, QuietStep DEF Tenants!TypeOK, DecidingInv

LEMMA LifecycleStep ==
  ASSUME TenancyInv, NEW status \in {"active", "suspended"}, Tenants!SetLifecycle(status)
  PROVE  TenancyInv'
<1>1. /\ Tenants!TypeOK /\ DecidingInv
      /\ UNCHANGED <<login, row, org, rows, join, reg, trouble, deciding>>
      /\ inst' = [inst EXCEPT !.status = status]
  BY DEF TenancyInv, Tenants!SetLifecycle, Tenants!Decisions, Tenants!Registrations
<1>2. inst' \in Tenants!Tenants /\ inst'.by = inst.by
  BY <1>1 DEF Tenants!TypeOK, Tenants!Tenants, Tenants!Statuses
<1>3. QED
  BY <1>1, <1>2, QuietStep DEF Tenants!TypeOK, DecidingInv

LEMMA TenancyInit ==
  ASSUME Tenants!Init
  PROVE  TenancyInv
<1> USE DEF Tenants!Init
<1>1. Tenants!TypeOK
  <2>1. Tenants!NoAccount \in [owner : Requests \cup {None}, confirmed : BOOLEAN]
    BY DEF Tenants!NoAccount
  <2>2. Tenants!NoUser \in [by : Requests \cup {None}, account : Requests \cup {None}]
    BY DEF Tenants!NoUser
  <2>3. Tenants!NoTenant \in Tenants!Tenants
    BY DEF Tenants!NoTenant, Tenants!Tenants, Tenants!Statuses
  <2>4. Tenants!NoJoin \in Tenants!JoinRequest
    BY DEF Tenants!NoJoin, Tenants!JoinRequest
  <2>5. [kind |-> "student", at |-> "idle", account |-> None, user |-> FALSE, tenant |-> FALSE]
          \in Tenants!Registration
    BY DEF Tenants!Registration, Tenants!Kinds
  <2>6. QED
    BY <2>1, <2>2, <2>3, <2>4, <2>5 DEF Tenants!TypeOK
<1>2. DecidingInv
  BY TenantsAssumption DEF DecidingInv
<1>3. /\ login.owner = None /\ row.by = None /\ row.account = None
      /\ org.by = None /\ inst.by = None
  BY DEF Tenants!NoAccount, Tenants!NoUser, Tenants!NoTenant
<1>4. \A r \in Requests : reg[r].at = "idle" /\ rows[r] = {} /\ r # None
  BY TenantsAssumption
<1> HIDE DEF Tenants!Init
<1>5. \A r \in Requests : Progress(r)
  BY <1>3, <1>4 DEF Progress, KindFits, Forward
<1>6. UserFits
  BY <1>3 DEF UserFits
<1>7. LeftoversInv
  BY <1>3, <1>4 DEF LeftoversInv, Accounted, Undoing
<1>8. QED
  BY <1>1, <1>2, <1>5, <1>6, <1>7 DEF TenancyInv

LEMMA TenancyStep ==
  ASSUME TenancyInv, [Tenants!Next]_(Tenants!vars)
  PROVE  TenancyInv'
<1>1. ASSUME NEW r \in Requests, Tenants!Register(r) \/ Tenants!Crash(r) PROVE TenancyInv'
  BY <1>1, BeginStep, CreateAccountStep, InsertUserStep, InsertTenantStep, InsertDependentStep,
     UndoUserStep, UndoTenantStep, UndoAccountStep, CrashStep DEF Tenants!Register
<1>2. CASE UNCHANGED Tenants!vars
  <2>1. UNCHANGED <<login, row, org, inst, rows, join, reg, deciding, trouble>>
    BY <1>2 DEF Tenants!vars
  <2>2. QED
    BY <2>1, QuietStep DEF TenancyInv, Tenants!TypeOK, DecidingInv
<1>3. QED
  BY <1>1, <1>2, ConfirmStep, DecisionStep, LifecycleStep DEF Tenants!Next

\* Every registration that goes on has what it made, whoever registers the address or
\* the code at the same time, and what is left of the others will be taken back.
THEOREM TenancyInvariance == Tenants!Spec => []TenancyInv
<1>1. Tenants!Init => TenancyInv
  BY TenancyInit
<1>2. TenancyInv /\ [Tenants!Next]_(Tenants!vars) => TenancyInv'
  BY TenancyStep
<1>3. QED
  BY <1>1, <1>2, PTL DEF Tenants!Spec

\* What a registration was told stays: the compensation of another one takes neither
\* its account nor its user row nor its tenant.
THEOREM RegistrationsStay == Tenants!Spec => []RegisteredStays
<1>1. TenancyInv => RegisteredStays
  <2> SUFFICES ASSUME TenancyInv, NEW r \in Requests, Tenants!At(r, "registered")
               PROVE  /\ login.owner = reg[r].account
                      /\ row = [by |-> r, account |-> reg[r].account]
                      /\ rows[r] = Tenants!Needs(Tenants!Kind(r))
                      /\ Tenants!Kind(r) = "organization" => org.by = r
                      /\ Tenants!Kind(r) \in Tenants!Colleges => inst.by = r
    BY DEF RegisteredStays, Tenants!RegisteredStays
  <2>1. reg[r].at = "registered" /\ Progress(r) /\ UserFits /\ Tenants!TypeOK /\ r # None
    BY TenantsAssumption DEF Tenants!At, TenancyInv
  <2>2. /\ row.by = r /\ row.account = reg[r].account
        /\ rows[r] = Tenants!Needs(reg[r].kind)
    BY <2>1 DEF Progress, Forward, Made
  <2>3. row = [by |-> r, account |-> reg[r].account]
    BY <2>1, <2>2 DEF Tenants!TypeOK
  <2>4. login.owner = reg[r].account
    BY <2>1, <2>2 DEF UserFits
  <2>5. /\ reg[r].kind = "organization" => org.by = r
        /\ reg[r].kind \in Tenants!Colleges => inst.by = r
    BY <2>1 DEF Progress
  <2>6. QED
    BY <2>2, <2>3, <2>4, <2>5 DEF Tenants!Kind
<1>2. QED
  BY <1>1, TenancyInvariance, PTL

\* Refused registrations leave nothing behind if none of their calls was uncertain and
\* none of them had inserted its role grant: the compensation that another registration's
\* row prevented is that registration's to keep.  After the grant (the insert of the join
\* request fails) its foreign keys keep the user row and the account, and nothing is said.
THEOREM FailuresLeaveNothing == Tenants!Spec => []FailureLeavesNothing
<1>1. TenancyInv => FailureLeavesNothing
  <2> SUFFICES ASSUME TenancyInv, ~trouble,
                      \A r \in Requests : /\ reg[r].at \in {"idle", "registered", "failed"}
                                          /\ Tenants!At(r, "failed") => "grant" \notin rows[r]
               PROVE  /\ login.owner # None => \E r \in Requests : Tenants!At(r, "registered")
                      /\ row.by # None => Tenants!At(row.by, "registered")
                      /\ inst.by # None => Tenants!At(inst.by, "registered")
    BY DEF FailureLeavesNothing, Tenants!FailureLeavesNothing
  <2>1. /\ \A r \in Requests : Accounted(r) /\ Progress(r)
        /\ login.owner # None => \E r \in Requests : Keeps(r)
        /\ row.by \in Requests \cup {None} /\ inst.by \in Requests \cup {None}
    BY DEF TenancyInv, LeftoversInv, Tenants!TypeOK, Tenants!Tenants
  <2>2. \A r \in Requests : row.by = r => reg[r].at = "registered"
    BY <2>1 DEF Accounted, Forward, Tenants!At
  <2>3. \A r \in Requests : inst.by = r => reg[r].at = "registered"
    BY <2>1 DEF Accounted
  <2>4. login.owner # None => \E r \in Requests : reg[r].at = "registered"
    BY <2>1, <2>2 DEF Keeps, Forward, Undoing
  <2>5. QED
    BY <2>1, <2>2, <2>3, <2>4 DEF Tenants!At
<1>2. QED
  BY <1>1, TenancyInvariance, PTL

--------------------------------------------------------------------------------
(* Invitations of students: the theorems of StudentOnboardingProofs hold of   *)
(* them; Students and Proven instantiate one module with the same constants  *)

Proven == INSTANCE StudentOnboardingProofs WITH Invites <- Enrolled, MaxTokens <- MaxLinks

LEMMA SameTypes == Students!TypeOK <=> Proven!TypeOK
  BY DEF Students!TypeOK, Proven!TypeOK, Students!Row, Proven!Row, Students!Links, Proven!Links,
         Students!Sending, Proven!Sending, Students!Setup, Proven!Setup,
         Students!Stranger, Proven!Stranger

LEMMA SameNext == Students!Next <=> Proven!Next
  BY DEF Students!AddressFree, Proven!AddressFree, Students!Rotated, Proven!Rotated,
         Students!CurrentLink, Proven!CurrentLink, Students!Issue, Proven!Issue,
         Students!Create, Proven!Create, Students!Resend, Proven!Resend, Students!Edit,
         Proven!Edit, Students!Cancel, Proven!Cancel, Students!Expire, Proven!Expire,
         Students!Send, Proven!Send, Students!RecordDelivery, Proven!RecordDelivery,
         Students!SenderLost, Proven!SenderLost, Students!Usable, Proven!Usable,
         Students!Fits, Proven!Fits, Students!Provisioned, Proven!Provisioned,
         Students!Leave, Proven!Leave, Students!Proceed, Proven!Proceed, Students!Open,
         Proven!Open, Students!Claim, Proven!Claim, Students!UpdateAccount,
         Proven!UpdateAccount, Students!CreateAccount, Proven!CreateAccount,
         Students!Release, Proven!Release, Students!RecordAccount, Proven!RecordAccount,
         Students!Complete, Proven!Complete, Students!VisitLost, Proven!VisitLost,
         Students!Register, Proven!Register, Students!Administrator,
         Proven!Administrator, Students!Student, Proven!Student, Students!Next,
         Proven!Next, Students!Stranger, Proven!Stranger

LEMMA SameSpec == Students!Spec <=> Proven!Spec
<1>1. Students!Init <=> Proven!Init
  BY DEF Students!Init, Proven!Init, Students!NoRow, Proven!NoRow
<1>2. [Students!Next]_(Students!vars) <=> [Proven!Next]_(Proven!vars)
  BY SameNext DEF Students!vars, Proven!vars
<1>3. QED
  BY <1>1, <1>2, PTL DEF Students!Spec, Proven!Spec

LEMMA SameDistinct == Proven!Distinct
  BY StudentsAssumption DEF Students!Distinct, Proven!Distinct, Students!Stranger, Proven!Stranger

LEMMA StudentTypes == Students!Spec => []Students!TypeOK
  BY SameSpec, SameTypes, SameDistinct, Proven!OnboardingTypes, PTL

\* SentIsCurrent: an invitation of a student that shows as sent was sent the link it has
\* now, to the address it has now.
THEOREM SentLinksAreCurrent == Students!Spec => []SentIsCurrent
<1>1. SentIsCurrent <=> Proven!SentIsCurrent
  BY DEF SentIsCurrent, Students!SentIsCurrent, Proven!SentIsCurrent,
         Students!CurrentLink, Proven!CurrentLink
<1>2. QED
  BY <1>1, SameSpec, SameDistinct, Proven!SentLinksAreCurrent, PTL

\* AcceptedFits: an accepted invitation of a student belongs to the account that was made
\* for it at its address.
THEOREM AcceptedAccountsFit == Students!Spec => []AcceptedFits
<1>1. AcceptedFits <=> Proven!AcceptedFits
  BY DEF AcceptedFits, Students!AcceptedFits, Proven!AcceptedFits
<1>2. QED
  BY <1>1, SameSpec, SameDistinct, Proven!AcceptedAccountsFit, PTL

--------------------------------------------------------------------------------
(* All parts                                                                  *)

\* Every part keeps its types, whatever the others do: they share nothing.
THEOREM AccountTypes ==
  Spec /\ Students!Spec /\ Tenants!Spec /\ Limiter!Spec => []TypesOK
<1>1. TypeOK /\ Students!TypeOK /\ TenancyInv /\ WindowInv => TypesOK
  BY DEF TenancyInv, WindowInv, TypesOK
<1>2. QED
  BY <1>1, InvitationTypes, StudentTypes, TenancyInvariance, LimiterInvariance, PTL

================================================================================
