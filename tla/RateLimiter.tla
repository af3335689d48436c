------------------------------ MODULE RateLimiter ------------------------------
(***************************************************************************)
(* SlidingWindowRateLimiter: the one primitive behind the budgets of public *)
(* chat, of invitations and of authentication.  A request is charged in     *)
(* several scopes at once (its address, its institution, everybody) or in   *)
(* none; a refused one is told when to come back.                           *)
(*                                                                         *)
(* The clock is read before the lock is taken, so requests are not charged  *)
(* in the order of their times, and the deque of a scope need not be        *)
(* sorted.                                                                  *)
(***************************************************************************)
EXTENDS Naturals, Sequences, FiniteSets

CONSTANTS Requests,  \* requests; each is made at most once
          Scopes,    \* pairs of a scope and an identity, with a budget each
          Charges,   \* the sets of scopes that one request may be charged in
          Limit,     \* [Scopes -> requests that a window admits, at least one]
          Window,    \* length of the window in ticks
          MaxTime    \* bound: the last tick

VARIABLES clock,     \* time.monotonic
          events,    \* [Scopes -> deque of the times at which it was charged]
          req,       \* [Requests -> the request]
          charged,   \* history: [Scopes -> all requests ever charged in it]
          straggler, \* history: a request was checked after one with a later time
          since      \* history: [Requests -> someone was charged after its refusal]

vars == <<clock, events, req, charged, straggler, since>>

--------------------------------------------------------------------------------

Times == 0..MaxTime

Request == [at : {"idle", "lock", "admitted", "refused"}, scopes : SUBSET Scopes,
            now : Times, retry : Nat]

TypeOK == /\ clock \in Times
          /\ events \in [Scopes -> Seq(Times)]
          /\ req \in [Requests -> Request]
          /\ charged \in [Scopes -> SUBSET Requests]
          /\ straggler \in BOOLEAN
          /\ since \in [Requests -> BOOLEAN]

Init == /\ clock = 0
        /\ events = [s \in Scopes |-> <<>>]
        /\ req = [r \in Requests |-> [at |-> "idle", scopes |-> {}, now |-> 0, retry |-> 0]]
        /\ charged = [s \in Scopes |-> {}]
        /\ straggler = FALSE
        /\ since = [r \in Requests |-> FALSE]

--------------------------------------------------------------------------------

\* Expired times are dropped from the front until one is not.
Swept(times, now) ==
    LET kept == {i \in DOMAIN times : times[i] + Window > now}
        from == IF kept = {} THEN Len(times) + 1
                ELSE CHOOSE i \in kept : \A j \in kept : i <= j
    IN SubSeq(times, from, Len(times))

\* One more than the budget.
FullLate(times, s) == Len(times) > Limit[s]

Full(times, s) == Len(times) >= Limit[s]

\* The wait rounded down.
WaitShort(times, now) == IF times[1] + Window > now + 1 THEN times[1] + Window - now - 1 ELSE 0

\* When the oldest charge of a full scope leaves the window, but at least a tick.
Wait(times, now) == IF times[1] + Window > now + 1 THEN times[1] + Window - now ELSE 1

Tick == /\ clock < MaxTime
        /\ clock' = clock + 1
        /\ UNCHANGED <<events, req, charged, straggler, since>>

\* The time is read, the lock not yet taken.
Arrive(r, scopes) ==
    /\ req[r].at = "idle"
    /\ req' = [req EXCEPT ![r] = [@ EXCEPT !.at = "lock", !.scopes = scopes, !.now = clock]]
    /\ UNCHANGED <<clock, events, charged, straggler, since>>

Late(r) == \E q \in Requests : req[q].at \in {"admitted", "refused"} /\ req[q].now > req[r].now

\* Under the lock: the deques of all identities are swept, then every scope is
\* charged, or none if one of them is full.
Check(r) ==
    /\ req[r].at = "lock"
    /\ LET now   == req[r].now
           swept == [s \in Scopes |-> Swept(events[s], now)]
           full  == {s \in req[r].scopes : Full(swept[s], s)}
       IN IF full = {}
          THEN /\ events' = [s \in Scopes |-> IF s \in req[r].scopes THEN Append(swept[s], now)
                                              ELSE swept[s]]
               /\ charged' = [s \in Scopes |-> IF s \in req[r].scopes THEN charged[s] \cup {r}
                                               ELSE charged[s]]
               /\ since' = [q \in Requests |-> since[q] \/ req[q].at = "refused"]
               /\ req' = [req EXCEPT ![r].at = "admitted"]
          ELSE /\ events' = swept
               /\ \E s \in full :
                     /\ \A t \in full : Wait(swept[t], now) <= Wait(swept[s], now)
                     /\ req' = [req EXCEPT ![r] = [@ EXCEPT !.at = "refused",
                                                      !.retry = Wait(swept[s], now)]]
               /\ UNCHANGED <<charged, since>>
    /\ straggler' = (straggler \/ Late(r))
    /\ UNCHANGED clock

Next == \/ Tick
        \/ \E r \in Requests : \/ \E scopes \in Charges : Arrive(r, scopes)
                               \/ Check(r)

Spec == Init /\ [][Next]_vars

--------------------------------------------------------------------------------
(* Properties *)

\* As long as requests are checked in the order of their times, no window of any
\* scope admits more than the budget of the scope, wherever the window is laid.
WindowKept ==
    ~straggler =>
        \A s \in Scopes, t \in Times :
            Cardinality({r \in charged[s] : t < req[r].now + Window /\ req[r].now <= t})
                <= Limit[s]

\* Whoever comes back when it was told to is admitted, unless others were charged
\* in between; not even requests that were checked late prolong the wait.
RetryIsEnough ==
    \A r \in Requests :
        req[r].at = "refused" /\ ~since[r] =>
            \A s \in req[r].scopes : ~Full(Swept(events[s], req[r].now + req[r].retry), s)
================================================================================
