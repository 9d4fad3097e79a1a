----------------------------- MODULE Admission -----------------------------
(***************************************************************************)
(* What the process-wide limiter promises: there is one published limit    *)
(* with one balance, every request is decided once and in one step against *)
(* the limit published at that step, publication installs a full balance   *)
(* in one step, and the arithmetic is exact.  No pointer, no retry loop,   *)
(* no saturation.                                                          *)
(***************************************************************************)
EXTENDS Integers

CONSTANTS Requests, NanotokensPerToken

VARIABLES clock,    \* the monotonic clock
          limit,    \* the published limit; rate 0 when there is none
          balance,  \* nanotokens available at time `since`
          since,    \* the clock sample of the last refill
          verdict   \* the decision on each request

vars == <<clock, limit, balance, since, verdict>>

Capacity == limit.burst * NanotokensPerToken

\* What the limit has restored by time t.
Available(t) ==
    LET refilled == balance + limit.rate * (t - since)
    IN  IF refilled > Capacity THEN Capacity ELSE refilled

Init == /\ clock = 0
        /\ limit.rate = 0 /\ limit.burst = 0
        /\ balance = 0
        /\ since = 0
        /\ verdict = [r \in Requests |-> "none"]

Advance == /\ clock' = clock + 1
           /\ UNCHANGED <<limit, balance, since, verdict>>

\* A new limit starts with a full balance at a sample already taken.
Publish == /\ balance' = limit'.burst * NanotokensPerToken
           /\ since' \in 0 .. clock
           /\ UNCHANGED <<clock, verdict>>

AdmitUnlimited(r) == /\ verdict[r] = "none"
                     /\ limit.rate = 0
                     /\ verdict' = [verdict EXCEPT ![r] = "admitted"]
                     /\ UNCHANGED <<clock, limit, balance, since>>

\* The sample is never earlier than the one before it.
Decide(r, t) ==
    /\ verdict[r] = "none"
    /\ limit.rate # 0
    /\ since' = t
    /\ IF Available(t) >= NanotokensPerToken
       THEN /\ balance' = Available(t) - NanotokensPerToken
            /\ verdict' = [verdict EXCEPT ![r] = "admitted"]
       ELSE /\ balance' = Available(t)
            /\ verdict' = [verdict EXCEPT ![r] = "rejected"]
    /\ UNCHANGED <<clock, limit>>

Next == \/ Advance
        \/ Publish
        \/ \E r \in Requests : AdmitUnlimited(r)
        \/ \E r \in Requests : \E t \in since .. clock : Decide(r, t)

Spec == Init /\ [][Next]_vars
=============================================================================
