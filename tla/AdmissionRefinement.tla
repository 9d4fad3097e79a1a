------------------------ MODULE AdmissionRefinement ------------------------
(***************************************************************************)
(* Runtime implements Admission: every step of Runtime is, seen through    *)
(* the published limit, its bucket and the verdicts, a step of the atomic  *)
(* limiter or no step at all.                                              *)
(***************************************************************************)
EXTENDS RuntimeProofs

Verdicts == [r \in Requests |-> Verdict(r)]

\* The variables of Admission, as Runtime implements them.
Observed == <<clock, current.router.limit, current.bucket.tokens, current.bucket.last,
              Verdicts>>

\* A request step that keeps the verdict of its request keeps all verdicts.
LEMMA VerdictsKept ==
    ASSUME IInv, NEW r \in Requests, RequestStep(r), Verdict(r)' = Verdict(r)
    PROVE  Verdicts' = Verdicts
<1>1. ASSUME NEW q \in Requests, q # r PROVE Verdict(q)' = Verdict(q)
  <2>1. pc'[q] = pc[q] /\ outcome'[q] = outcome[q]
    BY <1>1 DEF RequestStep, Begin, Identify, Admit, Retry, LoadLatest, Reserve,
                CompareAndSwap, Decided, Finish, IInv, TypeOK
  <2> QED
    BY <2>1 DEF Verdict
<1>2. \A q \in Requests : Verdict(q)' = Verdict(q)
  BY <1>1
<1> QED
  BY <1>2, Zenon DEF Verdicts

\* A request step that gives its request a verdict changes no other verdict.
LEMMA VerdictGiven ==
    ASSUME IInv, NEW r \in Requests, RequestStep(r), NEW v, Verdict(r)' = v
    PROVE  Verdicts' = [Verdicts EXCEPT ![r] = v]
<1>1. ASSUME NEW q \in Requests, q # r PROVE Verdict(q)' = Verdict(q)
  <2>1. pc'[q] = pc[q] /\ outcome'[q] = outcome[q]
    BY <1>1 DEF RequestStep, Begin, Identify, Admit, Retry, LoadLatest, Reserve,
                CompareAndSwap, Decided, Finish, IInv, TypeOK
  <2> QED
    BY <2>1 DEF Verdict
<1>2. [Verdicts EXCEPT ![r] = v] = [q \in Requests |-> IF q = r THEN v ELSE Verdict(q)]
  BY DEF Verdicts
<1>3. \A q \in Requests : Verdict(q)' = IF q = r THEN v ELSE Verdict(q)
  BY <1>1
<1> QED
  BY <1>2, <1>3, Zenon DEF Verdicts

\* The initial states of Runtime show an unlimited limiter and no verdict.
LEMMA RefineInit == Init => Atomic!Init
<1> SUFFICES ASSUME Init PROVE Atomic!Init
  OBVIOUS
<1>1. \A r \in Requests : Verdict(r) = "none"
  BY DEF Init, Verdict
<1>2. Verdicts = [r \in Requests |-> "none"]
  BY <1>1, Zenon DEF Verdicts
<1>3. /\ clock = 0 /\ current.router.limit.rate = 0 /\ current.router.limit.burst = 0
      /\ current.bucket.tokens = 0 /\ current.bucket.last = 0
  BY NilGenerationType DEF Init, NoLimit
<1> QED
  BY <1>2, <1>3 DEF Atomic!Init, Verdicts

\* A step that leaves the clock, the published generation and the requests'
\* places alone is no step of Admission.
LEMMA Unobserved ==
    ASSUME UNCHANGED <<clock, current, pc, outcome>>
    PROVE  Observed' = Observed
<1>1. \A r \in Requests : Verdict(r)' = Verdict(r)
  BY DEF Verdict
<1>2. Verdicts' = Verdicts
  BY <1>1, Zenon DEF Verdicts
<1> QED
  BY <1>2 DEF Observed

\* A publication installs a full balance at a sample already taken.
LEMMA RefinePublish ==
    ASSUME IInv, (MainBuild /\ loaded.builds) \/ StoreSwap
    PROVE  Atomic!Publish
<1>1. /\ clock \in Nat /\ current \in Generation /\ next \in Generation /\ built \in Nat
  BY DEF IInv, TypeOK
<1>2. UNCHANGED <<clock, pc, outcome>>
  BY DEF MainBuild, StoreSwap, requestVars
<1>3. Verdicts' = Verdicts
  <2>1. \A r \in Requests : Verdict(r)' = Verdict(r)
    BY <1>2 DEF Verdict
  <2> QED
    BY <2>1, Zenon DEF Verdicts
<1>4. /\ current'.bucket.tokens = current'.router.limit.burst * NanotokensPerToken
      /\ current'.bucket.last \in 0 .. clock
  <2>1. CASE MainBuild /\ loaded.builds
    <3> DEFINE made == NewRouter(loaded, built + 1)
    <3>1. made.limit \in Limit \union {NoLimit}
      BY <1>1, NewRouterType DEF IInv, TypeOK, Router
    <3>2. LET bucket == NewRateLimitStateValue(made.limit, clock)
          IN  /\ bucket \in Bucket
              /\ bucket.capacity = made.limit.burst * NanotokensPerToken
              /\ bucket.tokens = bucket.capacity
              /\ bucket.last <= clock
      BY <1>1, <3>1, NewBucketType
    <3> HIDE DEF made
    <3>3. /\ current'.router = made
          /\ current'.bucket = NewRateLimitStateValue(made.limit, clock)
      BY <2>1 DEF MainBuild, made
    <3> QED
      BY <1>1, <3>2, <3>3 DEF Bucket
  <2>2. CASE StoreSwap
    <3>1. current'.router = next.router /\ current'.bucket = next.bucket
      BY <1>1, <2>2 DEF StoreSwap, Generation
    <3>2. Coherent(next) /\ next.bucket.tokens = next.bucket.capacity
      BY <2>2 DEF StoreSwap, IInv, PublishedCoherent
    <3> QED
      BY <1>1, <3>1, <3>2 DEF Coherent, Generation, Bucket
  <2> QED
    BY <2>1, <2>2
<1> QED
  BY <1>2, <1>3, <1>4 DEF Atomic!Publish, Verdicts

\* A successful swap is one decision at the clock sample it was computed from.
LEMMA RefineSwap ==
    ASSUME IInv, NEW r \in Requests, CompareAndSwap(r), current.ptr = latest[r].ptr
    PROVE  \E t \in current.bucket.last .. clock : Atomic!Decide(r, t)
<1>1. PICK now \in Nat :
        LET reserved == ReserveBucket(current.bucket, current.router.limit, now)
        IN  /\ current.bucket.last <= now /\ now <= clock
            /\ current.router.limit # NoLimit
            /\ attempt[r].allowed = reserved.allowed
            /\ attempt[r].generation = [current EXCEPT !.bucket = reserved.bucket]
  BY SwapCharges, Zenon
<1>2. current \in Generation /\ Coherent(current) /\ clock \in Nat
  BY DEF IInv, TypeOK, PublishedCoherent
<1>3. WellFormed(current.bucket) /\ current.bucket.config = current.router.limit
  BY <1>1, <1>2, ChargeCoherent DEF Coherent
<1> DEFINE balance == ExactBalance(current.bucket, now)
           enough == balance >= NanotokensPerToken
           exact == ReserveBucket(current.bucket, current.bucket.config, now)
<1>4. /\ attempt[r].allowed = enough
      /\ attempt[r].generation.bucket.tokens
           = IF enough THEN balance - NanotokensPerToken ELSE balance
      /\ attempt[r].generation.bucket.last = now
  <2>1. /\ exact.allowed = enough
        /\ exact.bucket
             = [config |-> current.bucket.config, capacity |-> current.bucket.capacity,
                tokens |-> IF enough THEN balance - NanotokensPerToken ELSE balance,
                last |-> now]
    BY <1>1, <1>3, ReserveExact, Zenon
  <2>2. exact = ReserveBucket(current.bucket, current.router.limit, now)
    BY <1>3
  <2>3. /\ attempt[r].allowed = exact.allowed
        /\ attempt[r].generation = [current EXCEPT !.bucket = exact.bucket]
    BY <1>1, <2>2, Zenon
  <2> HIDE DEF exact, balance
  <2>4. attempt[r].generation.bucket = exact.bucket
    BY <1>2, <2>3 DEF Generation
  <2>5. /\ exact.bucket.tokens = IF enough THEN balance - NanotokensPerToken ELSE balance
        /\ exact.bucket.last = now
    BY <2>1
  <2> HIDE DEF enough
  <2> QED
    BY <2>1, <2>3, <2>4, <2>5, Zenon
<1>5. /\ current'.router = current.router
      /\ current'.bucket = attempt[r].generation.bucket
      /\ clock' = clock
  BY SwapEffect DEF CompareAndSwap
<1>6. Atomic!Available(now) = balance
  <2>1. /\ current.bucket.capacity = current.router.limit.burst * NanotokensPerToken
        /\ current.bucket.config = current.router.limit
    BY <1>2 DEF Coherent
  <2> QED
    BY <2>1 DEF Atomic!Available, Atomic!Capacity, ExactBalance
<1>7. /\ pc[r] = "swap" /\ outcome[r] = "none" /\ RequestStep(r)
      /\ current.router.limit.rate # 0
  <2>1. current.router.limit \in Limit
    BY <1>1, <1>2 DEF Generation, Router
  <2> QED
    BY <2>1 DEF CompareAndSwap, IInv, RequestsBehind, RequestStep, Limit
<1>8. Verdict(r) = "none"
  BY <1>7 DEF Verdict
<1>9. Verdicts[r] = "none"
  BY <1>8 DEF Verdicts
<1>10. now \in current.bucket.last .. clock
  BY <1>1, <1>2 DEF Generation, Bucket
<1> HIDE DEF balance
<1>11. CASE enough
  <2>1. attempt[r].allowed
    BY <1>4, <1>11, Zenon
  <2>2. pc'[r] = "serve"
    BY <2>1 DEF CompareAndSwap, Decided, IInv, TypeOK
  <2>3. Verdict(r)' = "admitted"
    <3>1. outcome'[r] = "none"
      BY <1>7 DEF CompareAndSwap
    <3> QED
      BY <2>2, <3>1 DEF Verdict
  <2>4. Verdicts' = [Verdicts EXCEPT ![r] = "admitted"]
    BY <1>7, <2>3, VerdictGiven
  <2>5. current'.bucket.tokens = balance - NanotokensPerToken /\ current'.bucket.last = now
    BY <1>4, <1>5, <1>11
  <2>6. Atomic!Decide(r, now)
    BY <1>5, <1>6, <1>7, <1>9, <1>11, <2>4, <2>5 DEF Atomic!Decide, Verdicts
  <2> QED
    BY <1>10, <2>6
<1>12. CASE ~enough
  <2>1. ~attempt[r].allowed
    BY <1>4, <1>12, Zenon
  <2>2. pc'[r] = "reject"
    BY <2>1 DEF CompareAndSwap, Decided, IInv, TypeOK
  <2>3. Verdict(r)' = "rejected"
    <3>1. outcome'[r] = "none"
      BY <1>7 DEF CompareAndSwap
    <3> QED
      BY <2>2, <3>1 DEF Verdict
  <2>4. Verdicts' = [Verdicts EXCEPT ![r] = "rejected"]
    BY <1>7, <2>3, VerdictGiven
  <2>5. current'.bucket.tokens = balance /\ current'.bucket.last = now
    BY <1>4, <1>5, <1>12
  <2>6. Atomic!Decide(r, now)
    BY <1>5, <1>6, <1>7, <1>9, <1>12, <2>4, <2>5 DEF Atomic!Decide, Verdicts
  <2> QED
    BY <1>10, <2>6
<1> QED
  BY <1>11, <1>12

\* A load that finds no limit is one unlimited admission; one that finds a
\* limit is no step of Admission.
LEMMA RefineLoad ==
    ASSUME IInv, NEW r \in Requests, Admit(r) \/ Retry(r)
    PROVE  Atomic!AdmitUnlimited(r) \/ Observed' = Observed
<1>1. /\ pc[r] \in {"admit", "retry"} /\ outcome[r] = "none" /\ RequestStep(r)
      /\ LoadLatest(r)
  BY DEF Admit, Retry, RequestStep, IInv, RequestsBehind
<1>2. UNCHANGED <<clock, current, outcome>>
  BY <1>1 DEF LoadLatest
<1>3. Verdict(r) = "none"
  BY <1>1 DEF Verdict
<1>4. CASE current.router.limit = NoLimit
  <2>1. pc'[r] = "serve"
    BY <1>1, <1>4 DEF LoadLatest, IInv, TypeOK
  <2>2. Verdict(r)' = "admitted"
    BY <1>1, <1>2, <2>1 DEF Verdict
  <2>3. Verdicts' = [Verdicts EXCEPT ![r] = "admitted"]
    BY <1>1, <2>2, VerdictGiven
  <2>4. Verdicts[r] = "none"
    BY <1>3 DEF Verdicts
  <2>5. current.router.limit.rate = 0
    BY <1>4 DEF NoLimit
  <2> QED
    BY <1>2, <2>3, <2>4, <2>5 DEF Atomic!AdmitUnlimited, Verdicts
<1>5. CASE current.router.limit # NoLimit
  <2>1. pc'[r] = "reserve"
    BY <1>1, <1>5 DEF LoadLatest, IInv, TypeOK
  <2>2. Verdict(r)' = "none"
    BY <1>1, <1>2, <2>1 DEF Verdict
  <2>3. Verdicts' = Verdicts
    BY <1>1, <1>3, <2>2, VerdictsKept
  <2> QED
    BY <1>2, <2>3 DEF Observed
<1> QED
  BY <1>4, <1>5

\* Every other step of a request keeps what Admission sees.
LEMMA RefineOther ==
    ASSUME IInv, NEW r \in Requests,
           \/ Begin(r) \/ Identify(r) \/ Reserve(r) \/ Finish(r)
           \/ CompareAndSwap(r) /\ current.ptr # latest[r].ptr
    PROVE  Observed' = Observed
<1>1. RequestStep(r) /\ UNCHANGED <<clock, current>>
  BY DEF RequestStep, Begin, Identify, Reserve, Finish, CompareAndSwap
<1>2. pc[r] # "done" /\ outcome[r] = "none"
  BY DEF Begin, Identify, Reserve, Finish, CompareAndSwap, IInv, RequestsBehind
<1>3. Verdict(r)' = Verdict(r)
  <2>1. CASE Begin(r)
    BY <1>2, <2>1 DEF Begin, Verdict, IInv, TypeOK
  <2>2. CASE Identify(r)
    BY <1>2, <2>2 DEF Identify, Verdict, IInv, TypeOK
  <2>3. CASE Reserve(r)
    BY <1>2, <2>3 DEF Reserve, Verdict, IInv, TypeOK
  <2>4. CASE Finish(r)
    BY <1>2, <2>4 DEF Finish, Verdict, IInv, TypeOK
  <2>5. CASE CompareAndSwap(r) /\ current.ptr # latest[r].ptr
    BY <1>2, <2>5 DEF CompareAndSwap, Verdict, IInv, TypeOK
  <2> QED
    BY <2>1, <2>2, <2>3, <2>4, <2>5
<1> QED
  BY <1>1, <1>3, VerdictsKept DEF Observed

\* Runtime implements the atomic limiter, for every instance of the constants:
\* loads, clock samples, failed and successful swaps of any number of requests
\* and publications in between act like single atomic decisions.
THEOREM Implements == Spec => ImplementsAdmission
<1>1. ASSUME IInv, [Next]_vars PROVE Atomic!Next \/ Observed' = Observed
  <2>1. CASE Tick
    <3>1. UNCHANGED <<current, pc, outcome>> /\ clock' = clock + 1
      BY <2>1 DEF Tick, requestVars
    <3>2. \A r \in Requests : Verdict(r)' = Verdict(r)
      BY <3>1 DEF Verdict
    <3>3. Verdicts' = Verdicts
      BY <3>2, Zenon DEF Verdicts
    <3> QED
      BY <3>1, <3>3 DEF Atomic!Next, Atomic!Advance, Verdicts
  <2>2. CASE (MainBuild /\ loaded.builds) \/ StoreSwap
    BY <1>1, <2>2, RefinePublish DEF Atomic!Next
  <2>3. CASE MainBuild /\ ~loaded.builds
    BY <2>3, Unobserved DEF MainBuild, requestVars
  <2>4. CASE EditFile \/ MainStat \/ MainLoad \/ WatchStat \/ WatchLoad
    BY <2>4, Unobserved DEF EditFile, MainStat, MainLoad, WatchStat, WatchLoad, requestVars
  <2>5. CASE WatchBuild \/ StorePrepare \/ StoreClose \/ UNCHANGED vars
    BY <2>5, Unobserved DEF WatchBuild, StorePrepare, StoreClose, vars, requestVars
  <2>6. ASSUME NEW r \in Requests, RequestStep(r) PROVE Atomic!Next \/ Observed' = Observed
    <3>1. CASE CompareAndSwap(r) /\ current.ptr = latest[r].ptr
      BY <1>1, <3>1, RefineSwap DEF Atomic!Next
    <3>2. CASE Admit(r) \/ Retry(r)
      BY <1>1, <3>2, RefineLoad DEF Atomic!Next
    <3>3. CASE \/ Begin(r) \/ Identify(r) \/ Reserve(r) \/ Finish(r)
               \/ CompareAndSwap(r) /\ current.ptr # latest[r].ptr
      BY <1>1, <3>3, RefineOther
    <3> QED
      BY <2>6, <3>1, <3>2, <3>3 DEF RequestStep
  <2> QED
    BY <1>1, <2>1, <2>2, <2>3, <2>4, <2>5, <2>6 DEF Next, MainStep, WatchStep
<1>2. Observed' = Observed => UNCHANGED Atomic!vars
  BY DEF Observed, Atomic!vars, Verdicts
<1> QED
  BY RefineInit, Invariance, <1>1, <1>2, PTL
     DEF Spec, ImplementsAdmission, Atomic!Spec
=============================================================================
