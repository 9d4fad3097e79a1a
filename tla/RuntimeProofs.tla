--------------------------- MODULE RuntimeProofs ---------------------------
(***************************************************************************)
(* Safety of Runtime for every set of requests, every set of texts and     *)
(* every bound: IInv is an inductive invariant, and the safety properties  *)
(* follow from it.                                                         *)
(***************************************************************************)
EXTENDS Runtime, TokenBucketProofs, SequenceTheorems

-----------------------------------------------------------------------------
(* What the constructors of Runtime make.                                  *)

\* newRouter makes a router, whatever text it is given.
LEMMA NewRouterType ==
    ASSUME NEW content \in Contents \union {NilContent}, NEW gen \in Nat \ {0}
    PROVE  /\ NewRouter(content, gen) \in Router
           /\ NewRouter(content, gen).gen = gen
<1>1. /\ content \in Content
      /\ content.rate # 0 => /\ content.burst # 0
                             /\ content.burst * NanotokensPerToken <= MaxInt64
  <2>1. CASE content \in Contents
    BY <2>1, ContentsAssumption
  <2>2. CASE content = NilContent
    BY <2>2 DEF NilContent, Content
  <2> QED
    BY <2>1, <2>2
<1>2. (IF content.rate = 0 THEN NoLimit
       ELSE [id |-> gen, rate |-> content.rate, burst |-> content.burst])
        \in Limit \union {NoLimit}
  <2>1. CASE content.rate = 0
    BY <2>1
  <2>2. CASE content.rate # 0
    BY <1>1, <2>2 DEF Content, Limit
  <2> QED
    BY <2>1, <2>2
<1>3. content.requestID \in BOOLEAN
  BY <1>1 DEF Content
<1> QED
  BY <1>2, <1>3 DEF NewRouter, Router

\* A new bucket is the one its limit calls for, nil included.
LEMMA NewBucketType ==
    ASSUME NEW limit \in Limit \union {NoLimit}, NEW now \in Nat
    PROVE  LET bucket == NewRateLimitStateValue(limit, now)
           IN  /\ bucket \in Bucket
               /\ bucket.config = limit
               /\ bucket.capacity = limit.burst * NanotokensPerToken
               /\ bucket.tokens = bucket.capacity
               /\ bucket.capacity \in Nat
               /\ bucket.last <= now
<1>1. CASE limit = NoLimit
  BY <1>1, NanotokensAssumption DEF NewRateLimitStateValue, NoLimit, Bucket
<1>2. CASE limit # NoLimit
  <2>1. limit \in Limit
    BY <1>2
  <2> DEFINE bucket == NewRateLimitStateValue(limit, now)
  <2>2. /\ WellFormed(bucket)
        /\ bucket = [config |-> limit, capacity |-> limit.burst * NanotokensPerToken,
                     tokens |-> limit.burst * NanotokensPerToken, last |-> now]
    BY <2>1, NewBucketWellFormed, Zenon
  <2> HIDE DEF bucket
  <2>3. bucket \in Bucket
    BY <2>2 DEF WellFormed
  <2>4. /\ bucket.config = limit
        /\ bucket.capacity = limit.burst * NanotokensPerToken
        /\ bucket.tokens = limit.burst * NanotokensPerToken
        /\ bucket.last = now
    BY <2>2
  <2>5. bucket.capacity \in Nat
    BY <2>3 DEF Bucket
  <2> QED
    BY <2>3, <2>4, <2>5 DEF bucket
<1> QED
  BY <1>1, <1>2

\* The generation that stands for nil is coherent and well typed.
LEMMA NilGenerationType ==
    NilGeneration \in Generation /\ NilGeneration.router.limit = NoLimit
    /\ NilGeneration.bucket = [config |-> NoLimit, capacity |-> 0, tokens |-> 0, last |-> 0]
    /\ NilGeneration.router.gen = 0 /\ NilGeneration.ptr = 0
  BY DEF NilGeneration, NewRouter, NilContent, NewRateLimitStateValue, Generation,
         Router, Bucket

\* A coherent generation with a limit has a well-formed bucket, and charging it
\* leaves a coherent generation with the same router and certificate.
LEMMA ChargeCoherent ==
    ASSUME NEW g \in Generation, Coherent(g), g.router.limit # NoLimit,
           NEW now \in Nat, g.bucket.last <= now, now <= clock, clock \in Nat
    PROVE  LET reserved == ReserveBucket(g.bucket, g.router.limit, now)
               charged  == [g EXCEPT !.bucket = reserved.bucket]
           IN  /\ WellFormed(g.bucket)
               /\ reserved.allowed \in BOOLEAN
               /\ charged \in Generation
               /\ charged.router = g.router
               /\ charged.certificate = g.certificate
               /\ charged.bucket = reserved.bucket
               /\ charged.bucket.last = now
               /\ Coherent(charged)
<1>1. g.router.limit \in Limit /\ g.bucket \in Bucket
  BY DEF Generation, Router
<1>2. WellFormed(g.bucket)
  BY <1>1 DEF Coherent, WellFormed
<1>3. g.bucket.config = g.router.limit
  BY DEF Coherent
<1> DEFINE reserved == ReserveBucket(g.bucket, g.router.limit, now)
           charged  == [g EXCEPT !.bucket = reserved.bucket]
<1>4. /\ reserved.allowed = (ExactBalance(g.bucket, now) >= NanotokensPerToken)
      /\ reserved.bucket.config = g.bucket.config
      /\ reserved.bucket.capacity = g.bucket.capacity
      /\ reserved.bucket.last = now
      /\ WellFormed(reserved.bucket)
  <2> DEFINE exact == ReserveBucket(g.bucket, g.bucket.config, now)
             balance == ExactBalance(g.bucket, now)
  <2>1. /\ exact.allowed = (balance >= NanotokensPerToken)
        /\ exact.bucket = [config |-> g.bucket.config, capacity |-> g.bucket.capacity,
                           tokens |-> IF balance >= NanotokensPerToken
                                      THEN balance - NanotokensPerToken ELSE balance,
                           last |-> now]
        /\ WellFormed(exact.bucket)
    BY <1>2, ReserveExact, Zenon
  <2>2. exact = reserved
    BY <1>3
  <2> HIDE DEF exact, balance
  <2>3. /\ exact.bucket.config = g.bucket.config
        /\ exact.bucket.capacity = g.bucket.capacity
        /\ exact.bucket.last = now
    BY <2>1
  <2> QED
    BY <2>1, <2>2, <2>3, Zenon DEF balance
<1> HIDE DEF reserved
<1>5. reserved.bucket \in Bucket /\ reserved.bucket.tokens <= reserved.bucket.capacity
  BY <1>4 DEF WellFormed
<1>6. /\ charged \in Generation
      /\ charged.router = g.router
      /\ charged.certificate = g.certificate
      /\ charged.bucket = reserved.bucket
  BY <1>5 DEF Generation
<1>7. Coherent(charged)
  BY <1>3, <1>4, <1>5, <1>6 DEF Coherent
<1> QED
  BY <1>2, <1>4, <1>6, <1>7 DEF reserved

-----------------------------------------------------------------------------
(* The inductive invariant, part by part.                                  *)

\* The invariant holds before main has done anything.
LEMMA InitIInv == Init => IInv
<1> SUFFICES ASSUME Init PROVE IInv
  OBVIOUS
<1>1. /\ NilContent \in Contents \union {NilContent}
      /\ NilGeneration \in Generation
      /\ NilGeneration.router \in Router
      /\ NilAttempt \in [generation : Generation, allowed : BOOLEAN]
  BY NilGenerationType DEF NilAttempt, Generation
<1>2. TypeOK
  BY <1>1 DEF Init, TypeOK, Absent
<1>3. PublishedCoherent
  BY NilGenerationType, NanotokensAssumption
     DEF Init, PublishedCoherent, Coherent, NoLimit
<1>4. LoadedCoherent /\ AttemptCoherent
  BY DEF Init, LoadedCoherent, AttemptCoherent
<1>5. RequestsBehind
  BY NilGenerationType DEF Init, RequestsBehind
<1>6. Conservation
  BY DEF Init, Conservation, AdmissionWindow
<1> QED
  BY <1>2, <1>3, <1>4, <1>5, <1>6 DEF IInv

\* What a request loads keeps its type, whether or not there is a limit.
LEMMA LoadLatestType ==
    ASSUME TypeOK, NEW r \in Requests, LoadLatest(r)
    PROVE  TypeOK'
<1>1. current \in Generation /\ current.router.gen \in Nat
  BY DEF TypeOK, Generation, Router
<1>2. latest' \in [Requests -> Generation]
  BY <1>1 DEF LoadLatest, TypeOK
<1>3. /\ pc' \in [Requests -> {"new", "identify", "admit", "reserve", "swap", "retry",
                              "serve", "reject", "done"}]
      /\ decidedBy' \in [Requests -> Nat]
  BY <1>1 DEF LoadLatest, TypeOK
<1> QED
  BY <1>2, <1>3 DEF LoadLatest, TypeOK, fileVars, watchVars

\* Every step keeps the types.  A reservation does because the loaded bucket
\* is coherent; the rest copy, or construct with the lemmas above.
LEMMA TypeStep ==
    ASSUME IInv, [Next]_vars
    PROVE  TypeOK'
<1> USE DEF IInv
<1>1. CASE EditFile
  <2>1. TypeOK /\ edits' = edits + 1
    BY <1>1 DEF EditFile
  <2> HIDE DEF IInv
  <2>2. edits \in Nat /\ file \in [stamp : Nat, content : Contents]
    BY <2>1 DEF TypeOK
  <2>3. file' \in [stamp : Nat, content : Contents]
    BY <1>1, <2>2 DEF EditFile, Absent
  <2>4. UNCHANGED <<clock, watchVars, current, requestVars, admitted>>
    BY <1>1 DEF EditFile
  <2> QED
    BY <2>1, <2>2, <2>3, <2>4 DEF TypeOK, watchVars, requestVars
<1>2. CASE Tick
  BY <1>2 DEF Tick, TypeOK, fileVars, watchVars, requestVars
<1>3. CASE MainStat
  BY <1>3 DEF MainStat, TypeOK, fileVars, requestVars
<1>4. CASE MainLoad
  BY <1>4 DEF MainLoad, TypeOK, fileVars, requestVars
<1>5. CASE MainBuild
  <2>1. CASE loaded.builds
    <3>1. built + 1 \in Nat \ {0} /\ current.ptr + 1 \in Nat
      BY DEF TypeOK, Generation
    <3>2. NewRouter(loaded, built + 1) \in Router
      BY <3>1, NewRouterType DEF TypeOK
    <3>3. NewRateLimitStateValue(NewRouter(loaded, built + 1).limit, clock) \in Bucket
      BY <3>2, NewBucketType DEF TypeOK, Router
    <3>4. NewCertificate(loaded, built + 1) \in Nat
      BY <3>1 DEF NewCertificate
    <3>5. current' \in Generation
      BY <1>5, <2>1, <3>1, <3>2, <3>3, <3>4 DEF MainBuild, Generation
    <3> QED
      BY <1>5, <2>1, <3>1, <3>5 DEF MainBuild, TypeOK, fileVars, requestVars
  <2>2. CASE ~loaded.builds
    BY <1>5, <2>2 DEF MainBuild, TypeOK, fileVars, requestVars
  <2> QED
    BY <2>1, <2>2
<1>6. CASE WatchStat
  BY <1>6 DEF WatchStat, TypeOK, fileVars, requestVars
<1>7. CASE WatchLoad
  BY <1>7 DEF WatchLoad, TypeOK, fileVars, requestVars
<1>8. CASE WatchBuild
  <2>1. CASE loaded.builds
    <3>1. built + 1 \in Nat \ {0}
      BY DEF TypeOK
    <3>2. NewRouter(loaded, built + 1) \in Router
      BY <3>1, NewRouterType DEF TypeOK
    <3>3. NewRateLimitStateValue(NoLimit, 0) \in Bucket
      BY NewBucketType
    <3>4. NewCertificate(loaded, built + 1) \in Nat
      BY <3>1 DEF NewCertificate
    <3>5. next' \in Generation
      BY <1>8, <2>1, <3>2, <3>3, <3>4 DEF WatchBuild, Generation
    <3> QED
      BY <1>8, <2>1, <3>5 DEF WatchBuild, TypeOK, fileVars, requestVars
  <2>2. CASE ~loaded.builds
    BY <1>8, <2>2 DEF WatchBuild, TypeOK, fileVars, requestVars
  <2> QED
    BY <2>1, <2>2
<1>9. CASE StorePrepare
  <2>1. NewRateLimitStateValue(next.router.limit, clock) \in Bucket
    BY NewBucketType DEF TypeOK, Generation, Router
  <2>2. next' \in Generation
    BY <1>9, <2>1 DEF StorePrepare, TypeOK, Generation
  <2> QED
    BY <1>9, <2>2 DEF StorePrepare, TypeOK, fileVars, requestVars
<1>10. CASE StoreSwap
  <2>1. current' \in Generation
    <3>1. next \in Generation /\ current.ptr + 1 \in Nat
      BY DEF TypeOK, Generation
    <3>2. current' = [next EXCEPT !.ptr = current.ptr + 1]
      BY <1>10 DEF StoreSwap
    <3> QED
      BY <3>1, <3>2 DEF Generation
  <2>2. admitted' \in Seq(Nat)
    BY <1>10 DEF StoreSwap
  <2> QED
    BY <1>10, <2>1, <2>2 DEF StoreSwap, TypeOK, fileVars, requestVars
<1>11. CASE StoreClose
  <2>1. next.router.gen \in Nat
    BY DEF TypeOK, Generation, Router
  <2> QED
    BY <1>11, <2>1 DEF StoreClose, TypeOK, fileVars, requestVars
<1>12. ASSUME NEW r \in Requests, RequestStep(r) PROVE TypeOK'
  <2>1. CASE Begin(r)
    <3>1. current.router \in Router
      BY DEF TypeOK, Generation
    <3> QED
      BY <2>1, <3>1 DEF Begin, TypeOK, fileVars, watchVars
  <2>2. CASE Identify(r)
    BY <2>2 DEF Identify, TypeOK, fileVars, watchVars
  <2>3. CASE Admit(r) \/ Retry(r)
    BY <2>3, LoadLatestType DEF Admit, Retry
  <2>4. CASE Reserve(r)
    <3>1. /\ latest[r] \in Generation /\ latest[r].router.limit # NoLimit
          /\ Coherent(latest[r]) /\ clock \in Nat
          /\ latest[r].bucket.last <= clock
      BY <2>4 DEF Reserve, TypeOK, LoadedCoherent, Coherent
    <3> DEFINE reserved == ReserveBucket(latest[r].bucket, latest[r].router.limit, clock)
    <3>2. /\ reserved.allowed \in BOOLEAN
          /\ [latest[r] EXCEPT !.bucket = reserved.bucket] \in Generation
      BY <3>1, ChargeCoherent
    <3> HIDE DEF reserved
    <3>3. attempt' = [attempt EXCEPT ![r] =
            [generation |-> [latest[r] EXCEPT !.bucket = reserved.bucket],
             allowed    |-> reserved.allowed]]
      BY <2>4 DEF Reserve, reserved
    <3>4. attempt' \in [Requests -> [generation : Generation, allowed : BOOLEAN]]
      BY <3>2, <3>3 DEF TypeOK
    <3> QED
      BY <2>4, <3>4 DEF Reserve, TypeOK, fileVars, watchVars
  <2>5. CASE CompareAndSwap(r)
    <3>1. /\ attempt[r].generation \in Generation
          /\ attempt[r].generation.bucket.last \in Nat
          /\ latest[r].router.gen \in Nat
          /\ current.ptr + 1 \in Nat
      <4>1. attempt[r] \in [generation : Generation, allowed : BOOLEAN]
        BY DEF TypeOK
      <4>2. attempt[r].generation \in Generation
        BY <4>1
      <4>3. latest[r] \in Generation /\ current \in Generation
        BY DEF TypeOK
      <4> QED
        BY <4>2, <4>3 DEF Generation, Bucket, Router
    <3>2. current' \in Generation
      BY <2>5, <3>1 DEF CompareAndSwap, TypeOK, Generation
    <3>3. admitted' \in Seq(Nat)
      <4>1. \/ admitted' = admitted
            \/ admitted' = Append(admitted, attempt[r].generation.bucket.last)
        BY <2>5 DEF CompareAndSwap, Decided
      <4>2. admitted \in Seq(Nat)
        BY DEF TypeOK
      <4>3. Append(admitted, attempt[r].generation.bucket.last) \in Seq(Nat)
        BY <3>1, <4>2, AppendProperties
      <4> QED
        BY <4>1, <4>2, <4>3
    <3> QED
      BY <2>5, <3>1, <3>2, <3>3 DEF CompareAndSwap, Decided, TypeOK, fileVars, watchVars
  <2>6. CASE Finish(r)
    <3>1. NilGeneration \in Generation
          /\ NilAttempt \in [generation : Generation, allowed : BOOLEAN]
      BY NilGenerationType DEF NilAttempt
    <3> QED
      BY <2>6, <3>1 DEF Finish, TypeOK, fileVars, watchVars
  <2> QED
    BY <1>12, <2>1, <2>2, <2>3, <2>4, <2>5, <2>6 DEF RequestStep
<1>13. CASE UNCHANGED vars
  BY <1>13 DEF TypeOK, vars, fileVars, watchVars, requestVars
<1> QED
  BY <1>1, <1>2, <1>3, <1>4, <1>5, <1>6, <1>7, <1>8, <1>9, <1>10, <1>11, <1>12, <1>13
     DEF Next, MainStep, WatchStep

\* A successful swap by a request charges the published generation itself, at
\* a clock sample between the bucket's own and the present.
LEMMA SwapCharges ==
    ASSUME IInv, NEW r \in Requests, CompareAndSwap(r), current.ptr = latest[r].ptr
    PROVE  \E now \in Nat :
              LET reserved == ReserveBucket(current.bucket, current.router.limit, now)
              IN  /\ current.bucket.last <= now /\ now <= clock
                  /\ latest[r] = current
                  /\ current.router.limit # NoLimit
                  /\ attempt[r].allowed = reserved.allowed
                  /\ attempt[r].generation = [current EXCEPT !.bucket = reserved.bucket]
<1>1. pc[r] = "swap"
  BY DEF CompareAndSwap
<1>2. latest[r] = current /\ current.router.limit # NoLimit
  BY <1>1 DEF IInv, LoadedCoherent
<1>3. PICK now \in 0 .. clock :
        /\ latest[r].bucket.last <= now
        /\ attempt[r].generation =
             [latest[r] EXCEPT !.bucket =
                ReserveBucket(latest[r].bucket, latest[r].router.limit, now).bucket]
        /\ attempt[r].allowed =
             ReserveBucket(latest[r].bucket, latest[r].router.limit, now).allowed
  BY <1>1, Zenon DEF IInv, AttemptCoherent
<1>4. now \in Nat /\ now <= clock
  BY DEF IInv, TypeOK
<1> QED
  BY <1>2, <1>3, <1>4

\* The effect of a successful swap on the pointer.
LEMMA SwapEffect ==
    ASSUME IInv, NEW r \in Requests, CompareAndSwap(r), current.ptr = latest[r].ptr
    PROVE  /\ Coherent(current')
           /\ current'.router = current.router
           /\ current'.certificate = current.certificate
           /\ current'.ptr = current.ptr + 1
           /\ current'.bucket = attempt[r].generation.bucket
           /\ current.bucket.last <= current'.bucket.last
<1>1. PICK now \in Nat :
        LET reserved == ReserveBucket(current.bucket, current.router.limit, now)
        IN  /\ current.bucket.last <= now /\ now <= clock
            /\ current.router.limit # NoLimit
            /\ attempt[r].generation = [current EXCEPT !.bucket = reserved.bucket]
  BY SwapCharges, Zenon
<1> DEFINE charged == [current EXCEPT !.bucket =
             ReserveBucket(current.bucket, current.router.limit, now).bucket]
<1>2. current \in Generation /\ Coherent(current) /\ clock \in Nat
  BY DEF IInv, TypeOK, PublishedCoherent
<1>3. /\ charged \in Generation
      /\ charged.router = current.router
      /\ charged.certificate = current.certificate
      /\ charged.bucket.last = now
      /\ Coherent(charged)
  BY <1>1, <1>2, ChargeCoherent, Zenon
<1>4. attempt[r].generation = charged
  BY <1>1, Zenon
<1> HIDE DEF charged
<1>5. current' = [charged EXCEPT !.ptr = current.ptr + 1]
  BY <1>4 DEF CompareAndSwap
<1>6. /\ current'.router = charged.router /\ current'.bucket = charged.bucket
      /\ current'.certificate = charged.certificate /\ current'.ptr = current.ptr + 1
  BY <1>3, <1>5 DEF Generation
<1> QED
  BY <1>1, <1>3, <1>4, <1>6 DEF Coherent

\* Every step leaves the published generation alone or moves the pointer on,
\* and the clock never runs backwards.
LEMMA PointerMoves ==
    ASSUME IInv, [Next]_vars
    PROVE  /\ current' = current \/ current'.ptr = current.ptr + 1
           /\ clock \in Nat /\ clock' \in Nat /\ clock <= clock'
<1>1. clock \in Nat /\ clock' \in Nat
  BY TypeStep DEF IInv, TypeOK
<1>2. CASE EditFile
  BY <1>1, <1>2 DEF EditFile
<1>3. CASE Tick
  BY <1>1, <1>3 DEF Tick
<1>4. CASE MainStep
  BY <1>1, <1>4 DEF MainStep, MainStat, MainLoad, MainBuild
<1>5. CASE WatchStat \/ WatchLoad \/ WatchBuild \/ StorePrepare \/ StoreClose
  BY <1>1, <1>5 DEF WatchStat, WatchLoad, WatchBuild, StorePrepare, StoreClose
<1>6. CASE StoreSwap
  <2>1. next \in Generation /\ current' = [next EXCEPT !.ptr = current.ptr + 1]
    BY <1>6 DEF StoreSwap, IInv, TypeOK
  <2>2. current'.ptr = current.ptr + 1
    BY <2>1 DEF Generation
  <2> QED
    BY <1>1, <1>6, <2>2 DEF StoreSwap
<1>7. ASSUME NEW r \in Requests, RequestStep(r)
      PROVE  /\ current' = current \/ current'.ptr = current.ptr + 1
             /\ clock' = clock
  <2>1. CASE CompareAndSwap(r)
    BY <2>1, SwapEffect DEF CompareAndSwap
  <2>2. CASE ~CompareAndSwap(r)
    BY <1>7, <2>2 DEF RequestStep, Begin, Identify, Admit, Retry, LoadLatest, Reserve, Finish
  <2> QED
    BY <2>1, <2>2
<1>8. CASE UNCHANGED vars
  BY <1>1, <1>8 DEF vars
<1> QED
  BY <1>1, <1>2, <1>3, <1>4, <1>5, <1>6, <1>7, <1>8 DEF Next, WatchStep

\* Every step keeps the published generation, and the one about to be
\* published, coherent, and the generation numbers in order.
LEMMA PublishedStep ==
    ASSUME IInv, [Next]_vars
    PROVE  PublishedCoherent'
<1>1. /\ clock \in Nat /\ clock' \in Nat /\ clock <= clock'
      /\ current \in Generation /\ next \in Generation /\ built \in Nat
      /\ current.bucket.last \in Nat /\ next.bucket.last \in Nat
      /\ current.router.gen \in Nat
  BY PointerMoves DEF IInv, TypeOK, Generation, Bucket, Router
<1>2. PublishedCoherent
  BY DEF IInv
<1>3. CASE EditFile
  BY <1>2, <1>3 DEF EditFile, PublishedCoherent, Coherent, watchVars
<1>4. CASE Tick
  BY <1>1, <1>2, <1>4 DEF Tick, PublishedCoherent, Coherent, watchVars
<1>5. CASE MainStat \/ MainLoad
  BY <1>2, <1>5 DEF MainStat, MainLoad, PublishedCoherent, Coherent
<1>6. CASE MainBuild
  <2>1. CASE loaded.builds
    <3> DEFINE made == NewRouter(loaded, built + 1)
    <3>1. made \in Router /\ made.gen = built + 1
      BY <1>1, NewRouterType DEF IInv, TypeOK
    <3>2. LET bucket == NewRateLimitStateValue(made.limit, clock)
          IN  /\ bucket.config = made.limit
              /\ bucket.capacity = made.limit.burst * NanotokensPerToken
              /\ bucket.tokens = bucket.capacity /\ bucket.capacity \in Nat
              /\ bucket.last <= clock
      BY <1>1, <3>1, NewBucketType DEF Router
    <3> HIDE DEF made
    <3>3. /\ current'.router = made
          /\ current'.bucket = NewRateLimitStateValue(made.limit, clock)
          /\ clock' = clock /\ wpc' = "poll" /\ built' = built + 1
      BY <1>6, <2>1 DEF MainBuild, made
    <3> QED
      BY <3>1, <3>2, <3>3 DEF PublishedCoherent, Coherent
  <2>2. CASE ~loaded.builds
    BY <1>2, <1>6, <2>2 DEF MainBuild, PublishedCoherent, Coherent
  <2> QED
    BY <2>1, <2>2
<1>7. CASE WatchStat \/ WatchLoad
  BY <1>2, <1>7 DEF WatchStat, WatchLoad, PublishedCoherent, Coherent
<1>8. CASE WatchBuild
  <2>1. CASE loaded.builds
    <3>1. NewRouter(loaded, built + 1).gen = built + 1
      BY <1>1, NewRouterType DEF IInv, TypeOK
    <3>2. /\ next'.router.gen = built + 1
          /\ built' = built + 1 /\ wpc' = "prepare" /\ wpc = "build"
          /\ current' = current /\ clock' = clock
      BY <1>8, <2>1, <3>1 DEF WatchBuild
    <3> QED
      BY <1>2, <3>2 DEF PublishedCoherent, Coherent
  <2>2. CASE ~loaded.builds
    BY <1>2, <1>8, <2>2 DEF WatchBuild, PublishedCoherent, Coherent
  <2> QED
    BY <2>1, <2>2
<1>9. CASE StorePrepare
  <2>1. next.router.limit \in Limit \union {NoLimit}
    BY <1>1 DEF Generation, Router
  <2>2. LET bucket == NewRateLimitStateValue(next.router.limit, clock)
        IN  /\ bucket.config = next.router.limit
            /\ bucket.capacity = next.router.limit.burst * NanotokensPerToken
            /\ bucket.tokens = bucket.capacity /\ bucket.capacity \in Nat
            /\ bucket.last <= clock
    BY <1>1, <2>1, NewBucketType
  <2>3. /\ next'.router = next.router
        /\ next'.bucket = NewRateLimitStateValue(next.router.limit, clock)
    BY <1>1, <1>9 DEF StorePrepare, Generation
  <2> QED
    BY <1>2, <1>9, <2>2, <2>3 DEF StorePrepare, PublishedCoherent, Coherent
<1>10. CASE StoreSwap
  <2>1. current'.router = next.router /\ current'.bucket = next.bucket
    BY <1>1, <1>10 DEF StoreSwap, Generation
  <2> QED
    BY <1>2, <1>10, <2>1 DEF StoreSwap, PublishedCoherent, Coherent
<1>11. CASE StoreClose
  BY <1>2, <1>11 DEF StoreClose, PublishedCoherent, Coherent
<1>12. ASSUME NEW r \in Requests, RequestStep(r) PROVE PublishedCoherent'
  <2>1. clock' = clock /\ next' = next /\ wpc' = wpc /\ built' = built
    BY <1>12 DEF RequestStep, Begin, Identify, Admit, Retry, LoadLatest, Reserve,
                 CompareAndSwap, Finish, watchVars
  <2>2. CASE CompareAndSwap(r) /\ current.ptr = latest[r].ptr
    <3>1. Coherent(current') /\ current'.router = current.router
      BY <2>2, SwapEffect
    <3> QED
      BY <1>2, <2>1, <3>1 DEF PublishedCoherent, Coherent
  <2>3. CASE ~(CompareAndSwap(r) /\ current.ptr = latest[r].ptr)
    <3>1. current' = current
      BY <1>12, <2>3 DEF RequestStep, Begin, Identify, Admit, Retry, LoadLatest, Reserve,
                         CompareAndSwap, Finish
    <3> QED
      BY <1>2, <2>1, <3>1 DEF PublishedCoherent, Coherent
  <2> QED
    BY <2>2, <2>3
<1>13. CASE UNCHANGED vars
  BY <1>2, <1>13 DEF vars, watchVars, PublishedCoherent, Coherent
<1> QED
  BY <1>3, <1>4, <1>5, <1>6, <1>7, <1>8, <1>9, <1>10, <1>11, <1>12, <1>13
     DEF Next, MainStep, WatchStep

\* Every step keeps what requests have loaded coherent: the pointer only moves
\* to serial numbers that nobody holds yet.
LEMMA LoadedStep ==
    ASSUME IInv, [Next]_vars
    PROVE  LoadedCoherent'
<1> SUFFICES ASSUME NEW q \in Requests, pc'[q] \in {"reserve", "swap"}
             PROVE  /\ Coherent(latest[q])'
                    /\ latest'[q].router.limit # NoLimit
                    /\ latest'[q].ptr <= current'.ptr
                    /\ latest'[q].ptr = current'.ptr => latest'[q] = current'
  BY DEF LoadedCoherent
<1>1. /\ current' = current \/ current'.ptr = current.ptr + 1
      /\ clock \in Nat /\ clock' \in Nat /\ clock <= clock'
      /\ current.ptr \in Nat /\ latest[q].ptr \in Nat
      /\ latest[q].bucket.last \in Nat
  BY PointerMoves DEF IInv, TypeOK, Generation, Bucket
<1>2. CASE pc[q] \in {"reserve", "swap"} /\ latest'[q] = latest[q]
  <2>1. /\ Coherent(latest[q]) /\ latest[q].router.limit # NoLimit
        /\ latest[q].ptr <= current.ptr
        /\ latest[q].ptr = current.ptr => latest[q] = current
    BY <1>2 DEF IInv, LoadedCoherent
  <2> QED
    BY <1>1, <1>2, <2>1 DEF Coherent
<1>3. CASE LoadLatest(q)
  <2>1. /\ latest'[q] = current /\ current' = current /\ clock' = clock
        /\ current.router.limit # NoLimit
    BY <1>3 DEF LoadLatest, IInv, TypeOK
  <2>2. Coherent(current)
    BY DEF IInv, PublishedCoherent
  <2> QED
    BY <1>1, <2>1, <2>2 DEF Coherent
<1>4. \/ pc[q] \in {"reserve", "swap"} /\ latest'[q] = latest[q]
      \/ LoadLatest(q)
  <2>1. CASE UNCHANGED <<pc, latest>>
    BY <2>1
  <2>2. CASE EditFile \/ Tick \/ MainStep \/ WatchStep \/ UNCHANGED vars
    BY <2>1, <2>2 DEF EditFile, Tick, MainStep, MainStat, MainLoad, MainBuild, WatchStep,
          WatchStat, WatchLoad, WatchBuild, StorePrepare, StoreSwap, StoreClose,
          requestVars, vars
  <2>3. ASSUME NEW r \in Requests, RequestStep(r)
        PROVE  \/ pc[q] \in {"reserve", "swap"} /\ latest'[q] = latest[q]
               \/ LoadLatest(q)
    <3>1. CASE r = q
      BY <2>3, <3>1 DEF RequestStep, Begin, Identify, Admit, Retry, Reserve,
                        CompareAndSwap, Decided, Finish, IInv, TypeOK
    <3>2. CASE r # q
      <4>1. pc'[q] = pc[q] /\ latest'[q] = latest[q]
        BY <2>3, <3>2 DEF RequestStep, Begin, Identify, Admit, Retry, LoadLatest, Reserve,
                          CompareAndSwap, Decided, Finish, IInv, TypeOK
      <4> QED
        BY <4>1
    <3> QED
      BY <3>1, <3>2
  <2> QED
    BY <2>2, <2>3 DEF Next
<1> QED
  BY <1>2, <1>3, <1>4

\* Every step keeps what requests are about to swap in explained by a clock
\* sample they took.
LEMMA AttemptStep ==
    ASSUME IInv, [Next]_vars
    PROVE  AttemptCoherent'
<1> DEFINE Explained(q, now) ==
      /\ latest[q].bucket.last <= now
      /\ attempt[q].generation =
           [latest[q] EXCEPT !.bucket =
              ReserveBucket(latest[q].bucket, latest[q].router.limit, now).bucket]
      /\ attempt[q].allowed =
           ReserveBucket(latest[q].bucket, latest[q].router.limit, now).allowed
<1> SUFFICES ASSUME NEW q \in Requests, pc'[q] = "swap"
             PROVE  \E now \in 0 .. clock' : Explained(q, now)'
  BY Zenon DEF AttemptCoherent
<1>1. clock \in Nat /\ clock' \in Nat /\ clock <= clock'
  BY PointerMoves
<1>2. CASE pc[q] = "swap" /\ latest'[q] = latest[q] /\ attempt'[q] = attempt[q]
  <2>1. PICK now \in 0 .. clock : Explained(q, now)
    BY <1>2, Zenon DEF IInv, AttemptCoherent
  <2>2. now \in 0 .. clock' /\ Explained(q, now)'
    BY <1>1, <1>2, <2>1
  <2> QED
    BY <2>2, Zenon
<1>3. CASE Reserve(q)
  <2>1. /\ Coherent(latest[q]) /\ clock' = clock /\ latest' = latest
    BY <1>3 DEF Reserve, IInv, LoadedCoherent
  <2>2. attempt'[q] =
          [generation |-> [latest[q] EXCEPT !.bucket =
             ReserveBucket(latest[q].bucket, latest[q].router.limit, clock).bucket],
           allowed |-> ReserveBucket(latest[q].bucket, latest[q].router.limit, clock).allowed]
    BY <1>3 DEF Reserve, IInv, TypeOK
  <2>3. clock \in 0 .. clock' /\ latest'[q].bucket.last <= clock
    BY <1>1, <2>1 DEF Coherent
  <2>4. Explained(q, clock)'
    <3> DEFINE reserved == ReserveBucket(latest[q].bucket, latest[q].router.limit, clock)
    <3>1. /\ attempt'[q].generation = [latest[q] EXCEPT !.bucket = reserved.bucket]
          /\ attempt'[q].allowed = reserved.allowed
      <4> HIDE DEF reserved
      <4>1. attempt'[q] = [generation |-> [latest[q] EXCEPT !.bucket = reserved.bucket],
                           allowed |-> reserved.allowed]
        BY <2>2 DEF reserved
      <4> QED
        BY <4>1
    <3> QED
      BY <2>1, <2>3, <3>1, Zenon
  <2> QED
    BY <2>1, <2>3, <2>4
<1>4. \/ pc[q] = "swap" /\ latest'[q] = latest[q] /\ attempt'[q] = attempt[q]
      \/ Reserve(q)
  <2>1. CASE EditFile \/ Tick \/ MainStep \/ WatchStep \/ UNCHANGED vars
    BY <2>1 DEF EditFile, Tick, MainStep, MainStat, MainLoad, MainBuild, WatchStep,
          WatchStat, WatchLoad, WatchBuild, StorePrepare, StoreSwap, StoreClose,
          requestVars, vars
  <2>2. ASSUME NEW r \in Requests, RequestStep(r)
        PROVE  \/ pc[q] = "swap" /\ latest'[q] = latest[q] /\ attempt'[q] = attempt[q]
               \/ Reserve(q)
    <3>1. CASE r = q
      BY <2>2, <3>1 DEF RequestStep, Begin, Identify, Admit, Retry, LoadLatest,
                        CompareAndSwap, Decided, Finish, IInv, TypeOK
    <3>2. CASE r # q
      <4>1. pc'[q] = pc[q] /\ latest'[q] = latest[q] /\ attempt'[q] = attempt[q]
        BY <2>2, <3>2 DEF RequestStep, Begin, Identify, Admit, Retry, LoadLatest, Reserve,
                          CompareAndSwap, Decided, Finish, IInv, TypeOK
      <4> QED
        BY <4>1
    <3> QED
      BY <3>1, <3>2
  <2> QED
    BY <2>1, <2>2 DEF Next
<1> QED
  BY <1>2, <1>3, <1>4

\* The published generation never goes back, and a generation number changes
\* only in a publication, which starts the history of admissions afresh.
LEMMA GenerationsGrow ==
    ASSUME IInv, [Next]_vars
    PROVE  /\ current.router.gen \in Nat /\ current'.router.gen \in Nat
           /\ current'.router.gen >= current.router.gen
           /\ \/ current'.router = current.router
              \/ current'.router.gen > current.router.gen /\ admitted' = <<>>
<1>1. /\ current \in Generation /\ current' \in Generation /\ next \in Generation
      /\ current.router.gen \in Nat /\ current'.router.gen \in Nat
      /\ next.router.gen \in Nat /\ built \in Nat
  BY TypeStep DEF IInv, TypeOK, Generation, Router
<1> DEFINE Published == current'.router.gen > current.router.gen /\ admitted' = <<>>
<1>2. ASSUME MainBuild, loaded.builds PROVE Published
  <2>1. NewRouter(loaded, built + 1).gen = built + 1
    BY DEF NewRouter
  <2>2. current'.router.gen = built + 1 /\ admitted' = <<>>
    BY <1>2, <2>1 DEF MainBuild
  <2>3. built = current.router.gen
    BY <1>2 DEF MainBuild, IInv, PublishedCoherent
  <2> QED
    BY <1>1, <2>2, <2>3
<1>3. ASSUME StoreSwap PROVE Published
  <2>1. current'.router = next.router /\ admitted' = <<>>
    BY <1>1, <1>3 DEF StoreSwap, Generation
  <2>2. next.router.gen = current.router.gen + 1
    BY <1>3 DEF StoreSwap, IInv, PublishedCoherent
  <2> QED
    BY <1>1, <2>1, <2>2
<1>4. ASSUME NEW r \in Requests, RequestStep(r)
      PROVE  current'.router = current.router
  <2>1. CASE CompareAndSwap(r) /\ current.ptr = latest[r].ptr
    BY <2>1, SwapEffect
  <2>2. CASE ~(CompareAndSwap(r) /\ current.ptr = latest[r].ptr)
    BY <1>4, <2>2 DEF RequestStep, Begin, Identify, Admit, Retry, LoadLatest, Reserve,
                      CompareAndSwap, Finish
  <2> QED
    BY <2>1, <2>2
<1>5. ASSUME MainBuild, ~loaded.builds
      PROVE  current'.router = current.router
  BY <1>5 DEF MainBuild
<1>6. CASE MainBuild
  BY <1>1, <1>2, <1>5, <1>6
<1>7. CASE EditFile \/ Tick \/ MainStat \/ MainLoad
  BY <1>1, <1>7 DEF EditFile, Tick, MainStat, MainLoad
<1>8. CASE WatchStat \/ WatchLoad \/ WatchBuild \/ StorePrepare \/ StoreClose
  BY <1>1, <1>8 DEF WatchStat, WatchLoad, WatchBuild, StorePrepare, StoreClose
<1>9. CASE UNCHANGED vars
  BY <1>1, <1>9 DEF vars
<1> QED
  BY <1>1, <1>3, <1>4, <1>6, <1>7, <1>8, <1>9 DEF Next, MainStep, WatchStep

\* Every step keeps each request's routers in publication order and its
\* decision unset until it is taken.
LEMMA BehindStep ==
    ASSUME IInv, [Next]_vars
    PROVE  RequestsBehind'
<1> SUFFICES ASSUME NEW q \in Requests
             PROVE  /\ router'[q].gen <= current'.router.gen
                    /\ pc'[q] \in {"reserve", "swap"} => router'[q].gen <= latest'[q].router.gen
                    /\ pc'[q] \in {"new", "identify", "admit", "reserve", "swap", "retry"} =>
                         decidedBy'[q] = 0
                    /\ pc'[q] # "done" => outcome'[q] = "none"
  BY DEF RequestsBehind
<1>1. /\ current.router.gen \in Nat /\ current'.router.gen \in Nat
      /\ current'.router.gen >= current.router.gen
      /\ router[q].gen \in Nat
  BY GenerationsGrow DEF IInv, TypeOK, Router
<1>2. /\ router[q].gen <= current.router.gen
      /\ pc[q] \in {"reserve", "swap"} => router[q].gen <= latest[q].router.gen
      /\ pc[q] \in {"new", "identify", "admit", "reserve", "swap", "retry"} =>
           decidedBy[q] = 0
      /\ pc[q] # "done" => outcome[q] = "none"
  BY DEF IInv, RequestsBehind
<1>3. CASE UNCHANGED <<pc, router, latest, decidedBy, outcome>>
  BY <1>1, <1>2, <1>3
<1>4. CASE EditFile \/ Tick \/ MainStep \/ WatchStep \/ UNCHANGED vars
  BY <1>3, <1>4 DEF EditFile, Tick, MainStep, MainStat, MainLoad, MainBuild, WatchStep,
        WatchStat, WatchLoad, WatchBuild, StorePrepare, StoreSwap, StoreClose,
        requestVars, vars
<1>5. ASSUME NEW r \in Requests, RequestStep(r)
      PROVE  /\ router'[q].gen <= current'.router.gen
             /\ pc'[q] \in {"reserve", "swap"} => router'[q].gen <= latest'[q].router.gen
             /\ pc'[q] \in {"new", "identify", "admit", "reserve", "swap", "retry"} =>
                  decidedBy'[q] = 0
             /\ pc'[q] # "done" => outcome'[q] = "none"
  <2>1. CASE r # q
    <3>1. /\ pc'[q] = pc[q] /\ router'[q] = router[q] /\ latest'[q] = latest[q]
          /\ decidedBy'[q] = decidedBy[q] /\ outcome'[q] = outcome[q]
      BY <1>5, <2>1 DEF RequestStep, Begin, Identify, Admit, Retry, LoadLatest, Reserve,
                        CompareAndSwap, Decided, Finish, IInv, TypeOK
    <3> QED
      BY <1>1, <1>2, <3>1
  <2>2. CASE r = q /\ Begin(q)
    <3>1. /\ router'[q] = current.router /\ current' = current /\ pc[q] = "new"
          /\ pc'[q] = "identify" /\ decidedBy' = decidedBy /\ outcome' = outcome
      BY <2>2 DEF Begin, IInv, TypeOK
    <3> QED
      BY <1>1, <1>2, <3>1
  <2>3. CASE r = q /\ LoadLatest(q) /\ pc[q] \in {"admit", "retry"}
    <3>1. /\ router' = router /\ latest'[q] = current /\ current' = current
          /\ outcome' = outcome
          /\ \/ pc'[q] = "serve"
             \/ pc'[q] = "reserve" /\ decidedBy' = decidedBy
      BY <2>3 DEF LoadLatest, IInv, TypeOK
    <3> QED
      BY <1>1, <1>2, <2>3, <3>1
  <2>4. CASE r = q /\ Reserve(q)
    <3>1. /\ router' = router /\ latest' = latest /\ pc[q] = "reserve"
          /\ decidedBy' = decidedBy /\ outcome' = outcome
      BY <2>4 DEF Reserve
    <3> QED
      BY <1>1, <1>2, <3>1
  <2>5. CASE r = q /\ (Identify(q) \/ Finish(q))
    <3>1. /\ router' = router /\ decidedBy' = decidedBy
          /\ \/ pc'[q] = "done"
             \/ pc'[q] = "admit" /\ pc[q] = "identify" /\ outcome' = outcome
      BY <2>5 DEF Identify, Finish, IInv, TypeOK
    <3> QED
      BY <1>1, <1>2, <3>1
  <2>6. CASE r = q /\ CompareAndSwap(q)
    <3>1. /\ router' = router /\ pc[q] = "swap" /\ outcome' = outcome
          /\ \/ pc'[q] = "serve" \/ pc'[q] = "reject"
             \/ pc'[q] = "retry" /\ decidedBy' = decidedBy
      BY <2>6 DEF CompareAndSwap, Decided, IInv, TypeOK
    <3> QED
      BY <1>1, <1>2, <3>1
  <2> QED
    BY <1>5, <2>1, <2>2, <2>3, <2>4, <2>5, <2>6 DEF RequestStep, Admit, Retry
<1> QED
  BY <1>4, <1>5 DEF Next

\* A successful swap keeps the account of every window that ends now.
LEMMA SwapConserves ==
    ASSUME IInv, NEW r \in Requests, CompareAndSwap(r), current.ptr = latest[r].ptr
    PROVE  Conservation'
<1>1. PICK now \in Nat :
        LET reserved == ReserveBucket(current.bucket, current.router.limit, now)
        IN  /\ current.bucket.last <= now /\ now <= clock
            /\ current.router.limit # NoLimit
            /\ attempt[r].allowed = reserved.allowed
            /\ attempt[r].generation = [current EXCEPT !.bucket = reserved.bucket]
  BY SwapCharges, Zenon
<1>2. /\ current \in Generation /\ Coherent(current) /\ clock \in Nat
      /\ admitted \in Seq(Nat) /\ Conservation
  BY DEF IInv, TypeOK, PublishedCoherent
<1>3. WellFormed(current.bucket) /\ current.bucket.config = current.router.limit
  BY <1>1, <1>2, ChargeCoherent DEF Coherent
<1> DEFINE old == current.bucket
           new == current'.bucket
           balance == ExactBalance(old, now)
           enough == balance >= NanotokensPerToken
           exact == ReserveBucket(old, old.config, now)
<1>4. /\ attempt[r].allowed = enough
      /\ attempt[r].generation.bucket
           = [config |-> old.config, capacity |-> old.capacity,
              tokens |-> IF enough THEN balance - NanotokensPerToken ELSE balance,
              last |-> now]
  <2>1. /\ exact.allowed = enough
        /\ exact.bucket
             = [config |-> old.config, capacity |-> old.capacity,
                tokens |-> IF enough THEN balance - NanotokensPerToken ELSE balance,
                last |-> now]
    BY <1>1, <1>3, ReserveExact, Zenon
  <2>2. exact = ReserveBucket(current.bucket, current.router.limit, now)
    BY <1>3
  <2>3. /\ attempt[r].allowed = exact.allowed
        /\ attempt[r].generation = [current EXCEPT !.bucket = exact.bucket]
    BY <1>1, <2>2, Zenon
  <2> HIDE DEF exact
  <2>4. attempt[r].generation.bucket = exact.bucket
    BY <1>2, <2>3 DEF Generation
  <2> HIDE DEF enough
  <2> QED
    BY <2>1, <2>3, <2>4, Zenon
<1>5. new = attempt[r].generation.bucket
  BY SwapEffect
<1>6. /\ balance \in Nat /\ balance <= old.capacity
      /\ balance <= old.tokens + old.config.rate * (now - old.last)
  BY <1>1, <1>3, ExactBalanceBounds
<1>7. /\ old.tokens \in Nat /\ old.capacity \in Nat /\ old.last \in Nat
      /\ old.config.rate \in Nat
  BY <1>3, WellFormedFacts
<1> HIDE DEF balance
<1> DEFINE rate == old.config.rate
           left == IF enough THEN balance - NanotokensPerToken ELSE balance
<1>8. /\ new.config.rate = rate /\ new.capacity = old.capacity
      /\ new.tokens = left /\ new.last = now
  BY <1>4, <1>5
<1>9. \A i \in 1 .. Len(admitted) :
         /\ admitted[i] \in Nat /\ admitted[i] <= old.last
         /\ Len(admitted) - i + 1 \in Nat
         /\ (Len(admitted) - i + 1) * NanotokensPerToken + balance
              <= old.capacity + rate * (now - admitted[i])
         /\ (Len(admitted) - i + 1 + 1) * NanotokensPerToken
              = (Len(admitted) - i + 1) * NanotokensPerToken + NanotokensPerToken
  <2> SUFFICES ASSUME NEW i \in 1 .. Len(admitted)
               PROVE  /\ admitted[i] \in Nat /\ admitted[i] <= old.last
                      /\ Len(admitted) - i + 1 \in Nat
                      /\ (Len(admitted) - i + 1) * NanotokensPerToken + balance
                           <= old.capacity + rate * (now - admitted[i])
                      /\ (Len(admitted) - i + 1 + 1) * NanotokensPerToken
                           = (Len(admitted) - i + 1) * NanotokensPerToken + NanotokensPerToken
    OBVIOUS
  <2>1. /\ admitted[i] \in Nat /\ admitted[i] <= old.last
        /\ Len(admitted) - i + 1 \in Nat
        /\ (Len(admitted) - i + 1) * NanotokensPerToken + old.tokens
             <= old.capacity + rate * (old.last - admitted[i])
    BY <1>2 DEF Conservation
  <2> DEFINE m == Len(admitted) - i + 1
             a == admitted[i]
  <2>2. /\ m \in Nat /\ a \in Nat /\ a <= old.last
        /\ m * NanotokensPerToken + old.tokens <= old.capacity + rate * (old.last - a)
        /\ balance <= old.tokens + rate * (now - old.last)
        /\ rate \in Nat
    BY <1>6, <1>7, <2>1
  <2> DEFINE tokens == old.tokens
             capacity == old.capacity
             last == old.last
  <2>3. /\ tokens \in Nat /\ capacity \in Nat /\ last \in Nat
        /\ balance \in Nat /\ last <= now /\ a <= last
        /\ m * NanotokensPerToken + tokens <= capacity + rate * (last - a)
        /\ balance <= tokens + rate * (now - last)
    BY <1>1, <1>6, <1>7, <2>2
  <2> HIDE DEF m, a, rate, tokens, capacity, last
  <2>4. /\ m * NanotokensPerToken + balance <= capacity + rate * (now - a)
        /\ (m + 1) * NanotokensPerToken = m * NanotokensPerToken + NanotokensPerToken
    <3>1. /\ rate * (last - a) + rate * (now - last) = rate * (now - a)
          /\ (m + 1) * NanotokensPerToken = m * NanotokensPerToken + NanotokensPerToken
      BY <2>2, <2>3, NanotokensAssumption
    <3>2. /\ m * NanotokensPerToken \in Nat
          /\ rate * (last - a) \in Int /\ rate * (now - last) \in Int
          /\ rate * (now - a) \in Int
      BY <2>2, <2>3, NanotokensAssumption
    <3> QED
      BY <2>2, <2>3, <3>1, <3>2
  <2> QED
    BY <2>2, <2>4 DEF m, a, capacity
<1>10. \A i, j \in 1 .. Len(admitted) :
          i <= j => (j - i + 1) * NanotokensPerToken
                      <= old.capacity + rate * (admitted[j] - admitted[i])
  BY <1>2 DEF Conservation, AdmissionWindow
<1>11. CASE enough
  <2>1. admitted' = Append(admitted, now)
    <3>1. attempt[r].allowed
      BY <1>4, <1>11, Zenon
    <3>2. admitted' = Append(admitted, attempt[r].generation.bucket.last)
      BY <3>1 DEF CompareAndSwap, Decided
    <3> QED
      BY <1>4, <3>2
  <2> DEFINE n == Len(admitted)
  <2>2. /\ n \in Nat /\ Len(admitted') = n + 1 /\ admitted'[n + 1] = now
        /\ \A i \in 1 .. n : admitted'[i] = admitted[i]
    BY <1>2, <2>1, AppendProperties
  <2>3. left = balance - NanotokensPerToken /\ left \in Nat
    BY <1>6, <1>11, NanotokensAssumption
  <2>4. \A i \in 1 .. n + 1 :
           /\ admitted'[i] <= now
           /\ (n + 1 - i + 1) * NanotokensPerToken + left
                <= old.capacity + rate * (now - admitted'[i])
    <3> SUFFICES ASSUME NEW i \in 1 .. n + 1
                 PROVE  /\ admitted'[i] <= now
                        /\ (n + 1 - i + 1) * NanotokensPerToken + left
                             <= old.capacity + rate * (now - admitted'[i])
      OBVIOUS
    <3>1. CASE i = n + 1
      <4>1. n + 1 - i + 1 = 1 /\ now - admitted'[i] = 0
        BY <2>2, <3>1
      <4>2. (n + 1 - i + 1) * NanotokensPerToken = NanotokensPerToken
            /\ rate * (now - admitted'[i]) = 0
        BY <1>7, <4>1, NanotokensAssumption
      <4> QED
        BY <1>6, <1>7, <2>2, <2>3, <3>1, <4>2, NanotokensAssumption
    <3>2. CASE i \in 1 .. n
      <4> DEFINE m == n - i + 1
                 spent == m * NanotokensPerToken
                 gained == rate * (now - admitted[i])
      <4>1. /\ admitted'[i] = admitted[i] /\ admitted[i] <= now /\ m \in Nat
            /\ spent + balance <= old.capacity + gained
            /\ (m + 1) * NanotokensPerToken = spent + NanotokensPerToken
        BY <1>1, <1>7, <1>9, <2>2, <3>2
      <4>2. n + 1 - i + 1 = m + 1
        BY <2>2, <3>2
      <4>3. spent \in Nat /\ gained \in Nat
        <5>1. NanotokensPerToken \in Nat /\ rate \in Nat
          BY <1>7, NanotokensAssumption
        <5>2. now - admitted[i] \in Nat
          BY <1>9, <2>2, <3>2, <4>1
        <5> QED
          BY <4>1, <5>1, <5>2, ProductNat, Zenon
      <4>4. (n + 1 - i + 1) * NanotokensPerToken = spent + NanotokensPerToken
        BY <4>1, <4>2
      <4> HIDE DEF spent, gained, m, left
      <4>5. (n + 1 - i + 1) * NanotokensPerToken + left <= old.capacity + gained
        BY <1>6, <1>7, <2>3, <4>1, <4>3, <4>4, NanotokensAssumption
      <4> QED
        BY <4>1, <4>5 DEF gained
    <3> QED
      BY <2>2, <3>1, <3>2
  <2>5. \A i, j \in 1 .. n + 1 :
           i <= j => (j - i + 1) * NanotokensPerToken
                       <= old.capacity + rate * (admitted'[j] - admitted'[i])
    <3> SUFFICES ASSUME NEW i \in 1 .. n + 1, NEW j \in 1 .. n + 1, i <= j
                 PROVE  (j - i + 1) * NanotokensPerToken
                          <= old.capacity + rate * (admitted'[j] - admitted'[i])
      OBVIOUS
    <3>1. CASE j = n + 1
      <4> DEFINE spent == (n + 1 - i + 1) * NanotokensPerToken
                 gained == rate * (now - admitted'[i])
      <4>1. spent + left <= old.capacity + gained
        BY <2>4
      <4>2. spent \in Nat /\ gained \in Nat
        <5>1. n + 1 - i + 1 \in Nat
          BY <2>2
        <5>2. admitted'[i] \in Nat
          BY <1>9, <2>2
        <5>3. now - admitted'[i] \in Nat
          BY <2>4, <5>2
        <5>4. NanotokensPerToken \in Nat /\ rate \in Nat
          BY <1>7, NanotokensAssumption
        <5> QED
          BY <5>1, <5>3, <5>4, ProductNat, Zenon
      <4> HIDE DEF spent, gained, left
      <4>3. spent <= old.capacity + gained
        BY <1>7, <2>3, <4>1, <4>2
      <4> QED
        BY <2>2, <3>1, <4>3 DEF spent, gained
    <3>2. CASE j \in 1 .. n
      BY <1>10, <2>2, <3>2
    <3> QED
      BY <2>2, <3>1, <3>2
  <2> QED
    BY <1>8, <2>2, <2>4, <2>5 DEF Conservation, AdmissionWindow
<1>12. CASE ~enough
  <2>1. admitted' = admitted
    <3>1. ~attempt[r].allowed
      BY <1>4, <1>12, Zenon
    <3> QED
      BY <3>1 DEF CompareAndSwap, Decided
  <2>2. left = balance
    BY <1>12
  <2>3. \A i \in 1 .. Len(admitted) : admitted[i] <= now
    BY <1>1, <1>7, <1>9
  <2> QED
    BY <1>8, <1>9, <1>10, <2>1, <2>2, <2>3 DEF Conservation, AdmissionWindow
<1> QED
  BY <1>11, <1>12

\* Every step keeps the account of the admissions: only a successful swap adds
\* to it, and a publication starts it afresh.
LEMMA ConservationStep ==
    ASSUME IInv, [Next]_vars
    PROVE  Conservation'
<1>1. CASE UNCHANGED <<current, admitted>>
  BY <1>1 DEF IInv, Conservation, AdmissionWindow
<1>2. CASE admitted' = <<>>
  BY <1>2 DEF Conservation, AdmissionWindow
<1>3. CASE EditFile \/ Tick \/ MainStep \/ WatchStep \/ UNCHANGED vars
  BY <1>1, <1>2, <1>3 DEF EditFile, Tick, MainStep, MainStat, MainLoad, MainBuild, WatchStep,
        WatchStat, WatchLoad, WatchBuild, StorePrepare, StoreSwap, StoreClose, vars
<1>4. ASSUME NEW r \in Requests, RequestStep(r) PROVE Conservation'
  <2>1. CASE CompareAndSwap(r) /\ current.ptr = latest[r].ptr
    BY <2>1, SwapConserves
  <2>2. CASE ~(CompareAndSwap(r) /\ current.ptr = latest[r].ptr)
    BY <1>1, <1>4, <2>2 DEF RequestStep, Begin, Identify, Admit, Retry, LoadLatest, Reserve,
                           CompareAndSwap, Finish
  <2> QED
    BY <2>1, <2>2
<1> QED
  BY <1>3, <1>4 DEF Next

-----------------------------------------------------------------------------
(* Certificates and closed routers.  The watcher's own account of what it  *)
(* has replaced is a second inductive invariant, on top of the first.      *)

\* What NewCertificate gives the generation gen of a process that serves, or
\* does not serve, TLS.
CertificateOf(gen) == IF started.tls THEN gen ELSE 0

\* The generation under construction has the TLS mode the process started
\* with, so its certificate is the one its number calls for; the published one
\* has been built the same way.
CertificatesInv ==
    /\ wpc = "mainBuild" => loaded = started
    /\ wpc = "build" => loaded.tls = started.tls
    /\ wpc \in {"prepare", "swap"} => next.certificate = CertificateOf(next.router.gen)
    /\ CertificatePaired

\* Nothing is published before main publishes; from then on `closed` is every
\* earlier generation, and the one being closed is the last of them.
ClosedInv ==
    /\ Serving => current.router.gen > 0
    /\ ~Serving => current.router.gen = 0
    /\ wpc = "close" => /\ next.router.gen = current.router.gen - 1
                        /\ next.router.gen > 0
    /\ ReplacedRoutersAreClosed

WatcherInv == CertificatesInv /\ ClosedInv

\* No request's step touches what the watcher keeps, nor the number and the
\* certificate of the published generation.
LEMMA RequestsKeepWatcher ==
    ASSUME IInv, NEW r \in Requests, RequestStep(r)
    PROVE  /\ UNCHANGED watchVars
           /\ current'.router.gen = current.router.gen
           /\ current'.certificate = current.certificate
<1>1. UNCHANGED watchVars
  BY DEF RequestStep, Begin, Identify, Admit, Retry, LoadLatest, Reserve, CompareAndSwap, Finish
<1>2. CASE CompareAndSwap(r) /\ current.ptr = latest[r].ptr
  BY <1>1, <1>2, SwapEffect
<1>3. CASE ~(CompareAndSwap(r) /\ current.ptr = latest[r].ptr)
  BY <1>1, <1>3 DEF RequestStep, Begin, Identify, Admit, Retry, LoadLatest, Reserve,
                    CompareAndSwap, Finish
<1> QED
  BY <1>2, <1>3

\* Nothing has been published, built or closed at the start.
LEMMA InitWatcherInv == Init => WatcherInv
<1> SUFFICES ASSUME Init PROVE WatcherInv
  OBVIOUS
<1>1. current.router.gen = 0 /\ closed = {} /\ wpc = "mainStat"
  BY NilGenerationType DEF Init
<1>2. 1 .. 0 - 1 = {}
  OBVIOUS
<1>3. CertificatesInv
  BY <1>1 DEF CertificatesInv, CertificatePaired, Serving
<1>4. ClosedInv
  BY <1>1, <1>2 DEF ClosedInv, ReplacedRoutersAreClosed, Serving
<1> QED
  BY <1>3, <1>4 DEF WatcherInv

\* Every step keeps the certificate with its generation: the checks of
\* watchConfig let only texts with the listener's TLS mode be built.
LEMMA CertificatesStep ==
    ASSUME IInv, WatcherInv, [Next]_vars
    PROVE  CertificatesInv'
<1>1. /\ CertificatesInv
      /\ current \in Generation /\ next \in Generation /\ built \in Nat
  BY DEF IInv, TypeOK, WatcherInv
<1>2. ASSUME UNCHANGED watchVars, current'.router.gen = current.router.gen,
             current'.certificate = current.certificate
      PROVE  CertificatesInv'
  BY <1>1, <1>2 DEF CertificatesInv, CertificateOf, CertificatePaired, Serving, watchVars
<1>3. CASE EditFile \/ Tick \/ UNCHANGED vars
  BY <1>2, <1>3 DEF EditFile, Tick, vars
<1>4. CASE MainStat \/ MainLoad
  BY <1>1, <1>4 DEF MainStat, MainLoad, CertificatesInv, CertificatePaired, Serving
<1>5. CASE MainBuild
  <2>1. CASE loaded.builds
    <3>1. NewRouter(loaded, built + 1).gen = built + 1
      BY DEF NewRouter
    <3>2. /\ current'.router.gen = built + 1
          /\ current'.certificate = NewCertificate(loaded, built + 1)
          /\ wpc' = "poll" /\ started' = started /\ loaded = started
      BY <1>1, <1>5, <2>1, <3>1 DEF MainBuild, CertificatesInv
    <3> QED
      BY <3>2 DEF CertificatesInv, CertificatePaired, NewCertificate
  <2>2. CASE ~loaded.builds
    BY <1>5, <2>2 DEF MainBuild, CertificatesInv, CertificatePaired, Serving
  <2> QED
    BY <2>1, <2>2
<1>6. CASE WatchStat \/ WatchLoad
  BY <1>1, <1>6 DEF WatchStat, WatchLoad, Reloadable, CertificatesInv, CertificatePaired, Serving
<1>7. CASE WatchBuild
  <2>1. CASE loaded.builds
    <3>1. NewRouter(loaded, built + 1).gen = built + 1
      BY DEF NewRouter
    <3>2. /\ next'.router.gen = built + 1
          /\ next'.certificate = NewCertificate(loaded, built + 1)
          /\ wpc' = "prepare" /\ UNCHANGED <<started, current>> /\ loaded.tls = started.tls
      BY <1>1, <1>7, <2>1, <3>1 DEF WatchBuild, CertificatesInv
    <3>3. next'.certificate = CertificateOf(next.router.gen)'
      BY <3>2 DEF NewCertificate, CertificateOf
    <3> QED
      BY <1>1, <1>7, <3>2, <3>3 DEF WatchBuild, CertificatesInv, CertificatePaired, Serving
  <2>2. CASE ~loaded.builds
    BY <1>1, <1>7, <2>2 DEF WatchBuild, CertificatesInv, CertificatePaired, Serving
  <2> QED
    BY <2>1, <2>2
<1>8. CASE StorePrepare
  <2>1. next'.router = next.router /\ next'.certificate = next.certificate
    BY <1>1, <1>8 DEF StorePrepare, Generation
  <2> QED
    BY <1>1, <1>8, <2>1 DEF StorePrepare, CertificatesInv, CertificateOf, CertificatePaired,
                            Serving
<1>9. CASE StoreSwap
  <2>1. current'.router = next.router /\ current'.certificate = next.certificate
    BY <1>1, <1>9 DEF StoreSwap, Generation
  <2> QED
    BY <1>1, <1>9, <2>1 DEF StoreSwap, CertificatesInv, CertificateOf, CertificatePaired
<1>10. CASE StoreClose
  BY <1>1, <1>10 DEF StoreClose, CertificatesInv, CertificatePaired, Serving
<1>11. ASSUME NEW r \in Requests, RequestStep(r) PROVE CertificatesInv'
  BY <1>2, <1>11, RequestsKeepWatcher
<1> QED
  BY <1>3, <1>4, <1>5, <1>6, <1>7, <1>8, <1>9, <1>10, <1>11 DEF Next, MainStep, WatchStep

\* Every step keeps the account of the closed routers: a swap leaves one
\* router to be closed, and it is closed before the next swap.
LEMMA ClosedStep ==
    ASSUME IInv, WatcherInv, [Next]_vars
    PROVE  ClosedInv'
<1>1. /\ ClosedInv /\ PublishedCoherent
      /\ current \in Generation /\ next \in Generation
      /\ current.router.gen \in Nat /\ next.router.gen \in Nat
  BY DEF IInv, TypeOK, WatcherInv, Generation, Router
<1>2. ASSUME UNCHANGED <<wpc, next, closed>>, current'.router.gen = current.router.gen
      PROVE  ClosedInv'
  BY <1>1, <1>2 DEF ClosedInv, ReplacedRoutersAreClosed, Serving
<1>3. CASE EditFile \/ Tick \/ UNCHANGED vars
  BY <1>2, <1>3 DEF EditFile, Tick, watchVars, vars
<1>4. ASSUME UNCHANGED <<current, closed>>, wpc # "close", wpc' # "close",
             Serving' <=> Serving
      PROVE  ClosedInv'
  BY <1>1, <1>4 DEF ClosedInv, ReplacedRoutersAreClosed
<1>5. CASE MainStat \/ MainLoad
  BY <1>4, <1>5 DEF MainStat, MainLoad, Serving
<1>6. CASE MainBuild
  <2>1. CASE loaded.builds
    <3>1. NewRouter(loaded, built + 1).gen = built + 1
      BY DEF NewRouter
    <3>2. /\ current.router.gen = 0 /\ built = 0
          /\ closed' = closed /\ wpc' = "poll" /\ wpc = "mainBuild"
          /\ current'.router.gen = built + 1
      BY <1>1, <1>6, <2>1, <3>1 DEF MainBuild, ClosedInv, PublishedCoherent, Serving
    <3>3. closed = 1 .. 0 - 1
      BY <1>1, <3>2 DEF ClosedInv, ReplacedRoutersAreClosed
    <3>4. 1 .. 0 - 1 = 1 .. 1 - 1
      OBVIOUS
    <3> QED
      BY <3>2, <3>3, <3>4 DEF ClosedInv, ReplacedRoutersAreClosed, Serving
  <2>2. CASE ~loaded.builds
    BY <1>4, <1>6, <2>2 DEF MainBuild, Serving
  <2> QED
    BY <2>1, <2>2
<1>7. CASE WatchStat \/ WatchLoad \/ WatchBuild \/ StorePrepare
  BY <1>4, <1>7 DEF WatchStat, WatchLoad, WatchBuild, StorePrepare, Serving
<1>8. CASE StoreSwap
  <2>1. /\ current'.router = next.router /\ next' = current /\ closed' = closed
        /\ wpc' = "close" /\ wpc = "swap"
    BY <1>1, <1>8 DEF StoreSwap, Generation
  <2>2. /\ next.router.gen = current.router.gen + 1 /\ current.router.gen > 0
        /\ closed = 1 .. current.router.gen - 1
    BY <1>1, <2>1 DEF PublishedCoherent, ClosedInv, ReplacedRoutersAreClosed, Serving
  <2>3. 1 .. current.router.gen - 1
          = (1 .. current.router.gen + 1 - 1) \ {current.router.gen}
    BY <1>1, <2>2
  <2> QED
    BY <1>1, <2>1, <2>2, <2>3 DEF ClosedInv, ReplacedRoutersAreClosed, Serving
<1>9. CASE StoreClose
  <2>1. /\ current' = current /\ wpc' = "poll" /\ wpc = "close"
        /\ closed' = closed \union {next.router.gen}
    BY <1>9 DEF StoreClose
  <2>2. /\ next.router.gen = current.router.gen - 1 /\ next.router.gen > 0
        /\ closed = (1 .. current.router.gen - 1) \ {next.router.gen}
        /\ current.router.gen > 0
    BY <1>1, <2>1 DEF ClosedInv, ReplacedRoutersAreClosed, Serving
  <2>3. next.router.gen \in 1 .. current.router.gen - 1
    BY <1>1, <2>2
  <2>4. closed' = 1 .. current.router.gen - 1
    BY <2>1, <2>2, <2>3
  <2> QED
    BY <2>1, <2>2, <2>4 DEF ClosedInv, ReplacedRoutersAreClosed, Serving
<1>10. ASSUME NEW r \in Requests, RequestStep(r) PROVE ClosedInv'
  BY <1>2, <1>10, RequestsKeepWatcher DEF watchVars
<1> QED
  BY <1>3, <1>5, <1>6, <1>7, <1>8, <1>9, <1>10 DEF Next, MainStep, WatchStep

-----------------------------------------------------------------------------
(* The theorems.                                                           *)

\* IInv holds in every reachable state, for every instance of the constants.
THEOREM Invariance == Spec => []IInv
<1>1. IInv /\ [Next]_vars => IInv'
  BY TypeStep, PublishedStep, LoadedStep, AttemptStep, BehindStep, ConservationStep DEF IInv
<1> QED
  BY InitIInv, <1>1, PTL DEF Spec

\* Every variable keeps its type; the balance of the bucket stays a natural
\* number although reserveBucket subtracts from it.
THEOREM TypeCorrect == Spec => []TypeOK
<1>1. IInv => TypeOK
  BY DEF IInv
<1> QED
  BY Invariance, <1>1, PTL

\* However the compare-and-swap loops of any number of requests interleave,
\* one published limit admits no more than its burst and its rate allow in any
\* window of time.
THEOREM NoOverAdmission == Spec => []AdmissionWindow
<1>1. IInv => AdmissionWindow
  BY DEF IInv, Conservation
<1> QED
  BY Invariance, <1>1, PTL

\* The published bucket always belongs to the published router's limit: the
\* branch of reserveBucket that grants without looking is dead code here.
THEOREM BucketBelongs == Spec => []BucketFollowsLimit
<1>1. IInv => BucketFollowsLimit
  BY DEF IInv, PublishedCoherent, Coherent, BucketFollowsLimit
<1> QED
  BY Invariance, <1>1, PTL

\* No swap ever brings a replaced generation back or takes back an admission.
THEOREM Monotonic == Spec => NeverReverts
<1> DEFINE A == /\ current'.router.gen >= current.router.gen
                /\ current'.router.gen = current.router.gen =>
                     /\ Len(admitted') >= Len(admitted)
                     /\ current'.bucket.last >= current.bucket.last
<1>1. ASSUME IInv, [Next]_vars PROVE [A]_<<current, admitted>>
  <2>1. /\ current.router.gen \in Nat /\ current'.router.gen \in Nat
        /\ current'.router.gen >= current.router.gen
        /\ \/ current'.router = current.router
           \/ current'.router.gen > current.router.gen /\ admitted' = <<>>
    BY <1>1, GenerationsGrow
  <2>2. admitted \in Seq(Nat) /\ Len(admitted) \in Nat /\ current.bucket.last \in Nat
    BY <1>1 DEF IInv, TypeOK, Generation, Bucket
  <2>3. CASE current'.router.gen > current.router.gen
    BY <2>1, <2>3
  <2>4. CASE UNCHANGED <<current, admitted>>
    BY <2>4
  <2>5. ASSUME NEW r \in Requests, CompareAndSwap(r), current.ptr = latest[r].ptr
        PROVE  A
    <3>1. current.bucket.last <= current'.bucket.last
      BY <1>1, <2>5, SwapEffect
    <3>2. current'.bucket.last \in Nat
      BY <1>1, TypeStep DEF TypeOK, Generation, Bucket
    <3>3. attempt[r].generation.bucket.last \in Nat
      <4>1. attempt[r] \in [generation : Generation, allowed : BOOLEAN]
        BY <1>1 DEF IInv, TypeOK
      <4> QED
        BY <4>1 DEF Generation, Bucket
    <3>4. \/ admitted' = admitted
          \/ admitted' = Append(admitted, attempt[r].generation.bucket.last)
      BY <2>5 DEF CompareAndSwap, Decided
    <3>5. Len(admitted') >= Len(admitted)
      BY <2>2, <3>3, <3>4, AppendProperties
    <3> QED
      BY <2>1, <2>2, <3>1, <3>2, <3>5
  <2>6. ASSUME NEW r \in Requests, RequestStep(r)
        PROVE  \/ UNCHANGED <<current, admitted>>
               \/ CompareAndSwap(r) /\ current.ptr = latest[r].ptr
    BY <2>6 DEF RequestStep, Begin, Identify, Admit, Retry, LoadLatest, Reserve,
                CompareAndSwap, Finish
  <2>7. CASE MainBuild
    <3>1. CASE loaded.builds
      <4>1. NewRouter(loaded, built + 1).gen = built + 1
        BY DEF NewRouter
      <4>2. current'.router.gen = built + 1
        BY <2>7, <3>1, <4>1 DEF MainBuild
      <4>3. built = current.router.gen
        BY <1>1, <2>7 DEF MainBuild, IInv, PublishedCoherent
      <4> QED
        BY <2>1, <2>3, <4>2, <4>3
    <3>2. CASE ~loaded.builds
      <4>1. current' = current
        BY <2>7, <3>2 DEF MainBuild
      <4>2. admitted' = admitted
        BY <2>7, <3>2 DEF MainBuild
      <4> QED
        BY <2>4, <4>1, <4>2
    <3> QED
      BY <3>1, <3>2
  <2>8. CASE StoreSwap
    <3>1. next \in Generation /\ current' = [next EXCEPT !.ptr = current.ptr + 1]
      BY <1>1, <2>8 DEF StoreSwap, IInv, TypeOK
    <3>2. current'.router = next.router
      BY <3>1 DEF Generation
    <3>3. next.router.gen = current.router.gen + 1
      BY <1>1, <2>8 DEF StoreSwap, IInv, PublishedCoherent
    <3> QED
      BY <2>1, <2>3, <3>2, <3>3
  <2>9. CASE EditFile \/ Tick \/ MainStat \/ MainLoad \/ WatchStat \/ WatchLoad
             \/ WatchBuild \/ StorePrepare \/ StoreClose
    BY <2>4, <2>9 DEF EditFile, Tick, MainStat, MainLoad, WatchStat, WatchLoad, WatchBuild,
                      StorePrepare, StoreClose
  <2>10. CASE UNCHANGED vars
    BY <2>4, <2>10 DEF vars
  <2>11. ASSUME NEW r \in Requests, RequestStep(r) PROVE [A]_<<current, admitted>>
    BY <2>4, <2>5, <2>6, <2>11
  <2> HIDE DEF A
  <2> QED
    BY <1>1, <2>7, <2>8, <2>9, <2>10, <2>11 DEF Next, MainStep, WatchStep
<1> QED
  BY Invariance, <1>1, PTL DEF Spec, NeverReverts

\* Every decision is taken once, by the limit published at that moment, which
\* is no older than the router that serves the request.
THEOREM DecisionsCurrent == Spec => DecidedByCurrent
<1> DEFINE A(r) == decidedBy'[r] # decidedBy[r] =>
                     /\ decidedBy[r] = 0
                     /\ decidedBy'[r] = current.router.gen
                     /\ decidedBy'[r] >= router[r].gen
<1>1. ASSUME IInv, [Next]_vars PROVE [\A r \in Requests : A(r)]_decidedBy
  <2> SUFFICES ASSUME NEW q \in Requests, decidedBy'[q] # decidedBy[q]
               PROVE  A(q)
    OBVIOUS
  <2>1. router[q].gen <= current.router.gen /\ current.router.gen \in Nat
        /\ router[q].gen \in Nat
    BY <1>1 DEF IInv, TypeOK, RequestsBehind, Generation, Router
  <2>2. PICK r \in Requests : \/ LoadLatest(r) /\ pc[r] \in {"admit", "retry"}
                              \/ CompareAndSwap(r) /\ current.ptr = latest[r].ptr
    <3>1. ASSUME EditFile \/ Tick \/ MainStep \/ WatchStep \/ UNCHANGED vars
          PROVE  FALSE
      BY <3>1 DEF EditFile, Tick, MainStep, MainStat, MainLoad, MainBuild, WatchStep,
            WatchStat, WatchLoad, WatchBuild, StorePrepare, StoreSwap, StoreClose,
            requestVars, vars
    <3>2. ASSUME NEW r \in Requests, RequestStep(r)
          PROVE  \/ LoadLatest(r) /\ pc[r] \in {"admit", "retry"}
                 \/ CompareAndSwap(r) /\ current.ptr = latest[r].ptr
      BY <3>2 DEF RequestStep, Begin, Identify, Admit, Retry, Reserve, CompareAndSwap, Finish
    <3> QED
      BY <1>1, <3>1, <3>2 DEF Next
  <2>3. CASE LoadLatest(r) /\ pc[r] \in {"admit", "retry"}
    <3>1. r = q /\ decidedBy'[q] = current.router.gen
      BY <1>1, <2>3 DEF LoadLatest, IInv, TypeOK
    <3> QED
      BY <1>1, <2>1, <2>3, <3>1 DEF IInv, RequestsBehind
  <2>4. CASE CompareAndSwap(r) /\ current.ptr = latest[r].ptr
    <3>1. r = q /\ decidedBy'[q] = latest[q].router.gen /\ pc[q] = "swap"
      BY <1>1, <2>4 DEF CompareAndSwap, Decided, IInv, TypeOK
    <3>2. latest[q] = current
      BY <1>1, <2>4, <3>1 DEF IInv, LoadedCoherent
    <3> QED
      BY <1>1, <2>1, <3>1, <3>2 DEF IInv, RequestsBehind
  <2> QED
    BY <2>2, <2>3, <2>4
<1> QED
  BY Invariance, <1>1, PTL DEF Spec, DecidedByCurrent

\* WatcherInv holds in every reachable state: no text that would need another
\* listener is ever built, and routers are closed in the order of publication.
THEOREM WatcherInvariance == Spec => []WatcherInv
<1>1. IInv /\ WatcherInv /\ [Next]_vars => WatcherInv'
  BY CertificatesStep, ClosedStep DEF WatcherInv
<1> QED
  BY Invariance, InitWatcherInv, <1>1, PTL DEF Spec

\* The published certificate is the one loaded with the published router, and
\* the process keeps serving, or not serving, TLS as it started to.
THEOREM CertificateAndRouter == Spec => []CertificatePaired
<1>1. WatcherInv => CertificatePaired
  BY DEF WatcherInv, CertificatesInv
<1> QED
  BY WatcherInvariance, <1>1, PTL

\* No replaced router is left open, and no published one is closed, whatever
\* reloads fail and whatever requests swap in between.
THEOREM EveryReplacedIsClosed == Spec => []ReplacedRoutersAreClosed
<1>1. WatcherInv => ReplacedRoutersAreClosed
  BY DEF WatcherInv, ClosedInv
<1> QED
  BY WatcherInvariance, <1>1, PTL
=============================================================================
