------------------------- MODULE TokenBucketProofs -------------------------
(***************************************************************************)
(* What the arithmetic of TokenBucket computes, for every balance, rate    *)
(* and time: saturation and the cap together give the exact minimum, and   *)
(* a reservation keeps the bucket well formed.                             *)
(***************************************************************************)
EXTENDS TokenBucket, TLAPS

\* A bucket that belongs to a limit and is filled to its capacity at most.
WellFormed(bucket) ==
    /\ bucket \in Bucket
    /\ bucket.config \in Limit
    /\ bucket.capacity = bucket.config.burst * NanotokensPerToken
    /\ bucket.tokens <= bucket.capacity

\* The balance at time `now`, in exact arithmetic.
ExactBalance(bucket, now) ==
    LET refilled == bucket.tokens + bucket.config.rate * (now - bucket.last)
    IN  IF refilled > bucket.capacity THEN bucket.capacity ELSE refilled

\* saturatingMultiply is multiplication cut off at MaxInt64.
LEMMA SaturatingMultiplyExact ==
    ASSUME NEW left \in Nat, NEW right \in Nat
    PROVE  SaturatingMultiply(left, right)
             = IF left * right > MaxInt64 THEN MaxInt64 ELSE left * right
<1>1. CASE left = 0 \/ right = 0
  <2>1. left * right = 0
    BY <1>1
  <2>2. SaturatingMultiply(left, right) = 0
    BY <1>1 DEF SaturatingMultiply
  <2> QED
    BY <2>1, <2>2, MaxInt64Assumption
<1>2. CASE left > 0 /\ right > 0
  <2> DEFINE q == MaxInt64 \div right
  <2>1. q \in Nat /\ q * right <= MaxInt64 /\ MaxInt64 < (q + 1) * right
    BY <1>2, MaxInt64Assumption
  <2> HIDE DEF q
  <2>2. CASE left > q
    <3>1. left >= q + 1
      BY <2>1, <2>2
    <3>2. left * right >= (q + 1) * right
      BY <2>1, <3>1, SMT
    <3>3. left * right > MaxInt64
      BY <2>1, <3>2, MaxInt64Assumption
    <3>4. SaturatingMultiply(left, right) = MaxInt64
      BY <1>2, <2>2 DEF SaturatingMultiply, q
    <3> QED
      BY <3>3, <3>4
  <2>3. CASE ~(left > q)
    <3>1. left * right <= q * right
      BY <2>1, <2>3, SMT
    <3>2. left * right <= MaxInt64
      BY <2>1, <3>1, MaxInt64Assumption
    <3>3. ~(left <= 0 \/ right <= 0) /\ ~(left > MaxInt64 \div right)
      BY <1>2, <2>3 DEF q
    <3>4. SaturatingMultiply(left, right) = left * right
      BY <3>3, Zenon DEF SaturatingMultiply
    <3> QED
      BY <3>2, <3>4, MaxInt64Assumption
  <2> QED
    BY <2>2, <2>3
<1> QED
  BY <1>1, <1>2

\* A product of naturals is a natural (stated once, so that later steps can
\* treat the product as a number).
LEMMA ProductNat ==
    ASSUME NEW a \in Nat, NEW b \in Nat
    PROVE  a * b \in Nat
  OBVIOUS

\* A refill at a sample that is not earlier than the last one leaves exactly
\* the minimum of the capacity and of what time has restored: neither overflow
\* check of reserveBucket ever changes the result.
THEOREM RefillExact ==
    ASSUME NEW bucket, WellFormed(bucket), NEW now \in Nat, bucket.last <= now
    PROVE  Refill(bucket, now)
             = [config |-> bucket.config, capacity |-> bucket.capacity,
                tokens |-> ExactBalance(bucket, now), last |-> now]
<1> DEFINE elapsed == now - bucket.last
           rate == bucket.config.rate
<1>1. elapsed \in Nat /\ rate \in Nat /\ ~(now < bucket.last)
  BY DEF WellFormed, Bucket, Limit
<1>2. /\ bucket.capacity \in Nat /\ bucket.capacity <= MaxInt64
      /\ bucket.tokens \in Nat /\ bucket.tokens <= bucket.capacity
  BY DEF WellFormed, Bucket, Limit
<1>3. elapsed * rate \in Nat /\ elapsed * rate = rate * elapsed
  BY <1>1, ProductNat
<1>4. SaturatingMultiply(elapsed, rate)
        = IF elapsed * rate > MaxInt64 THEN MaxInt64 ELSE elapsed * rate
  BY <1>1, SaturatingMultiplyExact
<1> DEFINE product == elapsed * rate
           filled == SaturatingAdd(bucket.tokens, SaturatingMultiply(elapsed, rate))
<1>5. (IF filled > bucket.capacity THEN bucket.capacity ELSE filled)
        = IF bucket.tokens + product > bucket.capacity
          THEN bucket.capacity ELSE bucket.tokens + product
  <2>1. product \in Nat
    BY <1>3
  <2>2. SaturatingMultiply(elapsed, rate)
          = IF product > MaxInt64 THEN MaxInt64 ELSE product
    BY <1>4
  <2> HIDE DEF product, elapsed, rate
  <2> QED
    BY <1>2, <2>1, <2>2, MaxInt64Assumption DEF SaturatingAdd
<1> QED
  BY <1>1, <1>3, <1>5 DEF Refill, ExactBalance

\* What is in a well-formed bucket, with the product that makes its capacity.
LEMMA WellFormedFacts ==
    ASSUME NEW bucket, WellFormed(bucket)
    PROVE  /\ bucket.config \in Limit /\ bucket.config # NoLimit
           /\ bucket.config.rate \in Nat
           /\ bucket.capacity \in Nat /\ bucket.tokens \in Nat /\ bucket.last \in Nat
           /\ bucket = [config |-> bucket.config, capacity |-> bucket.capacity,
                        tokens |-> bucket.tokens, last |-> bucket.last]
  BY DEF WellFormed, Bucket, Limit, NoLimit

\* A new limit starts with a well-formed bucket.
LEMMA NewBucketWellFormed ==
    ASSUME NEW limit \in Limit, NEW now \in Nat
    PROVE  /\ WellFormed(NewRateLimitStateValue(limit, now))
           /\ NewRateLimitStateValue(limit, now)
                = [config |-> limit, capacity |-> limit.burst * NanotokensPerToken,
                   tokens |-> limit.burst * NanotokensPerToken, last |-> now]
<1>1. limit # NoLimit /\ limit.burst \in Nat
  BY DEF Limit, NoLimit
<1>2. limit.burst * NanotokensPerToken \in Nat
  BY <1>1, ProductNat, NanotokensAssumption
<1> QED
  BY <1>1, <1>2 DEF NewRateLimitStateValue, WellFormed, Bucket

\* The exact balance is a natural number between zero and the capacity and is
\* at most what the old balance and the elapsed time come to.
LEMMA ExactBalanceBounds ==
    ASSUME NEW bucket, WellFormed(bucket), NEW now \in Nat, bucket.last <= now
    PROVE  /\ ExactBalance(bucket, now) \in Nat
           /\ ExactBalance(bucket, now) <= bucket.capacity
           /\ ExactBalance(bucket, now)
                <= bucket.tokens + bucket.config.rate * (now - bucket.last)
<1> DEFINE restored == bucket.config.rate * (now - bucket.last)
<1>1. restored \in Nat
  BY WellFormedFacts, ProductNat
<1>2. ExactBalance(bucket, now) = IF bucket.tokens + restored > bucket.capacity
                                  THEN bucket.capacity ELSE bucket.tokens + restored
  BY DEF ExactBalance
<1> HIDE DEF restored
<1>3. bucket.capacity \in Nat /\ bucket.tokens \in Nat
  BY WellFormedFacts
<1>4. /\ ExactBalance(bucket, now) \in Nat
      /\ ExactBalance(bucket, now) <= bucket.capacity
      /\ ExactBalance(bucket, now) <= bucket.tokens + restored
  BY <1>1, <1>2, <1>3
<1> QED
  BY <1>4 DEF restored

\* A reservation at a sample that is not earlier than the last one admits
\* exactly when the exact balance holds a token, takes that token and nothing
\* else, and leaves a well-formed bucket of the same limit.
THEOREM ReserveExact ==
    ASSUME NEW bucket, WellFormed(bucket), NEW now \in Nat, bucket.last <= now
    PROVE  LET reserved == ReserveBucket(bucket, bucket.config, now)
               balance  == ExactBalance(bucket, now)
           IN  /\ reserved.allowed = (balance >= NanotokensPerToken)
               /\ reserved.bucket
                    = [config |-> bucket.config, capacity |-> bucket.capacity,
                       tokens |-> IF balance >= NanotokensPerToken
                                  THEN balance - NanotokensPerToken ELSE balance,
                       last |-> now]
               /\ WellFormed(reserved.bucket)
<1> DEFINE reserved == ReserveBucket(bucket, bucket.config, now)
           balance  == ExactBalance(bucket, now)
           filled   == [config |-> bucket.config, capacity |-> bucket.capacity,
                        tokens |-> balance, last |-> now]
           enough   == balance >= NanotokensPerToken
<1>1. Refill(bucket, now) = filled
  BY RefillExact
<1>2. balance \in Nat /\ balance <= bucket.capacity
  BY ExactBalanceBounds
<1> HIDE DEF balance
<1>3. reserved = [bucket |-> IF enough THEN TakeToken(filled) ELSE filled,
                  allowed |-> enough]
  <2>1. filled.tokens = balance
    OBVIOUS
  <2> HIDE DEF filled
  <2> QED
    BY <1>1, <2>1, Zenon DEF ReserveBucket
<1>4. TakeToken(filled) = [config |-> bucket.config, capacity |-> bucket.capacity,
                           tokens |-> balance - NanotokensPerToken, last |-> now]
  BY DEF TakeToken
<1>5. reserved.allowed = enough
  <2> HIDE DEF reserved, enough, filled
  <2> QED
    BY <1>3
<1>6. reserved.bucket = IF enough THEN TakeToken(filled) ELSE filled
  BY <1>3
<1>7. reserved.bucket
        = [config |-> bucket.config, capacity |-> bucket.capacity,
           tokens |-> IF enough THEN balance - NanotokensPerToken ELSE balance,
           last |-> now]
  BY <1>4, <1>6
<1>8. WellFormed(reserved.bucket)
  <2> HIDE DEF reserved
  <2>1. (IF enough THEN balance - NanotokensPerToken ELSE balance) \in 0 .. balance
    BY <1>2, NanotokensAssumption
  <2> DEFINE left == IF enough THEN balance - NanotokensPerToken ELSE balance
  <2>2. left \in Nat /\ left <= bucket.capacity
    BY <1>2, <2>1, WellFormedFacts
  <2> HIDE DEF left, enough
  <2>3. reserved.bucket = [config |-> bucket.config, capacity |-> bucket.capacity,
                           tokens |-> left, last |-> now]
    BY <1>7 DEF left
  <2> QED
    BY <2>2, <2>3 DEF WellFormed, Bucket
<1> QED
  BY <1>5, <1>7, <1>8 DEF balance
=============================================================================
