---------------------------- MODULE TokenBucket ----------------------------
(***************************************************************************)
(* The token arithmetic of rate_limit.go.  A balance is an integer number  *)
(* of nanotokens, a time is an integer number of clock ticks, and a limit  *)
(* of `rate` restores `rate` nanotokens in each tick.                       *)
(*                                                                         *)
(* A limitConfig is compared by pointer in the code, so a limit carries an *)
(* identity: two limits with equal numbers and different identities are    *)
(* different configurations.  NoLimit stands for the nil pointer.          *)
(***************************************************************************)
EXTENDS Integers

CONSTANTS NanotokensPerToken,  \* nanotokensPerToken, 10^9 in the program
          MaxInt64             \* maxInt64, 2^63 - 1 in the program

ASSUME NanotokensAssumption == NanotokensPerToken \in Nat \ {0}
ASSUME MaxInt64Assumption == MaxInt64 \in Nat

NoLimit == [id |-> 0, rate |-> 0, burst |-> 0]

\* What loadConfig lets through: a positive rate, a positive burst, and a
\* capacity that fits an int64.
Limit == {l \in [id : Nat, rate : Nat \ {0}, burst : Nat \ {0}] :
            /\ l.id # 0
            /\ l.burst * NanotokensPerToken <= MaxInt64}

\* rateLimitState without its redundant rate (it is always config.rate).
Bucket == [config : Limit \union {NoLimit}, capacity : Nat, tokens : Nat, last : Nat]

SaturatingAdd(left, right) ==
    IF right > MaxInt64 - left THEN MaxInt64 ELSE left + right

SaturatingMultiply(left, right) ==
    IF left <= 0 \/ right <= 0 THEN 0
    ELSE IF left > MaxInt64 \div right THEN MaxInt64
    ELSE left * right

\* newRateLimitStateValue: the zero value for nil, otherwise a full bucket.
NewRateLimitStateValue(limit, now) ==
    IF limit = NoLimit
    THEN [config |-> NoLimit, capacity |-> 0, tokens |-> 0, last |-> 0]
    ELSE [config   |-> limit,
          capacity |-> limit.burst * NanotokensPerToken,
          tokens   |-> limit.burst * NanotokensPerToken,
          last     |-> now]

\* Mutation of Refill: the cap at the capacity is forgotten.
RefillUncapped(bucket, now) ==
    IF now < bucket.last THEN bucket
    ELSE [bucket EXCEPT
            !.tokens = SaturatingAdd(@, SaturatingMultiply(now - bucket.last,
                                                           bucket.config.rate)),
            !.last = now]

\* The refill of reserveBucket.  An earlier clock sample changes nothing.
Refill(bucket, now) ==
    IF now < bucket.last THEN bucket
    ELSE LET filled == SaturatingAdd(bucket.tokens,
                         SaturatingMultiply(now - bucket.last, bucket.config.rate))
         IN  [config   |-> bucket.config,
              capacity |-> bucket.capacity,
              tokens   |-> IF filled > bucket.capacity THEN bucket.capacity ELSE filled,
              last     |-> now]

\* One token out of a bucket that has one.
TakeToken(bucket) == [bucket EXCEPT !.tokens = @ - NanotokensPerToken]

\* Mutation of ReserveBucket: the balance is not looked at.
ReserveUnchecked(previous, limit, now) ==
    [bucket |-> TakeToken(Refill(previous, now)), allowed |-> TRUE]

\* reserveBucket: the bucket it leaves behind and whether it admits.
ReserveBucket(previous, limit, now) ==
    IF previous.config # limit
    THEN [bucket  |-> TakeToken(NewRateLimitStateValue(limit, now)),
          allowed |-> TRUE]
    ELSE LET filled == Refill(previous, now)
             enough == filled.tokens >= NanotokensPerToken
         IN  [bucket  |-> IF enough THEN TakeToken(filled) ELSE filled,
              allowed |-> enough]
=============================================================================
