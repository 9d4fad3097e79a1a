---------------------------- MODULE TargetHealth ----------------------------
(***************************************************************************)
(* The health record of one target of a named backend (targetHealth in     *)
(* proxy.go).  The code reads the clock and the record under the target's  *)
(* mutex, so each operator is one atomic step of whoever applies it.       *)
(***************************************************************************)
EXTENDS Integers

CONSTANTS Fail,  \* health.fail: failures in a row that eject a target
          Cool   \* health.cool: how long an ejection lasts

ASSUME HealthAssumption == Fail \in Nat \ {0} /\ Cool \in Nat \ {0}

NoTime == -1   \* the zero time.Time

TargetRecord == [failures : Nat, until : Nat \union {NoTime}]

\* resetTargetHealth.
Healthy == [failures |-> 0, until |-> NoTime]

Ejected(target, now) == target.until # NoTime /\ now < target.until

\* What available leaves behind: an ejection that has run out is cleared.
Examined(target, now) ==
    IF target.until # NoTime /\ now >= target.until THEN Healthy ELSE target

\* Mutation of Failed: a failure during an ejection restarts it from now.
FailedRestartingEjection(target, now) ==
    IF Ejected(target, now)
    THEN [target EXCEPT !.until = now + Cool]
    ELSE LET failures == Examined(target, now).failures + 1
         IN  IF failures >= Fail
             THEN [failures |-> 0, until |-> now + Cool]
             ELSE [failures |-> failures, until |-> NoTime]

\* Mutation of Failed: it takes one failure more to eject a target.
FailedLate(target, now) ==
    IF Ejected(target, now)
    THEN [target EXCEPT !.until = @ + Cool]
    ELSE LET failures == Examined(target, now).failures + 1
         IN  IF failures > Fail
             THEN [failures |-> 0, until |-> now + Cool]
             ELSE [failures |-> failures, until |-> NoTime]

\* observeFailureLocked: a failure during an ejection prolongs it by Cool from
\* its present end; any other one counts, and the Fail-th in a row ejects.
Failed(target, now) ==
    IF Ejected(target, now)
    THEN [target EXCEPT !.until = @ + Cool]
    ELSE LET failures == Examined(target, now).failures + 1
         IN  IF failures >= Fail
             THEN [failures |-> 0, until |-> now + Cool]
             ELSE [failures |-> failures, until |-> NoTime]
=============================================================================
