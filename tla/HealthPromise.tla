--------------------------- MODULE HealthPromise ---------------------------
(***************************************************************************)
(* What passive and active health promise of each target: it is ejected    *)
(* exactly from its Fail-th failure in a row until the announced end, which *)
(* later failures put off by Cool each; a response clears everything; an   *)
(* ejection ends by itself when its time comes, and looking at a target    *)
(* changes nothing.  (The code ends an ejection lazily, when somebody next *)
(* looks at the target or observes it.)                                    *)
(***************************************************************************)
EXTENDS Integers

CONSTANTS Targets, Fail, Cool

VARIABLES clock,
          streak,  \* failures in a row of a target that is not ejected
          end      \* when the target's ejection ends; -1 when it is not ejected

vars == <<clock, streak, end>>

Init == /\ clock = 0
        /\ streak = [t \in Targets |-> 0]
        /\ end = [t \in Targets |-> -1]

\* Time passes, and the ejections that it reaches end.
Advance == /\ clock' = clock + 1
           /\ end' = [t \in Targets |-> IF end[t] <= clock + 1 THEN -1 ELSE end[t]]
           /\ UNCHANGED streak

Respond(t) == /\ streak' = [streak EXCEPT ![t] = 0]
              /\ end' = [end EXCEPT ![t] = -1]
              /\ UNCHANGED clock

ProlongEjection(t) == /\ end[t] # -1
                      /\ end' = [end EXCEPT ![t] = @ + Cool]
                      /\ UNCHANGED <<clock, streak>>

CountFailure(t) == /\ end[t] = -1
                   /\ streak[t] + 1 < Fail
                   /\ streak' = [streak EXCEPT ![t] = @ + 1]
                   /\ UNCHANGED <<clock, end>>

Eject(t) == /\ end[t] = -1
            /\ streak[t] + 1 >= Fail
            /\ streak' = [streak EXCEPT ![t] = 0]
            /\ end' = [end EXCEPT ![t] = clock + Cool]
            /\ UNCHANGED clock

Next == \/ Advance
        \/ \E t \in Targets : \/ Respond(t) \/ ProlongEjection(t)
                              \/ CountFailure(t) \/ Eject(t)

Spec == Init /\ [][Next]_vars
=============================================================================
