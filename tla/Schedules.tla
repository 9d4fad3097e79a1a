------------------------------ MODULE Schedules ------------------------------
(***************************************************************************)
(* The two tables newBackend computes from a backend's configuration: the  *)
(* order in which its targets take first attempts, and the delays between  *)
(* its attempts.  Backend takes them as constants.                         *)
(***************************************************************************)
EXTENDS Integers, Sequences, SequencesExt

Total(weights) == FoldLeft(+, 0, weights)

\* The highest score; of equal ones the first.
FirstHighest(score) ==
    CHOOSE i \in DOMAIN score :
        \A j \in DOMAIN score : score[i] > score[j] \/ (score[i] = score[j] /\ i <= j)

\* Mutation of TakeSlot: the selected target keeps its score.
TakeSlotFree(state, weights) ==
    LET raised == [i \in DOMAIN weights |-> state.score[i] + weights[i]]
    IN [score |-> raised, schedule |-> Append(state.schedule, FirstHighest(raised) - 1)]

\* One round: every score rises by its weight, the highest takes the slot
\* and pays for all of them.  The schedule counts targets from 0.
TakeSlot(state, weights) ==
    LET raised == [i \in DOMAIN weights |-> state.score[i] + weights[i]]
        selected == FirstHighest(raised)
    IN [score    |-> [raised EXCEPT ![selected] = @ - Total(weights)],
        schedule |-> Append(state.schedule, selected - 1)]

BuildTargetSchedule(weights) ==
    FoldLeft(LAMBDA state, k : TakeSlot(state, weights),
             [score |-> [i \in DOMAIN weights |-> 0], schedule |-> <<>>],
             [k \in 1 .. Total(weights) |-> k]).schedule

-----------------------------------------------------------------------------
(* Durations are signed and wrap; the longest of them is maxDuration.      *)

Twice(delay, maxDuration) ==
    IF 2 * delay > maxDuration THEN 2 * delay - 2 * (maxDuration + 1) ELSE 2 * delay

\* Mutation of NextDelay: doubles first and compares with the cap then.
NextDelayDoubled(delay, cap, maxDuration) ==
    IF delay >= cap THEN delay
    ELSE IF Twice(delay, maxDuration) > cap THEN cap ELSE Twice(delay, maxDuration)

\* The cap is compared with before doubling.
NextDelay(delay, cap, maxDuration) ==
    IF delay >= cap THEN delay
    ELSE IF delay > cap \div 2 THEN cap ELSE Twice(delay, maxDuration)

BuildBackoffDelays(backoff, tries, maxDuration) ==
    FoldLeft(LAMBDA delays, k : Append(delays, IF delays = <<>> THEN backoff.base
                                               ELSE NextDelay(Last(delays), backoff.cap, maxDuration)),
             <<>>, [k \in 1 .. tries - 1 |-> k])
=============================================================================
