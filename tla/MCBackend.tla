----------------------------- MODULE MCBackend -----------------------------
(***************************************************************************)
(* Instances of Backend for TLC.                                           *)
(***************************************************************************)
EXTENDS Backend, TLC

CONSTANTS r1, r2, r3, r4

TwoRequests == {r1, r2}
TwoSymmetric == Permutations(TwoRequests)
ThreeRequests == {r1, r2, r3}
ThreeSymmetric == Permutations(ThreeRequests)
FourRequests == {r1, r2, r3, r4}
FourSymmetric == Permutations(FourRequests)
NoSchedule == <<>>
Tables == INSTANCE Schedules
WeightedSchedule == Tables!BuildTargetSchedule(<<2, 1>>)
NoBackoff == <<>>
TwoDelays == Tables!BuildBackoffDelays([base |-> 1, cap |-> 2], 3, 10)
=============================================================================
