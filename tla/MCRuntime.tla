----------------------------- MODULE MCRuntime -----------------------------
(***************************************************************************)
(* Instances of Runtime for TLC: the configuration texts of each run.      *)
(***************************************************************************)
EXTENDS Runtime, TLC

CONSTANTS r1, r2, r3

Text(listen, tls, requestID, rate, burst) ==
    [loads |-> TRUE, builds |-> TRUE, listen |-> listen, tls |-> tls,
     requestID |-> requestID, rate |-> rate, burst |-> burst]

\* The interleavings of admissions: a slow limit with burst 2, a fast one
\* whose refill saturates, and no limit.
AdmissionContents == {Text(1, FALSE, FALSE, 1, 2), Text(1, FALSE, FALSE, 4, 1),
                      Text(1, FALSE, FALSE, 0, 0)}
ThreeRequests == {r1, r2, r3}
ThreeSymmetric == Permutations(ThreeRequests)

\* The ways a reload goes: two good texts, one without a limit, one that does
\* not parse, one that does not build, one that moves the listener and one
\* that drops TLS.
Good == Text(1, TRUE, TRUE, 1, 1)
ReloadContents ==
    {Good, [Good EXCEPT !.rate = 0, !.burst = 0], [Good EXCEPT !.loads = FALSE],
     [Good EXCEPT !.builds = FALSE, !.burst = 2], [Good EXCEPT !.listen = 2],
     [Good EXCEPT !.tls = FALSE]}
=============================================================================
