----------------------------- MODULE Generation -----------------------------
(***************************************************************************)
(* A router generation at work: a backend with its requests (Backend), the *)
(* backend's probe loop, and the closing of the generation by the watcher  *)
(* after a reload has replaced it.  The probe goroutine shares each        *)
(* target's health record with the requests; router.close marks the        *)
(* generation retired, cancels the probes and waits for the goroutine.     *)
(*                                                                         *)
(* The generation has one backend; router.close cancels all before it      *)
(* joins any.  A probe's observation holds the target's mutex from its     *)
(* look at the retired mark until its result is applied: requests wait for *)
(* it, but close sets the mark, and cancels, without any mutex.            *)
(***************************************************************************)
EXTENDS Backend

CONSTANTS Every,    \* health.probe.every
          Timeout   \* health.probe.timeout

ASSUME ProbeAssumption == /\ HasHealth
                          /\ Every \in Nat \ {0} /\ Timeout \in 1 .. Every

VARIABLES
    probe,    \* the probe goroutine
    closing,  \* how far router.close has come
    cycle,    \* the last probe cycle's start (`started`), and history: its end
    late      \* history: the records that probes have written since the mark

generationVars == <<vars, probe, closing, cycle, late>>

NewProbe == [pc      |-> "wait",
             index   |-> 0,        \* the target being probed
             timer   |-> Every,    \* when the next cycle is due
             due     |-> NoTime,   \* when the probe in flight times out
             expired |-> FALSE,    \* the probe's own context has ended
             healthy |-> FALSE]    \* the response, by its status

Retired == closing # "open"                   \* backendGeneration.retired
Canceled == closing \in {"canceled", "joined"}  \* the loop's context

-----------------------------------------------------------------------------
(* runProbeLoop and probeTarget.                                           *)

\* waitProbeTimer returns because the timer has fired.
BeginCycle ==
    /\ probe.pc = "wait"
    /\ probe.timer <= clock
    /\ probe' = [probe EXCEPT !.pc = "next", !.index = 0, !.timer = NoTime]
    /\ cycle' = [start |-> clock, end |-> NoTime]
    /\ UNCHANGED <<vars, closing, late>>

\* waitProbeTimer returns because the context has ended.
StopWaiting ==
    /\ probe.pc = "wait"
    /\ Canceled
    /\ probe' = [NewProbe EXCEPT !.pc = "stopped", !.timer = NoTime]
    /\ UNCHANGED <<vars, closing, cycle, late>>

\* The loop over the targets: the context is checked before each.
NextTarget ==
    /\ probe.pc = "next"
    /\ probe.index < N
    /\ probe' = IF Canceled THEN [NewProbe EXCEPT !.pc = "stopped", !.timer = NoTime]
                ELSE [probe EXCEPT !.pc = "flight", !.due = clock + Timeout]
    /\ UNCHANGED <<vars, closing, cycle, late>>

\* Mutation of EndCycle: the next cycle waits for Every from the end.
EndCycleNow ==
    /\ probe.pc = "next"
    /\ probe.index = N
    /\ probe' = [probe EXCEPT !.pc = "wait", !.index = 0, !.timer = clock]
    /\ cycle' = [cycle EXCEPT !.end = clock]
    /\ UNCHANGED <<vars, closing, late>>

\* The next cycle is due Every after the start of this one, or at once.
EndCycle ==
    /\ probe.pc = "next"
    /\ probe.index = N
    /\ LET next == cycle.start + Every
       IN  probe' = [probe EXCEPT !.pc = "wait", !.index = 0,
                                  !.timer = IF clock > next THEN clock ELSE next]
    /\ cycle' = [cycle EXCEPT !.end = clock]
    /\ UNCHANGED <<vars, closing, late>>

\* The target answers, well or badly, or the connection breaks.
ProbeAnswer ==
    /\ probe.pc = "flight"
    /\ \E healthy \in BOOLEAN :
         probe' = [probe EXCEPT !.pc = "observe", !.healthy = healthy]
    /\ UNCHANGED <<vars, closing, cycle, late>>

\* The probe's timeout: its context ends, also while the body is closed and
\* while the result is applied.
ProbeTimeout ==
    /\ probe.pc \in {"flight", "observe", "apply"}
    /\ probe.due <= clock
    /\ ~probe.expired
    /\ probe' = [probe EXCEPT !.expired = TRUE]
    /\ UNCHANGED <<vars, closing, cycle, late>>

\* The transport gives the probe up when one of its contexts has ended.
ProbeAbort ==
    /\ probe.pc = "flight"
    /\ probe.expired \/ Canceled
    /\ probe' = [probe EXCEPT !.pc = "observe", !.healthy = FALSE]
    /\ UNCHANGED <<vars, closing, cycle, late>>

\* The goroutine is done with this target.
LeaveTarget == [probe EXCEPT !.pc = "next", !.index = @ + 1, !.due = NoTime,
                             !.expired = FALSE, !.healthy = FALSE]

\* observeProbe locks the target's record, and looks whether it is `silenced`.
LookUnless(silenced) ==
    /\ probe.pc = "observe"
    /\ probe' = IF silenced THEN LeaveTarget ELSE [probe EXCEPT !.pc = "apply"]
    /\ UNCHANGED <<vars, closing, cycle, late>>

\* Mutation of ProbeLook: only the context is looked at, not the mark.
ProbeLookUnmarked == LookUnless(Canceled)

\* The mark is set before the context is canceled.
ProbeLook == LookUnless(Canceled \/ Retired)

\* With the record still locked, the probe's own context decides whether a
\* good response counts; it has also ended once the loop's has.
ProbeApply ==
    /\ probe.pc = "apply"
    /\ health' = [health EXCEPT ![probe.index] =
         IF probe.healthy /\ ~probe.expired /\ ~Canceled THEN Healthy ELSE Failed(@, clock)]
    /\ probe' = LeaveTarget
    /\ late' = IF Retired THEN late + 1 ELSE late
    /\ UNCHANGED <<clock, cursor, budget, call, reserved, closing, cycle>>

\* A request that is about to lock the record which the probe has locked.
Blocked(r) ==
    /\ probe.pc = "apply"
    /\ \/ call[r].pc \in {"examine", "scan"} /\ call[r].candidate = probe.index
       \/ call[r].pc = "observe" /\ call[r].target = probe.index

-----------------------------------------------------------------------------
(* router.close.                                                           *)

Retire == closing = "open" /\ closing' = "retired" /\ UNCHANGED <<vars, probe, cycle, late>>

\* Mutation of CancelProbe: the context is canceled after the join.
CancelAfterJoin ==
    /\ closing = "retired" /\ probe.pc = "stopped"
    /\ closing' = "canceled"
    /\ UNCHANGED <<vars, probe, cycle, late>>

CancelProbe ==
    /\ closing = "retired"
    /\ closing' = "canceled"
    /\ UNCHANGED <<vars, probe, cycle, late>>

\* Once the goroutine has ended, the idle connections are closed.
JoinProbe ==
    /\ closing = "canceled"
    /\ probe.pc = "stopped"
    /\ closing' = "joined"
    /\ UNCHANGED <<vars, probe, cycle, late>>

-----------------------------------------------------------------------------
ProbeStep == \/ BeginCycle \/ StopWaiting \/ NextTarget \/ EndCycle
             \/ ProbeLook \/ ProbeApply
CloseStep == Retire \/ CancelProbe \/ JoinProbe

GenerationInit ==
    /\ Init
    /\ probe = NewProbe
    /\ closing = "open"
    /\ cycle = [start |-> NoTime, end |-> NoTime]
    /\ late = 0

\* A request enters only while its generation is published or was when it
\* loaded it, so closing does not stop the requests.
GenerationNext ==
    \/ /\ Tick \/ \E r \in Requests : (Proceed(r) /\ ~Blocked(r)) \/ Environment(r)
       /\ UNCHANGED <<probe, closing, cycle, late>>
    \/ ProbeStep \/ ProbeAnswer \/ ProbeTimeout \/ ProbeAbort
    \/ CloseStep

GenerationSpec == GenerationInit /\ [][GenerationNext]_generationVars

\* Probed targets need not answer, and nobody has to reload; once close is
\* called it runs, and so does the probe goroutine.
GenerationFairness ==
    /\ WF_generationVars(Tick /\ UNCHANGED <<probe, closing, cycle, late>>)
    /\ WF_generationVars(ProbeStep)
    /\ WF_generationVars(ProbeTimeout)
    /\ WF_generationVars(ProbeAbort)
    /\ WF_generationVars(CancelProbe \/ JoinProbe)

FairGenerationSpec == GenerationSpec /\ GenerationFairness

-----------------------------------------------------------------------------
(* Properties.                                                             *)

\* The mark is the boundary: once the generation is marked retired, at most one
\* more record is written by a probe, by an observation that had looked at the
\* mark before.  It holds while close has yet to cancel, and whatever answers.
RetirementSilencesProbes == late <= 1

\* Cycles never overlap, and the next one starts no earlier than Every after
\* the start of the last one and no earlier than its end.
CyclesAreSpaced ==
    [][cycle'.start # NoTime /\ cycle'.end = NoTime /\ cycle.start # NoTime =>
         /\ cycle.end # NoTime
         /\ cycle'.start >= cycle.start + Every
         /\ cycle'.start >= cycle.end]_cycle

\* Closing a generation ends, even with a probe in flight to a target that
\* never answers; the watcher, which waits for it, is not held up for good.
CloseEnds == closing = "retired" ~> closing = "joined"
=============================================================================
