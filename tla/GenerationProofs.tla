-------------------------- MODULE GenerationProofs --------------------------
(***************************************************************************)
(* Theorems about a router generation at work: what BackendProofs shows of *)
(* the requests holds as well while a probe goroutine writes the same      *)
(* records and router.close takes the generation down.                     *)
(***************************************************************************)
EXTENDS Generation, BackendProofs

-----------------------------------------------------------------------------
(* The invariant.                                                          *)

\* The probe goroutine is at a target only between its first and its last.
ProbeInv ==
    /\ probe \in [pc : {"wait", "next", "flight", "observe", "apply", "stopped"}, index : 0 .. N,
                  timer : Nat \union {NoTime}, due : Nat \union {NoTime},
                  expired : BOOLEAN, healthy : BOOLEAN]
    /\ probe.pc \in {"flight", "observe", "apply"} => probe.index < N
    /\ closing \in {"open", "retired", "canceled", "joined"}
    /\ closing = "joined" => probe.pc = "stopped"

\* While the goroutine waits for another cycle, the last one is over, and the
\* timer says no less than when the next one may begin.
CycleInv ==
    /\ cycle \in [start : Nat \union {NoTime}, end : Nat \union {NoTime}]
    /\ probe.pc \notin {"wait", "stopped"} => cycle.start # NoTime
    /\ probe.pc = "wait" =>
         /\ probe.timer # NoTime
         /\ cycle.start # NoTime =>
              /\ cycle.end # NoTime
              /\ probe.timer >= cycle.start + Every
              /\ probe.timer >= cycle.end

\* Until a generation is retired nothing is late; then an observation that has
\* yet to write has looked before, and there is only one goroutine.
SilenceInv ==
    /\ late \in {0, 1}
    /\ ~Retired \/ probe.pc = "apply" => late = 0

GenerationInv == IInv /\ ProbeInv /\ CycleInv /\ SilenceInv

-----------------------------------------------------------------------------
(* Steps of the goroutine and of router.close.                             *)

\* The constants of the probes.
LEMMA ProbeConstants == N \in Nat /\ N > 0 /\ Every \in Nat /\ Every > 0 /\ Timeout \in Nat
BY SlotsAndTargets, ProbeAssumption

\* The result of a probe keeps what requests, budget and records are.
LEMMA ProbeApplyKeeps ==
    ASSUME IInv, ProbeInv, ProbeApply
    PROVE  /\ IInv'
           /\ Promise!Next \/ UNCHANGED <<clock, Streaks, Ends>>
<1>1. PICK t \in Targets : t = probe.index
  <2>1. probe.pc = "apply"
    BY DEF ProbeApply
  <2> QED
    BY <2>1, ProbeConstants DEF ProbeInv, Targets
<1>2. PICK record : record = IF probe.healthy /\ ~probe.expired /\ ~Canceled THEN Healthy
                             ELSE Failed(health[t], clock)
  OBVIOUS
<1>3. /\ health' = [health EXCEPT ![t] = record]
      /\ UNCHANGED <<clock, cursor, budget, call, reserved>>
  BY <1>1, <1>2 DEF ProbeApply
<1>4. record \in TargetRecord /\ record \in {Healthy, Failed(health[t], clock)}
  BY <1>2, RecordType DEF IInv, SharedInv
<1>5. SharedInv'
  BY <1>3, <1>4 DEF IInv, SharedInv
<1>6. CallsInv' /\ BudgetInv'
  BY <1>3 DEF IInv, CallsInv, BudgetInv
<1>7. AccountInv'
  BY <1>3 DEF IInv, AccountInv, Own
<1>8. Promise!Next \/ UNCHANGED <<clock, Streaks, Ends>>
  BY <1>3, <1>4, RecordRefines DEF IInv
<1> QED
  BY <1>5, <1>6, <1>7, <1>8 DEF IInv

\* A request's own step is one of the backend: a locked record only delays it.
LEMMA RequestSteps ==
    ASSUME GenerationNext
    PROVE  \/ Next /\ UNCHANGED <<probe, closing, cycle, late>>
           \/ ProbeStep \/ ProbeAnswer \/ ProbeTimeout \/ ProbeAbort \/ CloseStep
BY DEF GenerationNext, Next

\* Every other step of the goroutine, and every one of router.close, leaves the
\* backend alone.
LEMMA OtherSteps ==
    ASSUME \/ BeginCycle \/ StopWaiting \/ NextTarget \/ EndCycle \/ ProbeLook
           \/ ProbeAnswer \/ ProbeTimeout \/ ProbeAbort \/ CloseStep
    PROVE  UNCHANGED vars
BY DEF BeginCycle, StopWaiting, NextTarget, EndCycle, ProbeLook, LookUnless, ProbeAnswer,
   ProbeTimeout, ProbeAbort, CloseStep, Retire, CancelProbe, JoinProbe

\* The goroutine goes through the targets in turn, and stops for good.
LEMMA ProbeKept ==
    ASSUME GenerationInv, GenerationNext
    PROVE  ProbeInv'
<1> DEFINE Probes == [pc : {"wait", "next", "flight", "observe", "apply", "stopped"}, index : 0 .. N,
                      timer : Nat \union {NoTime}, due : Nat \union {NoTime},
                      expired : BOOLEAN, healthy : BOOLEAN]
<1>1. /\ probe \in Probes /\ N \in Nat /\ N > 0 /\ clock \in Nat
      /\ Every \in Nat /\ Timeout \in Nat
      /\ closing \in {"open", "retired", "canceled", "joined"}
  BY ProbeConstants DEF GenerationInv, ProbeInv, IInv, SharedInv
<1>2. CASE UNCHANGED <<probe, closing>>
  BY <1>2 DEF GenerationInv, ProbeInv
<1>3. CASE BeginCycle
  <2>1. 0 \in 0 .. N
    BY <1>1
  <2>2. probe' \in Probes /\ probe'.pc = "next"
    BY <1>1, <1>3, <2>1 DEF BeginCycle
  <2> QED
    BY <1>3, <2>2 DEF BeginCycle, GenerationInv, ProbeInv
<1>4. ASSUME probe' = [NewProbe EXCEPT !.pc = "stopped", !.timer = NoTime], closing' = closing
      PROVE  ProbeInv'
  <2>1. 0 \in 0 .. N
    BY <1>1
  <2>2. probe' = [pc |-> "stopped", index |-> 0, timer |-> NoTime, due |-> NoTime,
                  expired |-> FALSE, healthy |-> FALSE]
    BY <1>4 DEF NewProbe
  <2>3. probe' \in Probes /\ probe'.pc = "stopped"
    BY <2>1, <2>2
  <2> QED
    BY <1>1, <1>4, <2>3 DEF ProbeInv
<1>5. CASE NextTarget /\ ~Canceled
  <2>1. PICK due \in Nat : due = clock + Timeout
    BY <1>1
  <2>2. probe' = [probe EXCEPT !.pc = "flight", !.due = due] /\ probe.index < N
    BY <1>5, <2>1 DEF NextTarget
  <2>3. probe' \in Probes /\ probe'.pc = "flight" /\ probe'.index < N
    BY <1>1, <2>2
  <2> QED
    BY <1>5, <2>3 DEF NextTarget, Canceled, GenerationInv, ProbeInv
<1>6. CASE EndCycle
  <2>1. cycle.start \in Nat
    BY <1>6 DEF EndCycle, GenerationInv, CycleInv
  <2>2. PICK timer \in Nat : timer = IF clock > cycle.start + Every THEN clock ELSE cycle.start + Every
    BY <1>1, <2>1
  <2>3. probe' = [probe EXCEPT !.pc = "wait", !.index = 0, !.timer = timer]
    BY <1>6, <2>2 DEF EndCycle
  <2>4. 0 \in 0 .. N
    BY <1>1
  <2>5. probe' \in Probes /\ probe'.pc = "wait"
    BY <1>1, <2>3, <2>4
  <2> QED
    BY <1>6, <2>5 DEF EndCycle, GenerationInv, ProbeInv
<1>7. CASE ProbeAnswer \/ ProbeAbort
  <2>1. PICK healthy \in BOOLEAN : probe' = [probe EXCEPT !.pc = "observe", !.healthy = healthy]
    BY <1>7 DEF ProbeAnswer, ProbeAbort
  <2>2. probe.pc = "flight" /\ closing' = closing
    BY <1>7 DEF ProbeAnswer, ProbeAbort
  <2>3. probe' \in Probes /\ probe'.pc = "observe" /\ probe'.index = probe.index
    BY <1>1, <2>1
  <2> QED
    BY <2>2, <2>3 DEF GenerationInv, ProbeInv
<1>8. CASE ProbeTimeout
  <2>1. probe' \in Probes /\ probe'.pc = probe.pc /\ probe'.index = probe.index
    BY <1>1, <1>8 DEF ProbeTimeout
  <2> QED
    BY <1>8, <2>1 DEF ProbeTimeout, GenerationInv, ProbeInv
<1>9. ASSUME probe' = LeaveTarget, closing' = closing, probe.pc \in {"observe", "apply"}
      PROVE  ProbeInv'
  <2>1. PICK index \in 0 .. N : index = probe.index + 1
    BY <1>1, <1>9 DEF GenerationInv, ProbeInv
  <2>2. probe' = [probe EXCEPT !.pc = "next", !.index = index, !.due = NoTime,
                               !.expired = FALSE, !.healthy = FALSE]
    BY <1>9, <2>1 DEF LeaveTarget
  <2>3. probe' \in Probes /\ probe'.pc = "next"
    BY <1>1, <2>2
  <2> QED
    BY <1>9, <2>3 DEF GenerationInv, ProbeInv
<1>10. CASE CloseStep
  BY <1>10 DEF CloseStep, Retire, CancelProbe, JoinProbe, GenerationInv, ProbeInv
<1>11. CASE StopWaiting \/ (NextTarget /\ Canceled)
  BY <1>4, <1>11 DEF StopWaiting, NextTarget
<1>12. CASE ProbeApply
  BY <1>9, <1>12 DEF ProbeApply
<1>13. CASE ProbeLook
  <2>1. CASE probe' = LeaveTarget
    BY <1>9, <1>13, <2>1 DEF ProbeLook, LookUnless
  <2>2. CASE probe' = [probe EXCEPT !.pc = "apply"]
    <3>1. probe' \in Probes /\ probe'.pc = "apply" /\ probe'.index = probe.index
      BY <1>1, <2>2
    <3> QED
      BY <1>13, <3>1 DEF ProbeLook, LookUnless, GenerationInv, ProbeInv
  <2> QED
    BY <1>13, <2>1, <2>2 DEF ProbeLook, LookUnless
<1> QED
  BY <1>2, <1>3, <1>5, <1>6, <1>7, <1>8, <1>10, <1>11, <1>12, <1>13, RequestSteps DEF ProbeStep

\* A cycle is ended before the goroutine waits, and timed from its start.
LEMMA CycleKept ==
    ASSUME GenerationInv, GenerationNext
    PROVE  CycleInv'
<1>1. /\ clock \in Nat /\ Every \in Nat /\ Every > 0
      /\ cycle \in [start : Nat \union {NoTime}, end : Nat \union {NoTime}]
      /\ probe.pc \in {"wait", "next", "flight", "observe", "apply", "stopped"}
  BY ProbeConstants DEF GenerationInv, IInv, SharedInv, ProbeInv, CycleInv
<1>2. CASE UNCHANGED <<probe, cycle>>
  BY <1>2 DEF GenerationInv, CycleInv
<1>3. CASE BeginCycle
  <2>1. cycle' \in [start : Nat \union {NoTime}, end : Nat \union {NoTime}] /\ cycle'.start = clock
    BY <1>1, <1>3 DEF BeginCycle
  <2>2. probe'.pc = "next"
    BY <1>3 DEF BeginCycle, GenerationInv, ProbeInv
  <2> QED
    BY <1>1, <2>1, <2>2 DEF CycleInv, NoTime
<1>4. CASE EndCycle
  <2>1. cycle.start \in Nat /\ cycle.start # NoTime
    BY <1>4 DEF EndCycle, GenerationInv, CycleInv
  <2>2. PICK timer \in Nat : timer = IF clock > cycle.start + Every THEN clock ELSE cycle.start + Every
    BY <1>1, <2>1
  <2>3. probe'.pc = "wait" /\ probe'.timer = timer
    BY <1>4, <2>2 DEF EndCycle, GenerationInv, ProbeInv
  <2>4. /\ cycle' \in [start : Nat \union {NoTime}, end : Nat \union {NoTime}]
        /\ cycle'.start = cycle.start /\ cycle'.end = clock
    BY <1>1, <1>4 DEF EndCycle
  <2> QED
    BY <1>1, <2>1, <2>2, <2>3, <2>4 DEF CycleInv, NoTime
<1>5. ASSUME probe' = [NewProbe EXCEPT !.pc = "stopped", !.timer = NoTime], cycle' = cycle
      PROVE  CycleInv'
  <2>1. probe'.pc = "stopped"
    BY <1>5 DEF NewProbe
  <2> QED
    BY <1>1, <1>5, <2>1 DEF CycleInv
<1>6. ASSUME cycle' = cycle, probe.pc \notin {"wait", "stopped"}, probe'.pc # "wait"
      PROVE  CycleInv'
  BY <1>1, <1>6 DEF GenerationInv, CycleInv
<1>7. CASE NextTarget /\ ~Canceled
  BY <1>6, <1>7 DEF NextTarget, GenerationInv, ProbeInv
<1>8. CASE ProbeAnswer \/ ProbeAbort \/ ProbeTimeout
  BY <1>6, <1>8 DEF ProbeAnswer, ProbeAbort, ProbeTimeout, GenerationInv, ProbeInv
<1>9. CASE ProbeLook \/ ProbeApply
  <2>1. CASE probe' = LeaveTarget
    BY <1>6, <1>9, <2>1 DEF ProbeLook, LookUnless, ProbeApply, LeaveTarget, GenerationInv, ProbeInv
  <2>2. CASE probe' = [probe EXCEPT !.pc = "apply"]
    BY <1>6, <1>9, <2>2 DEF ProbeLook, LookUnless, ProbeApply, GenerationInv, ProbeInv
  <2> QED
    BY <1>9, <2>1, <2>2 DEF ProbeLook, LookUnless, ProbeApply
<1>10. CASE CloseStep
  BY <1>2, <1>10 DEF CloseStep, Retire, CancelProbe, JoinProbe
<1>11. CASE StopWaiting \/ (NextTarget /\ Canceled)
  BY <1>5, <1>11 DEF StopWaiting, NextTarget
<1> QED
  BY <1>2, <1>3, <1>4, <1>7, <1>8, <1>9, <1>10, <1>11, RequestSteps DEF ProbeStep

\* A look after the mark has been set leaves the target, and no step unsets it.
LEMMA SilenceKept ==
    ASSUME GenerationInv, GenerationNext
    PROVE  SilenceInv'
<1>1. /\ late \in {0, 1} /\ (~Retired \/ probe.pc = "apply" => late = 0)
      /\ probe.pc \in {"wait", "next", "flight", "observe", "apply", "stopped"}
  BY DEF GenerationInv, SilenceInv, ProbeInv
<1>2. CASE UNCHANGED <<probe, closing, late>>
  BY <1>1, <1>2 DEF SilenceInv, Retired
<1>3. CASE ProbeApply
  <2>1. probe'.pc = "next" /\ probe.pc = "apply" /\ closing' = closing
    BY <1>3 DEF ProbeApply, LeaveTarget, GenerationInv, ProbeInv
  <2>2. late' = IF Retired THEN late + 1 ELSE late
    BY <1>3 DEF ProbeApply
  <2> QED
    BY <1>1, <2>1, <2>2 DEF SilenceInv, Retired
<1>4. CASE ProbeLook
  <2>1. UNCHANGED <<closing, late>>
    BY <1>4 DEF ProbeLook, LookUnless
  <2>2. CASE Retired
    <3>1. probe'.pc = "next"
      BY <1>4, <2>2 DEF ProbeLook, LookUnless, LeaveTarget, GenerationInv, ProbeInv
    <3> QED
      BY <1>1, <2>1, <2>2, <3>1 DEF SilenceInv, Retired
  <2>3. CASE ~Retired
    BY <1>1, <2>1, <2>3 DEF SilenceInv, Retired
  <2> QED
    BY <2>2, <2>3
<1>5. CASE CloseStep
  <2>1. late' = late /\ Retired' /\ probe' = probe
    BY <1>5 DEF CloseStep, Retire, CancelProbe, JoinProbe, Retired
  <2> QED
    BY <1>1, <2>1 DEF SilenceInv
<1>6. CASE BeginCycle \/ StopWaiting \/ NextTarget \/ EndCycle \/ ProbeAnswer \/ ProbeAbort
  <2>1. UNCHANGED <<closing, late>>
    BY <1>6 DEF BeginCycle, StopWaiting, NextTarget, EndCycle, ProbeAnswer, ProbeAbort
  <2>2. probe'.pc # "apply"
    BY <1>6 DEF BeginCycle, StopWaiting, NextTarget, EndCycle, ProbeAnswer, ProbeAbort,
       NewProbe, GenerationInv, ProbeInv
  <2> QED
    BY <1>1, <2>1, <2>2 DEF SilenceInv, Retired
<1>7. CASE ProbeTimeout
  <2>1. UNCHANGED <<closing, late>> /\ probe'.pc = probe.pc
    BY <1>7 DEF ProbeTimeout, GenerationInv, ProbeInv
  <2> QED
    BY <1>1, <2>1 DEF SilenceInv, Retired
<1> QED
  BY <1>2, <1>3, <1>4, <1>5, <1>6, <1>7, RequestSteps DEF ProbeStep

\* Every step of a generation keeps the invariant.
LEMMA GenerationStep ==
    ASSUME GenerationInv, [GenerationNext]_generationVars
    PROVE  GenerationInv'
<1>1. CASE UNCHANGED generationVars
  <2>1. UNCHANGED vars /\ UNCHANGED <<probe, closing, cycle, late>>
    BY <1>1 DEF generationVars
  <2>2. IInv'
    BY <2>1, StepInv DEF GenerationInv
  <2>3. SilenceInv'
    BY <2>1 DEF GenerationInv, SilenceInv, Retired
  <2> QED
    BY <2>1, <2>2, <2>3 DEF GenerationInv, ProbeInv, CycleInv
<1>2. CASE GenerationNext
  <2>1. IInv'
    <3>1. CASE Next \/ UNCHANGED vars
      BY <3>1, StepInv DEF GenerationInv
    <3>2. CASE ProbeApply
      BY <3>2, ProbeApplyKeeps DEF GenerationInv
    <3> QED
      BY <1>2, <3>1, <3>2, OtherSteps, RequestSteps DEF ProbeStep
  <2> QED
    BY <1>2, <2>1, ProbeKept, CycleKept, SilenceKept DEF GenerationInv
<1> QED
  BY <1>1, <1>2

\* A generation starts with the goroutine waiting for its first cycle.
LEMMA GenerationStart == GenerationInit => GenerationInv
<1> SUFFICES ASSUME GenerationInit PROVE GenerationInv
  OBVIOUS
<1>1. IInv
  BY InitInv DEF GenerationInit
<1>2. probe \in [pc : {"wait", "next", "flight", "observe", "apply", "stopped"}, index : 0 .. N,
                 timer : Nat \union {NoTime}, due : Nat \union {NoTime},
                 expired : BOOLEAN, healthy : BOOLEAN]
  <2>1. 0 \in 0 .. N
    BY ProbeConstants
  <2> QED
    BY <2>1, ProbeConstants DEF GenerationInit, NewProbe
<1>3. ProbeInv
  BY <1>2 DEF GenerationInit, NewProbe, ProbeInv
<1>4. CycleInv
  BY ProbeConstants DEF GenerationInit, NewProbe, CycleInv, NoTime
<1>5. SilenceInv
  BY DEF GenerationInit, SilenceInv
<1> QED
  BY <1>1, <1>3, <1>4, <1>5 DEF GenerationInv

-----------------------------------------------------------------------------
(* The theorems.                                                           *)

\* The inductive invariant of a generation: that of its backend, with what is
\* known of the goroutine's place and of its last cycle.
THEOREM GenerationInvariance == GenerationSpec => []GenerationInv
<1> QED
  BY GenerationStart, GenerationStep, PTL DEF GenerationSpec

\* What the requests are promised does not depend on who else writes the
\* records: it holds with probes, and while the generation is taken down.
THEOREM RequestsUndisturbed ==
    GenerationSpec => [](TypeOK /\ RetryFallsBackLast /\ BodiesClosedOnce /\ BudgetKept)
<1>1. IInv => TypeOK
  BY DEF IInv, SharedInv, CallsInv, BudgetInv, TypeOK
<1>2. IInv => RetryFallsBackLast
  BY DEF IInv, CallsInv, CallInv, SelectInv, RetryFallsBackLast
<1>3. IInv => BodiesClosedOnce
  BY DEF IInv, CallsInv, CallInv, BodyInv, BodiesClosedOnce, Attempts
<1>4. GenerationInv => TypeOK /\ RetryFallsBackLast /\ BodiesClosedOnce /\ BudgetKept
  BY <1>1, <1>2, <1>3, BudgetCounts DEF GenerationInv
<1> QED
  BY <1>4, GenerationInvariance, PTL

\* Neither do the claims of a request that is alone, which leave out no target
\* if there are cursor values for a cycle of the schedule: probes write the
\* records, but claim no slot.
THEOREM FirstFallsBackAlone ==
    ASSUME SlotsCoverTargets, Slots <= CursorValues, \A q, r \in Requests : q = r
    PROVE  GenerationSpec => []FirstFallsBackLast
<1>1. ASSUME GenerationInv, ClaimsInv, AloneInv, [GenerationNext]_generationVars
      PROVE  ClaimsInv' /\ AloneInv'
  <2>1. CASE Next
    <3>1. ClaimsInv'
      BY <1>1, <2>1, AloneUndisturbed, AloneUnwrapped, ClaimsKept DEF GenerationInv
    <3>2. AloneInv'
      BY <1>1, <2>1, AloneKept DEF GenerationInv
    <3> QED
      BY <3>1, <3>2
  <2>2. CASE UNCHANGED <<cursor, call>>
    BY <1>1, <2>2 DEF ClaimsInv, ClaimInv, AloneInv
  <2>3. Next \/ UNCHANGED <<cursor, call>>
    BY <1>1, OtherSteps, RequestSteps DEF generationVars, ProbeStep, ProbeApply, vars
  <2> QED
    BY <2>1, <2>2, <2>3
<1>2. ClaimsInv => FirstFallsBackLast
  BY DEF ClaimsInv, ClaimInv, FirstFallsBackLast
<1>3. GenerationInit => ClaimsInv /\ AloneInv
  BY ClaimsStart, AloneStart DEF GenerationInit
<1> QED
  BY <1>1, <1>2, <1>3, GenerationInvariance, PTL DEF GenerationSpec

\* Once the generation is marked retired, probes write at most one more record,
\* although close sets the mark without the mutex under which they write.
THEOREM RetirementIsSilent == GenerationSpec => []RetirementSilencesProbes
<1>1. GenerationInv => RetirementSilencesProbes
  BY DEF GenerationInv, SilenceInv, RetirementSilencesProbes
<1> QED
  BY <1>1, GenerationInvariance, PTL

\* Probe cycles never overlap and never come closer than Every, however long
\* the targets take to answer.
THEOREM CyclesKeepApart == GenerationSpec => CyclesAreSpaced
<1>1. ASSUME GenerationInv, [GenerationNext]_generationVars
      PROVE  [cycle'.start # NoTime /\ cycle'.end = NoTime /\ cycle.start # NoTime =>
                /\ cycle.end # NoTime
                /\ cycle'.start >= cycle.start + Every
                /\ cycle'.start >= cycle.end]_cycle
  <2>1. CASE BeginCycle
    <3>1. /\ clock \in Nat /\ Every \in Nat /\ probe.timer \in Nat /\ probe.timer <= clock
          /\ cycle.start \in Nat \union {NoTime} /\ cycle.end \in Nat \union {NoTime}
          /\ cycle'.start = clock /\ probe.pc = "wait"
      BY <1>1, <2>1, ProbeConstants
      DEF BeginCycle, GenerationInv, IInv, SharedInv, ProbeInv, CycleInv
    <3>2. cycle.start # NoTime =>
            /\ cycle.end # NoTime /\ probe.timer >= cycle.start + Every /\ probe.timer >= cycle.end
      BY <1>1, <3>1 DEF GenerationInv, CycleInv
    <3> QED
      BY <3>1, <3>2
  <2>2. CASE EndCycle
    <3>1. cycle'.end = clock /\ clock \in Nat
      BY <1>1, <2>2 DEF EndCycle, GenerationInv, CycleInv, IInv, SharedInv
    <3> QED
      BY <3>1 DEF NoTime
  <2>3. CASE UNCHANGED cycle
    BY <2>3
  <2>4. BeginCycle \/ EndCycle \/ UNCHANGED cycle
    BY <1>1, RequestSteps DEF generationVars, ProbeStep, CloseStep, StopWaiting, NextTarget,
       ProbeAnswer, ProbeTimeout, ProbeAbort, ProbeLook, LookUnless, ProbeApply, Retire,
       CancelProbe, JoinProbe
  <2> QED
    BY <2>1, <2>2, <2>3, <2>4
<1> QED
  BY <1>1, GenerationInvariance, PTL DEF GenerationSpec, CyclesAreSpaced

\* The records that requests and probes share still keep what HealthPromise
\* promises of each target.
THEOREM SharedHealthIsKept == GenerationSpec => ImplementsHealthPromise
<1>1. ASSUME GenerationInv, [GenerationNext]_generationVars
      PROVE  [Promise!Next]_(Promise!vars)
  <2>1. CASE Next \/ UNCHANGED vars
    BY <1>1, <2>1, StepRefines, Mapped DEF GenerationInv
  <2>2. CASE ProbeApply
    BY <1>1, <2>2, ProbeApplyKeeps, Mapped DEF GenerationInv
  <2> QED
    BY <1>1, <2>1, <2>2, OtherSteps, RequestSteps DEF generationVars, ProbeStep
<1>2. GenerationInit => Promise!Init
  BY InitRefines DEF GenerationInit
<1> QED
  BY <1>1, <1>2, GenerationInvariance, PTL DEF GenerationSpec, ImplementsHealthPromise, Promise!Spec
=============================================================================
