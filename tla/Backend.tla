------------------------------ MODULE Backend ------------------------------
(***************************************************************************)
(* A named backend of proxy.go while requests go through it: the schedule  *)
(* cursor, the passive health of its targets, its retry budget, and the    *)
(* attempt sequence of each request (newBackendProxy's rewrite, RoundTrip, *)
(* roundTripWithStatusRetry, the deadline's response body).  The constants *)
(* are the configuration of one backend; every step of a request that      *)
(* reads or writes something shared is an action of its own.               *)
(*                                                                         *)
(* The upstreams and net/http's Transport are external: an attempt ends    *)
(* with a response, whose status is listed in retry.status ("match") or is *)
(* not ("final"), or with an error, which is a timeout or not ("broken").  *)
(***************************************************************************)
EXTENDS TargetHealth, Sequences, FiniteSets

CONSTANTS
    Requests,      \* the requests that are sent to this backend
    N,             \* the number of targets
    Schedule,      \* the weighted schedule of target indices; <<>> without weights
    CursorValues,  \* how many values the cursor has, 2^64 in the program
    HasHealth,     \* is `health` configured?
    Tries,         \* the most attempts a request gets
    HasRetry,      \* is `retry` configured?  It always lists statuses.
    Eligible,      \* the requests for which retryableBackendRequest holds
    Buffered,      \* those whose body is buffered for replay
    Deadline,      \* retry.deadline; 0 when absent
    BudgetMax,     \* retry.budget.max; 0 when absent
    BudgetWindow,  \* retry.budget.window
    Backoff,       \* backoffDelays, one per additional attempt; <<>> when absent
    Jitter,        \* is backoff.jitter "full"?
    StrayInformational, \* may a timed-out attempt's 1xx be read late?
    MaxClock       \* bound on the clock, but for pending timers

Targets == 0 .. N - 1

ASSUME BackendAssumption ==
    /\ N \in Nat \ {0} /\ Tries \in 1 .. N
    /\ Schedule \in Seq(Targets)
    /\ CursorValues \in Nat \ {0}
    /\ {HasHealth, HasRetry, Jitter, StrayInformational} \subseteq BOOLEAN
    /\ Buffered \subseteq Eligible /\ Eligible \subseteq Requests
    /\ Deadline \in Nat /\ BudgetMax \in Nat /\ MaxClock \in Nat
    /\ BudgetMax > 0 => BudgetWindow \in Nat \ {0}
    /\ Backoff = <<>> \/ Backoff \in [1 .. Tries - 1 -> Nat \ {0}]
    /\ HasRetry => Tries > 1
    /\ ~HasRetry => Deadline = 0 /\ BudgetMax = 0 /\ Backoff = <<>> /\ Buffered = {}

VARIABLES
    clock,     \* the monotonic clock
    cursor,    \* backend.nextIndex
    health,    \* backendHealth.targets
    budget,    \* retryBudget: started and used
    call,      \* each request's locals, context and response bodies
    reserved   \* history: the budget reservations, with their clock samples

vars == <<clock, cursor, health, budget, call, reserved>>

-----------------------------------------------------------------------------
(* What a request carries.                                                 *)

Errors == {"timeout", "broken", "canceled", "deadline", "tooLarge", "unreadable"}
Responses == {"final", "match"}

NewCall == [pc            |-> "new",
            start         |-> 0,       \* backendRetryState.start
            attempt       |-> 0,
            target        |-> 0,       \* where the current attempt goes
            first         |-> 0,       \* the first candidate of a selection
            candidate     |-> 0,       \* the candidate to be examined
            examined      |-> 0,       \* how many candidates have been
            spurned       |-> {},      \* history: targets it saw ejected
            fellBack      |-> FALSE,   \* history: it took `first` all the same
            informational |-> FALSE,   \* backendRetryState.informational
            stray         |-> NoTime,  \* the attempt whose reader still runs
            context       |-> "live",  \* or the error of the attempt context
            deadline      |-> NoTime,  \* when the deadline's timer fires
            timer         |-> NoTime,  \* when the backoff's timer fires
            gone          |-> FALSE,   \* the client has gone away
            informed      |-> {},      \* history: the attempts that sent a 1xx
            reply         |-> "none",  \* what the transport returned
            bodies        |-> [k \in 0 .. Tries - 1 |-> "none"],
            result        |-> "none"]  \* what the reverse proxy gets

Ended(r) == call[r].context # "live"

\* Closing a response body; the second close of one would be visible.
Closed(bodies, k) ==
    [bodies EXCEPT ![k] = CASE @ = "open" -> "closed"
                            [] @ = "closed" -> "closedTwice"
                            [] OTHER -> @]

\* RoundTrip returns an error.  A deadline's context is canceled first, and
\* its error is then returned in place of the attempt's: cancel() has made
\* sure that there is one.
ReturnError(c, error) ==
    LET context == IF c.context = "live" THEN "canceled" ELSE c.context
        result  == IF c.deadline = NoTime THEN error ELSE context
    IN  [NewCall EXCEPT !.pc = "done", !.attempt = c.attempt, !.bodies = c.bodies,
                        !.gone = c.gone, !.reply = c.reply, !.result = result]

\* RoundTrip returns the attempt's response; its body keeps the deadline, which
\* modifyProxyResponse looks at.
ReturnResponse(c) ==
    [c EXCEPT !.pc = IF c.deadline = NoTime THEN "body" ELSE "modify",
              !.result = "response", !.stray = NoTime]

\* The attempt goes to this target.
Send(c, target) == [c EXCEPT !.pc = "flight", !.target = target]

\* Mutation of Launch: the deadline's timer is not started.
LaunchUntimed(c, eligible) == [c EXCEPT !.pc = "flight"]

\* The first attempt goes out, and the deadline's timer is started.
Launch(c, eligible) ==
    [c EXCEPT !.pc = "flight",
              !.deadline = IF eligible /\ Deadline > 0 THEN clock + Deadline ELSE NoTime]

-----------------------------------------------------------------------------
(* Time, clients and timers.                                               *)

\* Time goes on to MaxClock, and beyond it while a timer has not come due.
Tick ==
    /\ \/ clock < MaxClock
       \/ \E r \in Requests : clock < call[r].deadline \/ clock < call[r].timer
    /\ clock' = clock + 1
    /\ UNCHANGED <<cursor, health, budget, call, reserved>>

\* A client goes away before it gets a response: the request's context ends,
\* unless it has ended.
ClientGone(r) ==
    /\ call[r].pc \notin {"new", "body", "done"}
    /\ ~call[r].gone
    /\ call' = [call EXCEPT ![r].gone = TRUE,
                            ![r].context = IF @ = "live" THEN "canceled" ELSE @]
    /\ UNCHANGED <<clock, cursor, health, budget, reserved>>

\* The timer of context.WithTimeout fires, some time after it is due.
DeadlineExpires(r) ==
    /\ call[r].deadline # NoTime /\ call[r].deadline <= clock
    /\ call[r].context = "live"
    /\ call' = [call EXCEPT ![r].context = "deadline"]
    /\ UNCHANGED <<clock, cursor, health, budget, reserved>>

-----------------------------------------------------------------------------
(* The first target: nextScheduledTargetIndex and nextHealthyTargetIndex.  *)

Slots == IF Schedule = <<>> THEN N ELSE Len(Schedule)
Slot(i) == IF Schedule = <<>> THEN i ELSE Schedule[i + 1]

\* The first attempt is to go to this target, once a body to replay is read.
Start(r, c, target) ==
    LET started == [c EXCEPT !.start = target, !.target = target]
    IN  IF r \in Buffered THEN [started EXCEPT !.pc = "prepare"]
        ELSE Launch(started, r \in Eligible)

\* The locals of a selection are done with.
Chosen(c, fellBack) == [c EXCEPT !.first = 0, !.candidate = 0, !.examined = 0,
                                 !.fellBack = fellBack]

\* A schedule slot is claimed by one atomic addition, or none for one slot.
Claim(r) ==
    /\ call[r].pc \in {"new", "claim"}
    /\ LET index == IF Slots = 1 THEN Slot(0) ELSE Slot(cursor % Slots)
           c     == call[r]
       IN  /\ cursor' = IF Slots = 1 THEN cursor ELSE (cursor + 1) % CursorValues
           /\ call' = [call EXCEPT ![r] =
                IF ~HasHealth THEN Start(r, c, index)
                ELSE [c EXCEPT !.pc = "examine", !.candidate = index,
                               !.first = IF c.pc = "new" THEN index ELSE @]]
    /\ UNCHANGED <<clock, health, budget, reserved>>

\* available(candidate): it clears an ejection that has run out.
LookAt(r) ==
    health' = [health EXCEPT ![call[r].candidate] = Examined(@, clock)]

\* Examining up to `most` claimed candidates.
ExamineUpTo(r, most) ==
    /\ call[r].pc = "examine"
    /\ LookAt(r)
    /\ LET c == call[r]
           refused == [c EXCEPT !.examined = @ + 1, !.spurned = @ \union {c.candidate}]
       IN  call' = [call EXCEPT ![r] =
             IF ~Ejected(health[c.candidate], clock)
             THEN Chosen(Start(r, c, c.candidate), FALSE)
             ELSE IF refused.examined < most THEN [refused EXCEPT !.pc = "claim"]
             ELSE Chosen(Start(r, refused, c.first), TRUE)]
    /\ UNCHANGED <<clock, cursor, budget, reserved>>

\* Mutation of Examine: one slot too few is claimed.
ExamineShort(r) == ExamineUpTo(r, Slots - 1)

\* The claimed candidate is taken, or another slot is claimed, or the cycle
\* is over and the first candidate is taken all the same.
Examine(r) == ExamineUpTo(r, Slots)

-----------------------------------------------------------------------------
(* One attempt.                                                            *)

\* prepareRetryBody: the body is buffered before anything is sent; it may be
\* too large or fail to read, and an ended context comes first.
Prepare(r) ==
    /\ call[r].pc = "prepare"
    /\ LET c == call[r]
           failures == IF Ended(r) THEN {c.context} ELSE {"tooLarge", "unreadable"}
       IN  \/ \E error \in failures : call' = [call EXCEPT ![r] = ReturnError(c, error)]
           \/ /\ ~Ended(r)
              /\ call' = [call EXCEPT ![r] = Launch(c, TRUE)]
    /\ UNCHANGED <<clock, cursor, health, budget, reserved>>

\* The upstream sends a 1xx: Got1xxResponse sets the request's flag.
Informational(r) ==
    /\ call[r].pc = "flight"
    /\ ~call[r].informational
    /\ call' = [call EXCEPT ![r].informational = TRUE,
                            ![r].informed = @ \union {call[r].attempt}]
    /\ UNCHANGED <<clock, cursor, health, budget, reserved>>

\* The transport's reader of an attempt that has timed out gets to a 1xx only
\* now, and calls the same Got1xxResponse.
Stray(r) ==
    /\ call[r].stray # NoTime
    /\ call' = [call EXCEPT ![r].informational = TRUE, ![r].stray = NoTime,
                            ![r].informed = @ \union {call[r].stray}]
    /\ UNCHANGED <<clock, cursor, health, budget, reserved>>

\* The attempt is over; the health of its target is the next thing, if any.
Observed == IF HasHealth THEN "observe" ELSE "decide"

Answer(r) ==
    /\ call[r].pc = "flight"
    /\ \E reply \in Responses :
         call' = [call EXCEPT ![r].pc = Observed, ![r].reply = reply,
                              ![r].bodies = [@ EXCEPT ![call[r].attempt] = "open"]]
    /\ UNCHANGED <<clock, cursor, health, budget, reserved>>

\* The attempt fails by itself.
Break(r) ==
    /\ call[r].pc = "flight"
    /\ \E reply \in {"timeout", "broken"} :
         call' = [call EXCEPT ![r].pc = Observed, ![r].reply = reply,
                    ![r].stray = IF StrayInformational /\ reply = "timeout"
                                 THEN call[r].attempt ELSE NoTime]
    /\ UNCHANGED <<clock, cursor, health, budget, reserved>>

\* The transport gives an attempt up when its context has ended.
Abort(r) ==
    /\ call[r].pc = "flight"
    /\ Ended(r)
    /\ call' = [call EXCEPT ![r].pc = Observed, ![r].reply = call[r].context]
    /\ UNCHANGED <<clock, cursor, health, budget, reserved>>

Answered(r) == call[r].reply \in Responses

\* Mutation of Observe: errors after the context's end count as failures.
ObserveEndedContexts(r) ==
    /\ call[r].pc = "observe"
    /\ health' = [health EXCEPT ![call[r].target] =
         IF call[r].informational \/ Answered(r) THEN Healthy ELSE Failed(@, clock)]
    /\ call' = [call EXCEPT ![r].pc = "decide"]
    /\ UNCHANGED <<clock, cursor, budget, reserved>>

\* observeAttempt.
Observe(r) ==
    /\ call[r].pc = "observe"
    /\ health' = [health EXCEPT ![call[r].target] =
         IF call[r].informational \/ Answered(r) THEN Healthy
         ELSE IF Ended(r) THEN @ ELSE Failed(@, clock)]
    /\ call' = [call EXCEPT ![r].pc = "decide"]
    /\ UNCHANGED <<clock, cursor, budget, reserved>>

-----------------------------------------------------------------------------
(* Between two attempts.                                                   *)

Last(r) == call[r].attempt + 1 = Tries

\* The next attempt begins: the informational flag is cleared, and the target
\* counted from the first one; with health, that is where the scan begins.
NextAttempt(c) ==
    LET next  == [c EXCEPT !.attempt = @ + 1, !.reply = "none", !.timer = NoTime,
                           !.informational = FALSE, !.spurned = {}]
        index == (c.start + next.attempt) % N
    IN  IF ~HasHealth THEN Send(next, index)
        ELSE [next EXCEPT !.pc = "scan", !.first = index, !.candidate = index]

\* No status is listed: transport errors alone are retried, at once.
DecideTransport(r) ==
    LET c == call[r]
    IN  IF Answered(r) THEN ReturnResponse(c)
        ELSE IF r \notin Eligible \/ c.informational \/ Ended(r) \/ Last(r)
        THEN ReturnError(c, c.reply)
        ELSE NextAttempt(c)

\* Mutation of DecideStatus: a 1xx does not keep an error from being retried.
DecideStatusAnyway(r) ==
    LET c == call[r]
    IN  CASE Answered(r) /\ (Last(r) \/ c.reply # "match") -> ReturnResponse(c)
          [] Answered(r) /\ ~Last(r) /\ c.reply = "match" /\ Ended(r) ->
               ReturnError([c EXCEPT !.bodies = Closed(@, c.attempt)], c.context)
          [] ~Answered(r) /\ (Last(r) \/ Ended(r)) -> ReturnError(c, c.reply)
          [] OTHER -> [c EXCEPT !.pc = "reserve"]

\* Mutation of DecideStatus: a response that is given up is left open.
DecideStatusUnclosed(r) ==
    LET c       == call[r]
        decided == c.informational \/ Last(r)
    IN  CASE Answered(r) /\ (decided \/ c.reply # "match") -> ReturnResponse(c)
          [] Ended(r) \/ decided -> ReturnError(c, c.context)
          [] OTHER -> [c EXCEPT !.pc = "reserve"]

\* Statuses are listed: a matching response is retried like an error.
DecideStatus(r) ==
    LET c       == call[r]
        decided == c.informational \/ Last(r)
        reports == Ended(r) /\ (Deadline > 0 \/ BudgetMax > 0)
    IN  CASE Answered(r) /\ (decided \/ c.reply # "match") -> ReturnResponse(c)
          [] Answered(r) /\ ~decided /\ c.reply = "match" /\ Ended(r) ->
               ReturnError([c EXCEPT !.bodies = Closed(@, c.attempt)], c.context)
          [] ~Answered(r) /\ (decided \/ Ended(r)) ->
               ReturnError(c, IF reports THEN c.context ELSE c.reply)
          [] OTHER -> [c EXCEPT !.pc = "reserve"]

Decide(r) ==
    /\ call[r].pc = "decide"
    /\ call' = [call EXCEPT ![r] = IF HasRetry /\ r \in Eligible
                                   THEN DecideStatus(r) ELSE DecideTransport(r)]
    /\ UNCHANGED <<clock, cursor, health, budget, reserved>>

\* The window that a reservation at this moment belongs to.
Window == IF budget.started = NoTime \/ clock - budget.started >= BudgetWindow
          THEN [started |-> clock, used |-> 0] ELSE budget

Admitted(c) == [c EXCEPT !.pc = IF c.reply \in Responses THEN "discard" ELSE "backoff"]

\* Reserves what `window` has left; the rest of Reserve.
ReserveIn(r, window) ==
    /\ call[r].pc = "reserve"
    /\ LET c == call[r]
           discarding == [c EXCEPT !.bodies = Closed(@, c.attempt)]
       IN  CASE BudgetMax = 0 ->
                  /\ call' = [call EXCEPT ![r] = Admitted(c)]
                  /\ UNCHANGED <<budget, reserved>>
             [] BudgetMax > 0 /\ Ended(r) ->
                  /\ call' = [call EXCEPT ![r] = ReturnError(discarding, c.context)]
                  /\ UNCHANGED <<budget, reserved>>
             [] BudgetMax > 0 /\ ~Ended(r) /\ window.used >= BudgetMax ->
                  /\ call' = [call EXCEPT ![r] = IF Answered(r) THEN ReturnResponse(c)
                                                 ELSE ReturnError(c, c.reply)]
                  /\ UNCHANGED <<budget, reserved>>
             [] OTHER ->
                  /\ call' = [call EXCEPT ![r] = Admitted(c)]
                  /\ budget' = [window EXCEPT !.used = @ + 1]
                  /\ reserved' = Append(reserved, [at |-> clock, by |-> r])
    /\ UNCHANGED <<clock, cursor, health>>

\* Mutation of Reserve: a rollover restores the quota and starts no window.
ReserveWithoutStart(r) ==
    ReserveIn(r, IF budget.started = NoTime THEN Window
                 ELSE [Window EXCEPT !.started = budget.started])

\* Mutation of Reserve: the window never rolls over.
ReserveInFirstWindow(r) ==
    ReserveIn(r, IF budget.started = NoTime THEN Window ELSE budget)

\* reserveRetry: the budget is rolled over, asked and charged under its mutex.
\* A denied response is kept for the client, every other one is closed.
Reserve(r) == ReserveIn(r, Window)

\* The matching response is closed, and the context checked again.
Discard(r) ==
    /\ call[r].pc = "discard"
    /\ LET c == [call[r] EXCEPT !.bodies = Closed(@, call[r].attempt)]
       IN  call' = [call EXCEPT ![r] = IF Ended(r) THEN ReturnError(c, c.context)
                                       ELSE [c EXCEPT !.pc = "backoff"]]
    /\ UNCHANGED <<clock, cursor, health, budget, reserved>>

\* What follows a backoff that is over.
Resume(r) ==
    call' = [call EXCEPT ![r] = IF Ended(r) THEN ReturnError(@, @.context)
                                ELSE NextAttempt(@)]

Delays(k) == IF Jitter THEN 0 .. Backoff[k] - 1 ELSE {Backoff[k]}

\* waitRetryBackoff up to its select statement.
StartBackoff(r) ==
    /\ call[r].pc = "backoff"
    /\ IF Backoff = <<>> THEN call' = [call EXCEPT ![r] = NextAttempt(@)]
       ELSE \E delay \in Delays(call[r].attempt + 1) :
              IF delay = 0 THEN Resume(r)
              ELSE call' = [call EXCEPT ![r].pc = "wait", ![r].timer = clock + delay]
    /\ UNCHANGED <<clock, cursor, health, budget, reserved>>

\* The backoff's timer has fired, or the context has ended.
Wake(r) ==
    /\ call[r].pc = "wait"
    /\ call[r].timer <= clock \/ Ended(r)
    /\ Resume(r)
    /\ UNCHANGED <<clock, cursor, health, budget, reserved>>

\* Mutation of ScanUpTo: the scan does not start over after the last target.
ScanPastEnd(r, most) ==
    /\ call[r].pc = "scan"
    /\ LookAt(r)
    /\ LET c == call[r]
           refused == [c EXCEPT !.examined = @ + 1, !.spurned = @ \union {c.candidate}]
       IN  call' = [call EXCEPT ![r] =
             IF ~Ejected(health[c.candidate], clock)
             THEN Chosen(Send(c, c.candidate), FALSE)
             ELSE IF refused.examined < most
             THEN [refused EXCEPT !.candidate = @ + 1]
             ELSE Chosen(Send(refused, c.first), TRUE)]
    /\ UNCHANGED <<clock, cursor, budget, reserved>>

\* A scan that looks at `most` targets.
ScanUpTo(r, most) ==
    /\ call[r].pc = "scan"
    /\ LookAt(r)
    /\ LET c == call[r]
           refused == [c EXCEPT !.examined = @ + 1, !.spurned = @ \union {c.candidate}]
       IN  call' = [call EXCEPT ![r] =
             IF ~Ejected(health[c.candidate], clock)
             THEN Chosen(Send(c, c.candidate), FALSE)
             ELSE IF refused.examined < most
             THEN [refused EXCEPT !.candidate = (@ + 1) % N]
             ELSE Chosen(Send(refused, c.first), TRUE)]
    /\ UNCHANGED <<clock, cursor, budget, reserved>>

\* Mutation of Scan: one target too few is looked at.
ScanShort(r) == ScanUpTo(r, N - 1)

\* retryTargetIndex, one target at a time.
Scan(r) == ScanUpTo(r, N)

-----------------------------------------------------------------------------
(* After RoundTrip has returned a response.                                *)

Done(c, result) == [NewCall EXCEPT !.pc = "done", !.attempt = c.attempt, !.gone = c.gone,
                                   !.bodies = Closed(c.bodies, c.attempt),
                                   !.result = result]

\* modifyProxyResponse: a deadline that is over turns the response into an
\* error, and the reverse proxy closes the body.
Modify(r) ==
    /\ call[r].pc = "modify"
    /\ call' = [call EXCEPT ![r] = IF @.deadline # NoTime /\ Ended(r)
                                   THEN Done(@, @.context) ELSE [@ EXCEPT !.pc = "body"]]
    /\ UNCHANGED <<clock, cursor, health, budget, reserved>>

\* The reverse proxy has copied the body, or failed to, and closes it;
\* deadlineBody releases the deadline's context.
FinishBody(r) ==
    /\ call[r].pc = "body"
    /\ call' = [call EXCEPT ![r] = Done(@, "response")]
    /\ UNCHANGED <<clock, cursor, health, budget, reserved>>

\* Mutation of Status: only the deadline's own error is known as a timeout.
StatusOfDeadline(error) ==
    CASE error = "tooLarge" -> 413
      [] error = "deadline" -> 504
      [] OTHER -> 502

\* proxyErrorHandler: the status the client gets for an error.
Status(error) ==
    CASE error = "tooLarge" -> 413
      [] error \in {"timeout", "deadline"} -> 504
      [] OTHER -> 502

-----------------------------------------------------------------------------
Init ==
    /\ clock = 0
    /\ cursor = 0
    /\ health = [t \in Targets |-> Healthy]
    /\ budget = [started |-> NoTime, used |-> 0]
    /\ call = [r \in Requests |-> NewCall]
    /\ reserved = <<>>

\* What the request's own goroutine does.
Proceed(r) ==
    \/ Claim(r) \/ Examine(r) \/ Prepare(r) \/ Observe(r) \/ Decide(r) \/ Reserve(r)
    \/ Discard(r) \/ StartBackoff(r) \/ Wake(r) \/ Scan(r) \/ Modify(r)
    \/ FinishBody(r)

\* What the upstream, the transport, the client and the timers do to it.
Environment(r) ==
    \/ Informational(r) \/ Stray(r) \/ Answer(r) \/ Break(r) \/ Abort(r)
    \/ ClientGone(r) \/ DeadlineExpires(r)

Next == Tick \/ \E r \in Requests : Proceed(r) \/ Environment(r)

Spec == Init /\ [][Next]_vars

\* The request's goroutine reads the client's body, or copies the response to
\* the client: how long that takes is up to the client and the upstream.
Waits(r) == call[r].pc \in {"prepare", "body"}

\* The scheduler runs every request that can run and waits for nobody, time
\* passes, timers fire, and the transport gives up an attempt whose context has
\* ended.  Nothing is assumed of clients and upstreams: a body need never come,
\* nor an answer.
Fairness ==
    /\ WF_vars(Tick)
    /\ \A r \in Requests : /\ WF_vars(Proceed(r) /\ ~Waits(r))
                           /\ WF_vars(DeadlineExpires(r))
                           /\ WF_vars(Abort(r))

FairSpec == Spec /\ Fairness

-----------------------------------------------------------------------------
(* Properties.                                                             *)

Call == [pc : {"new", "claim", "examine", "prepare", "flight", "observe", "decide",
               "reserve", "discard", "backoff", "wait", "scan", "modify",
               "body", "done"},
         start : Targets, attempt : 0 .. Tries - 1, target : Targets, first : Targets,
         candidate : Targets, examined : 0 .. Slots + N, spurned : SUBSET Targets,
         fellBack : BOOLEAN, informational : BOOLEAN, stray : (0 .. Tries - 1) \union {NoTime},
         context : {"live", "canceled", "deadline"},
         deadline : Nat \union {NoTime}, timer : Nat \union {NoTime},
         gone : BOOLEAN, informed : SUBSET (0 .. Tries - 1),
         reply : Errors \union Responses \union {"none"},
         bodies : [0 .. Tries - 1 -> {"none", "open", "closed", "closedTwice"}],
         result : Errors \union {"none", "response"}]

\* The type invariant: every variable of Backend keeps its type.
TypeOK ==
    /\ clock \in Nat
    /\ cursor \in 0 .. CursorValues - 1
    /\ health \in [Targets -> TargetRecord]
    /\ budget \in [started : Nat \union {NoTime}, used : 0 .. BudgetMax]
    /\ call \in [Requests -> Call]
    /\ reserved \in Seq([at : Nat, by : Requests])

\* The target's record as HealthPromise sees it: the failures that are kept
\* next to an ejection do not count, and one that has run out is over.
Promise == INSTANCE HealthPromise
    WITH streak <- [t \in Targets |-> IF health[t].until = NoTime
                                      THEN health[t].failures ELSE 0],
         end    <- [t \in Targets |-> IF Ejected(health[t], clock)
                                      THEN health[t].until ELSE NoTime]

\* Requests that look at, observe and expire a target's record in any order,
\* whenever they get to it, together keep what HealthPromise promises of it.
ImplementsHealthPromise == Promise!Spec

\* A retry goes to an ejected target only after its own scan has found every
\* target of the backend ejected (v0.16, section 4).
RetryFallsBackLast ==
    \A r \in Requests :
        call[r].pc = "flight" /\ call[r].attempt > 0 /\ call[r].fellBack =>
            call[r].spurned = Targets

\* The same of first attempts: the first claimed candidate is used only after
\* a complete schedule cycle, that is every target, was found ejected.
FirstFallsBackLast ==
    \A r \in Requests :
        call[r].pc = "flight" /\ call[r].attempt = 0 /\ call[r].fellBack =>
            call[r].spurned = Targets

\* No attempt is begun once an upstream has sent a 1xx for the request (v0.6,
\* section 5).  The flag is set by the transport's goroutine; as long as that is
\* while the attempt is in flight, the two loads of the flag cannot miss it,
\* whether the attempt is answered or fails.  A stray 1xx comes later.
NoRetryAfterInformational ==
    [][\A r \in Requests : call'[r].attempt > call[r].attempt => call[r].informed = {}]_call

\* While an attempt is made, no earlier one has a response open; no response
\* is closed twice; the one that is handed out is open until it is read; and
\* none is open in the end, by whatever early return it was reached.
BodiesClosedOnce ==
    \A r \in Requests :
        LET c == call[r]
        IN  \A k \in 0 .. Tries - 1 :
              /\ c.bodies[k] # "closedTwice"
              /\ c.bodies[k] = "open" => k = c.attempt /\ c.pc # "done"
              /\ c.pc \in {"modify", "body"} /\ k = c.attempt => c.bodies[k] = "open"

\* A matching response reaches the client only when no further attempt was
\* allowed: it was the last one, it came with a 1xx, or the budget was used up.
MatchingResponsesAreRetried ==
    [][\A r \in Requests :
         call[r].result = "none" /\ call'[r].result = "response" /\ call[r].reply = "match"
           /\ r \in Eligible
         => \/ Last(r)
            \/ call[r].informational
            \/ BudgetMax > 0 /\ budget.used = BudgetMax
                 /\ clock - budget.started < BudgetWindow]_call

\* However many requests share the budget: no stretch of time shorter than a
\* window holds more than the reservations of two, and every attempt but the
\* first was reserved, once.
BudgetKept ==
    BudgetMax > 0 =>
        /\ \A i \in 1 .. Len(reserved) :
             i + 2 * BudgetMax <= Len(reserved) =>
               reserved[i + 2 * BudgetMax].at - reserved[i].at >= BudgetWindow
        /\ budget.used = Cardinality({i \in 1 .. Len(reserved) :
                                        reserved[i].at >= budget.started})
        /\ \A r \in Eligible :
             LET own == Cardinality({i \in 1 .. Len(reserved) : reserved[i].by = r})
             IN  /\ own \in {call[r].attempt, call[r].attempt + 1}
                 /\ call[r].pc = "flight" => own = call[r].attempt

\* An attempt that ends in an error is observed as a response only if that
\* attempt itself sent a 1xx (v0.16, section 3).
InformationalIsTheAttempts ==
    \A r \in Requests :
        call[r].pc = "observe" /\ ~Answered(r) /\ call[r].informational =>
            call[r].attempt \in call[r].informed

\* With no usable response, the last attempt's error decides between 502 and
\* 504: a timeout of that attempt produces 504 (v0.6, section 6).
FinalTimeoutIs504 ==
    \A r \in Requests :
        call[r].result \in Errors /\ call[r].reply = "timeout" /\ ~call[r].gone
          => Status(call[r].result) = 504

\* Once the first attempt is on its way, a retry deadline ends the sequence of
\* attempts, closings and backoffs even if no upstream ever answers.
DeadlineEndsSequence ==
    \A r \in Eligible :
        Deadline > 0 => (call[r].pc = "flight" ~> call[r].pc \in {"body", "done"})
=============================================================================
