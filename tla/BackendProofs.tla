---------------------------- MODULE BackendProofs ----------------------------
(***************************************************************************)
(* Theorems about a named backend, for any number of requests and targets. *)
(* What a request carries is kept right by every step of its own, whatever *)
(* the others do (CallInv); the budget they share is kept right by whoever *)
(* reserves (BudgetInv); and the records of the targets implement          *)
(* HealthPromise whoever looks at them.  Where the cursor is shared, what  *)
(* holds of a first selection holds as long as no other claims in between  *)
(* (ClaimInv).                                                             *)
(***************************************************************************)
EXTENDS Backend, FiniteSetTheorems, TLAPS

-----------------------------------------------------------------------------
(* The invariant.                                                          *)

Attempts == 0 .. Tries - 1

\* Another attempt is allowed by then; the backoff's timer runs in one place.
AttemptInv(c) ==
    /\ c.pc \in {"new", "claim", "examine", "prepare"} => c.attempt = 0
    /\ c.pc \in {"reserve", "discard", "backoff", "wait"} =>
         c.attempt + 1 < Tries
    /\ c.pc = "wait" <=> c.timer # NoTime

\* The targets that a scan has found ejected, from the first one on.
Scanned(first, examined) == {(first + i) % N : i \in 0 .. examined - 1}

\* A selection never looks at more than a cycle, and only health makes one.
SelectInv(c) ==
    /\ c.pc \in {"claim", "examine"} => c.examined < Slots
    /\ c.pc = "scan" => /\ c.examined < N
                        /\ c.candidate = (c.first + c.examined) % N
                        /\ c.spurned = Scanned(c.first, c.examined)
    /\ c.pc \notin {"claim", "examine", "scan"} => c.examined = 0
    /\ ~HasHealth => ~c.fellBack /\ c.pc \notin {"claim", "examine", "scan"}
    /\ c.pc = "flight" /\ c.attempt > 0 /\ c.fellBack => c.spurned = Targets

\* Only the current attempt can have a response open, and it has one exactly
\* while the request has yet to give it up or to hand it out.
BodyInv(c) ==
    /\ \A k \in Attempts : /\ c.bodies[k] # "closedTwice"
                           /\ c.bodies[k] = "open" => k = c.attempt
                           /\ k > c.attempt => c.bodies[k] = "none"
    /\ c.pc \in {"observe", "decide", "reserve"} =>
         c.bodies[c.attempt] = IF c.reply \in Responses THEN "open" ELSE "none"
    /\ c.pc \in {"discard", "modify", "body"} => c.bodies[c.attempt] = "open"
    /\ c.pc \in {"new", "claim", "examine", "prepare", "flight", "scan"} =>
         c.bodies[c.attempt] = "none"
    /\ c.pc \in {"backoff", "wait", "done"} => c.bodies[c.attempt] # "open"

\* Unless readers stray, whoever has sent a 1xx is the current attempt.
InformedInv(c) ==
    ~StrayInformational =>
        /\ c.stray = NoTime
        /\ \A k \in c.informed : k = c.attempt /\ c.informational
        /\ c.informational => c.attempt \in c.informed
        /\ c.pc \in {"reserve", "discard", "backoff", "wait"} => ~c.informational

\* The deadline is that of an eligible request; without one, only the client's
\* leaving ends a context.
ContextInv(r, c) ==
    /\ c.deadline # NoTime => Deadline > 0 /\ r \in Eligible
    /\ c.pc = "prepare" => r \in Eligible
    /\ Deadline = 0 => c.context # "deadline" /\ (c.context # "live" => c.gone)
    /\ c.pc \in {"new", "claim", "examine", "prepare", "flight", "scan"} => c.reply = "none"
    /\ c.pc \in {"observe", "decide", "reserve"} => c.reply # "none"
    /\ c.pc # "done" => c.result \in {"none", "response"}
    /\ c.pc \in {"modify", "body"} => c.result = "response"
    /\ Deadline = 0 /\ c.result \in Errors /\ c.reply = "timeout" /\ ~c.gone => c.result = "timeout"

CallInv(r, c) ==
    /\ c \in Call
    /\ AttemptInv(c) /\ SelectInv(c) /\ BodyInv(c) /\ InformedInv(c) /\ ContextInv(r, c)

\* Which reservations belong to the present window, and how far the earlier
\* ones lie behind it.
BudgetInv ==
    /\ budget \in [started : Nat \union {NoTime}, used : 0 .. BudgetMax]
    /\ reserved \in Seq([at : Nat, by : Requests])
    /\ budget.used <= Len(reserved)
    /\ budget.started <= clock
    /\ BudgetMax > 0 =>
        /\ budget.started = NoTime => reserved = <<>>
        /\ \A i \in 1 .. Len(reserved) :
             /\ reserved[i].at <= clock /\ reserved[i].at < budget.started + BudgetWindow
             /\ reserved[i].at >= budget.started <=> i > Len(reserved) - budget.used
             /\ i + BudgetMax <= Len(reserved) - budget.used =>
                  budget.started - reserved[i].at >= BudgetWindow
             /\ i + 2 * BudgetMax <= Len(reserved) =>
                  reserved[i + 2 * BudgetMax].at - reserved[i].at >= BudgetWindow

Own(r) == {i \in 1 .. Len(reserved) : reserved[i].by = r}

\* Every attempt but the first has been reserved, and the next one has while
\* it is prepared.
AccountInv ==
    BudgetMax > 0 => \A r \in Eligible :
        /\ call[r].pc # "done" =>
             Cardinality(Own(r)) = IF call[r].pc \in {"discard", "backoff", "wait"}
                                   THEN call[r].attempt + 1 ELSE call[r].attempt
        /\ Cardinality(Own(r)) \in {call[r].attempt, call[r].attempt + 1}

SharedInv ==
    /\ clock \in Nat
    /\ cursor \in 0 .. CursorValues - 1
    /\ health \in [Targets -> TargetRecord]

CallsInv ==
    /\ call \in [Requests -> Call]
    /\ \A r \in Requests : CallInv(r, call[r])

IInv == SharedInv /\ CallsInv /\ BudgetInv /\ AccountInv

-----------------------------------------------------------------------------
(* The constants.                                                          *)

\* Slots and targets are numbered from 0.
LEMMA SlotsAndTargets ==
    /\ N \in Nat /\ N > 0 /\ Tries \in Nat /\ 1 <= Tries /\ Tries <= N
    /\ Slots \in Nat /\ Slots > 0
    /\ \A i \in 0 .. Slots - 1 : Slot(i) \in Targets
    /\ \A i \in Int : i % N \in Targets
<1>1. N \in Nat /\ N > 0 /\ Tries \in Nat /\ 1 <= Tries /\ Tries <= N
  BY BackendAssumption
<1>2. CASE Schedule = <<>>
  BY <1>1, <1>2 DEF Slots, Slot, Targets
<1>3. CASE Schedule # <<>>
  <2>1. Schedule \in Seq(Targets) /\ Len(Schedule) \in Nat /\ Len(Schedule) > 0
    BY <1>3, BackendAssumption
  <2> QED
    BY <1>1, <1>3, <2>1 DEF Slots, Slot, Targets
<1> QED
  BY <1>1, <1>2, <1>3

\* Counting on from one target, less than two rounds.
LEMMA Around ==
    ASSUME NEW i \in Nat, i < 2 * N
    PROVE  i % N = IF i < N THEN i ELSE i - N
<1>1. N \in Nat /\ N > 0
  BY BackendAssumption
<1>2. CASE i < N
  BY <1>1, <1>2
<1>3. CASE ~(i < N)
  BY <1>1, <1>3
<1> QED
  BY <1>2, <1>3

\* A scan goes from target to target, and a whole one sees all of them.
LEMMA ScanSees ==
    ASSUME NEW first \in Targets, NEW examined \in Nat, examined < N
    PROVE  /\ (first + examined) % N \in Targets
           /\ Scanned(first, examined) \union {(first + examined) % N} = Scanned(first, examined + 1)
           /\ examined + 1 < N => (((first + examined) % N) + 1) % N = (first + (examined + 1)) % N
           /\ examined + 1 = N => Scanned(first, examined + 1) = Targets
<1>1. N \in Nat /\ N > 0 /\ first \in Nat /\ first < N
  BY BackendAssumption DEF Targets
<1>2. (first + examined) % N \in Targets
  BY <1>1, SlotsAndTargets
<1>3. Scanned(first, examined) \union {(first + examined) % N} = Scanned(first, examined + 1)
  <2>1. 0 .. examined + 1 - 1 = (0 .. examined - 1) \union {examined}
    OBVIOUS
  <2> QED
    BY <2>1 DEF Scanned
<1>4. ASSUME examined + 1 < N
      PROVE  (((first + examined) % N) + 1) % N = (first + (examined + 1)) % N
  <2>1. (first + examined) % N = IF first + examined < N THEN first + examined ELSE first + examined - N
    BY <1>1, Around
  <2>2. (first + (examined + 1)) % N = IF first + (examined + 1) < N THEN first + (examined + 1)
                                       ELSE first + (examined + 1) - N
    BY <1>1, <1>4, Around
  <2>3. CASE first + examined < N
    BY <1>1, <2>1, <2>3
  <2>4. CASE ~(first + examined < N)
    <3>1. (first + examined - N) + 1 \in Nat /\ (first + examined - N) + 1 < N
      BY <1>1, <1>4, <2>4
    <3>2. ((first + examined - N) + 1) % N = (first + examined - N) + 1
      BY <1>1, <3>1, Around
    <3> QED
      BY <1>1, <2>1, <2>2, <2>4, <3>2
  <2> QED
    BY <2>3, <2>4
<1>5. ASSUME examined + 1 = N
      PROVE  Scanned(first, examined + 1) = Targets
  <2>1. ASSUME NEW t \in Targets
        PROVE  \E i \in 0 .. N - 1 : t = (first + i) % N
    <3>1. t \in Nat /\ t < N
      BY <1>1, <2>1 DEF Targets
    <3>2. CASE t >= first
      <4>1. t - first \in 0 .. N - 1 /\ first + (t - first) = t /\ t % N = t
        BY <1>1, <3>1, <3>2, Around
      <4> QED
        BY <4>1
    <3>3. CASE t < first
      <4>1. t - first + N \in 0 .. N - 1 /\ first + (t - first + N) = t + N /\ (t + N) % N = t
        BY <1>1, <3>1, <3>3, Around
      <4> QED
        BY <4>1
    <3> QED
      BY <1>1, <3>1, <3>2, <3>3
  <2>2. \A i \in 0 .. N - 1 : (first + i) % N \in Targets
    BY <1>1, SlotsAndTargets
  <2> QED
    BY <1>1, <1>5, <2>1, <2>2 DEF Scanned
<1> QED
  BY <1>2, <1>3, <1>4, <1>5

\* Closing the current attempt's response, if it has one, leaves none open.
LEMMA CloseCurrent ==
    ASSUME NEW c \in Call, BodyInv(c), c.bodies[c.attempt] \in {"open", "none"}
    PROVE  /\ Closed(c.bodies, c.attempt) \in [Attempts -> {"none", "open", "closed", "closedTwice"}]
           /\ \A k \in Attempts : /\ Closed(c.bodies, c.attempt)[k] \notin {"open", "closedTwice"}
                                  /\ k > c.attempt => Closed(c.bodies, c.attempt)[k] = "none"
<1>1. c.attempt \in Attempts /\ c.bodies \in [Attempts -> {"none", "open", "closed", "closedTwice"}]
  BY DEF Call, Attempts
<1>2. CASE c.bodies[c.attempt] = "open"
  <2>1. Closed(c.bodies, c.attempt) = [c.bodies EXCEPT ![c.attempt] = "closed"]
    BY <1>1, <1>2 DEF Closed
  <2> QED
    BY <1>1, <2>1, SlotsAndTargets DEF BodyInv, Attempts
<1>3. CASE c.bodies[c.attempt] = "none"
  <2>1. Closed(c.bodies, c.attempt) = c.bodies
    BY <1>1, <1>3 DEF Closed
  <2> QED
    BY <1>1, <1>3, <2>1, SlotsAndTargets DEF BodyInv, Attempts
<1> QED
  BY <1>2, <1>3

\* A request begins with the values of NewCall, and keeps few when it is done.
LEMMA NewCallType == NewCall \in Call
<1>1. 0 \in Targets /\ 0 \in 0 .. Tries - 1 /\ 0 \in 0 .. Slots + N
  BY SlotsAndTargets DEF Targets
<1> QED
  BY <1>1 DEF Call, NewCall

\* The records of what became of the attempts' responses.
BodyRecords == [0 .. Tries - 1 -> {"none", "open", "closed", "closedTwice"}]

\* A request that is done is one that has not begun, but for what it keeps.
LEMMA DoneType ==
    ASSUME NEW c \in Call, NEW bodies \in BodyRecords,
           NEW reply \in Errors \union Responses \union {"none"},
           NEW result \in Errors \union {"none", "response"}, NEW x,
           x = [NewCall EXCEPT !.pc = "done", !.attempt = c.attempt, !.bodies = bodies,
                               !.gone = c.gone, !.reply = reply, !.result = result]
    PROVE  x \in Call
<1>1. c.attempt \in 0 .. Tries - 1 /\ c.gone \in BOOLEAN
  BY DEF Call
<1> QED
  BY <1>1, NewCallType DEF Call, BodyRecords

-----------------------------------------------------------------------------
(* What the code does to a request, wherever it does it.                   *)

\* An error is returned once no response is open any more.
LEMMA ReturnErrorKeeps ==
    ASSUME NEW r \in Requests, NEW c \in Call, NEW error \in Errors, ContextInv(r, c),
           \A k \in Attempts : /\ c.bodies[k] \notin {"open", "closedTwice"}
                               /\ k > c.attempt => c.bodies[k] = "none",
           Deadline = 0 /\ c.reply = "timeout" /\ ~c.gone => error = "timeout"
    PROVE  CallInv(r, ReturnError(c, error))
<1> DEFINE result == IF c.deadline = NoTime THEN error
                     ELSE IF c.context = "live" THEN "canceled" ELSE c.context
<1>1. PICK x : x = ReturnError(c, error)
  OBVIOUS
<1>2. x = [NewCall EXCEPT !.pc = "done", !.attempt = c.attempt, !.bodies = c.bodies,
                          !.gone = c.gone, !.reply = c.reply, !.result = result]
  BY <1>1 DEF ReturnError
<1>3. /\ c.bodies \in BodyRecords /\ c.reply \in Errors \union Responses \union {"none"}
      /\ c.context \in {"live", "canceled", "deadline"}
  BY DEF Call, BodyRecords
<1>4. result \in Errors
  BY <1>3 DEF Errors
<1>5. x \in Call
  <2> HIDE DEF result
  <2> QED
    BY <1>2, <1>3, <1>4, DoneType
<1> QED
  BY <1>1, <1>2, <1>4, <1>5, SMTT(30)
  DEF CallInv, AttemptInv, SelectInv, BodyInv, InformedInv, ContextInv, NewCall, Attempts, Call, NoTime

\* A request once it has closed its attempt's response.
GivenUp(c) == [c EXCEPT !.bodies = Closed(@, c.attempt)]

\* Such a request may return an error.
LEMMA GivenUpKeeps ==
    ASSUME NEW r \in Requests, NEW c, CallInv(r, c), c.bodies[c.attempt] \in {"open", "none"}
    PROVE  /\ GivenUp(c) \in Call /\ ContextInv(r, GivenUp(c))
           /\ \A k \in Attempts : /\ GivenUp(c).bodies[k] \notin {"open", "closedTwice"}
                                  /\ k > GivenUp(c).attempt => GivenUp(c).bodies[k] = "none"
           /\ GivenUp(c).pc = c.pc /\ GivenUp(c).attempt = c.attempt
           /\ GivenUp(c).reply = c.reply /\ GivenUp(c).context = c.context
           /\ GivenUp(c).gone = c.gone /\ GivenUp(c).timer = c.timer
           /\ GivenUp(c).informational = c.informational /\ GivenUp(c).stray = c.stray
           /\ GivenUp(c).informed = c.informed /\ GivenUp(c).examined = c.examined
           /\ GivenUp(c).fellBack = c.fellBack
<1> DEFINE y == GivenUp(c)
<1>1. PICK bodies : bodies = Closed(c.bodies, c.attempt)
  OBVIOUS
<1>2. y = [c EXCEPT !.bodies = bodies]
  BY <1>1 DEF GivenUp
<1> HIDE DEF y
<1>3. c \in Call /\ BodyInv(c) /\ ContextInv(r, c)
  BY DEF CallInv
<1>4. /\ bodies \in BodyRecords
      /\ \A k \in Attempts : /\ bodies[k] \notin {"open", "closedTwice"}
                             /\ k > c.attempt => bodies[k] = "none"
  BY <1>1, <1>3, CloseCurrent DEF BodyRecords, Attempts
<1>5. y \in Call
  BY <1>2, <1>3, <1>4 DEF Call, BodyRecords
<1>6. /\ y.bodies = bodies /\ y.pc = c.pc /\ y.attempt = c.attempt /\ y.reply = c.reply
      /\ y.context = c.context
      /\ y.gone = c.gone /\ y.deadline = c.deadline /\ y.timer = c.timer
      /\ y.result = c.result /\ y.informational = c.informational /\ y.stray = c.stray
      /\ y.informed = c.informed /\ y.examined = c.examined /\ y.fellBack = c.fellBack
  BY <1>2, <1>3 DEF Call
<1>7. ContextInv(r, y)
  BY <1>3, <1>6 DEF ContextInv
<1> QED
  BY <1>4, <1>5, <1>6, <1>7 DEF y

\* The response that was handed out is closed at the end.
LEMMA DoneKeeps ==
    ASSUME NEW r \in Requests, NEW c \in Call, BodyInv(c), c.bodies[c.attempt] = "open",
           NEW result \in Errors \union {"response"}
    PROVE  CallInv(r, Done(c, result))
<1>1. PICK x : x = Done(c, result)
  OBVIOUS
<1>2. PICK bodies : bodies = Closed(c.bodies, c.attempt)
  OBVIOUS
<1>3. x = [NewCall EXCEPT !.pc = "done", !.attempt = c.attempt, !.gone = c.gone,
                          !.bodies = bodies, !.result = result]
  BY <1>1, <1>2 DEF Done
<1>4. /\ bodies \in BodyRecords
      /\ \A k \in Attempts : /\ bodies[k] \notin {"open", "closedTwice"}
                             /\ k > c.attempt => bodies[k] = "none"
  BY <1>2, CloseCurrent DEF BodyRecords, Attempts
<1>5. x \in Call
  <2>1. c.attempt \in 0 .. Tries - 1 /\ c.gone \in BOOLEAN
    BY DEF Call
  <2> QED
    BY <1>3, <1>4, <2>1, NewCallType DEF Call, BodyRecords
<1> QED
  BY <1>1, <1>3, <1>4, <1>5
  DEF CallInv, AttemptInv, SelectInv, BodyInv, InformedInv, ContextInv, NewCall, Attempts, Call, NoTime

\* An open response is handed out as it is.
LEMMA ReturnResponseKeeps ==
    ASSUME NEW r \in Requests, NEW c, CallInv(r, c),
           c.pc \in {"decide", "reserve"}, c.reply \in Responses
    PROVE  CallInv(r, ReturnResponse(c))
<1>1. PICK x : x = ReturnResponse(c)
  OBVIOUS
<1>2. PICK pc \in {"body", "modify"} :
        x = [c EXCEPT !.pc = pc, !.result = "response", !.stray = NoTime]
  BY <1>1 DEF ReturnResponse
<1>3. c \in Call
  BY DEF CallInv
<1>4. x \in Call
  BY <1>2, <1>3 DEF Call
<1> QED
  BY <1>1, <1>2, <1>3, <1>4
  DEF CallInv, AttemptInv, SelectInv, BodyInv, InformedInv, ContextInv, Call, NoTime, Errors, Responses

\* The next attempt begins with nothing open, and its scan with nothing seen.
LEMMA NextAttemptKeeps ==
    ASSUME NEW r \in Requests, NEW c, CallInv(r, c), c.attempt + 1 < Tries,
           c.pc \in {"decide", "backoff", "wait"}, c.bodies[c.attempt] # "open",
           ~StrayInformational => ~c.informational
    PROVE  CallInv(r, NextAttempt(c))
<1> DEFINE index == (c.start + (c.attempt + 1)) % N
<1>1. PICK x : x = NextAttempt(c)
  OBVIOUS
<1>2. PICK next : next = [c EXCEPT !.attempt = @ + 1, !.reply = "none", !.timer = NoTime,
                                   !.informational = FALSE, !.spurned = {}]
  OBVIOUS
<1>3. /\ c \in Call /\ c.attempt \in Nat /\ c.start \in Nat /\ c.attempt + 1 \in Attempts
      /\ index \in Targets
  <2>1. c \in Call
    BY DEF CallInv
  <2>2. c.attempt \in 0 .. Tries - 1 /\ c.start \in 0 .. N - 1
    BY <2>1, SlotsAndTargets DEF Call, Targets, Attempts
  <2>3. Tries \in Nat /\ N \in Nat /\ \A i \in Int : i % N \in Targets
    BY SlotsAndTargets
  <2>4. c.start + (c.attempt + 1) \in Int
    BY <2>2, <2>3
  <2> QED
    BY <2>1, <2>2, <2>3, <2>4 DEF Attempts
<1>4. next \in Call /\ next.attempt = c.attempt + 1
  BY <1>2, <1>3 DEF Call, Attempts
<1>5. \A k \in Attempts : next.bodies[k] \notin {"open", "closedTwice"}
                          /\ (k >= next.attempt => next.bodies[k] = "none")
  BY <1>2, <1>3, <1>4 DEF CallInv, BodyInv, Call, Attempts
<1>6. x = IF ~HasHealth THEN [next EXCEPT !.pc = "flight", !.target = index]
          ELSE [next EXCEPT !.pc = "scan", !.first = index, !.candidate = index]
  BY <1>1, <1>2, <1>4 DEF NextAttempt, Send
<1>7. x \in Call
  <2> HIDE DEF index
  <2>1. CASE ~HasHealth
    <3>1. x = [next EXCEPT !.pc = "flight", !.target = index]
      BY <1>6, <2>1
    <3> QED
      BY <1>3, <1>4, <3>1 DEF Call
  <2>2. CASE HasHealth
    <3>1. x = [next EXCEPT !.pc = "scan", !.first = index, !.candidate = index]
      BY <1>6, <2>2
    <3> QED
      BY <1>3, <1>4, <3>1 DEF Call
  <2> QED
    BY <2>1, <2>2
<1>8. AttemptInv(x) /\ BodyInv(x) /\ InformedInv(x) /\ ContextInv(r, x)
  <2>1. /\ x.pc \in {"flight", "scan"} /\ x.attempt = next.attempt /\ x.bodies = next.bodies
        /\ x.timer = NoTime /\ x.reply = "none" /\ x.informed = c.informed /\ x.stray = c.stray
        /\ x.deadline = c.deadline /\ x.context = c.context /\ x.gone = c.gone /\ x.result = c.result
    BY <1>2, <1>3, <1>4, <1>6 DEF Call
  <2>2. AttemptInv(x)
    BY <2>1 DEF AttemptInv, NoTime
  <2>3. BodyInv(x)
    BY <1>3, <1>4, <1>5, <2>1 DEF BodyInv, Attempts
  <2>4. InformedInv(x)
    <3>1. ~x.informational
      BY <1>2, <1>3, <1>4, <1>6 DEF Call
    <3>2. ~StrayInformational => c.informed = {}
      BY DEF CallInv, InformedInv
    <3> QED
      BY <2>1, <3>1, <3>2 DEF CallInv, InformedInv
  <2>5. ContextInv(r, x)
    BY <2>1 DEF CallInv, ContextInv
  <2> QED
    BY <2>2, <2>3, <2>4, <2>5
<1>9. SelectInv(x)
  <2>1. CASE ~HasHealth
    BY <1>2, <1>3, <1>4, <1>6, <2>1 DEF CallInv, SelectInv, Call
  <2>2. CASE HasHealth
    <3>1. /\ x.pc = "scan" /\ x.first = index /\ x.candidate = index
          /\ x.examined = 0 /\ x.spurned = {}
      BY <1>2, <1>3, <1>4, <1>6, <2>2 DEF CallInv, SelectInv, Call
    <3>2. index = (index + 0) % N
      BY <1>3, SlotsAndTargets DEF Targets
    <3>3. Scanned(index, 0) = {}
      BY DEF Scanned
    <3> HIDE DEF index
    <3> QED
      BY <2>2, <3>1, <3>2, <3>3, SlotsAndTargets DEF SelectInv
  <2> QED
    BY <2>1, <2>2 DEF CallInv, Call, BackendAssumption
<1> QED
  BY <1>1, <1>7, <1>8, <1>9 DEF CallInv

\* A first attempt that starts at once, or as soon as its body is buffered.
LEMMA StartKeeps ==
    ASSUME NEW r \in Requests, NEW c \in Call, NEW target \in Targets, clock \in Nat,
           AttemptInv(c), BodyInv(c), InformedInv(c), ContextInv(r, c),
           c.pc \in {"new", "claim", "examine"}
    PROVE  /\ Start(r, c, target) \in Call
           /\ AttemptInv(Start(r, c, target)) /\ BodyInv(Start(r, c, target))
           /\ InformedInv(Start(r, c, target)) /\ ContextInv(r, Start(r, c, target))
           /\ Start(r, c, target).pc \in {"prepare", "flight"}
           /\ Start(r, c, target).attempt = 0
           /\ Start(r, c, target).examined = c.examined
           /\ Start(r, c, target).fellBack = c.fellBack
<1>1. PICK x : x = Start(r, c, target)
  OBVIOUS
<1>2. PICK deadline \in Nat \union {NoTime} :
        /\ deadline # NoTime => Deadline > 0 /\ r \in Eligible
        /\ \/ x = [c EXCEPT !.start = target, !.target = target, !.pc = "prepare"] /\ r \in Eligible
           \/ x = [c EXCEPT !.start = target, !.target = target, !.pc = "flight", !.deadline = deadline]
  <2>1. CASE r \in Buffered
    <3>1. x = [c EXCEPT !.start = target, !.target = target, !.pc = "prepare"]
      BY <1>1, <2>1 DEF Start
    <3> QED
      BY <2>1, <3>1, BackendAssumption
  <2>2. CASE r \notin Buffered
    <3>1. PICK deadline : deadline = IF r \in Eligible /\ Deadline > 0 THEN clock + Deadline ELSE NoTime
      OBVIOUS
    <3>2. deadline \in Nat \union {NoTime} /\ (deadline # NoTime => Deadline > 0 /\ r \in Eligible)
      BY <3>1, BackendAssumption
    <3>3. x = [c EXCEPT !.start = target, !.target = target, !.pc = "flight", !.deadline = deadline]
      BY <1>1, <2>2, <3>1 DEF Start, Launch
    <3> QED
      BY <3>2, <3>3
  <2> QED
    BY <2>1, <2>2
<1>3. /\ x \in Call /\ x.pc \in {"prepare", "flight"}
      /\ x.pc = "prepare" => r \in Eligible
      /\ x.deadline # NoTime => Deadline > 0 /\ r \in Eligible
      /\ x.attempt = c.attempt /\ x.bodies = c.bodies /\ x.examined = c.examined
      /\ x.fellBack = c.fellBack /\ x.timer = c.timer /\ x.reply = c.reply /\ x.informed = c.informed
      /\ x.informational = c.informational /\ x.stray = c.stray /\ x.context = c.context
      /\ x.gone = c.gone /\ x.result = c.result
  <2>1. CASE x = [c EXCEPT !.start = target, !.target = target, !.pc = "prepare"] /\ r \in Eligible
    <3>1. x \in Call
      BY <2>1 DEF Call
    <3> QED
      BY <2>1, <3>1 DEF ContextInv, Call
  <2>2. CASE x = [c EXCEPT !.start = target, !.target = target, !.pc = "flight", !.deadline = deadline]
    <3>1. x \in Call
      BY <2>2 DEF Call
    <3> QED
      BY <1>2, <2>2, <3>1 DEF Call
  <2> QED
    BY <1>2, <2>1, <2>2
<1>4. c.attempt = 0 /\ c.timer = NoTime
  BY DEF AttemptInv
<1>5. AttemptInv(x) /\ InformedInv(x) /\ ContextInv(r, x)
  BY <1>3, <1>4 DEF AttemptInv, InformedInv, ContextInv
<1>6. BodyInv(x)
  BY <1>3, <1>4 DEF BodyInv
<1> QED
  BY <1>1, <1>3, <1>4, <1>5, <1>6

\* What a selection leaves behind once it has chosen a target.
LEMMA ChosenKeeps ==
    ASSUME NEW r \in Requests, NEW c \in Call, NEW fellBack \in BOOLEAN, HasHealth,
           AttemptInv(c), BodyInv(c), InformedInv(c), ContextInv(r, c),
           c.pc \in {"prepare", "flight"},
           c.attempt > 0 /\ fellBack => c.spurned = Targets
    PROVE  CallInv(r, Chosen(c, fellBack))
<1>1. PICK x : x = Chosen(c, fellBack)
  OBVIOUS
<1>2. x = [c EXCEPT !.first = 0, !.candidate = 0, !.examined = 0, !.fellBack = fellBack]
  BY <1>1 DEF Chosen
<1>3. 0 \in Targets /\ 0 \in 0 .. Slots + N
  BY SlotsAndTargets DEF Targets
<1>4. x \in Call
  BY <1>2, <1>3 DEF Call
<1>5. /\ x.pc = c.pc /\ x.examined = 0 /\ x.fellBack = fellBack /\ x.spurned = c.spurned
      /\ x.attempt = c.attempt /\ x.bodies = c.bodies /\ x.deadline = c.deadline
      /\ x.timer = c.timer /\ x.reply = c.reply /\ x.informed = c.informed
      /\ x.informational = c.informational /\ x.stray = c.stray /\ x.context = c.context
      /\ x.gone = c.gone /\ x.result = c.result
  BY <1>2 DEF Call
<1>6. AttemptInv(x) /\ InformedInv(x) /\ ContextInv(r, x)
  BY <1>5 DEF AttemptInv, InformedInv, ContextInv
<1>7. BodyInv(x)
  BY <1>5 DEF BodyInv
<1>8. SelectInv(x)
  BY <1>5 DEF SelectInv
<1> QED
  BY <1>1, <1>4, <1>6, <1>7, <1>8 DEF CallInv

-----------------------------------------------------------------------------
(* Steps of a request.                                                     *)

\* A step changes what one request carries.
LEMMA OneCall ==
    ASSUME CallsInv, NEW r \in Requests, NEW x, CallInv(r, x), call' = [call EXCEPT ![r] = x]
    PROVE  CallsInv'
<1>1. x \in Call
  BY DEF CallInv
<1>2. call' \in [Requests -> Call]
  BY <1>1 DEF CallsInv
<1>3. ASSUME NEW q \in Requests PROVE CallInv(q, call'[q])
  <2>1. call'[q] = IF q = r THEN x ELSE call[q]
    BY DEF CallsInv
  <2> QED
    BY <2>1 DEF CallsInv
<1> QED
  BY <1>2, <1>3 DEF CallsInv

\* Fields that an environment step leaves alone.
LEMMA ClientGoneKeeps ==
    ASSUME CallsInv, NEW r \in Requests, ClientGone(r)
    PROVE  CallsInv'
<1>1. PICK x : x = [call[r] EXCEPT !.gone = TRUE,
                                   !.context = IF @ = "live" THEN "canceled" ELSE @]
  OBVIOUS
<1>2. call[r] \in Call /\ CallInv(r, call[r])
  BY DEF CallsInv
<1>3. PICK context \in {"canceled", "deadline"} :
        /\ x = [call[r] EXCEPT !.gone = TRUE, !.context = context]
        /\ context = "deadline" => call[r].context = "deadline"
  BY <1>1, <1>2 DEF Call
<1>4. x \in Call
  BY <1>2, <1>3 DEF Call
<1>5. CallInv(r, x)
  BY <1>2, <1>3, <1>4 DEF CallInv, AttemptInv, SelectInv, BodyInv, InformedInv, ContextInv, Call
<1> QED
  BY <1>1, <1>5, OneCall DEF ClientGone, CallsInv

\* A context that has ended stays ended.
LEMMA DeadlineExpiresKeeps ==
    ASSUME CallsInv, NEW r \in Requests, DeadlineExpires(r)
    PROVE  CallsInv'
<1>1. PICK x : x = [call[r] EXCEPT !.context = "deadline"]
  OBVIOUS
<1>2. CallInv(r, call[r]) /\ call[r] \in Call /\ call[r].deadline # NoTime
  BY DEF CallsInv, DeadlineExpires
<1>3. x \in Call
  BY <1>1, <1>2 DEF Call
<1>4. AttemptInv(x) /\ SelectInv(x)
  BY <1>1, <1>2 DEF CallInv, AttemptInv, SelectInv, Call
<1>5. BodyInv(x) /\ InformedInv(x)
  BY <1>1, <1>2 DEF CallInv, BodyInv, InformedInv, Call
<1>6. ContextInv(r, x)
  BY <1>1, <1>2, BackendAssumption DEF CallInv, ContextInv, Call
<1>7. CallInv(r, x)
  BY <1>3, <1>4, <1>5, <1>6 DEF CallInv
<1> QED
  BY <1>1, <1>7, OneCall DEF DeadlineExpires, CallsInv

\* It is the attempt in flight that sends a 1xx.
LEMMA InformationalKeeps ==
    ASSUME CallsInv, NEW r \in Requests, Informational(r)
    PROVE  CallsInv'
<1>1. PICK x : x = [call[r] EXCEPT !.informational = TRUE, !.informed = @ \union {call[r].attempt}]
  OBVIOUS
<1>2. CallInv(r, call[r]) /\ call[r] \in Call /\ call[r].pc = "flight"
  BY DEF CallsInv, Informational
<1>3. x \in Call
  BY <1>1, <1>2 DEF Call
<1>4. /\ x = [call[r] EXCEPT !.informational = TRUE, !.informed = x.informed]
      /\ x.informed = call[r].informed \union {call[r].attempt}
  BY <1>1, <1>2 DEF Call
<1>5. AttemptInv(x) /\ SelectInv(x) /\ BodyInv(x)
  <2>1. AttemptInv(x)
    BY <1>2, <1>4 DEF CallInv, AttemptInv, Call
  <2>2. SelectInv(x)
    BY <1>2, <1>4 DEF CallInv, SelectInv, Call
  <2>3. BodyInv(x)
    <3>1. /\ x.pc = call[r].pc /\ x.attempt = call[r].attempt /\ x.bodies = call[r].bodies
          /\ x.reply = call[r].reply
      BY <1>2, <1>4 DEF Call
    <3> QED
      BY <1>2, <3>1 DEF CallInv, BodyInv
  <2> QED
    BY <2>1, <2>2, <2>3
<1>6. InformedInv(x)
  BY <1>2, <1>4 DEF CallInv, InformedInv, Call
<1>7. ContextInv(r, x)
  BY <1>2, <1>4 DEF CallInv, ContextInv, Call
<1>8. CallInv(r, x)
  BY <1>3, <1>5, <1>6, <1>7 DEF CallInv
<1> QED
  BY <1>1, <1>8, OneCall DEF Informational, CallsInv

\* Only a reader that strays gets to this.
LEMMA StrayKeeps ==
    ASSUME CallsInv, NEW r \in Requests, Stray(r)
    PROVE  CallsInv'
<1>1. PICK x : x = [call[r] EXCEPT !.informational = TRUE, !.stray = NoTime,
                                   !.informed = @ \union {call[r].stray}]
  OBVIOUS
<1>2. /\ CallInv(r, call[r]) /\ call[r] \in Call /\ call[r].stray # NoTime
      /\ call[r].stray \in 0 .. Tries - 1
  BY DEF CallsInv, Stray, Call
<1>3. x \in Call
  BY <1>1, <1>2 DEF Call
<1>4. CallInv(r, x)
  BY <1>1, <1>2, <1>3
  DEF CallInv, AttemptInv, SelectInv, BodyInv, InformedInv, ContextInv, Call
<1> QED
  BY <1>1, <1>4, OneCall DEF Stray, CallsInv

\* A response is open from the moment it arrives.
LEMMA AnswerKeeps ==
    ASSUME CallsInv, NEW r \in Requests, Answer(r)
    PROVE  CallsInv'
<1>1. CallInv(r, call[r]) /\ call[r] \in Call /\ call[r].pc = "flight"
  BY DEF CallsInv, Answer
<1>2. PICK reply \in Responses :
        call' = [call EXCEPT ![r].pc = Observed, ![r].reply = reply,
                             ![r].bodies = [@ EXCEPT ![call[r].attempt] = "open"]]
  BY DEF Answer
<1>3. PICK bodies : bodies = [call[r].bodies EXCEPT ![call[r].attempt] = "open"]
  OBVIOUS
<1>4. /\ bodies \in BodyRecords /\ bodies[call[r].attempt] = "open"
      /\ \A k \in Attempts : k # call[r].attempt => bodies[k] = call[r].bodies[k]
  BY <1>1, <1>3 DEF Call, BodyRecords, Attempts
<1>5. PICK x : x = [call[r] EXCEPT !.pc = Observed, !.reply = reply, !.bodies = bodies]
  OBVIOUS
<1>6. PICK pc \in {"observe", "decide"} : pc = Observed
  BY DEF Observed
<1>7. x \in Call
  BY <1>1, <1>4, <1>5, <1>6 DEF Call, BodyRecords, Responses
<1>8. AttemptInv(x) /\ SelectInv(x)
  BY <1>1, <1>5, <1>6 DEF CallInv, AttemptInv, SelectInv, Call
<1>9. BodyInv(x)
  <2>1. x.pc = pc /\ x.reply = reply /\ x.bodies = bodies /\ x.attempt = call[r].attempt
    BY <1>1, <1>5, <1>6 DEF Call
  <2>2. \A k \in Attempts : /\ bodies[k] # "closedTwice"
                            /\ bodies[k] = "open" => k = call[r].attempt
                            /\ k > call[r].attempt => bodies[k] = "none"
    BY <1>1, <1>4 DEF CallInv, BodyInv, Call, Attempts
  <2> QED
    BY <1>2, <1>4, <2>1, <2>2 DEF BodyInv
<1>10. InformedInv(x)
  BY <1>1, <1>5, <1>6 DEF CallInv, InformedInv, Call
<1>11. ContextInv(r, x)
  BY <1>1, <1>5, <1>6 DEF CallInv, ContextInv, Call, Responses, Errors
<1>12. CallInv(r, x)
  BY <1>7, <1>8, <1>9, <1>10, <1>11 DEF CallInv
<1>13. call' = [call EXCEPT ![r] = x]
  BY <1>2, <1>3, <1>5 DEF CallsInv
<1> QED
  BY <1>12, <1>13, OneCall

\* An attempt that ends in an error leaves nothing open.
LEMMA FailedAttemptKeeps ==
    ASSUME CallsInv, NEW r \in Requests, Break(r) \/ Abort(r)
    PROVE  CallsInv'
<1>1. CallInv(r, call[r]) /\ call[r] \in Call /\ call[r].pc = "flight"
  BY DEF CallsInv, Break, Abort
<1>2. PICK reply \in Errors, stray \in Attempts \union {NoTime} :
        /\ StrayInformational \/ stray = NoTime \/ stray = call[r].stray
        /\ call' = [call EXCEPT ![r] = [call[r] EXCEPT !.pc = Observed, !.reply = reply, !.stray = stray]]
  <2>1. CASE Break(r)
    <3>1. PICK reply \in {"timeout", "broken"} :
            call' = [call EXCEPT ![r].pc = Observed, ![r].reply = reply,
                       ![r].stray = IF StrayInformational /\ reply = "timeout"
                                    THEN call[r].attempt ELSE NoTime]
      BY <2>1 DEF Break
    <3>2. PICK stray : stray = IF StrayInformational /\ reply = "timeout" THEN call[r].attempt ELSE NoTime
      OBVIOUS
    <3>3. stray \in Attempts \union {NoTime} /\ (StrayInformational \/ stray = NoTime)
      BY <1>1, <3>2 DEF Call, Attempts
    <3>4. call' = [call EXCEPT ![r] = [call[r] EXCEPT !.pc = Observed, !.reply = reply, !.stray = stray]]
      BY <3>1, <3>2 DEF CallsInv
    <3> QED
      BY <3>1, <3>3, <3>4 DEF Errors
  <2>2. CASE Abort(r)
    <3>1. call[r].context \in {"canceled", "deadline"} /\ call[r].stray \in Attempts \union {NoTime}
      BY <1>1, <2>2 DEF Abort, Ended, Call, Attempts
    <3>2. call' = [call EXCEPT ![r] = [call[r] EXCEPT !.pc = Observed, !.reply = call[r].context,
                                                      !.stray = call[r].stray]]
      BY <1>1, <2>2 DEF Abort, CallsInv, Call
    <3> QED
      BY <3>1, <3>2 DEF Errors
  <2> QED
    BY <2>1, <2>2
<1>3. PICK x : x = [call[r] EXCEPT !.pc = Observed, !.reply = reply, !.stray = stray]
  OBVIOUS
<1>4. PICK pc \in {"observe", "decide"} : pc = Observed
  BY DEF Observed
<1>5. x \in Call
  BY <1>1, <1>3, <1>4 DEF Call, Attempts
<1>6. CallInv(r, x)
  BY <1>1, <1>2, <1>3, <1>4, <1>5
  DEF CallInv, AttemptInv, SelectInv, BodyInv, InformedInv, ContextInv, Call, Responses, Errors
<1> QED
  BY <1>2, <1>3, <1>6, OneCall

\* Observing an attempt changes the target's record, not what was received.
LEMMA ObserveKeeps ==
    ASSUME CallsInv, NEW r \in Requests, Observe(r)
    PROVE  CallsInv'
<1>1. CallInv(r, call[r]) /\ call[r] \in Call /\ call[r].pc = "observe"
  BY DEF CallsInv, Observe
<1>2. PICK x : x = [call[r] EXCEPT !.pc = "decide"]
  OBVIOUS
<1>3. x \in Call
  BY <1>1, <1>2 DEF Call
<1>4. AttemptInv(x) /\ SelectInv(x) /\ BodyInv(x)
  BY <1>1, <1>2 DEF CallInv, AttemptInv, SelectInv, BodyInv, Call
<1>5. InformedInv(x) /\ ContextInv(r, x)
  BY <1>1, <1>2 DEF CallInv, InformedInv, ContextInv, Call
<1>6. CallInv(r, x)
  BY <1>3, <1>4, <1>5 DEF CallInv
<1> QED
  BY <1>2, <1>6, OneCall DEF Observe, CallsInv

\* A claim either starts the first attempt or adds a candidate to a cycle.
LEMMA ClaimKeeps ==
    ASSUME CallsInv, clock \in Nat, cursor \in Nat, NEW r \in Requests, Claim(r)
    PROVE  CallsInv'
<1>1. CallInv(r, call[r]) /\ call[r] \in Call /\ call[r].pc \in {"new", "claim"}
  BY DEF CallsInv, Claim
<1>2. PICK index \in Targets :
        call' = [call EXCEPT ![r] =
                   IF ~HasHealth THEN Start(r, call[r], index)
                   ELSE [call[r] EXCEPT !.pc = "examine", !.candidate = index,
                                        !.first = IF call[r].pc = "new" THEN index ELSE @]]
  <2>1. PICK index : index = IF Slots = 1 THEN Slot(0) ELSE Slot(cursor % Slots)
    OBVIOUS
  <2>2. cursor % Slots \in 0 .. Slots - 1 /\ 0 \in 0 .. Slots - 1
    BY SlotsAndTargets
  <2>3. index \in Targets
    BY <2>1, <2>2, SlotsAndTargets
  <2> QED
    BY <2>1, <2>3 DEF Claim
<1>3. CASE ~HasHealth
  <2>1. PICK x : x = Start(r, call[r], index)
    OBVIOUS
  <2>2. /\ x \in Call /\ AttemptInv(x) /\ BodyInv(x) /\ InformedInv(x) /\ ContextInv(r, x)
        /\ x.pc \in {"prepare", "flight"} /\ x.attempt = 0 /\ x.examined = call[r].examined
        /\ x.fellBack = call[r].fellBack
    BY <1>1, <2>1, StartKeeps DEF CallInv
  <2>3. SelectInv(x)
    BY <1>1, <1>3, <2>2 DEF CallInv, SelectInv
  <2>4. CallInv(r, x)
    BY <2>2, <2>3 DEF CallInv
  <2> QED
    BY <1>2, <1>3, <2>1, <2>4, OneCall
<1>4. CASE HasHealth
  <2>1. PICK first \in Targets : first = IF call[r].pc = "new" THEN index ELSE call[r].first
    BY <1>1 DEF Call
  <2>2. PICK x : x = [call[r] EXCEPT !.pc = "examine", !.candidate = index, !.first = first]
    OBVIOUS
  <2>3. x \in Call
    BY <1>1, <2>2 DEF Call
  <2>4. /\ x.pc = "examine" /\ x.attempt = call[r].attempt /\ x.bodies = call[r].bodies
        /\ x.examined = call[r].examined /\ x.timer = call[r].timer /\ x.reply = call[r].reply
        /\ x.informed = call[r].informed /\ x.informational = call[r].informational
        /\ x.stray = call[r].stray /\ x.context = call[r].context /\ x.gone = call[r].gone
        /\ x.result = call[r].result /\ x.deadline = call[r].deadline
    BY <1>1, <2>2 DEF Call
  <2>5. AttemptInv(x) /\ BodyInv(x) /\ InformedInv(x) /\ ContextInv(r, x)
    <3>1. AttemptInv(x)
      BY <1>1, <2>4 DEF CallInv, AttemptInv
    <3>2. BodyInv(x)
      BY <1>1, <2>4 DEF CallInv, BodyInv
    <3>3. InformedInv(x) /\ ContextInv(r, x)
      BY <1>1, <2>4 DEF CallInv, InformedInv, ContextInv
    <3> QED
      BY <3>1, <3>2, <3>3
  <2>6. SelectInv(x)
    BY <1>1, <1>4, <2>4, SlotsAndTargets DEF CallInv, SelectInv
  <2>7. CallInv(r, x)
    BY <2>3, <2>5, <2>6 DEF CallInv
  <2>8. call' = [call EXCEPT ![r] = x]
    BY <1>2, <1>4, <2>1, <2>2
  <2> QED
    BY <2>7, <2>8, OneCall
<1> QED
  BY <1>3, <1>4, BackendAssumption

\* An examination takes the candidate, goes on, or ends the cycle.
LEMMA ExamineKeeps ==
    ASSUME CallsInv, clock \in Nat, NEW r \in Requests, Examine(r)
    PROVE  CallsInv'
<1>1. CallInv(r, call[r]) /\ call[r] \in Call /\ call[r].pc = "examine"
  BY DEF CallsInv, Examine, ExamineUpTo
<1>2. HasHealth /\ call[r].attempt = 0 /\ call[r].examined < Slots
  BY <1>1 DEF CallInv, SelectInv, AttemptInv
<1>3. PICK refused : refused = [call[r] EXCEPT !.examined = @ + 1,
                                               !.spurned = @ \union {call[r].candidate}]
  OBVIOUS
<1>4. PICK free : free = ~Ejected(health[call[r].candidate], clock)
  OBVIOUS
<1>5. call' = [call EXCEPT ![r] =
                 IF free THEN Chosen(Start(r, call[r], call[r].candidate), FALSE)
                 ELSE IF refused.examined < Slots THEN [refused EXCEPT !.pc = "claim"]
                 ELSE Chosen(Start(r, refused, call[r].first), TRUE)]
  BY <1>3, <1>4 DEF Examine, ExamineUpTo
<1>6. refused \in Call
  <2>1. PICK examined : examined = call[r].examined + 1
    OBVIOUS
  <2>2. PICK spurned : spurned = call[r].spurned \union {call[r].candidate}
    OBVIOUS
  <2>3. refused = [call[r] EXCEPT !.examined = examined, !.spurned = spurned]
    BY <1>3, <2>1, <2>2
  <2>4. examined \in 0 .. Slots + N
    BY <1>1, <1>2, <2>1, SlotsAndTargets DEF Call
  <2>5. spurned \in SUBSET Targets
    BY <1>1, <2>2 DEF Call
  <2> QED
    BY <1>1, <2>3, <2>4, <2>5 DEF Call
<1>7. /\ refused.pc = "examine" /\ refused.attempt = 0 /\ refused.bodies = call[r].bodies
      /\ refused.examined = call[r].examined + 1 /\ refused.timer = call[r].timer
      /\ refused.reply = call[r].reply /\ refused.informed = call[r].informed
      /\ refused.informational = call[r].informational /\ refused.stray = call[r].stray
      /\ refused.context = call[r].context /\ refused.gone = call[r].gone
      /\ refused.result = call[r].result /\ refused.deadline = call[r].deadline
  BY <1>1, <1>2, <1>3 DEF Call
<1>8. AttemptInv(refused) /\ BodyInv(refused) /\ InformedInv(refused) /\ ContextInv(r, refused)
  <2>1. AttemptInv(refused)
    BY <1>1, <1>2, <1>7 DEF CallInv, AttemptInv
  <2>2. BodyInv(refused)
    BY <1>1, <1>2, <1>7 DEF CallInv, BodyInv
  <2>3. InformedInv(refused) /\ ContextInv(r, refused)
    BY <1>1, <1>2, <1>7 DEF CallInv, InformedInv, ContextInv
  <2> QED
    BY <2>1, <2>2, <2>3
<1>9. CASE free
  <2>1. PICK y : y = Start(r, call[r], call[r].candidate)
    OBVIOUS
  <2>2. /\ y \in Call /\ AttemptInv(y) /\ BodyInv(y) /\ InformedInv(y) /\ ContextInv(r, y)
        /\ y.pc \in {"prepare", "flight"} /\ y.attempt = 0
    BY <1>1, <2>1, StartKeeps DEF CallInv, Call
  <2>3. CallInv(r, Chosen(y, FALSE))
    BY <1>2, <2>2, ChosenKeeps
  <2>4. call' = [call EXCEPT ![r] = Chosen(y, FALSE)]
    BY <1>5, <1>9, <2>1
  <2> QED
    BY <2>3, <2>4, OneCall
<1>10. CASE ~free /\ refused.examined < Slots
  <2>1. PICK x : x = [refused EXCEPT !.pc = "claim"]
    OBVIOUS
  <2>2. x \in Call
    BY <1>6, <2>1 DEF Call
  <2>3. /\ x.pc = "claim" /\ x.attempt = 0 /\ x.bodies = refused.bodies
        /\ x.examined = refused.examined /\ x.timer = refused.timer /\ x.reply = refused.reply
        /\ x.informed = refused.informed /\ x.informational = refused.informational
        /\ x.stray = refused.stray /\ x.context = refused.context /\ x.gone = refused.gone
        /\ x.result = refused.result /\ x.deadline = refused.deadline
    BY <1>6, <1>7, <2>1 DEF Call
  <2>4. AttemptInv(x)
    BY <1>7, <1>8, <2>3 DEF AttemptInv
  <2>5. BodyInv(x)
    BY <1>7, <1>8, <2>3 DEF BodyInv
  <2>6. InformedInv(x) /\ ContextInv(r, x)
    BY <1>7, <1>8, <2>3 DEF InformedInv, ContextInv
  <2>7. SelectInv(x)
    BY <1>2, <1>10, <2>3 DEF SelectInv
  <2>8. CallInv(r, x)
    BY <2>2, <2>4, <2>5, <2>6, <2>7 DEF CallInv
  <2>9. call' = [call EXCEPT ![r] = x]
    BY <1>5, <1>10, <2>1
  <2> QED
    BY <2>8, <2>9, OneCall
<1>11. CASE ~free /\ ~(refused.examined < Slots)
  <2>1. PICK y : y = Start(r, refused, call[r].first)
    OBVIOUS
  <2>2. /\ y \in Call /\ AttemptInv(y) /\ BodyInv(y) /\ InformedInv(y) /\ ContextInv(r, y)
        /\ y.pc \in {"prepare", "flight"} /\ y.attempt = 0
    BY <1>1, <1>6, <1>7, <1>8, <2>1, StartKeeps DEF Call
  <2>3. CallInv(r, Chosen(y, TRUE))
    <3>1. ~(y.attempt > 0)
      BY <2>2
    <3> QED
      BY <1>2, <2>2, <3>1, ChosenKeeps
  <2>4. call' = [call EXCEPT ![r] = Chosen(y, TRUE)]
    BY <1>5, <1>11, <2>1
  <2> QED
    BY <2>3, <2>4, OneCall
<1> QED
  BY <1>9, <1>10, <1>11

\* The body is buffered while nothing is open yet.
LEMMA PrepareKeeps ==
    ASSUME CallsInv, clock \in Nat, NEW r \in Requests, Prepare(r)
    PROVE  CallsInv'
<1>1. /\ CallInv(r, call[r]) /\ call[r] \in Call /\ call[r].pc = "prepare"
      /\ call[r].attempt = 0 /\ r \in Eligible
  BY DEF CallsInv, Prepare, CallInv, AttemptInv, ContextInv
<1>2. CASE \E error \in IF Ended(r) THEN {call[r].context} ELSE {"tooLarge", "unreadable"} :
             call' = [call EXCEPT ![r] = ReturnError(call[r], error)]
  <2>1. PICK error \in Errors : call' = [call EXCEPT ![r] = ReturnError(call[r], error)]
    <3>1. (IF Ended(r) THEN {call[r].context} ELSE {"tooLarge", "unreadable"}) \subseteq Errors
      BY <1>1 DEF Ended, Call, Errors
    <3> QED
      BY <1>2, <3>1
  <2>2. \A k \in Attempts : /\ call[r].bodies[k] \notin {"open", "closedTwice"}
                            /\ k > call[r].attempt => call[r].bodies[k] = "none"
    BY <1>1 DEF CallInv, BodyInv
  <2>3. call[r].reply = "none"
    BY <1>1 DEF CallInv, ContextInv
  <2>4. CallInv(r, ReturnError(call[r], error))
    BY <1>1, <2>2, <2>3, ReturnErrorKeeps DEF CallInv
  <2> QED
    BY <2>1, <2>4, OneCall
<1>3. CASE call' = [call EXCEPT ![r] = Launch(call[r], TRUE)]
  <2>1. PICK deadline \in Nat \union {NoTime} :
          deadline = IF Deadline > 0 THEN clock + Deadline ELSE NoTime
    <3>1. Deadline \in Nat /\ clock + Deadline \in Nat
      BY BackendAssumption
    <3> QED
      BY <3>1
  <2>2. PICK x : x = [call[r] EXCEPT !.pc = "flight", !.deadline = deadline]
    OBVIOUS
  <2>3. deadline # NoTime => Deadline > 0
    BY <2>1
  <2>4. x \in Call
    <3>1. PICK c \in Call : x = [c EXCEPT !.pc = "flight", !.deadline = deadline]
      BY <1>1, <2>2
    <3> QED
      BY <3>1 DEF Call
  <2>5. /\ x.pc = "flight" /\ x.attempt = 0 /\ x.bodies = call[r].bodies
        /\ x.examined = call[r].examined /\ x.fellBack = call[r].fellBack
        /\ x.timer = call[r].timer /\ x.reply = call[r].reply
        /\ x.informed = call[r].informed /\ x.informational = call[r].informational
        /\ x.stray = call[r].stray /\ x.context = call[r].context /\ x.gone = call[r].gone
        /\ x.result = call[r].result /\ x.deadline = deadline
    BY <1>1, <2>2 DEF Call
  <2>6. AttemptInv(x) /\ SelectInv(x)
    BY <1>1, <2>5 DEF CallInv, AttemptInv, SelectInv
  <2>7. BodyInv(x)
    BY <1>1, <2>5 DEF CallInv, BodyInv
  <2>8. InformedInv(x) /\ ContextInv(r, x)
    BY <1>1, <2>3, <2>5 DEF CallInv, InformedInv, ContextInv
  <2>9. CallInv(r, x)
    BY <2>4, <2>6, <2>7, <2>8 DEF CallInv
  <2>10. call' = [call EXCEPT ![r] = x]
    BY <1>3, <2>1, <2>2 DEF Launch
  <2> QED
    BY <2>9, <2>10, OneCall
<1> QED
  BY <1>2, <1>3 DEF Prepare

\* What an attempt came to decides whether it is returned or given up.
LEMMA DecideKeeps ==
    ASSUME CallsInv, NEW r \in Requests, Decide(r)
    PROVE  CallsInv'
<1>1. PICK c \in Call : c = call[r] /\ CallInv(r, c) /\ c.pc = "decide"
  BY DEF CallsInv, Decide
<1>2. /\ c.attempt \in Attempts /\ c.context \in {"live", "canceled", "deadline"}
      /\ c.reply \in Errors \union Responses /\ Errors \intersect Responses = {}
      /\ Ended(r) <=> c.context # "live"
      /\ Answered(r) <=> c.reply \in Responses
      /\ Last(r) <=> c.attempt + 1 = Tries
      /\ Ended(r) /\ Deadline = 0 => c.gone
  BY <1>1 DEF CallInv, ContextInv, Call, Attempts, Ended, Answered, Last, Errors, Responses
<1>3. /\ c.bodies[c.attempt] = IF c.reply \in Responses THEN "open" ELSE "none"
      /\ \A k \in Attempts : /\ c.bodies[k] # "closedTwice"
                             /\ c.bodies[k] = "open" => k = c.attempt
                             /\ k > c.attempt => c.bodies[k] = "none"
  BY <1>1 DEF CallInv, BodyInv
<1>4. ASSUME Answered(r) PROVE CallInv(r, ReturnResponse(c))
  BY <1>1, <1>2, <1>4, ReturnResponseKeeps
<1>5. ASSUME ~Answered(r), NEW error \in Errors, error = c.reply \/ (error = c.context /\ Ended(r))
      PROVE  CallInv(r, ReturnError(c, error))
  <2>1. \A k \in Attempts : /\ c.bodies[k] \notin {"open", "closedTwice"}
                            /\ k > c.attempt => c.bodies[k] = "none"
    BY <1>2, <1>3, <1>5
  <2>2. Deadline = 0 /\ c.reply = "timeout" /\ ~c.gone => error = "timeout"
    BY <1>2, <1>5
  <2> QED
    BY <1>1, <2>1, <2>2, ReturnErrorKeeps DEF CallInv
<1>6. CASE HasRetry /\ r \in Eligible
  <2>1. call' = [call EXCEPT ![r] = DecideStatus(r)]
    BY <1>6 DEF Decide
  <2>2. CASE Answered(r) /\ (c.informational \/ Last(r) \/ c.reply # "match")
    <3>1. DecideStatus(r) = ReturnResponse(c)
      BY <1>1, <2>2 DEF DecideStatus
    <3> QED
      BY <1>4, <2>1, <2>2, <3>1, OneCall
  <2>3. CASE Answered(r) /\ ~(c.informational \/ Last(r) \/ c.reply # "match") /\ Ended(r)
    <3>1. PICK y : y = GivenUp(c)
      OBVIOUS
    <3>2. DecideStatus(r) = ReturnError(y, c.context)
      BY <1>1, <2>3, <3>1 DEF DecideStatus, GivenUp
    <3>3. /\ y \in Call /\ ContextInv(r, y) /\ y.reply = c.reply
          /\ \A k \in Attempts : /\ y.bodies[k] \notin {"open", "closedTwice"}
                                 /\ k > y.attempt => y.bodies[k] = "none"
      <4>1. c.bodies[c.attempt] \in {"open", "none"}
        BY <1>3
      <4> QED
        BY <1>1, <3>1, <4>1, GivenUpKeeps
    <3>4. c.context \in Errors /\ y.reply # "timeout"
      BY <1>2, <2>3, <3>3 DEF Errors, Responses
    <3>5. CallInv(r, ReturnError(y, c.context))
      BY <3>3, <3>4, ReturnErrorKeeps
    <3> QED
      BY <2>1, <3>2, <3>5, OneCall
  <2>4. CASE ~Answered(r) /\ (c.informational \/ Last(r) \/ Ended(r))
    <3>1. PICK error : error = IF Ended(r) /\ (Deadline > 0 \/ BudgetMax > 0)
                               THEN c.context ELSE c.reply
      OBVIOUS
    <3>2. DecideStatus(r) = ReturnError(c, error)
      BY <1>1, <2>4, <3>1 DEF DecideStatus
    <3>3. error \in Errors /\ (error = c.reply \/ (error = c.context /\ Ended(r)))
      BY <1>2, <2>4, <3>1 DEF Errors
    <3> QED
      BY <1>5, <2>1, <2>4, <3>2, <3>3, OneCall
  <2>5. CASE ~(c.informational \/ Last(r) \/ Ended(r)) /\ (Answered(r) => c.reply = "match")
    <3>1. PICK x : x = [c EXCEPT !.pc = "reserve"]
      OBVIOUS
    <3>2. DecideStatus(r) = x
      BY <1>1, <2>5, <3>1 DEF DecideStatus
    <3>3. x \in Call
      BY <3>1 DEF Call
    <3>4. /\ x.pc = "reserve" /\ x.attempt = c.attempt /\ x.bodies = c.bodies
          /\ x.examined = c.examined /\ x.fellBack = c.fellBack
          /\ x.timer = c.timer /\ x.reply = c.reply /\ x.informed = c.informed
          /\ x.informational = c.informational /\ x.stray = c.stray /\ x.context = c.context
          /\ x.gone = c.gone /\ x.result = c.result /\ x.deadline = c.deadline
      BY <3>1 DEF Call
    <3>5. AttemptInv(x)
      BY <1>1, <1>2, <2>5, <3>4, SlotsAndTargets DEF CallInv, AttemptInv, Attempts
    <3>6. SelectInv(x) /\ BodyInv(x)
      BY <1>1, <3>4 DEF CallInv, SelectInv, BodyInv
    <3>7. InformedInv(x) /\ ContextInv(r, x)
      BY <1>1, <2>5, <3>4 DEF CallInv, InformedInv, ContextInv
    <3>8. CallInv(r, x)
      BY <3>3, <3>5, <3>6, <3>7 DEF CallInv
    <3> QED
      BY <2>1, <3>2, <3>8, OneCall
  <2> QED
    BY <2>2, <2>3, <2>4, <2>5
<1>7. CASE ~(HasRetry /\ r \in Eligible)
  <2>1. call' = [call EXCEPT ![r] = DecideTransport(r)]
    BY <1>7 DEF Decide
  <2>2. CASE Answered(r)
    <3>1. DecideTransport(r) = ReturnResponse(c)
      BY <1>1, <2>2 DEF DecideTransport
    <3> QED
      BY <1>4, <2>1, <2>2, <3>1, OneCall
  <2>3. CASE ~Answered(r) /\ (r \notin Eligible \/ c.informational \/ Ended(r) \/ Last(r))
    <3>1. DecideTransport(r) = ReturnError(c, c.reply)
      BY <1>1, <2>3 DEF DecideTransport
    <3>2. c.reply \in Errors
      BY <1>2, <2>3
    <3> QED
      BY <1>5, <2>1, <2>3, <3>1, <3>2, OneCall
  <2>4. CASE ~Answered(r) /\ ~(r \notin Eligible \/ c.informational \/ Ended(r) \/ Last(r))
    <3>1. DecideTransport(r) = NextAttempt(c)
      BY <1>1, <2>4 DEF DecideTransport
    <3>2. c.attempt + 1 < Tries /\ c.bodies[c.attempt] # "open"
      BY <1>2, <1>3, <2>4, SlotsAndTargets DEF Attempts
    <3>3. CallInv(r, NextAttempt(c))
      BY <1>1, <2>4, <3>2, NextAttemptKeeps
    <3> QED
      BY <2>1, <3>1, <3>3, OneCall
  <2> QED
    BY <2>2, <2>3, <2>4
<1> QED
  BY <1>6, <1>7

\* What a request carries while it may make another attempt.
LEMMA BetweenAttempts ==
    ASSUME CallsInv, NEW r \in Requests,
           call[r].pc \in {"reserve", "discard", "backoff", "wait"}
    PROVE  /\ call[r] \in Call /\ CallInv(r, call[r]) /\ call[r].attempt \in Nat
           /\ call[r].attempt + 1 < Tries
           /\ ~StrayInformational => ~call[r].informational
           /\ Ended(r) => call[r].context \in Errors
           /\ Ended(r) /\ Deadline = 0 => call[r].gone
<1>1. call[r] \in Call /\ CallInv(r, call[r])
  BY DEF CallsInv
<1>2. call[r].attempt \in Nat /\ call[r].attempt + 1 < Tries
  BY <1>1 DEF CallInv, AttemptInv, Call
<1>3. ~StrayInformational => ~call[r].informational
  BY <1>1 DEF CallInv, InformedInv
<1>4. /\ Ended(r) => call[r].context \in Errors
      /\ Ended(r) /\ Deadline = 0 => call[r].gone
  BY <1>1 DEF CallInv, ContextInv, Ended, Call, Errors
<1> QED
  BY <1>1, <1>2, <1>3, <1>4

\* A matching response is closed before the backoff.
LEMMA DiscardKeeps ==
    ASSUME CallsInv, NEW r \in Requests, Discard(r)
    PROVE  CallsInv'
<1>1. PICK y : y = GivenUp(call[r])
  OBVIOUS
<1>2. call[r].pc = "discard"
  BY DEF Discard
<1>3. /\ CallInv(r, call[r]) /\ call[r].bodies[call[r].attempt] = "open"
      /\ call[r] \in Call /\ call[r].attempt + 1 < Tries
      /\ ~StrayInformational => ~call[r].informational
      /\ Ended(r) => call[r].context \in Errors
      /\ Ended(r) /\ Deadline = 0 => call[r].gone
  BY <1>2, BetweenAttempts DEF CallInv, BodyInv
<1>4. /\ y \in Call /\ ContextInv(r, y)
      /\ \A k \in Attempts : /\ y.bodies[k] \notin {"open", "closedTwice"}
                             /\ k > y.attempt => y.bodies[k] = "none"
      /\ y.pc = "discard" /\ y.attempt = call[r].attempt /\ y.reply = call[r].reply
      /\ y.context = call[r].context /\ y.gone = call[r].gone /\ y.timer = call[r].timer
      /\ y.informational = call[r].informational /\ y.stray = call[r].stray
      /\ y.informed = call[r].informed /\ y.examined = call[r].examined
      /\ y.fellBack = call[r].fellBack
  BY <1>1, <1>2, <1>3, GivenUpKeeps
<1>5. call' = [call EXCEPT ![r] = IF Ended(r) THEN ReturnError(y, y.context)
                                  ELSE [y EXCEPT !.pc = "backoff"]]
  BY <1>1 DEF Discard, GivenUp
<1>6. CASE Ended(r)
  <2>1. CallInv(r, ReturnError(y, y.context))
    BY <1>3, <1>4, <1>6, ReturnErrorKeeps
  <2> QED
    BY <1>5, <1>6, <2>1, OneCall
<1>7. CASE ~Ended(r)
  <2>1. PICK x : x = [y EXCEPT !.pc = "backoff"]
    OBVIOUS
  <2>2. x \in Call
    BY <1>4, <2>1 DEF Call
  <2>3. /\ x.pc = "backoff" /\ x.attempt = y.attempt /\ x.bodies = y.bodies
        /\ x.examined = y.examined /\ x.fellBack = y.fellBack
        /\ x.timer = y.timer /\ x.reply = y.reply /\ x.informed = y.informed
        /\ x.informational = y.informational /\ x.stray = y.stray /\ x.context = y.context
        /\ x.gone = y.gone /\ x.result = y.result /\ x.deadline = y.deadline
    BY <1>4, <2>1 DEF Call
  <2>4. AttemptInv(x)
    BY <1>2, <1>3, <1>4, <2>3 DEF CallInv, AttemptInv
  <2>5. SelectInv(x)
    BY <1>2, <1>3, <1>4, <2>3 DEF CallInv, SelectInv
  <2>6. BodyInv(x)
    BY <1>3, <1>4, <2>3 DEF BodyInv, Call, Attempts
  <2>7. InformedInv(x)
    BY <1>2, <1>3, <1>4, <2>3 DEF CallInv, InformedInv
  <2>8. ContextInv(r, x)
    BY <1>4, <2>3 DEF ContextInv
  <2>9. CallInv(r, x)
    BY <2>2, <2>4, <2>5, <2>6, <2>7, <2>8 DEF CallInv
  <2> QED
    BY <1>5, <1>7, <2>1, <2>9, OneCall
<1> QED
  BY <1>6, <1>7

\* After a backoff the context is looked at again.
LEMMA ResumeKeeps ==
    ASSUME CallsInv, NEW r \in Requests, call[r].pc \in {"backoff", "wait"}
    PROVE  /\ Ended(r) => CallInv(r, ReturnError(call[r], call[r].context))
           /\ CallInv(r, NextAttempt(call[r]))
<1>1. /\ CallInv(r, call[r]) /\ call[r] \in Call /\ call[r].attempt + 1 < Tries
      /\ ~StrayInformational => ~call[r].informational
      /\ Ended(r) => call[r].context \in Errors
      /\ Ended(r) /\ Deadline = 0 => call[r].gone
  BY BetweenAttempts
<1>2. \A k \in Attempts : /\ call[r].bodies[k] \notin {"open", "closedTwice"}
                          /\ k > call[r].attempt => call[r].bodies[k] = "none"
  BY <1>1 DEF CallInv, BodyInv, Call, Attempts
<1>3. call[r].bodies[call[r].attempt] # "open"
  BY <1>1 DEF CallInv, BodyInv
<1>4. Ended(r) => CallInv(r, ReturnError(call[r], call[r].context))
  BY <1>1, <1>2, ReturnErrorKeeps DEF CallInv
<1>5. CallInv(r, NextAttempt(call[r]))
  BY <1>1, <1>3, NextAttemptKeeps
<1> QED
  BY <1>4, <1>5

\* A backoff begins, or there is none to wait for.
LEMMA StartBackoffKeeps ==
    ASSUME CallsInv, clock \in Nat, NEW r \in Requests, StartBackoff(r)
    PROVE  CallsInv'
<1>1. PICK c \in Call : c = call[r] /\ c.pc = "backoff" /\ CallInv(r, c)
  BY DEF CallsInv, StartBackoff
<1>2. c.attempt \in Nat /\ c.attempt + 1 < Tries
  BY <1>1, BetweenAttempts
<1>3. CASE call' = [call EXCEPT ![r] = NextAttempt(c)]
  BY <1>1, <1>3, ResumeKeeps, OneCall
<1>4. CASE Ended(r) /\ call' = [call EXCEPT ![r] = ReturnError(c, c.context)]
  BY <1>1, <1>4, ResumeKeeps, OneCall
<1>5. ASSUME Backoff # <<>>, NEW delay \in Delays(c.attempt + 1), delay # 0,
             call' = [call EXCEPT ![r].pc = "wait", ![r].timer = clock + delay]
      PROVE  CallsInv'
  <2>1. Backoff[c.attempt + 1] \in Nat \ {0}
    <3>1. Backoff \in [1 .. Tries - 1 -> Nat \ {0}]
      BY <1>5, BackendAssumption
    <3>2. c.attempt + 1 \in 1 .. Tries - 1
      BY <1>2, SlotsAndTargets
    <3> QED
      BY <3>1, <3>2
  <2>2. delay \in Nat
    BY <1>5, <2>1 DEF Delays
  <2>3. PICK timer \in Nat : timer = clock + delay
    BY <2>2
  <2>4. PICK x : x = [c EXCEPT !.pc = "wait", !.timer = timer]
    OBVIOUS
  <2>5. x \in Call
    <3>1. PICK late \in Nat \union {NoTime} : x = [c EXCEPT !.pc = "wait", !.timer = late]
      BY <2>3, <2>4
    <3> QED
      BY <3>1 DEF Call
  <2>6. /\ x.pc = "wait" /\ x.attempt = c.attempt /\ x.bodies = c.bodies
        /\ x.examined = c.examined /\ x.fellBack = c.fellBack
        /\ x.timer = timer /\ x.reply = c.reply /\ x.informed = c.informed
        /\ x.informational = c.informational /\ x.stray = c.stray /\ x.context = c.context
        /\ x.gone = c.gone /\ x.result = c.result /\ x.deadline = c.deadline
    BY <2>4 DEF Call
  <2>7. AttemptInv(x)
    BY <1>2, <2>3, <2>6 DEF AttemptInv, NoTime
  <2>8. SelectInv(x) /\ BodyInv(x)
    BY <1>1, <2>6 DEF CallInv, SelectInv, BodyInv
  <2>9. InformedInv(x) /\ ContextInv(r, x)
    BY <1>1, <2>6 DEF CallInv, InformedInv, ContextInv
  <2>10. CallInv(r, x)
    BY <2>5, <2>7, <2>8, <2>9 DEF CallInv
  <2>11. call' = [call EXCEPT ![r] = x]
    BY <1>1, <1>5, <2>3, <2>4 DEF CallsInv
  <2> QED
    BY <2>10, <2>11, OneCall
<1>6. CASE Backoff = <<>>
  BY <1>1, <1>3, <1>6 DEF StartBackoff, CallsInv
<1>7. CASE Backoff # <<>>
  <2>1. PICK delay \in Delays(c.attempt + 1) :
          IF delay = 0 THEN Resume(r)
          ELSE call' = [call EXCEPT ![r].pc = "wait", ![r].timer = clock + delay]
    BY <1>1, <1>7 DEF StartBackoff
  <2>2. CASE delay = 0
    BY <1>1, <1>3, <1>4, <2>1, <2>2 DEF Resume, CallsInv
  <2>3. CASE delay # 0
    BY <1>5, <1>7, <2>1, <2>3
  <2> QED
    BY <2>2, <2>3
<1> QED
  BY <1>6, <1>7

\* A backoff ends.
LEMMA WakeKeeps ==
    ASSUME CallsInv, NEW r \in Requests, Wake(r)
    PROVE  CallsInv'
<1>1. call[r].pc = "wait"
  BY DEF Wake
<1>2. call' = [call EXCEPT ![r] = IF Ended(r) THEN ReturnError(call[r], call[r].context)
                                  ELSE NextAttempt(call[r])]
  BY DEF Wake, Resume, CallsInv
<1> QED
  BY <1>1, <1>2, ResumeKeeps, OneCall

\* What is known of a request whose attempt goes to a target at last.
LEMMA SendKeeps ==
    ASSUME NEW r \in Requests, NEW c \in Call, NEW target \in Targets,
           AttemptInv(c), BodyInv(c), InformedInv(c), ContextInv(r, c), c.pc = "scan"
    PROVE  /\ Send(c, target) \in Call
           /\ AttemptInv(Send(c, target)) /\ BodyInv(Send(c, target))
           /\ InformedInv(Send(c, target)) /\ ContextInv(r, Send(c, target))
           /\ Send(c, target).pc = "flight" /\ Send(c, target).spurned = c.spurned
<1>1. PICK x : x = Send(c, target)
  OBVIOUS
<1>2. x = [c EXCEPT !.pc = "flight", !.target = target]
  BY <1>1 DEF Send
<1>3. x \in Call
  BY <1>2 DEF Call
<1>4. /\ x.pc = "flight" /\ x.attempt = c.attempt /\ x.bodies = c.bodies
      /\ x.timer = c.timer /\ x.reply = c.reply /\ x.informed = c.informed
      /\ x.informational = c.informational /\ x.stray = c.stray /\ x.context = c.context
      /\ x.gone = c.gone /\ x.result = c.result /\ x.deadline = c.deadline
      /\ x.spurned = c.spurned
  BY <1>2 DEF Call
<1>5. AttemptInv(x) /\ InformedInv(x) /\ ContextInv(r, x)
  BY <1>4 DEF AttemptInv, InformedInv, ContextInv
<1>6. BodyInv(x)
  BY <1>4 DEF BodyInv
<1> QED
  BY <1>1, <1>3, <1>4, <1>5, <1>6

\* A scan takes the candidate, goes on to the next, or has seen every target.
LEMMA ScanKeeps ==
    ASSUME CallsInv, NEW r \in Requests, Scan(r)
    PROVE  CallsInv'
<1>1. PICK c \in Call : c = call[r] /\ c.pc = "scan" /\ CallInv(r, c)
  BY DEF CallsInv, Scan, ScanUpTo
<1>2. PICK refused : refused = [c EXCEPT !.examined = @ + 1, !.spurned = @ \union {c.candidate}]
  OBVIOUS
<1>3. PICK free : free = ~Ejected(health[c.candidate], clock)
  OBVIOUS
<1>4. call' = [call EXCEPT ![r] =
                 IF free THEN Chosen(Send(c, c.candidate), FALSE)
                 ELSE IF refused.examined < N THEN [refused EXCEPT !.candidate = (@ + 1) % N]
                 ELSE Chosen(Send(refused, c.first), TRUE)]
  BY <1>1, <1>2, <1>3 DEF Scan, ScanUpTo
<1>5. /\ HasHealth /\ c.examined \in Nat /\ c.examined < N /\ c.first \in Targets
      /\ c.candidate = (c.first + c.examined) % N /\ c.spurned = Scanned(c.first, c.examined)
      /\ c.candidate \in Targets /\ c.spurned \in SUBSET Targets
  BY <1>1 DEF CallInv, SelectInv, Call
<1>6. refused \in Call
  <2>1. PICK examined : examined = c.examined + 1
    OBVIOUS
  <2>2. PICK spurned : spurned = c.spurned \union {c.candidate}
    OBVIOUS
  <2>3. refused = [c EXCEPT !.examined = examined, !.spurned = spurned]
    BY <1>2, <2>1, <2>2
  <2>4. examined \in 0 .. Slots + N
    BY <1>5, <2>1, SlotsAndTargets
  <2>5. spurned \in SUBSET Targets
    BY <1>5, <2>2
  <2> QED
    BY <2>3, <2>4, <2>5 DEF Call
<1>7. /\ refused.pc = "scan" /\ refused.attempt = c.attempt /\ refused.bodies = c.bodies
      /\ refused.examined = c.examined + 1 /\ refused.timer = c.timer
      /\ refused.spurned = c.spurned \union {c.candidate}
      /\ refused.candidate = c.candidate /\ refused.first = c.first
      /\ refused.reply = c.reply /\ refused.informed = c.informed
      /\ refused.informational = c.informational /\ refused.stray = c.stray
      /\ refused.context = c.context /\ refused.gone = c.gone
      /\ refused.result = c.result /\ refused.deadline = c.deadline
  BY <1>1, <1>2 DEF Call
<1>8. AttemptInv(refused) /\ BodyInv(refused) /\ InformedInv(refused) /\ ContextInv(r, refused)
  <2>1. AttemptInv(refused)
    BY <1>1, <1>7 DEF CallInv, AttemptInv
  <2>2. BodyInv(refused)
    BY <1>1, <1>7 DEF CallInv, BodyInv
  <2>3. InformedInv(refused) /\ ContextInv(r, refused)
    BY <1>1, <1>7 DEF CallInv, InformedInv, ContextInv
  <2> QED
    BY <2>1, <2>2, <2>3
<1>9. CASE free
  <2>1. PICK y : y = Send(c, c.candidate)
    OBVIOUS
  <2>2. /\ y \in Call /\ AttemptInv(y) /\ BodyInv(y) /\ InformedInv(y) /\ ContextInv(r, y)
        /\ y.pc = "flight"
    BY <1>1, <1>5, <2>1, SendKeeps DEF CallInv
  <2>3. CallInv(r, Chosen(y, FALSE))
    BY <1>5, <2>2, ChosenKeeps
  <2>4. call' = [call EXCEPT ![r] = Chosen(y, FALSE)]
    BY <1>4, <1>9, <2>1
  <2> QED
    BY <2>3, <2>4, OneCall
<1>10. CASE ~free /\ refused.examined < N
  <2>1. PICK next : next = (c.candidate + 1) % N
    OBVIOUS
  <2>2. PICK x : x = [refused EXCEPT !.candidate = next]
    OBVIOUS
  <2>3. next \in Targets
    BY <1>5, <2>1, SlotsAndTargets DEF Targets
  <2>4. x \in Call
    BY <1>6, <2>2, <2>3 DEF Call
  <2>5. /\ x.pc = "scan" /\ x.attempt = refused.attempt /\ x.bodies = refused.bodies
        /\ x.examined = refused.examined /\ x.timer = refused.timer /\ x.reply = refused.reply
        /\ x.candidate = next /\ x.first = refused.first /\ x.spurned = refused.spurned
        /\ x.informed = refused.informed /\ x.informational = refused.informational
        /\ x.stray = refused.stray /\ x.context = refused.context /\ x.gone = refused.gone
        /\ x.result = refused.result /\ x.deadline = refused.deadline
    BY <1>6, <1>7, <2>2 DEF Call
  <2>6. AttemptInv(x)
    BY <1>7, <1>8, <2>5 DEF AttemptInv
  <2>7. BodyInv(x)
    BY <1>7, <1>8, <2>5 DEF BodyInv
  <2>8. InformedInv(x) /\ ContextInv(r, x)
    BY <1>7, <1>8, <2>5 DEF InformedInv, ContextInv
  <2>9. SelectInv(x)
    <3>1. /\ c.spurned \union {c.candidate} = Scanned(c.first, c.examined + 1)
          /\ next = (c.first + (c.examined + 1)) % N
      BY <1>5, <1>7, <1>10, <2>1, ScanSees
    <3> QED
      BY <1>5, <1>7, <1>10, <2>5, <3>1 DEF SelectInv
  <2>10. CallInv(r, x)
    BY <2>4, <2>6, <2>7, <2>8, <2>9 DEF CallInv
  <2>11. call' = [call EXCEPT ![r] = x]
    BY <1>4, <1>7, <1>10, <2>1, <2>2
  <2> QED
    BY <2>10, <2>11, OneCall
<1>11. CASE ~free /\ ~(refused.examined < N)
  <2>1. PICK y : y = Send(refused, c.first)
    OBVIOUS
  <2>2. /\ y \in Call /\ AttemptInv(y) /\ BodyInv(y) /\ InformedInv(y) /\ ContextInv(r, y)
        /\ y.pc = "flight" /\ y.spurned = refused.spurned
    BY <1>5, <1>6, <1>7, <1>8, <2>1, SendKeeps
  <2>3. y.spurned = Targets
    <3>1. c.examined + 1 = N
      BY <1>5, <1>7, <1>11, SlotsAndTargets
    <3> QED
      BY <1>5, <1>7, <2>2, <3>1, ScanSees
  <2>4. CallInv(r, Chosen(y, TRUE))
    BY <1>5, <2>2, <2>3, ChosenKeeps
  <2>5. call' = [call EXCEPT ![r] = Chosen(y, TRUE)]
    BY <1>4, <1>11, <2>1
  <2> QED
    BY <2>4, <2>5, OneCall
<1> QED
  BY <1>9, <1>10, <1>11

\* A response that has come too late is closed, any other one is read.
LEMMA ModifyKeeps ==
    ASSUME CallsInv, NEW r \in Requests, Modify(r)
    PROVE  CallsInv'
<1>1. PICK c \in Call : c = call[r] /\ c.pc = "modify" /\ CallInv(r, c)
  BY DEF CallsInv, Modify
<1>2. BodyInv(c) /\ c.bodies[c.attempt] = "open"
  BY <1>1 DEF CallInv, BodyInv
<1>3. CASE Ended(r) /\ call' = [call EXCEPT ![r] = Done(c, c.context)]
  <2>1. c.context \in Errors \union {"response"}
    BY <1>1, <1>3 DEF Ended, Call, Errors
  <2>2. CallInv(r, Done(c, c.context))
    BY <1>2, <2>1, DoneKeeps
  <2> QED
    BY <1>3, <2>2, OneCall
<1>4. CASE call' = [call EXCEPT ![r] = [c EXCEPT !.pc = "body"]]
  <2>1. PICK x : x = [c EXCEPT !.pc = "body"]
    OBVIOUS
  <2>2. x \in Call
    BY <2>1 DEF Call
  <2>3. /\ x.pc = "body" /\ x.attempt = c.attempt /\ x.bodies = c.bodies
        /\ x.examined = c.examined /\ x.fellBack = c.fellBack
        /\ x.timer = c.timer /\ x.reply = c.reply /\ x.informed = c.informed
        /\ x.informational = c.informational /\ x.stray = c.stray /\ x.context = c.context
        /\ x.gone = c.gone /\ x.result = c.result /\ x.deadline = c.deadline
    BY <2>1 DEF Call
  <2>4. AttemptInv(x) /\ SelectInv(x)
    BY <1>1, <2>3 DEF CallInv, AttemptInv, SelectInv
  <2>5. BodyInv(x)
    BY <1>1, <2>3 DEF CallInv, BodyInv
  <2>6. InformedInv(x) /\ ContextInv(r, x)
    BY <1>1, <2>3 DEF CallInv, InformedInv, ContextInv
  <2>7. CallInv(r, x)
    BY <2>2, <2>4, <2>5, <2>6 DEF CallInv
  <2> QED
    BY <1>4, <2>1, <2>7, OneCall
<1> QED
  BY <1>1, <1>3, <1>4 DEF Modify, CallsInv

\* A response is closed when it has been read.
LEMMA FinishBodyKeeps ==
    ASSUME CallsInv, NEW r \in Requests, FinishBody(r)
    PROVE  CallsInv'
<1>1. PICK c \in Call : c = call[r] /\ c.pc = "body" /\ CallInv(r, c)
  BY DEF CallsInv, FinishBody
<1>2. BodyInv(c) /\ c.bodies[c.attempt] = "open"
  BY <1>1 DEF CallInv, BodyInv
<1>3. CallInv(r, Done(c, "response"))
  BY <1>2, DoneKeeps
<1>4. call' = [call EXCEPT ![r] = Done(c, "response")]
  BY <1>1 DEF FinishBody, CallsInv
<1> QED
  BY <1>3, <1>4, OneCall

\* What is returned or given up when a retry is asked for.
LEMMA ReserveKeeps ==
    ASSUME CallsInv, NEW r \in Requests, Reserve(r)
    PROVE  CallsInv'
<1>1. PICK c \in Call : c = call[r] /\ c.pc = "reserve" /\ CallInv(r, c)
  BY DEF CallsInv, Reserve, ReserveIn
<1>2. /\ c.attempt \in Nat /\ c.attempt + 1 < Tries
      /\ c.bodies[c.attempt] = IF c.reply \in Responses THEN "open" ELSE "none"
      /\ c.reply \in Errors \union Responses
      /\ Ended(r) => c.context \in Errors
      /\ Ended(r) /\ Deadline = 0 => c.gone
      /\ Answered(r) <=> c.reply \in Responses
      /\ ~StrayInformational => ~c.informational
  <2>1. /\ c.bodies[c.attempt] = IF c.reply \in Responses THEN "open" ELSE "none"
        /\ c.reply \in Errors \union Responses
    BY <1>1 DEF CallInv, BodyInv, ContextInv, Call
  <2> QED
    BY <1>1, <2>1, BetweenAttempts DEF Answered
<1>3. \/ call' = [call EXCEPT ![r] = Admitted(c)]
      \/ Ended(r) /\ call' = [call EXCEPT ![r] = ReturnError(GivenUp(c), c.context)]
      \/ Answered(r) /\ call' = [call EXCEPT ![r] = ReturnResponse(c)]
      \/ ~Answered(r) /\ call' = [call EXCEPT ![r] = ReturnError(c, c.reply)]
  <2>1. CASE BudgetMax = 0
    BY <1>1, <2>1 DEF Reserve, ReserveIn
  <2>2. CASE BudgetMax > 0 /\ Ended(r)
    BY <1>1, <2>2 DEF Reserve, ReserveIn, GivenUp
  <2>3. CASE BudgetMax > 0 /\ ~Ended(r) /\ Window.used >= BudgetMax
    <3>1. call' = [call EXCEPT ![r] = IF Answered(r) THEN ReturnResponse(c)
                                                 ELSE ReturnError(c, c.reply)]
      BY <1>1, <2>3 DEF Reserve, ReserveIn
    <3> QED
      BY <3>1
  <2>4. CASE BudgetMax > 0 /\ ~Ended(r) /\ ~(Window.used >= BudgetMax)
    BY <1>1, <2>4 DEF Reserve, ReserveIn
  <2> QED
    BY <2>1, <2>2, <2>3, <2>4, BackendAssumption
<1>4. CASE call' = [call EXCEPT ![r] = Admitted(c)]
  <2>1. PICK pc : pc = IF c.reply \in Responses THEN "discard" ELSE "backoff"
    OBVIOUS
  <2>2. PICK x : x = [c EXCEPT !.pc = pc]
    OBVIOUS
  <2>3. Admitted(c) = x
    BY <2>1, <2>2 DEF Admitted
  <2>4. x \in Call
    BY <2>1, <2>2 DEF Call
  <2>5. /\ x.pc = pc /\ x.attempt = c.attempt /\ x.bodies = c.bodies
        /\ x.examined = c.examined /\ x.fellBack = c.fellBack
        /\ x.timer = c.timer /\ x.reply = c.reply /\ x.informed = c.informed
        /\ x.informational = c.informational /\ x.stray = c.stray /\ x.context = c.context
        /\ x.gone = c.gone /\ x.result = c.result /\ x.deadline = c.deadline
    BY <2>2 DEF Call
  <2>6. AttemptInv(x)
    BY <1>1, <1>2, <2>1, <2>5 DEF CallInv, AttemptInv
  <2>7. SelectInv(x)
    BY <1>1, <2>1, <2>5 DEF CallInv, SelectInv
  <2>8. BodyInv(x)
    BY <1>1, <1>2, <2>1, <2>5 DEF CallInv, BodyInv
  <2>9. InformedInv(x) /\ ContextInv(r, x)
    BY <1>1, <1>2, <2>1, <2>5 DEF CallInv, InformedInv, ContextInv
  <2>10. CallInv(r, x)
    BY <2>4, <2>6, <2>7, <2>8, <2>9 DEF CallInv
  <2> QED
    BY <1>4, <2>3, <2>10, OneCall
<1>5. CASE Ended(r) /\ call' = [call EXCEPT ![r] = ReturnError(GivenUp(c), c.context)]
  <2>1. PICK y : y = GivenUp(c)
    OBVIOUS
  <2>2. c.bodies[c.attempt] \in {"open", "none"}
    BY <1>2
  <2>3. /\ y \in Call /\ ContextInv(r, y) /\ y.gone = c.gone
        /\ \A k \in Attempts : /\ y.bodies[k] \notin {"open", "closedTwice"}
                               /\ k > y.attempt => y.bodies[k] = "none"
    BY <1>1, <2>1, <2>2, GivenUpKeeps
  <2>4. CallInv(r, ReturnError(y, c.context))
    BY <1>2, <1>5, <2>3, ReturnErrorKeeps
  <2> QED
    BY <1>5, <2>1, <2>4, OneCall
<1>6. CASE Answered(r) /\ call' = [call EXCEPT ![r] = ReturnResponse(c)]
  <2>1. CallInv(r, ReturnResponse(c))
    BY <1>1, <1>2, <1>6, ReturnResponseKeeps
  <2> QED
    BY <1>6, <2>1, OneCall
<1>7. CASE ~Answered(r) /\ call' = [call EXCEPT ![r] = ReturnError(c, c.reply)]
  <2>1. \A k \in Attempts : /\ c.bodies[k] \notin {"open", "closedTwice"}
                            /\ k > c.attempt => c.bodies[k] = "none"
    BY <1>1, <1>2, <1>7 DEF CallInv, BodyInv
  <2>2. c.reply \in Errors
    BY <1>2, <1>7
  <2>3. CallInv(r, ReturnError(c, c.reply))
    BY <1>1, <2>1, <2>2, ReturnErrorKeeps DEF CallInv
  <2> QED
    BY <1>7, <2>3, OneCall
<1> QED
  BY <1>3, <1>4, <1>5, <1>6, <1>7

\* Whatever a request or its environment does keeps what requests carry.
LEMMA CallsKept ==
    ASSUME CallsInv, clock \in Nat, cursor \in Nat, Next
    PROVE  CallsInv'
<1>1. ASSUME Tick PROVE CallsInv'
  BY <1>1 DEF Tick, CallsInv
<1>2. ASSUME NEW r \in Requests, Proceed(r) PROVE CallsInv'
  BY <1>2, ClaimKeeps, ExamineKeeps, PrepareKeeps, ObserveKeeps, DecideKeeps, ReserveKeeps,
     DiscardKeeps, StartBackoffKeeps, WakeKeeps, ScanKeeps, ModifyKeeps, FinishBodyKeeps
  DEF Proceed
<1>3. ASSUME NEW r \in Requests, Environment(r) PROVE CallsInv'
  BY <1>3, InformationalKeeps, StrayKeeps, AnswerKeeps, FailedAttemptKeeps, ClientGoneKeeps,
     DeadlineExpiresKeeps
  DEF Environment
<1> QED
  BY <1>1, <1>2, <1>3 DEF Next

-----------------------------------------------------------------------------
(* What the requests share.                                                *)

\* The three things that are ever done to a target's record keep its type.
LEMMA RecordType ==
    ASSUME NEW target \in TargetRecord, NEW now \in Nat
    PROVE  /\ Healthy \in TargetRecord
           /\ Examined(target, now) \in TargetRecord
           /\ Failed(target, now) \in TargetRecord
<1>1. Healthy \in TargetRecord
  BY DEF Healthy, TargetRecord, NoTime
<1>2. Examined(target, now) \in TargetRecord
  BY <1>1 DEF Examined
<1>3. Failed(target, now) \in TargetRecord
  <2>1. target.failures \in Nat /\ target.until \in Nat \union {NoTime}
        /\ Fail \in Nat /\ Cool \in Nat
    BY HealthAssumption DEF TargetRecord
  <2>2. CASE Ejected(target, now)
    <3>1. target.until \in Nat
      BY <2>1, <2>2 DEF Ejected
    <3>2. Failed(target, now) = [target EXCEPT !.until = target.until + Cool]
      BY <2>2 DEF Failed
    <3>3. PICK until \in Nat : until = target.until + Cool
      BY <2>1, <3>1
    <3> QED
      BY <3>2, <3>3 DEF TargetRecord
  <2>3. CASE ~Ejected(target, now)
    <3>1. PICK failures : failures = Examined(target, now).failures + 1
      OBVIOUS
    <3>2. failures \in Nat
      BY <1>2, <3>1 DEF TargetRecord
    <3>3. Failed(target, now) = IF failures >= Fail
                                THEN [failures |-> 0, until |-> now + Cool]
                                ELSE [failures |-> failures, until |-> NoTime]
      BY <2>3, <3>1 DEF Failed
    <3>4. now + Cool \in Nat
      BY <2>1
    <3> QED
      BY <3>2, <3>3, <3>4 DEF TargetRecord
  <2> QED
    BY <2>2, <2>3
<1> QED
  BY <1>1, <1>2, <1>3

\* What one step of one request does to the records: it looks at one, or
\* observes an attempt at one, or does neither.
LEMMA HealthSteps ==
    ASSUME SharedInv, CallsInv, Next
    PROVE  \/ health' = health
           \/ \E r \in Requests : LookAt(r) /\ call[r].candidate \in Targets /\ clock' = clock
           \/ \E r \in Requests : /\ call[r].target \in Targets /\ clock' = clock
                                 /\ health' = [health EXCEPT ![call[r].target] =
                                      IF call[r].informational \/ Answered(r) THEN Healthy
                                      ELSE IF Ended(r) THEN @ ELSE Failed(@, clock)]
<1>1. \A r \in Requests : call[r].candidate \in Targets /\ call[r].target \in Targets
  BY DEF CallsInv, Call
<1>2. ASSUME NEW r \in Requests, Examine(r) \/ Scan(r)
      PROVE  LookAt(r) /\ clock' = clock
  BY <1>2 DEF Examine, ExamineUpTo, Scan, ScanUpTo
<1>3. ASSUME NEW r \in Requests, Observe(r)
      PROVE  /\ clock' = clock
             /\ health' = [health EXCEPT ![call[r].target] =
                  IF call[r].informational \/ Answered(r) THEN Healthy
                  ELSE IF Ended(r) THEN @ ELSE Failed(@, clock)]
  BY <1>3 DEF Observe
<1>4. ASSUME NEW r \in Requests, Proceed(r), ~(Examine(r) \/ Scan(r)), ~Observe(r)
      PROVE  health' = health
  <2>1. CASE Claim(r) \/ Prepare(r) \/ Decide(r) \/ Discard(r)
    BY <2>1 DEF Claim, Prepare, Decide, Discard
  <2>2. CASE Reserve(r)
    BY <2>2 DEF Reserve, ReserveIn
  <2>3. CASE StartBackoff(r) \/ Wake(r) \/ Modify(r) \/ FinishBody(r)
    BY <2>3 DEF StartBackoff, Wake, Modify, FinishBody
  <2> QED
    BY <1>4, <2>1, <2>2, <2>3 DEF Proceed
<1>5. ASSUME NEW r \in Requests, Environment(r)
      PROVE  health' = health
  BY <1>5 DEF Environment, Informational, Stray, Answer, Break, Abort, ClientGone, DeadlineExpires
<1>6. Tick => health' = health
  BY DEF Tick
<1> QED
  BY <1>1, <1>2, <1>3, <1>4, <1>5, <1>6 DEF Next

\* Whoever touches a record leaves a record behind.
LEMMA SharedKept ==
    ASSUME SharedInv, CallsInv, Next
    PROVE  SharedInv'
<1>1. clock' \in Nat
  <2>1. Tick => clock' = clock + 1
    BY DEF Tick
  <2>2. ASSUME NEW r \in Requests, Proceed(r) PROVE clock' = clock
    BY <2>2 DEF Proceed, Claim, Examine, ExamineUpTo, Prepare, Observe, Decide, Reserve, ReserveIn,
       Discard, StartBackoff, Wake, Scan, ScanUpTo, Modify, FinishBody
  <2>3. ASSUME NEW r \in Requests, Environment(r) PROVE clock' = clock
    BY <2>3 DEF Environment, Informational, Stray, Answer, Break, Abort, ClientGone, DeadlineExpires
  <2> QED
    BY <2>1, <2>2, <2>3 DEF Next, SharedInv
<1>2. cursor' \in 0 .. CursorValues - 1
  <2>1. ASSUME NEW r \in Requests, Claim(r)
        PROVE  cursor' = cursor \/ cursor' = (cursor + 1) % CursorValues
    BY <2>1 DEF Claim
  <2>2. (cursor + 1) % CursorValues \in 0 .. CursorValues - 1
    BY BackendAssumption DEF SharedInv
  <2>3. ASSUME NEW r \in Requests, Proceed(r), ~Claim(r) PROVE cursor' = cursor
    BY <2>3 DEF Proceed, Examine, ExamineUpTo, Prepare, Observe, Decide, Reserve, ReserveIn,
       Discard, StartBackoff, Wake, Scan, ScanUpTo, Modify, FinishBody
  <2>4. ASSUME NEW r \in Requests, Environment(r) PROVE cursor' = cursor
    BY <2>4 DEF Environment, Informational, Stray, Answer, Break, Abort, ClientGone, DeadlineExpires
  <2>5. Tick => cursor' = cursor
    BY DEF Tick
  <2> QED
    BY <2>1, <2>2, <2>3, <2>4, <2>5 DEF Next, SharedInv
<1>3. health' \in [Targets -> TargetRecord]
  <2>1. ASSUME NEW t \in Targets, NEW record \in TargetRecord,
               health' = [health EXCEPT ![t] = record]
        PROVE  health' \in [Targets -> TargetRecord]
    BY <2>1 DEF SharedInv
  <2>2. \A t \in Targets : health[t] \in TargetRecord /\ clock \in Nat
    BY DEF SharedInv
  <2>3. ASSUME NEW r \in Requests, LookAt(r), call[r].candidate \in Targets
        PROVE  health' \in [Targets -> TargetRecord]
    <3>1. Examined(health[call[r].candidate], clock) \in TargetRecord
      BY <2>2, <2>3, RecordType
    <3>2. health' = [health EXCEPT ![call[r].candidate] = Examined(health[call[r].candidate], clock)]
      BY <2>3 DEF LookAt
    <3> QED
      BY <2>1, <2>3, <3>1, <3>2
  <2>4. ASSUME NEW r \in Requests, call[r].target \in Targets,
               health' = [health EXCEPT ![call[r].target] =
                            IF call[r].informational \/ Answered(r) THEN Healthy
                            ELSE IF Ended(r) THEN @ ELSE Failed(@, clock)]
        PROVE  health' \in [Targets -> TargetRecord]
    <3>1. PICK record : record = IF call[r].informational \/ Answered(r) THEN Healthy
                                 ELSE IF Ended(r) THEN health[call[r].target]
                                 ELSE Failed(health[call[r].target], clock)
      OBVIOUS
    <3>2. record \in TargetRecord
      BY <2>2, <2>4, <3>1, RecordType
    <3>3. health' = [health EXCEPT ![call[r].target] = record]
      BY <2>4, <3>1
    <3> QED
      BY <2>1, <2>4, <3>2, <3>3
  <2> QED
    BY <2>3, <2>4, HealthSteps DEF SharedInv
<1> QED
  BY <1>1, <1>2, <1>3 DEF SharedInv

\* Only Reserve charges the budget, and it charges the window it has found.
LEMMA BudgetSteps ==
    ASSUME CallsInv, Next
    PROVE  \/ /\ UNCHANGED <<budget, reserved>>
              /\ clock' = clock \/ Tick
           \/ \E r \in Requests :
                /\ Reserve(r) /\ BudgetMax > 0 /\ ~(Window.used >= BudgetMax)
                /\ budget' = [Window EXCEPT !.used = @ + 1]
                /\ reserved' = Append(reserved, [at |-> clock, by |-> r])
                /\ call' = [call EXCEPT ![r] = Admitted(call[r])]
                /\ clock' = clock
<1>1. ASSUME NEW r \in Requests, Reserve(r)
      PROVE  \/ UNCHANGED <<budget, reserved, clock>>
             \/ /\ BudgetMax > 0 /\ ~(Window.used >= BudgetMax)
                /\ budget' = [Window EXCEPT !.used = @ + 1]
                /\ reserved' = Append(reserved, [at |-> clock, by |-> r])
                /\ call' = [call EXCEPT ![r] = Admitted(call[r])]
                /\ clock' = clock
  <2>1. CASE BudgetMax = 0
    BY <1>1, <2>1 DEF Reserve, ReserveIn
  <2>2. CASE BudgetMax > 0 /\ Ended(r)
    BY <1>1, <2>2 DEF Reserve, ReserveIn
  <2>3. CASE BudgetMax > 0 /\ ~Ended(r) /\ Window.used >= BudgetMax
    BY <1>1, <2>3 DEF Reserve, ReserveIn
  <2>4. CASE BudgetMax > 0 /\ ~Ended(r) /\ ~(Window.used >= BudgetMax)
    BY <1>1, <2>4 DEF Reserve, ReserveIn
  <2> QED
    BY <2>1, <2>2, <2>3, <2>4, BackendAssumption
<1>2. ASSUME NEW r \in Requests, Proceed(r), ~Reserve(r) PROVE UNCHANGED <<budget, reserved, clock>>
  BY <1>2 DEF Proceed, Claim, Examine, ExamineUpTo, Prepare, Observe, Decide,
     Discard, StartBackoff, Wake, Scan, ScanUpTo, Modify, FinishBody
<1>3. ASSUME NEW r \in Requests, Environment(r) PROVE UNCHANGED <<budget, reserved, clock>>
  BY <1>3 DEF Environment, Informational, Stray, Answer, Break, Abort, ClientGone, DeadlineExpires
<1>4. Tick => UNCHANGED <<budget, reserved>>
  BY DEF Tick
<1> QED
  BY <1>1, <1>2, <1>3, <1>4 DEF Next

\* A reservation goes to the present window or starts a new one; in both the
\* earlier ones lie far enough behind it.
LEMMA BudgetKeptBySteps ==
    ASSUME SharedInv, CallsInv, BudgetInv, Next
    PROVE  BudgetInv'
<1> DEFINE L == Len(reserved)
<1>1. /\ clock \in Nat /\ BudgetMax \in Nat /\ L \in Nat
      /\ budget.started \in Nat \union {NoTime} /\ budget.used \in 0 .. BudgetMax
      /\ budget.started \in Int
      /\ budget.used <= L /\ budget.started <= clock
      /\ \A i \in 1 .. L : reserved[i].at \in Nat
  <2>1. reserved \in Seq([at : Nat, by : Requests])
    BY DEF BudgetInv
  <2>2. L \in Nat /\ \A i \in 1 .. L : reserved[i].at \in Nat
    <3>1. PICK S : S = [at : Nat, by : Requests]
      OBVIOUS
    <3>2. reserved \in Seq(S)
      BY <2>1, <3>1
    <3>3. L \in Nat /\ \A i \in 1 .. L : reserved[i] \in S
      BY <3>2
    <3> QED
      BY <3>1, <3>3
  <2>3. budget \in [started : Nat \union {NoTime}, used : 0 .. BudgetMax]
    BY DEF BudgetInv
  <2>4. /\ budget.started \in Nat \union {NoTime} /\ budget.used \in 0 .. BudgetMax
        /\ budget.started \in Int
    BY <2>3 DEF NoTime
  <2>5. budget.used <= L /\ budget.started <= clock
    BY DEF BudgetInv
  <2> QED
    BY <2>2, <2>4, <2>5, BackendAssumption DEF SharedInv
<1>2. CASE UNCHANGED <<budget, reserved>> /\ (clock' = clock \/ Tick)
  <2>1. clock <= clock' /\ clock' \in Nat
    BY <1>1, <1>2 DEF Tick
  <2>2. budget.started <= clock'
    BY <1>1, <2>1
  <2>3. ASSUME NEW i \in 1 .. L, reserved[i].at <= clock PROVE reserved[i].at <= clock'
    BY <1>1, <2>1, <2>3
  <2> QED
    BY <1>2, <2>2, <2>3 DEF BudgetInv
<1>3. ASSUME NEW r \in Requests, BudgetMax > 0, ~(Window.used >= BudgetMax),
             budget' = [Window EXCEPT !.used = @ + 1],
             reserved' = Append(reserved, [at |-> clock, by |-> r]), clock' = clock
      PROVE  BudgetInv'
  <2>1. PICK new : new = [at |-> clock, by |-> r]
    OBVIOUS
  <2>2. /\ new \in [at : Nat, by : Requests] /\ new.at = clock
        /\ reserved \in Seq([at : Nat, by : Requests])
    BY <1>1, <2>1 DEF BudgetInv
  <2>3. /\ reserved' \in Seq([at : Nat, by : Requests])
        /\ Len(reserved') = L + 1
        /\ \A i \in 1 .. L : reserved'[i] = reserved[i]
        /\ reserved'[L + 1] = new
    BY <1>3, <2>1, <2>2
  <2>4. /\ budget.started = NoTime => L = 0
        /\ \A i \in 1 .. L :
             /\ reserved[i].at <= clock /\ reserved[i].at < budget.started + BudgetWindow
             /\ reserved[i].at >= budget.started <=> i > L - budget.used
             /\ i + BudgetMax <= L - budget.used =>
                  budget.started - reserved[i].at >= BudgetWindow
             /\ i + 2 * BudgetMax <= L =>
                  reserved[i + 2 * BudgetMax].at - reserved[i].at >= BudgetWindow
    BY <1>3 DEF BudgetInv
  <2>5. BudgetWindow \in Nat /\ BudgetWindow > 0
    BY <1>3, BackendAssumption
  <2> HIDE DEF L
  <2>6. CASE budget.started = NoTime \/ clock - budget.started >= BudgetWindow
    <3>1. Window = [started |-> clock, used |-> 0]
      BY <2>6 DEF Window
    <3>2. budget' = [started |-> clock, used |-> 1]
      BY <1>3, <3>1
    <3>3. \A i \in 1 .. L : /\ reserved[i].at < clock
                            /\ i + BudgetMax <= L => clock - reserved[i].at >= BudgetWindow
      BY <1>1, <1>3, <2>4, <2>5, <2>6, SMTT(30)
    <3>4. ASSUME NEW i \in 1 .. L + 1
          PROVE  /\ reserved'[i].at <= clock /\ reserved'[i].at < clock + BudgetWindow
                 /\ reserved'[i].at >= clock <=> i > L + 1 - 1
                 /\ i + BudgetMax <= L + 1 - 1 => clock - reserved'[i].at >= BudgetWindow
                 /\ i + 2 * BudgetMax <= L + 1 =>
                      reserved'[i + 2 * BudgetMax].at - reserved'[i].at >= BudgetWindow
      <4>1. CASE i = L + 1
        BY <1>1, <1>3, <2>2, <2>3, <2>5, <4>1
      <4>2. CASE i \in 1 .. L
        <5>1. /\ reserved'[i].at <= clock /\ reserved'[i].at < clock + BudgetWindow
              /\ reserved'[i].at >= clock <=> i > L + 1 - 1
              /\ i + BudgetMax <= L + 1 - 1 => clock - reserved'[i].at >= BudgetWindow
          <6>1. PICK at \in Nat : at = reserved[i].at /\ at = reserved'[i].at
            BY <1>1, <2>3, <4>2
          <6>2. at < clock /\ (i + BudgetMax <= L => clock - at >= BudgetWindow)
            BY <3>3, <4>2, <6>1
          <6>3. i \in Nat /\ i <= L
            BY <1>1, <4>2
          <6> QED
            BY <1>1, <2>5, <6>1, <6>2, <6>3
        <5>2. ASSUME i + 2 * BudgetMax <= L
              PROVE  reserved'[i + 2 * BudgetMax].at - reserved'[i].at >= BudgetWindow
          <6>1. i + 2 * BudgetMax \in 1 .. L
            BY <1>1, <4>2, <5>2
          <6> QED
            BY <2>3, <2>4, <4>2, <5>2, <6>1
        <5>3. ASSUME i + 2 * BudgetMax = L + 1
              PROVE  reserved'[i + 2 * BudgetMax].at - reserved'[i].at >= BudgetWindow
          <6>1. i + BudgetMax <= L
            BY <1>1, <1>3, <4>2, <5>3
          <6> QED
            BY <2>2, <2>3, <3>3, <4>2, <5>3, <6>1
        <5> QED
          BY <1>1, <4>2, <5>1, <5>2, <5>3
      <4> QED
        BY <1>1, <4>1, <4>2
    <3>5. /\ budget' \in [started : Nat \union {NoTime}, used : 0 .. BudgetMax]
          /\ budget'.started = clock /\ budget'.used = 1
      <4>1. 1 \in 0 .. BudgetMax /\ clock \in Nat \union {NoTime}
        BY <1>1, <1>3
      <4> QED
        BY <3>2, <4>1
    <3>6. /\ budget'.used <= Len(reserved') /\ budget'.started <= clock'
          /\ budget'.started # NoTime
      BY <1>1, <1>3, <2>3, <3>5 DEF NoTime
    <3>7. \A i \in 1 .. Len(reserved') :
            /\ reserved'[i].at <= clock' /\ reserved'[i].at < budget'.started + BudgetWindow
            /\ reserved'[i].at >= budget'.started <=> i > Len(reserved') - budget'.used
            /\ i + BudgetMax <= Len(reserved') - budget'.used =>
                 budget'.started - reserved'[i].at >= BudgetWindow
            /\ i + 2 * BudgetMax <= Len(reserved') =>
                 reserved'[i + 2 * BudgetMax].at - reserved'[i].at >= BudgetWindow
      <4>1. /\ clock' = clock /\ Len(reserved') = L + 1
            /\ budget'.started = clock /\ budget'.used = 1
        BY <1>3, <2>3, <3>5
      <4> TAKE i \in 1 .. Len(reserved')
      <4>2. i \in 1 .. L + 1
        BY <4>1
      <4> QED
        BY <1>1, <2>5, <3>4, <4>1, <4>2
    <3> QED
      BY <2>3, <3>5, <3>6, <3>7 DEF BudgetInv
  <2>7. CASE ~(budget.started = NoTime \/ clock - budget.started >= BudgetWindow)
    <3>1. Window = budget /\ budget.used < BudgetMax /\ budget.started \in Nat
      BY <1>1, <1>3, <2>7 DEF Window
    <3>2. /\ budget'.started = budget.started /\ budget'.used = budget.used + 1
          /\ budget' \in [started : Nat \union {NoTime}, used : 0 .. BudgetMax]
      <4>1. budget \in [started : Nat \union {NoTime}, used : 0 .. BudgetMax]
        BY DEF BudgetInv
      <4>2. budget.used + 1 \in 0 .. BudgetMax
        BY <1>1, <3>1
      <4>3. budget' = [budget EXCEPT !.used = budget.used + 1]
        BY <1>3, <3>1
      <4> QED
        BY <4>1, <4>2, <4>3
    <3>3. ASSUME NEW i \in 1 .. L + 1
          PROVE  /\ reserved'[i].at <= clock /\ reserved'[i].at < budget.started + BudgetWindow
                 /\ reserved'[i].at >= budget.started <=> i > L + 1 - (budget.used + 1)
                 /\ i + BudgetMax <= L + 1 - (budget.used + 1) =>
                      budget.started - reserved'[i].at >= BudgetWindow
                 /\ i + 2 * BudgetMax <= L + 1 =>
                      reserved'[i + 2 * BudgetMax].at - reserved'[i].at >= BudgetWindow
      <4>1. CASE i = L + 1
        BY <1>1, <1>3, <2>2, <2>3, <2>5, <2>7, <3>1, <4>1, SMTT(30)
      <4>2. CASE i \in 1 .. L
        <5>1. /\ reserved'[i].at <= clock /\ reserved'[i].at < budget.started + BudgetWindow
              /\ reserved'[i].at >= budget.started <=> i > L + 1 - (budget.used + 1)
              /\ i + BudgetMax <= L + 1 - (budget.used + 1) =>
                   budget.started - reserved'[i].at >= BudgetWindow
          <6>1. PICK at \in Nat : at = reserved[i].at /\ at = reserved'[i].at
            BY <1>1, <2>3, <4>2
          <6>2. /\ at <= clock /\ at < budget.started + BudgetWindow
                /\ at >= budget.started <=> i > L - budget.used
                /\ i + BudgetMax <= L - budget.used => budget.started - at >= BudgetWindow
            BY <2>4, <4>2, <6>1
          <6>3. L + 1 - (budget.used + 1) = L - budget.used
            BY <1>1
          <6> QED
            BY <6>1, <6>2, <6>3
        <5>2. ASSUME i + 2 * BudgetMax <= L
              PROVE  reserved'[i + 2 * BudgetMax].at - reserved'[i].at >= BudgetWindow
          <6>1. i + 2 * BudgetMax \in 1 .. L
            BY <1>1, <4>2, <5>2
          <6> QED
            BY <2>3, <2>4, <4>2, <5>2, <6>1
        <5>3. ASSUME i + 2 * BudgetMax = L + 1
              PROVE  reserved'[i + 2 * BudgetMax].at - reserved'[i].at >= BudgetWindow
          <6>1. i + BudgetMax <= L - budget.used
            BY <1>1, <1>3, <3>1, <4>2, <5>3
          <6>2. budget.started - reserved[i].at >= BudgetWindow
            BY <2>4, <4>2, <6>1
          <6>3. reserved'[i + 2 * BudgetMax].at = clock /\ reserved'[i].at = reserved[i].at
            BY <2>2, <2>3, <4>2, <5>3
          <6>4. PICK at \in Nat : at = reserved[i].at
            BY <1>1, <4>2
          <6>5. clock - at >= BudgetWindow
            BY <1>1, <2>5, <6>2, <6>4
          <6> QED
            BY <6>3, <6>4, <6>5
        <5> QED
          BY <1>1, <4>2, <5>1, <5>2, <5>3
      <4> QED
        BY <1>1, <4>1, <4>2
    <3>4. /\ budget'.used <= Len(reserved') /\ budget'.started <= clock'
          /\ budget'.started # NoTime
      BY <1>1, <1>3, <2>3, <3>1, <3>2 DEF NoTime
    <3>5. \A i \in 1 .. Len(reserved') :
            /\ reserved'[i].at <= clock' /\ reserved'[i].at < budget'.started + BudgetWindow
            /\ reserved'[i].at >= budget'.started <=> i > Len(reserved') - budget'.used
            /\ i + BudgetMax <= Len(reserved') - budget'.used =>
                 budget'.started - reserved'[i].at >= BudgetWindow
            /\ i + 2 * BudgetMax <= Len(reserved') =>
                 reserved'[i + 2 * BudgetMax].at - reserved'[i].at >= BudgetWindow
      <4>1. /\ clock' = clock /\ Len(reserved') = L + 1
            /\ budget'.started = budget.started /\ budget'.used = budget.used + 1
        BY <1>3, <2>3, <3>2
      <4> TAKE i \in 1 .. Len(reserved')
      <4>2. i \in 1 .. L + 1
        BY <4>1
      <4> QED
        BY <1>1, <2>5, <3>3, <4>1, <4>2
    <3> QED
      BY <2>3, <3>2, <3>4, <3>5 DEF BudgetInv
  <2> QED
    BY <2>6, <2>7
<1> QED
  BY <1>2, <1>3, BudgetSteps

-----------------------------------------------------------------------------
(* What a request has reserved.                                            *)

\* The reservations of a request that has come this far.
Counted(c) == IF c.pc \in {"discard", "backoff", "wait"} THEN c.attempt + 1 ELSE c.attempt

\* From c to d nothing is reserved, and nothing that has been is forgotten.
Moves(c, d) ==
    \/ d.pc = "done" /\ d.attempt = c.attempt
    \/ c.pc # "done" /\ d.pc # "done" /\ Counted(d) = Counted(c)
    \/ d.pc = c.pc /\ d.attempt = c.attempt

\* Where the helpers lead, and at which attempt: an error ends a request,
LEMMA ErrorFields ==
    ASSUME NEW c \in Call, NEW x
    PROVE  /\ ReturnError(c, x).pc = "done" /\ ReturnError(c, x).attempt = c.attempt
           /\ ReturnError(GivenUp(c), x).pc = "done"
           /\ ReturnError(GivenUp(c), x).attempt = c.attempt
           /\ Done(c, x).pc = "done" /\ Done(c, x).attempt = c.attempt
<1>1. ReturnError(c, x).pc = "done" /\ ReturnError(c, x).attempt = c.attempt
  BY DEF ReturnError, NewCall
<1>2. /\ ReturnError(GivenUp(c), x).pc = "done"
      /\ ReturnError(GivenUp(c), x).attempt = c.attempt
  <2>1. GivenUp(c).attempt = c.attempt
    BY DEF GivenUp, Call
  <2> QED
    BY <2>1 DEF ReturnError, NewCall
<1>3. Done(c, x).pc = "done" /\ Done(c, x).attempt = c.attempt
  BY DEF Done, NewCall
<1> QED
  BY <1>1, <1>2, <1>3

\* a response, an admission and the next attempt carry it on,
LEMMA ResponseFields ==
    ASSUME NEW c \in Call
    PROVE  /\ ReturnResponse(c).pc \in {"body", "modify"} /\ ReturnResponse(c).attempt = c.attempt
           /\ Admitted(c).pc \in {"discard", "backoff"} /\ Admitted(c).attempt = c.attempt
           /\ NextAttempt(c).pc \in {"flight", "scan"} /\ NextAttempt(c).attempt = c.attempt + 1
<1>1. ReturnResponse(c).pc \in {"body", "modify"} /\ ReturnResponse(c).attempt = c.attempt
  BY DEF ReturnResponse, Call
<1>2. Admitted(c).pc \in {"discard", "backoff"} /\ Admitted(c).attempt = c.attempt
  BY DEF Admitted, Call
<1>3. NextAttempt(c).pc \in {"flight", "scan"} /\ NextAttempt(c).attempt = c.attempt + 1
  BY DEF NextAttempt, Send, Call
<1> QED
  BY <1>1, <1>2, <1>3

\* and the start of an attempt is that of the present one,
LEMMA StartFields ==
    ASSUME NEW r, NEW c \in Call, NEW x
    PROVE  Start(r, c, x).pc \in {"prepare", "flight"} /\ Start(r, c, x).attempt = c.attempt
BY DEF Start, Launch, Call

\* also after its body has been buffered.
LEMMA LaunchFields ==
    ASSUME NEW c \in Call
    PROVE  Launch(c, TRUE).pc = "flight" /\ Launch(c, TRUE).attempt = c.attempt
BY DEF Launch, Call

\* Until its own reservation, an eligible request that statuses are listed
\* for moves on without one.
LEMMA ActionsMove ==
    ASSUME CallsInv, BudgetMax > 0, NEW r \in Requests, r \in Eligible,
           Proceed(r) \/ Environment(r), UNCHANGED reserved, clock \in Nat,
           reserved \in Seq([at : Nat, by : Requests])
    PROVE  Moves(call[r], call'[r])
<1>1. PICK c \in Call : c = call[r] /\ c.attempt \in Nat
  BY DEF CallsInv, Call
<1>2. HasRetry
  BY BackendAssumption
<1>3. call \in [Requests -> Call]
  BY DEF CallsInv
<1> DEFINE d == call'[r]
<1>4. CASE Claim(r)
  <2>1. PICK x, y : call' = [call EXCEPT ![r] = IF ~HasHealth THEN Start(r, c, x)
                               ELSE [c EXCEPT !.pc = "examine", !.candidate = x, !.first = y]]
    BY <1>1, <1>4 DEF Claim
  <2>2. d = IF ~HasHealth THEN Start(r, c, x)
            ELSE [c EXCEPT !.pc = "examine", !.candidate = x, !.first = y]
    BY <1>3, <2>1
  <2>3. d.pc \in {"prepare", "flight", "examine"} /\ d.attempt = c.attempt
    <3>1. CASE HasHealth
      <4>1. d = [c EXCEPT !.pc = "examine", !.candidate = x, !.first = y]
        BY <2>2, <3>1
      <4> QED
        BY <4>1 DEF Call
    <3>2. CASE ~HasHealth
      <4>1. d = Start(r, c, x)
        BY <2>2, <3>2
      <4> HIDE DEF d
      <4> QED
        BY <4>1, StartFields
    <3> QED
      BY <3>1, <3>2
  <2>4. c.pc \in {"new", "claim"}
    BY <1>1, <1>4 DEF Claim
  <2> QED
    BY <1>1, <2>3, <2>4 DEF Moves, Counted
<1>5. CASE Examine(r)
  <2>1. c.pc = "examine"
    BY <1>1, <1>5 DEF Examine, ExamineUpTo
  <2>2. PICK refused \in Call : /\ refused = [c EXCEPT !.examined = @ + 1, !.spurned = @ \union {c.candidate}]
                               /\ refused.attempt = c.attempt
    <3>1. c.examined < Slots
      BY <1>1, <2>1 DEF CallsInv, CallInv, SelectInv
    <3>2. PICK examined : examined = c.examined + 1
      OBVIOUS
    <3>3. PICK spurned : spurned = c.spurned \union {c.candidate}
      OBVIOUS
    <3>4. examined \in 0 .. Slots + N
      BY <3>1, <3>2, SlotsAndTargets DEF Call
    <3>5. spurned \in SUBSET Targets
      BY <3>3 DEF Call
    <3>6. PICK x : x = [c EXCEPT !.examined = examined, !.spurned = spurned]
      OBVIOUS
    <3>7. x \in Call /\ x.attempt = c.attempt
      BY <3>4, <3>5, <3>6 DEF Call
    <3> QED
      BY <3>2, <3>3, <3>6, <3>7
  <2>3. \/ d = Chosen(Start(r, c, c.candidate), FALSE)
        \/ d = [refused EXCEPT !.pc = "claim"]
        \/ d = Chosen(Start(r, refused, c.first), TRUE)
    BY <1>1, <1>3, <1>5, <2>2 DEF Examine, ExamineUpTo
  <2>4. d.pc \in {"prepare", "flight", "claim"} /\ d.attempt = c.attempt
    <3>1. CASE d = [refused EXCEPT !.pc = "claim"]
      BY <2>2, <3>1 DEF Call
    <3> HIDE DEF d
    <3>2. CASE d = Chosen(Start(r, c, c.candidate), FALSE)
      BY <3>2 DEF Chosen, Start, Launch, Send, Call
    <3>3. CASE d = Chosen(Start(r, refused, c.first), TRUE)
      BY <2>2, <3>3 DEF Chosen, Start, Launch, Send, Call
    <3> QED
      BY <2>3, <3>1, <3>2, <3>3
  <2> QED
    BY <1>1, <2>1, <2>4 DEF Moves, Counted
<1>6. CASE Prepare(r)
  <2>1. c.pc = "prepare"
    BY <1>1, <1>6 DEF Prepare
  <2>2. (\E error : d = ReturnError(c, error)) \/ d = Launch(c, TRUE)
    BY <1>1, <1>3, <1>6 DEF Prepare
  <2>3. d.pc \in {"done", "flight"} /\ d.attempt = c.attempt
    <3> HIDE DEF d
    <3>1. CASE \E error : d = ReturnError(c, error)
      BY <3>1, ErrorFields, ResponseFields
    <3>2. CASE d = Launch(c, TRUE)
      BY <3>2, LaunchFields
    <3> QED
      BY <2>2, <3>1, <3>2
  <2> QED
    BY <1>1, <2>1, <2>3 DEF Moves, Counted
<1>7. CASE Observe(r)
  <2>1. d = [c EXCEPT !.pc = "decide"] /\ c.pc = "observe"
    BY <1>1, <1>3, <1>7 DEF Observe
  <2>2. d.pc = "decide" /\ d.attempt = c.attempt
    BY <2>1 DEF Call
  <2> QED
    BY <1>1, <2>1, <2>2 DEF Moves, Counted
<1>8. CASE Decide(r)
  <2>1. d = DecideStatus(r) /\ c.pc = "decide"
    BY <1>1, <1>2, <1>3, <1>8 DEF Decide
  <2>2. \/ d = ReturnResponse(c) \/ d = [c EXCEPT !.pc = "reserve"]
        \/ \E error : d = ReturnError(c, error) \/ d = ReturnError(GivenUp(c), error)
    <3> HIDE DEF d
    <3> QED
      BY <1>1, <2>1 DEF DecideStatus, GivenUp
  <2>3. d.pc \in {"body", "modify", "reserve", "done"} /\ d.attempt = c.attempt
    <3>1. CASE d = [c EXCEPT !.pc = "reserve"]
      BY <3>1 DEF Call
    <3> HIDE DEF d
    <3> QED
      BY <2>2, <3>1, ErrorFields, ResponseFields
  <2> QED
    BY <1>1, <2>1, <2>3 DEF Moves, Counted
<1>9. CASE Reserve(r)
  <2>1. c.pc = "reserve"
    BY <1>1, <1>9 DEF Reserve, ReserveIn
  <2>2. d = ReturnResponse(c) \/ \E error : d = ReturnError(c, error) \/ d = ReturnError(GivenUp(c), error)
    <3>1. CASE Ended(r)
      BY <1>1, <1>3, <1>9, <3>1 DEF Reserve, ReserveIn, GivenUp
    <3>2. CASE ~Ended(r) /\ Window.used >= BudgetMax
      <4>1. call' = [call EXCEPT ![r] = IF Answered(r) THEN ReturnResponse(c)
                                                 ELSE ReturnError(c, c.reply)]
        BY <1>1, <1>9, <3>2 DEF Reserve, ReserveIn
      <4> QED
        BY <1>3, <4>1
    <3>3. CASE ~Ended(r) /\ ~(Window.used >= BudgetMax)
      <4>1. reserved' = Append(reserved, [at |-> clock, by |-> r])
        BY <1>9, <3>3, BackendAssumption DEF Reserve, ReserveIn
      <4>2. PICK new \in [at : Nat, by : Requests] : new = [at |-> clock, by |-> r]
        OBVIOUS
      <4>3. Len(reserved') = Len(reserved) + 1 /\ Len(reserved) \in Nat
        BY <4>1, <4>2
      <4> QED
        BY <4>3
    <3> QED
      BY <3>1, <3>2, <3>3
  <2>3. d.pc \in {"body", "modify", "done"} /\ d.attempt = c.attempt
    <3> HIDE DEF d
    <3> QED
      BY <2>2, ErrorFields, ResponseFields
  <2> QED
    BY <1>1, <2>1, <2>3 DEF Moves, Counted
<1>10. CASE Discard(r)
  <2>1. c.pc = "discard"
    BY <1>1, <1>10 DEF Discard
  <2>2. d = [GivenUp(c) EXCEPT !.pc = "backoff"] \/ \E error : d = ReturnError(GivenUp(c), error)
    BY <1>1, <1>3, <1>10 DEF Discard, GivenUp
  <2>3. d.pc \in {"backoff", "done"} /\ d.attempt = c.attempt
    <3>1. CASE d = [GivenUp(c) EXCEPT !.pc = "backoff"]
      BY <3>1 DEF Call, GivenUp
    <3> HIDE DEF d
    <3> QED
      BY <2>2, <3>1, ErrorFields, ResponseFields
  <2> QED
    BY <1>1, <2>1, <2>3 DEF Moves, Counted
<1>11. CASE StartBackoff(r) \/ Wake(r)
  <2>1. c.pc \in {"backoff", "wait"}
    BY <1>1, <1>11 DEF StartBackoff, Wake
  <2>2. \/ d = NextAttempt(c) \/ \E error : d = ReturnError(c, error)
        \/ \E timer : d = [c EXCEPT !.pc = "wait", !.timer = timer]
    BY <1>1, <1>3, <1>11 DEF StartBackoff, Wake, Resume
  <2>3. \/ d.pc \in {"flight", "scan"} /\ d.attempt = c.attempt + 1
        \/ d.pc \in {"done", "wait"} /\ d.attempt = c.attempt
    <3> HIDE DEF d
    <3>1. CASE \E timer : d = [c EXCEPT !.pc = "wait", !.timer = timer]
      BY <3>1 DEF Call
    <3>2. CASE \E error : d = ReturnError(c, error)
      BY <3>2, ErrorFields, ResponseFields
    <3>3. CASE d = NextAttempt(c)
      BY <3>3, ErrorFields, ResponseFields
    <3> QED
      BY <2>2, <3>1, <3>2, <3>3
  <2> QED
    BY <1>1, <2>1, <2>3 DEF Moves, Counted
<1>12. CASE Scan(r)
  <2>1. c.pc = "scan"
    BY <1>1, <1>12 DEF Scan, ScanUpTo
  <2>2. PICK refused \in Call : /\ refused = [c EXCEPT !.examined = @ + 1, !.spurned = @ \union {c.candidate}]
                               /\ refused.attempt = c.attempt /\ refused.pc = "scan"
    <3>1. c.examined < N
      BY <1>1, <2>1 DEF CallsInv, CallInv, SelectInv
    <3>2. PICK examined : examined = c.examined + 1
      OBVIOUS
    <3>3. PICK spurned : spurned = c.spurned \union {c.candidate}
      OBVIOUS
    <3>4. examined \in 0 .. Slots + N
      BY <3>1, <3>2, SlotsAndTargets DEF Call
    <3>5. spurned \in SUBSET Targets
      BY <3>3 DEF Call
    <3>6. PICK x : x = [c EXCEPT !.examined = examined, !.spurned = spurned]
      OBVIOUS
    <3>7. x \in Call /\ x.attempt = c.attempt /\ x.pc = "scan"
      BY <2>1, <3>4, <3>5, <3>6 DEF Call
    <3> QED
      BY <3>2, <3>3, <3>6, <3>7
  <2>3. \/ d = Chosen(Send(c, c.candidate), FALSE)
        \/ \E x : d = [refused EXCEPT !.candidate = x]
        \/ d = Chosen(Send(refused, c.first), TRUE)
    BY <1>1, <1>3, <1>12, <2>2 DEF Scan, ScanUpTo
  <2>4. d.pc \in {"prepare", "flight", "scan"} /\ d.attempt = c.attempt
    <3> HIDE DEF d
    <3>1. CASE \E x : d = [refused EXCEPT !.candidate = x]
      BY <2>2, <3>1 DEF Call
    <3>2. CASE d = Chosen(Send(c, c.candidate), FALSE)
      BY <3>2 DEF Chosen, Start, Launch, Send, Call
    <3>3. CASE d = Chosen(Send(refused, c.first), TRUE)
      BY <2>2, <3>3 DEF Chosen, Start, Launch, Send, Call
    <3> QED
      BY <2>3, <3>1, <3>2, <3>3
  <2> QED
    BY <1>1, <2>1, <2>4 DEF Moves, Counted
<1>13. CASE Modify(r) \/ FinishBody(r)
  <2>1. c.pc \in {"modify", "body"}
    BY <1>1, <1>13 DEF Modify, FinishBody
  <2>2. d = [c EXCEPT !.pc = "body"] \/ \E result : d = Done(c, result)
    BY <1>1, <1>3, <1>13 DEF Modify, FinishBody
  <2>3. d.pc \in {"body", "done"} /\ d.attempt = c.attempt
    <3>1. CASE d = [c EXCEPT !.pc = "body"]
      BY <3>1 DEF Call
    <3> HIDE DEF d
    <3> QED
      BY <2>2, <3>1, ErrorFields, ResponseFields
  <2> QED
    BY <1>1, <2>1, <2>3 DEF Moves, Counted
<1>14. CASE Answer(r) \/ Break(r) \/ Abort(r)
  <2>1. c.pc = "flight"
    BY <1>1, <1>14 DEF Answer, Break, Abort
  <2>2. d.pc \in {"observe", "decide"} /\ d.attempt = c.attempt
    <3>1. CASE Answer(r)
      BY <1>1, <1>3, <3>1 DEF Answer, Observed, Call
    <3>2. CASE Break(r)
      BY <1>1, <1>3, <3>2 DEF Break, Observed, Call
    <3>3. CASE Abort(r)
      BY <1>1, <1>3, <3>3 DEF Abort, Observed, Call
    <3> QED
      BY <1>14, <3>1, <3>2, <3>3
  <2> QED
    BY <1>1, <2>1, <2>2 DEF Moves, Counted
<1>15. CASE Informational(r) \/ Stray(r) \/ ClientGone(r) \/ DeadlineExpires(r)
  <2>1. d.pc = c.pc /\ d.attempt = c.attempt
    BY <1>1, <1>3, <1>15 DEF Informational, Stray, ClientGone, DeadlineExpires, Call
  <2> QED
    BY <1>1, <2>1 DEF Moves
<1> QED
  BY <1>4, <1>5, <1>6, <1>7, <1>8, <1>9, <1>10, <1>11, <1>12, <1>13, <1>14, <1>15
  DEF Proceed, Environment

\* A step of one request changes nothing that another one carries.
LEMMA OnlyOwn ==
    ASSUME CallsInv, NEW r \in Requests, Proceed(r) \/ Environment(r),
           NEW q \in Requests, q # r
    PROVE  call'[q] = call[q]
<1>1. \E x : call' = [call EXCEPT ![r] = x]
  <2>1. CASE Claim(r) \/ Examine(r) \/ Scan(r)
    BY <2>1 DEF Claim, Examine, ExamineUpTo, Scan, ScanUpTo
  <2>2. CASE Prepare(r) \/ Observe(r) \/ Decide(r) \/ Discard(r)
    BY <2>2 DEF Prepare, Observe, Decide, Discard, CallsInv
  <2>3. CASE Reserve(r)
    BY <2>3 DEF Reserve, ReserveIn
  <2>4. CASE StartBackoff(r) \/ Wake(r)
    BY <2>4 DEF StartBackoff, Wake, Resume, CallsInv
  <2>5. CASE Modify(r) \/ FinishBody(r)
    BY <2>5 DEF Modify, FinishBody
  <2>6. CASE Environment(r)
    BY <2>6 DEF Environment, Informational, Stray, Answer, Break, Abort, ClientGone,
       DeadlineExpires, CallsInv
  <2> QED
    BY <2>1, <2>2, <2>3, <2>4, <2>5, <2>6 DEF Proceed
<1> QED
  BY <1>1 DEF CallsInv

\* One more reservation is one more of the request that makes it.
LEMMA OwnAppend ==
    ASSUME NEW r \in Requests, NEW q \in Requests, clock \in Nat,
           reserved \in Seq([at : Nat, by : Requests]),
           reserved' = Append(reserved, [at |-> clock, by |-> r])
    PROVE  /\ Cardinality(Own(q)) \in Nat
           /\ Cardinality(Own(q))' = IF q = r THEN Cardinality(Own(q)) + 1 ELSE Cardinality(Own(q))
<1>1. PICK L \in Nat : L = Len(reserved)
  OBVIOUS
<1>2. PICK new \in [at : Nat, by : Requests] : new = [at |-> clock, by |-> r]
  OBVIOUS
<1>3. /\ Len(reserved') = L + 1 /\ reserved'[L + 1] = new
      /\ \A i \in 1 .. L : reserved'[i] = reserved[i]
  <2>1. reserved' = Append(reserved, new)
    BY <1>2
  <2> QED
    BY <1>1, <2>1
<1>4. Own(q) \subseteq 1 .. L /\ L + 1 \notin Own(q)
  BY <1>1 DEF Own
<1>5. IsFiniteSet(Own(q)) /\ Cardinality(Own(q)) \in Nat
  <2>1. IsFiniteSet(1 .. L)
    BY FS_Interval
  <2> QED
    BY <1>4, <2>1, FS_Subset, FS_CardinalityType
<1>6. Own(q)' = {i \in 1 .. L + 1 : reserved'[i].by = q}
  BY <1>3 DEF Own
<1>7. CASE q = r
  <2>1. Own(q)' = Own(q) \union {L + 1}
    <3>1. 1 .. L + 1 = (1 .. L) \union {L + 1}
      OBVIOUS
    <3> QED
      BY <1>1, <1>2, <1>3, <1>6, <1>7, <3>1 DEF Own
  <2> QED
    BY <1>4, <1>5, <1>7, <2>1, FS_AddElement
<1>8. CASE q # r
  <2>1. Own(q)' = Own(q)
    <3>1. 1 .. L + 1 = (1 .. L) \union {L + 1}
      OBVIOUS
    <3> QED
      BY <1>1, <1>2, <1>3, <1>6, <1>8, <3>1 DEF Own
  <2> QED
    BY <1>5, <1>8, <2>1
<1> QED
  BY <1>5, <1>7, <1>8

\* A request and its reservations stay in step.
LEMMA AccountKept ==
    ASSUME SharedInv, CallsInv, BudgetInv, AccountInv, Next
    PROVE  AccountInv'
<1> SUFFICES ASSUME BudgetMax > 0, NEW q \in Eligible
             PROVE  (/\ call[q].pc # "done" => Cardinality(Own(q)) = Counted(call[q])
                     /\ Cardinality(Own(q)) \in {call[q].attempt, call[q].attempt + 1})'
  BY DEF AccountInv, Counted
<1>1. /\ q \in Requests /\ call[q] \in Call /\ call[q].attempt \in Nat
      /\ reserved \in Seq([at : Nat, by : Requests]) /\ clock \in Nat
      /\ call \in [Requests -> Call]
  <2>1. q \in Requests /\ call \in [Requests -> Call] /\ clock \in Nat
    BY BackendAssumption DEF CallsInv, SharedInv
  <2>2. call[q] \in Call /\ reserved \in Seq([at : Nat, by : Requests])
    BY <2>1 DEF BudgetInv
  <2>3. call[q].attempt \in Nat
    BY <2>2 DEF Call
  <2> QED
    BY <2>1, <2>2, <2>3
<1>2. /\ call[q].pc # "done" => Cardinality(Own(q)) = Counted(call[q])
      /\ Cardinality(Own(q)) \in {call[q].attempt, call[q].attempt + 1}
  BY DEF AccountInv, Counted
<1>3. ASSUME NEW r \in Requests, Reserve(r),
             reserved' = Append(reserved, [at |-> clock, by |-> r]),
             call' = [call EXCEPT ![r] = Admitted(call[r])]
      PROVE  (/\ call[q].pc # "done" => Cardinality(Own(q)) = Counted(call[q])
              /\ Cardinality(Own(q)) \in {call[q].attempt, call[q].attempt + 1})'
  <2>1. CASE q = r
    <3>1. Cardinality(Own(q))' = Cardinality(Own(q)) + 1
      BY <1>1, <1>3, <2>1, OwnAppend
    <3>2. call[q].pc = "reserve"
      BY <1>3, <2>1 DEF Reserve, ReserveIn
    <3>3. call'[q].pc \in {"discard", "backoff"} /\ call'[q].attempt = call[q].attempt
      BY <1>1, <1>3, <2>1, ResponseFields
    <3> QED
      BY <1>1, <1>2, <3>1, <3>2, <3>3 DEF Counted
  <2>2. CASE q # r
    <3>1. Cardinality(Own(q))' = Cardinality(Own(q))
      BY <1>1, <1>3, <2>2, OwnAppend
    <3>2. call'[q] = call[q]
      BY <1>1, <1>3, <2>2
    <3> QED
      BY <1>2, <3>1, <3>2 DEF Counted
  <2> QED
    BY <2>1, <2>2
<1>4. ASSUME UNCHANGED reserved, Moves(call[q], call'[q])
      PROVE  (/\ call[q].pc # "done" => Cardinality(Own(q)) = Counted(call[q])
              /\ Cardinality(Own(q)) \in {call[q].attempt, call[q].attempt + 1})'
  <2>1. Cardinality(Own(q))' = Cardinality(Own(q))
    BY <1>4 DEF Own
  <2> QED
    BY <1>1, <1>2, <1>4, <2>1 DEF Moves, Counted
<1>5. ASSUME UNCHANGED reserved
      PROVE  Moves(call[q], call'[q])
  <2>1. CASE Tick
    BY <2>1 DEF Tick, Moves
  <2>2. ASSUME NEW r \in Requests, Proceed(r) \/ Environment(r), r # q
        PROVE  Moves(call[q], call'[q])
    BY <1>1, <2>2, OnlyOwn DEF Moves
  <2>3. ASSUME Proceed(q) \/ Environment(q)
        PROVE  Moves(call[q], call'[q])
    BY <1>1, <1>5, <2>3, ActionsMove
  <2> QED
    BY <1>1, <2>1, <2>2, <2>3 DEF Next
<1> QED
  BY <1>3, <1>4, <1>5, BudgetSteps

-----------------------------------------------------------------------------
(* The theorems.                                                           *)

\* At the start nothing is reserved, and every request is new.
LEMMA InitInv == Init => IInv
<1> SUFFICES ASSUME Init PROVE IInv
  OBVIOUS
<1>1. SharedInv
  <2>1. Healthy \in TargetRecord
    BY DEF Healthy, TargetRecord, NoTime
  <2> QED
    BY <2>1, BackendAssumption DEF Init, SharedInv
<1>2. ASSUME NEW r \in Requests PROVE CallInv(r, NewCall)
  <2>1. AttemptInv(NewCall) /\ InformedInv(NewCall) /\ ContextInv(r, NewCall)
    BY DEF AttemptInv, InformedInv, ContextInv, NewCall, NoTime, Errors
  <2>2. SelectInv(NewCall)
    BY DEF SelectInv, NewCall
  <2>3. BodyInv(NewCall)
    BY SlotsAndTargets DEF BodyInv, NewCall, Attempts
  <2> QED
    BY <2>1, <2>2, <2>3, NewCallType DEF CallInv
<1>3. CallsInv
  BY <1>2, NewCallType DEF Init, CallsInv
<1>4. BudgetInv
  <2>1. Len(<<>>) = 0 /\ <<>> \in Seq([at : Nat, by : Requests]) /\ 0 \in 0 .. BudgetMax
    BY BackendAssumption
  <2> QED
    BY <2>1 DEF Init, BudgetInv, NoTime
<1>5. AccountInv
  <2>1. ASSUME NEW r \in Eligible
        PROVE  Own(r) = {} /\ call[r] = NewCall
    <3>1. r \in Requests /\ 1 .. Len(reserved) = {}
      BY BackendAssumption DEF Init
    <3> QED
      BY <3>1 DEF Init, Own
  <2>2. ASSUME NEW r \in Eligible
        PROVE  Cardinality(Own(r)) = 0 /\ call[r].pc = "new" /\ call[r].attempt = 0
    <3>1. Cardinality({}) = 0
      BY FS_EmptySet
    <3>2. Own(r) = {}
      BY <2>1
    <3>3. call[r].pc = "new" /\ call[r].attempt = 0
      BY <2>1 DEF NewCall
    <3> QED
      BY <3>1, <3>2, <3>3
  <2> QED
    BY <2>2 DEF AccountInv
<1> QED
  BY <1>1, <1>3, <1>4, <1>5 DEF IInv

\* Every step keeps the invariant.
LEMMA NextInv ==
    ASSUME IInv, Next
    PROVE  IInv'
<1>1. clock \in Nat /\ cursor \in Nat
  BY BackendAssumption DEF IInv, SharedInv
<1> QED
  BY <1>1, CallsKept, SharedKept, BudgetKeptBySteps, AccountKept DEF IInv

\* So does a stuttering step.
LEMMA StepInv ==
    ASSUME IInv, [Next]_vars
    PROVE  IInv'
<1>1. CASE Next
  BY <1>1, NextInv
<1>2. CASE UNCHANGED vars
  <2>1. SharedInv' /\ CallsInv' /\ BudgetInv'
    BY <1>2 DEF IInv, vars, SharedInv, CallsInv, BudgetInv
  <2>2. AccountInv'
    BY <1>2 DEF IInv, vars, AccountInv, Own
  <2> QED
    BY <2>1, <2>2 DEF IInv
<1> QED
  BY <1>1, <1>2

\* The inductive invariant: what is known of each request at each place of its
\* attempt sequence, of the budget it shares, and of both together.
THEOREM Invariance == Spec => []IInv
<1> QED
  BY InitInv, StepInv, PTL DEF Spec

\* Every variable keeps its type: what each request carries, the records of
\* the targets and the cursor.
THEOREM TypeCorrect == Spec => []TypeOK
<1>1. IInv => TypeOK
  BY DEF IInv, SharedInv, CallsInv, BudgetInv, TypeOK
<1> QED
  BY <1>1, Invariance, PTL

\* A retry falls back to its first target only after its scan has seen every
\* target ejected, whatever the other requests and the clock did meanwhile.
THEOREM RetriesFallBackLast == Spec => []RetryFallsBackLast
<1>1. IInv => RetryFallsBackLast
  BY DEF IInv, CallsInv, CallInv, SelectInv, RetryFallsBackLast
<1> QED
  BY <1>1, Invariance, PTL

\* Every response that an attempt got is closed once, and none is left open,
\* whichever return of the attempt sequence is taken.
THEOREM BodiesAreClosedOnce == Spec => []BodiesClosedOnce
<1>1. ASSUME IInv, NEW r \in Requests, NEW k \in 0 .. Tries - 1
      PROVE  /\ call[r].bodies[k] # "closedTwice"
             /\ call[r].bodies[k] = "open" => k = call[r].attempt /\ call[r].pc # "done"
             /\ call[r].pc \in {"modify", "body"} /\ k = call[r].attempt => call[r].bodies[k] = "open"
  BY <1>1 DEF IInv, CallsInv, CallInv, BodyInv, Attempts
<1>2. IInv => BodiesClosedOnce
  BY <1>1 DEF BodiesClosedOnce
<1> QED
  BY <1>2, Invariance, PTL

\* What the invariant says of the budget, counted.
LEMMA BudgetCounts ==
    ASSUME IInv
    PROVE  BudgetKept
<1> SUFFICES ASSUME BudgetMax > 0
             PROVE  BudgetKept
  BY DEF BudgetKept
<1>1. \A i \in 1 .. Len(reserved) :
        /\ reserved[i].at >= budget.started <=> i > Len(reserved) - budget.used
        /\ i + 2 * BudgetMax <= Len(reserved) =>
              reserved[i + 2 * BudgetMax].at - reserved[i].at >= BudgetWindow
  BY DEF IInv, BudgetInv
<1>2. budget.used \in Nat /\ Len(reserved) \in Nat /\ budget.used <= Len(reserved)
  <2>1. /\ budget \in [started : Nat \union {NoTime}, used : 0 .. BudgetMax]
        /\ reserved \in Seq([at : Nat, by : Requests]) /\ budget.used <= Len(reserved)
    BY DEF IInv, BudgetInv
  <2>2. budget.used \in 0 .. BudgetMax
    BY <2>1
  <2> QED
    BY <2>1, <2>2, BackendAssumption
<1>3. budget.used = Cardinality({i \in 1 .. Len(reserved) : reserved[i].at >= budget.started})
  <2>1. PICK a \in Int : a = Len(reserved) - budget.used + 1
    BY <1>2
  <2>2. {i \in 1 .. Len(reserved) : reserved[i].at >= budget.started} = a .. Len(reserved)
    BY <1>1, <1>2, <2>1
  <2>3. Cardinality(a .. Len(reserved)) = budget.used
    <3>1. PICK b \in Int : b = Len(reserved)
      BY <1>2
    <3>2. Cardinality(a .. b) = IF a > b THEN 0 ELSE b - a + 1
      BY FS_Interval, Zenon
    <3> QED
      BY <1>2, <2>1, <3>1, <3>2
  <2> QED
    BY <2>2, <2>3
<1>4. ASSUME NEW r \in Eligible
      PROVE  /\ Cardinality(Own(r)) \in {call[r].attempt, call[r].attempt + 1}
             /\ call[r].pc = "flight" => Cardinality(Own(r)) = call[r].attempt
  BY DEF IInv, AccountInv
<1> QED
  BY <1>1, <1>3, <1>4 DEF Own, BudgetKept

\* No two windows' worth of retries in less than a window, whoever makes them
\* and however the window rolls over; and every retry was paid for.
THEOREM BudgetIsKept == Spec => []BudgetKept
<1> QED
  BY BudgetCounts, Invariance, PTL

\* A request counts another attempt only where the flag is not set: either it
\* has just been loaded, or what there was to load has been.
LEMMA WhoRetries ==
    ASSUME CallsInv, NEW r \in Requests, Proceed(r) \/ Environment(r),
           call'[r].attempt # call[r].attempt
    PROVE  \/ call[r].pc = "decide" /\ ~call[r].informational
           \/ call[r].pc \in {"backoff", "wait"}
<1>1. PICK c \in Call : c = call[r]
  BY DEF CallsInv
<1>2. call \in [Requests -> Call]
  BY DEF CallsInv
<1> DEFINE d == call'[r]
<1>3. d.attempt # c.attempt
  BY <1>1
<1>4. ASSUME Claim(r) PROVE FALSE
  <2>1. PICK x, y : call' = [call EXCEPT ![r] = IF ~HasHealth THEN Start(r, c, x)
                               ELSE [c EXCEPT !.pc = "examine", !.candidate = x, !.first = y]]
    BY <1>1, <1>4 DEF Claim
  <2>2. d = IF ~HasHealth THEN Start(r, c, x)
            ELSE [c EXCEPT !.pc = "examine", !.candidate = x, !.first = y]
    BY <1>2, <2>1
  <2>3. CASE HasHealth
    <3>1. d = [c EXCEPT !.pc = "examine", !.candidate = x, !.first = y]
      BY <2>2, <2>3
    <3> QED
      BY <1>3, <3>1 DEF Call
  <2>4. CASE ~HasHealth
    <3>1. d = Start(r, c, x)
      BY <2>2, <2>4
    <3> HIDE DEF d
    <3> QED
      BY <1>3, <3>1, StartFields
  <2> QED
    BY <2>3, <2>4
<1>5. ASSUME Examine(r) \/ Scan(r) PROVE FALSE
  <2>1. PICK refused : refused = [c EXCEPT !.examined = @ + 1, !.spurned = @ \union {c.candidate}]
    OBVIOUS
  <2>2. PICK x, y : \/ d = Chosen(Start(r, c, x), FALSE)
                    \/ d = [refused EXCEPT !.pc = "claim"]
                    \/ d = Chosen(Start(r, refused, x), TRUE)
                    \/ d = Chosen(Send(c, x), FALSE)
                    \/ d = [refused EXCEPT !.candidate = y]
                    \/ d = Chosen(Send(refused, x), TRUE)
    <3>1. CASE Examine(r)
      BY <1>1, <1>2, <2>1, <3>1 DEF Examine, ExamineUpTo
    <3>2. CASE Scan(r)
      BY <1>1, <1>2, <2>1, <3>2 DEF Scan, ScanUpTo
    <3> QED
      BY <1>5, <3>1, <3>2
  <2>3. PICK examined, spurned : refused = [c EXCEPT !.examined = examined, !.spurned = spurned]
    BY <2>1
  <2>4. CASE d = Chosen(Start(r, c, x), FALSE) \/ d = Chosen(Send(c, x), FALSE)
    BY <1>1, <1>3, <2>4 DEF Chosen, Start, Launch, Send, Call
  <2>5. CASE d = [refused EXCEPT !.pc = "claim"] \/ d = [refused EXCEPT !.candidate = y]
    BY <1>1, <1>3, <2>3, <2>5 DEF Call
  <2>6. CASE d = Chosen(Start(r, refused, x), TRUE)
    BY <1>1, <1>3, <2>3, <2>6 DEF Chosen, Start, Launch, Call
  <2>7. CASE d = Chosen(Send(refused, x), TRUE)
    BY <1>1, <1>3, <2>3, <2>7 DEF Chosen, Send, Call
  <2> QED
    BY <2>2, <2>4, <2>5, <2>6, <2>7
<1>6. ASSUME Prepare(r) PROVE FALSE
  <2>1. (\E error : d = ReturnError(c, error)) \/ d = Launch(c, TRUE)
    BY <1>1, <1>2, <1>6 DEF Prepare
  <2> HIDE DEF d
  <2>2. ASSUME NEW error, d = ReturnError(c, error) PROVE FALSE
    BY <1>3, <2>2, ErrorFields
  <2>3. CASE d = Launch(c, TRUE)
    BY <1>3, <2>3, LaunchFields
  <2> QED
    BY <2>1, <2>2, <2>3
<1>7. ASSUME Observe(r) \/ Environment(r) PROVE FALSE
  <2>1. CASE Observe(r)
    BY <1>1, <1>2, <1>3, <2>1 DEF Observe, Call
  <2>2. CASE Answer(r)
    BY <1>1, <1>2, <1>3, <2>2 DEF Answer, Call
  <2>3. CASE Break(r)
    BY <1>1, <1>2, <1>3, <2>3 DEF Break, Call
  <2>4. CASE Abort(r) \/ DeadlineExpires(r)
    BY <1>1, <1>2, <1>3, <2>4 DEF Abort, DeadlineExpires, Call
  <2>5. CASE Informational(r) \/ Stray(r) \/ ClientGone(r)
    BY <1>1, <1>2, <1>3, <2>5 DEF Informational, Stray, ClientGone, Call
  <2> QED
    BY <1>7, <2>1, <2>2, <2>3, <2>4, <2>5 DEF Environment
<1>8. ASSUME Reserve(r) PROVE FALSE
  <2>1. \/ d = ReturnResponse(c) \/ d = Admitted(c)
        \/ \E error : d = ReturnError(c, error) \/ d = ReturnError(GivenUp(c), error)
    <3>1. CASE BudgetMax = 0
      BY <1>1, <1>2, <1>8, <3>1 DEF Reserve, ReserveIn
    <3>2. CASE BudgetMax > 0 /\ Ended(r)
      BY <1>1, <1>2, <1>8, <3>2 DEF Reserve, ReserveIn, GivenUp
    <3>3. CASE BudgetMax > 0 /\ ~Ended(r) /\ Window.used >= BudgetMax
      <4>1. call' = [call EXCEPT ![r] = IF Answered(r) THEN ReturnResponse(c)
                                                 ELSE ReturnError(c, c.reply)]
        BY <1>1, <1>8, <3>3 DEF Reserve, ReserveIn
      <4> QED
        BY <1>2, <4>1
    <3>4. CASE BudgetMax > 0 /\ ~Ended(r) /\ ~(Window.used >= BudgetMax)
      <4>1. call' = [call EXCEPT ![r] = Admitted(c)]
        BY <1>1, <1>8, <3>4 DEF Reserve, ReserveIn
      <4> QED
        BY <1>2, <4>1
    <3> QED
      BY <3>1, <3>2, <3>3, <3>4, BackendAssumption
  <2> HIDE DEF d
  <2> QED
    BY <1>3, <2>1, ErrorFields, ResponseFields
<1>9. ASSUME Discard(r) PROVE FALSE
  <2>1. d = [GivenUp(c) EXCEPT !.pc = "backoff"] \/ \E error : d = ReturnError(GivenUp(c), error)
    BY <1>1, <1>2, <1>9 DEF Discard, GivenUp
  <2>2. CASE d = [GivenUp(c) EXCEPT !.pc = "backoff"]
    BY <1>3, <2>2 DEF Call, GivenUp
  <2> HIDE DEF d
  <2> QED
    BY <1>3, <2>1, <2>2, ErrorFields
<1>10. ASSUME Modify(r) \/ FinishBody(r) PROVE FALSE
  <2>1. d = [c EXCEPT !.pc = "body"] \/ \E result : d = Done(c, result)
    BY <1>1, <1>2, <1>10 DEF Modify, FinishBody
  <2>2. CASE d = [c EXCEPT !.pc = "body"]
    BY <1>3, <2>2 DEF Call
  <2> HIDE DEF d
  <2> QED
    BY <1>3, <2>1, <2>2, ErrorFields
<1>11. ASSUME Decide(r), call[r].informational PROVE FALSE
  <2>1. \/ d = ReturnResponse(c)
        \/ \E error : d = ReturnError(c, error) \/ d = ReturnError(GivenUp(c), error)
    <3>1. CASE HasRetry /\ r \in Eligible
      <4>1. d = DecideStatus(r) /\ c.informational
        BY <1>1, <1>2, <1>11, <3>1 DEF Decide
      <4> HIDE DEF d
      <4> QED
        BY <1>1, <4>1 DEF DecideStatus, GivenUp
    <3>2. CASE ~(HasRetry /\ r \in Eligible)
      <4>1. d = DecideTransport(r) /\ c.informational
        BY <1>1, <1>2, <1>11, <3>2 DEF Decide
      <4> HIDE DEF d
      <4> QED
        BY <1>1, <4>1 DEF DecideTransport
    <3> QED
      BY <3>1, <3>2
  <2> HIDE DEF d
  <2> QED
    BY <1>3, <2>1, ErrorFields, ResponseFields
<1>12. Decide(r) => call[r].pc = "decide"
  BY DEF Decide
<1>13. StartBackoff(r) \/ Wake(r) => call[r].pc \in {"backoff", "wait"}
  BY DEF StartBackoff, Wake
<1> QED
  BY <1>4, <1>5, <1>6, <1>7, <1>8, <1>9, <1>10, <1>11, <1>12, <1>13 DEF Proceed

\* Where no reader outlives its attempt, no attempt is begun once an upstream
\* has sent a 1xx for the request: an informational response is forwarded, and
\* what follows it is the answer.
THEOREM InformationalEndsRetries ==
    ASSUME ~StrayInformational
    PROVE  Spec => NoRetryAfterInformational
<1>1. ASSUME IInv, [Next]_vars, NEW r \in Requests, call'[r].attempt > call[r].attempt
      PROVE  call[r].informed = {}
  <2>1. CallsInv
    BY <1>1 DEF IInv
  <2>2. call[r] \in Call /\ InformedInv(call[r])
    BY <2>1 DEF CallsInv, CallInv
  <2>3. call'[r].attempt # call[r].attempt
    <3>1. call[r].attempt \in Nat
      BY <2>2, SlotsAndTargets DEF Call
    <3> QED
      BY <1>1, <3>1
  <2>4. Proceed(r) \/ Environment(r)
    <3>1. CASE Tick \/ UNCHANGED vars
      BY <2>3, <3>1 DEF Tick, vars
    <3>2. ASSUME NEW q \in Requests, Proceed(q) \/ Environment(q), q # r PROVE FALSE
      BY <2>1, <2>3, <3>2, OnlyOwn
    <3> QED
      BY <1>1, <3>1, <3>2 DEF Next
  <2>5. ~call[r].informational
    <3>1. CASE call[r].pc \in {"backoff", "wait"}
      BY <2>1, <3>1, BetweenAttempts
    <3> QED
      BY <2>1, <2>3, <2>4, <3>1, WhoRetries
  <2> QED
    BY <2>2, <2>5 DEF InformedInv
<1>2. ASSUME IInv, [Next]_vars
      PROVE  [\A r \in Requests : call'[r].attempt > call[r].attempt => call[r].informed = {}]_call
  BY <1>1, <1>2
<1> QED
  BY <1>2, Invariance, PTL DEF Spec, NoRetryAfterInformational

\* There, an attempt that is taken for answered because of a 1xx has sent it.
THEOREM InformationalIsKept ==
    ASSUME ~StrayInformational
    PROVE  Spec => []InformationalIsTheAttempts
<1>1. IInv => InformationalIsTheAttempts
  BY DEF IInv, CallsInv, CallInv, InformedInv, InformationalIsTheAttempts
<1> QED
  BY <1>1, Invariance, PTL

\* Without a retry deadline, the client gets 504 when the last attempt timed
\* out, unless it has gone away.
THEOREM TimeoutsAre504 ==
    ASSUME Deadline = 0
    PROVE  Spec => []FinalTimeoutIs504
<1>1. IInv => FinalTimeoutIs504
  BY DEF IInv, CallsInv, CallInv, ContextInv, FinalTimeoutIs504, Status
<1> QED
  BY <1>1, Invariance, PTL

-----------------------------------------------------------------------------
(* The selection of a first target, if no other comes between its claims.  *)
\* What is left over is less than the divisor, and there is one such number.
LEMMA LeftOver ==
    ASSUME NEW n \in Nat, n > 0, NEW q \in Nat, NEW m \in Nat, m < n,
           NEW i \in Nat, i = n * q + m
    PROVE  i % n = m
<1>1. PICK p \in Int : p = i \div n
  OBVIOUS
<1>2. PICK r \in Nat : r = i % n /\ r < n
  OBVIOUS
<1>3. i = n * p + r
  BY <1>1, <1>2
<1>4. PICK d \in Int : d = q - p
  OBVIOUS
<1>5. n * d = n * q - n * p
  BY <1>4
<1>6. n * d = r - m
  BY <1>3, <1>5
<1>7. ASSUME NEW a \in Nat, a > 0 PROVE n * a >= n
  <2>1. PICK b \in Nat : a = b + 1
    <3>1. a - 1 \in Nat /\ a = (a - 1) + 1
      BY <1>7
    <3> QED
      BY <3>1
  <2>2. n * a = n * b + n
    BY <2>1
  <2>3. n * b \in Nat
    OBVIOUS
  <2> QED
    BY <2>2, <2>3
<1>8. ~(d > 0)
  <2> SUFFICES ASSUME d > 0 PROVE FALSE
    OBVIOUS
  <2>1. n * d >= n
    BY <1>7
  <2> QED
    BY <1>2, <1>6, <2>1
<1>9. ~(d < 0)
  <2> SUFFICES ASSUME d < 0 PROVE FALSE
    OBVIOUS
  <2>1. PICK e \in Nat : e = -d /\ e > 0
    <3>1. -d \in Nat /\ -d > 0
      OBVIOUS
    <3> QED
      BY <3>1
  <2>2. n * e >= n
    BY <1>7, <2>1
  <2>3. n * e = -(n * d)
    BY <2>1
  <2> QED
    BY <1>2, <1>6, <2>2, <2>3
<1>10. d = 0
  BY <1>8, <1>9
<1>11. n * d = 0
  BY <1>10
<1> QED
  BY <1>2, <1>6, <1>11

\* Counting on from one slot, less than two cycles.
LEMMA AroundSlots ==
    ASSUME NEW i \in Nat, i < 2 * Slots
    PROVE  i % Slots = IF i < Slots THEN i ELSE i - Slots
<1>1. PICK n \in Nat : n = Slots /\ n > 0
  BY SlotsAndTargets
<1>2. CASE i < n
  BY <1>1, <1>2
<1>3. CASE ~(i < n)
  BY <1>1, <1>3
<1> QED
  BY <1>1, <1>2, <1>3

\* The next number has the next slot.
LEMMA NextSlot ==
    ASSUME NEW i \in Nat
    PROVE  (i + 1) % Slots = ((i % Slots) + 1) % Slots
<1>1. PICK n \in Nat : n = Slots /\ n > 0
  BY SlotsAndTargets
<1>2. PICK m \in Nat : m = i % n /\ m < n
  BY <1>1
<1>3. PICK q \in Nat : q = i \div n
  BY <1>1
<1>4. i = n * q + m
  BY <1>1, <1>2, <1>3
<1>5. CASE m + 1 < n
  <2>1. i + 1 = n * q + (m + 1)
    BY <1>4
  <2>2. (i + 1) % n = m + 1
    BY <1>1, <1>5, <2>1, LeftOver
  <2>3. (m + 1) % n = m + 1
    BY <1>1, <1>5, AroundSlots
  <2> QED
    BY <1>1, <1>2, <2>2, <2>3
<1>6. CASE m + 1 = n
  <2>1. PICK p \in Nat : p = q + 1
    BY <1>3
  <2>2. i + 1 = n * p + 0 /\ i + 1 \in Nat /\ 0 \in Nat
    BY <1>4, <1>6, <2>1
  <2>3. (i + 1) % n = 0
    BY <1>1, <2>2, LeftOver
  <2>4. (m + 1) % n = 0
    BY <1>1, <1>6, AroundSlots
  <2> QED
    BY <1>1, <1>2, <2>3, <2>4
<1> QED
  BY <1>1, <1>2, <1>5, <1>6

\* Every target has a slot, as buildTargetSchedule sees to.
SlotsCoverTargets == \A t \in Targets : \E i \in 0 .. Slots - 1 : Slot(i) = t

\* A claim moves the cursor to the next slot, unless it starts the cursor over.
LEMMA CursorMoves ==
    ASSUME cursor \in 0 .. CursorValues - 1
    PROVE  \/ (cursor + 1) % CursorValues = 0
           \/ ((cursor + 1) % CursorValues) % Slots = ((cursor % Slots) + 1) % Slots
<1>1. CursorValues \in Nat /\ CursorValues > 0 /\ cursor \in Nat /\ cursor < CursorValues
  BY BackendAssumption
<1>2. CASE cursor + 1 < CursorValues
  <2>1. (cursor + 1) % CursorValues = cursor + 1
    BY <1>1, <1>2
  <2> QED
    BY <1>1, <2>1, NextSlot
<1>3. CASE cursor + 1 = CursorValues
  <2>1. cursor + 1 = CursorValues * 1 + 0
    BY <1>1, <1>3
  <2> QED
    BY <1>1, <2>1, LeftOver
<1> QED
  BY <1>1, <1>2, <1>3

\* The targets of the slots from `first` on.
Claimed(first, n) == {Slot((first + i) % Slots) : i \in 0 .. n - 1}

\* From slot to slot one target after the other is seen, and in a cycle all are.
LEMMA CycleSees ==
    ASSUME SlotsCoverTargets, NEW first \in 0 .. Slots - 1, NEW n \in Nat, n < Slots
    PROVE  /\ Claimed(first, n) \union {Slot((first + n) % Slots)} = Claimed(first, n + 1)
           /\ (((first + n) % Slots) + 1) % Slots = (first + n + 1) % Slots
           /\ n + 1 = Slots => Claimed(first, n + 1) = Targets
<1>1. Slots \in Nat /\ Slots > 0 /\ first \in Nat /\ first < Slots
  BY SlotsAndTargets
<1>2. Claimed(first, n) \union {Slot((first + n) % Slots)} = Claimed(first, n + 1)
  <2>1. 0 .. n + 1 - 1 = (0 .. n - 1) \union {n}
    OBVIOUS
  <2> QED
    BY <2>1 DEF Claimed
<1>3. (((first + n) % Slots) + 1) % Slots = (first + n + 1) % Slots
  <2>1. first + n \in Nat
    BY <1>1
  <2> QED
    BY <2>1, NextSlot
<1>4. ASSUME n + 1 = Slots
      PROVE  Claimed(first, n + 1) = Targets
  <2>1. ASSUME NEW t \in Targets
        PROVE  \E i \in 0 .. Slots - 1 : t = Slot((first + i) % Slots)
    <3>1. PICK j \in 0 .. Slots - 1 : Slot(j) = t
      BY DEF SlotsCoverTargets
    <3>2. CASE j >= first
      <4>1. j - first \in 0 .. Slots - 1 /\ first + (j - first) = j /\ j % Slots = j
        BY <1>1, <3>1, <3>2, AroundSlots
      <4> QED
        BY <3>1, <4>1
    <3>3. CASE j < first
      <4>1. j - first + Slots \in 0 .. Slots - 1 /\ first + (j - first + Slots) = j + Slots
        BY <1>1, <3>1, <3>3
      <4>2. (j + Slots) % Slots = j
        BY <1>1, <3>1, AroundSlots
      <4> QED
        BY <3>1, <4>1, <4>2
    <3> QED
      BY <1>1, <3>1, <3>2, <3>3
  <2>2. ASSUME NEW i \in 0 .. Slots - 1 PROVE Slot((first + i) % Slots) \in Targets
    <3>1. (first + i) % Slots \in 0 .. Slots - 1
      <4>1. first + i \in Nat /\ first + i < 2 * Slots
        BY <1>1
      <4> QED
        BY <1>1, <4>1, AroundSlots
    <3> QED
      BY <3>1, SlotsAndTargets
  <2>3. n + 1 - 1 = Slots - 1
    BY <1>4
  <2> QED
    BY <2>1, <2>2, <2>3 DEF Claimed
<1> QED
  BY <1>2, <1>3, <1>4

\* While a first target is selected, its claims have gone from slot to slot, and
\* the cursor stands at the next one, or has just started over.  Only a cycle
\* of refused claims lets it fall back.
ClaimInv(c) ==
    /\ c.pc = "new" => c.spurned = {}
    /\ c.pc \in {"claim", "examine"} => \E first \in 0 .. Slots - 1 :
         /\ c.spurned = Claimed(first, c.examined)
         /\ c.pc = "claim" => \/ cursor = 0
                              \/ cursor % Slots = (first + c.examined) % Slots
         /\ c.pc = "examine" => /\ c.candidate = Slot((first + c.examined) % Slots)
                                /\ \/ cursor = 0
                                   \/ cursor % Slots = (first + c.examined + 1) % Slots
    /\ c.pc \in {"prepare", "flight"} /\ c.attempt = 0 /\ c.fellBack => c.spurned = Targets
    /\ c.pc = "scan" => c.attempt > 0

ClaimsInv == \A r \in Requests : ClaimInv(call[r])

\* No slot is claimed for one request while another selects its first target.
Undisturbed ==
    \A r \in Requests :
        call[r].pc \in {"claim", "examine"} /\ UNCHANGED call[r] => UNCHANGED cursor

\* No selection that has claimed a slot claims its next one from a cursor that
\* has started over since: with 2^64 values, once in 2^64 claims it would.
Unwrapped == \A r \in Requests : call[r].pc = "claim" => cursor # 0

\* The selection of a first target is over, or what it knows is what it was.
Selecting(c, d) ==
    \/ d.pc \notin {"new", "claim", "examine", "prepare", "flight", "scan"}
    \/ d.pc \in {"flight", "scan"} /\ d.attempt > 0
    \/ /\ d.pc = c.pc /\ d.attempt = c.attempt /\ d.examined = c.examined
       /\ d.candidate = c.candidate /\ d.spurned = c.spurned /\ d.fellBack = c.fellBack

\* Whatever does not claim, examine or prepare leaves a selection alone.
LEMMA SelectionStays ==
    ASSUME CallsInv, NEW r \in Requests, Proceed(r) \/ Environment(r),
           ~Claim(r), ~Examine(r), ~Prepare(r), ClaimInv(call[r])
    PROVE  Selecting(call[r], call'[r]) /\ UNCHANGED cursor
<1>1. PICK c \in Call : c = call[r] /\ c.attempt \in Nat
  BY DEF CallsInv, Call
<1>2. call \in [Requests -> Call]
  BY DEF CallsInv
<1> DEFINE d == call'[r]
           Over == d.pc \in {"observe", "decide", "reserve", "discard", "backoff", "wait", "modify", "body", "done"}
           Later == d.pc \in {"flight", "scan"} /\ d.attempt > 0
<1>3. ASSUME Over \/ Later PROVE Selecting(c, d)
  BY <1>3 DEF Selecting
<1>4. CASE Observe(r) \/ Answer(r) \/ Break(r) \/ Abort(r)
  <2>1. Over
    <3>1. CASE Observe(r)
      BY <1>1, <1>2, <3>1 DEF Observe, Call
    <3>2. CASE Answer(r)
      BY <1>1, <1>2, <3>2 DEF Answer, Observed, Call
    <3>3. CASE Break(r)
      BY <1>1, <1>2, <3>3 DEF Break, Observed, Call
    <3>4. CASE Abort(r)
      BY <1>1, <1>2, <3>4 DEF Abort, Observed, Call
    <3> QED
      BY <1>4, <3>1, <3>2, <3>3, <3>4
  <2>2. UNCHANGED cursor
    BY <1>4 DEF Observe, Answer, Break, Abort
  <2> QED
    BY <1>1, <1>3, <2>1, <2>2
<1>5. CASE Decide(r)
  <2>1. \/ d = ReturnResponse(c) \/ d = [c EXCEPT !.pc = "reserve"] \/ d = NextAttempt(c)
        \/ \E error : d = ReturnError(c, error) \/ d = ReturnError(GivenUp(c), error)
    <3>1. d = DecideStatus(r) \/ d = DecideTransport(r)
      BY <1>1, <1>2, <1>5 DEF Decide
    <3> HIDE DEF d
    <3> QED
      BY <1>1, <3>1 DEF DecideStatus, DecideTransport, GivenUp
  <2>2. Over \/ Later
    <3>1. CASE d = [c EXCEPT !.pc = "reserve"]
      BY <3>1 DEF Call
    <3> HIDE DEF d
    <3>2. CASE d = NextAttempt(c)
      BY <1>1, <3>2, ResponseFields
    <3> QED
      BY <2>1, <3>1, <3>2, ErrorFields, ResponseFields
  <2>3. UNCHANGED cursor
    BY <1>5 DEF Decide
  <2> QED
    BY <1>1, <1>3, <2>2, <2>3
<1>6. CASE Reserve(r)
  <2>1. \/ d = ReturnResponse(c) \/ d = Admitted(c)
        \/ \E error : d = ReturnError(c, error) \/ d = ReturnError(GivenUp(c), error)
    <3>1. CASE BudgetMax = 0
      BY <1>1, <1>2, <1>6, <3>1 DEF Reserve, ReserveIn
    <3>2. CASE BudgetMax > 0 /\ Ended(r)
      BY <1>1, <1>2, <1>6, <3>2 DEF Reserve, ReserveIn, GivenUp
    <3>3. CASE BudgetMax > 0 /\ ~Ended(r) /\ Window.used >= BudgetMax
      <4>1. call' = [call EXCEPT ![r] = IF Answered(r) THEN ReturnResponse(c)
                                                 ELSE ReturnError(c, c.reply)]
        BY <1>1, <1>6, <3>3 DEF Reserve, ReserveIn
      <4> QED
        BY <1>2, <4>1
    <3>4. CASE BudgetMax > 0 /\ ~Ended(r) /\ ~(Window.used >= BudgetMax)
      <4>1. call' = [call EXCEPT ![r] = Admitted(c)]
        BY <1>1, <1>6, <3>4 DEF Reserve, ReserveIn
      <4> QED
        BY <1>2, <4>1
    <3> QED
      BY <3>1, <3>2, <3>3, <3>4, BackendAssumption
  <2>2. Over
    <3> HIDE DEF d
    <3> QED
      BY <2>1, ErrorFields, ResponseFields
  <2>3. UNCHANGED cursor
    BY <1>6 DEF Reserve, ReserveIn
  <2> QED
    BY <1>1, <1>3, <2>2, <2>3
<1>7. CASE Discard(r)
  <2>1. d = [GivenUp(c) EXCEPT !.pc = "backoff"] \/ \E error : d = ReturnError(GivenUp(c), error)
    BY <1>1, <1>2, <1>7 DEF Discard, GivenUp
  <2>2. Over
    <3>1. CASE d = [GivenUp(c) EXCEPT !.pc = "backoff"]
      BY <3>1 DEF Call, GivenUp
    <3> HIDE DEF d
    <3> QED
      BY <2>1, <3>1, ErrorFields
  <2>3. UNCHANGED cursor
    BY <1>7 DEF Discard
  <2> QED
    BY <1>1, <1>3, <2>2, <2>3
<1>8. CASE StartBackoff(r) \/ Wake(r)
  <2>1. \/ d = NextAttempt(c) \/ \E error : d = ReturnError(c, error)
        \/ \E timer : d = [c EXCEPT !.pc = "wait", !.timer = timer]
    BY <1>1, <1>2, <1>8 DEF StartBackoff, Wake, Resume
  <2>2. Over \/ Later
    <3> HIDE DEF d
    <3>1. CASE \E timer : d = [c EXCEPT !.pc = "wait", !.timer = timer]
      BY <3>1 DEF Call
    <3>2. CASE d = NextAttempt(c)
      BY <1>1, <3>2, ResponseFields
    <3>3. CASE \E error : d = ReturnError(c, error)
      BY <3>3, ErrorFields
    <3> QED
      BY <2>1, <3>1, <3>2, <3>3
  <2>3. UNCHANGED cursor
    BY <1>8 DEF StartBackoff, Wake
  <2> QED
    BY <1>1, <1>3, <2>2, <2>3
<1>9. CASE Scan(r)
  <2>1. c.attempt > 0
    BY <1>1, <1>9 DEF Scan, ScanUpTo, ClaimInv
  <2>2. PICK refused : refused = [c EXCEPT !.examined = @ + 1, !.spurned = @ \union {c.candidate}]
    OBVIOUS
  <2>3. \/ d = Chosen(Send(c, c.candidate), FALSE)
        \/ \E x : d = [refused EXCEPT !.candidate = x]
        \/ d = Chosen(Send(refused, c.first), TRUE)
    BY <1>1, <1>2, <1>9, <2>2 DEF Scan, ScanUpTo
  <2>4. refused.pc = "scan" /\ refused.attempt = c.attempt
    BY <1>1, <1>9, <2>2 DEF Scan, ScanUpTo, Call
  <2>5. Later
    <3> HIDE DEF d
    <3>1. CASE \E x : d = [refused EXCEPT !.candidate = x]
      BY <2>1, <2>2, <2>4, <3>1 DEF Call
    <3>2. CASE d = Chosen(Send(c, c.candidate), FALSE)
      BY <2>1, <3>2 DEF Chosen, Send, Call
    <3>3. CASE d = Chosen(Send(refused, c.first), TRUE)
      BY <2>1, <2>2, <3>3 DEF Chosen, Send, Call
    <3> QED
      BY <2>3, <3>1, <3>2, <3>3
  <2>6. UNCHANGED cursor
    BY <1>9 DEF Scan, ScanUpTo
  <2> QED
    BY <1>1, <1>3, <2>5, <2>6
<1>10. CASE Modify(r) \/ FinishBody(r)
  <2>1. d = [c EXCEPT !.pc = "body"] \/ \E result : d = Done(c, result)
    BY <1>1, <1>2, <1>10 DEF Modify, FinishBody
  <2>2. Over
    <3>1. CASE d = [c EXCEPT !.pc = "body"]
      BY <3>1 DEF Call
    <3> HIDE DEF d
    <3> QED
      BY <2>1, <3>1, ErrorFields
  <2>3. UNCHANGED cursor
    BY <1>10 DEF Modify, FinishBody
  <2> QED
    BY <1>1, <1>3, <2>2, <2>3
<1>11. CASE Informational(r) \/ Stray(r) \/ ClientGone(r) \/ DeadlineExpires(r)
  <2>1. /\ d.pc = c.pc /\ d.attempt = c.attempt /\ d.examined = c.examined
        /\ d.candidate = c.candidate /\ d.spurned = c.spurned /\ d.fellBack = c.fellBack
    BY <1>1, <1>2, <1>11 DEF Informational, Stray, ClientGone, DeadlineExpires, Call
  <2>2. UNCHANGED cursor
    BY <1>11 DEF Informational, Stray, ClientGone, DeadlineExpires
  <2> QED
    BY <1>1, <2>1, <2>2 DEF Selecting
<1> QED
  BY <1>4, <1>5, <1>6, <1>7, <1>8, <1>9, <1>10, <1>11 DEF Proceed, Environment

\* The start of a first attempt keeps what its selection has found out.
LEMMA StartKeepsFound ==
    ASSUME NEW r, NEW c \in Call, NEW x
    PROVE  /\ Start(r, c, x).spurned = c.spurned /\ Start(r, c, x).fellBack = c.fellBack
BY DEF Start, Launch, Call

\* So does the one after its body has been buffered.
LEMMA LaunchKeepsFound ==
    ASSUME NEW c \in Call
    PROVE  Launch(c, TRUE).spurned = c.spurned /\ Launch(c, TRUE).fellBack = c.fellBack
BY DEF Launch, Call

\* A selection that has found a target does not fall back,
LEMMA ChosenFound ==
    ASSUME NEW r, NEW c \in Call, NEW x
    PROVE  /\ Chosen(Start(r, c, x), FALSE).pc \in {"prepare", "flight"}
           /\ Chosen(Start(r, c, x), FALSE).fellBack = FALSE
BY DEF Start, Launch, Chosen, Call

\* and one that has found none still knows what it has refused.
LEMMA ChosenRefused ==
    ASSUME NEW r, NEW c \in Call, NEW x
    PROVE  /\ Chosen(Start(r, c, x), TRUE).pc \in {"prepare", "flight"}
           /\ Chosen(Start(r, c, x), TRUE).spurned = c.spurned
BY DEF Start, Launch, Chosen, Call

\* A claim is of the slot that follows the ones before.
LEMMA ClaimFollows ==
    ASSUME SharedInv, CallsInv, Unwrapped, NEW r \in Requests, ClaimInv(call[r]), Claim(r)
    PROVE  ClaimInv(call[r])'
<1>1. PICK c \in Call : c = call[r] /\ c.examined \in Nat
  BY SlotsAndTargets DEF CallsInv, Call
<1>2. call \in [Requests -> Call] /\ SelectInv(c) /\ ClaimInv(c)
  BY <1>1 DEF CallsInv, CallInv
<1>3. Slots \in Nat /\ Slots > 0 /\ cursor \in Nat
  BY SlotsAndTargets, BackendAssumption DEF SharedInv
<1>4. PICK at \in 0 .. Slots - 1 : at = cursor % Slots
  BY <1>3
<1>5. cursor' = 0 \/ cursor' % Slots = (at + 1) % Slots
  <2>1. CASE Slots = 1
    <3>1. cursor' = cursor
      BY <2>1 DEF Claim
    <3>2. at = 0
      BY <1>3, <2>1
    <3>3. 1 % 1 = 0
      OBVIOUS
    <3> QED
      BY <1>4, <2>1, <3>1, <3>2, <3>3
  <2>2. CASE Slots # 1
    <3>1. cursor' = (cursor + 1) % CursorValues
      BY <2>2 DEF Claim
    <3> QED
      BY <1>4, <3>1, CursorMoves DEF SharedInv
  <2> QED
    BY <2>1, <2>2
<1>6. PICK index : index = Slot(at)
  OBVIOUS
<1>7. index = IF Slots = 1 THEN Slot(0) ELSE Slot(cursor % Slots)
  BY <1>3, <1>4, <1>6
<1>8. PICK target : target = IF c.pc = "new" THEN index ELSE c.first
  OBVIOUS
<1>9. call'[r] = IF ~HasHealth THEN Start(r, c, index)
                 ELSE [c EXCEPT !.pc = "examine", !.candidate = index, !.first = target]
  BY <1>1, <1>2, <1>7, <1>8 DEF Claim
<1>10. CASE ~HasHealth
  <2>1. call'[r] = Start(r, c, index)
    BY <1>9, <1>10
  <2>2. call'[r].pc \in {"prepare", "flight"}
    BY <2>1, StartFields
  <2>3. ~call'[r].fellBack
    <3>1. ~c.fellBack
      BY <1>2, <1>10 DEF SelectInv
    <3>2. Start(r, c, index).fellBack = c.fellBack
      BY <1>1, StartKeepsFound
    <3> QED
      BY <2>1, <3>1, <3>2, Zenon
  <2> QED
    BY <2>2, <2>3 DEF ClaimInv
<1>11. CASE HasHealth
  <2>1. call'[r] = [c EXCEPT !.pc = "examine", !.candidate = index, !.first = target]
    BY <1>9, <1>11
  <2>2. /\ call'[r].pc = "examine" /\ call'[r].candidate = index
        /\ call'[r].spurned = c.spurned /\ call'[r].examined = c.examined
    BY <2>1 DEF Call
  <2>3. PICK first \in 0 .. Slots - 1 : c.spurned = Claimed(first, c.examined) /\ at = (first + c.examined) % Slots
    <3>1. CASE c.pc = "new"
      <4>1. c.spurned = {} /\ c.examined = 0
        BY <1>2, <3>1 DEF SelectInv, ClaimInv
      <4>2. Claimed(at, 0) = {}
        BY DEF Claimed
      <4>3. (at + 0) % Slots = at
        BY <1>3, AroundSlots
      <4> QED
        BY <4>1, <4>2, <4>3
    <3>2. CASE c.pc = "claim"
      <4>1. cursor # 0
        BY <1>1, <3>2 DEF Unwrapped
      <4> QED
        BY <1>2, <1>4, <3>2, <4>1 DEF ClaimInv
    <3> QED
      BY <1>1, <3>1, <3>2 DEF Claim
  <2>4. cursor' = 0 \/ cursor' % Slots = (first + c.examined + 1) % Slots
    <3>1. first + c.examined \in Nat
      BY <1>1, <1>3
    <3> QED
      BY <1>5, <2>3, <3>1, NextSlot
  <2> QED
    BY <1>6, <2>2, <2>3, <2>4 DEF ClaimInv
<1> QED
  BY <1>10, <1>11

\* A cycle of refused claims has refused every target.
LEMMA ExamineFollows ==
    ASSUME SlotsCoverTargets, CallsInv, NEW r \in Requests, ClaimInv(call[r]), Examine(r)
    PROVE  ClaimInv(call[r])'
<1>1. PICK c \in Call : c = call[r] /\ c.examined \in Nat
  BY SlotsAndTargets DEF CallsInv, Call
<1>2. call \in [Requests -> Call] /\ SelectInv(c) /\ ClaimInv(c)
  BY <1>1 DEF CallsInv, CallInv
<1>3. c.pc = "examine" /\ c.examined < Slots /\ UNCHANGED cursor
  BY <1>1, <1>2 DEF Examine, ExamineUpTo, SelectInv
<1>4. PICK first \in 0 .. Slots - 1 :
        /\ c.spurned = Claimed(first, c.examined) /\ c.candidate = Slot((first + c.examined) % Slots)
        /\ cursor = 0 \/ cursor % Slots = (first + c.examined + 1) % Slots
  BY <1>2, <1>3 DEF ClaimInv
<1>5. PICK examined \in Nat : examined = c.examined + 1
  BY <1>1
<1>6. PICK spurned : spurned = c.spurned \union {c.candidate}
  OBVIOUS
<1>7. spurned = Claimed(first, examined) /\ (examined = Slots => spurned = Targets)
  BY <1>1, <1>3, <1>4, <1>5, <1>6, CycleSees
<1>8. PICK refused \in Call : /\ refused = [c EXCEPT !.examined = examined, !.spurned = spurned]
                              /\ refused.examined = examined /\ refused.spurned = spurned
  <2>1. examined \in 0 .. Slots + N
    BY <1>1, <1>3, <1>5, SlotsAndTargets
  <2>2. spurned \in SUBSET Targets
    BY <1>6 DEF Call
  <2>3. PICK x : x = [c EXCEPT !.examined = examined, !.spurned = spurned]
    OBVIOUS
  <2>4. x \in Call /\ x.examined = examined /\ x.spurned = spurned
    BY <2>1, <2>2, <2>3 DEF Call
  <2> QED
    BY <2>3, <2>4
<1>9. \/ call'[r] = Chosen(Start(r, c, c.candidate), FALSE)
      \/ examined < Slots /\ call'[r] = [refused EXCEPT !.pc = "claim"]
      \/ ~(examined < Slots) /\ call'[r] = Chosen(Start(r, refused, c.first), TRUE)
  BY <1>1, <1>2, <1>5, <1>6, <1>8 DEF Examine, ExamineUpTo
<1>10. CASE call'[r] = Chosen(Start(r, c, c.candidate), FALSE)
  <2>1. call'[r].pc \in {"prepare", "flight"} /\ ~call'[r].fellBack
    <3>1. /\ Chosen(Start(r, c, c.candidate), FALSE).pc \in {"prepare", "flight"}
          /\ Chosen(Start(r, c, c.candidate), FALSE).fellBack = FALSE
      BY ChosenFound
    <3> QED
      BY <1>10, <3>1, Zenon
  <2> QED
    BY <2>1 DEF ClaimInv
<1>11. CASE examined < Slots /\ call'[r] = [refused EXCEPT !.pc = "claim"]
  <2>1. call'[r].pc = "claim" /\ call'[r].spurned = spurned /\ call'[r].examined = examined
    BY <1>8, <1>11 DEF Call
  <2>2. cursor' = 0 \/ cursor' % Slots = (first + examined) % Slots
    <3>1. first + examined = first + c.examined + 1
      BY <1>1, <1>5, SlotsAndTargets
    <3> QED
      BY <1>3, <1>4, <3>1
  <2> QED
    BY <1>4, <1>7, <2>1, <2>2 DEF ClaimInv
<1>12. CASE ~(examined < Slots) /\ call'[r] = Chosen(Start(r, refused, c.first), TRUE)
  <2>1. examined = Slots
    BY <1>1, <1>3, <1>5, <1>12, SlotsAndTargets
  <2>2. call'[r].pc \in {"prepare", "flight"} /\ call'[r].spurned = refused.spurned
    <3>1. PICK target : target = c.first
      OBVIOUS
    <3>2. Chosen(Start(r, refused, target), TRUE).pc \in {"prepare", "flight"}
      BY ChosenRefused
    <3>3. Chosen(Start(r, refused, target), TRUE).spurned = refused.spurned
      BY ChosenRefused
    <3> QED
      BY <1>12, <3>1, <3>2, <3>3
  <2>3. refused.spurned = Targets
    BY <1>7, <1>8, <2>1
  <2> QED
    BY <2>2, <2>3 DEF ClaimInv
<1> QED
  BY <1>9, <1>10, <1>11, <1>12

\* Nothing is found out while a body is buffered.
LEMMA PrepareFollows ==
    ASSUME CallsInv, NEW r \in Requests, ClaimInv(call[r]), Prepare(r)
    PROVE  ClaimInv(call[r])'
<1>1. PICK c \in Call : c = call[r]
  BY DEF CallsInv
<1>2. call \in [Requests -> Call] /\ ClaimInv(c)
  BY <1>1 DEF CallsInv
<1>3. c.pc = "prepare"
  BY <1>1 DEF Prepare
<1>4. (\E error : call'[r] = ReturnError(c, error)) \/ call'[r] = Launch(c, TRUE)
  BY <1>1, <1>2 DEF Prepare
<1>5. CASE \E error : call'[r] = ReturnError(c, error)
  <2>1. call'[r].pc = "done"
    BY <1>5, ErrorFields
  <2> QED
    BY <2>1 DEF ClaimInv
<1>6. CASE call'[r] = Launch(c, TRUE)
  <2>1. /\ call'[r].pc = "flight" /\ call'[r].attempt = c.attempt
        /\ call'[r].spurned = c.spurned /\ call'[r].fellBack = c.fellBack
    BY <1>6, LaunchFields, LaunchKeepsFound
  <2> QED
    BY <1>2, <1>3, <2>1 DEF ClaimInv
<1> QED
  BY <1>4, <1>5, <1>6

\* So every step keeps what is known of the claims, if none is made in between.
LEMMA ClaimsKept ==
    ASSUME SlotsCoverTargets, IInv, ClaimsInv, Unwrapped, Next, Undisturbed
    PROVE  ClaimsInv'
<1>1. SharedInv /\ CallsInv
  BY DEF IInv
<1>2. ASSUME NEW q \in Requests, UNCHANGED call[q]
      PROVE  ClaimInv(call[q])'
  <2>1. ClaimInv(call[q])
    BY DEF ClaimsInv
  <2>2. CASE call[q].pc \in {"claim", "examine"}
    <3>1. UNCHANGED cursor
      BY <1>2, <2>2 DEF Undisturbed
    <3> QED
      BY <1>2, <2>1, <3>1 DEF ClaimInv
  <2>3. CASE call[q].pc \notin {"claim", "examine"}
    BY <1>2, <2>1, <2>3 DEF ClaimInv
  <2> QED
    BY <2>2, <2>3
<1>3. CASE Tick
  <2>1. \A q \in Requests : UNCHANGED call[q]
    BY <1>3 DEF Tick
  <2> QED
    BY <1>2, <2>1 DEF ClaimsInv
<1>4. ASSUME NEW r \in Requests, Proceed(r) \/ Environment(r)
      PROVE  ClaimsInv'
  <2>1. ClaimInv(call[r])
    BY DEF ClaimsInv
  <2>2. ClaimInv(call[r])'
    <3>1. CASE ~Claim(r) /\ ~Examine(r) /\ ~Prepare(r)
      <4>1. Selecting(call[r], call'[r]) /\ UNCHANGED cursor
        BY <1>1, <1>4, <2>1, <3>1, SelectionStays
      <4> QED
        BY <2>1, <4>1 DEF Selecting, ClaimInv
    <3> QED
      BY <1>1, <2>1, <3>1, ClaimFollows, ExamineFollows, PrepareFollows
  <2>3. ASSUME NEW q \in Requests, q # r PROVE UNCHANGED call[q]
    BY <1>1, <1>4, <2>3, OnlyOwn
  <2> QED
    BY <1>2, <2>2, <2>3 DEF ClaimsInv
<1> QED
  BY <1>3, <1>4 DEF Next

LEMMA ClaimsStart == Init => ClaimsInv
<1> SUFFICES ASSUME Init, NEW r \in Requests PROVE ClaimInv(call[r])
  BY DEF ClaimsInv
<1>1. call[r] = NewCall
  BY DEF Init
<1>2. call[r].pc = "new" /\ call[r].spurned = {}
  BY <1>1 DEF NewCall
<1> QED
  BY <1>2 DEF ClaimInv

\* A first attempt falls back to the first claimed target only after a cycle of
\* claims has found every target ejected, as long as no other request claims a
\* slot, and the cursor does not start over, between two of its claims
\* (nextHealthyTargetIndex).
THEOREM FirstFallsBackUndisturbed ==
    ASSUME SlotsCoverTargets
    PROVE  Spec /\ [][Undisturbed]_vars /\ []Unwrapped => []FirstFallsBackLast
<1>1. ASSUME IInv, ClaimsInv, Unwrapped, [Next]_vars, [Undisturbed]_vars
      PROVE  ClaimsInv'
  <2>1. CASE UNCHANGED vars
    BY <1>1, <2>1 DEF vars, ClaimsInv, ClaimInv
  <2>2. CASE Next /\ ~(UNCHANGED vars)
    BY <1>1, <2>2, ClaimsKept
  <2> QED
    BY <1>1, <2>1, <2>2
<1>2. ClaimsInv => FirstFallsBackLast
  BY DEF ClaimsInv, ClaimInv, FirstFallsBackLast
<1> QED
  BY <1>1, <1>2, ClaimsStart, Invariance, PTL DEF Spec

\* A request that has no other next to it is not disturbed.
LEMMA AloneUndisturbed ==
    ASSUME IInv, Next, \A q, r \in Requests : q = r
    PROVE  Undisturbed
<1> SUFFICES ASSUME NEW r \in Requests, UNCHANGED call[r], call[r].pc \in {"claim", "examine"}
             PROVE  UNCHANGED cursor
  BY DEF Undisturbed
<1>1. CASE Claim(r)
  <2>1. PICK c \in Call : c = call[r] /\ call \in [Requests -> Call]
    BY DEF IInv, CallsInv
  <2>2. PICK x, y : call' = [call EXCEPT ![r] = IF ~HasHealth THEN Start(r, c, x)
                               ELSE [c EXCEPT !.pc = "examine", !.candidate = x, !.first = y]]
    BY <1>1, <2>1 DEF Claim
  <2>3. call'[r] = IF ~HasHealth THEN Start(r, c, x)
                   ELSE [c EXCEPT !.pc = "examine", !.candidate = x, !.first = y]
    BY <2>1, <2>2
  <2>4. c.pc = "claim"
    BY <1>1, <2>1 DEF Claim
  <2>5. call'[r].pc \in {"prepare", "flight", "examine"}
    <3>1. CASE HasHealth
      <4>1. call'[r] = [c EXCEPT !.pc = "examine", !.candidate = x, !.first = y]
        BY <2>3, <3>1
      <4> QED
        BY <4>1 DEF Call
    <3>2. CASE ~HasHealth
      <4>1. call'[r] = Start(r, c, x)
        BY <2>3, <3>2
      <4> QED
        BY <4>1, StartFields
    <3> QED
      BY <3>1, <3>2
  <2> QED
    BY <2>1, <2>4, <2>5
<1>2. CASE ~Claim(r)
  <2>1. CASE Tick
    BY <2>1 DEF Tick
  <2>2. CASE Proceed(r) \/ Environment(r)
    BY <1>2, <2>2 DEF Proceed, Environment, Examine, ExamineUpTo, Prepare, Observe, Decide, Reserve,
       ReserveIn, Discard, StartBackoff, Wake, Scan, ScanUpTo, Modify, FinishBody,
       Informational, Stray, Answer, Break, Abort, ClientGone, DeadlineExpires
  <2> QED
    BY <2>1, <2>2 DEF Next
<1> QED
  BY <1>1, <1>2

\* Its first claim is the backend's first one, and it never comes around: the
\* cursor counts its claims.
AloneInv ==
    \A r \in Requests :
        LET c == call[r]
        IN  /\ c.pc = "new" => cursor = 0
            /\ c.pc = "claim" => cursor = c.examined /\ c.examined > 0
            /\ c.pc = "examine" => Slots = 1 \/ cursor = (c.examined + 1) % CursorValues

LEMMA AloneStart == Init => AloneInv
<1> SUFFICES ASSUME Init, NEW r \in Requests
             PROVE  cursor = 0 /\ call[r].pc = "new"
  BY DEF AloneInv
<1> QED
  BY DEF Init, NewCall

\* Every step of its own keeps that, if there are values for a cycle of slots.
LEMMA AloneKept ==
    ASSUME IInv, ClaimsInv, AloneInv, Slots <= CursorValues,
           \A q, r \in Requests : q = r, [Next]_vars
    PROVE  AloneInv'
<1> SUFFICES ASSUME NEW r \in Requests
             PROVE  /\ call'[r].pc = "new" => cursor' = 0
                    /\ call'[r].pc = "claim" => cursor' = call'[r].examined /\ call'[r].examined > 0
                    /\ call'[r].pc = "examine" =>
                         Slots = 1 \/ cursor' = (call'[r].examined + 1) % CursorValues
  BY DEF AloneInv
<1>1. PICK c \in Call : c = call[r] /\ c.examined \in Nat
  BY SlotsAndTargets DEF IInv, CallsInv, Call
<1>2. call \in [Requests -> Call] /\ SelectInv(c) /\ CallsInv /\ ClaimInv(c)
  BY <1>1 DEF IInv, CallsInv, CallInv, ClaimsInv
<1>3. /\ Slots \in Nat /\ Slots > 0 /\ CursorValues \in Nat /\ CursorValues > 0 /\ cursor \in Nat
      /\ cursor < CursorValues
  BY SlotsAndTargets, BackendAssumption DEF IInv, SharedInv
<1>4. /\ c.pc = "new" => cursor = 0
      /\ c.pc = "claim" => cursor = c.examined /\ c.examined > 0
      /\ c.pc = "examine" => Slots = 1 \/ cursor = (c.examined + 1) % CursorValues
  BY <1>1 DEF AloneInv
<1>5. CASE Tick \/ UNCHANGED vars
  BY <1>1, <1>4, <1>5 DEF Tick, vars
<1>6. CASE Claim(r)
  <2>1. PICK x, y : call' = [call EXCEPT ![r] = IF ~HasHealth THEN Start(r, c, x)
                               ELSE [c EXCEPT !.pc = "examine", !.candidate = x, !.first = y]]
    BY <1>1, <1>6 DEF Claim
  <2>2. call'[r] = IF ~HasHealth THEN Start(r, c, x)
                   ELSE [c EXCEPT !.pc = "examine", !.candidate = x, !.first = y]
    BY <1>2, <2>1
  <2>3. CASE HasHealth
    <3>1. call'[r] = [c EXCEPT !.pc = "examine", !.candidate = x, !.first = y]
      BY <2>2, <2>3
    <3>2. call'[r].pc = "examine" /\ call'[r].examined = c.examined
      BY <3>1 DEF Call
    <3>3. c.pc \in {"new", "claim"}
      BY <1>1, <1>6 DEF Claim
    <3>4. cursor = c.examined
      BY <1>2, <1>4, <3>3 DEF SelectInv
    <3>5. Slots = 1 \/ cursor' = (cursor + 1) % CursorValues
      BY <1>6 DEF Claim
    <3> QED
      BY <3>2, <3>4, <3>5
  <2>4. CASE ~HasHealth
    <3>1. call'[r] = Start(r, c, x)
      BY <2>2, <2>4
    <3>2. call'[r].pc \in {"prepare", "flight"}
      BY <3>1, StartFields
    <3> QED
      BY <3>2
  <2> QED
    BY <2>3, <2>4
<1>7. CASE Examine(r)
  <2>1. PICK refused : refused = [c EXCEPT !.examined = @ + 1, !.spurned = @ \union {c.candidate}]
    OBVIOUS
  <2>2. PICK examined \in Nat : examined = c.examined + 1
    BY <1>1
  <2>3. PICK spurned : refused = [c EXCEPT !.examined = examined, !.spurned = spurned]
    BY <2>1, <2>2
  <2>4. refused.examined = examined
    BY <2>3 DEF Call
  <2>5. \/ call'[r] = Chosen(Start(r, c, c.candidate), FALSE)
        \/ examined < Slots /\ call'[r] = [refused EXCEPT !.pc = "claim"]
        \/ call'[r] = Chosen(Start(r, refused, c.first), TRUE)
    <3>1. \/ call'[r] = Chosen(Start(r, c, c.candidate), FALSE)
          \/ refused.examined < Slots /\ call'[r] = [refused EXCEPT !.pc = "claim"]
          \/ call'[r] = Chosen(Start(r, refused, c.first), TRUE)
      BY <1>1, <1>2, <1>7, <2>1 DEF Examine, ExamineUpTo
    <3> QED
      BY <2>4, <3>1
  <2>6. CASE examined < Slots /\ call'[r] = [refused EXCEPT !.pc = "claim"]
    <3>1. call'[r].pc = "claim" /\ call'[r].examined = examined
      BY <2>3, <2>6 DEF Call
    <3>2. c.pc = "examine" /\ cursor' = cursor /\ Slots # 1
      BY <1>1, <1>3, <1>7, <2>2, <2>6 DEF Examine, ExamineUpTo
    <3>3. cursor = examined % CursorValues /\ examined < CursorValues
      BY <1>3, <1>4, <2>2, <2>6, <3>2
    <3>4. cursor = examined
      BY <1>3, <2>2, <3>3
    <3> QED
      BY <1>1, <2>2, <3>1, <3>2, <3>4
  <2>7. CASE call'[r] = Chosen(Start(r, c, c.candidate), FALSE)
    <3>1. Chosen(Start(r, c, c.candidate), FALSE).pc \in {"prepare", "flight"}
      BY ChosenFound
    <3>2. call'[r].pc \in {"prepare", "flight"}
      BY <2>7, <3>1, Zenon
    <3> QED
      BY <3>2
  <2>8. CASE call'[r] = Chosen(Start(r, refused, c.first), TRUE)
    <3>1. call'[r].pc \in {"prepare", "flight"}
      BY <2>3, <2>8 DEF Chosen, Start, Launch, Call
    <3> QED
      BY <3>1
  <2> QED
    BY <2>5, <2>6, <2>7, <2>8
<1>8. CASE Prepare(r)
  <2>1. (\E error : call'[r] = ReturnError(c, error)) \/ call'[r] = Launch(c, TRUE)
    BY <1>1, <1>2, <1>8 DEF Prepare
  <2>2. ASSUME NEW error, call'[r] = ReturnError(c, error) PROVE call'[r].pc = "done"
    BY <2>2, ErrorFields
  <2>3. CASE call'[r] = Launch(c, TRUE)
    BY <2>3, LaunchFields
  <2> QED
    BY <2>1, <2>2, <2>3
<1>9. CASE (Proceed(r) \/ Environment(r)) /\ ~Claim(r) /\ ~Examine(r) /\ ~Prepare(r)
  <2>1. Selecting(call[r], call'[r]) /\ UNCHANGED cursor
    BY <1>1, <1>2, <1>9, SelectionStays
  <2>2. \/ call'[r].pc \notin {"new", "claim", "examine"}
        \/ call'[r].pc = c.pc /\ call'[r].examined = c.examined
    BY <1>1, <2>1 DEF Selecting
  <2> QED
    BY <1>4, <2>1, <2>2
<1>10. \/ Tick \/ UNCHANGED vars \/ Proceed(r) \/ Environment(r)
  BY DEF Next
<1> QED
  BY <1>5, <1>6, <1>7, <1>8, <1>9, <1>10

\* So the cursor does not start over between two claims of such a request.
LEMMA AloneUnwrapped == AloneInv => Unwrapped
BY DEF AloneInv, Unwrapped

-----------------------------------------------------------------------------
(* The records of the targets implement HealthPromise.                     *)

\* What HealthPromise sees of one record, and of all of them.
StreakOf(target) == IF target.until = NoTime THEN target.failures ELSE 0
EndOf(target, now) == IF Ejected(target, now) THEN target.until ELSE NoTime
Streaks == [t \in Targets |-> StreakOf(health[t])]
Ends == [t \in Targets |-> EndOf(health[t], clock)]

\* The constants of a target's health, and what its record can be.
LEMMA RecordFields ==
    ASSUME NEW target \in TargetRecord
    PROVE  /\ Fail \in Nat /\ Fail > 0 /\ Cool \in Nat /\ Cool > 0
           /\ target.failures \in Nat /\ target.until \in Int
           /\ target.until = NoTime \/ target.until \in Nat
           /\ NoTime = -1
BY HealthAssumption DEF TargetRecord, NoTime

\* A look at a target shows HealthPromise nothing new.
LEMMA ExaminedSeen ==
    ASSUME NEW target \in TargetRecord, NEW now \in Nat
    PROVE  /\ StreakOf(Examined(target, now)) = StreakOf(target)
           /\ EndOf(Examined(target, now), now) = EndOf(target, now)
<1>1. CASE target.until # NoTime /\ now >= target.until
  <2>1. Examined(target, now) = Healthy
    BY <1>1 DEF Examined
  <2>2. ~Ejected(target, now)
    BY <1>1, RecordFields DEF Ejected
  <2>3. StreakOf(Healthy) = 0 /\ EndOf(Healthy, now) = NoTime
    BY DEF StreakOf, EndOf, Healthy, Ejected
  <2> QED
    BY <1>1, <2>1, <2>2, <2>3 DEF StreakOf, EndOf
<1>2. CASE ~(target.until # NoTime /\ now >= target.until)
  BY <1>2 DEF Examined
<1> QED
  BY <1>1, <1>2

\* A failure prolongs an ejection, or counts, or ejects.
LEMMA FailedSeen ==
    ASSUME NEW target \in TargetRecord, NEW now \in Nat
    PROVE  \/ /\ EndOf(target, now) # NoTime
              /\ EndOf(Failed(target, now), now) = EndOf(target, now) + Cool
              /\ StreakOf(Failed(target, now)) = StreakOf(target)
           \/ /\ EndOf(target, now) = NoTime
              /\ StreakOf(target) + 1 < Fail
              /\ EndOf(Failed(target, now), now) = NoTime
              /\ StreakOf(Failed(target, now)) = StreakOf(target) + 1
           \/ /\ EndOf(target, now) = NoTime
              /\ StreakOf(target) + 1 >= Fail
              /\ EndOf(Failed(target, now), now) = now + Cool
              /\ StreakOf(Failed(target, now)) = 0
<1>1. CASE Ejected(target, now)
  <2>1. target.until \in Nat /\ now < target.until /\ Cool \in Nat
    BY <1>1, RecordFields DEF Ejected
  <2>2. PICK until \in Nat : until = target.until + Cool
    BY <2>1
  <2>3. Failed(target, now) = [target EXCEPT !.until = until]
    BY <1>1, <2>2 DEF Failed
  <2>4. Failed(target, now).until = until /\ until # NoTime /\ now < until
    BY <2>1, <2>2, <2>3 DEF TargetRecord, NoTime
  <2>5. EndOf(Failed(target, now), now) = until /\ StreakOf(Failed(target, now)) = 0
    BY <2>4 DEF EndOf, StreakOf, Ejected
  <2>6. EndOf(target, now) = target.until /\ StreakOf(target) = 0 /\ target.until # NoTime
    BY <1>1 DEF EndOf, StreakOf, Ejected
  <2> QED
    BY <2>2, <2>5, <2>6
<1>2. CASE ~Ejected(target, now)
  <2>1. PICK failures : failures = Examined(target, now).failures + 1
    OBVIOUS
  <2>2. StreakOf(target) + 1 = failures /\ failures \in Nat
    <3>1. CASE target.until = NoTime
      <4>1. Examined(target, now) = target
        BY <3>1 DEF Examined
      <4> QED
        BY <2>1, <3>1, <4>1, RecordFields DEF StreakOf
    <3>2. CASE target.until # NoTime
      <4>1. now >= target.until
        BY <1>2, <3>2, RecordFields DEF Ejected
      <4>2. Examined(target, now) = Healthy
        BY <3>2, <4>1 DEF Examined
      <4> QED
        BY <2>1, <3>2, <4>2 DEF StreakOf, Healthy
    <3> QED
      BY <3>1, <3>2
  <2>3. EndOf(target, now) = NoTime
    BY <1>2 DEF EndOf
  <2>4. Failed(target, now) = IF failures >= Fail
                              THEN [failures |-> 0, until |-> now + Cool]
                              ELSE [failures |-> failures, until |-> NoTime]
    BY <1>2, <2>1 DEF Failed
  <2>5. CASE failures >= Fail
    <3>1. now + Cool \in Nat /\ now < now + Cool /\ now + Cool # NoTime
      BY RecordFields
    <3>2. Failed(target, now) = [failures |-> 0, until |-> now + Cool]
      BY <2>4, <2>5
    <3>3. EndOf(Failed(target, now), now) = now + Cool /\ StreakOf(Failed(target, now)) = 0
      BY <3>1, <3>2 DEF EndOf, StreakOf, Ejected
    <3> QED
      BY <2>2, <2>3, <2>5, <3>3
  <2>6. CASE ~(failures >= Fail)
    <3>1. Failed(target, now) = [failures |-> failures, until |-> NoTime]
      BY <2>4, <2>6
    <3>2. EndOf(Failed(target, now), now) = NoTime /\ StreakOf(Failed(target, now)) = failures
      BY <3>1 DEF EndOf, StreakOf, Ejected
    <3>3. failures < Fail
      BY <2>2, <2>6, RecordFields
    <3> QED
      BY <2>2, <2>3, <3>2, <3>3
  <2> QED
    BY <2>5, <2>6
<1> QED
  BY <1>1, <1>2

\* Whoever leaves one of these records behind takes a step that HealthPromise
\* allows, or one that it does not see.
LEMMA RecordRefines ==
    ASSUME SharedInv, NEW t \in Targets, NEW record \in TargetRecord,
           record \in {health[t], Healthy, Examined(health[t], clock), Failed(health[t], clock)},
           health' = [health EXCEPT ![t] = record], clock' = clock
    PROVE  Promise!Next \/ UNCHANGED <<clock, Streaks, Ends>>
<1>1. health[t] \in TargetRecord /\ clock \in Nat /\ health \in [Targets -> TargetRecord]
  BY DEF SharedInv
<1>2. /\ Streaks' = [Streaks EXCEPT ![t] = StreakOf(record)]
      /\ Ends' = [Ends EXCEPT ![t] = EndOf(record, clock)]
  <2>1. \A u \in Targets : health'[u] = IF u = t THEN record ELSE health[u]
    BY <1>1
  <2>2. Streaks' = [u \in Targets |-> StreakOf(health'[u])]
    BY DEF Streaks, StreakOf
  <2>3. Ends' = [u \in Targets |-> EndOf(health'[u], clock)]
    BY DEF Ends, EndOf, Ejected
  <2>4. /\ \A u \in Targets : StreakOf(health'[u]) = IF u = t THEN StreakOf(record) ELSE Streaks[u]
        /\ \A u \in Targets : EndOf(health'[u], clock) = IF u = t THEN EndOf(record, clock) ELSE Ends[u]
    BY <2>1 DEF Streaks, Ends
  <2>5. /\ Streaks = [u \in Targets |-> Streaks[u]]
        /\ Ends = [u \in Targets |-> Ends[u]]
    BY DEF Streaks, Ends
  <2>6. Streaks' = [Streaks EXCEPT ![t] = StreakOf(record)]
    BY <2>2, <2>4, <2>5
  <2>7. Ends' = [Ends EXCEPT ![t] = EndOf(record, clock)]
    BY <2>3, <2>4, <2>5
  <2> QED
    BY <2>6, <2>7
<1>3. Streaks[t] = StreakOf(health[t]) /\ Ends[t] = EndOf(health[t], clock)
  BY DEF Streaks, Ends
<1>4. /\ Streaks = [u \in Targets |-> IF health[u].until = NoTime THEN health[u].failures ELSE 0]
      /\ Ends = [u \in Targets |-> IF Ejected(health[u], clock) THEN health[u].until ELSE NoTime]
  BY DEF Streaks, Ends, StreakOf, EndOf
<1>5. CASE record = health[t] \/ record = Examined(health[t], clock)
  <2>1. StreakOf(record) = Streaks[t] /\ EndOf(record, clock) = Ends[t]
    BY <1>1, <1>3, <1>5, ExaminedSeen
  <2> QED
    BY <1>2, <2>1 DEF Streaks, Ends
<1>6. CASE record = Healthy
  <2>1. StreakOf(record) = 0 /\ EndOf(record, clock) = -1
    BY <1>6 DEF StreakOf, EndOf, Healthy, Ejected, NoTime
  <2>2. Promise!Respond(t)
    BY <1>2, <1>4, <2>1 DEF Promise!Respond, Streaks, Ends, StreakOf, EndOf
  <2> QED
    BY <2>2 DEF Promise!Next
<1>7. CASE record = Failed(health[t], clock)
  <2>1. \/ /\ Ends[t] # -1 /\ EndOf(record, clock) = Ends[t] + Cool
           /\ StreakOf(record) = Streaks[t]
        \/ /\ Ends[t] = -1 /\ Streaks[t] + 1 < Fail
           /\ EndOf(record, clock) = -1 /\ StreakOf(record) = Streaks[t] + 1
        \/ /\ Ends[t] = -1 /\ Streaks[t] + 1 >= Fail
           /\ EndOf(record, clock) = clock + Cool /\ StreakOf(record) = 0
    BY <1>1, <1>3, <1>7, FailedSeen DEF NoTime
  <2>2. CASE Ends[t] # -1 /\ EndOf(record, clock) = Ends[t] + Cool /\ StreakOf(record) = Streaks[t]
    <3>1. Streaks' = Streaks /\ Ends' = [Ends EXCEPT ![t] = Ends[t] + Cool]
      BY <1>2, <2>2 DEF Streaks
    <3>2. Promise!ProlongEjection(t)
      BY <2>2, <3>1 DEF Promise!ProlongEjection, Streaks, Ends, StreakOf, EndOf
    <3> QED
      BY <3>2 DEF Promise!Next
  <2>3. CASE /\ Ends[t] = -1 /\ Streaks[t] + 1 < Fail
             /\ EndOf(record, clock) = -1 /\ StreakOf(record) = Streaks[t] + 1
    <3>1. Ends' = Ends /\ Streaks' = [Streaks EXCEPT ![t] = Streaks[t] + 1]
      BY <1>2, <2>3 DEF Ends
    <3>2. Promise!CountFailure(t)
      BY <2>3, <3>1 DEF Promise!CountFailure, Streaks, Ends, StreakOf, EndOf
    <3> QED
      BY <3>2 DEF Promise!Next
  <2>4. CASE /\ Ends[t] = -1 /\ Streaks[t] + 1 >= Fail
             /\ EndOf(record, clock) = clock + Cool /\ StreakOf(record) = 0
    <3>1. Promise!Eject(t)
      BY <1>2, <2>4 DEF Promise!Eject, Streaks, Ends, StreakOf, EndOf
    <3> QED
      BY <3>1 DEF Promise!Next
  <2> QED
    BY <2>1, <2>2, <2>3, <2>4
<1> QED
  BY <1>5, <1>6, <1>7

\* Time ends the ejections that it reaches, whether anybody looks or not.
LEMMA TickRefines ==
    ASSUME SharedInv, Tick
    PROVE  Promise!Next
<1>1. clock \in Nat /\ clock' = clock + 1 /\ health' = health
  BY DEF SharedInv, Tick
<1>2. Streaks' = Streaks
  BY <1>1 DEF Streaks, StreakOf
<1>3. ASSUME NEW t \in Targets
      PROVE  EndOf(health[t], clock + 1) = IF Ends[t] <= clock + 1 THEN -1 ELSE Ends[t]
  <2>1. health[t] \in TargetRecord
    BY DEF SharedInv
  <2>2. Ends[t] = EndOf(health[t], clock)
    BY DEF Ends
  <2> QED
    BY <1>1, <2>1, <2>2, RecordFields DEF EndOf, Ejected
<1>4. Ends' = [t \in Targets |-> EndOf(health[t], clock + 1)]
  BY <1>1 DEF Ends, EndOf, Ejected
<1>5. Ends' = [t \in Targets |-> IF Ends[t] <= clock + 1 THEN -1 ELSE Ends[t]]
  BY <1>3, <1>4
<1>6. Promise!Advance
  BY <1>1, <1>2, <1>5 DEF Promise!Advance, Streaks, Ends, StreakOf, EndOf
<1> QED
  BY <1>6 DEF Promise!Next

\* Every step of a backend is a step of HealthPromise or shows it nothing.
LEMMA StepRefines ==
    ASSUME IInv, [Next]_vars
    PROVE  Promise!Next \/ UNCHANGED <<clock, Streaks, Ends>>
<1>1. SharedInv /\ CallsInv
  BY DEF IInv
<1>2. ASSUME health' = health, clock' = clock
      PROVE  UNCHANGED <<clock, Streaks, Ends>>
  BY <1>2 DEF Streaks, Ends, StreakOf, EndOf, Ejected
<1>3. CASE UNCHANGED vars
  BY <1>2, <1>3 DEF vars
<1>4. CASE Tick
  BY <1>1, <1>4, TickRefines
<1>5. ASSUME NEW r \in Requests, LookAt(r), call[r].candidate \in Targets, clock' = clock
      PROVE  Promise!Next \/ UNCHANGED <<clock, Streaks, Ends>>
  <2>1. PICK t \in Targets : t = call[r].candidate
    BY <1>5
  <2>2. PICK record : record = Examined(health[t], clock)
    OBVIOUS
  <2>3. record \in TargetRecord
    BY <1>1, <2>2, RecordType DEF SharedInv
  <2>4. health' = [health EXCEPT ![t] = record]
    BY <1>5, <2>1, <2>2 DEF LookAt
  <2> QED
    BY <1>1, <1>5, <2>2, <2>3, <2>4, RecordRefines
<1>6. ASSUME NEW r \in Requests, call[r].target \in Targets, clock' = clock,
             health' = [health EXCEPT ![call[r].target] =
                          IF call[r].informational \/ Answered(r) THEN Healthy
                          ELSE IF Ended(r) THEN @ ELSE Failed(@, clock)]
      PROVE  Promise!Next \/ UNCHANGED <<clock, Streaks, Ends>>
  <2>1. PICK t \in Targets : t = call[r].target
    BY <1>6
  <2>2. PICK record : record = IF call[r].informational \/ Answered(r) THEN Healthy
                               ELSE IF Ended(r) THEN health[t] ELSE Failed(health[t], clock)
    OBVIOUS
  <2>3. record \in TargetRecord /\ record \in {health[t], Healthy, Failed(health[t], clock)}
    BY <1>1, <2>2, RecordType DEF SharedInv
  <2>4. health' = [health EXCEPT ![t] = record]
    BY <1>6, <2>1, <2>2
  <2> QED
    BY <1>1, <1>6, <2>3, <2>4, RecordRefines
<1>7. CASE Next /\ ~Tick
  <2>1. clock' = clock
    BY <1>1, <1>7, BudgetSteps
  <2> QED
    BY <1>1, <1>2, <1>5, <1>6, <1>7, <2>1, HealthSteps
<1> QED
  BY <1>3, <1>4, <1>7

\* A backend starts where HealthPromise does.
LEMMA InitRefines == Init => Promise!Init
BY DEF Init, Promise!Init, Healthy, Ejected, NoTime

\* The mapped variables are those of the refinement mapping.
LEMMA Mapped == UNCHANGED <<clock, Streaks, Ends>> => UNCHANGED Promise!vars
BY DEF Promise!vars, Streaks, Ends, StreakOf, EndOf

\* The records keep what HealthPromise promises of each target: the lazy end of
\* an ejection, and whoever looks and observes in between, cannot be told from
\* an ejection that ends by itself.
THEOREM HealthIsKept == Spec => ImplementsHealthPromise
<1>1. ASSUME IInv, [Next]_vars PROVE [Promise!Next]_(Promise!vars)
  BY <1>1, StepRefines, Mapped
<1> QED
  BY <1>1, InitRefines, Invariance, PTL DEF Spec, ImplementsHealthPromise, Promise!Spec

-----------------------------------------------------------------------------
(* Which responses the client gets.                                        *)

\* An error is handed out as an error;
LEMMA ErrorResult ==
    ASSUME NEW c \in Call, NEW x, x # "response"
    PROVE  ReturnError(c, x).result # "response" /\ ReturnError(GivenUp(c), x).result # "response"
<1>1. ReturnError(c, x).result # "response"
  BY DEF ReturnError, NewCall, Call
<1>2. ReturnError(GivenUp(c), x).result # "response"
  <2>1. GivenUp(c).context = c.context /\ c.context # "response"
    BY DEF GivenUp, Call
  <2> QED
    BY <2>1 DEF ReturnError, NewCall
<1> QED
  BY <1>1, <1>2

\* what begins an attempt hands out nothing,
LEMMA StartResult ==
    ASSUME NEW r, NEW c \in Call, NEW x
    PROVE  Start(r, c, x).result = c.result
BY DEF Start, Launch, Call

\* and no more does what leads to the next one.
LEMMA NextResult ==
    ASSUME NEW c \in Call
    PROVE  /\ NextAttempt(c).result = c.result /\ Admitted(c).result = c.result
           /\ Launch(c, TRUE).result = c.result
BY DEF NextAttempt, Send, Admitted, Launch, Call

\* Where statuses are listed, Decide and Reserve alone hand out a response.
LEMMA WhoResponds ==
    ASSUME CallsInv, HasRetry, NEW r \in Requests, r \in Eligible,
           Proceed(r) \/ Environment(r),
           call[r].result = "none", call'[r].result = "response"
    PROVE  Decide(r) \/ Reserve(r)
<1>1. PICK c \in Call : c = call[r] /\ c.result # "response"
  BY DEF CallsInv
<1>2. call \in [Requests -> Call] /\ c.context # "response"
  BY DEF CallsInv, Call
<1> DEFINE d == call'[r]
<1>3. d.result = "response" /\ c.result = "none"
  BY <1>1
<1>4. ASSUME Claim(r) PROVE FALSE
  <2>1. PICK x, y : call' = [call EXCEPT ![r] = IF ~HasHealth THEN Start(r, c, x)
                               ELSE [c EXCEPT !.pc = "examine", !.candidate = x, !.first = y]]
    BY <1>1, <1>4 DEF Claim
  <2>2. d = IF ~HasHealth THEN Start(r, c, x)
            ELSE [c EXCEPT !.pc = "examine", !.candidate = x, !.first = y]
    BY <1>2, <2>1
  <2>3. CASE HasHealth
    <3>1. d = [c EXCEPT !.pc = "examine", !.candidate = x, !.first = y]
      BY <2>2, <2>3
    <3> QED
      BY <1>1, <1>3, <3>1 DEF Call
  <2>4. CASE ~HasHealth
    <3>1. d = Start(r, c, x)
      BY <2>2, <2>4
    <3> HIDE DEF d
    <3> QED
      BY <1>1, <1>3, <3>1, StartResult
  <2> QED
    BY <2>3, <2>4
<1>5. ASSUME Examine(r) \/ Scan(r) PROVE FALSE
  <2>1. PICK refused : refused = [c EXCEPT !.examined = @ + 1, !.spurned = @ \union {c.candidate}]
    OBVIOUS
  <2>2. PICK x, y : \/ d = Chosen(Start(r, c, x), FALSE)
                    \/ d = [refused EXCEPT !.pc = "claim"]
                    \/ d = Chosen(Start(r, refused, x), TRUE)
                    \/ d = Chosen(Send(c, x), FALSE)
                    \/ d = [refused EXCEPT !.candidate = y]
                    \/ d = Chosen(Send(refused, x), TRUE)
    <3>1. CASE Examine(r)
      BY <1>1, <1>2, <2>1, <3>1 DEF Examine, ExamineUpTo
    <3>2. CASE Scan(r)
      BY <1>1, <1>2, <2>1, <3>2 DEF Scan, ScanUpTo
    <3> QED
      BY <1>5, <3>1, <3>2
  <2>3. PICK examined, spurned : refused = [c EXCEPT !.examined = examined, !.spurned = spurned]
    BY <2>1
  <2>4. CASE d = Chosen(Start(r, c, x), FALSE) \/ d = Chosen(Send(c, x), FALSE)
    BY <1>1, <1>3, <2>4 DEF Chosen, Start, Launch, Send, Call
  <2>5. CASE d = [refused EXCEPT !.pc = "claim"] \/ d = [refused EXCEPT !.candidate = y]
    BY <1>1, <1>3, <2>3, <2>5 DEF Call
  <2>6. CASE d = Chosen(Start(r, refused, x), TRUE)
    BY <1>1, <1>3, <2>3, <2>6 DEF Chosen, Start, Launch, Call
  <2>7. CASE d = Chosen(Send(refused, x), TRUE)
    BY <1>1, <1>3, <2>3, <2>7 DEF Chosen, Send, Call
  <2> QED
    BY <2>2, <2>4, <2>5, <2>6, <2>7
<1>6. ASSUME Prepare(r) PROVE FALSE
  <2>1. (\E error : error # "response" /\ d = ReturnError(c, error)) \/ d = Launch(c, TRUE)
    <3>1. \A error \in IF Ended(r) THEN {c.context} ELSE {"tooLarge", "unreadable"} : error # "response"
      BY <1>2
    <3>2. \/ \E error \in IF Ended(r) THEN {c.context} ELSE {"tooLarge", "unreadable"} :
               call' = [call EXCEPT ![r] = ReturnError(c, error)]
          \/ call' = [call EXCEPT ![r] = Launch(c, TRUE)]
      BY <1>1, <1>6 DEF Prepare
    <3> QED
      BY <1>2, <3>1, <3>2
  <2> HIDE DEF d
  <2>2. CASE \E error : error # "response" /\ d = ReturnError(c, error)
    BY <1>3, <2>2, ErrorResult, NextResult
  <2>3. CASE d = Launch(c, TRUE)
    BY <1>1, <1>3, <2>3, ErrorResult, NextResult
  <2> QED
    BY <2>1, <2>2, <2>3
<1>7. ASSUME Observe(r) \/ Environment(r) PROVE FALSE
  <2>1. d.result = c.result
    <3>1. CASE Observe(r)
      BY <1>1, <1>2, <3>1 DEF Observe, Call
    <3>2. CASE Answer(r)
      BY <1>1, <1>2, <3>2 DEF Answer, Call
    <3>3. CASE Break(r)
      BY <1>1, <1>2, <3>3 DEF Break, Call
    <3>4. CASE Abort(r) \/ DeadlineExpires(r)
      BY <1>1, <1>2, <3>4 DEF Abort, DeadlineExpires, Call
    <3>5. CASE Informational(r)
      BY <1>1, <1>2, <3>5 DEF Informational, Call
    <3>6. CASE Stray(r)
      BY <1>1, <1>2, <3>6 DEF Stray, Call
    <3>7. CASE ClientGone(r)
      BY <1>1, <1>2, <3>7 DEF ClientGone, Call
    <3> QED
      BY <1>7, <3>1, <3>2, <3>3, <3>4, <3>5, <3>6, <3>7 DEF Environment
  <2> QED
    BY <1>1, <1>3, <2>1
<1>8. ASSUME Discard(r) PROVE FALSE
  <2>1. \/ d = [GivenUp(c) EXCEPT !.pc = "backoff"]
        \/ d = ReturnError(GivenUp(c), c.context)
    <3>1. GivenUp(c).context = c.context
      BY DEF GivenUp, Call
    <3> QED
      BY <1>1, <1>2, <1>8, <3>1 DEF Discard, GivenUp
  <2>2. CASE d = [GivenUp(c) EXCEPT !.pc = "backoff"]
    BY <1>1, <1>3, <2>2 DEF GivenUp, Call
  <2> HIDE DEF d
  <2>3. CASE d = ReturnError(GivenUp(c), c.context)
    BY <1>2, <1>3, <2>3, ErrorResult, NextResult
  <2> QED
    BY <2>1, <2>2, <2>3
<1>9. ASSUME StartBackoff(r) \/ Wake(r) PROVE FALSE
  <2>1. \/ d = NextAttempt(c) \/ d = ReturnError(c, c.context)
        \/ \E timer : d = [c EXCEPT !.pc = "wait", !.timer = timer]
    BY <1>1, <1>2, <1>9 DEF StartBackoff, Wake, Resume
  <2>2. CASE \E timer : d = [c EXCEPT !.pc = "wait", !.timer = timer]
    BY <1>1, <1>3, <2>2 DEF Call
  <2> HIDE DEF d
  <2>3. CASE d = NextAttempt(c)
    BY <1>1, <1>3, <2>3, ErrorResult, NextResult
  <2>4. CASE d = ReturnError(c, c.context)
    BY <1>2, <1>3, <2>4, ErrorResult, NextResult
  <2> QED
    BY <2>1, <2>2, <2>3, <2>4
<1>10. ASSUME Modify(r) \/ FinishBody(r) PROVE FALSE
  <2>1. c.pc \in {"modify", "body"}
    BY <1>1, <1>10 DEF Modify, FinishBody
  <2>2. c.result = "response"
    BY <1>1, <2>1 DEF CallsInv, CallInv, ContextInv
  <2> QED
    BY <1>1, <2>2
<1> QED
  BY <1>4, <1>5, <1>6, <1>7, <1>8, <1>9, <1>10 DEF Proceed

\* Both hand out a matching response only when no retry is left to make.
LEMMA NoRetryLeft ==
    ASSUME IInv, HasRetry, NEW r \in Requests, r \in Eligible, Decide(r) \/ Reserve(r),
           call[r].result = "none", call'[r].result = "response", call[r].reply = "match"
    PROVE  \/ Last(r) \/ call[r].informational
           \/ BudgetMax > 0 /\ budget.used = BudgetMax /\ clock - budget.started < BudgetWindow
<1>1. PICK c \in Call : c = call[r] /\ c.result = "none" /\ c.reply = "match"
  BY DEF IInv, CallsInv
<1>2. /\ call \in [Requests -> Call] /\ c.context # "response" /\ CallsInv
      /\ budget \in [started : Nat \union {NoTime}, used : 0 .. BudgetMax] /\ clock \in Nat
  BY DEF IInv, CallsInv, Call, BudgetInv, SharedInv
<1>3. Answered(r) /\ call'[r].result = "response"
  BY <1>1 DEF Answered, Responses
<1>4. CASE Decide(r) /\ ~Last(r) /\ ~call[r].informational
  <2>1. call'[r] = DecideStatus(r)
    BY <1>2, <1>4 DEF Decide
  <2>2. call'[r] = ReturnError(GivenUp(c), c.context) \/ call'[r] = [c EXCEPT !.pc = "reserve"]
    BY <1>1, <1>3, <1>4, <2>1 DEF DecideStatus, GivenUp
  <2>3. CASE call'[r] = ReturnError(GivenUp(c), c.context)
    BY <1>2, <1>3, <2>3, ErrorResult, NextResult
  <2>4. CASE call'[r] = [c EXCEPT !.pc = "reserve"]
    <3>1. call'[r].result = "none"
      BY <1>1, <2>4 DEF Call
    <3> QED
      BY <1>3, <3>1
  <2> QED
    BY <2>2, <2>3, <2>4
<1>5. CASE Reserve(r)
  <2>1. ASSUME call' = [call EXCEPT ![r] = Admitted(c)] PROVE FALSE
    <3>1. call'[r] = Admitted(c)
      BY <1>2, <2>1
    <3>2. Admitted(c).result = c.result
      BY ErrorResult, NextResult
    <3> QED
      BY <1>1, <1>3, <3>1, <3>2
  <2>2. CASE BudgetMax = 0
    BY <1>1, <1>5, <2>1, <2>2 DEF Reserve, ReserveIn
  <2>3. CASE BudgetMax > 0 /\ Ended(r)
    <3>1. call'[r] = ReturnError(GivenUp(c), c.context)
      BY <1>1, <1>2, <1>5, <2>3 DEF Reserve, ReserveIn, GivenUp
    <3> QED
      BY <1>2, <1>3, <3>1, ErrorResult, NextResult
  <2>4. CASE BudgetMax > 0 /\ ~Ended(r) /\ Window.used >= BudgetMax
    <3>1. Window = budget /\ budget.used \in 0 .. BudgetMax /\ BudgetMax \in Nat
      BY <1>2, <2>4, BackendAssumption DEF Window
    <3>2. budget.started # NoTime /\ ~(clock - budget.started >= BudgetWindow)
      BY <1>2, <2>4, BackendAssumption DEF Window
    <3>3. budget.started \in Nat /\ BudgetWindow \in Nat
      BY <1>2, <2>4, <3>2, BackendAssumption
    <3> QED
      BY <1>2, <2>4, <3>1, <3>2, <3>3
  <2>5. CASE BudgetMax > 0 /\ ~Ended(r) /\ ~(Window.used >= BudgetMax)
    BY <1>1, <1>5, <2>1, <2>5 DEF Reserve, ReserveIn
  <2> QED
    BY <2>2, <2>3, <2>4, <2>5, BackendAssumption
<1> QED
  BY <1>4, <1>5

\* A response whose status is listed is retried as long as a retry is left.
THEOREM MatchesAreRetried ==
    ASSUME HasRetry
    PROVE  Spec => MatchingResponsesAreRetried
<1>1. ASSUME IInv, [Next]_vars, NEW r \in Requests, r \in Eligible,
             call[r].result = "none", call'[r].result = "response", call[r].reply = "match"
      PROVE  \/ Last(r) \/ call[r].informational
             \/ BudgetMax > 0 /\ budget.used = BudgetMax /\ clock - budget.started < BudgetWindow
  <2>1. CallsInv
    BY <1>1 DEF IInv
  <2>2. call'[r] # call[r]
    BY <1>1
  <2>3. Proceed(r) \/ Environment(r)
    <3>1. CASE Tick \/ UNCHANGED vars
      BY <2>2, <3>1 DEF Tick, vars
    <3>2. ASSUME NEW q \in Requests, Proceed(q) \/ Environment(q), q # r PROVE FALSE
      BY <2>1, <2>2, <3>2, OnlyOwn
    <3> QED
      BY <1>1, <3>1, <3>2 DEF Next
  <2>4. Decide(r) \/ Reserve(r)
    BY <1>1, <2>1, <2>3, WhoResponds
  <2> QED
    BY <1>1, <2>4, NoRetryLeft
<1>2. ASSUME IInv, [Next]_vars
      PROVE  [\A r \in Requests :
                call[r].result = "none" /\ call'[r].result = "response" /\ call[r].reply = "match"
                  /\ r \in Eligible
                => \/ Last(r)
                   \/ call[r].informational
                   \/ BudgetMax > 0 /\ budget.used = BudgetMax
                        /\ clock - budget.started < BudgetWindow]_call
  BY <1>1, <1>2
<1> QED
  BY <1>2, Invariance, PTL DEF Spec, MatchingResponsesAreRetried
=============================================================================
