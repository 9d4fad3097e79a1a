----------------------------- MODULE DirectBody -----------------------------
(***************************************************************************)
(* The response body of a direct target with a body timeout (directBody in *)
(* proxy.go): its construction and use by the reverse proxy, its timer and *)
(* the callback of the request context, any of which may finalize it.      *)
(*                                                                         *)
(* Sections under the body's mutex are one step, so are single reads of    *)
(* the context.  newDirectBody stores the handles of the timer and of the  *)
(* callback without the mutex, after both may be running; and finalize     *)
(* stops them and closes the wrapped body after it has released it.        *)
(***************************************************************************)
EXTENDS Naturals

CONSTANTS Chunks   \* how many times the upstream body yields data

ASSUME ChunksAssumption == Chunks \in Nat

Actors == {"proxy", "timer", "callback"}

\* What can end a body; "nil" is the cause of a normal Close.  "closedRead" is
\* what a read of a closed wrapped body returns.
Errors == {"canceled", "deadline", "eof", "failed", "closedRead", "readAfterClose"}

\* Where a goroutine can stand.
Labels == {"idle", "expire", "close", "release", "done", "arm", "storeTimer", "register",
           "storeStop", "check", "recheck", "reject", "handle", "copy", "reading",
           "verify", "confirm", "fail", "tell", "write", "finish"}

VARIABLES
    body,    \* directBody's closed and cause; are its timer and stopCtx set?
    timer,   \* the time.Timer: "off", "armed", "stopped" or "fired"
    watch,   \* the callback's registration: "off", "armed", "stopped", "fired"
    gone,    \* the request context has ended, with context.Canceled
    pc,      \* where each goroutine stands
    after,   \* where it goes when finalize returns
    duty,    \* what it still has to undo in finalize
    error,   \* the error that the reverse proxy's goroutine carries
    told,    \* what its copy loop or its ErrorHandler was told
    chunks,  \* how often data has been read
    closes   \* how often the wrapped body has been closed

vars == <<body, timer, watch, gone, pc, after, duty, error, told, chunks, closes>>

Init ==
    /\ body = [closed |-> FALSE, cause |-> "nil", timer |-> FALSE, stop |-> FALSE]
    /\ timer = "off" /\ watch = "off" /\ gone = FALSE
    /\ pc = [a \in Actors |-> IF a = "proxy" THEN "arm" ELSE "idle"]
    /\ after = [a \in Actors |-> "done"]
    /\ duty = [a \in Actors |-> {}]
    /\ error = "nil" /\ told = "nil" /\ chunks = 0 /\ closes = 0

-----------------------------------------------------------------------------
(* finalize.                                                               *)

\* Mutation of Duties: it returns early when there is no callback to stop.
DutiesUpToContext(b) ==
    (IF b.timer THEN {"timer"} ELSE {}) \union (IF b.stop THEN {"context", "body"} ELSE {})

\* Mutation of Duties: the timer is left alone when the client is gone.
DutiesOfTheLiving(b) ==
    (IF b.timer /\ ~gone THEN {"timer"} ELSE {})
        \union (IF b.stop THEN {"context"} ELSE {}) \union {"body"}

\* What the one that finalizes the body has to undo after it has unlocked it.
Duties(b) ==
    (IF b.timer THEN {"timer"} ELSE {}) \union (IF b.stop THEN {"context"} ELSE {})
        \union {"body"}

\* Mutation of Cause: the context is not asked again.
DefaultCause(default) == default

Cause(default) == IF gone THEN "canceled" ELSE default

\* What finalize returns.
Returned(default) ==
    IF ~body.closed THEN Cause(default)
    ELSE IF body.cause = "nil" THEN default ELSE body.cause

\* Mutation of Finalize: it does not ask whether the body is finalized.
FinalizeAgain(a, default, next) ==
    /\ body' = [closed |-> TRUE, cause |-> Cause(default), timer |-> FALSE, stop |-> FALSE]
    /\ duty' = [duty EXCEPT ![a] = Duties(body)]
    /\ pc' = [pc EXCEPT ![a] = "release"]
    /\ after' = [after EXCEPT ![a] = next]

\* The locked part.  The first one takes the handles and goes on to undo them.
Finalize(a, default, next) ==
    IF body.closed
    THEN pc' = [pc EXCEPT ![a] = next] /\ UNCHANGED <<body, duty, after>>
    ELSE /\ body' = [closed |-> TRUE, cause |-> Cause(default),
                     timer |-> FALSE, stop |-> FALSE]
         /\ duty' = [duty EXCEPT ![a] = Duties(body)]
         /\ pc' = [pc EXCEPT ![a] = "release"]
         /\ after' = [after EXCEPT ![a] = next]

\* Stop does nothing once the timer has fired.
StopTimer(a) ==
    /\ "timer" \in duty[a]
    /\ timer' = IF timer = "armed" THEN "stopped" ELSE timer
    /\ duty' = [duty EXCEPT ![a] = @ \ {"timer"}]
    /\ UNCHANGED <<body, watch, gone, pc, after, error, told, chunks, closes>>

StopContext(a) ==
    /\ "context" \in duty[a] /\ "timer" \notin duty[a]
    /\ watch' = IF watch = "armed" THEN "stopped" ELSE watch
    /\ duty' = [duty EXCEPT ![a] = @ \ {"context"}]
    /\ UNCHANGED <<body, timer, gone, pc, after, error, told, chunks, closes>>

\* finalize returns after this.
CloseBody(a) ==
    /\ duty[a] = {"body"}
    /\ closes' = closes + 1
    /\ duty' = [duty EXCEPT ![a] = {}]
    /\ pc' = [pc EXCEPT ![a] = after[a]]
    /\ UNCHANGED <<body, timer, watch, gone, after, error, told, chunks>>

-----------------------------------------------------------------------------
(* The timer and the callback.                                             *)

\* Mutation of Expire: a timer whose handle is not stored yet is ignored.
ExpireStored ==
    /\ timer = "armed"
    /\ timer' = "fired"
    /\ pc' = [pc EXCEPT !["timer"] = IF body.timer THEN "expire" ELSE "done"]
    /\ UNCHANGED <<body, watch, gone, after, duty, error, told, chunks, closes>>

Expire ==
    /\ timer = "armed"
    /\ timer' = "fired"
    /\ pc' = [pc EXCEPT !["timer"] = "expire"]
    /\ UNCHANGED <<body, watch, gone, after, duty, error, told, chunks, closes>>

\* expire.
ExpireBody ==
    /\ pc["timer"] = "expire"
    /\ Finalize("timer", "deadline", "done")
    /\ UNCHANGED <<timer, watch, gone, error, told, chunks, closes>>

\* The context's error is set before its callbacks are started.
ClientGone ==
    /\ ~gone
    /\ gone' = TRUE
    /\ UNCHANGED <<body, timer, watch, pc, after, duty, error, told, chunks, closes>>

StartCallback ==
    /\ gone /\ watch = "armed"
    /\ watch' = "fired"
    /\ pc' = [pc EXCEPT !["callback"] = "close"]
    /\ UNCHANGED <<body, timer, gone, after, duty, error, told, chunks, closes>>

\* The callback calls Close.
CallbackClose ==
    /\ pc["callback"] = "close"
    /\ Finalize("callback", "nil", "done")
    /\ UNCHANGED <<timer, watch, gone, error, told, chunks, closes>>

-----------------------------------------------------------------------------
(* The reverse proxy's goroutine: newDirectBody.                           *)

Goto(label) == pc' = [pc EXCEPT !["proxy"] = label]

ArmTimer ==
    /\ pc["proxy"] = "arm"
    /\ timer' = "armed"
    /\ Goto("storeTimer")
    /\ UNCHANGED <<body, watch, gone, after, duty, error, told, chunks, closes>>

StoreTimer ==
    /\ pc["proxy"] = "storeTimer"
    /\ body' = [body EXCEPT !.timer = TRUE]
    /\ Goto("register")
    /\ UNCHANGED <<timer, watch, gone, after, duty, error, told, chunks, closes>>

\* A context that has ended already starts the callback at once.
Register ==
    /\ pc["proxy"] = "register"
    /\ watch' = IF gone THEN "fired" ELSE "armed"
    /\ pc' = [pc EXCEPT !["proxy"] = "storeStop",
                        !["callback"] = IF gone THEN "close" ELSE @]
    /\ UNCHANGED <<body, timer, gone, after, duty, error, told, chunks, closes>>

StoreStop ==
    /\ pc["proxy"] = "storeStop"
    /\ body' = [body EXCEPT !.stop = TRUE]
    /\ Goto("check")
    /\ UNCHANGED <<timer, watch, gone, after, duty, error, told, chunks, closes>>

-----------------------------------------------------------------------------
(* modifyProxyResponse.                                                    *)

\* err.
Err == IF body.cause # "nil" THEN body.cause
       ELSE IF ~body.closed /\ gone THEN "canceled" ELSE "nil"

\* The body is asked before and after the response policies are applied.
Check ==
    /\ pc["proxy"] \in {"check", "recheck"}
    /\ error' = Err
    /\ Goto(IF Err # "nil" THEN "reject"
            ELSE IF pc["proxy"] = "check" THEN "recheck" ELSE "copy")
    /\ UNCHANGED <<body, timer, watch, gone, after, duty, told, chunks, closes>>

\* Closes the body and returns the error; the reverse proxy closes it again,
\* which does nothing, and calls its ErrorHandler.
Reject ==
    /\ pc["proxy"] = "reject"
    /\ Finalize("proxy", "nil", "handle")
    /\ UNCHANGED <<timer, watch, gone, error, told, chunks, closes>>

Handle ==
    /\ pc["proxy"] = "handle"
    /\ told' = error
    /\ Goto("done")
    /\ UNCHANGED <<body, timer, watch, gone, after, duty, error, chunks, closes>>

-----------------------------------------------------------------------------
(* Read, in the reverse proxy's copy loop.                                 *)

ClosedError == IF body.cause = "nil" THEN "readAfterClose" ELSE body.cause

ReadBegin ==
    /\ pc["proxy"] = "copy"
    /\ error' = IF body.closed THEN ClosedError ELSE error
    /\ Goto(IF body.closed THEN "tell" ELSE "reading")
    /\ UNCHANGED <<body, timer, watch, gone, after, duty, told, chunks, closes>>

\* The wrapped body yields data, ends or fails, fails with the context, or
\* fails because it has been closed.
ReadReturns ==
    /\ pc["proxy"] = "reading"
    /\ \/ /\ chunks < Chunks
          /\ chunks' = chunks + 1
          /\ Goto("verify") /\ UNCHANGED error
       \/ /\ error' \in {"eof", "failed"}
          /\ Goto("fail") /\ UNCHANGED chunks
       \/ /\ gone
          /\ error' = "canceled"
          /\ Goto("fail") /\ UNCHANGED chunks
    /\ UNCHANGED <<body, timer, watch, gone, after, duty, told, closes>>

ClosedReadReturns ==
    /\ pc["proxy"] = "reading"
    /\ closes > 0
    /\ error' = "closedRead"
    /\ Goto("fail")
    /\ UNCHANGED <<body, timer, watch, gone, after, duty, told, chunks, closes>>

\* The context is asked after data was read.
Verify ==
    /\ pc["proxy"] = "verify"
    /\ IF gone THEN error' = Returned("canceled") /\ Finalize("proxy", "canceled", "tell")
       ELSE Goto("confirm") /\ UNCHANGED <<body, after, duty, error>>
    /\ UNCHANGED <<timer, watch, gone, told, chunks, closes>>

\* And then the body.
Confirm ==
    /\ pc["proxy"] = "confirm"
    /\ error' = IF body.closed THEN ClosedError ELSE error
    /\ Goto(IF body.closed THEN "tell" ELSE "write")
    /\ UNCHANGED <<body, timer, watch, gone, after, duty, told, chunks, closes>>

\* Mutation of Fail: Read returns its own error, not that of finalize.
FailRaw ==
    /\ pc["proxy"] = "fail"
    /\ Finalize("proxy", error, "tell")
    /\ UNCHANGED <<timer, watch, gone, error, told, chunks, closes>>

Fail ==
    /\ pc["proxy"] = "fail"
    /\ error' = Returned(error)
    /\ Finalize("proxy", error, "tell")
    /\ UNCHANGED <<timer, watch, gone, told, chunks, closes>>

\* Read returns its error to the copy loop.
Tell ==
    /\ pc["proxy"] = "tell"
    /\ told' = error
    /\ Goto("finish")
    /\ UNCHANGED <<body, timer, watch, gone, after, duty, error, chunks, closes>>

\* The data is written to the client, which may fail.
Write ==
    /\ pc["proxy"] = "write"
    /\ \/ Goto("copy") \/ Goto("finish")
    /\ UNCHANGED <<body, timer, watch, gone, after, duty, error, told, chunks, closes>>

\* The reverse proxy closes the body, however the copying has ended.
Finish ==
    /\ pc["proxy"] = "finish"
    /\ Finalize("proxy", "nil", "done")
    /\ UNCHANGED <<timer, watch, gone, error, told, chunks, closes>>

-----------------------------------------------------------------------------
Undo(a) == StopTimer(a) \/ StopContext(a) \/ CloseBody(a)

Construct == ArmTimer \/ StoreTimer \/ Register \/ StoreStop
ProxyStep == \/ Construct \/ Check \/ Reject \/ Handle \/ ReadBegin \/ Verify \/ Confirm
             \/ Fail \/ Tell \/ Finish

Next == \/ ProxyStep \/ ReadReturns \/ ClosedReadReturns \/ Write
        \/ Expire \/ ExpireBody \/ ClientGone \/ StartCallback \/ CallbackClose
        \/ \E a \in Actors : Undo(a)

Spec == Init /\ [][Next]_vars

\* Goroutines that can run do, armed timers fire, an ended context starts its
\* callbacks, and closing the wrapped body ends a read that it blocks.  The
\* upstream need not send anything and the client need not take anything.
Fairness == /\ WF_vars(ProxyStep)
            /\ WF_vars(ClosedReadReturns)
            /\ WF_vars(Expire) /\ WF_vars(ExpireBody)
            /\ WF_vars(StartCallback) /\ WF_vars(CallbackClose)
            /\ \A a \in Actors : WF_vars(Undo(a))

FairSpec == Spec /\ Fairness

-----------------------------------------------------------------------------
(* Properties.                                                             *)

TypeOK ==
    /\ body \in [closed : BOOLEAN, cause : Errors \union {"nil"},
                 timer : BOOLEAN, stop : BOOLEAN]
    /\ {timer, watch} \subseteq {"off", "armed", "stopped", "fired"}
    /\ gone \in BOOLEAN
    /\ pc \in [Actors -> Labels]
    /\ after \in [Actors -> {"done", "handle", "tell"}]
    /\ duty \in [Actors -> SUBSET {"timer", "context", "body"}]
    /\ {error, told} \subseteq Errors \union {"nil"}
    /\ chunks \in 0 .. Chunks
    /\ closes \in Nat

\* Whichever of them comes first, the wrapped body is closed at most once.
ClosedOnce == closes <= 1

Promise == INSTANCE BodyPromise
    WITH Reasons <- Errors \union {"nil"},
         reason  <- IF body.closed THEN body.cause ELSE "open"

\* Reader, closer, timer and callback together keep what BodyPromise promises:
\* one reason, the client's if it was gone by then, one closing, and a copy
\* loop and an ErrorHandler that are told that reason and nothing else.
ImplementsBodyPromise == Promise!Spec

\* Once the body is finalized and its handles are undone, its timer does not
\* fire any more, though it may be running before its handle is stored.
NoLateExpiry ==
    body.closed /\ (\A a \in Actors : "timer" \notin duty[a]) => timer # "armed"

\* A read of an upstream that sends nothing ends: when the timer fires, at the
\* latest, whatever the constructor was doing at that time.
ReadsEnd == pc["proxy"] = "reading" ~> pc["proxy"] # "reading"

\* A finalized body gets closed.
EndedBodiesClose == body.closed ~> closes = 1

\* v0.18: however the body ends, "Kubio stops the body timer and releases its
\* body/context references".
ReferencesReleased ==
    (\A a \in Actors : pc[a] \in {"idle", "done"}) =>
        /\ timer # "armed" /\ watch # "armed"
        /\ ~body.timer /\ ~body.stop
=============================================================================
