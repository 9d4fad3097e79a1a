-------------------------- MODULE DirectBodyProofs --------------------------
(***************************************************************************)
(* DirectBody closes the wrapped body at most once, lets no timer fire     *)
(* after the body was finalized and its handles were undone, and           *)
(* implements BodyPromise.                                                 *)
(***************************************************************************)
EXTENDS DirectBody, TLAPS

Constructing == {"arm", "storeTimer", "register", "storeStop"}

\* Who has something to undo is the one that finalized the body, and the
\* wrapped body is among it and not closed yet.
DutyInv ==
    /\ \A a \in Actors : pc[a] = "release" <=> duty[a] # {}
    /\ \A a \in Actors : duty[a] # {} =>
         body.closed /\ "body" \in duty[a] /\ closes = 0
    /\ \A a, b \in Actors : duty[a] # {} /\ duty[b] # {} => a = b
    /\ ~body.closed => closes = 0
    /\ closes <= 1

\* How far the constructor, the timer and the callback have come; until the
\* callback is registered, only the timer can have finalized the body.
HandleInv ==
    /\ pc["proxy"] = "arm" => timer = "off"
    /\ pc["proxy"] \in {"arm", "storeTimer", "register"} => watch = "off"
    /\ timer \in {"off", "armed"} => pc["timer"] = "idle"
    /\ pc["timer"] # "idle" => timer = "fired"
    /\ pc["timer"] \in {"idle", "expire", "release", "done"}
    /\ watch # "fired" => pc["callback"] = "idle"
    /\ pc["callback"] \in {"idle", "close", "release", "done"}
    /\ pc["callback"] # "idle" => gone
    /\ pc["proxy"] \in Constructing /\ watch = "off" /\ body.closed => timer = "fired"
    /\ timer = "armed" /\ ~body.closed => body.timer \/ pc["proxy"] = "storeTimer"
    /\ timer = "armed" /\ body.closed => \E a \in Actors : "timer" \in duty[a]

\* The error that the proxy is going to report is the body's cause, and nobody
\* but the proxy itself, at the very end, leaves the body without one.
ErrorInv ==
    /\ ~body.closed => body.cause = "nil"
    /\ after["timer"] = "done" /\ after["callback"] = "done"
    /\ pc["proxy"] \notin {"idle", "expire", "close"}
    /\ body.closed /\ body.cause = "nil" =>
         \/ pc["proxy"] = "done"
         \/ pc["proxy"] = "release" /\ after["proxy"] = "done"
    /\ pc["proxy"] = "reject" =>
         IF body.closed THEN error = body.cause ELSE gone /\ error = "canceled"
    /\ pc["proxy"] = "fail" => error # "nil"
    /\ \/ pc["proxy"] \in {"tell", "handle"}
       \/ pc["proxy"] = "release" /\ after["proxy"] \in {"tell", "handle"}
       => body.closed /\ error = body.cause
    /\ \/ pc["proxy"] \notin {"finish", "done", "release"}
       \/ pc["proxy"] = "release" /\ after["proxy"] # "done"
       => told = "nil"

IInv == TypeOK /\ DutyInv /\ HandleInv /\ ErrorInv

\* The locked part of finalize keeps the types of what it writes.
LEMMA FinalizeType ==
    ASSUME TypeOK, NEW a \in Actors, NEW default \in Errors \union {"nil"},
           NEW next \in {"done", "handle", "tell"}, Finalize(a, default, next)
    PROVE  /\ body' \in [closed : BOOLEAN, cause : Errors \union {"nil"},
                         timer : BOOLEAN, stop : BOOLEAN]
           /\ duty' \in [Actors -> SUBSET {"timer", "context", "body"}]
           /\ pc' \in [Actors -> Labels]
           /\ after' \in [Actors -> {"done", "handle", "tell"}]
           /\ Returned(default) \in Errors \union {"nil"}
<1>1. Cause(default) \in Errors \union {"nil"}
  BY DEF Cause, Errors
<1>2. Returned(default) \in Errors \union {"nil"}
  BY <1>1 DEF Returned, TypeOK
<1>3. Duties(body) \in SUBSET {"timer", "context", "body"}
  BY DEF Duties
<1>4. CASE body.closed
  <2>1. pc' = [pc EXCEPT ![a] = next] /\ UNCHANGED <<body, duty, after>>
    BY <1>4 DEF Finalize
  <2>2. next \in Labels
    BY DEF Labels
  <2> QED
    BY <1>2, <2>1, <2>2 DEF TypeOK
<1>5. CASE ~body.closed
  <2>1. /\ body' = [closed |-> TRUE, cause |-> Cause(default),
                    timer |-> FALSE, stop |-> FALSE]
        /\ duty' = [duty EXCEPT ![a] = Duties(body)]
        /\ pc' = [pc EXCEPT ![a] = "release"]
        /\ after' = [after EXCEPT ![a] = next]
    BY <1>5 DEF Finalize
  <2>2. "release" \in Labels
    BY DEF Labels
  <2> QED
    BY <1>1, <1>2, <1>3, <2>1, <2>2 DEF TypeOK
<1> QED
  BY <1>4, <1>5

LEMMA Inductive == IInv /\ [Next]_vars => IInv'
<1> SUFFICES ASSUME IInv, [Next]_vars PROVE IInv'
  OBVIOUS
<1> USE ChunksAssumption DEF IInv, Actors, Errors, Labels, Constructing, Goto
<1>1. CASE ArmTimer
  <2>1. TypeOK'
    BY <1>1 DEF TypeOK, DutyInv, HandleInv, ErrorInv, ArmTimer
  <2>2. DutyInv'
    BY <1>1 DEF TypeOK, DutyInv, HandleInv, ErrorInv, ArmTimer
  <2>3. HandleInv'
    BY <1>1 DEF TypeOK, DutyInv, HandleInv, ErrorInv, ArmTimer
  <2>4. ErrorInv'
    BY <1>1 DEF TypeOK, DutyInv, HandleInv, ErrorInv, ArmTimer
  <2> QED
    BY <2>1, <2>2, <2>3, <2>4
<1>2. CASE StoreTimer
  <2>1. TypeOK'
    BY <1>2 DEF TypeOK, DutyInv, HandleInv, ErrorInv, StoreTimer
  <2>2. DutyInv'
    BY <1>2 DEF TypeOK, DutyInv, HandleInv, ErrorInv, StoreTimer
  <2>3. HandleInv'
    BY <1>2 DEF TypeOK, DutyInv, HandleInv, ErrorInv, StoreTimer
  <2>4. ErrorInv'
    BY <1>2 DEF TypeOK, DutyInv, HandleInv, ErrorInv, StoreTimer
  <2> QED
    BY <2>1, <2>2, <2>3, <2>4
<1>3. CASE Register
  <2>1. TypeOK'
    BY <1>3 DEF TypeOK, DutyInv, HandleInv, ErrorInv, Register
  <2>2. DutyInv'
    BY <1>3 DEF TypeOK, DutyInv, HandleInv, ErrorInv, Register
  <2>3. HandleInv'
    BY <1>3 DEF TypeOK, DutyInv, HandleInv, ErrorInv, Register
  <2>4. ErrorInv'
    BY <1>3 DEF TypeOK, DutyInv, HandleInv, ErrorInv, Register
  <2> QED
    BY <2>1, <2>2, <2>3, <2>4
<1>4. CASE StoreStop
  <2>1. TypeOK'
    BY <1>4 DEF TypeOK, DutyInv, HandleInv, ErrorInv, StoreStop
  <2>2. DutyInv'
    BY <1>4 DEF TypeOK, DutyInv, HandleInv, ErrorInv, StoreStop
  <2>3. HandleInv'
    BY <1>4 DEF TypeOK, DutyInv, HandleInv, ErrorInv, StoreStop
  <2>4. ErrorInv'
    BY <1>4 DEF TypeOK, DutyInv, HandleInv, ErrorInv, StoreStop
  <2> QED
    BY <2>1, <2>2, <2>3, <2>4
<1>5. CASE Check
  <2>1. TypeOK'
    BY <1>5 DEF TypeOK, DutyInv, HandleInv, ErrorInv, Check, Err
  <2>2. DutyInv'
    BY <1>5 DEF TypeOK, DutyInv, HandleInv, ErrorInv, Check, Err
  <2>3. HandleInv'
    BY <1>5 DEF TypeOK, DutyInv, HandleInv, ErrorInv, Check, Err
  <2>4. ErrorInv'
    <3>1. CASE Err = "nil"
      BY <1>5, <3>1 DEF TypeOK, ErrorInv, Check
    <3>2. CASE Err # "nil"
      <4>1. IF body.closed THEN Err = body.cause ELSE gone /\ Err = "canceled"
        <5>1. CASE body.closed
          BY <3>2, <5>1 DEF Err
        <5>2. CASE ~body.closed
          <6>1. body.cause = "nil"
            BY <5>2 DEF ErrorInv
          <6> QED
            BY <3>2, <5>2, <6>1 DEF Err
        <5> QED
          BY <5>1, <5>2
      <4>2. pc' = [pc EXCEPT !["proxy"] = "reject"] /\ error' = Err
        BY <1>5, <3>2 DEF Check
      <4> QED
        BY <1>5, <4>1, <4>2 DEF TypeOK, ErrorInv, Check
    <3> QED
      BY <3>1, <3>2
  <2> QED
    BY <2>1, <2>2, <2>3, <2>4
<1>6. CASE Reject
  <2>1. TypeOK'
    <3>1. Finalize("proxy", "nil", "handle")
      BY <1>6 DEF Reject
    <3> QED
      BY <1>6, <3>1, FinalizeType DEF TypeOK, Reject
  <2>2. DutyInv'
    BY <1>6 DEF TypeOK, DutyInv, HandleInv, ErrorInv, Reject, Finalize, Duties, Cause, Returned
  <2>3. HandleInv'
    BY <1>6 DEF TypeOK, DutyInv, HandleInv, ErrorInv, Reject, Finalize, Duties, Cause, Returned
  <2>4. ErrorInv'
    BY <1>6 DEF TypeOK, DutyInv, HandleInv, ErrorInv, Reject, Finalize, Duties, Cause, Returned
  <2> QED
    BY <2>1, <2>2, <2>3, <2>4
<1>7. CASE Handle
  <2>1. TypeOK'
    BY <1>7 DEF TypeOK, DutyInv, HandleInv, ErrorInv, Handle
  <2>2. DutyInv'
    BY <1>7 DEF TypeOK, DutyInv, HandleInv, ErrorInv, Handle
  <2>3. HandleInv'
    BY <1>7 DEF TypeOK, DutyInv, HandleInv, ErrorInv, Handle
  <2>4. ErrorInv'
    BY <1>7 DEF TypeOK, DutyInv, HandleInv, ErrorInv, Handle
  <2> QED
    BY <2>1, <2>2, <2>3, <2>4
<1>8. CASE ReadBegin
  <2>1. TypeOK'
    BY <1>8 DEF TypeOK, DutyInv, HandleInv, ErrorInv, ReadBegin, ClosedError
  <2>2. DutyInv'
    BY <1>8 DEF TypeOK, DutyInv, HandleInv, ErrorInv, ReadBegin, ClosedError
  <2>3. HandleInv'
    BY <1>8 DEF TypeOK, DutyInv, HandleInv, ErrorInv, ReadBegin, ClosedError
  <2>4. ErrorInv'
    BY <1>8 DEF TypeOK, DutyInv, HandleInv, ErrorInv, ReadBegin, ClosedError
  <2> QED
    BY <2>1, <2>2, <2>3, <2>4
<1>9. CASE Verify
  <2>1. TypeOK'
    <3>1. CASE gone
      <4>1. Finalize("proxy", "canceled", "tell")
        BY <1>9, <3>1 DEF Verify
      <4> QED
        BY <1>9, <3>1, <4>1, FinalizeType DEF TypeOK, Verify
    <3>2. CASE ~gone
      BY <1>9, <3>2 DEF TypeOK, Verify
    <3> QED
      BY <3>1, <3>2
  <2>2. DutyInv'
    BY <1>9 DEF TypeOK, DutyInv, HandleInv, ErrorInv, Verify, Finalize, Duties, Cause, Returned
  <2>3. HandleInv'
    BY <1>9 DEF TypeOK, DutyInv, HandleInv, ErrorInv, Verify, Finalize, Duties, Cause, Returned
  <2>4. ErrorInv'
    BY <1>9 DEF TypeOK, DutyInv, HandleInv, ErrorInv, Verify, Finalize, Duties, Cause, Returned
  <2> QED
    BY <2>1, <2>2, <2>3, <2>4
<1>10. CASE Confirm
  <2>1. TypeOK'
    BY <1>10 DEF TypeOK, DutyInv, HandleInv, ErrorInv, Confirm, ClosedError
  <2>2. DutyInv'
    BY <1>10 DEF TypeOK, DutyInv, HandleInv, ErrorInv, Confirm, ClosedError
  <2>3. HandleInv'
    BY <1>10 DEF TypeOK, DutyInv, HandleInv, ErrorInv, Confirm, ClosedError
  <2>4. ErrorInv'
    BY <1>10 DEF TypeOK, DutyInv, HandleInv, ErrorInv, Confirm, ClosedError
  <2> QED
    BY <2>1, <2>2, <2>3, <2>4
<1>11. CASE Fail
  <2>1. TypeOK'
    <3>1. Finalize("proxy", error, "tell") /\ error \in Errors \union {"nil"}
      BY <1>11 DEF Fail, TypeOK
    <3> QED
      BY <1>11, <3>1, FinalizeType DEF TypeOK, Fail
  <2>2. DutyInv'
    BY <1>11 DEF TypeOK, DutyInv, HandleInv, ErrorInv, Fail, Finalize, Duties, Cause, Returned
  <2>3. HandleInv'
    BY <1>11 DEF TypeOK, DutyInv, HandleInv, ErrorInv, Fail, Finalize, Duties, Cause, Returned
  <2>4. ErrorInv'
    BY <1>11 DEF TypeOK, DutyInv, HandleInv, ErrorInv, Fail, Finalize, Duties, Cause, Returned
  <2> QED
    BY <2>1, <2>2, <2>3, <2>4
<1>12. CASE Tell
  <2>1. TypeOK'
    BY <1>12 DEF TypeOK, DutyInv, HandleInv, ErrorInv, Tell
  <2>2. DutyInv'
    BY <1>12 DEF TypeOK, DutyInv, HandleInv, ErrorInv, Tell
  <2>3. HandleInv'
    BY <1>12 DEF TypeOK, DutyInv, HandleInv, ErrorInv, Tell
  <2>4. ErrorInv'
    BY <1>12 DEF TypeOK, DutyInv, HandleInv, ErrorInv, Tell
  <2> QED
    BY <2>1, <2>2, <2>3, <2>4
<1>13. CASE Finish
  <2>1. TypeOK'
    <3>1. Finalize("proxy", "nil", "done")
      BY <1>13 DEF Finish
    <3> QED
      BY <1>13, <3>1, FinalizeType DEF TypeOK, Finish
  <2>2. DutyInv'
    BY <1>13 DEF TypeOK, DutyInv, HandleInv, ErrorInv, Finish, Finalize, Duties, Cause, Returned
  <2>3. HandleInv'
    BY <1>13 DEF TypeOK, DutyInv, HandleInv, ErrorInv, Finish, Finalize, Duties, Cause, Returned
  <2>4. ErrorInv'
    BY <1>13 DEF TypeOK, DutyInv, HandleInv, ErrorInv, Finish, Finalize, Duties, Cause, Returned
  <2> QED
    BY <2>1, <2>2, <2>3, <2>4
<1>14. CASE ReadReturns
  <2>1. TypeOK'
    BY <1>14 DEF TypeOK, DutyInv, HandleInv, ErrorInv, ReadReturns
  <2>2. DutyInv'
    BY <1>14 DEF TypeOK, DutyInv, HandleInv, ErrorInv, ReadReturns
  <2>3. HandleInv'
    BY <1>14 DEF TypeOK, DutyInv, HandleInv, ErrorInv, ReadReturns
  <2>4. ErrorInv'
    BY <1>14 DEF TypeOK, DutyInv, HandleInv, ErrorInv, ReadReturns
  <2> QED
    BY <2>1, <2>2, <2>3, <2>4
<1>15. CASE ClosedReadReturns
  <2>1. TypeOK'
    BY <1>15 DEF TypeOK, DutyInv, HandleInv, ErrorInv, ClosedReadReturns
  <2>2. DutyInv'
    BY <1>15 DEF TypeOK, DutyInv, HandleInv, ErrorInv, ClosedReadReturns
  <2>3. HandleInv'
    BY <1>15 DEF TypeOK, DutyInv, HandleInv, ErrorInv, ClosedReadReturns
  <2>4. ErrorInv'
    BY <1>15 DEF TypeOK, DutyInv, HandleInv, ErrorInv, ClosedReadReturns
  <2> QED
    BY <2>1, <2>2, <2>3, <2>4
<1>16. CASE Write
  <2>1. TypeOK'
    BY <1>16 DEF TypeOK, DutyInv, HandleInv, ErrorInv, Write
  <2>2. DutyInv'
    BY <1>16 DEF TypeOK, DutyInv, HandleInv, ErrorInv, Write
  <2>3. HandleInv'
    BY <1>16 DEF TypeOK, DutyInv, HandleInv, ErrorInv, Write
  <2>4. ErrorInv'
    BY <1>16 DEF TypeOK, DutyInv, HandleInv, ErrorInv, Write
  <2> QED
    BY <2>1, <2>2, <2>3, <2>4
<1>17. CASE Expire
  <2>1. TypeOK'
    BY <1>17 DEF TypeOK, DutyInv, HandleInv, ErrorInv, Expire
  <2>2. DutyInv'
    BY <1>17 DEF TypeOK, DutyInv, HandleInv, ErrorInv, Expire
  <2>3. HandleInv'
    BY <1>17 DEF TypeOK, DutyInv, HandleInv, ErrorInv, Expire
  <2>4. ErrorInv'
    BY <1>17 DEF TypeOK, DutyInv, HandleInv, ErrorInv, Expire
  <2> QED
    BY <2>1, <2>2, <2>3, <2>4
<1>18. CASE ExpireBody
  <2>1. TypeOK'
    <3>1. Finalize("timer", "deadline", "done")
      BY <1>18 DEF ExpireBody
    <3> QED
      BY <1>18, <3>1, FinalizeType DEF TypeOK, ExpireBody
  <2>2. DutyInv'
    BY <1>18 DEF TypeOK, DutyInv, HandleInv, ErrorInv, ExpireBody, Finalize, Duties, Cause, Returned
  <2>3. HandleInv'
    BY <1>18 DEF TypeOK, DutyInv, HandleInv, ErrorInv, ExpireBody, Finalize, Duties, Cause, Returned
  <2>4. ErrorInv'
    BY <1>18 DEF TypeOK, DutyInv, HandleInv, ErrorInv, ExpireBody, Finalize, Duties, Cause, Returned
  <2> QED
    BY <2>1, <2>2, <2>3, <2>4
<1>19. CASE ClientGone
  <2>1. TypeOK'
    BY <1>19 DEF TypeOK, DutyInv, HandleInv, ErrorInv, ClientGone
  <2>2. DutyInv'
    BY <1>19 DEF TypeOK, DutyInv, HandleInv, ErrorInv, ClientGone
  <2>3. HandleInv'
    BY <1>19 DEF TypeOK, DutyInv, HandleInv, ErrorInv, ClientGone
  <2>4. ErrorInv'
    BY <1>19 DEF TypeOK, DutyInv, HandleInv, ErrorInv, ClientGone
  <2> QED
    BY <2>1, <2>2, <2>3, <2>4
<1>20. CASE StartCallback
  <2>1. TypeOK'
    BY <1>20 DEF TypeOK, DutyInv, HandleInv, ErrorInv, StartCallback
  <2>2. DutyInv'
    BY <1>20 DEF TypeOK, DutyInv, HandleInv, ErrorInv, StartCallback
  <2>3. HandleInv'
    BY <1>20 DEF TypeOK, DutyInv, HandleInv, ErrorInv, StartCallback
  <2>4. ErrorInv'
    BY <1>20 DEF TypeOK, DutyInv, HandleInv, ErrorInv, StartCallback
  <2> QED
    BY <2>1, <2>2, <2>3, <2>4
<1>21. CASE CallbackClose
  <2>1. TypeOK'
    <3>1. Finalize("callback", "nil", "done")
      BY <1>21 DEF CallbackClose
    <3> QED
      BY <1>21, <3>1, FinalizeType DEF TypeOK, CallbackClose
  <2>2. DutyInv'
    BY <1>21 DEF TypeOK, DutyInv, HandleInv, ErrorInv, CallbackClose, Finalize, Duties, Cause, Returned
  <2>3. HandleInv'
    BY <1>21 DEF TypeOK, DutyInv, HandleInv, ErrorInv, CallbackClose, Finalize, Duties, Cause, Returned
  <2>4. ErrorInv'
    BY <1>21 DEF TypeOK, DutyInv, HandleInv, ErrorInv, CallbackClose, Finalize, Duties, Cause, Returned
  <2> QED
    BY <2>1, <2>2, <2>3, <2>4
<1>22. ASSUME NEW a \in Actors, StopTimer(a) PROVE IInv'
  <2>1. TypeOK'
    BY <1>22 DEF TypeOK, DutyInv, HandleInv, ErrorInv, StopTimer
  <2>2. DutyInv'
    BY <1>22 DEF TypeOK, DutyInv, HandleInv, ErrorInv, StopTimer
  <2>3. HandleInv'
    BY <1>22 DEF TypeOK, DutyInv, HandleInv, ErrorInv, StopTimer
  <2>4. ErrorInv'
    BY <1>22 DEF TypeOK, DutyInv, HandleInv, ErrorInv, StopTimer
  <2> QED
    BY <2>1, <2>2, <2>3, <2>4
<1>23. ASSUME NEW a \in Actors, StopContext(a) PROVE IInv'
  <2>1. TypeOK'
    BY <1>23 DEF TypeOK, DutyInv, HandleInv, ErrorInv, StopContext
  <2>2. DutyInv'
    BY <1>23 DEF TypeOK, DutyInv, HandleInv, ErrorInv, StopContext
  <2>3. HandleInv'
    BY <1>23 DEF TypeOK, DutyInv, HandleInv, ErrorInv, StopContext
  <2>4. ErrorInv'
    BY <1>23 DEF TypeOK, DutyInv, HandleInv, ErrorInv, StopContext
  <2> QED
    BY <2>1, <2>2, <2>3, <2>4
<1>24. ASSUME NEW a \in Actors, CloseBody(a) PROVE IInv'
  <2>1. TypeOK'
    BY <1>24 DEF TypeOK, DutyInv, HandleInv, ErrorInv, CloseBody
  <2>2. DutyInv'
    BY <1>24 DEF TypeOK, DutyInv, HandleInv, ErrorInv, CloseBody
  <2>3. HandleInv'
    BY <1>24 DEF TypeOK, DutyInv, HandleInv, ErrorInv, CloseBody
  <2>4. ErrorInv'
    BY <1>24 DEF TypeOK, DutyInv, HandleInv, ErrorInv, CloseBody
  <2> QED
    BY <2>1, <2>2, <2>3, <2>4
<1>25. CASE UNCHANGED vars
  BY <1>25 DEF vars, TypeOK, DutyInv, HandleInv, ErrorInv
<1> QED
  BY <1>1, <1>2, <1>3, <1>4, <1>5, <1>6, <1>7, <1>8, <1>9, <1>10, <1>11, <1>12, <1>13, <1>14, <1>15, <1>16, <1>17, <1>18, <1>19, <1>20, <1>21, <1>22, <1>23, <1>24, <1>25 DEF Next, ProxyStep, Construct, Undo

\* The invariant holds of every reachable state.
THEOREM Invariance == Spec => []IInv
<1>1. ASSUME Init PROVE IInv
  <2>1. TypeOK
    <3>1. body \in [closed : BOOLEAN, cause : Errors \union {"nil"},
                    timer : BOOLEAN, stop : BOOLEAN]
      BY <1>1 DEF Init
    <3>2. pc \in [Actors -> Labels]
      BY <1>1 DEF Init, Labels
    <3>3. /\ after \in [Actors -> {"done", "handle", "tell"}]
          /\ duty \in [Actors -> SUBSET {"timer", "context", "body"}]
      BY <1>1 DEF Init
    <3>4. /\ {timer, watch} \subseteq {"off", "armed", "stopped", "fired"}
          /\ {error, told} \subseteq Errors \union {"nil"}
      BY <1>1 DEF Init
    <3>5. gone \in BOOLEAN
      BY <1>1 DEF Init
    <3>6. chunks \in 0 .. Chunks /\ closes \in Nat
      BY <1>1, ChunksAssumption DEF Init
    <3> QED
      BY <3>1, <3>2, <3>3, <3>4, <3>5, <3>6 DEF TypeOK
  <2>2. DutyInv
    BY <1>1 DEF Init, DutyInv, Actors
  <2>3. HandleInv /\ ErrorInv
    BY <1>1 DEF Init, HandleInv, ErrorInv, Actors, Constructing
  <2> QED
    BY <2>1, <2>2, <2>3 DEF IInv
<1> QED
  BY <1>1, Inductive, PTL DEF Spec

\* Reader, closer, timer and callback close the wrapped body at most once
\* between them.
THEOREM ClosesOnce == Spec => []ClosedOnce
<1>1. IInv => ClosedOnce
  BY DEF IInv, DutyInv, ClosedOnce
<1> QED
  BY <1>1, Invariance, PTL

\* No timer fires once the body is finalized and its handles are undone, even
\* when the body was finalized before all of them were stored.
THEOREM TimerEnds == Spec => []NoLateExpiry
<1>1. IInv => NoLateExpiry
  BY DEF IInv, HandleInv, NoLateExpiry
<1> QED
  BY <1>1, Invariance, PTL

-----------------------------------------------------------------------------
(* DirectBody implements BodyPromise.                                      *)
\* The locked part of finalize ends the body, or finds it ended.
LEMMA RefineFinalize ==
    ASSUME IInv, NEW a \in Actors, NEW default \in Errors \union {"nil"},
           NEW next, Finalize(a, default, next), UNCHANGED <<gone, closes, told>>
    PROVE  [Promise!Next]_(Promise!vars)
<1>1. CASE body.closed
  BY <1>1 DEF Finalize, Promise!vars
<1>2. CASE ~body.closed
  <2>1. /\ body'.closed /\ body'.cause = Cause(default)
    BY <1>2 DEF Finalize
  <2>2. Cause(default) \in IF gone THEN {"canceled"} ELSE Errors \union {"nil"}
    BY DEF Cause
  <2>3. Promise!End
    BY <1>2, <2>1, <2>2 DEF Promise!End
  <2> QED
    BY <2>3 DEF Promise!Next
<1> QED
  BY <1>1, <1>2

\* Steps that touch nothing BodyPromise sees.
LEMMA Unseen ==
    ASSUME IInv, UNCHANGED <<gone, closes, told>>,
           body'.closed = body.closed /\ body'.cause = body.cause
    PROVE  [Promise!Next]_(Promise!vars)
BY DEF Promise!vars

\* Whoever tells the copy loop or the ErrorHandler tells the body's reason.
LEMMA RefineTell ==
    ASSUME IInv, Tell \/ Handle
    PROVE  [Promise!Next]_(Promise!vars)
<1>1. body.closed /\ error = body.cause /\ told = "nil"
  BY DEF IInv, ErrorInv, Tell, Handle
<1>2. told' = body.cause /\ UNCHANGED <<body, gone, closes>>
  BY <1>1 DEF Tell, Handle
<1>3. body.cause # "open"
  BY DEF IInv, TypeOK, Errors
<1>4. Promise!Tell
  BY <1>1, <1>2, <1>3 DEF Promise!Tell
<1> QED
  BY <1>4 DEF Promise!Next

\* The one that finalized the body closes the wrapped body, which is open.
LEMMA RefineClose ==
    ASSUME IInv, NEW a \in Actors, CloseBody(a)
    PROVE  [Promise!Next]_(Promise!vars)
<1>1. body.closed /\ closes = 0 /\ body.cause # "open"
  BY DEF IInv, DutyInv, CloseBody, TypeOK, Errors
<1>2. closes' = 1 /\ UNCHANGED <<body, gone, told>>
  BY <1>1 DEF CloseBody
<1>3. Promise!Close
  BY <1>1, <1>2 DEF Promise!Close
<1> QED
  BY <1>3 DEF Promise!Next

\* Every step is a step of BodyPromise or shows nothing.
LEMMA RefineNext == IInv /\ [Next]_vars => [Promise!Next]_(Promise!vars)
<1> SUFFICES ASSUME IInv, [Next]_vars PROVE [Promise!Next]_(Promise!vars)
  OBVIOUS
<1> DEFINE Shown == <<gone, closes, told>>
<1>1. CASE Reject \/ Finish
  <2>1. Finalize("proxy", "nil", "handle") \/ Finalize("proxy", "nil", "done")
    BY <1>1 DEF Reject, Finish
  <2>2. UNCHANGED Shown
    BY <1>1 DEF Reject, Finish
  <2> QED
    BY <2>1, <2>2, RefineFinalize DEF Actors
<1>2. CASE Fail
  <2>1. Finalize("proxy", error, "tell") /\ error \in Errors \union {"nil"}
    BY <1>2 DEF Fail, IInv, TypeOK
  <2> QED
    BY <1>2, <2>1, RefineFinalize DEF Actors, Fail
<1>3. CASE Verify
  <2>1. CASE gone
    BY <1>3, <2>1, RefineFinalize DEF Actors, Errors, Verify
  <2>2. CASE ~gone
    BY <1>3, <2>2, Unseen DEF Verify
  <2> QED
    BY <2>1, <2>2
<1>4. CASE ExpireBody
  BY <1>4, RefineFinalize DEF Actors, Errors, ExpireBody
<1>5. CASE CallbackClose
  BY <1>5, RefineFinalize DEF Actors, CallbackClose
<1>6. CASE Tell \/ Handle
  BY <1>6, RefineTell
<1>7. CASE ClientGone
  <2>1. Promise!Leave
    BY <1>7 DEF ClientGone, Promise!Leave
  <2> QED
    BY <2>1 DEF Promise!Next
<1>8. ASSUME NEW a \in Actors, Undo(a) PROVE [Promise!Next]_(Promise!vars)
  <2>1. CASE CloseBody(a)
    BY <2>1, RefineClose
  <2>2. CASE StopTimer(a) \/ StopContext(a)
    BY <2>2, Unseen DEF StopTimer, StopContext
  <2> QED
    BY <1>8, <2>1, <2>2 DEF Undo
<1>9. CASE StoreTimer \/ StoreStop
  BY <1>9, Unseen DEF StoreTimer, StoreStop, IInv, TypeOK
<1>10. CASE ArmTimer \/ Register \/ Check \/ ReadBegin \/ Confirm
  BY <1>10, Unseen DEF ArmTimer, Register, Check, ReadBegin, Confirm
<1>11. CASE ReadReturns \/ ClosedReadReturns \/ Write \/ Expire \/ StartCallback
  BY <1>11, Unseen DEF ReadReturns, ClosedReadReturns, Write, Expire, StartCallback
<1>12. CASE UNCHANGED vars
  BY <1>12, Unseen DEF vars
<1> QED
  BY <1>1, <1>2, <1>3, <1>4, <1>5, <1>6, <1>7, <1>8, <1>9, <1>10, <1>11, <1>12
     DEF Next, ProxyStep, Construct

\* One reason, the client's if it was gone by then; one closing; and nobody is
\* told anything but that reason, in every interleaving.
THEOREM Implements == Spec => ImplementsBodyPromise
<1>1. Init => Promise!Init
  BY DEF Init, Promise!Init
<1> QED
  BY <1>1, RefineNext, Invariance, PTL DEF Spec, ImplementsBodyPromise, Promise!Spec
=============================================================================
