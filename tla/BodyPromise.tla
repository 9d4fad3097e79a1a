---------------------------- MODULE BodyPromise ----------------------------
(***************************************************************************)
(* What the wrapper of a direct response body promises (v0.18, section 3): *)
(* the body ends once, for one reason, which is the client's cancellation  *)
(* if the client was gone by then; the wrapped body is closed once after   *)
(* that; and whoever is told an error is told that reason.                 *)
(***************************************************************************)
EXTENDS Integers

CONSTANTS Reasons  \* why a body may end, "canceled" for the client among them

VARIABLES gone,    \* the client has gone away
          reason,  \* why the body has ended; "open" until then
          closes,  \* how often the wrapped body has been closed
          told     \* the error that the reverse proxy was told; "nil" if none

vars == <<gone, reason, closes, told>>

Init == gone = FALSE /\ reason = "open" /\ closes = 0 /\ told = "nil"

Leave == /\ gone' = TRUE
         /\ UNCHANGED <<reason, closes, told>>

End == /\ reason = "open"
       /\ reason' \in IF gone THEN {"canceled"} ELSE Reasons
       /\ UNCHANGED <<gone, closes, told>>

Close == /\ reason # "open" /\ closes = 0
         /\ closes' = 1
         /\ UNCHANGED <<gone, reason, told>>

Tell == /\ reason # "open" /\ told = "nil"
        /\ told' = reason
        /\ UNCHANGED <<gone, reason, closes>>

Next == Leave \/ End \/ Close \/ Tell

Spec == Init /\ [][Next]_vars
=============================================================================
