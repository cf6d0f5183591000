---------------------------- MODULE TimerService ----------------------------
(***************************************************************************)
(* What every timer container of codes/11 promises to the event loop that  *)
(* drives it, whatever it keeps its timers in.  A pending timer t has      *)
(* left[t] units of time left before its callback is due.  A tick that     *)
(* lets d units pass runs the callbacks of exactly the timers that are due *)
(* by then and forgets them; every other timer stays pending and loses d   *)
(* units.  The wheel (TimeWheel), the sorted list (SortTimerList) and the  *)
(* heap (TimeHeap) are shown to implement this specification.              *)
(***************************************************************************)
EXTENDS Integers

CONSTANTS
    Timer,      \* the addresses at which timer objects can live
    Delay,      \* the delays a caller may ask for, a set of integers
    Elapse      \* the amounts of time that may pass between two ticks

VARIABLES
    left,       \* left[t], for each pending timer t
    fired       \* the timers whose callbacks the last operation ran

vars == <<left, fired>>

Init ==
    /\ left = [t \in {} |-> 0]
    /\ fired = {}

Add(t, l) ==
    /\ t \notin DOMAIN left
    /\ left' = [u \in DOMAIN left \cup {t} |-> IF u = t THEN l ELSE left[u]]
    /\ fired' = {}

Adjust(t, l) ==
    /\ t \in DOMAIN left
    /\ left' = [left EXCEPT ![t] = l]
    /\ fired' = {}

Del(t) ==
    /\ t \in DOMAIN left
    /\ left' = [u \in DOMAIN left \ {t} |-> left[u]]
    /\ fired' = {}

Tick(d) ==
    /\ fired' = {t \in DOMAIN left : left[t] <= d}
    /\ left' = [t \in DOMAIN left \ fired' |-> left[t] - d]

Next ==
    \/ \E t \in Timer, l \in Delay : Add(t, l) \/ Adjust(t, l)
    \/ \E t \in Timer : Del(t)
    \/ \E d \in Elapse : Tick(d)

Spec == Init /\ [][Next]_vars
=============================================================================
