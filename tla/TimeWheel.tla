----------------------------- MODULE TimeWheel ------------------------------
(***************************************************************************)
(* The time wheel of codes/11/11-5tw_timer.h: N slots of TI time units     *)
(* each, turned one slot by every tick.  A timer is kept in the slot at    *)
(* which it may fire, with the number of full turns it still has to wait.  *)
(*                                                                         *)
(* Here a slot is the set of the timers whose time_slot it is; the linked  *)
(* lists that hold them are TimeWheelList, which implements this module.   *)
(***************************************************************************)
EXTENDS Integers

CONSTANTS
    N,          \* number of slots (60 in the code)
    TI,         \* length of a slot (1 in the code)
    Timer,      \* addresses at which tw_timer objects can be allocated
    Timeouts    \* the arguments add_timer is called with

VARIABLES
    cur_slot,   \* the slot the next tick handles
    wheel,      \* wheel[t] = [rotation, time_slot], for each timer t in the wheel
    fired       \* timers whose cb_func ran in the last operation

vars == <<cur_slot, wheel, fired>>

Slot == 0 .. N - 1

Init ==
    /\ cur_slot = 0
    /\ wheel = [t \in {} |-> [rotation |-> 0, time_slot |-> 0]]
    /\ fired = {}

(* How many slots a timeout stands for: at least one. *)
Ticks(timeout) == IF timeout < TI THEN 1 ELSE timeout \div TI

(* The slot reached after that many ticks. *)
SlotAfter(ticks) == (cur_slot + (ticks % N)) % N

(* A negative timeout is refused before anything is allocated. *)
add_timer(t, timeout) ==
    /\ timeout >= 0
    /\ t \notin DOMAIN wheel
    /\ wheel' = [u \in DOMAIN wheel \cup {t} |->
                    IF u = t
                    THEN [rotation  |-> Ticks(timeout) \div N,
                          time_slot |-> SlotAfter(Ticks(timeout))]
                    ELSE wheel[u]]
    /\ fired' = {}
    /\ UNCHANGED cur_slot

del_timer(t) ==
    /\ t \in DOMAIN wheel
    /\ wheel' = [u \in DOMAIN wheel \ {t} |-> wheel[u]]
    /\ fired' = {}
    /\ UNCHANGED cur_slot

(* Timers of the current slot fire, or wait one turn less. *)
Expires_turn_early(t) == wheel[t].time_slot = cur_slot /\ wheel[t].rotation <= 1
Expires(t) == wheel[t].time_slot = cur_slot /\ wheel[t].rotation <= 0

TurnWheel == (cur_slot + 1) % N

tick ==
    /\ fired' = {t \in DOMAIN wheel : Expires(t)}
    /\ wheel' = [t \in DOMAIN wheel \ fired' |->
                    IF wheel[t].time_slot = cur_slot
                    THEN [wheel[t] EXCEPT !.rotation = @ - 1]
                    ELSE wheel[t]]
    /\ cur_slot' = TurnWheel

Next ==
    \/ \E t \in Timer, timeout \in Timeouts : add_timer(t, timeout)
    \/ \E t \in Timer : del_timer(t)
    \/ tick

Spec == Init /\ [][Next]_vars
-----------------------------------------------------------------------------
(* Every timer in the wheel sits in an existing slot with a number of turns
   to wait that is never negative, so tick's test rotation > 0 is decisive. *)
TypeOK ==
    /\ cur_slot \in Slot
    /\ DOMAIN wheel \subseteq Timer
    /\ wheel \in [DOMAIN wheel -> [rotation : Nat, time_slot : Slot]]
    /\ fired \subseteq Timer

(* The number of ticks until the wheel reaches slot ts, 1 for cur_slot. *)
Distance(ts) == IF ts >= cur_slot THEN ts - cur_slot + 1
                                  ELSE ts - cur_slot + 1 + N

(* The ticks left before the wheel fires the timers it holds. *)
Left == [t \in DOMAIN wheel |->
            wheel[t].rotation * N + Distance(wheel[t].time_slot)]

(* The delays the wheel really implements: the tick that handles the current
   slot has not happened yet when a timer is added, so k slots take k+1 ticks. *)
Delays == {1 + (IF x < TI THEN 1 ELSE x \div TI) : x \in {y \in Timeouts : y >= 0}}

Service == INSTANCE TimerService
               WITH left <- Left, Delay <- Delays, Elapse <- {1}

(* add_timer, del_timer and tick keep the promise of a timer service: a timer
   added with timeout x fires at the (Ticks(x)+1)-th following tick, neither
   sooner nor later, however the rotations of other timers interleave. *)
ImplementsService == Service!Spec
=============================================================================
