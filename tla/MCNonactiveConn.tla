-------------------------- MODULE MCNonactiveConn ---------------------------
(* Descriptors and addresses that are reused, and an alarm every second.  In   *)
(* other behaviours the time wheel, which codes/11 has for the same purpose,   *)
(* is called instead of the server.                                            *)
EXTENDS NonactiveConn, Integers

CONSTANTS WheelTimer, N, TI, Timeouts

ASSUME WheelAssumption == N \in Nat \ {0} /\ TI \in Nat \ {0} /\ Timeouts \subseteq Int

VARIABLES
    part,                       \* rigid: "server" or "wheel"
    cur_slot, wheel, fired

W == INSTANCE TimeWheel WITH Timer <- WheelTimer

wheel_vars == <<cur_slot, wheel, fired>>
allvars == <<vars, part, wheel_vars>>

MCInit == Init /\ W!Init /\ part \in {"server", "wheel"}

MCNext ==
    \/ part = "server" /\ Next /\ UNCHANGED <<part, wheel_vars>>
    \/ part = "wheel" /\ W!Next /\ UNCHANGED <<part, vars>>

MCSpec ==
    /\ MCInit /\ [][MCNext]_allvars
    /\ WF_vars(part = "server" /\ loop) /\ WF_vars(part = "server" /\ second /\ pc # "stopped")
-----------------------------------------------------------------------------
(* add_timer, del_timer and tick of the wheel keep the promise of a timer      *)
(* service: a timer added with timeout x fires at the (Ticks(x)+1)-th          *)
(* following tick, neither sooner nor later, however the rotations of other    *)
(* timers interleave.                                                          *)
WheelServes == W!ImplementsService

MCTimeouts == -1 .. 7
=============================================================================
