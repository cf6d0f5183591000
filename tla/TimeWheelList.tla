--------------------------- MODULE TimeWheelList ----------------------------
(***************************************************************************)
(* The time wheel of codes/11/11-5tw_timer.h with the doubly linked list   *)
(* of every slot: `mem' holds slots and the fields of the timer objects.   *)
(* An object outside `live' has been deleted; its fields are NULL and 0.   *)
(* It implements TimeWheel, which forgets the lists.                       *)
(***************************************************************************)
EXTENDS Integers, FiniteSets

CONSTANTS N, TI, Timer, Timeouts, NULL

VARIABLES
    cur_slot,
    mem,        \* [slots, next, prev, rotation, time_slot]
    live,       \* the timers allocated by add_timer and not deleted
    fired       \* the timers whose cb_func ran in the last operation

vars == <<cur_slot, mem, live, fired>>

Slot == 0 .. N - 1
Pointer == Timer \cup {NULL}

Init ==
    /\ cur_slot = 0
    /\ mem = [slots |-> [i \in Slot |-> NULL],
              next |-> [t \in Timer |-> NULL], prev |-> [t \in Timer |-> NULL],
              rotation |-> [t \in Timer |-> 0], time_slot |-> [t \in Timer |-> 0]]
    /\ live = {}
    /\ fired = {}

(* delete timer *)
Free(m, t) == [m EXCEPT !.next[t] = NULL, !.prev[t] = NULL,
                        !.rotation[t] = 0, !.time_slot[t] = 0]

(* Push a fresh timer in front of the list of slot ts. *)
Push_one_way(m, timer, ts) ==
    IF m.slots[ts] = NULL THEN [m EXCEPT !.slots[ts] = timer]
    ELSE [m EXCEPT !.next[timer] = m.slots[ts], !.slots[ts] = timer]

Push(m, timer, ts) ==
    IF m.slots[ts] = NULL THEN [m EXCEPT !.slots[ts] = timer]
    ELSE [m EXCEPT !.next[timer] = m.slots[ts], !.prev[m.slots[ts]] = timer,
                   !.slots[ts] = timer]

(* p->prev = q, where p may be NULL *)
SetPrev(m, p, q) == IF p = NULL THEN m ELSE [m EXCEPT !.prev[p] = q]

(* Unlink a timer from the list of slot ts and delete it; del_timer and tick
   do it the same way. *)
Unlink(m, timer, ts) ==
    Free(IF timer = m.slots[ts]
             THEN SetPrev([m EXCEPT !.slots[ts] = m.next[timer]], m.next[timer], NULL)
             ELSE SetPrev([m EXCEPT !.next[m.prev[timer]] = m.next[timer]],
                          m.next[timer], m.prev[timer]),
         timer)

(* tick's loop from node tmp on: [mem, fired] when it ends. *)
RECURSIVE Walk_stops_at_first(_, _, _)
Walk_stops_at_first(m, tmp, done) ==
    IF tmp = NULL THEN [mem |-> m, fired |-> done]
    ELSE IF m.rotation[tmp] > 0
         THEN Walk_stops_at_first([m EXCEPT !.rotation[tmp] = @ - 1], m.next[tmp], done)
         ELSE [mem |-> Unlink(m, tmp, cur_slot), fired |-> done \cup {tmp}]

RECURSIVE Walk(_, _, _)
Walk(m, tmp, done) ==
    IF tmp = NULL THEN [mem |-> m, fired |-> done]
    ELSE IF m.rotation[tmp] > 0
         THEN Walk([m EXCEPT !.rotation[tmp] = @ - 1], m.next[tmp], done)
         ELSE Walk(Unlink(m, tmp, cur_slot), m.next[tmp], done \cup {tmp})
-----------------------------------------------------------------------------
Ticks(timeout) == IF timeout < TI THEN 1 ELSE timeout \div TI

add_timer(t, timeout) ==
    /\ timeout >= 0
    /\ t \notin live
    /\ LET ts == (cur_slot + (Ticks(timeout) % N)) % N
       IN  mem' = Push([mem EXCEPT !.rotation[t] = Ticks(timeout) \div N,
                                   !.time_slot[t] = ts], t, ts)
    /\ live' = live \cup {t}
    /\ fired' = {}
    /\ UNCHANGED cur_slot

del_timer(t) ==
    /\ t \in live
    /\ mem' = Unlink(mem, t, mem.time_slot[t])
    /\ live' = live \ {t}
    /\ fired' = {}
    /\ UNCHANGED cur_slot

tick ==
    /\ LET end == Walk(mem, mem.slots[cur_slot], {})
       IN  /\ mem' = end.mem
           /\ fired' = end.fired
           /\ live' = live \ end.fired
    /\ cur_slot' = (cur_slot + 1) % N

Next ==
    \/ \E t \in Timer, timeout \in Timeouts : add_timer(t, timeout)
    \/ \E t \in Timer : del_timer(t)
    \/ tick

Spec == Init /\ [][Next]_vars
-----------------------------------------------------------------------------
(* Types, and: no operation writes to a timer after it was deleted. *)
TypeOK ==
    /\ cur_slot \in Slot
    /\ mem \in [slots : [Slot -> Pointer],
                next : [Timer -> Pointer], prev : [Timer -> Pointer],
                rotation : [Timer -> Nat], time_slot : [Timer -> Slot]]
    /\ live \subseteq Timer /\ fired \subseteq Timer
    /\ \A t \in Timer \ live : mem = Free(mem, t)

(* The k-th node of slot i's list, NULL behind the last one. *)
Nth[i \in Slot, k \in 1 .. Cardinality(Timer) + 1] ==
    IF k = 1 THEN mem.slots[i]
    ELSE IF Nth[i, k - 1] = NULL THEN NULL
    ELSE mem.next[Nth[i, k - 1]]

(* The list of slot i holds the live timers whose time_slot is i, each once,
   and prev is the inverse of next.  del_timer finds the list of a timer by
   its time_slot and unlinks it through prev, without a test. *)
WellLinked ==
    /\ \A i \in Slot :
        LET list == [k \in 1 .. Cardinality(Timer) + 1 |-> Nth[i, k]]
        IN  /\ {list[k] : k \in DOMAIN list} \ {NULL}
                  = {t \in live : mem.time_slot[t] = i}
            /\ \A j, k \in DOMAIN list : j < k /\ list[j] = list[k] => list[j] = NULL
            /\ mem.slots[i] # NULL => mem.prev[mem.slots[i]] = NULL
    /\ \A t \in live : mem.next[t] # NULL => mem.prev[mem.next[t]] = t

Wheel == INSTANCE TimeWheel
             WITH wheel <- [t \in live |-> [rotation  |-> mem.rotation[t],
                                            time_slot |-> mem.time_slot[t]]]

(* With its linked lists, the wheel does what the wheel of sets does: every
   timer of the current slot is visited once by tick, whichever of its
   neighbours are deleted during the walk. *)
ImplementsWheel == Wheel!Init /\ [][Wheel!Next]_Wheel!vars
=============================================================================
