--------------------------- MODULE SortTimerList ----------------------------
(***************************************************************************)
(* The sorted doubly linked timer list of codes/11/11-2lst_timer.h, at the *)
(* level of its pointers.  `heap' is the memory the list lives in: the     *)
(* fields of every timer object, and head and tail.  An object that is not *)
(* in `live' has been deleted (or not been allocated yet); its fields are  *)
(* NULL and 0, and no live pointer may lead to it.                         *)
(***************************************************************************)
EXTENDS Integers, FiniteSets

CONSTANTS
    Timer,      \* addresses at which util_timer objects can be allocated
    NULL,
    Offsets,    \* how far ahead of the clock callers put an expiry
    MaxTime     \* bound on the clock

VARIABLES
    heap,       \* [head, tail, next, prev, expire]
    live,       \* the timers allocated and handed to the list
    now,        \* what time(NULL) returns
    cur,        \* what it returned in the last tick
    fired       \* the timers whose cb_func ran in the last operation

vars == <<heap, live, now, cur, fired>>

Pointer == Timer \cup {NULL}

Init ==
    /\ heap = [head |-> NULL, tail |-> NULL,
               next |-> [t \in Timer |-> NULL],
               prev |-> [t \in Timer |-> NULL],
               expire |-> [t \in Timer |-> 0]]
    /\ live = {}
    /\ now = 0
    /\ cur = 0
    /\ fired = {}

(* delete timer *)
Free(h, t) ==
    [h EXCEPT !.next[t] = NULL, !.prev[t] = NULL, !.expire[t] = 0]

(* The private add_timer: walk from lst_head to the last node that is not
   later than the timer, and link the timer behind it. *)
Before_reversed(h, timer, tmp) == h.expire[timer] > h.expire[tmp]
Before(h, timer, tmp) == h.expire[timer] < h.expire[tmp]

LinkAtEnd(h, timer, p) ==
    [h EXCEPT !.next[p] = timer, !.prev[timer] = p, !.next[timer] = NULL,
              !.tail = timer]

RECURSIVE InsertAfter(_, _, _)
InsertAfter(h, timer, p) ==
    LET tmp == h.next[p]
    IN  IF tmp = NULL THEN LinkAtEnd(h, timer, p)
        ELSE IF Before(h, timer, tmp)
             THEN [h EXCEPT !.next[p] = timer, !.next[timer] = tmp,
                            !.prev[tmp] = timer, !.prev[timer] = p]
             ELSE InsertAfter(h, timer, tmp)

(* The public add_timer, on a list that already knows timer's expiry. *)
Added(h, timer) ==
    IF h.head = NULL THEN [h EXCEPT !.head = timer, !.tail = timer]
    ELSE IF Before(h, timer, h.head)
         THEN [h EXCEPT !.next[timer] = h.head, !.prev[h.head] = timer,
                        !.head = timer]
         ELSE InsertAfter(h, timer, h.head)

(* adjust_timer: a timer that is now later than its successor is unlinked and
   inserted again behind it. *)
MustMove(h, timer) ==
    h.next[timer] # NULL /\ ~ Before(h, timer, h.next[timer])

Adjusted(h, timer) ==
    LET tmp == h.next[timer]
    IN  IF ~ MustMove(h, timer) THEN h
        ELSE IF timer = h.head
             THEN InsertAfter([h EXCEPT !.head = tmp, !.prev[tmp] = NULL,
                                        !.next[timer] = NULL], timer, tmp)
             ELSE InsertAfter([h EXCEPT !.next[h.prev[timer]] = tmp,
                                        !.prev[tmp] = h.prev[timer]], timer, tmp)

(* del_timer's four cases: only node, first node, last node, inner node. *)
Deleted(h, timer) ==
    Free(IF timer = h.head /\ timer = h.tail
             THEN [h EXCEPT !.head = NULL, !.tail = NULL]
         ELSE IF timer = h.head
             THEN [h EXCEPT !.head = h.next[timer], !.prev[h.next[timer]] = NULL]
         ELSE IF timer = h.tail
             THEN [h EXCEPT !.tail = h.prev[timer], !.next[h.prev[timer]] = NULL]
         ELSE [h EXCEPT !.next[h.prev[timer]] = h.next[timer],
                        !.prev[h.next[timer]] = h.prev[timer]],
         timer)

(* tick's loop: run and delete the head while it has expired.  tail is left
   alone, also when the list becomes empty. *)
Due_strict(h, t) == h.expire[t] < now
Due(h, t) == h.expire[t] <= now

RECURSIVE Expired(_)
Expired(h) ==
    LET tmp == h.head
    IN  IF tmp = NULL \/ ~ Due(h, tmp) THEN {}
        ELSE {tmp} \cup Expired([h EXCEPT !.head = h.next[tmp]])

RECURSIVE Popped(_)
Popped(h) ==
    LET tmp == h.head
        nxt == h.next[tmp]
    IN  IF tmp = NULL \/ ~ Due(h, tmp) THEN h
        ELSE Popped(Free(IF nxt = NULL THEN [h EXCEPT !.head = NULL]
                         ELSE [h EXCEPT !.head = nxt, !.prev[nxt] = NULL], tmp))
-----------------------------------------------------------------------------
(* new util_timer, expire = now + d, add_timer *)
add_timer(t, d) ==
    /\ t \notin live
    /\ heap' = Added([heap EXCEPT !.expire[t] = now + d], t)
    /\ live' = live \cup {t}
    /\ fired' = {}
    /\ UNCHANGED <<now, cur>>

(* The caller sets a new expiry and then calls adjust_timer.  The list only
   looks behind the timer: its callers (11-3nonactive_conn.cpp) move an expiry
   to a later time only. *)
adjust_timer(t, d) ==
    /\ t \in live
    /\ now + d >= heap.expire[t]
    /\ heap' = Adjusted([heap EXCEPT !.expire[t] = now + d], t)
    /\ fired' = {}
    /\ UNCHANGED <<live, now, cur>>

del_timer(t) ==
    /\ t \in live
    /\ heap' = Deleted(heap, t)
    /\ live' = live \ {t}
    /\ fired' = {}
    /\ UNCHANGED <<now, cur>>

tick ==
    /\ heap' = Popped(heap)
    /\ fired' = Expired(heap)
    /\ live' = live \ fired'
    /\ cur' = now
    /\ UNCHANGED now

(* time passes between two calls *)
Elapse ==
    /\ now < MaxTime
    /\ now' = now + 1
    /\ UNCHANGED <<heap, live, cur, fired>>

Next ==
    \/ \E t \in Timer, d \in Offsets : add_timer(t, d) \/ adjust_timer(t, d)
    \/ \E t \in Timer : del_timer(t)
    \/ tick
    \/ Elapse

Spec == Init /\ [][Next]_vars
-----------------------------------------------------------------------------
(* Types, and: no operation writes to a timer after it was deleted, through
   whichever of head, tail, next and prev still led to it. *)
TypeOK ==
    /\ \A t \in Timer \ live : /\ heap.next[t] = NULL /\ heap.prev[t] = NULL
                               /\ heap.expire[t] = 0
    /\ heap \in [head : Pointer, tail : Pointer,
                 next : [Timer -> Pointer], prev : [Timer -> Pointer],
                 expire : [Timer -> Int]]
    /\ live \subseteq Timer
    /\ now \in 0 .. MaxTime /\ cur \in 0 .. now
    /\ fired \subseteq Timer

(* The k-th node from the head, NULL behind the last one. *)
Nth[k \in 1 .. Cardinality(Timer) + 1] ==
    IF k = 1 THEN heap.head
    ELSE IF Nth[k - 1] = NULL THEN NULL
    ELSE heap.next[Nth[k - 1]]

(* Following next from head visits every live timer, only live timers, and
   ends at tail; prev is the way back.  del_timer and adjust_timer follow
   these pointers without a test, so this is what keeps them from touching
   a deleted timer or losing one. *)
WellLinked ==
    /\ {Nth[k] : k \in DOMAIN Nth} \ {NULL} = live
    /\ \A j, k \in DOMAIN Nth : j < k /\ Nth[j] = Nth[k] => Nth[j] = NULL
    /\ live # {} => heap.prev[heap.head] = NULL /\ heap.next[heap.tail] = NULL
    /\ live # {} => heap.tail \in live
    /\ \A t \in live : heap.next[t] # NULL => heap.prev[heap.next[t]] = t

(* Timers are in the order of their expiry, which is why tick may stop at the
   first one that has not expired. *)
Sorted ==
    \A t \in live : heap.next[t] # NULL =>
        heap.expire[t] <= heap.expire[heap.next[t]]

Left == [t \in live |-> heap.expire[t] - cur]

Service == INSTANCE TimerService
               WITH left <- Left,
                    Delay <- {s + d : s \in 0 .. MaxTime, d \in Offsets},
                    Elapse <- 0 .. MaxTime

(* The list is a timer service: a tick runs exactly the callbacks of the
   timers whose expiry has passed, each once, whatever was added, adjusted
   and deleted before. *)
ImplementsService == Service!Spec
=============================================================================
