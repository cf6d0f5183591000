------------------------------ MODULE TimeHeap ------------------------------
(***************************************************************************)
(* The array heap of timers of codes/11/11-6time_heap.h.  del_timer is     *)
(* lazy: it only clears the callback, and the timer stays in the array     *)
(* until tick pops it.                                                     *)
(***************************************************************************)
EXTENDS Integers, FiniteSets, SequencesExt

CONSTANTS
    Timer,      \* addresses at which heap_timer objects can be allocated
    NULL,
    Offsets,    \* delays a heap_timer is constructed with
    Cap,        \* initial capacity, positive: resize doubles it, so a heap made
                \* with capacity 0 never grows
    MaxTime     \* bound on the clock

VARIABLES
    array,      \* array[0 .. capacity-1]; what is behind cur_size is stale
    cur_size,
    expire,     \* expire[t], 0 for a timer that is not allocated
    cb,         \* the timers with a callback: added and not deleted
    now,        \* what time(NULL) returns
    cur,        \* what it returned in the last tick
    fired       \* the timers whose cb_func ran in the last operation

vars == <<array, cur_size, expire, cb, now, cur, fired>>

Pointer == Timer \cup {NULL}
capacity == Cardinality(DOMAIN array)
live == {array[i] : i \in 0 .. cur_size - 1}

(* percolate_down(hole) in the first n elements of a *)
SmallerChild_left_only(a, n, hole) == 2 * hole + 1
SmallerChild(a, n, hole) ==
    LET child == 2 * hole + 1
    IN  IF child < n - 1 /\ expire[a[child + 1]] < expire[a[child]]
        THEN child + 1 ELSE child

RECURSIVE Sift(_, _, _, _)
Sift(a, n, hole, temp) ==
    LET child == SmallerChild(a, n, hole)
    IN  IF 2 * hole + 1 <= n - 1 /\ expire[a[child]] < expire[temp]
        THEN Sift([a EXCEPT ![hole] = a[child]], n, child, temp)
        ELSE [a EXCEPT ![hole] = temp]

percolate_down(a, n, hole) == Sift(a, n, hole, a[hole])

(* add_timer's loop: move parents down until the timer fits in the hole. *)
RECURSIVE PercolateUp(_, _, _, _)
PercolateUp(a, hole, timer, e) ==
    LET parent == (hole - 1) \div 2
    IN  IF hole > 0 /\ ~ (expire[a[parent]] <= e)
        THEN PercolateUp([a EXCEPT ![hole] = a[parent]], parent, timer, e)
        ELSE [a EXCEPT ![hole] = timer]

resize(a) ==
    [i \in 0 .. 2 * capacity - 1 |-> IF i < cur_size THEN a[i] ELSE NULL]

(* pop_timer: [array, size] after the top has been deleted *)
Pop(h) ==
    LET n == h.size - 1
    IN  [array |-> percolate_down([h.array EXCEPT ![0] = h.array[n]], n, 0),
         size |-> n]

(* tick pops for as long as the top has expired. *)
Due_strict(t) == expire[t] < now
Due(t) == expire[t] <= now
-----------------------------------------------------------------------------
(* time_heap(cap) *)
InitEmpty ==
    /\ array = [i \in 0 .. Cap - 1 |-> NULL]
    /\ cur_size = 0
    /\ expire = [t \in Timer |-> 0]
    /\ cb = {} /\ now = 0 /\ cur = 0 /\ fired = {}

(* time_heap(init_array, size, capacity), with room for all timers: they are
   heapified, from the last inner node to the root.  init_array may hold any. *)
Heapify(a, n) ==
    FoldLeft(LAMBDA x, i : percolate_down(x, n, i), a,
             [i \in 1 .. (n - 1) \div 2 + 1 |-> (n - 1) \div 2 + 1 - i])

InitFromArray ==
    /\ cur_size \in 0 .. Cardinality(Timer)
    /\ \E order \in SetToSeqs(Timer), e \in [Timer -> Offsets] :
          /\ cb = {order[i] : i \in 1 .. cur_size}
          /\ expire = [t \in Timer |-> IF t \in cb THEN e[t] ELSE 0]
          /\ LET a == [i \in 0 .. Cardinality(Timer) - 1 |->
                          IF i < cur_size THEN order[i + 1] ELSE NULL]
             IN  array = IF cur_size # 0 THEN Heapify(a, cur_size) ELSE a
    /\ now = 0 /\ cur = 0 /\ fired = {}

Init == InitEmpty \/ InitFromArray

Full_late == cur_size > capacity
Full == cur_size >= capacity

add_timer(t, d) ==
    /\ t \notin live
    /\ LET a == IF Full THEN resize(array) ELSE array
       IN  array' = PercolateUp(a, cur_size, t, now + d)
    /\ cur_size' = cur_size + 1
    /\ expire' = [expire EXCEPT ![t] = now + d]
    /\ cb' = cb \cup {t}
    /\ fired' = {}
    /\ UNCHANGED <<now, cur>>

(* A second del_timer of the same timer changes nothing. *)
del_timer(t) ==
    /\ t \in cb
    /\ cb' = cb \ {t}
    /\ fired' = {}
    /\ UNCHANGED <<array, cur_size, expire, now, cur>>

tick ==
    /\ LET h[k \in 0 .. cur_size] ==
               IF k = 0 THEN [array |-> array, size |-> cur_size] ELSE Pop(h[k - 1])
           n == CHOOSE k \in 0 .. cur_size :
                    /\ k = cur_size \/ ~ Due(h[k].array[0])
                    /\ \A j \in 0 .. k - 1 : Due(h[j].array[0])
           popped == {h[k].array[0] : k \in 0 .. n - 1}
       IN  /\ array' = h[n].array
           /\ cur_size' = h[n].size
           /\ fired' = popped \cap cb
           /\ cb' = cb \ popped
           /\ expire' = [t \in Timer |-> IF t \in popped THEN 0 ELSE expire[t]]
    /\ cur' = now
    /\ UNCHANGED now

(* time passes between two calls *)
Elapse ==
    /\ now < MaxTime
    /\ now' = now + 1
    /\ UNCHANGED <<array, cur_size, expire, cb, cur, fired>>

Next ==
    \/ \E t \in Timer, d \in Offsets : add_timer(t, d)
    \/ \E t \in Timer : del_timer(t)
    \/ tick
    \/ Elapse

Spec == Init /\ [][Next]_vars
-----------------------------------------------------------------------------
(* Types, and: the array always has room for the elements it counts. *)
TypeOK ==
    /\ DOMAIN array = 0 .. capacity - 1
    /\ \A i \in DOMAIN array : array[i] \in Pointer
    /\ cur_size \in 0 .. capacity
    /\ expire \in [Timer -> Int]
    /\ cb \subseteq Timer /\ fired \subseteq Timer
    /\ now \in 0 .. MaxTime /\ cur \in 0 .. now

(* No timer is earlier than its parent: the reason why tick may look at
   array[0] only. *)
HeapOrder ==
    \A i \in 1 .. cur_size - 1 : expire[array[(i - 1) \div 2]] <= expire[array[i]]

(* The first cur_size elements are distinct timers, and every timer that has a
   callback is one of them: percolating neither loses nor doubles a timer,
   which pop_timer would delete twice. *)
Complete ==
    /\ cb \subseteq live /\ live \subseteq Timer
    /\ Cardinality(live) = cur_size

Service == INSTANCE TimerService
               WITH left <- [t \in cb |-> expire[t] - cur],
                    Delay <- {s + d : s \in 0 .. MaxTime, d \in Offsets},
                    Elapse <- 0 .. MaxTime

(* The heap is a timer service, with the timers of init_array pending at first:
   a tick runs exactly the callbacks of the timers whose expiry has passed and
   that were not deleted. *)
ImplementsService == [][Service!Next]_Service!vars
=============================================================================
