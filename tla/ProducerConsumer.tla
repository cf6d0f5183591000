-------------------------- MODULE ProducerConsumer --------------------------
(***************************************************************************)
(* thread/producer_consumer.c: one producer and one consumer around a      *)
(* buffer for one item, with a mutex and a condition variable for each.    *)
(* The two loops differ in when they wait and in what they do to the       *)
(* buffer, so each action takes the thread as its parameter.               *)
(***************************************************************************)
EXTENDS Naturals

CONSTANT MAX    \* the number of items, 10 in the code

VARIABLES
    buffer,     \* the item, 0 when there is none
    the_mutex,  \* the thread that holds the mutex, or "nobody"
    i,          \* i[t]: the loop counter of thread t
    pc          \* what each thread does next

vars == <<buffer, the_mutex, i, pc>>

Thread == {"producer", "consumer"}
Other(t) == IF t = "producer" THEN "consumer" ELSE "producer"

Init ==
    /\ buffer = 0
    /\ the_mutex = "nobody"
    /\ i = [t \in Thread |-> 1]
    /\ pc = [t \in Thread |-> "lock"]

Goto(t, l) == pc' = [pc EXCEPT ![t] = l]

(* pthread_mutex_lock, at the head of the loop or on the way out of
   pthread_cond_wait *)
lock(t) ==
    /\ pc[t] \in {"lock", "woken"}
    /\ the_mutex = "nobody"
    /\ the_mutex' = t
    /\ Goto(t, "test")
    /\ UNCHANGED <<buffer, i>>

MustWait_never(t) == FALSE
MustWait(t) == IF t = "producer" THEN buffer # 0 ELSE buffer = 0

(* pthread_cond_wait releases the mutex and sleeps in one step; it may return
   without a signal. *)
cond_wait(t) ==
    /\ pc[t] = "test"
    /\ MustWait(t)
    /\ the_mutex' = "nobody"
    /\ Goto(t, "asleep")
    /\ UNCHANGED <<buffer, i>>

spurious_wakeup(t) ==
    /\ pc[t] = "asleep"
    /\ Goto(t, "woken")
    /\ UNCHANGED <<buffer, the_mutex, i>>

(* the producer stores item i, the consumer removes what is there *)
use_buffer(t) ==
    /\ pc[t] = "test"
    /\ ~ MustWait(t)
    /\ buffer' = IF t = "producer" THEN i[t] ELSE 0
    /\ Goto(t, "signal")
    /\ UNCHANGED <<the_mutex, i>>

Wake_self(t) == t
Wake(t) == Other(t)

(* pthread_cond_signal wakes the other thread if it sleeps and is forgotten
   otherwise *)
signal(t) ==
    /\ pc[t] = "signal"
    /\ pc' = [pc EXCEPT ![t] = "unlock",
                        ![Wake(t)] = IF @ = "asleep" THEN "woken" ELSE @]
    /\ UNCHANGED <<buffer, the_mutex, i>>

LoopsOn(t) == i[t] < MAX

unlock(t) ==
    /\ pc[t] = "unlock"
    /\ the_mutex' = "nobody"
    /\ i' = [i EXCEPT ![t] = @ + 1]
    /\ Goto(t, IF LoopsOn(t) THEN "lock" ELSE "exit")
    /\ UNCHANGED buffer

step(t) == lock(t) \/ cond_wait(t) \/ use_buffer(t) \/ signal(t) \/ unlock(t)

(* main returns when it has joined both threads *)
joined == (\A t \in Thread : pc[t] = "exit") /\ UNCHANGED vars

Next ==
    \/ \E t \in Thread : step(t) \/ spurious_wakeup(t)
    \/ joined

(* Both threads are scheduled, and a thread that asks for the mutex gets it in
   the end, however often the other one is woken for nothing.  No wakeup comes
   without a signal for certain. *)
Fairness == \A t \in Thread : WF_vars(step(t)) /\ SF_vars(lock(t))

Spec == Init /\ [][Next]_vars /\ Fairness
-----------------------------------------------------------------------------
Locked == {"test", "signal", "unlock"}

TypeOK ==
    /\ buffer \in 0 .. MAX
    /\ the_mutex \in Thread \cup {"nobody"}
    /\ i \in [Thread -> 1 .. MAX + 1]
    /\ pc \in [Thread -> Locked \cup {"lock", "woken", "asleep", "exit"}]
    /\ \A t \in Thread : pc[t] \in Locked <=> the_mutex = t

(* The consumer removes item 1, 2, 3, ... as it prints: no item is overwritten
   before it is removed and none is removed twice.  In other words, what is in
   the buffer when the consumer takes it is the item of its own counter. *)
ConsumesInOrder ==
    pc["consumer"] = "test" /\ buffer # 0 => buffer = i["consumer"]

(* A thread sleeps only as long as it has to, unless the other one is about to
   signal: a signal sent to nobody is never missed, and the two never sleep at
   the same time. *)
NoLostSignal ==
    \A t \in Thread :
        pc[t] = "asleep" => \/ MustWait(t) /\ pc[Other(t)] # "asleep"
                            \/ pc[Other(t)] = "signal"

(* Both threads come to the end of their loops, whatever the scheduling: main
   returns from pthread_join. *)
BothExit == <>(\A t \in Thread : pc[t] = "exit")
=============================================================================
