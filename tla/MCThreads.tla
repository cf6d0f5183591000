------------------------------ MODULE MCThreads ------------------------------
(* Two programs with threads.  The pool: two workers and two producers around a
   list that is full with two entries; the third append passes NULL.  Producer
   and consumer as they are, with MAX = 10. *)
EXTENDS ThreadPool

CONSTANT MAX        \* of the producer and the consumer

ASSUME ItemsAssumption == MAX \in Nat \ {0}

VARIABLES program, buffer, the_mutex, i, place

P == INSTANCE ProducerConsumer WITH pc <- place

p_vars == <<buffer, the_mutex, i, place>>

(* The program that is not chosen has come to its end. *)
PoolEnded ==
    /\ m_workqueue = <<>> /\ m_queuelocker = Nobody /\ m_queuestat = 0 /\ m_stop = TRUE
    /\ pc = [t \in Thread |-> IF t \in Worker THEN "exit" ELSE "idle"]
    /\ token = [w \in Worker |-> FALSE] /\ request = [w \in Worker |-> 0]
    /\ accepted = 0 /\ processed = {}

BothExited ==
    /\ buffer = 0 /\ the_mutex = "nobody"
    /\ i = [t \in P!Thread |-> MAX + 1] /\ place = [t \in P!Thread |-> "exit"]

MCInit ==
    \/ program = "pool" /\ Init /\ BothExited
    \/ program = "producer and consumer" /\ PoolEnded /\ P!Init

MCNext ==
    \/ program = "pool" /\ Next /\ UNCHANGED <<program, p_vars>>
    \/ program = "producer and consumer" /\ P!Next /\ UNCHANGED <<program, vars>>

(* Nothing that is treated fairly is enabled in the program that is not chosen. *)
MCSpec == MCInit /\ [][MCNext]_<<program, vars, p_vars>> /\ Fairness /\ P!Fairness
-----------------------------------------------------------------------------
(* The consumer removes item 1, 2, 3, ... as it prints. *)
ConsumesInOrder == P!ConsumesInOrder

(* Every request that the pool accepts is processed, unless the pool is         *)
(* destroyed; producer and consumer come to the end of their loops, whatever    *)
(* the scheduling.                                                              *)
ThreadsEnd == EveryRequestProcessed /\ P!BothExit
=============================================================================
