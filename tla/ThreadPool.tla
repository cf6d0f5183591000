----------------------------- MODULE ThreadPool -----------------------------
(***************************************************************************)
(* The thread pool of codes/15/15-3threadpool.h over the mutex and the     *)
(* semaphore of codes/14/14-2locker.h.  Threads interleave at every call   *)
(* of lock, unlock, wait and post, and between front() and pop_front().    *)
(*                                                                         *)
(* A request is the number of the append call that accepted it, so that    *)
(* two appends of the same T* can be told apart.                           *)
(***************************************************************************)
EXTENDS Naturals, Sequences, FiniteSets

CONSTANTS
    Worker,         \* the m_thread_number threads of the pool
    Producer,       \* the threads that call append
    Nobody,         \* holder of a free mutex
    m_max_requests,
    NullRequests,   \* the appends that pass a NULL request
    MaxAppends      \* bound: no append starts when so many were accepted

Thread == Worker \cup Producer

ASSUME ThreadAssumption == Worker \cap Producer = {} /\ Nobody \notin Thread
ASSUME FiniteAssumption == IsFiniteSet(Worker) /\ IsFiniteSet(Producer)
(* the constructor throws otherwise *)
ASSUME MaxAssumption == m_max_requests \in Nat \ {0}
ASSUME BoundAssumption == MaxAppends \in Nat

VARIABLES
    m_workqueue,    \* the requests waiting
    m_queuelocker,  \* the thread that holds the mutex, or Nobody
    m_queuestat,    \* the value of the semaphore
    m_stop,
    pc,             \* what each thread does next
    token,          \* token[w]: w's last wait() decremented the semaphore
    request,        \* request[w]: w's local variable, 0 when it has none
    accepted,       \* how many requests have been pushed
    processed       \* the requests a worker has finished with

vars == <<m_workqueue, m_queuelocker, m_queuestat, m_stop, pc, token, request,
          accepted, processed>>

Init ==
    /\ m_workqueue = <<>>
    /\ m_queuelocker = Nobody
    /\ m_queuestat = 0
    /\ m_stop = FALSE
    /\ pc = [t \in Thread |-> IF t \in Worker THEN "loop" ELSE "idle"]
    /\ token = [w \in Worker |-> FALSE]
    /\ request = [w \in Worker |-> 0]
    /\ accepted = 0
    /\ processed = {}

(* pthread_mutex_lock and sem_post, as the pool uses them *)
Free == m_queuelocker = Nobody

Posted_binary == 1
Posted == m_queuestat + 1

Goto(t, l) == pc' = [pc EXCEPT ![t] = l]

lock(t, from, to) ==
    /\ pc[t] = from
    /\ Free
    /\ m_queuelocker' = t
    /\ Goto(t, to)
    /\ UNCHANGED <<m_workqueue, m_queuestat, m_stop, token, request, accepted, processed>>

unlock(t, from, to) ==
    /\ pc[t] = from
    /\ m_queuelocker' = Nobody
    /\ Goto(t, to)
    /\ UNCHANGED <<m_workqueue, m_queuestat, m_stop, token, request, accepted, processed>>
-----------------------------------------------------------------------------
(* append(request), called while the pool exists *)
append_lock(p) ==
    /\ accepted < MaxAppends
    /\ ~ m_stop
    /\ lock(p, "idle", "size")

TooMany == Len(m_workqueue) > m_max_requests

append_reject(p) ==
    /\ TooMany
    /\ unlock(p, "size", "idle")

append_push(p) ==
    /\ pc[p] = "size"
    /\ ~ TooMany
    /\ accepted' = accepted + 1
    /\ m_workqueue' = Append(m_workqueue, accepted')
    /\ Goto(p, "pushed")
    /\ UNCHANGED <<m_queuelocker, m_queuestat, m_stop, token, request, processed>>

append_unlock(p) == unlock(p, "pushed", "post")

append_post(p) ==
    /\ pc[p] = "post"
    /\ m_queuestat' = Posted
    /\ Goto(p, "idle")
    /\ UNCHANGED <<m_workqueue, m_queuelocker, m_stop, token, request, accepted, processed>>

append(p) == append_lock(p) \/ append_reject(p) \/ append_push(p)
             \/ append_unlock(p) \/ append_post(p)
-----------------------------------------------------------------------------
(* run() *)
run_loop(w) ==
    /\ pc[w] = "loop"
    /\ Goto(w, IF m_stop THEN "exit" ELSE "wait")
    /\ UNCHANGED <<m_workqueue, m_queuelocker, m_queuestat, m_stop, token, request,
                   accepted, processed>>

run_wait(w) ==
    /\ pc[w] = "wait"
    /\ m_queuestat > 0
    /\ m_queuestat' = m_queuestat - 1
    /\ token' = [token EXCEPT ![w] = TRUE]
    /\ Goto(w, "lock")
    /\ UNCHANGED <<m_workqueue, m_queuelocker, m_stop, request, accepted, processed>>

(* wait() returns false when a signal handler interrupts it; run() does not
   look at the result. *)
run_interrupted(w) ==
    /\ pc[w] = "wait"
    /\ token' = [token EXCEPT ![w] = FALSE]
    /\ Goto(w, "lock")
    /\ UNCHANGED <<m_workqueue, m_queuelocker, m_queuestat, m_stop, request,
                   accepted, processed>>

run_lock(w) == lock(w, "lock", "empty")

run_empty(w) ==
    /\ m_workqueue = <<>>
    /\ unlock(w, "empty", "loop")

run_front(w) ==
    /\ pc[w] = "empty"
    /\ m_workqueue # <<>>
    /\ request' = [request EXCEPT ![w] = Head(m_workqueue)]
    /\ Goto(w, "pop")
    /\ UNCHANGED <<m_workqueue, m_queuelocker, m_queuestat, m_stop, token,
                   accepted, processed>>

Popped_back == SubSeq(m_workqueue, 1, Len(m_workqueue) - 1)
Popped == Tail(m_workqueue)

run_pop(w) ==
    /\ pc[w] = "pop"
    /\ m_workqueue' = Popped
    /\ Goto(w, "popped")
    /\ UNCHANGED <<m_queuelocker, m_queuestat, m_stop, token, request, accepted,
                   processed>>

run_unlock(w) == unlock(w, "popped", "process")

(* request->process(), skipped when request is NULL *)
run_process(w) ==
    /\ pc[w] = "process"
    /\ processed' = IF request[w] \in NullRequests THEN processed
                    ELSE processed \cup {request[w]}
    /\ request' = [request EXCEPT ![w] = 0]
    /\ Goto(w, "loop")
    /\ UNCHANGED <<m_workqueue, m_queuelocker, m_queuestat, m_stop, token, accepted>>

run(w) == run_loop(w) \/ run_wait(w) \/ run_lock(w) \/ run_empty(w) \/ run_front(w)
          \/ run_pop(w) \/ run_unlock(w) \/ run_process(w)

(* ~threadpool, called when nobody is appending *)
destroy ==
    /\ \A p \in Producer : pc[p] = "idle"
    /\ ~ m_stop
    /\ m_stop' = TRUE
    /\ UNCHANGED <<m_workqueue, m_queuelocker, m_queuestat, pc, token, request,
                   accepted, processed>>

Next ==
    \/ \E p \in Producer : append(p)
    \/ \E w \in Worker : run(w) \/ run_interrupted(w)
    \/ destroy

(* The scheduler runs every thread that can run, a call of append returns, and
   producers that retry a full pool do not keep the mutex from all the workers
   for ever (which worker gets it is left open).  Nothing forces a signal, a
   call of append or the end of the pool. *)
Fairness ==
    /\ \A w \in Worker : WF_vars(run(w))
    /\ \A p \in Producer : WF_vars(append(p) /\ pc[p] # "idle")
    /\ SF_vars(\E w \in Worker : run_lock(w))

Spec == Init /\ [][Next]_vars /\ Fairness
-----------------------------------------------------------------------------
ProducerPC == {"idle", "size", "pushed", "post"}
WorkerPC == {"loop", "wait", "lock", "empty", "pop", "popped", "process", "exit"}
Locked == {"size", "pushed", "empty", "pop", "popped"}

(* Types, and: the queue grows to one more than m_max_requests, never more. *)
TypeOK ==
    /\ m_workqueue \in Seq(Nat)
    /\ Len(m_workqueue) <= m_max_requests + 1
    /\ m_queuelocker \in Thread \cup {Nobody}
    /\ m_queuestat \in Nat
    /\ m_stop \in BOOLEAN
    /\ pc \in [Thread -> ProducerPC \cup WorkerPC]
    /\ \A p \in Producer : pc[p] \in ProducerPC
    /\ \A w \in Worker : pc[w] \in WorkerPC
    /\ token \in [Worker -> BOOLEAN]
    /\ request \in [Worker -> Nat]
    /\ accepted \in Nat
    /\ processed \subseteq Nat

(* A thread is between lock and unlock exactly when it holds the mutex: two
   threads are never in the list at the same time. *)
MutualExclusion ==
    \A t \in Thread : pc[t] \in Locked <=> m_queuelocker = t

(* The requests a worker has in hand after taking them off the list *)
InHand == {w \in Worker : pc[w] \in {"popped", "process"}}

(* Requests leave the list in the order of their appends, each for one worker
   only: what is in the list are the last requests accepted, what the workers
   have in hand or have processed are earlier ones, and no request is in two
   hands or processed twice. *)
ExactlyOnce ==
    LET taken == accepted - Len(m_workqueue)
    IN  /\ \A i \in 1 .. Len(m_workqueue) : m_workqueue[i] = taken + i
        /\ \A w \in InHand : request[w] \in 1 .. taken /\ request[w] \notin processed
        /\ \A v, w \in InHand : v # w => request[v] # request[w]
        /\ \A k \in processed : k \in 1 .. taken

(* Workers that a unit of the semaphore has let through and that have not
   reached the list yet, and producers that still have to post *)
Coming == {w \in Worker : token[w] /\ pc[w] \in {"lock", "empty", "pop"}}
Posting == {p \in Producer : pc[p] \in {"pushed", "post"}}

(* Every waiting request has a unit of the semaphore, a worker that already
   took one, or a producer about to post one: although append posts after
   unlock, and wait may return without a unit, no request is ever left in the
   list with all workers asleep. *)
NoLostWakeup ==
    Len(m_workqueue) <= m_queuestat + Cardinality(Coming) + Cardinality(Posting)

(* Unless the pool is destroyed, every accepted request is processed (or
   dropped, if it was NULL). *)
EveryRequestProcessed ==
    \A k \in 1 .. MaxAppends \ NullRequests :
        accepted >= k ~> (k \in processed \/ m_stop)
=============================================================================
