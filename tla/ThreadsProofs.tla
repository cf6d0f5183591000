---------------------------- MODULE ThreadsProofs ----------------------------
(* The safety properties of the thread pool, for any number of workers and
   producers, any queue limit and any number of appends, and those of the
   producer and the consumer, for every MAX. *)
EXTENDS MCThreads, FiniteSetTheorems, TLAPS

(* A worker between front() and pop_front() has read the head of the list: the
   mutex keeps the head in place. *)
FrontIsHead ==
    \A w \in Worker :
        pc[w] = "pop" => m_workqueue # <<>> /\ request[w] = m_workqueue[1]

(* What every step preserves.  ExactlyOnce needs MutualExclusion (nobody pops
   between another worker's front and pop) and FrontIsHead. *)
SafeInv ==
    /\ TypeOK
    /\ MutualExclusion
    /\ FrontIsHead
    /\ Len(m_workqueue) <= accepted
    /\ ExactlyOnce

(* push_back adds one element behind the others *)
LEMMA PushFacts ==
    ASSUME NEW s \in Seq(Nat), NEW n \in Nat
    PROVE  /\ Append(s, n) \in Seq(Nat)
           /\ Len(Append(s, n)) = Len(s) + 1
           /\ \A j \in 1 .. Len(s) : Append(s, n)[j] = s[j]
           /\ Append(s, n)[Len(s) + 1] = n
  OBVIOUS

(* pop_front removes the first element and keeps the order of the others *)
LEMMA PopFacts ==
    ASSUME NEW s \in Seq(Nat), s # <<>>
    PROVE  /\ Tail(s) \in Seq(Nat)
           /\ Len(s) \in Nat \ {0}
           /\ Len(Tail(s)) = Len(s) - 1
           /\ \A j \in 1 .. Len(s) - 1 : Tail(s)[j] = s[j + 1]
           /\ Head(s) = s[1]
  OBVIOUS

(* lock, called by a thread outside its critical section, and unlock, called
   by one inside, keep the mutex and the places of the threads in step. *)
LEMMA LockUnlock ==
    ASSUME TypeOK, MutualExclusion, NEW t \in Thread, NEW l,
           \/ pc[t] \notin Locked /\ l \in Locked /\ m_queuelocker = Nobody
                /\ m_queuelocker' = t
           \/ pc[t] \in Locked /\ l \notin Locked /\ m_queuelocker' = Nobody
           \/ (pc[t] \in Locked <=> l \in Locked) /\ m_queuelocker' = m_queuelocker,
           Goto(t, l)
    PROVE  MutualExclusion'
  <1>1. SUFFICES ASSUME NEW u \in Thread
                 PROVE  pc'[u] \in Locked <=> m_queuelocker' = u
    BY DEF MutualExclusion
  <1>2. pc \in [Thread -> ProducerPC \cup WorkerPC] /\ pc' = [pc EXCEPT ![t] = l]
    BY DEF TypeOK, Goto
  <1>3. Nobody \notin Thread
    BY ThreadAssumption
  <1>4. CASE u = t
    BY <1>2, <1>3, <1>4 DEF MutualExclusion
  <1>5. CASE u # t
    <2>1. pc'[u] = pc[u]
      BY <1>2, <1>5
    <2> QED
      BY <2>1, <1>3, <1>5 DEF MutualExclusion
  <1> QED
    BY <1>4, <1>5

(* A step that only moves thread t from place to place, neither into the gap
   between front and pop nor into or out of the possession of a request, keeps
   the facts about requests. *)
LEMMA MoveOnly ==
    ASSUME SafeInv, NEW t \in Thread, NEW l, Goto(t, l), l # "pop",
           t \in Worker => (l \in {"popped", "process"} <=> pc[t] \in {"popped", "process"}),
           UNCHANGED <<m_workqueue, request, accepted, processed>>
    PROVE  FrontIsHead' /\ (Len(m_workqueue) <= accepted)' /\ ExactlyOnce'
  <1>1. pc \in [Thread -> ProducerPC \cup WorkerPC] /\ pc' = [pc EXCEPT ![t] = l]
    BY DEF SafeInv, TypeOK, Goto
  <1>2. \A w \in Worker : w \in Thread
    BY DEF Thread
  <1>3. FrontIsHead'
    BY <1>1, <1>2 DEF SafeInv, FrontIsHead
  <1>4. InHand' = InHand
    BY <1>1, <1>2, SMTT(30) DEF InHand
  <1>5. ExactlyOnce'
    BY <1>4 DEF SafeInv, ExactlyOnce
  <1> QED
    BY <1>3, <1>5 DEF SafeInv

(* Only one thread is in its critical section. *)
LEMMA Alone ==
    ASSUME MutualExclusion, NEW t \in Thread, NEW u \in Thread,
           pc[t] \in Locked, pc[u] \in Locked
    PROVE  t = u
  BY DEF MutualExclusion

(* push_back in append *)
LEMMA PushSafe ==
    ASSUME SafeInv, NEW p \in Producer, append_push(p)
    PROVE  SafeInv'
  <1> USE DEF SafeInv
  <1>1. p \in Thread /\ pc[p] = "size" /\ pc[p] \in Locked /\ "pushed" \in Locked
    BY DEF Thread, append_push, Locked
  <1>2. /\ accepted' = accepted + 1
        /\ m_workqueue' = Append(m_workqueue, accepted + 1)
        /\ pc' = [pc EXCEPT ![p] = "pushed"]
        /\ Len(m_workqueue) <= m_max_requests
        /\ UNCHANGED <<m_queuelocker, m_queuestat, m_stop, token, request, processed>>
    BY MaxAssumption DEF append_push, Goto, TooMany, TypeOK
  <1>3. accepted \in Nat /\ m_workqueue \in Seq(Nat) /\ Len(m_workqueue) \in Nat
    BY DEF TypeOK
  <1>4. /\ m_workqueue' \in Seq(Nat)
        /\ Len(m_workqueue') = Len(m_workqueue) + 1
        /\ \A j \in 1 .. Len(m_workqueue) : m_workqueue'[j] = m_workqueue[j]
        /\ m_workqueue'[Len(m_workqueue) + 1] = accepted + 1
    BY <1>2, <1>3, PushFacts, SMTT(30)
  <1>5. TypeOK'
    <2>1. Len(m_workqueue') <= m_max_requests + 1
      BY <1>2, <1>3, <1>4, MaxAssumption
    <2>2. p \notin Worker
      BY ThreadAssumption
    <2> QED
      BY <1>1, <1>2, <1>3, <1>4, <2>1, <2>2, SMTT(30) DEF TypeOK, Thread, ProducerPC
  <1>6. MutualExclusion'
    BY <1>1, <1>2, LockUnlock, Zenon DEF Goto
  <1>7. p \notin Worker /\ \A w \in Worker : w \in Thread /\ pc'[w] = pc[w]
    BY <1>2, ThreadAssumption DEF TypeOK, Thread
  <1>8. FrontIsHead'
    <2>1. \A w \in Worker : pc[w] # "pop"
      BY <1>1, <1>7, Alone DEF Locked
    <2> QED
      BY <1>7, <2>1 DEF FrontIsHead
  <1>9. InHand' = InHand
    BY <1>7 DEF InHand
  <1>10. accepted' - Len(m_workqueue') = accepted - Len(m_workqueue)
    BY <1>2, <1>3, <1>4
  <1>11. \A j \in 1 .. Len(m_workqueue') :
            m_workqueue'[j] = (accepted' - Len(m_workqueue')) + j
    <2>1. SUFFICES ASSUME NEW j \in 1 .. Len(m_workqueue')
                   PROVE  m_workqueue'[j] = (accepted - Len(m_workqueue)) + j
      BY <1>10
    <2>2. CASE j \in 1 .. Len(m_workqueue)
      BY <1>4, <2>2 DEF ExactlyOnce
    <2>3. CASE j = Len(m_workqueue) + 1
      BY <1>3, <1>4, <2>3, SMTT(30)
    <2> QED
      BY <1>3, <1>4, <2>2, <2>3
  <1>12. ExactlyOnce'
    BY <1>2, <1>9, <1>10, <1>11, SMTT(30) DEF ExactlyOnce
  <1> QED
    BY <1>2, <1>3, <1>4, <1>5, <1>6, <1>8, <1>12, SMTT(30)

(* front() in run *)
LEMMA FrontSafe ==
    ASSUME SafeInv, NEW w \in Worker, run_front(w)
    PROVE  SafeInv'
  <1> USE DEF SafeInv
  <1>1. w \in Thread /\ pc[w] = "empty" /\ pc[w] \in Locked /\ "pop" \in Locked
    BY DEF Thread, run_front, Locked
  <1>2. /\ m_workqueue # <<>>
        /\ request' = [request EXCEPT ![w] = Head(m_workqueue)]
        /\ pc' = [pc EXCEPT ![w] = "pop"]
        /\ UNCHANGED <<m_workqueue, m_queuelocker, m_queuestat, m_stop, token,
                       accepted, processed>>
    BY DEF run_front, Goto
  <1>3. Head(m_workqueue) = m_workqueue[1] /\ m_workqueue[1] \in Nat
    BY <1>2, PopFacts DEF TypeOK
  <1>4. w \notin Producer
    BY ThreadAssumption, SMTT(30)
  <1>5. TypeOK'
    BY <1>1, <1>2, <1>3, <1>4, SMTT(30) DEF TypeOK, Thread, WorkerPC
  <1>6. MutualExclusion'
    BY <1>1, <1>2, LockUnlock, Zenon DEF Goto
  <1>7. FrontIsHead'
    <2>1. SUFFICES ASSUME NEW v \in Worker, pc'[v] = "pop"
                   PROVE  request'[v] = m_workqueue[1]
      BY <1>2 DEF FrontIsHead
    <2>2. CASE v = w
      BY <1>2, <1>3, <2>2, SMTT(30) DEF TypeOK
    <2>3. CASE v # w
      BY <1>2, <2>1, <2>3, SMTT(30) DEF FrontIsHead, TypeOK, Thread
    <2> QED
      BY <2>2, <2>3
  <1>8. InHand' = InHand /\ \A v \in InHand : request'[v] = request[v]
    BY <1>1, <1>2 DEF InHand, TypeOK, Thread
  <1>9. ExactlyOnce'
    BY <1>2, <1>8 DEF ExactlyOnce
  <1> QED
    BY <1>2, <1>5, <1>6, <1>7, <1>9, SMTT(30)

(* pop_front() in run: the request leaves the list for the hands of w. *)
LEMMA PopSafe ==
    ASSUME SafeInv, NEW w \in Worker, run_pop(w)
    PROVE  SafeInv'
  <1> USE DEF SafeInv
  <1>1. w \in Thread /\ pc[w] = "pop" /\ pc[w] \in Locked /\ "popped" \in Locked
    BY DEF Thread, run_pop, Locked
  <1>2. /\ m_workqueue' = Tail(m_workqueue)
        /\ pc' = [pc EXCEPT ![w] = "popped"]
        /\ UNCHANGED <<m_queuelocker, m_queuestat, m_stop, token, request, accepted,
                       processed>>
    BY DEF run_pop, Popped, Goto
  <1>3. m_workqueue # <<>> /\ request[w] = m_workqueue[1]
    BY <1>1 DEF FrontIsHead
  <1>4. accepted \in Nat /\ m_workqueue \in Seq(Nat)
    BY DEF TypeOK
  <1>5. /\ m_workqueue' \in Seq(Nat)
        /\ Len(m_workqueue) \in Nat \ {0}
        /\ Len(m_workqueue') = Len(m_workqueue) - 1
        /\ \A j \in 1 .. Len(m_workqueue) - 1 : m_workqueue'[j] = m_workqueue[j + 1]
    BY <1>2, <1>3, <1>4, PopFacts, SMTT(30)
  <1>6. w \notin Producer
    BY ThreadAssumption
  <1>7. TypeOK'
    <2>1. Len(m_workqueue') <= m_max_requests + 1
      BY <1>5, MaxAssumption DEF TypeOK
    <2> QED
      BY <1>1, <1>2, <1>5, <1>6, <2>1, Zenon DEF TypeOK, Thread, WorkerPC
  <1>8. MutualExclusion'
    BY <1>1, <1>2, LockUnlock, Zenon DEF Goto
  <1>9. \A v \in Worker : v # w => pc'[v] = pc[v] /\ pc[v] \notin Locked
    BY <1>1, <1>2, Alone, Zenon DEF TypeOK, Thread
  <1>10. FrontIsHead'
    BY <1>1, <1>2, <1>9, SMTT(30) DEF FrontIsHead, TypeOK, Locked
  <1>11. InHand' = InHand \cup {w} /\ w \notin InHand
    BY <1>1, <1>2, <1>9, SMTT(30) DEF InHand, TypeOK
  <1> DEFINE taken == accepted - Len(m_workqueue)
  <1>12. taken \in Nat /\ accepted' - Len(m_workqueue') = taken + 1
    BY <1>2, <1>4, <1>5, SMTT(30)
  <1>13. request[w] = taken + 1
    BY <1>3, <1>5 DEF ExactlyOnce
  <1>14. \A j \in 1 .. Len(m_workqueue') : m_workqueue'[j] = (taken + 1) + j
    <2>1. SUFFICES ASSUME NEW j \in 1 .. Len(m_workqueue')
                   PROVE  m_workqueue'[j] = (taken + 1) + j
      OBVIOUS
    <2>2. j + 1 \in 1 .. Len(m_workqueue) /\ m_workqueue'[j] = m_workqueue[j + 1]
      BY <1>5
    <2>3. m_workqueue[j + 1] = taken + (j + 1)
      BY <2>2 DEF ExactlyOnce
    <2> QED
      BY <1>12, <2>2, <2>3
  <1>15. /\ \A v \in InHand : request[v] \in 1 .. taken /\ request[v] \notin processed
         /\ \A k \in processed : k \in 1 .. taken
         /\ \A u, v \in InHand : u # v => request[u] # request[v]
    BY DEF ExactlyOnce
  <1>16. /\ \A v \in InHand' : request'[v] \in 1 .. taken + 1 /\ request'[v] \notin processed'
         /\ \A k \in processed' : k \in 1 .. taken + 1
    BY <1>2, <1>11, <1>12, <1>13, <1>15, SMTT(30)
  <1>17. \A u, v \in InHand' : u # v => request'[u] # request'[v]
    BY <1>2, <1>11, <1>12, <1>13, <1>15, SMTT(30)
  <1>18. ExactlyOnce'
    BY <1>12, <1>14, <1>16, <1>17, SMTT(30) DEF ExactlyOnce
  <1> QED
    BY <1>2, <1>4, <1>5, <1>7, <1>8, <1>10, <1>18, SMTT(30)

(* request->process() *)
LEMMA ProcessSafe ==
    ASSUME SafeInv, NEW w \in Worker, run_process(w)
    PROVE  SafeInv'
  <1> USE DEF SafeInv
  <1>1. w \in Thread /\ pc[w] = "process" /\ pc[w] \notin Locked /\ "loop" \notin Locked
    BY DEF Thread, run_process, Locked
  <1>2. /\ processed' \subseteq processed \cup {request[w]}
        /\ request' = [request EXCEPT ![w] = 0]
        /\ pc' = [pc EXCEPT ![w] = "loop"]
        /\ UNCHANGED <<m_workqueue, m_queuelocker, m_queuestat, m_stop, token, accepted>>
    BY DEF run_process, Goto
  <1>3. w \notin Producer
    BY ThreadAssumption
  <1>4. TypeOK'
    BY <1>1, <1>2, <1>3, ZenonT(60) DEF TypeOK, Thread, WorkerPC
  <1>5. MutualExclusion'
    BY <1>1, <1>2, LockUnlock, Zenon DEF Goto
  <1>6. FrontIsHead'
    BY <1>1, <1>2, SMTT(30) DEF FrontIsHead, TypeOK, Thread
  <1>7. InHand' = InHand \ {w} /\ w \in InHand
    BY <1>1, <1>2, SMTT(30) DEF InHand, TypeOK, Thread
  <1>8. \A v \in InHand' : request'[v] = request[v]
    BY <1>2, <1>7, SMTT(30) DEF TypeOK, InHand
  <1>9. ExactlyOnce'
    BY <1>2, <1>7, <1>8, SMTT(30) DEF ExactlyOnce
  <1> QED
    BY <1>2, <1>4, <1>5, <1>6, <1>9, SMTT(30)

(* The other steps of append only move the producer, the mutex and the
   semaphore. *)
LEMMA AppendSafe ==
    ASSUME SafeInv, NEW p \in Producer, append(p)
    PROVE  SafeInv'
  <1> USE DEF SafeInv
  <1>1. p \in Thread /\ p \notin Worker
    BY ThreadAssumption DEF Thread
  <1>2. CASE append_lock(p)
    <2>1. pc[p] = "idle" /\ Goto(p, "size") /\ m_queuelocker = Nobody /\ m_queuelocker' = p
      BY <1>2 DEF append_lock, lock, Free
    <2>2. UNCHANGED <<m_workqueue, m_queuestat, m_stop, token, request, accepted, processed>>
      BY <1>2 DEF append_lock, lock
    <2>3. TypeOK'
      BY <1>1, <2>1, <2>2, SMTT(30) DEF TypeOK, Goto, ProducerPC
    <2>4. MutualExclusion'
      BY <1>1, <2>1, LockUnlock, SMTT(30) DEF Locked
    <2> QED
      BY <1>1, <2>1, <2>2, <2>3, <2>4, MoveOnly, SMTT(30)
  <1>3. CASE append_reject(p) \/ append_unlock(p)
    <2>1. PICK l \in {"idle", "post"} :
              pc[p] \in {"size", "pushed"} /\ Goto(p, l) /\ m_queuelocker' = Nobody
      BY <1>3 DEF append_reject, append_unlock, unlock
    <2>2. UNCHANGED <<m_workqueue, m_queuestat, m_stop, token, request, accepted, processed>>
      BY <1>3, SMTT(30) DEF append_reject, append_unlock, unlock
    <2>3. TypeOK'
      BY <1>1, <2>1, <2>2 DEF TypeOK, Goto, ProducerPC
    <2>4. MutualExclusion'
      BY <1>1, <2>1, LockUnlock DEF Locked
    <2> QED
      BY <1>1, <2>1, <2>2, <2>3, <2>4, MoveOnly, SMTT(30)
  <1>4. CASE append_push(p)
    BY <1>4, PushSafe
  <1>5. CASE append_post(p)
    <2>1. pc[p] = "post" /\ Goto(p, "idle") /\ m_queuestat' = m_queuestat + 1
      BY <1>5 DEF append_post, Posted
    <2>2. UNCHANGED <<m_workqueue, m_queuelocker, m_stop, token, request, accepted, processed>>
      BY <1>5 DEF append_post
    <2>3. TypeOK'
      BY <1>1, <2>1, <2>2 DEF TypeOK, Goto, ProducerPC
    <2>4. MutualExclusion'
      BY <1>1, <2>1, <2>2, LockUnlock, Zenon DEF Locked
    <2> QED
      BY <1>1, <2>1, <2>2, <2>3, <2>4, MoveOnly, SMTT(30)
  <1> QED
    BY <1>2, <1>3, <1>4, <1>5 DEF append

(* The steps of a worker *)
LEMMA RunSafe ==
    ASSUME SafeInv, NEW w \in Worker, run(w) \/ run_interrupted(w)
    PROVE  SafeInv'
  <1> USE DEF SafeInv
  <1>1. w \in Thread /\ w \notin Producer
    BY ThreadAssumption DEF Thread
  <1>2. CASE run_loop(w) \/ run_wait(w) \/ run_interrupted(w)
    <2>1. PICK l \in {"exit", "wait", "lock"} : pc[w] \in {"loop", "wait"} /\ Goto(w, l)
      BY <1>2, Zenon DEF run_loop, run_wait, run_interrupted
    <2>2. UNCHANGED <<m_workqueue, m_queuelocker, m_stop, request, accepted, processed>>
      BY <1>2, Zenon DEF run_loop, run_wait, run_interrupted
    <2>3. m_queuestat' \in Nat
      BY <1>2 DEF run_loop, run_wait, run_interrupted, TypeOK
    <2>4. token' \in [Worker -> BOOLEAN]
      BY <1>2, Zenon DEF run_loop, run_wait, run_interrupted, TypeOK
    <2>5. TypeOK'
      BY <1>1, <2>1, <2>2, <2>3, <2>4, SMTT(30) DEF TypeOK, Goto, WorkerPC
    <2>6. MutualExclusion'
      BY <1>1, <2>1, <2>2, LockUnlock, Zenon DEF Locked
    <2> QED
      BY <1>1, <2>1, <2>2, <2>5, <2>6, MoveOnly, SMTT(30)
  <1>3. CASE run_lock(w)
    <2>1. pc[w] = "lock" /\ Goto(w, "empty") /\ m_queuelocker = Nobody /\ m_queuelocker' = w
      BY <1>3 DEF run_lock, lock, Free
    <2>2. UNCHANGED <<m_workqueue, m_queuestat, m_stop, token, request, accepted, processed>>
      BY <1>3, SMTT(30) DEF run_lock, lock
    <2>3. TypeOK'
      BY <1>1, <2>1, <2>2, SMTT(30) DEF TypeOK, Goto, WorkerPC
    <2>4. MutualExclusion'
      BY <1>1, <2>1, LockUnlock DEF Locked
    <2> QED
      BY <1>1, <2>1, <2>2, <2>3, <2>4, MoveOnly, Zenon
  <1>4. CASE run_empty(w) \/ run_unlock(w)
    <2>1. PICK l \in {"loop", "process"} :
              /\ pc[w] \in {"empty", "popped"} /\ Goto(w, l) /\ m_queuelocker' = Nobody
              /\ l \in {"popped", "process"} <=> pc[w] \in {"popped", "process"}
      BY <1>4, SMTT(30) DEF run_empty, run_unlock, unlock
    <2>2. UNCHANGED <<m_workqueue, m_queuestat, m_stop, token, request, accepted, processed>>
      BY <1>4, SMTT(30) DEF run_empty, run_unlock, unlock
    <2>3. TypeOK'
      BY <1>1, <2>1, <2>2 DEF TypeOK, Goto, WorkerPC
    <2>4. MutualExclusion'
      BY <1>1, <2>1, LockUnlock, Zenon DEF Locked
    <2> QED
      BY <1>1, <2>1, <2>2, <2>3, <2>4, MoveOnly, Zenon
  <1> QED
    BY <1>2, <1>3, <1>4, FrontSafe, PopSafe, ProcessSafe, Zenon DEF run

(* The initial state of the pool *)
LEMMA InitSafe == Init => SafeInv
  <1> SUFFICES ASSUME Init PROVE SafeInv
    OBVIOUS
  <1>1. Len(m_workqueue) = 0 /\ m_workqueue \in Seq(Nat)
    BY DEF Init
  <1>2. \A t \in Thread : pc[t] = IF t \in Worker THEN "loop" ELSE "idle"
    BY DEF Init
  <1>3. TypeOK
    <2>1. Len(m_workqueue) <= m_max_requests + 1
      BY <1>1, MaxAssumption
    <2>2. \A p \in Producer : p \in Thread /\ p \notin Worker
      BY ThreadAssumption DEF Thread
    <2>3. \A w \in Worker : w \in Thread
      BY DEF Thread
    <2>4. pc \in [Thread -> ProducerPC \cup WorkerPC]
      BY DEF Init, ProducerPC, WorkerPC
    <2>5. token \in [Worker -> BOOLEAN] /\ m_stop \in BOOLEAN
      BY Zenon DEF Init
    <2> QED
      BY <1>1, <1>2, <2>1, <2>2, <2>3, <2>4, <2>5, SMTT(30) DEF Init, TypeOK, WorkerPC, ProducerPC
  <1>4. MutualExclusion
    BY <1>2, ThreadAssumption DEF Init, MutualExclusion, Locked
  <1>5. FrontIsHead /\ InHand = {}
    BY <1>2 DEF FrontIsHead, InHand, Thread
  <1>6. ExactlyOnce
    BY <1>1, <1>5 DEF Init, ExactlyOnce
  <1> QED
    BY <1>1, <1>3, <1>4, <1>5, <1>6 DEF Init, SafeInv

(* Every step of append, run and ~threadpool preserves the invariant. *)
LEMMA NextSafe == SafeInv /\ [Next]_vars => SafeInv'
  <1> SUFFICES ASSUME SafeInv, [Next]_vars PROVE SafeInv'
    OBVIOUS
  <1>1. CASE destroy
    BY <1>1, Zenon DEF destroy, SafeInv, TypeOK, MutualExclusion, FrontIsHead, ExactlyOnce, InHand
  <1>2. CASE UNCHANGED vars
    BY <1>2, Zenon DEF vars, SafeInv, TypeOK, MutualExclusion, FrontIsHead, ExactlyOnce, InHand
  <1> QED
    BY <1>1, <1>2, AppendSafe, RunSafe DEF Next

(* The lists and the threads of the pool keep their types, and the list never
   holds more than m_max_requests + 1 requests. *)
THEOREM TypeCorrect == Spec => []TypeOK
  <1>1. SafeInv => TypeOK
    BY DEF SafeInv
  <1> QED
    BY <1>1, InitSafe, NextSafe, PTL DEF Spec

(* Two threads are never in the list of requests at the same time. *)
THEOREM PoolIsExclusive == Spec => []MutualExclusion
  <1>1. SafeInv => MutualExclusion
    BY DEF SafeInv
  <1> QED
    BY <1>1, InitSafe, NextSafe, PTL DEF Spec

(* Each accepted request goes to one worker, once, in the order of the
   appends. *)
THEOREM HandedOutOnce == Spec => []ExactlyOnce
  <1>1. SafeInv => ExactlyOnce
    BY DEF SafeInv
  <1> QED
    BY <1>1, InitSafe, NextSafe, PTL DEF Spec
-----------------------------------------------------------------------------
(* The sets that NoLostWakeup counts are finite. *)
LEMMA Counted ==
    /\ IsFiniteSet(Coming) /\ Cardinality(Coming) \in Nat
    /\ IsFiniteSet(Posting) /\ Cardinality(Posting) \in Nat
  <1>1. Coming \subseteq Worker /\ Posting \subseteq Producer
    BY Zenon DEF Coming, Posting
  <1>2. IsFiniteSet(Coming) /\ IsFiniteSet(Posting)
    BY <1>1, FiniteAssumption, FS_Subset
  <1> QED
    BY <1>2, FS_CardinalityType

(* The steps of append: a request enters the list with a promise to post, and
   the promise is kept. *)
LEMMA AppendWakes ==
    ASSUME SafeInv, NoLostWakeup, NEW p \in Producer, append(p)
    PROVE  NoLostWakeup'
  <1>1. p \in Thread /\ p \notin Worker /\ \A w \in Worker : w \in Thread /\ w # p
    BY ThreadAssumption DEF Thread
  <1>2. /\ pc \in [Thread -> ProducerPC \cup WorkerPC]
        /\ m_queuestat \in Nat /\ Len(m_workqueue) \in Nat
        /\ m_workqueue \in Seq(Nat) /\ accepted \in Nat
        /\ \A q \in Producer : q \in Thread
    BY DEF SafeInv, TypeOK, Thread
  <1>3. token' = token /\ \A w \in Worker : pc'[w] = pc[w]
    BY <1>1, <1>2, Zenon DEF append, append_lock, append_reject, append_push, append_unlock,
                      append_post, lock, unlock, Goto
  <1>4. Coming' = Coming
    BY <1>3, Zenon DEF Coming
  <1>5. CASE append_lock(p) \/ append_reject(p) \/ append_unlock(p)
    <2>1. /\ UNCHANGED <<m_workqueue, m_queuestat>>
          /\ \A q \in Producer : pc'[q] \in {"pushed", "post"} <=> pc[q] \in {"pushed", "post"}
      BY <1>2, <1>5, Zenon DEF append_lock, append_reject, append_unlock, lock, unlock, Goto
    <2>2. Posting' = Posting
      BY <2>1 DEF Posting
    <2> QED
      BY <1>4, <2>1, <2>2 DEF NoLostWakeup
  <1>6. CASE append_push(p)
    <2>1. Posting' = Posting \cup {p} /\ p \notin Posting
      BY <1>2, <1>6 DEF append_push, Goto, Posting
    <2>2. Cardinality(Posting') = Cardinality(Posting) + 1
      BY <2>1, Counted, FS_AddElement, Zenon
    <2>3. Len(m_workqueue') = Len(m_workqueue) + 1 /\ m_queuestat' = m_queuestat
      BY <1>2, <1>6, PushFacts DEF append_push
    <2> QED
      BY <1>2, <1>4, <2>2, <2>3, Counted, SMTT(30) DEF NoLostWakeup
  <1>7. CASE append_post(p)
    <2>1. Posting' = Posting \ {p} /\ p \in Posting
      BY <1>2, <1>7 DEF append_post, Goto, Posting
    <2>2. Cardinality(Posting') = Cardinality(Posting) - 1
      BY <2>1, Counted, FS_RemoveElement, Zenon
    <2>3. m_workqueue' = m_workqueue /\ m_queuestat' = m_queuestat + 1
      BY <1>7 DEF append_post, Posted
    <2> QED
      BY <1>2, <1>4, <2>2, <2>3, Counted, SMTT(30) DEF NoLostWakeup
  <1> QED
    BY <1>5, <1>6, <1>7 DEF append

(* The steps of a worker: it gives up a unit of the semaphore only with the
   request the unit was posted for, or when the list is empty. *)
LEMMA RunWakes ==
    ASSUME SafeInv, NoLostWakeup, NEW w \in Worker, run(w) \/ run_interrupted(w)
    PROVE  NoLostWakeup'
  <1>1. w \in Thread /\ w \notin Producer /\ \A q \in Producer : q \in Thread /\ w # q
    BY ThreadAssumption DEF Thread
  <1>2. /\ pc \in [Thread -> ProducerPC \cup WorkerPC]
        /\ token \in [Worker -> BOOLEAN]
        /\ m_queuestat \in Nat /\ Len(m_workqueue) \in Nat /\ m_workqueue \in Seq(Nat)
        /\ \A v \in Worker : v \in Thread
    BY DEF SafeInv, TypeOK, Thread
  <1>3. \A q \in Producer : pc'[q] = pc[q]
    BY <1>1, <1>2, Zenon DEF run, run_interrupted, run_loop, run_wait, run_lock, run_empty,
                      run_front, run_pop, run_unlock, run_process, lock, unlock, Goto
  <1>4. Posting' = Posting
    BY <1>3, Zenon DEF Posting
  <1>5. CASE run_loop(w) \/ run_lock(w) \/ run_front(w) \/ run_unlock(w) \/ run_process(w)
    <2>1. /\ UNCHANGED <<m_workqueue, m_queuestat, token>>
          /\ \A v \in Worker : pc'[v] \in {"lock", "empty", "pop"}
                                 <=> pc[v] \in {"lock", "empty", "pop"}
      BY <1>2, <1>5, Zenon DEF run_loop, run_lock, run_front, run_unlock, run_process, lock,
                        unlock, Goto
    <2>2. Coming' = Coming
      BY <2>1, Zenon DEF Coming
    <2> QED
      BY <1>4, <2>1, <2>2, Zenon DEF NoLostWakeup
  <1>6. CASE run_interrupted(w)
    <2>1. pc[w] = "wait" /\ ~ token'[w]
      BY <1>2, <1>6, Zenon DEF run_interrupted
    <2>2. \A v \in Worker \ {w} : pc'[v] = pc[v] /\ token'[v] = token[v]
      BY <1>2, <1>6, Zenon DEF run_interrupted, Goto
    <2>3. Coming' = Coming
      BY <2>1, <2>2, Zenon DEF Coming
    <2> QED
      BY <1>4, <1>6, <2>3, Zenon DEF NoLostWakeup, run_interrupted
  <1>7. CASE run_wait(w)
    <2>1. pc[w] = "wait" /\ pc'[w] = "lock" /\ token'[w]
      BY <1>2, <1>7, Zenon DEF run_wait, Goto
    <2>2. \A v \in Worker \ {w} : pc'[v] = pc[v] /\ token'[v] = token[v]
      BY <1>2, <1>7, Zenon DEF run_wait, Goto
    <2>3. Coming' = Coming \cup {w} /\ w \notin Coming
      BY <2>1, <2>2, Zenon DEF Coming
    <2>4. Cardinality(Coming') = Cardinality(Coming) + 1
      BY <2>3, Counted, FS_AddElement, Zenon
    <2>5. m_workqueue' = m_workqueue /\ m_queuestat' = m_queuestat - 1
      BY <1>7, Zenon DEF run_wait
    <2> QED
      BY <1>2, <1>4, <2>4, <2>5, Counted, SMTT(30) DEF NoLostWakeup
  <1>8. CASE run_empty(w)
    <2>1. Len(m_workqueue') = 0 /\ m_queuestat' = m_queuestat
      BY <1>8, Zenon DEF run_empty, unlock
    <2>2. Cardinality(Coming') \in Nat
      <3>1. Coming' \subseteq Worker
        BY Zenon DEF Coming
      <3> QED
        BY <3>1, FiniteAssumption, FS_Subset, FS_CardinalityType, Zenon
    <2> QED
      BY <1>2, <1>4, <2>1, <2>2, Counted DEF NoLostWakeup
  <1>9. CASE run_pop(w)
    <2>1. pc[w] = "pop" /\ pc'[w] = "popped" /\ token' = token /\ m_queuestat' = m_queuestat
      BY <1>2, <1>9, Zenon DEF run_pop, Goto
    <2>2. \A v \in Worker \ {w} : pc'[v] = pc[v]
      BY <1>2, <1>9, Zenon DEF run_pop, Goto
    <2>3. Coming' = Coming \ {w}
      BY <2>1, <2>2, Zenon DEF Coming
    <2>4. /\ IsFiniteSet(Coming')
          /\ Cardinality(Coming') = IF w \in Coming THEN Cardinality(Coming) - 1
                                    ELSE Cardinality(Coming)
      BY <2>3, Counted, FS_RemoveElement, Zenon
    <2>5. Len(m_workqueue') = Len(m_workqueue) - 1
      BY <1>2, <1>9, <2>1, PopFacts, Zenon DEF run_pop, Popped, SafeInv, FrontIsHead
    <2>6. Cardinality(Coming') \in Nat /\ Cardinality(Coming) - 1 <= Cardinality(Coming')
      BY <2>4, Counted, FS_CardinalityType
    <2> QED
      BY <1>2, <1>4, <2>1, <2>5, <2>6, Counted, SMTT(30) DEF NoLostWakeup
  <1> QED
    BY <1>5, <1>6, <1>7, <1>8, <1>9 DEF run

(* No accepted request is ever left in the list with every worker asleep in
   wait() and nobody about to post. *)
THEOREM WakeupsSuffice == Spec => []NoLostWakeup
  <1>1. Init => NoLostWakeup
    <2> SUFFICES ASSUME Init PROVE NoLostWakeup
      OBVIOUS
    <2>1. Len(m_workqueue) = 0 /\ m_queuestat = 0
      BY DEF Init
    <2> QED
      BY <2>1, Counted DEF NoLostWakeup
  <1>2. SafeInv /\ NoLostWakeup /\ [Next]_vars => NoLostWakeup'
    <2> SUFFICES ASSUME SafeInv, NoLostWakeup, [Next]_vars PROVE NoLostWakeup'
      OBVIOUS
    <2>1. CASE destroy \/ UNCHANGED vars
      <3>1. UNCHANGED <<m_workqueue, m_queuestat, pc, token>>
        BY <2>1, Zenon DEF destroy, vars
      <3> QED
        BY <3>1, Zenon DEF NoLostWakeup, Coming, Posting
    <2> QED
      BY <2>1, AppendWakes, RunWakes, Zenon DEF Next
  <1> QED
    BY <1>1, <1>2, InitSafe, NextSafe, PTL DEF Spec
-----------------------------------------------------------------------------
(* The thread is between its use of the buffer and the end of its turn. *)
Used(t) == place[t] \in {"signal", "unlock"}

(* How many items the thread has put or removed *)
Count(t) == IF Used(t) THEN i[t] ELSE i[t] - 1

(* The producer is one item ahead exactly when the buffer holds that item. *)
Balance ==
    /\ buffer = 0 => Count("producer") = Count("consumer")
    /\ buffer # 0 => /\ buffer = Count("producer")
                     /\ Count("producer") = Count("consumer") + 1

InLoop == \A t \in P!Thread : i[t] = MAX + 1 <=> place[t] = "exit"

ItemsInv == P!TypeOK /\ InLoop /\ Balance /\ P!NoLostSignal

(* The initial state *)
LEMMA InitItems == P!Init => ItemsInv
  BY ItemsAssumption
     DEF P!Init, ItemsInv, P!TypeOK, InLoop, Balance, P!NoLostSignal, P!Thread, P!Locked, Count, Used,
         P!MustWait, P!Other

(* Every step of a thread preserves the invariant. *)
LEMMA StepItems ==
    ASSUME ItemsInv, NEW t \in P!Thread, P!step(t) \/ P!spurious_wakeup(t)
    PROVE  ItemsInv'
  <1> USE ItemsAssumption DEF ItemsInv, P!Thread
  <1>1. CASE P!lock(t)
    BY <1>1, Zenon DEF P!lock, P!Goto, P!TypeOK, InLoop, Balance, P!NoLostSignal, P!Locked, Count, Used,
                P!MustWait, P!Other
  <1>2. CASE P!cond_wait(t)
    BY <1>2, Zenon DEF P!cond_wait, P!Goto, P!TypeOK, InLoop, Balance, P!NoLostSignal, P!Locked, Count, Used,
                P!MustWait, P!Other
  <1>3. CASE P!spurious_wakeup(t)
    BY <1>3, Zenon DEF P!spurious_wakeup, P!Goto, P!TypeOK, InLoop, Balance, P!NoLostSignal, P!Locked, Count,
                Used, P!MustWait, P!Other
  <1>4. CASE P!use_buffer(t)
    <2>1. P!TypeOK'
      BY <1>4 DEF P!use_buffer, P!Goto, P!TypeOK, InLoop, P!Locked
    <2>2. InLoop'
      BY <1>4 DEF P!use_buffer, P!Goto, P!TypeOK, InLoop, P!Locked
    <2>3. Balance'
      BY <1>4 DEF P!use_buffer, P!Goto, P!TypeOK, InLoop, Balance, P!Locked, Count, Used, P!MustWait
    <2>4. P!NoLostSignal'
      BY <1>4 DEF P!use_buffer, P!Goto, P!TypeOK, P!NoLostSignal, P!Locked, P!MustWait, P!Other
    <2> QED
      BY <2>1, <2>2, <2>3, <2>4
  <1>5. CASE P!signal(t)
    BY <1>5, ZenonT(60) DEF P!signal, P!Goto, P!TypeOK, InLoop, Balance, P!NoLostSignal, P!Locked, Count, Used,
                P!MustWait, P!Other, P!Wake
  <1>6. CASE P!unlock(t)
    <2>1. P!TypeOK'
      BY <1>6 DEF P!unlock, P!Goto, P!TypeOK, InLoop, P!Locked, P!LoopsOn
    <2>2. InLoop'
      BY <1>6 DEF P!unlock, P!Goto, P!TypeOK, InLoop, P!Locked, P!LoopsOn
    <2>3. Balance'
      BY <1>6 DEF P!unlock, P!Goto, P!TypeOK, InLoop, Balance, P!Locked, Count, Used, P!MustWait, P!LoopsOn
    <2>4. P!NoLostSignal'
      BY <1>6 DEF P!unlock, P!Goto, P!TypeOK, P!NoLostSignal, P!Locked, P!MustWait, P!Other, P!LoopsOn
    <2> QED
      BY <2>1, <2>2, <2>3, <2>4
  <1> QED
    BY <1>1, <1>2, <1>3, <1>4, <1>5, <1>6, Zenon DEF P!step

(* So does every step of the program. *)
LEMMA NextItems == ItemsInv /\ [P!Next]_(P!vars) => ItemsInv'
  <1> SUFFICES ASSUME ItemsInv, [P!Next]_(P!vars) PROVE ItemsInv'
    OBVIOUS
  <1>1. CASE UNCHANGED P!vars
    BY <1>1, Zenon DEF P!vars, ItemsInv, P!TypeOK, InLoop, Balance, P!NoLostSignal, Count, Used, P!MustWait
  <1> QED
    BY <1>1, StepItems DEF P!Next, P!joined

(* Types, and a thread is between lock and unlock exactly when it holds the
   mutex. *)
THEOREM CountersInRange == P!Spec => []P!TypeOK
  <1>1. ItemsInv => P!TypeOK
    BY SMTT(30) DEF ItemsInv
  <1> QED
    BY <1>1, InitItems, NextItems, PTL DEF P!Spec

(* The consumer removes the items the producer stored, in order, each once. *)
THEOREM InOrder == P!Spec => []ConsumesInOrder
  <1>1. ItemsInv => ConsumesInOrder
    BY DEF ItemsInv, ConsumesInOrder, P!ConsumesInOrder, Balance, Count, Used, P!TypeOK, P!Thread
  <1> QED
    BY <1>1, InitItems, NextItems, PTL DEF P!Spec

(* No signal is missed: the two threads never sleep at the same time. *)
THEOREM SignalsSuffice == P!Spec => []P!NoLostSignal
  <1>1. ItemsInv => P!NoLostSignal
    BY DEF ItemsInv
  <1> QED
    BY <1>1, InitItems, NextItems, PTL DEF P!Spec
=============================================================================
