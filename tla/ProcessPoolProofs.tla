-------------------------- MODULE ProcessPoolProofs --------------------------
(* The process pools, for any number of children, connections and crashes: the
   table of children, the messages to them, and how fairly they are chosen. *)
EXTENDS ProcessPool, FiniteSetTheorems, WellFoundedInduction, TLAPS

Place == {"forked", "top", "checked", "wait", "zombie", "gone"}

Typed ==
    /\ variant \in DOMAIN Sizes
    /\ proc \in [Child -> Place]
    /\ notified \subseteq Child /\ edge \in BOOLEAN /\ missed \in Nat /\ backlog \in Int
    /\ conns \in [Child -> Nat] /\ sent \in [Child -> Nat]

(* A set of natural numbers has a least element. *)
LEMMA Least ==
    ASSUME NEW T \in SUBSET Nat, T # {}
    PROVE  \E m \in T : \A k \in T : m <= k
  <1>1. PICK R : R = OpToRel(<, Nat)
    BY Zenon
  <1>2. IsWellFoundedOn(R, Nat)
    BY <1>1, NatLessThanWellFounded, Zenon
  <1>3. PICK m \in T : \A k \in T : ~ (<<k, m>> \in R)
    BY <1>2, WFMin, Zenon
  <1>4. \A k, l \in Nat : k < l => <<k, l>> \in R
    BY <1>1 DEF OpToRel
  <1>5. ASSUME NEW k \in T PROVE m <= k
    <2>1. m \in Nat /\ k \in Nat /\ ~ (k < m)
      BY <1>3, <1>4, Zenon
    <2> QED
      BY <2>1
  <1> QED
    BY <1>5, Zenon

(* The places of the children are counted from 0. *)
LEMMA ChildFacts ==
    ASSUME variant \in DOMAIN Sizes
    PROVE  /\ m_process_number \in Nat \ {0} /\ 0 \in Child /\ IsFiniteSet(Child)
           /\ \A i \in Int : i \in Child <=> 0 <= i /\ i < m_process_number
           /\ Child \subseteq Nat
  <1>1. m_process_number \in Nat \ {0}
    BY SizesAssumption DEF m_process_number
  <1>2. IsFiniteSet(0..(m_process_number - 1))
    BY <1>1, FS_Interval
  <1> QED
    BY <1>1, <1>2 DEF Child

(* What a sum of two places is, modulo their number *)
LEMMA Around ==
    ASSUME NEW n \in Nat \ {0}, NEW c \in 0..(n - 1), NEW d \in 0..n
    PROVE  (c + d) % n = (IF c + d < n THEN c + d ELSE c + d - n)
  <1>1. CASE c + d < n
    BY <1>1
  <1>2. CASE c + d >= n
    <2>1. c + d = 1 * n + (c + d - n) /\ c + d - n \in 0..(n - 1)
      BY <1>2
    <2> QED
      BY <1>2, <2>1
  <1> QED
    BY <1>1, <1>2

(* The child after sub_process_counter, going round, that is alive: nobody
   alive is passed over. *)
LEMMA NextAlive ==
    ASSUME variant \in DOMAIN Sizes, m_pid \subseteq Child, m_pid # {},
           sub_process_counter \in Child
    PROVE  /\ next_alive \in m_pid
           /\ \/ /\ next_alive >= sub_process_counter
                 /\ \A p \in m_pid : p < sub_process_counter \/ p >= next_alive
              \/ /\ next_alive < sub_process_counter
                 /\ \A p \in m_pid : p < sub_process_counter /\ p >= next_alive
  <1>1. PICK n \in Nat \ {0} : n = m_process_number /\ Child = 0..(n - 1)
    BY ChildFacts DEF Child
  <1>2. PICK c \in 0..(n - 1) : c = sub_process_counter
    BY <1>1
  <1>3. \A k \in 0..(n - 1) : Turn(k) = IF c + k < n THEN c + k ELSE c + k - n
    <2>1. ASSUME NEW k \in 0..(n - 1) PROVE (c + k) % n = IF c + k < n THEN c + k ELSE c + k - n
      <3>1. k \in 0..n
        OBVIOUS
      <3> QED
        BY <3>1, Around, Zenon
    <2> QED
      BY <1>1, <1>2, <2>1 DEF Turn
  <1>4. \A p \in m_pid : \E k \in 0..(n - 1) : Turn(k) = p
    <2>1. ASSUME NEW p \in m_pid PROVE \E k \in 0..(n - 1) : Turn(k) = p
      <3>1. p \in 0..(n - 1)
        BY <1>1
      <3>2. CASE p >= c
        <4>1. p - c \in 0..(n - 1) /\ Turn(p - c) = p
          BY <1>3, <3>1, <3>2
        <4> QED
          BY <4>1
      <3>3. CASE p < c
        <4>1. p - c + n \in 0..(n - 1) /\ Turn(p - c + n) = p
          BY <1>3, <3>1, <3>3
        <4> QED
          BY <4>1
      <3> QED
        BY <3>1, <3>2, <3>3
    <2> QED
      BY <2>1
  <1>5. PICK k \in {l \in 0..(n - 1) : Turn(l) \in m_pid} :
            \A l \in {j \in 0..(n - 1) : Turn(j) \in m_pid} : k <= l
    <2>1. {l \in 0..(n - 1) : Turn(l) \in m_pid} # {}
      BY <1>4
    <2>2. {l \in 0..(n - 1) : Turn(l) \in m_pid} \in SUBSET Nat
      OBVIOUS
    <2> QED
      BY <2>1, <2>2, Least, Zenon
  <1>6. \A j \in 0..(k - 1) : Turn(j) \notin m_pid
    BY <1>5
  <1>7. \E i \in m_pid : \E l \in Child : i = Turn(l) /\ \A j \in 0..(l - 1) : Turn(j) \notin m_pid
    BY <1>1, <1>5, <1>6, Zenon
  <1>8. /\ next_alive \in m_pid
        /\ \E l \in Child : next_alive = Turn(l) /\ \A j \in 0..(l - 1) : Turn(j) \notin m_pid
    BY <1>7 DEF next_alive
  <1>9. PICK l \in 0..(n - 1) : next_alive = Turn(l) /\ \A j \in 0..(l - 1) : Turn(j) \notin m_pid
    BY <1>1, <1>8
  <1>10. ASSUME NEW p \in m_pid PROVE \E j \in 0..(n - 1) : p = Turn(j) /\ l <= j
    BY <1>4, <1>9
  <1>11. CASE c + l < n
    <2>1. next_alive = c + l
      BY <1>3, <1>9, <1>11
    <2>2. ASSUME NEW p \in m_pid PROVE p < c \/ p >= c + l
      <3>1. PICK j \in 0..(n - 1) : p = Turn(j) /\ l <= j
        BY <1>10
      <3> QED
        BY <1>3, <1>11, <3>1
    <2> QED
      BY <1>2, <1>8, <2>1, <2>2
  <1>12. CASE c + l >= n
    <2>1. next_alive = c + l - n
      BY <1>3, <1>9, <1>12
    <2>2. ASSUME NEW p \in m_pid PROVE p < c /\ p >= c + l - n
      <3>1. PICK j \in 0..(n - 1) : p = Turn(j) /\ l <= j
        BY <1>10
      <3> QED
        BY <1>3, <1>12, <3>1
    <2> QED
      BY <1>2, <1>8, <2>1, <2>2
  <1> QED
    BY <1>11, <1>12
-----------------------------------------------------------------------------
(* TableAgrees and WaitsOnlyIfMissed are inductive, once the state is typed. *)
PoolInv == Typed /\ TableAgrees /\ WaitsOnlyIfMissed

(* The children with an event of their pipe can be counted. *)
LEMMA NotifiedFacts ==
    ASSUME Typed
    PROVE  /\ IsFiniteSet(notified) /\ Cardinality(notified) \in Nat
           /\ \A S : /\ IsFiniteSet(notified \ S) /\ Cardinality(notified \ S) \in Nat
                     /\ IsFiniteSet(notified \cap S) /\ Cardinality(notified \cap S) \in Nat
                     /\ Cardinality(notified \ S) = Cardinality(notified) - Cardinality(notified \cap S)
  <1>1. IsFiniteSet(notified)
    BY ChildFacts, FS_Subset DEF Typed
  <1>2. ASSUME NEW S
        PROVE  /\ IsFiniteSet(notified \ S) /\ IsFiniteSet(notified \cap S)
               /\ Cardinality(notified \ S) = Cardinality(notified) - Cardinality(notified \cap S)
    <2>1. notified \cap S \subseteq notified
      OBVIOUS
    <2> QED
      BY <1>1, <2>1, FS_Difference, FS_Subset, Zenon
  <1> QED
    BY <1>1, <1>2, FS_CardinalityType, Zenon

(* The table is not written, and no child is reaped. *)
LEMMA TableStays ==
    ASSUME TableAgrees, variant' = variant, UNCHANGED table,
           \A i \in Child : proc'[i] = "gone" <=> proc[i] = "gone"
    PROVE  TableAgrees'
  <1>1. Child' = Child
    BY DEF Child, m_process_number
  <1>2. UNCHANGED <<m_pid, sub_process_counter, m_stop>>
    BY DEF table
  <1> QED
    BY <1>1, <1>2 DEF TableAgrees

(* A child goes on. *)
LEMMA Moves ==
    ASSUME Typed, NEW i \in Child, NEW l \in Place \ {"gone"}, proc[i] # "gone",
           proc' = [proc EXCEPT ![i] = l]
    PROVE  /\ proc' \in [Child -> Place]
           /\ \A j \in Child : proc'[j] = "gone" <=> proc[j] = "gone"
  <1>1. proc \in [Child -> Place]
    BY DEF Typed
  <1>2. proc'[i] = l /\ \A j \in Child \ {i} : proc'[j] = proc[j]
    BY <1>1
  <1> QED
    BY <1>1, <1>2

(* Children end: their events are lost, their connections closed. *)
LEMMA EndedFacts ==
    ASSUME Typed, NEW S, Ended(S)
    PROVE  /\ notified' \subseteq Child /\ missed' \in Nat /\ conns' \in [Child -> Nat]
           /\ Cardinality(notified') + missed' = Cardinality(notified) + missed
  <1>1. notified' = notified \ S /\ missed' = missed + Cardinality(notified \cap S)
    BY DEF Ended
  <1>2. conns' = [i \in Child |-> IF i \in S THEN 0 ELSE conns[i]] /\ conns \in [Child -> Nat]
    BY DEF Ended, Typed
  <1>3. conns' \in [Child -> Nat]
    BY <1>2
  <1>4. /\ Cardinality(notified) \in Nat /\ Cardinality(notified \cap S) \in Nat
        /\ Cardinality(notified \ S) = Cardinality(notified) - Cardinality(notified \cap S)
    BY NotifiedFacts
  <1>5. notified \subseteq Child /\ missed \in Nat
    BY DEF Typed
  <1> QED
    BY <1>1, <1>3, <1>4, <1>5

(* What is left to show of a step that does not write the table *)
LEMMA Keeps ==
    ASSUME PoolInv, variant' = variant, UNCHANGED table, proc' \in [Child -> Place],
           \A i \in Child : proc'[i] = "gone" <=> proc[i] = "gone",
           notified' \subseteq Child, edge' \in BOOLEAN, missed' \in Nat, backlog' \in Int,
           conns' \in [Child -> Nat], sent' \in [Child -> Nat], WaitsOnlyIfMissed'
    PROVE  PoolInv'
  <1>1. Child' = Child
    BY DEF Child, m_process_number
  <1>2. TableAgrees'
    BY TableStays DEF PoolInv
  <1>3. variant' \in DOMAIN Sizes
    BY DEF PoolInv, Typed
  <1> QED
    BY <1>1, <1>2, <1>3 DEF PoolInv, Typed
(* Every step of a child and of a client keeps the table and the events. *)
LEMMA ChildKeeps ==
    ASSUME PoolInv, NEW i \in Child,
           crash(i) \/ child(i) \/ child_closes(i) \/ child_stale(i) \/ recv_ratio(i)
    PROVE  PoolInv'
  <1>1. Typed /\ WaitsOnlyIfMissed /\ UNCHANGED table /\ variant' = variant /\ edge' = edge /\ sent' = sent
    BY Zenon DEF PoolInv, crash, child, child_loops, child_exits, child_accept, child_closes, child_signal,
           child_stale, recv_ratio, counts
  <1>2. /\ notified \subseteq Child /\ missed \in Nat /\ backlog \in Int /\ edge \in BOOLEAN
        /\ conns \in [Child -> Nat] /\ sent \in [Child -> Nat] /\ proc \in [Child -> Place]
    BY <1>1 DEF Typed
  <1>3. /\ proc' \in [Child -> Place]
        /\ \A j \in Child : proc'[j] = "gone" <=> proc[j] = "gone"
    <2>1. CASE recv_ratio(i)
      BY <1>2, <2>1 DEF recv_ratio
    <2>2. CASE crash(i)
      <3>1. proc[i] # "gone" /\ proc' = [proc EXCEPT ![i] = "zombie"] /\ "zombie" \in Place \ {"gone"}
        BY <2>2 DEF crash, Alive, Place
      <3> QED
        BY <1>1, <3>1, Moves, Zenon
    <2>3. CASE child(i) \/ child_closes(i) \/ child_stale(i)
      <3>1. \E l \in Place \ {"gone"} : proc' = [proc EXCEPT ![i] = l] /\ proc[i] # "gone"
        BY <2>3, Zenon DEF child, child_loops, child_exits, child_accept, child_closes, child_signal, child_stale,
                           At, Place
      <3> QED
        BY <1>1, <3>1, Moves, Zenon
    <2> QED
      BY <2>1, <2>2, <2>3, SMTT(30)
  <1>4. CASE crash(i) \/ child_exits(i)
    <2>1. Ended({i}) /\ backlog' = backlog
      BY <1>4 DEF crash, child_exits
    <2>2. /\ notified' \subseteq Child /\ missed' \in Nat /\ conns' \in [Child -> Nat]
          /\ Cardinality(notified') + missed' = Cardinality(notified) + missed
      BY <1>1, <2>1, EndedFacts
    <2>3. WaitsOnlyIfMissed'
      <3>1. Cardinality(notified) \in Nat /\ Cardinality(notified') \in Int /\ One(edge) \in Int
        <4>1. IsFiniteSet(notified')
          BY <1>1, <2>2, ChildFacts, FS_Subset DEF Typed
        <4> QED
          BY <1>1, <4>1, NotifiedFacts, FS_CardinalityType DEF One
      <3>2. One(edge)' = One(edge)
        BY <1>1
      <3> QED
        BY <1>1, <1>2, <2>1, <2>2, <3>1, <3>2, SMTT(30) DEF WaitsOnlyIfMissed
    <2> QED
      BY <1>1, <1>2, <1>3, <2>1, <2>2, <2>3, Keeps, SMTT(30)
  <1>5. CASE child_accept(i)
    <2>1. i \in notified /\ notified' = notified \ {i} /\ backlog' = backlog - 1 /\ missed' = missed
      BY <1>5 DEF child_accept
    <2>2. conns' \in [Child -> Nat]
      <3>1. conns' = conns \/ conns' = [conns EXCEPT ![i] = conns[i] + 1]
        BY <1>5, Zenon DEF child_accept, used
      <3> QED
        BY <1>2, <3>1
    <2>3. WaitsOnlyIfMissed'
      <3>1. Cardinality(notified') = Cardinality(notified) - 1 /\ Cardinality(notified) \in Nat
        BY <1>1, <2>1, NotifiedFacts, FS_RemoveElement, Zenon
      <3>2. One(edge)' = One(edge) /\ One(edge) \in Int
        BY <1>1 DEF One
      <3> QED
        BY <1>1, <1>2, <2>1, <3>1, <3>2 DEF WaitsOnlyIfMissed
    <2>4. notified' \subseteq Child
      BY <1>2, <2>1
    <2> QED
      BY <1>1, <1>2, <1>3, <2>1, <2>2, <2>3, <2>4, Keeps, SMTT(30)
  <1>6. CASE child_loops(i) \/ child_signal(i) \/ child_closes(i) \/ child_stale(i) \/ recv_ratio(i)
    <2>1. UNCHANGED <<notified, backlog, missed>>
      BY <1>6, Zenon DEF child_loops, child_signal, child_closes, child_stale, recv_ratio
    <2>2. conns' \in [Child -> Nat]
      <3>1. conns' = conns \/ (conns[i] > 0 /\ conns' = [conns EXCEPT ![i] = conns[i] - 1])
        BY <1>6, Zenon DEF child_loops, child_signal, child_closes, child_stale, recv_ratio, used
      <3>2. conns[i] > 0 => conns[i] - 1 \in Nat
        BY <1>2
      <3> QED
        BY <1>2, <3>1, <3>2
    <2>3. WaitsOnlyIfMissed'
      BY <1>1, <2>1 DEF WaitsOnlyIfMissed
    <2> QED
      BY <1>1, <1>2, <1>3, <2>1, <2>2, <2>3, Keeps, SMTT(30)
  <1> QED
    BY <1>4, <1>5, <1>6 DEF child
(* A client, the end of the parent's preparations, a SIGTERM on its way and the
   end of the parent *)
LEMMA OutsideKeeps ==
    ASSUME PoolInv, connect \/ setup_sig_pipe \/ sigterm_arrives \/ leave \/ UNCHANGED vars
    PROVE  PoolInv'
  <1>1. /\ Typed /\ WaitsOnlyIfMissed /\ UNCHANGED table /\ variant' = variant
        /\ UNCHANGED <<proc, notified, conns, sent>>
    BY Zenon DEF PoolInv, connect, setup_sig_pipe, sigterm_arrives, leave, vars, table, used, counts
  <1>2. /\ notified \subseteq Child /\ missed \in Nat /\ backlog \in Int /\ edge \in BOOLEAN
        /\ conns \in [Child -> Nat] /\ sent \in [Child -> Nat] /\ proc \in [Child -> Place]
        /\ Cardinality(notified) \in Nat
    BY <1>1, NotifiedFacts DEF Typed
  <1>3. CASE connect
    <2>1. backlog' = backlog + 1 /\ edge' = TRUE /\ missed' = missed + One(edge)
      BY <1>3 DEF connect
    <2>2. One(edge) \in Nat /\ One(edge)' = 1
      BY <2>1 DEF One
    <2>3. WaitsOnlyIfMissed'
      BY <1>1, <1>2, <2>1, <2>2 DEF WaitsOnlyIfMissed
    <2> QED
      BY <1>1, <1>2, <2>1, <2>2, <2>3, Keeps, SMTT(30)
  <1>4. CASE setup_sig_pipe \/ sigterm_arrives \/ leave \/ UNCHANGED vars
    <2>1. UNCHANGED <<backlog, edge, missed>>
      BY <1>4, Zenon DEF setup_sig_pipe, sigterm_arrives, leave, vars
    <2>2. WaitsOnlyIfMissed'
      BY <1>1, <2>1 DEF WaitsOnlyIfMissed
    <2> QED
      BY <1>1, <1>2, <2>1, <2>2, Keeps
  <1> QED
    BY <1>3, <1>4

(* SIGTERM ends the children that have no handler yet. *)
LEMMA SigtermKeeps ==
    ASSUME PoolInv, sigterm
    PROVE  PoolInv'
  <1>1. Typed /\ TableAgrees /\ WaitsOnlyIfMissed
    BY DEF PoolInv
  <1>2. PICK K, N :
          /\ K \subseteq {i \in Child : proc[i] = "forked"}
          /\ proc' = [i \in Child |-> IF i \in K THEN "zombie"
                                      ELSE IF i \in N /\ variant = "pool_cgi" /\ proc[i] = "wait" THEN "top"
                                      ELSE proc[i]]
          /\ notified' = notified \ K
          /\ missed' = missed + Cardinality(notified \cap K)
          /\ UNCHANGED <<variant, parent, table, backlog, edge, used, ratios, counts>>
    <2>1. Targets \subseteq Child
      BY <1>1 DEF Targets, TableAgrees
    <2> QED
      BY <2>1, Zenon DEF sigterm
  <1>3. /\ notified \subseteq Child /\ missed \in Nat /\ backlog \in Int /\ edge \in BOOLEAN
        /\ conns \in [Child -> Nat] /\ sent \in [Child -> Nat] /\ proc \in [Child -> Place]
    BY <1>1 DEF Typed
  <1>4. /\ proc' \in [Child -> Place]
        /\ \A j \in Child : proc'[j] = "gone" <=> proc[j] = "gone"
    <2>1. ASSUME NEW j \in Child
          PROVE  proc'[j] \in Place /\ (proc'[j] = "gone" <=> proc[j] = "gone")
      <3>1. proc'[j] = IF j \in K THEN "zombie"
                       ELSE IF j \in N /\ variant = "pool_cgi" /\ proc[j] = "wait" THEN "top" ELSE proc[j]
        BY <1>2
      <3>2. proc[j] \in Place /\ (j \in K => proc[j] = "forked")
        BY <1>2, <1>3
      <3> QED
        BY <3>1, <3>2 DEF Place
    <2>2. proc' = [j \in Child |-> proc'[j]]
      BY <1>2
    <2> QED
      BY <2>1, <2>2
  <1>5. /\ Cardinality(notified) \in Nat /\ Cardinality(notified \cap K) \in Nat
        /\ Cardinality(notified \ K) = Cardinality(notified) - Cardinality(notified \cap K)
    BY <1>1, NotifiedFacts
  <1>6. UNCHANGED <<conns, sent, edge, backlog>>
    BY <1>2, Zenon DEF used, counts
  <1>7. WaitsOnlyIfMissed'
    <2>1. One(edge)' = One(edge) /\ One(edge) \in Int
      BY <1>6 DEF One
    <2> QED
      BY <1>1, <1>2, <1>3, <1>5, <1>6, <2>1, SMTT(30) DEF WaitsOnlyIfMissed
  <1>8. missed' \in Nat /\ notified' \subseteq Child
    BY <1>2, <1>3, <1>5
  <1> QED
    BY <1>2, <1>3, <1>4, <1>6, <1>7, <1>8, Keeps, Zenon

(* Every dead child is reaped: it leaves the table with its pid. *)
LEMMA SigchldKeeps ==
    ASSUME PoolInv, sigchld
    PROVE  PoolInv'
  <1>1. Typed /\ TableAgrees /\ WaitsOnlyIfMissed
    BY DEF PoolInv
  <1>2. /\ proc' = [i \in Child |-> IF proc[i] = "zombie" THEN "gone" ELSE proc[i]]
        /\ m_pid' = m_pid \ {i \in Child : proc[i] = "zombie"}
        /\ m_stop' = (m_pid' = {})
        /\ UNCHANGED <<variant, sub_process_counter, backlog, edge, notified, conns, missed, sent>>
    BY Zenon DEF sigchld, Reaped, Cleared, Stops, used, counts
  <1>3. Child' = Child
    BY <1>2 DEF Child, m_process_number
  <1>4. proc \in [Child -> Place]
    BY <1>1 DEF Typed
  <1>5. proc' \in [Child -> Place] /\ \A i \in Child : proc'[i] # "gone" <=> proc[i] \notin {"zombie", "gone"}
    BY <1>2, <1>4 DEF Place
  <1>6. Typed'
    BY <1>1, <1>2, <1>3, <1>5 DEF Typed
  <1>7. WaitsOnlyIfMissed'
    BY <1>1, <1>2 DEF WaitsOnlyIfMissed
  <1>8. m_pid' = {i \in Child : proc'[i] # "gone"}
    BY <1>1, <1>2, <1>5, Zenon DEF TableAgrees
  <1>9. TableAgrees'
    BY <1>1, <1>2, <1>3, <1>8, Zenon DEF TableAgrees
  <1> QED
    BY <1>6, <1>7, <1>9 DEF PoolInv
-----------------------------------------------------------------------------
(* A busy ratio is at least the lowest number of four bytes. *)
(* No ratio is lower than - Cube. *)
Cube == ByteValues * (ByteValues * (ByteValues * ByteValues))

BusyTyped ==
    /\ busy \in [Child -> Int] /\ \A i \in Child : busy[i] >= - Cube
    /\ up \in [Child -> Seq(Nat)]

LEMMA Scaled ==
    ASSUME NEW n \in Nat, NEW b \in Nat, NEW m \in Nat, NEW x \in Int, x >= - m
    PROVE  \E y \in Int : y = b + n * x /\ y >= - (n * m)
  <1>1. PICK p \in Int : p = n * x
    OBVIOUS
  <1>2. PICK q \in Int : q = n * m
    OBVIOUS
  <1>3. p >= - q
    <2>1. n * x >= n * (- m)
      OBVIOUS
    <2>2. n * (- m) = - (n * m)
      OBVIOUS
    <2> QED
      BY <1>1, <1>2, <2>1, <2>2, SMTT(30)
  <1>4. b + p \in Int /\ b + p >= - q
    BY <1>3
  <1> QED
    BY <1>1, <1>2, <1>4

LEMMA RatioFacts ==
    ASSUME NEW s \in Seq(Nat)
    PROVE  /\ Ratio(s) \in Int /\ Ratio(s) >= - Cube
           /\ Len(s) = 1 => Ratio(s) = s[1]
  <1>1. \A k \in 1..4 : Byte(s, k) \in Nat
    BY DEF Byte
  <1>2. PICK n \in Nat : n = ByteValues
    BY ByteAssumption
  <1>3. Signed(Byte(s, 4)) \in Int /\ Signed(Byte(s, 4)) >= - n
    BY <1>1, <1>2, SMTT(30) DEF Signed
  <1>4. PICK square \in Nat : square = n * n
    OBVIOUS
  <1>5. PICK cube \in Nat : cube = n * square
    OBVIOUS
  <1>6. PICK x \in Int : x = Byte(s, 3) + n * Signed(Byte(s, 4)) /\ x >= - square
    <2>1. Byte(s, 3) \in Nat
      BY <1>1
    <2> QED
      BY <1>3, <1>4, <2>1, Scaled, Zenon
  <1>7. PICK y \in Int : y = Byte(s, 2) + n * x /\ y >= - cube
    <2>1. Byte(s, 2) \in Nat
      BY <1>1
    <2>2. \E y \in Int : y = Byte(s, 2) + n * x /\ y >= - (n * square)
      BY <1>6, <2>1, Scaled, ZenonT(60)
    <2> QED
      BY <1>5, <2>2, Zenon
  <1>8. PICK z \in Int : z = Byte(s, 1) + n * y /\ z >= - (n * cube)
    <2>1. Byte(s, 1) \in Nat
      BY <1>1
    <2> QED
      BY <1>7, <2>1, Scaled, Zenon
  <1>9. Ratio(s) = z /\ Cube = n * cube
    BY <1>2, <1>4, <1>5, <1>6, <1>7, <1>8 DEF Ratio, Cube
  <1>10. ASSUME Len(s) = 1 PROVE Ratio(s) = s[1]
    <2>1. Byte(s, 1) = s[1]
      BY <1>10 DEF Byte
    <2>2. Byte(s, 2) = 0 /\ Byte(s, 3) = 0 /\ Byte(s, 4) = 0
      BY <1>10 DEF Byte
    <2>3. Signed(0) = 0
      BY ByteAssumption DEF Signed
    <2>4. x = 0 /\ y = 0
      <3>1. x = 0 + n * 0
        BY <1>6, <2>2, <2>3
      <3>2. x = 0
        BY <3>1
      <3> QED
        BY <1>7, <2>2, <3>2
    <2>5. s[1] \in Nat
      BY <1>1, <2>1
    <2> QED
      BY <1>8, <1>9, <2>1, <2>4, <2>5
  <1> QED
    BY <1>8, <1>9, <1>10

(* The bound is a number. *)
LEMMA CubeType == Cube \in Nat
  <1>1. PICK n \in Nat : n = ByteValues
    BY ByteAssumption
  <1>2. PICK square \in Nat : square = n * n
    OBVIOUS
  <1>3. PICK cube \in Nat : cube = n * square
    OBVIOUS
  <1>4. n * cube \in Nat
    OBVIOUS
  <1> QED
    BY <1>1, <1>2, <1>3, <1>4 DEF Cube

(* get_most_free_srv finds a child with the lowest ratio. *)
LEMMA MostFree ==
    ASSUME Typed, BusyTyped
    PROVE  /\ get_most_free_srv \in Child
           /\ \A j \in Child : busy[get_most_free_srv] <= busy[j]
  <1>1. Cube \in Nat
    BY CubeType
  <1>2. Child \subseteq Nat /\ 0 \in Child
    BY ChildFacts DEF Typed
  <1>3. \A j \in Child : busy[j] \in Int /\ busy[j] + Cube \in Nat
    BY <1>1 DEF BusyTyped
  <1>4. PICK m \in {busy[j] + Cube : j \in Child} : \A x \in {busy[j] + Cube : j \in Child} : m <= x
    <2>1. {busy[j] + Cube : j \in Child} \in SUBSET Nat /\ {busy[j] + Cube : j \in Child} # {}
      BY <1>2, <1>3
    <2> QED
      BY <2>1, Least, Zenon
  <1>5. PICK i \in {j \in Child : busy[j] + Cube = m} : \A k \in {j \in Child : busy[j] + Cube = m} : i <= k
    <2>1. {j \in Child : busy[j] + Cube = m} \in SUBSET Nat /\ {j \in Child : busy[j] + Cube = m} # {}
      BY <1>2, <1>4, Zenon
    <2> QED
      BY <2>1, Least, Zenon
  <1>6. ASSUME NEW j \in Child PROVE busy[i] <= busy[j] /\ (busy[j] = busy[i] => i <= j)
    <2>1. busy[i] + Cube = m /\ m <= busy[j] + Cube
      BY <1>4, <1>5, SMTT(30)
    <2>2. busy[i] <= busy[j]
      BY <1>1, <1>3, <1>5, <2>1, SMTT(30)
    <2>3. busy[j] = busy[i] => i <= j
      BY <1>5, <2>1, SMTT(30)
    <2> QED
      BY <2>2, <2>3, SMTT(30)
  <1>7. \E k \in Child : \A j \in Child : busy[k] <= busy[j] /\ (busy[j] = busy[k] => k <= j)
    BY <1>5, <1>6
  <1> QED
    BY <1>7 DEF get_most_free_srv
(* The parent tells one of its children. *)
LEMMA ChosenFacts ==
    ASSUME Typed, TableAgrees, BusyTyped, ~ (variant = "processpool" /\ m_pid = {})
    PROVE  Chosen \in Child
  <1>1. variant \in {"processpool", "pool_cgi", "springsnail"} /\ variant \in DOMAIN Sizes
    BY SizesAssumption DEF Typed
  <1>2. CASE variant = "processpool"
    <2>1. m_pid \subseteq Child /\ m_pid # {} /\ sub_process_counter \in Child
      BY <1>2 DEF TableAgrees
    <2>2. next_alive \in m_pid
      BY <1>1, <2>1, NextAlive
    <2> QED
      BY <1>2, <2>1, <2>2, SMTT(30) DEF Chosen
  <1>3. CASE variant = "pool_cgi"
    BY <1>3 DEF Chosen, TableAgrees
  <1>4. CASE variant = "springsnail"
    BY <1>4, MostFree DEF Chosen
  <1> QED
    BY <1>1, <1>2, <1>3, <1>4, SMTT(30)

(* The counter stays among the places. *)
LEMMA AfterFacts ==
    ASSUME variant \in DOMAIN Sizes, NEW i \in Child
    PROVE  After(i) \in Child /\ After(i) = IF i + 1 < m_process_number THEN i + 1 ELSE 0
  <1>1. PICK n \in Nat \ {0} : n = m_process_number /\ Child = 0..(n - 1)
    BY ChildFacts DEF Child
  <1>2. (i + 1) % n = IF i + 1 < n THEN i + 1 ELSE i + 1 - n
    <2>1. i \in 0..(n - 1) /\ 1 \in 0..n
      BY <1>1
    <2> QED
      BY <2>1, Around, Zenon
  <1> QED
    BY <1>1, <1>2 DEF After

(* An event of the listening socket becomes a message to a child, or is lost with
   the last one. *)
LEMMA DispatchKeeps ==
    ASSUME PoolInv, BusyTyped, dispatch
    PROVE  PoolInv'
  <1>1. /\ Typed /\ TableAgrees /\ WaitsOnlyIfMissed /\ edge /\ edge' = FALSE
        /\ UNCHANGED <<variant, m_pid, proc, backlog, conns>>
    BY Zenon DEF PoolInv, dispatch, used
  <1>2. /\ notified \subseteq Child /\ missed \in Nat /\ backlog \in Int
        /\ conns \in [Child -> Nat] /\ sent \in [Child -> Nat] /\ proc \in [Child -> Place]
        /\ Cardinality(notified) \in Nat /\ variant \in DOMAIN Sizes
    BY <1>1, NotifiedFacts, Zenon DEF Typed
  <1>3. backlog = 1 + Cardinality(notified) + missed
    BY <1>1, <1>2 DEF WaitsOnlyIfMissed, One
  <1>4. Child' = Child
    BY <1>1 DEF Child, m_process_number
  <1>5. CASE variant = "processpool" /\ m_pid = {}
    <2>1. m_stop' = TRUE /\ missed' = missed + 1 /\ UNCHANGED <<sub_process_counter, notified, sent>>
      BY <1>5, Zenon DEF dispatch
    <2>2. WaitsOnlyIfMissed'
      BY <1>1, <1>2, <1>3, <2>1, SMTT(30) DEF WaitsOnlyIfMissed, One
    <2>3. TableAgrees'
      BY <1>1, <1>4, <1>5, <2>1, SMTT(30) DEF TableAgrees
    <2>4. Typed'
      <3>1. missed' \in Nat /\ notified' \subseteq Child
        BY <1>2, <2>1
      <3>3. edge' \in BOOLEAN /\ backlog' \in Int /\ variant' \in DOMAIN Sizes
        BY <1>1, <1>2, Zenon
      <3>2. conns' \in [Child -> Nat] /\ sent' \in [Child -> Nat] /\ proc' \in [Child -> Place]
        BY <1>1, <1>2, <2>1, Zenon
      <3> QED
        BY <1>4, <3>1, <3>2, <3>3 DEF Typed
    <2> QED
      BY <2>2, <2>3, <2>4 DEF PoolInv
  <1>6. CASE ~ (variant = "processpool" /\ m_pid = {})
    <2>1. PICK i \in Child : i = Chosen
      BY <1>1, <1>6, ChosenFacts, SMTT(30)
    <2>2. /\ sent' = [sent EXCEPT ![i] = sent[i] + 1]
          /\ sub_process_counter' = IF variant = "springsnail" THEN 0 ELSE After(i)
          /\ notified' = notified \cup {j \in {i} : Alive(j)}
          /\ missed' = missed + One(i \in notified \/ ~ Alive(i))
          /\ m_stop' = m_stop
      BY <1>6, <2>1, Zenon DEF dispatch, Told
    <2>3. sub_process_counter' \in Child
      BY <1>2, <2>2, AfterFacts, ChildFacts, Zenon
    <2>4. TableAgrees'
      BY <1>1, <1>4, <2>2, <2>3, Zenon DEF TableAgrees
    <2>5. /\ missed' \in Nat /\ Cardinality(notified') \in Nat
          /\ 1 + Cardinality(notified) + missed = Cardinality(notified') + missed'
      <3>1. CASE Alive(i) /\ i \notin notified
        <4>1. notified' = notified \cup {i} /\ missed' = missed + 0
          BY <2>2, <3>1 DEF One
        <4>2. Cardinality(notified \cup {i}) = Cardinality(notified) + 1
          BY <1>1, <3>1, NotifiedFacts, FS_AddElement, Zenon
        <4> QED
          BY <1>2, <4>1, <4>2, SMTT(30)
      <3>2. CASE ~ (Alive(i) /\ i \notin notified)
        <4>1. notified' = notified /\ missed' = missed + 1
          BY <2>2, <3>2, Zenon DEF One
        <4> QED
          BY <1>2, <4>1
      <3> QED
        BY <3>1, <3>2, SMTT(30)
    <2>6. WaitsOnlyIfMissed'
      BY <1>1, <1>2, <1>3, <2>5, SMTT(30) DEF WaitsOnlyIfMissed, One
    <2>7. notified' \subseteq Child /\ sent' \in [Child -> Nat]
      BY <1>2, <2>2
    <2>8. Typed'
      BY <1>1, <1>2, <1>4, <2>5, <2>7, Zenon DEF Typed
    <2> QED
      BY <2>4, <2>6, <2>8, SMTT(30) DEF PoolInv
  <1> QED
    BY <1>5, <1>6

(* Every step of a child keeps the number of its NULL entries. *)
Counted == nulls \in [Child -> Nat]

LEMMA CountedKeeps ==
    ASSUME Counted, variant' = variant, [Next]_vars
    PROVE  Counted'
  <1>1. Child' = Child
    BY DEF Child, m_process_number
  <1>2. CASE UNCHANGED nulls
    BY <1>1, <1>2, Zenon DEF Counted
  <1>3. ASSUME NEW i \in Child, NEW n \in Nat, nulls' = [nulls EXCEPT ![i] = n]
        PROVE  Counted'
    BY <1>1, <1>3 DEF Counted
  <1>4. CASE connect \/ setup_sig_pipe \/ dispatch \/ sigchld \/ sigterm_arrives \/ sigterm \/ leave \/ UNCHANGED vars
    BY <1>2, <1>4, Zenon DEF connect, setup_sig_pipe, dispatch, sigchld, sigterm_arrives, sigterm, leave, vars, used
  <1>5. ASSUME NEW i \in Child, crash(i) \/ child_exits(i)
        PROVE  Counted'
    <2>1. nulls' = [j \in Child |-> IF j \in {i} THEN 0 ELSE nulls[j]]
      BY <1>5, Zenon DEF crash, child_exits, Ended
    <2> QED
      BY <1>1, <2>1 DEF Counted
  <1>6. ASSUME NEW i \in Child, child_loops(i) \/ child_signal(i) \/ child_closes(i) \/ recv_ratio(i)
        PROVE  Counted'
    BY <1>2, <1>6, Zenon DEF child_loops, child_signal, child_closes, recv_ratio, used
  <1>7. ASSUME NEW i \in Child, child_accept(i)
        PROVE  Counted'
    <2>1. CASE UNCHANGED used
      BY <1>2, <2>1, Zenon DEF used
    <2>2. CASE \E k \in 0..2 : k <= nulls[i] /\ nulls' = [nulls EXCEPT ![i] = nulls[i] - k]
      <3>1. PICK k \in 0..2 : k <= nulls[i] /\ nulls' = [nulls EXCEPT ![i] = nulls[i] - k]
        BY <2>2, Zenon
      <3>2. nulls[i] \in Nat
        BY Zenon DEF Counted
      <3>3. nulls[i] - k \in Nat
        BY <3>1, <3>2
      <3> QED
        BY <1>3, <3>1, <3>3, Zenon
    <2> QED
      BY <1>7, <2>1, <2>2, Zenon DEF child_accept
  <1>8. ASSUME NEW i \in Child, child_stale(i)
        PROVE  Counted'
    <2>1. nulls[i] \in Nat
      BY Zenon DEF Counted
    <2>2. nulls[i] + 1 \in Nat
      BY <2>1
    <2> QED
      BY <1>2, <1>3, <1>8, <2>2, Zenon DEF child_stale
  <1> QED
    BY <1>4, <1>5, <1>6, <1>7, <1>8, Zenon DEF Next, child

(* The reports are bytes, and the ratios are numbers of four of them. *)
LEMMA BusyKeeps ==
    ASSUME Typed, Typed', Counted', variant' = variant, BusyTyped, [Next]_vars
    PROVE  BusyTyped'
  <1>1. Child' = Child
    BY DEF Child, m_process_number
  <1>2. CASE UNCHANGED <<busy, up>>
    BY <1>1, <1>2 DEF BusyTyped
  <1>3. ASSUME NEW i \in Child, notify_parent_busy_ratio(i)
        PROVE  BusyTyped'
    <2>1. CASE variant = "springsnail"
      <3>1. busy' = busy /\ up' = [up EXCEPT ![i] = Append(up[i], get_used_conn_cnt(i) % ByteValues)]
        BY <1>3, <2>1, Zenon DEF notify_parent_busy_ratio
      <3>2. get_used_conn_cnt(i) % ByteValues \in Nat
        <4>1. conns'[i] \in Nat /\ nulls'[i] \in Nat
          BY <1>1, <1>3, Zenon DEF Typed, Counted
        <4> QED
          BY <4>1, ByteAssumption DEF get_used_conn_cnt
      <3>3. up' \in [Child -> Seq(Nat)]
        <4>1. up \in [Child -> Seq(Nat)] /\ up[i] \in Seq(Nat)
          BY <1>3 DEF BusyTyped
        <4>2. Append(up[i], get_used_conn_cnt(i) % ByteValues) \in Seq(Nat)
          BY <3>2, <4>1
        <4> QED
          BY <3>1, <4>1, <4>2, Zenon
      <3> QED
        BY <1>1, <3>1, <3>3, Zenon DEF BusyTyped
    <2>2. CASE variant # "springsnail"
      BY <1>2, <1>3, <2>2 DEF notify_parent_busy_ratio, ratios
    <2> QED
      BY <2>1, <2>2
  <1>4. ASSUME NEW i \in Child, recv_ratio(i)
        PROVE  BusyTyped'
    <2>1. PICK n \in Nat : /\ n <= Len(up[i])
                           /\ busy' = [busy EXCEPT ![i] = Ratio(SubSeq(up[i], 1, n))]
                           /\ up' = [up EXCEPT ![i] = SubSeq(up[i], n + 1, Len(up[i]))]
      <3>1. PICK l \in Nat : l = Len(up[i])
        BY <1>4 DEF BusyTyped
      <3>2. (IF l < 4 THEN l ELSE 4) \in Nat /\ (IF l < 4 THEN l ELSE 4) <= l
        BY <3>1
      <3> QED
        BY <1>4, <3>1, <3>2, Zenon DEF recv_ratio
    <2>2. PICK s \in Seq(Nat) : s = up[i]
      BY <1>4 DEF BusyTyped
    <2>3. SubSeq(s, 1, n) \in Seq(Nat) /\ SubSeq(s, n + 1, Len(s)) \in Seq(Nat)
      BY <2>1, <2>2, SMTT(30)
    <2>4. PICK r \in Int : r = Ratio(SubSeq(s, 1, n)) /\ r >= - Cube
      BY <2>3, RatioFacts, Zenon
    <2>5. busy' \in [Child -> Int] /\ \A j \in Child : busy'[j] >= - Cube
      BY <2>1, <2>2, <2>4, Zenon DEF BusyTyped
    <2>6. up' \in [Child -> Seq(Nat)]
      BY <2>1, <2>2, <2>3 DEF BusyTyped
    <2> QED
      BY <1>1, <2>5, <2>6 DEF BusyTyped
  <1>5. CASE UNCHANGED vars
    BY <1>2, <1>5, Zenon DEF vars
  <1>6. CASE connect \/ setup_sig_pipe \/ dispatch \/ sigchld \/ sigterm_arrives \/ sigterm \/ leave
    BY <1>2, <1>6, Zenon DEF connect, setup_sig_pipe, dispatch, sigchld, sigterm_arrives, sigterm, leave, ratios
  <1>7. ASSUME NEW i \in Child, crash(i) \/ child(i) \/ child_closes(i) \/ child_stale(i)
        PROVE  BusyTyped'
    <2>1. UNCHANGED ratios \/ notify_parent_busy_ratio(i)
      BY <1>7, Zenon DEF crash, child, child_loops, child_exits, child_accept, child_signal, child_closes,
                         child_stale
    <2> QED
      BY <1>2, <1>3, <2>1 DEF ratios
  <1> QED
    BY <1>4, <1>5, <1>6, <1>7 DEF Next

(* The pool with its ratios *)
IInv == PoolInv /\ BusyTyped /\ Counted

(* Every pool starts with its table filled and no event. *)
LEMMA InitInv == Init => IInv
  <1> SUFFICES ASSUME Init PROVE IInv
    OBVIOUS
  <1>1. variant \in DOMAIN Sizes /\ m_pid \subseteq Child /\ edge = FALSE
    BY DEF Init
  <1>2. 0 \in Child
    BY <1>1, ChildFacts
  <1>3. proc \in [Child -> Place]
    <2>1. proc = [i \in Child |-> IF i \in m_pid THEN "forked" ELSE "gone"]
      BY Zenon DEF Init
    <2> QED
      BY <2>1 DEF Place
  <1>4. conns \in [Child -> Nat] /\ sent \in [Child -> Nat]
    BY Zenon DEF Init, Zero
  <1>5. Typed
    <2>1. notified \subseteq Child /\ missed \in Nat /\ backlog \in Int
      BY DEF Init
    <2> QED
      BY <1>1, <1>3, <1>4, <2>1, Zenon DEF Typed
  <1>6. TableAgrees
    <2>1. m_pid = {i \in Child : proc[i] # "gone"}
      BY <1>1 DEF Init
    <2> QED
      BY <1>2, <2>1, Zenon DEF TableAgrees, Init
  <1>7. WaitsOnlyIfMissed
    BY <1>1, FS_EmptySet DEF WaitsOnlyIfMissed, One, Init
  <1>8. BusyTyped
    <2>1. busy = [i \in Child |-> 0] /\ up = [i \in Child |-> <<>>]
      BY DEF Init, Zero
    <2>2. 0 >= - Cube
      BY CubeType
    <2> QED
      BY <2>1, <2>2 DEF BusyTyped
  <1>9. Counted
    BY DEF Init, Zero, Counted
  <1> QED
    BY <1>5, <1>6, <1>7, <1>8, <1>9, Zenon DEF IInv, PoolInv

(* Every step keeps it. *)
LEMMA NextInv == IInv /\ [Next]_vars => IInv'
  <1> SUFFICES ASSUME IInv, [Next]_vars PROVE IInv'
    OBVIOUS
  <1>1. PoolInv /\ BusyTyped /\ Counted
    BY DEF IInv
  <1>2. PoolInv'
    <2>1. CASE connect \/ setup_sig_pipe \/ sigterm_arrives \/ leave \/ UNCHANGED vars
      BY <1>1, <2>1, OutsideKeeps
    <2>2. CASE dispatch
      BY <1>1, <2>2, DispatchKeeps
    <2>3. CASE sigchld
      BY <1>1, <2>3, SigchldKeeps
    <2>4. CASE sigterm
      BY <1>1, <2>4, SigtermKeeps
    <2>5. CASE \E i \in Child : crash(i) \/ child(i) \/ child_closes(i) \/ child_stale(i) \/ recv_ratio(i)
      BY <1>1, <2>5, ChildKeeps
    <2> QED
      BY <2>1, <2>2, <2>3, <2>4, <2>5, Zenon DEF Next
  <1>3. variant' = variant
    BY Zenon DEF Next, vars, connect, setup_sig_pipe, dispatch, sigchld, sigterm_arrives, sigterm, leave,
           crash, child, child_loops, child_exits, child_accept, child_signal, child_closes, child_stale, recv_ratio
  <1>4. Counted'
    BY <1>1, <1>3, CountedKeeps
  <1>5. BusyTyped'
    BY <1>1, <1>2, <1>3, <1>4, BusyKeeps DEF PoolInv
  <1> QED
    BY <1>2, <1>4, <1>5, Zenon DEF IInv

(* The table of every pool (processpool.h, pool_cgi.cpp, springsnail) lists the
   children that waitpid has not returned, and the parent stops only without them. *)
THEOREM TableOfChildren == Spec => []TableAgrees
  <1>1. IInv => TableAgrees
    BY SMTT(30) DEF IInv, PoolInv
  <1> QED
    BY <1>1, InitInv, NextInv, PTL DEF Spec

(* Every connection that waits has an event, a message on its way to a child, or
   is counted as missed, whatever the children and the signals do. *)
THEOREM EveryConnectionCounted == Spec => []WaitsOnlyIfMissed
  <1>1. IInv => WaitsOnlyIfMissed
    BY SMTT(30) DEF IInv, PoolInv
  <1> QED
    BY <1>1, InitInv, NextInv, PTL DEF Spec
-----------------------------------------------------------------------------
(* 15-1: the children before sub_process_counter have had one message more. *)
Turns ==
    variant = "processpool" => \A i, j \in m_pid :
        /\ i < sub_process_counter /\ j >= sub_process_counter => sent[i] = sent[j] + 1
        /\ i < sub_process_counter /\ j < sub_process_counter => sent[i] = sent[j]
        /\ i >= sub_process_counter /\ j >= sub_process_counter => sent[i] = sent[j]

(* springsnail: the last report of a child that lives is about its connections
   of now, and about the NULL entries it had then, of which there may be more by
   now.  It is on its way, or the parent has read it. *)
Recent(i, x) == \E c \in 0..nulls[i] : x = (2 * conns[i] + c) % ByteValues
Ratios ==
    variant = "springsnail" => \A i \in Child : Alive(i) =>
        /\ up[i] = <<>> /\ i \notin garbled => Recent(i, busy[i])
        /\ up[i] # <<>> => Recent(i, up[i][Len(up[i])])

(* The next child alive has its turn. *)
LEMMA TurnsDispatch ==
    ASSUME IInv, Turns, dispatch
    PROVE  Turns'
  <1>1. /\ Typed /\ TableAgrees /\ variant \in DOMAIN Sizes
        /\ m_pid' = m_pid /\ variant' = variant
    BY Zenon DEF IInv, PoolInv, Typed, dispatch
  <1>2. SUFFICES ASSUME variant = "processpool", NEW i \in m_pid, NEW j \in m_pid
                 PROVE  /\ i < sub_process_counter' /\ j >= sub_process_counter' => sent'[i] = sent'[j] + 1
                        /\ i < sub_process_counter' /\ j < sub_process_counter' => sent'[i] = sent'[j]
                        /\ i >= sub_process_counter' /\ j >= sub_process_counter' => sent'[i] = sent'[j]
    BY <1>1, Zenon DEF Turns
  <1>3. PICK n \in Nat \ {0} : n = m_process_number /\ Child = 0..(n - 1)
    BY <1>1, ChildFacts DEF Child
  <1>4. PICK c \in Int : c = sub_process_counter /\ 0 <= c /\ c < n
    BY <1>1, <1>3 DEF TableAgrees
  <1>5. m_pid \subseteq Child /\ m_pid # {} /\ sub_process_counter \in Child
    BY <1>1, <1>2 DEF TableAgrees
  <1>6. PICK a \in m_pid : a = next_alive
    BY <1>1, <1>5, NextAlive
  <1>7. \/ a >= c /\ \A p \in m_pid : p < c \/ p >= a
        \/ a < c /\ \A p \in m_pid : p < c /\ p >= a
    BY <1>1, <1>4, <1>5, <1>6, NextAlive, Zenon
  <1>8. /\ sent' = [sent EXCEPT ![a] = sent[a] + 1]
        /\ sub_process_counter' = IF a + 1 < n THEN a + 1 ELSE 0
    <2>1. Chosen = a
      BY <1>2, <1>6 DEF Chosen
    <2>2. After(a) = IF a + 1 < n THEN a + 1 ELSE 0
      BY <1>1, <1>3, <1>5, AfterFacts
    <2> QED
      BY <1>2, <1>5, <2>1, <2>2, Zenon DEF dispatch
  <1>9. PICK d \in Int : d = sub_process_counter' /\ d = IF a + 1 < n THEN a + 1 ELSE 0
    BY <1>3, <1>5, <1>8
  <1>10. ASSUME NEW p \in m_pid PROVE p \in 0..(n - 1) /\ sent[p] \in Nat
    BY <1>1, <1>3, <1>5, Zenon DEF Typed
  <1>11. ASSUME NEW p \in m_pid PROVE sent'[p] = IF p = a THEN sent[p] + 1 ELSE sent[p]
    BY <1>1, <1>5, <1>8, Zenon DEF Typed
  <1>12. ASSUME NEW p \in m_pid, NEW q \in m_pid
         PROVE  /\ p < c /\ q >= c => sent[p] = sent[q] + 1
                /\ p < c /\ q < c => sent[p] = sent[q]
                /\ p >= c /\ q >= c => sent[p] = sent[q]
    BY <1>2, <1>4, Zenon DEF Turns
  <1>13. PICK x \in Nat, y \in Nat, z \in Nat : x = sent[i] /\ y = sent[j] /\ z = sent[a]
    BY <1>10
  <1>14. /\ sent'[i] = IF i = a THEN x + 1 ELSE x
         /\ sent'[j] = IF j = a THEN y + 1 ELSE y
    BY <1>11, <1>13, Zenon
  <1>15. /\ i \in 0..(n - 1) /\ j \in 0..(n - 1) /\ a \in 0..(n - 1)
         /\ (i = a => x = z) /\ (j = a => y = z) /\ (i = j => x = y)
    BY <1>10, <1>13, Zenon
  <1>16. /\ i < c /\ j >= c => x = y + 1
         /\ j < c /\ i >= c => y = x + 1
         /\ i < c /\ j < c => x = y
         /\ i >= c /\ j >= c => x = y
    BY <1>12, <1>13, Zenon
  <1>17. /\ i < c /\ a >= c => x = z + 1
         /\ i < c /\ a < c => x = z
         /\ i >= c /\ a >= c => x = z
         /\ j < c /\ a >= c => y = z + 1
         /\ j < c /\ a < c => y = z
         /\ j >= c /\ a >= c => y = z
    BY <1>12, <1>13, Zenon
  <1>18. \/ a >= c /\ (i < c \/ i >= a) /\ (j < c \/ j >= a)
         \/ a < c /\ i < c /\ i >= a /\ j < c /\ j >= a
    BY <1>7
  <1> QED
    BY <1>4, <1>9, <1>14, <1>15, <1>16, <1>17, <1>18, SMTT(30)

(* The other steps send no message, and children only leave the table. *)
LEMMA TurnsKeep ==
    ASSUME IInv, Turns, [Next]_vars
    PROVE  Turns'
  <1>1. CASE dispatch
    BY <1>1, TurnsDispatch
  <1>2. CASE ~ dispatch
    <2>1. UNCHANGED <<variant, sub_process_counter, sent>> /\ m_pid' \subseteq m_pid
      BY <1>2, Zenon DEF Next, vars, connect, setup_sig_pipe, sigchld, sigterm_arrives, sigterm, leave, Cleared,
           crash, child, child_loops, child_exits, child_accept, child_signal, child_closes, child_stale, recv_ratio,
           table, counts
    <2> QED
      BY <2>1, Zenon DEF Turns
  <1> QED
    BY <1>1, <1>2

(* No dead child lives again, and a child that lives on has the connections it
   had and no fewer NULL entries, unless it has just reported. *)
Same(k) ==
    /\ UNCHANGED <<conns[k], busy[k], up[k]>> /\ (k \in garbled => k \in garbled')
    /\ nulls'[k] = nulls[k] \/ nulls'[k] = nulls[k] + 1

LEMMA AliveKeeps ==
    ASSUME IInv, [Next]_vars, NEW k \in Child, Alive(k)'
    PROVE  /\ Alive(k)
           /\ \/ Same(k)
              \/ notify_parent_busy_ratio(k)
              \/ recv_ratio(k)
  <1>1. /\ proc \in [Child -> Place] /\ conns \in [Child -> Nat] /\ nulls \in [Child -> Nat]
        /\ busy \in [Child -> Int] /\ up \in [Child -> Seq(Nat)]
    BY Zenon DEF IInv, PoolInv, Typed, BusyTyped, Counted
  <1>2. CASE connect \/ setup_sig_pipe \/ dispatch \/ sigterm_arrives \/ leave \/ UNCHANGED vars
    <2>1. UNCHANGED <<proc, conns, nulls, busy, up, garbled>>
      BY <1>2, Zenon DEF connect, setup_sig_pipe, dispatch, sigterm_arrives, leave, vars, used, ratios
    <2> QED
      BY <2>1, Zenon DEF Alive, Same
  <1>3. CASE sigchld
    <2>1. /\ UNCHANGED <<conns, nulls, busy, up, garbled>>
          /\ proc' = [i \in Child |-> IF i \in Reaped THEN "gone" ELSE proc[i]]
      BY <1>3, Zenon DEF sigchld, used, ratios
    <2> QED
      BY <1>1, <2>1, Zenon DEF Alive, Same
  <1>4. CASE sigterm
    <2>1. PICK killed, told :
             /\ UNCHANGED <<conns, nulls, busy, up, garbled>>
             /\ told \subseteq {i \in Targets : Alive(i)}
             /\ proc' = [i \in Child |->
                  IF i \in killed THEN "zombie"
                  ELSE IF i \in told /\ variant = "pool_cgi" /\ proc[i] = "wait" THEN "top" ELSE proc[i]]
      BY <1>4, Zenon DEF sigterm, used, ratios
    <2> QED
      BY <1>1, <2>1, Zenon DEF Alive, Same
  <1>5. ASSUME NEW i \in Child, crash(i) \/ child_exits(i)
        PROVE  Alive(k) /\ Same(k)
    <2>1. /\ proc' = [proc EXCEPT ![i] = "zombie"] /\ UNCHANGED <<busy, up, garbled>>
          /\ conns' = [j \in Child |-> IF j \in {i} THEN 0 ELSE conns[j]]
          /\ nulls' = [j \in Child |-> IF j \in {i} THEN 0 ELSE nulls[j]]
      BY <1>5, Zenon DEF crash, child_exits, At, Ended, ratios
    <2>2. k # i
      BY <1>1, <2>1, Zenon DEF Alive
    <2> QED
      BY <1>1, <2>1, <2>2, Zenon DEF Alive, Same
  <1>6. ASSUME NEW i \in Child, child_loops(i) \/ child_signal(i)
        PROVE  Alive(k) /\ Same(k)
    <2>1. /\ UNCHANGED <<conns, nulls, busy, up, garbled>>
          /\ proc[i] \in {"forked", "top", "checked", "wait"}
          /\ \E l : proc' = [proc EXCEPT ![i] = l]
      BY <1>6, Zenon DEF child_loops, child_signal, At, used, ratios
    <2> QED
      BY <1>1, <2>1, Zenon DEF Alive, Same
  <1>7. ASSUME NEW i \in Child, child_accept(i) \/ child_closes(i)
        PROVE  /\ Alive(k)
               /\ \/ Same(k)
                  \/ notify_parent_busy_ratio(k)
    <2>1. proc[i] = "wait" /\ proc' = [proc EXCEPT ![i] = "top"]
      BY <1>7, Zenon DEF child_accept, child_closes, At
    <2>2. Alive(k)
      BY <1>1, <2>1, Zenon DEF Alive
    <2>3. CASE UNCHANGED <<used, ratios>>
      BY <2>2, <2>3, Zenon DEF used, ratios, Same
    <2>4. CASE /\ notify_parent_busy_ratio(i)
               /\ \E x : conns' = [conns EXCEPT ![i] = x]
               /\ nulls' = nulls \/ \E x : nulls' = [nulls EXCEPT ![i] = x]
      <3>1. CASE k = i
        BY <2>2, <2>4, <3>1, Zenon
      <3>2. CASE k # i
        <4>1. conns'[k] = conns[k] /\ nulls'[k] = nulls[k]
          BY <1>1, <2>4, <3>2, Zenon
        <4>2. busy' = busy /\ garbled' = garbled /\ up'[k] = up[k]
          BY <1>1, <2>4, <3>2, Zenon DEF notify_parent_busy_ratio, ratios
        <4> QED
          BY <2>2, <4>1, <4>2, Zenon DEF Same
      <3> QED
        BY <3>1, <3>2, Zenon
    <2> QED
      BY <1>7, <2>3, <2>4, Zenon DEF child_accept, child_closes
  <1>8. ASSUME NEW i \in Child, recv_ratio(i)
        PROVE  /\ Alive(k)
               /\ \/ Same(k)
                  \/ recv_ratio(k)
    <2>1. /\ UNCHANGED <<proc, conns, nulls>>
          /\ \E x : busy' = [busy EXCEPT ![i] = x]
          /\ \E x : up' = [up EXCEPT ![i] = x]
          /\ garbled \ {i} \subseteq garbled'
      BY <1>8, Zenon DEF recv_ratio, used
    <2>2. Alive(k)
      BY <2>1 DEF Alive
    <2>3. CASE k # i
      BY <1>1, <2>1, <2>2, <2>3, Zenon DEF Same
    <2> QED
      BY <1>8, <2>2, <2>3, Zenon
  <1>9. ASSUME NEW i \in Child, child_stale(i)
        PROVE  Alive(k) /\ Same(k)
    <2>1. /\ UNCHANGED <<conns, busy, up, garbled>>
          /\ proc[i] = "wait" /\ proc' = [proc EXCEPT ![i] = "top"]
          /\ nulls' = nulls \/ nulls' = [nulls EXCEPT ![i] = nulls[i] + 1]
      BY <1>9, Zenon DEF child_stale, At, ratios
    <2>2. nulls'[k] = nulls[k] \/ nulls'[k] = nulls[k] + 1
      BY <1>1, <2>1, Zenon
    <2> QED
      BY <1>1, <2>1, <2>2, Zenon DEF Alive, Same
  <1> QED
    BY <1>2, <1>3, <1>4, <1>5, <1>6, <1>7, <1>8, <1>9, Zenon DEF Next, child

(* What remains of the reports *)
LEMMA Reports ==
    ASSUME NEW s \in Seq(Nat)
    PROVE  /\ Len(s) \in Nat /\ (s # <<>> <=> Len(s) > 0)
           /\ \A x \in Nat : Append(s, x) # <<>> /\ Append(s, x)[Len(Append(s, x))] = x
           /\ Len(s) = 1 => /\ SubSeq(s, 1, 1) \in Seq(Nat) /\ Len(SubSeq(s, 1, 1)) = 1
                            /\ SubSeq(s, 1, 1)[1] = s[1] /\ SubSeq(s, 2, 1) = <<>>
           /\ \A n \in Nat : n <= Len(s) =>
                  /\ Len(SubSeq(s, n + 1, Len(s))) = Len(s) - n
                  /\ n < Len(s) => SubSeq(s, n + 1, Len(s))[Len(s) - n] = s[Len(s)]
                  /\ SubSeq(s, n + 1, Len(s)) # <<>> => n < Len(s)
  <1>1. Len(s) \in Nat /\ (s # <<>> <=> Len(s) > 0)
    OBVIOUS
  <1>2. ASSUME NEW x \in Nat PROVE Append(s, x) # <<>> /\ Append(s, x)[Len(Append(s, x))] = x
    OBVIOUS
  <1>3. ASSUME Len(s) = 1
        PROVE  /\ SubSeq(s, 1, 1) \in Seq(Nat) /\ Len(SubSeq(s, 1, 1)) = 1
               /\ SubSeq(s, 1, 1)[1] = s[1] /\ SubSeq(s, 2, 1) = <<>>
    <2>1. SubSeq(s, 1, 1) \in Seq(Nat) /\ Len(SubSeq(s, 1, 1)) = 1
      <3>1. ASSUME NEW k \in 1..1 PROVE s[k] \in Nat
        <4>1. k \in 1..Len(s)
          BY <1>3
        <4> QED
          BY <4>1
      <3>2. SubSeq(s, 1, 1) \in Seq(Nat)
        BY <3>1
      <3>3. Len(SubSeq(s, 1, 1)) = 1
        BY <1>3
      <3> QED
        BY <3>2, <3>3
    <2>2. SubSeq(s, 1, 1)[1] = s[1]
      BY <1>3
    <2>3. SubSeq(s, 2, 1) \in Seq(Nat) /\ Len(SubSeq(s, 2, 1)) = 0
      BY <1>3
    <2>4. SubSeq(s, 2, 1) = <<>>
      BY <2>3
    <2> QED
      BY <2>1, <2>2, <2>4, Zenon
  <1>4. ASSUME NEW n \in Nat, n <= Len(s)
        PROVE  /\ Len(SubSeq(s, n + 1, Len(s))) = Len(s) - n
               /\ n < Len(s) => SubSeq(s, n + 1, Len(s))[Len(s) - n] = s[Len(s)]
               /\ SubSeq(s, n + 1, Len(s)) # <<>> => n < Len(s)
    <2>1. SubSeq(s, n + 1, Len(s)) \in Seq(Nat) /\ Len(SubSeq(s, n + 1, Len(s))) = Len(s) - n
      BY <1>1, <1>4
    <2>2. n < Len(s) => SubSeq(s, n + 1, Len(s))[Len(s) - n] = s[Len(s)]
      BY <1>1, <1>4
    <2>3. n = Len(s) => SubSeq(s, n + 1, Len(s)) = <<>>
      BY <1>1, <2>1, SMTT(30)
    <2> QED
      BY <1>1, <1>4, <2>1, <2>2, <2>3
  <1> QED
    BY <1>1, <1>2, <1>3, <1>4, Zenon

(* A report is of the connections and NULL entries of now, and the parent reads
   it as a byte if it is alone. *)
LEMMA RatiosKeep ==
    ASSUME IInv, Ratios, [Next]_vars, variant' = variant
    PROVE  Ratios'
  <1>1. Child' = Child
    BY SMTT(30) DEF Child, m_process_number
  <1> DEFINE Now(k, x) == \E c \in 0..nulls'[k] : x = (2 * conns'[k] + c) % ByteValues
  <1>2. SUFFICES ASSUME variant = "springsnail", NEW k \in Child, Alive(k)'
                 PROVE  /\ up'[k] = <<>> /\ k \notin garbled' => Now(k, busy'[k])
                        /\ up'[k] # <<>> => Now(k, up'[k][Len(up'[k])])
    BY <1>1, Zenon DEF Ratios, Recent
  <1>3. /\ busy \in [Child -> Int] /\ up \in [Child -> Seq(Nat)] /\ up[k] \in Seq(Nat)
        /\ nulls[k] \in Nat
    BY Zenon DEF IInv, PoolInv, BusyTyped, Counted
  <1>4. /\ Alive(k)
        /\ \/ Same(k)
           \/ notify_parent_busy_ratio(k)
           \/ recv_ratio(k)
    BY <1>2, AliveKeeps, Zenon
  <1>5. /\ up[k] = <<>> /\ k \notin garbled => Recent(k, busy[k])
        /\ up[k] # <<>> => Recent(k, up[k][Len(up[k])])
    BY <1>2, <1>4, Zenon DEF Ratios
  <1>5a. ASSUME NEW x, Recent(k, x), conns'[k] = conns[k], nulls'[k] = nulls[k] \/ nulls'[k] = nulls[k] + 1
         PROVE  Now(k, x)
    <2>1. PICK c \in 0..nulls[k] : x = (2 * conns[k] + c) % ByteValues
      BY <1>5a, Zenon DEF Recent
    <2>2. c \in 0..nulls'[k]
      BY <1>3, <1>5a
    <2> QED
      BY <1>5a, <2>1, <2>2, Zenon
  <1> HIDE DEF Now
  <1>6. CASE Same(k)
    <2>1. /\ UNCHANGED <<busy[k], up[k]>> /\ (k \in garbled => k \in garbled') /\ conns'[k] = conns[k]
          /\ nulls'[k] = nulls[k] \/ nulls'[k] = nulls[k] + 1
      BY <1>6, Zenon DEF Same
    <2> QED
      BY <1>5, <1>5a, <2>1, Zenon
  <1>7. CASE notify_parent_busy_ratio(k)
    <2>1. up' = [up EXCEPT ![k] = Append(up[k], get_used_conn_cnt(k) % ByteValues)]
      BY <1>2, <1>7, Zenon DEF notify_parent_busy_ratio
    <2>2. up'[k] = Append(up[k], get_used_conn_cnt(k) % ByteValues)
      BY <1>3, <2>1, Zenon
    <2>3. conns'[k] \in Nat /\ nulls'[k] \in Nat
      <3>1. Typed' /\ Counted'
        BY NextInv, Zenon DEF IInv, PoolInv
      <3> QED
        BY <1>1, <1>2, <3>1, Zenon DEF Typed, Counted
    <2>4. PICK x \in Nat : x = get_used_conn_cnt(k) % ByteValues
      BY <2>3, ByteAssumption DEF get_used_conn_cnt
    <2>5. Now(k, x)
      <3>1. nulls'[k] \in 0..nulls'[k]
        BY <2>3
      <3> QED
        BY <2>4, <3>1, Zenon DEF Now, get_used_conn_cnt
    <2>6. Append(up[k], x) # <<>> /\ Append(up[k], x)[Len(Append(up[k], x))] = x
      BY <1>3, Reports, Zenon
    <2> QED
      BY <2>2, <2>4, <2>5, <2>6, Zenon
  <1>8. CASE recv_ratio(k)
    <2>1. PICK s \in Seq(Nat) : s = up[k]
      BY <1>3
    <2>2. PICK l \in Nat : l = Len(s)
      OBVIOUS
    <2>3. PICK n \in 0..4 : n = IF l < 4 THEN l ELSE 4
      OBVIOUS
    <2>4. /\ busy' = [busy EXCEPT ![k] = Ratio(SubSeq(s, 1, n))]
          /\ up' = [up EXCEPT ![k] = SubSeq(s, n + 1, l)]
          /\ garbled' = IF n = 1 THEN garbled \ {k} ELSE garbled \cup {k}
          /\ conns' = conns /\ nulls' = nulls
      BY <1>8, <2>1, <2>2, <2>3, Zenon DEF recv_ratio, used
    <2>5. /\ busy'[k] = Ratio(SubSeq(s, 1, n)) /\ up'[k] = SubSeq(s, n + 1, l)
          /\ conns'[k] = conns[k] /\ nulls'[k] = nulls[k]
      BY <1>3, <2>4, Zenon
    <2>6. CASE n = 1
      <3>1. l = 1
        BY <2>3, <2>6
      <3>2. SubSeq(s, 1, 1) \in Seq(Nat) /\ Len(SubSeq(s, 1, 1)) = 1 /\ SubSeq(s, 1, 1)[1] = s[1]
        BY <2>2, <3>1, Reports, Zenon
      <3>3. Ratio(SubSeq(s, 1, 1)) = s[1]
        BY <3>2, RatioFacts, Zenon
      <3>4. s # <<>> /\ Recent(k, s[1])
        <4>1. s # <<>>
          <5>1. 1 > 0
            OBVIOUS
          <5> QED
            BY <2>2, <3>1, <5>1, Reports, ZenonT(60)
        <4> QED
          BY <1>5, <2>1, <2>2, <3>1, <4>1, Zenon
      <3>5. up'[k] = <<>>
        BY <2>2, <2>5, <2>6, <3>1, Reports, SMTT(30)
      <3> QED
        BY <1>5a, <2>5, <2>6, <3>3, <3>4, <3>5, Zenon
    <2>7. CASE n # 1
      <3>1. k \in garbled'
        BY <2>4, <2>7, Zenon
      <3>2. ASSUME up'[k] # <<>> PROVE Now(k, up'[k][Len(up'[k])])
        <4>1. n = 4 /\ 4 < l
          <5>1. n <= l /\ n \in Nat
            BY <2>3
          <5>2. n < l
            BY <2>2, <2>5, <3>2, <5>1, Reports, Zenon
          <5> QED
            BY <2>3, <5>2
        <4>2. Len(SubSeq(s, 5, l)) = l - 4 /\ SubSeq(s, 5, l)[l - 4] = s[l]
          <5>1. 4 \in Nat /\ 4 <= l /\ 4 < l /\ 4 + 1 = 5
            BY <4>1
          <5> QED
            BY <2>2, <5>1, Reports
        <4>3. s # <<>> /\ Recent(k, s[l])
          <5>1. s # <<>>
            BY <2>2, <4>1, Reports
          <5> QED
            BY <1>5, <2>1, <2>2, <5>1, Zenon
        <4>4. up'[k] = SubSeq(s, 5, l)
          BY <2>5, <4>1
        <4> QED
          BY <1>5a, <2>5, <4>2, <4>3, <4>4, Zenon
      <3> QED
        BY <3>1, <3>2, Zenon
    <2> QED
      BY <2>6, <2>7, Zenon
  <1> QED
    BY <1>4, <1>6, <1>7, <1>8, Zenon
(* What makes the choice of a child fair *)
FairInv == IInv /\ Turns /\ Ratios

(* At the start nobody has had a message, and nobody has a connection. *)
LEMMA InitFair == Init => FairInv
  <1> SUFFICES ASSUME Init PROVE FairInv
    OBVIOUS
  <1>1. IInv
    BY InitInv
  <1>2. m_pid \subseteq Child /\ \A i \in Child : /\ sent[i] = 0 /\ conns[i] = 0 /\ nulls[i] = 0
                                               /\ busy[i] = 0 /\ up[i] = <<>>
    BY Zenon DEF Init, Zero
  <1>3. sub_process_counter = 0 /\ \A i \in m_pid : i \in Nat
    <2>1. variant \in DOMAIN Sizes
      BY Zenon DEF Init
    <2> QED
      BY <1>2, <2>1, ChildFacts, Zenon DEF Init
  <1>4. Turns
    BY <1>2, <1>3 DEF Turns
  <1>5. Ratios
    <2>1. (2 * 0 + 0) % ByteValues = 0 /\ 0 \in 0..0
      BY ByteAssumption
    <2>2. \A i \in Child : Recent(i, 0)
      BY <1>2, <2>1, Zenon DEF Recent
    <2> QED
      BY <1>2, <2>2, Zenon DEF Ratios
  <1> QED
    BY <1>1, <1>4, <1>5 DEF FairInv

(* It is never lost. *)
LEMMA NextFair == FairInv /\ [Next]_vars => FairInv'
  <1> SUFFICES ASSUME FairInv, [Next]_vars PROVE FairInv'
    OBVIOUS
  <1>1. IInv /\ Turns /\ Ratios
    BY DEF FairInv
  <1>2. variant' = variant
    BY Zenon DEF Next, vars, connect, setup_sig_pipe, dispatch, sigchld, sigterm_arrives, sigterm, leave,
           crash, child, child_loops, child_exits, child_accept, child_signal, child_closes, child_stale, recv_ratio
  <1> QED
    BY <1>1, <1>2, NextInv, TurnsKeep, RatiosKeep DEF FairInv

(* 15-1 takes turns among the children that are left, and springsnail tells a
   child with the fewest connections when its ratios are up to date, as far as
   the NULL entries in m_used let it know: for any number of children,
   connections, crashes and such entries. *)
THEOREM FairlyShared == Spec => Balanced
  <1> DEFINE Share ==
        /\ variant = "processpool" => \A i, j \in m_pid' : sent'[i] <= sent'[j] + 1
        /\ variant = "springsnail" /\ (\A j \in Child : Settled(j)) =>
               \A i \in Child : sent'[i] # sent[i] => \A j \in Child : 2 * conns[i] <= 2 * conns[j] + nulls[j]
  <1>1. FairInv /\ FairInv' /\ [Next]_vars => [Share]_vars
    <2> SUFFICES ASSUME FairInv, FairInv', [Next]_vars PROVE Share
      BY Zenon
    <2>1. variant' = variant
      BY Zenon DEF Next, vars, connect, setup_sig_pipe, dispatch, sigchld, sigterm_arrives, sigterm, leave,
             crash, child, child_loops, child_exits, child_accept, child_signal, child_closes, child_stale, recv_ratio
    <2>2. ASSUME variant = "processpool", NEW i \in m_pid', NEW j \in m_pid'
          PROVE  sent'[i] <= sent'[j] + 1
      <3>1. Typed' /\ TableAgrees' /\ Turns'
        BY DEF FairInv, IInv, PoolInv
      <3>2. PICK c \in Int : c = sub_process_counter'
        BY <3>1, ChildFacts DEF TableAgrees, Typed, Child
      <3>3. i \in Child' /\ j \in Child'
        BY <3>1, Zenon DEF TableAgrees
      <3>4. i \in Int /\ j \in Int
        BY <3>3 DEF Child
      <3>5. sent'[i] \in Nat /\ sent'[j] \in Nat
        BY <3>1, <3>3, Zenon DEF Typed
      <3>6. /\ i < c /\ j >= c => sent'[i] = sent'[j] + 1
            /\ j < c /\ i >= c => sent'[j] = sent'[i] + 1
            /\ i < c /\ j < c => sent'[i] = sent'[j]
            /\ i >= c /\ j >= c => sent'[i] = sent'[j]
        BY <2>1, <2>2, <3>1, <3>2, Zenon DEF Turns
      <3> QED
        BY <3>2, <3>4, <3>5, <3>6
    <2>3. ASSUME variant = "springsnail", \A j \in Child : Settled(j),
                 NEW i \in Child, sent'[i] # sent[i], NEW j \in Child
          PROVE  2 * conns[i] <= 2 * conns[j] + nulls[j]
      <3>1. Typed /\ BusyTyped /\ Counted /\ Ratios
        BY Zenon DEF FairInv, IInv, PoolInv
      <3>2. i = get_most_free_srv
        <4>1. dispatch
          BY <2>3, Zenon DEF Next, vars, connect, setup_sig_pipe, sigchld, sigterm_arrives, sigterm, leave,
             crash, child, child_loops, child_exits, child_accept, child_signal, child_closes, child_stale, recv_ratio,
             counts
        <4>2. sent' = [sent EXCEPT ![get_most_free_srv] = sent[get_most_free_srv] + 1]
          BY <2>3, <4>1 DEF dispatch, Chosen
        <4> QED
          BY <2>3, <3>1, <4>2, Zenon DEF Typed
      <3>3. busy[i] <= busy[j]
        BY <3>1, <3>2, MostFree, Zenon
      <3>4. ASSUME NEW k \in Child
            PROVE  /\ busy[k] \in Int /\ conns[k] \in Nat /\ nulls[k] \in Nat
                   /\ 2 * conns[k] <= busy[k] /\ busy[k] <= 2 * conns[k] + nulls[k]
        <4>1. Alive(k) /\ up[k] = <<>> /\ k \notin garbled /\ 2 * conns[k] + nulls[k] < ByteValues
          BY <2>3, Zenon DEF Settled
        <4>2. PICK c \in 0..nulls[k] : busy[k] = (2 * conns[k] + c) % ByteValues
          BY <2>3, <3>1, <4>1, Zenon DEF Ratios, Recent
        <4>3. PICK m \in Nat, u \in Nat : m = conns[k] /\ u = nulls[k]
          BY <3>1, Zenon DEF Typed, Counted
        <4>4. 2 * m + u < ByteValues /\ c \in 0..u
          BY <4>1, <4>2, <4>3, Zenon
        <4>5. PICK n \in Nat : n = 2 * m + c /\ n < ByteValues
          BY <4>4, ByteAssumption
        <4>6. n % ByteValues = n
          BY <4>5, ByteAssumption
        <4>7. busy[k] = n
          BY <4>2, <4>3, <4>5, <4>6, Zenon
        <4>8. n \in Int /\ 2 * m <= n /\ n <= 2 * m + u
          BY <4>4, <4>5
        <4> QED
          BY <4>3, <4>7, <4>8, Zenon
      <3> QED
        BY <3>3, <3>4
    <2> QED
      BY <2>2, <2>3, Zenon
  <1>2. Spec => [][Share]_vars
    BY <1>1, InitFair, NextFair, PTL DEF Spec
  <1> QED
    BY <1>2 DEF Balanced
=============================================================================
