--------------------------- MODULE ShmTalkProofs ---------------------------
(* The talk server with processes and shared memory: its tables agree, it stops
   without children, and segments are the children's own until one is moved. *)
EXTENDS ShmTalk, TLAPS

Place == {"none", "forked", "top", "checked", "wait", "recv", "zombie"}

(* TablesAgree is inductive once the places of the children are typed. *)
Inv == TablesAgree /\ pc \in [Pid -> Place]

Tables ==
    /\ users \in Seq(Pid) /\ Len(users) <= USER_LIMIT
    /\ sub_process \in [Pid -> -1..(USER_LIMIT - 1)]
    /\ \A i \in DOMAIN users : sub_process[users[i]] = i - 1
    /\ {users[i] : i \in DOMAIN users} = {p \in Pid : pc[p] # "none"}

Pipes ==
    /\ up \in [Pid -> Seq(Idx)] /\ down \in [Pid -> Seq(Idx)]
    /\ edge \subseteq {"up", "down"} \X Pid
    /\ \A p \in Pid : /\ <<"up", p>> \in edge => up[p] # <<>>
                      /\ <<"down", p>> \in edge => down[p] # <<>>

Segments ==
    /\ idx \in [Pid -> Idx]
    /\ share_mem \in [Idx -> Pid \cup {NoPid}]

(* TablesAgree is the conjunction of the three parts. *)
LEMMA Parts ==
    /\ TablesAgree <=> Tables /\ Pipes /\ Segments
    /\ TablesAgree' <=> Tables' /\ Pipes' /\ Segments'
  BY Zenon DEF TablesAgree, TypeOK, Tables, Pipes, Segments

(* A child that moves without being born or reaped does not touch the tables. *)
LEMMA TablesStay ==
    ASSUME Tables, UNCHANGED <<users, sub_process>>,
           \A p \in Pid : pc'[p] = "none" <=> pc[p] = "none"
    PROVE  Tables'
  <1>1. {p \in Pid : pc'[p] # "none"} = {p \in Pid : pc[p] # "none"}
    OBVIOUS
  <1> QED
    BY <1>1 DEF Tables

(* A step of a child moves this child and no other. *)
LEMMA ChildMoves ==
    ASSUME Inv, NEW p \in Pid, NEW from \in Place, NEW to \in Place, Child(p, from, to),
           from # "none", to # "none"
    PROVE  pc' \in [Pid -> Place] /\ \A q \in Pid : pc'[q] = "none" <=> pc[q] = "none"
  BY DEF Inv, Child

(* The children touch their pipes and segments only. *)
LEMMA ChildKeeps ==
    ASSUME Inv, NEW p \in Pid, child(p)
    PROVE  Inv'
  <1>1. Tables /\ Pipes /\ Segments
    BY Parts DEF Inv
  <1>2. pc' \in [Pid -> Place] /\ \A q \in Pid : pc'[q] = "none" <=> pc[q] = "none"
    <2>1. \E from, to \in Place : Child(p, from, to) /\ from # "none" /\ to # "none"
      BY DEF child, child_starts, child_loops, child_waits, child_exits, child_clears, child_recv,
             child_sends, Place
    <2> QED
      BY <2>1, ChildMoves
  <1>3. UNCHANGED <<users, sub_process>>
    BY DEF child, child_starts, child_loops, child_waits, child_exits, child_clears, child_recv,
           child_sends, parent
  <1>4. Tables'
    BY <1>1, <1>2, <1>3, TablesStay
  <1>5. Segments'
    <2>1. idx' = idx /\ idx[p] \in Idx
      BY <1>1 DEF Segments, child, child_starts, child_loops, child_waits, child_exits, child_clears,
                  child_recv, child_sends
    <2>2. \/ share_mem' = share_mem
          \/ \E w \in Pid \cup {NoPid} : share_mem' = [share_mem EXCEPT ![idx[p]] = w]
      BY SMTT(30) DEF child, child_starts, child_loops, child_waits, child_exits, child_clears, child_recv,
             child_sends
    <2> QED
      BY <1>1, <2>1, <2>2 DEF Segments
  <1>6. Pipes'
    <2>1. CASE UNCHANGED pipes
      BY <1>1, <2>1 DEF Pipes, pipes
    <2>2. CASE child_recv(p) /\ unread[p] > 0
      <3>1. /\ up' = [up EXCEPT ![p] = Append(up[p], idx[p])]
            /\ edge' = edge \cup {<<"up", p>>} /\ down' = down
        BY <2>2 DEF child_recv
      <3>2. up[p] \in Seq(Idx) /\ idx[p] \in Idx
        BY <1>1 DEF Pipes, Segments
      <3>3. Append(up[p], idx[p]) \in Seq(Idx) /\ Append(up[p], idx[p]) # <<>>
        BY <3>2
      <3> QED
        BY <1>1, <3>1, <3>3, SMTT(30) DEF Pipes
    <2>3. CASE child_sends(p)
      <3>1. /\ down' = [down EXCEPT ![p] = Tail(down[p])]
            /\ edge' = edge \ {<<"down", p>>} /\ up' = up /\ <<"down", p>> \in edge
        BY <2>3 DEF child_sends
      <3>2. down[p] \in Seq(Idx) /\ down[p] # <<>>
        BY <1>1, <3>1, Zenon DEF Pipes
      <3>3. Tail(down[p]) \in Seq(Idx)
        BY <3>2
      <3> QED
        BY <1>1, <3>1, <3>3 DEF Pipes
    <2> QED
      BY <2>1, <2>2, <2>3 DEF child, child_starts, child_loops, child_waits, child_exits, child_clears,
                              child_recv, pipes
  <1> QED
    BY <1>2, <1>4, <1>5, <1>6, Parts DEF Inv

(* fork(): the new child takes the place behind the last user. *)
LEMMA AcceptKeeps ==
    ASSUME Inv, NEW p \in Pid, accept(p)
    PROVE  Inv'
  <1>1. Tables /\ Pipes /\ Segments /\ pc \in [Pid -> Place]
    BY Parts DEF Inv
  <1>2. /\ Len(users) < USER_LIMIT /\ pc[p] = "none"
        /\ pc' = [pc EXCEPT ![p] = "forked"]
        /\ idx' = [idx EXCEPT ![p] = Len(users)]
        /\ sub_process' = [sub_process EXCEPT ![p] = Len(users)]
        /\ users' = Append(users, p)
        /\ UNCHANGED <<share_mem, up, down, edge>>
    BY DEF accept, Room, Slot, pipes
  <1>3. users \in Seq(Pid) /\ Len(users) \in Nat /\ DOMAIN users = 1..Len(users)
    BY <1>1 DEF Tables
  <1>4. /\ users' \in Seq(Pid) /\ Len(users') = Len(users) + 1
        /\ DOMAIN users = 1..Len(users) /\ DOMAIN users' = 1..(Len(users) + 1)
        /\ \A i \in 1..Len(users) : users'[i] = users[i] /\ users[i] \in Pid
        /\ users'[Len(users) + 1] = p
    BY <1>2, <1>3
  <1>5. Len(users) \in Idx
    BY <1>2, <1>3, LimitAssumption DEF Idx
  <1>6. pc' \in [Pid -> Place] /\ \A q \in Pid : pc'[q] # "none" <=> pc[q] # "none" \/ q = p
    BY <1>1, <1>2 DEF Place
  <1>7. \A q \in Pid : pc[q] # "none" <=> \E i \in 1..Len(users) : users[i] = q
    BY <1>1, <1>3, ZenonT(60) DEF Tables
  <1>8. Tables'
    <2>1. sub_process' \in [Pid -> -1..(USER_LIMIT - 1)]
      BY <1>1, <1>2, <1>3, LimitAssumption DEF Tables
    <2>2. Len(users') <= USER_LIMIT
      BY <1>2, <1>3, <1>4, LimitAssumption
    <2>3. \A i \in DOMAIN users' : sub_process'[users'[i]] = i - 1
      <3>1. SUFFICES ASSUME NEW i \in 1..(Len(users) + 1) PROVE sub_process'[users'[i]] = i - 1
        BY <1>4
      <3>2. CASE i = Len(users) + 1
        BY <1>1, <1>2, <1>3, <1>4, <3>2 DEF Tables
      <3>3. CASE i \in 1..Len(users)
        <4>1. users'[i] = users[i] /\ users[i] \in Pid /\ users[i] # p
          BY <1>2, <1>4, <1>7, <3>3
        <4>2. sub_process[users[i]] = i - 1
          BY <1>1, <1>4, <3>3, Zenon DEF Tables
        <4> QED
          BY <1>1, <1>2, <4>1, <4>2 DEF Tables
      <3> QED
        BY <1>3, <3>2, <3>3
    <2>4. {users'[i] : i \in DOMAIN users'} = {q \in Pid : pc'[q] # "none"}
      <3>1. \A i \in DOMAIN users' : users'[i] \in Pid /\ pc'[users'[i]] # "none"
        BY <1>3, <1>4, <1>6, <1>7
      <3>2. ASSUME NEW q \in Pid, pc'[q] # "none" PROVE \E i \in DOMAIN users' : users'[i] = q
        <4>1. CASE q = p
          BY <1>3, <1>4, <4>1
        <4>2. CASE q # p
          <5>1. PICK i \in 1..Len(users) : users[i] = q
            BY <1>6, <1>7, <3>2, <4>2
          <5>2. i \in DOMAIN users' /\ users'[i] = q
            BY <1>3, <1>4, <5>1
          <5> QED
            BY <5>2
        <4> QED
          BY <4>1, <4>2
      <3> QED
        BY <3>1, <3>2
    <2> QED
      BY <1>4, <2>1, <2>2, <2>3, <2>4 DEF Tables
  <1>9. Pipes' /\ Segments'
    BY <1>1, <1>2, <1>5 DEF Pipes, Segments
  <1> QED
    BY <1>6, <1>8, <1>9, Parts DEF Inv

(* What the swap with the last user leaves *)
LEMMA SwapFacts ==
    ASSUME NEW S, NEW s \in Seq(S), NEW d \in 1..Len(s)
    PROVE  LET r == SubSeq([s EXCEPT ![d] = s[Len(s)]], 1, Len(s) - 1) IN
           /\ r \in Seq(S) /\ Len(r) = Len(s) - 1 /\ DOMAIN r = 1..(Len(s) - 1)
           /\ \A k \in 1..(Len(s) - 1) : r[k] = IF k = d THEN s[Len(s)] ELSE s[k]
  <1> DEFINE t == [s EXCEPT ![d] = s[Len(s)]]
             r == SubSeq(t, 1, Len(s) - 1)
  <1>1. Len(s) \in Nat /\ Len(s) >= 1 /\ Len(s) \in 1..Len(s)
    OBVIOUS
  <1>2. t \in Seq(S) /\ Len(t) = Len(s) /\ \A k \in 1..Len(s) : t[k] = IF k = d THEN s[Len(s)] ELSE s[k]
    BY <1>1
  <1> HIDE DEF t
  <1>3. r \in Seq(S) /\ Len(r) = Len(s) - 1 /\ DOMAIN r = 1..(Len(s) - 1)
        /\ \A k \in 1..(Len(s) - 1) : r[k] = t[k]
    BY <1>1, <1>2
  <1> QED
    BY <1>1, <1>2, <1>3

(* waitpid(): the last user takes the place of the dead one. *)
LEMMA ReapKeeps ==
    ASSUME Inv, NEW p \in Pid, sigchld(p)
    PROVE  Inv'
  <1>1. Tables /\ Pipes /\ Segments /\ pc \in [Pid -> Place] /\ pc[p] = "zombie"
    BY Parts DEF Inv, sigchld, Zombies
  <1>2. users \in Seq(Pid) /\ Len(users) \in Nat /\ DOMAIN users = 1..Len(users)
    BY <1>1 DEF Tables
  <1>3. \A q \in Pid : pc[q] # "none" <=> \E i \in 1..Len(users) : users[i] = q
    BY <1>1, <1>2, Zenon DEF Tables
  <1>4. PICK d \in 1..Len(users) : users[d] = p
    BY <1>1, <1>3
  <1>5. sub_process[p] = d - 1 /\ \A i \in 1..Len(users) : users[i] = p => i = d
    <2>1. \A i \in 1..Len(users) : sub_process[users[i]] = i - 1
      BY <1>1, <1>2, Zenon DEF Tables
    <2>2. sub_process[p] = d - 1
      BY <1>4, <2>1
    <2>3. ASSUME NEW i \in 1..Len(users), users[i] = p PROVE i = d
      <3>1. i - 1 = d - 1
        BY <2>1, <2>2, <2>3
      <3> QED
        BY <1>2, <3>1
    <2> QED
      BY <2>2, <2>3
  <1>6. PICK n \in 1..Len(users) : n = Len(users)
    <2>1. Len(users) \in 1..Len(users)
      BY <1>2
    <2> QED
      BY <2>1
  <1>7. PICK last \in Pid : last = users[n]
    BY <1>2, <1>6
  <1>8. /\ sub_process' = [[sub_process EXCEPT ![p] = -1] EXCEPT ![last] = d - 1]
        /\ users' = SubSeq([users EXCEPT ![d] = users[Len(users)]], 1, Len(users) - 1)
        /\ pc' = [pc EXCEPT ![p] = "none"]
        /\ edge' = edge \ {<<"up", p>>, <<"down", p>>}
        /\ up' = [up EXCEPT ![p] = <<>>] /\ down' = [down EXCEPT ![p] = <<>>]
        /\ UNCHANGED <<idx, share_mem>>
    <2>1. (d - 1) + 1 = d
      OBVIOUS
    <2> QED
      BY <1>4, <1>5, <1>6, <1>7, <2>1, Zenon DEF sigchld, Reaped, Vacate
  <1>9. /\ users' \in Seq(Pid) /\ Len(users') = n - 1 /\ DOMAIN users' = 1..(n - 1)
        /\ \A k \in 1..(n - 1) : users'[k] = IF k = d THEN last ELSE users[k]
    BY <1>2, <1>6, <1>7, <1>8, SwapFacts
  <1>10. pc' \in [Pid -> Place] /\ \A q \in Pid : pc'[q] # "none" <=> pc[q] # "none" /\ q # p
    BY <1>1, <1>8 DEF Place
  <1>11. Tables'
    <2>1. sub_process' \in [Pid -> -1..(USER_LIMIT - 1)] /\ Len(users') <= USER_LIMIT
      <3>1. Len(users) <= USER_LIMIT /\ sub_process \in [Pid -> -1..(USER_LIMIT - 1)]
        BY <1>1 DEF Tables
      <3>2. /\ d - 1 \in -1..(USER_LIMIT - 1) /\ -1 \in -1..(USER_LIMIT - 1)
            /\ n - 1 <= USER_LIMIT
        BY <1>2, <1>6, <3>1, LimitAssumption, SMTT(30)
      <3> QED
        BY <1>8, <1>9, <3>1, <3>2, SMTT(30)
    <2>2. \A k \in 1..(n - 1) : users'[k] \in Pid /\ users'[k] # p
      BY <1>2, <1>4, <1>5, <1>6, <1>7, <1>9
    <2>3. \A i \in DOMAIN users' : sub_process'[users'[i]] = i - 1
      <3>1. SUFFICES ASSUME NEW k \in 1..(n - 1) PROVE sub_process'[users'[k]] = k - 1
        BY <1>9, SMTT(30)
      <3>2. CASE k = d
        <4>1. users'[k] = last
          BY <1>9, <3>2, Zenon
        <4>2. last \in DOMAIN [sub_process EXCEPT ![p] = -1]
          BY <1>1, Zenon DEF Tables
        <4>3. sub_process'[last] = d - 1
          BY <1>8, <4>2, Zenon
        <4> QED
          BY <3>2, <4>1, <4>3, Zenon
      <3>3. CASE k # d
        <4>0. users'[k] = users[k]
          BY <1>9, <3>3, Zenon
        <4>1. users'[k] = users[k] /\ k \in 1..Len(users) /\ k # n
          <5>1. n = Len(users) /\ n \in Nat
            BY <1>2, <1>6, Zenon
          <5>2. k \in 1..n /\ k # n
            BY <5>1
          <5> QED
            BY <4>0, <5>1, <5>2, Zenon
        <4>2. sub_process[users[k]] = k - 1 /\ sub_process[last] = n - 1
          BY <1>1, <1>2, <1>6, <1>7, <4>1, Zenon DEF Tables
        <4>3. users[k] # last
          BY <4>1, <4>2
        <4>4. users[k] # p /\ users[k] \in Pid
          BY <2>2, <4>1
        <4> QED
          BY <1>1, <1>8, <4>1, <4>2, <4>3, <4>4, Zenon DEF Tables
      <3> QED
        BY <3>2, <3>3
    <2>4. {users'[i] : i \in DOMAIN users'} = {q \in Pid : pc'[q] # "none"}
      <3>1. \A k \in 1..(n - 1) : pc'[users'[k]] # "none"
        <4>1. \A k \in 1..(n - 1) : \E i \in 1..Len(users) : users[i] = users'[k]
          <5>1. ASSUME NEW k \in 1..(n - 1) PROVE \E i \in 1..Len(users) : users[i] = users'[k]
            BY <1>2, <1>6, <1>7, <1>9, <5>1, SMTT(30)
          <5> QED
            BY <5>1, Zenon
        <4> QED
          BY <1>3, <1>10, <2>2, <4>1
      <3>2. ASSUME NEW q \in Pid, pc'[q] # "none" PROVE \E k \in 1..(n - 1) : users'[k] = q
        <4>1. PICK i \in 1..Len(users) : users[i] = q
          BY <1>3, <1>10, <3>2
        <4>2. i # d
          BY <1>4, <1>10, <3>2, <4>1
        <4>3. i \in 1..n /\ d \in 1..n /\ n \in Nat
          BY <1>2, <1>6
        <4>4. CASE i = n
          <5>1. d \in 1..(n - 1) /\ users'[d] = q
            BY <1>7, <1>9, <4>1, <4>2, <4>3, <4>4
          <5> QED
            BY <5>1
        <4>5. CASE i # n
          <5>1. i \in 1..(n - 1) /\ users'[i] = q
            BY <1>9, <4>1, <4>2, <4>3, <4>5
          <5> QED
            BY <5>1
        <4> QED
          BY <4>4, <4>5
      <3>3. DOMAIN users' = 1..(n - 1)
        BY <1>9
      <3>4. \A k \in 1..(n - 1) : users'[k] \in Pid
        BY <2>2
      <3> QED
        BY <3>1, <3>2, <3>3, <3>4, SMTT(30)
    <2> QED
      BY <1>9, <2>1, <2>3, <2>4, Zenon DEF Tables
  <1>12. Pipes'
    <2>1. <<>> \in Seq(Idx)
      OBVIOUS
    <2>2. up' \in [Pid -> Seq(Idx)] /\ down' \in [Pid -> Seq(Idx)]
      BY <1>1, <1>8, <2>1, Zenon DEF Pipes
    <2>3. edge' \subseteq {"up", "down"} \X Pid
      BY <1>1, <1>8, Zenon DEF Pipes
    <2>4. ASSUME NEW q \in Pid
          PROVE  /\ <<"up", q>> \in edge' => up'[q] # <<>>
                 /\ <<"down", q>> \in edge' => down'[q] # <<>>
      <3>1. CASE q = p
        BY <1>8, <3>1, Zenon
      <3>2. CASE q # p
        <4>1. up'[q] = up[q] /\ down'[q] = down[q]
          BY <1>1, <1>8, <3>2, Zenon DEF Pipes
        <4> QED
          BY <1>1, <1>8, <4>1, Zenon DEF Pipes
      <3> QED
        BY <3>1, <3>2, Zenon
    <2> QED
      BY <2>2, <2>3, <2>4, Zenon DEF Pipes
  <1>13. Segments'
    BY <1>1, <1>8 DEF Segments
  <1> QED
    BY <1>10, <1>11, <1>12, <1>13, Parts DEF Inv

(* The parent passes a number on: only pipes change. *)
LEMMA PassKeeps ==
    ASSUME Inv, NEW p \in Pid, pass_on(p)
    PROVE  Inv'
  <1>1. Tables /\ Pipes /\ Segments /\ pc \in [Pid -> Place]
    BY Parts DEF Inv
  <1>2. /\ <<"up", p>> \in edge
        /\ up' = [up EXCEPT ![p] = Tail(up[p])]
        /\ down' = [q \in Pid |-> IF q \in Others(p) THEN Append(down[q], Head(up[p])) ELSE down[q]]
        /\ edge' = (edge \ {<<"up", p>>}) \cup {<<"down", q>> : q \in Others(p)}
        /\ UNCHANGED <<users, sub_process, pc, idx, share_mem>>
    BY DEF pass_on, parent
  <1>3. Others(p) \subseteq Pid
    BY <1>1 DEF Others, Tables
  <1>4. up[p] \in Seq(Idx) /\ up[p] # <<>>
    BY <1>1, <1>2, Zenon DEF Pipes
  <1>5. Tail(up[p]) \in Seq(Idx) /\ Head(up[p]) \in Idx
    BY <1>4
  <1>6. \A q \in Pid : down[q] \in Seq(Idx)
    BY <1>1 DEF Pipes
  <1>7. \A q \in Pid : /\ Append(down[q], Head(up[p])) \in Seq(Idx)
                       /\ Append(down[q], Head(up[p])) # <<>>
    <2>1. TAKE q \in Pid
    <2>2. down[q] \in Seq(Idx)
      BY <1>6
    <2> QED
      BY <1>5, <2>2
  <1>8. Pipes'
    <2>1. up' \in [Pid -> Seq(Idx)] /\ down' \in [Pid -> Seq(Idx)]
      BY <1>1, <1>2, <1>5, <1>6, <1>7 DEF Pipes
    <2>2. edge' \subseteq {"up", "down"} \X Pid
      BY <1>1, <1>2, <1>3 DEF Pipes
    <2>3. ASSUME NEW q \in Pid, <<"up", q>> \in edge' PROVE up'[q] # <<>>
      <3>1. q # p /\ <<"up", q>> \in edge
        BY <1>2, <2>3
      <3> QED
        BY <1>1, <1>2, <3>1, Zenon DEF Pipes
    <2>4. ASSUME NEW q \in Pid, <<"down", q>> \in edge' PROVE down'[q] # <<>>
      <3>1. q \in Others(p) \/ <<"down", q>> \in edge
        BY <1>2, <2>4
      <3> QED
        BY <1>1, <1>2, <1>7, <3>1, Zenon DEF Pipes
    <2> QED
      BY <2>1, <2>2, <2>3, <2>4 DEF Pipes
  <1>9. Tables' /\ Segments'
    BY <1>1, <1>2, TablesStay, Zenon DEF Segments
  <1> QED
    BY <1>1, <1>2, <1>8, <1>9, Parts, Zenon DEF Inv

(* Signals that arrive or are handled without reaping leave the tables alone. *)
LEMMA SignalKeeps ==
    ASSUME Inv, \/ sigterm_arrives \/ sigterm \/ leave \/ UNCHANGED vars
                \/ \E p \in Pid : client_talks(p) \/ client_leaves(p)
    PROVE  Inv'
  <1>1. Tables /\ Pipes /\ Segments /\ pc \in [Pid -> Place]
    BY Parts DEF Inv
  <1>2. UNCHANGED <<users, sub_process, idx, share_mem, up, down, edge>>
    BY Zenon DEF sigterm_arrives, sigterm, leave, vars, client_talks, client_leaves, parent, pipes
  <1>3. pc' = pc \/ pc' = [p \in Pid |-> IF pc[p] = "wait" THEN "top" ELSE pc[p]]
    BY Zenon DEF sigterm_arrives, sigterm, leave, vars, client_talks, client_leaves
  <1>4. pc' \in [Pid -> Place] /\ \A p \in Pid : pc'[p] = "none" <=> pc[p] = "none"
    BY <1>1, <1>3 DEF Place
  <1>5. Tables'
    BY <1>1, <1>2, <1>4, TablesStay
  <1>6. Pipes' /\ Segments'
    BY <1>1, <1>2 DEF Pipes, Segments
  <1> QED
    BY <1>4, <1>5, <1>6, Parts DEF Inv

(* The server starts without users. *)
LEMMA InitInv == Init => Inv
  <1>1. SUFFICES ASSUME Init PROVE Inv
    OBVIOUS
  <1>2. users = <<>> /\ \A p \in Pid : pc[p] = "none"
    BY <1>1 DEF Init
  <1>3. <<>> \in Seq(Idx) /\ <<>> \in Seq(Pid) /\ Len(<<>>) = 0 /\ DOMAIN <<>> = {}
    OBVIOUS
  <1>4. Tables
    <2>1. {users[i] : i \in DOMAIN users} = {} /\ {p \in Pid : pc[p] # "none"} = {}
      BY <1>2, <1>3
    <2> QED
      BY <1>1, <1>2, <1>3, <2>1, LimitAssumption DEF Init, Tables
  <1>5. Pipes
    BY <1>1, <1>3 DEF Init, Pipes
  <1>6. Segments /\ pc \in [Pid -> Place]
    BY <1>1, LimitAssumption DEF Init, Segments, Place, Idx
  <1> QED
    BY <1>4, <1>5, <1>6, Parts DEF Inv

(* Every step keeps the invariant. *)
LEMMA NextInv == Inv /\ [Next]_vars => Inv'
  BY ChildKeeps, AcceptKeeps, ReapKeeps, PassKeeps, SignalKeeps DEF Next

(* For any number of users and pids, sub_process inverts users and users lists
   exactly the children that waitpid() has not returned: the swap in the SIGCHLD
   branch keeps both tables. *)
THEOREM TablesStayInverse == Spec => []TablesAgree
  <1>1. Inv => TablesAgree
    BY DEF Inv
  <1> QED
    BY <1>1, InitInv, NextInv, PTL DEF Spec

(* The server decides to stop only when every child has been waited for. *)
THEOREM StopsWithoutChildren == Spec => StopsClean
  <1>1. Inv /\ Inv' /\ [Next]_vars => [stop_server' /\ ~ stop_server => \A p \in Pid : pc'[p] = "none"]_vars
    <2>1. SUFFICES ASSUME Inv, Inv', [Next]_vars, stop_server', ~ stop_server
                   PROVE  \A p \in Pid : pc'[p] = "none"
      OBVIOUS
    <2>2. \/ sigterm /\ users = <<>>
          \/ \E p \in Pid : sigchld(p) /\ users' = <<>>
      BY <2>1, ZenonT(60) DEF Next, vars, child, child_starts, child_loops, child_waits, child_exits, child_clears,
                  child_recv, child_sends, client_talks, client_leaves, accept, pass_on, sigterm_arrives,
                  sigterm, leave, parent, sigchld, Finished
    <2>3. users' = <<>>
      BY <2>2 DEF sigterm
    <2>4. Tables'
      BY <2>1, Parts DEF Inv
    <2>5. DOMAIN users' = {}
      BY <2>3
    <2> QED
      BY <2>4, <2>5 DEF Tables
  <1> QED
    BY <1>1, InitInv, NextInv, PTL DEF Spec, StopsClean
-----------------------------------------------------------------------------
(* The numbers in a pipe *)
Numbers(s) == {s[k] : k \in 1..Len(s)}

LEMMA NumbersFacts ==
    ASSUME NEW s \in Seq(Idx)
    PROVE  /\ Numbers(<<>>) = {}
           /\ \A e \in Idx : Numbers(Append(s, e)) = Numbers(s) \cup {e}
           /\ s # <<>> => Numbers(Tail(s)) \subseteq Numbers(s) /\ Head(s) \in Numbers(s)
  <1>1. Numbers(<<>>) = {}
    BY DEF Numbers
  <1>2. ASSUME NEW e \in Idx PROVE Numbers(Append(s, e)) = Numbers(s) \cup {e}
    <2>1. PICK n \in Nat : n = Len(s)
      OBVIOUS
    <2>2. /\ Len(Append(s, e)) = n + 1 /\ Append(s, e)[n + 1] = e
          /\ \A k \in 1..n : Append(s, e)[k] = s[k]
      BY <2>1
    <2>3. 1..(n + 1) = 1..n \cup {n + 1}
      BY <2>1
    <2> QED
      BY <2>1, <2>2, <2>3 DEF Numbers
  <1>3. ASSUME s # <<>> PROVE Numbers(Tail(s)) \subseteq Numbers(s) /\ Head(s) \in Numbers(s)
    <2>1. PICK n \in Nat : n = Len(s) /\ n >= 1
      BY <1>3
    <2>2. Len(Tail(s)) = n - 1 /\ \A k \in 1..(n - 1) : Tail(s)[k] = s[k + 1]
      BY <1>3, <2>1
    <2>3. \A k \in 1..(n - 1) : k + 1 \in 1..n
      BY <2>1
    <2>4. Head(s) = s[1] /\ 1 \in 1..n
      BY <1>3, <2>1
    <2> QED
      BY <2>1, <2>2, <2>3, <2>4 DEF Numbers
  <1> QED
    BY <1>1, <1>2, <1>3

(* What holds of a child until another one is moved: the idx it started with is
   still its place; what it announces is its own segment, which nobody else writes;
   and what it is told to send is another one's. *)
Own(p) ==
    /\ pc[p] # "none" => idx[p] = sub_process[p]
    /\ pc[p] = "none" => Numbers(up[p]) = {} /\ Numbers(down[p]) = {}
    /\ Numbers(up[p]) \subseteq {idx[p]}
    /\ Numbers(up[p]) # {} => share_mem[idx[p]] \in {p, NoPid}
    /\ \A n \in Numbers(down[p]) : n # idx[p] /\ share_mem[n] # p

OwnInv == ~ moved => echoed = {} /\ \A p \in Pid : Own(p)

(* Two children have two places, so two segments. *)
LEMMA Distinct ==
    ASSUME Inv, \A p \in Pid : Own(p)
    PROVE  \A p, q \in Pid : p # q /\ pc[p] # "none" /\ pc[q] # "none" => idx[p] # idx[q]
  <1>1. SUFFICES ASSUME NEW p \in Pid, NEW q \in Pid, p # q, pc[p] # "none", pc[q] # "none", idx[p] = idx[q]
                 PROVE  FALSE
    OBVIOUS
  <1>2. Tables /\ DOMAIN users = 1..Len(users) /\ Len(users) \in Nat
    BY Parts DEF Inv, Tables
  <1>3. PICK j \in 1..Len(users) : users[j] = p
    BY <1>1, <1>2, SMTT(30) DEF Tables
  <1>4. PICK k \in 1..Len(users) : users[k] = q
    BY <1>1, <1>2, SMTT(30) DEF Tables
  <1>5. sub_process[p] = j - 1 /\ sub_process[q] = k - 1
    BY <1>2, <1>3, <1>4, Zenon DEF Tables
  <1>6. sub_process[p] = sub_process[q]
    BY <1>1 DEF Own
  <1>7. j = k
    BY <1>5, <1>6
  <1> QED
    BY <1>1, <1>3, <1>4, <1>7

(* A child keeps what is its own while its place stays, nobody announces more to it
   or for it, and its segment is not written by others. *)
LEMMA OwnFrom ==
    ASSUME NEW q \in Pid, Own(q), idx'[q] = idx[q], sub_process'[q] = sub_process[q],
           pc'[q] = "none" => pc[q] = "none", pc'[q] # "none" => pc[q] # "none",
           Numbers(up'[q]) = Numbers(up[q]), Numbers(down'[q]) \subseteq Numbers(down[q]),
           Numbers(up[q]) # {} => share_mem'[idx[q]] \in {share_mem[idx[q]], NoPid},
           \A n : share_mem'[n] = q => share_mem[n] = q
    PROVE  Own(q)'
  <1>1. pc'[q] # "none" => idx'[q] = sub_process'[q]
    BY Zenon DEF Own
  <1>2. pc'[q] = "none" => Numbers(up'[q]) = {} /\ Numbers(down'[q]) = {}
    <2>1. pc[q] = "none" => Numbers(up[q]) = {} /\ Numbers(down[q]) = {}
      BY Zenon DEF Own
    <2> QED
      BY <2>1, Zenon
  <1>3. Numbers(up'[q]) \subseteq {idx'[q]}
    BY Zenon DEF Own
  <1>4. Numbers(up'[q]) # {} => share_mem'[idx'[q]] \in {q, NoPid}
    <2>1. Numbers(up[q]) # {} => share_mem[idx[q]] \in {q, NoPid}
      BY Zenon DEF Own
    <2> QED
      BY <2>1, Zenon
  <1>5. \A n \in Numbers(down'[q]) : n # idx'[q] /\ share_mem'[n] # q
    <2>1. \A n \in Numbers(down[q]) : n # idx[q] /\ share_mem[n] # q
      BY Zenon DEF Own
    <2> QED
      BY <2>1, Zenon
  <1> QED
    BY <1>1, <1>2, <1>3, <1>4, <1>5, Zenon DEF Own, Numbers

(* Steps that touch neither pipes nor segments *)
LEMMA OwnStays ==
    ASSUME OwnInv, UNCHANGED <<idx, share_mem, up, down, sub_process, moved, echoed>>,
           \A p \in Pid : pc'[p] = "none" <=> pc[p] = "none"
    PROVE  OwnInv'
  BY ZenonT(60) DEF OwnInv, Own

(* A child clears, fills or announces its own segment, or sends another one's. *)
LEMMA OwnChild ==
    ASSUME Inv, OwnInv, NEW p \in Pid, child(p)
    PROVE  OwnInv'
  <1>1. Tables /\ Pipes /\ Segments
    BY Parts DEF Inv
  <1>2. pc[p] # "none" /\ \A q \in Pid : pc'[q] = "none" <=> pc[q] = "none"
    <2>1. \E from, to \in Place : Child(p, from, to) /\ from # "none" /\ to # "none"
      BY Zenon DEF child, child_starts, child_loops, child_waits, child_exits, child_clears, child_recv,
             child_sends, Place
    <2> QED
      BY <2>1, ChildMoves, SMTT(30) DEF Child
  <1>3. UNCHANGED <<idx, sub_process, moved>>
    BY Zenon DEF child, child_starts, child_loops, child_waits, child_exits, child_clears, child_recv,
           child_sends, parent
  <1>4. CASE UNCHANGED <<share_mem, up, down, echoed>>
    BY <1>2, <1>3, <1>4, OwnStays
  <1> SUFFICES ASSUME ~ moved PROVE echoed' = {} /\ \A q \in Pid : Own(q)'
    BY <1>3 DEF OwnInv
  <1>5. echoed = {} /\ \A q \in Pid : Own(q)
    BY DEF OwnInv
  <1>6. \A q \in Pid : q # p /\ pc[q] # "none" => idx[q] # idx[p]
    BY <1>2, <1>5, Distinct
  <1>7. idx[p] \in Idx /\ share_mem \in [Idx -> Pid \cup {NoPid}] /\ idx \in [Pid -> Idx]
    BY <1>1, SMTT(30) DEF Segments
  <1>8. CASE child_clears(p)
    <2>1. share_mem' = [share_mem EXCEPT ![idx[p]] = NoPid] /\ UNCHANGED <<up, down, echoed>>
      BY <1>8 DEF child_clears, pipes
    <2>2. \A n : share_mem'[n] = share_mem[n] \/ share_mem'[n] = NoPid
      BY <1>7, <2>1
    <2>3. \A q \in Pid : q # NoPid
      BY PidAssumption, SMTT(30)
    <2>4. ASSUME NEW q \in Pid PROVE Own(q)'
      BY <1>2, <1>3, <1>5, <2>1, <2>2, <2>3, OwnFrom, Zenon
    <2> QED
      BY <1>5, <2>1, <2>4
  <1>9. CASE child_recv(p) /\ unread[p] > 0
    <2>1. /\ share_mem' = [share_mem EXCEPT ![idx[p]] = p]
          /\ up' = [up EXCEPT ![p] = Append(up[p], idx[p])] /\ UNCHANGED <<down, echoed>>
      BY <1>9 DEF child_recv
    <2>2. up[p] \in Seq(Idx) /\ up \in [Pid -> Seq(Idx)]
      BY <1>1 DEF Pipes
    <2>3. up'[p] = Append(up[p], idx[p]) /\ \A q \in Pid \ {p} : up'[q] = up[q]
      BY <2>1, <2>2, SMTT(30)
    <2>4. Numbers(up'[p]) = Numbers(up[p]) \cup {idx[p]}
      BY <1>7, <2>2, <2>3, NumbersFacts
    <2>5. share_mem'[idx[p]] = p /\ \A n : n # idx[p] => share_mem'[n] = share_mem[n]
      BY <1>7, <2>1, SMTT(30)
    <2>6. Own(p)'
      <3>1. /\ pc'[p] # "none" /\ idx'[p] = idx[p] /\ idx[p] = sub_process'[p]
            /\ Numbers(up[p]) \subseteq {idx[p]}
            /\ \A n \in Numbers(down[p]) : n # idx[p] /\ share_mem[n] # p
        BY <1>2, <1>3, <1>5, Zenon DEF Own
      <3>2. Numbers(up'[p]) \subseteq {idx'[p]} /\ share_mem'[idx'[p]] = p
        BY <2>4, <2>5, <3>1, Zenon
      <3>3. \A n \in Numbers(down'[p]) : n # idx'[p] /\ share_mem'[n] # p
        BY <2>1, <2>5, <3>1, Zenon
      <3> QED
        BY <3>1, <3>2, <3>3, Zenon DEF Own, Numbers
    <2>7. ASSUME NEW q \in Pid \ {p} PROVE Own(q)'
      <3>1. Numbers(up[q]) # {} => share_mem'[idx[q]] = share_mem[idx[q]]
        <4>1. Numbers(up[q]) # {} => pc[q] # "none"
          BY <1>5, Zenon DEF Own
        <4> QED
          BY <1>6, <2>5, <4>1, Zenon
      <3>2. \A n : share_mem'[n] = q => share_mem[n] = q
        BY <2>5
      <3>3. Own(q) /\ up'[q] = up[q]
        BY <1>5, <2>3, SMTT(30)
      <3> QED
        BY <1>2, <1>3, <2>1, <3>1, <3>2, <3>3, OwnFrom, Zenon
    <2> QED
      BY <1>5, <2>1, <2>6, <2>7
  <1>10. CASE child_sends(p)
    <2>1. /\ <<"down", p>> \in edge /\ down' = [down EXCEPT ![p] = Tail(down[p])]
          /\ echoed' = IF share_mem[Head(down[p])] = p THEN echoed \cup {p} ELSE echoed
          /\ UNCHANGED <<up, share_mem>>
      BY <1>10 DEF child_sends
    <2>2. down[p] \in Seq(Idx) /\ down[p] # <<>> /\ down \in [Pid -> Seq(Idx)]
      BY <1>1, <2>1, Zenon DEF Pipes
    <2>3. Numbers(Tail(down[p])) \subseteq Numbers(down[p]) /\ Head(down[p]) \in Numbers(down[p])
      BY <2>2, NumbersFacts
    <2>4. echoed' = echoed
      BY <1>5, <2>1, <2>3, Zenon DEF Own
    <2>5. \A q \in Pid : Numbers(down'[q]) \subseteq Numbers(down[q])
      BY <2>1, <2>2, <2>3
    <2>6. ASSUME NEW q \in Pid PROVE Own(q)'
      BY <1>2, <1>3, <1>5, <2>1, <2>5, OwnFrom, Zenon
    <2> QED
      BY <1>5, <2>4, <2>6
  <1> QED
    BY <1>3, <1>4, <1>8, <1>9, <1>10, Zenon DEF OwnInv, child, child_starts, child_loops, child_waits, child_exits,
                                         child_recv, pipes

(* The new child starts with its place as its idx, and with empty pipes. *)
LEMMA OwnAccept ==
    ASSUME Inv, OwnInv, NEW p \in Pid, accept(p)
    PROVE  OwnInv'
  <1> SUFFICES ASSUME ~ moved PROVE echoed' = {} /\ \A q \in Pid : Own(q)'
    BY DEF OwnInv, accept
  <1>1. Tables /\ Segments /\ pc \in [Pid -> Place] /\ echoed = {} /\ \A q \in Pid : Own(q)
    BY Parts DEF Inv, OwnInv
  <1>2. /\ pc[p] = "none"
        /\ pc' = [pc EXCEPT ![p] = "forked"]
        /\ idx' = [idx EXCEPT ![p] = Len(users)]
        /\ sub_process' = [sub_process EXCEPT ![p] = Len(users)]
        /\ echoed' = echoed \ {p} /\ UNCHANGED <<share_mem, up, down>>
    BY SMTT(30) DEF accept, Slot, pipes
  <1>3. idx'[p] = sub_process'[p] /\ pc'[p] # "none"
    BY <1>1, <1>2, Zenon DEF Tables, Segments
  <1>4. \A q \in Pid \ {p} : idx'[q] = idx[q] /\ sub_process'[q] = sub_process[q] /\ pc'[q] = pc[q]
    BY <1>1, <1>2, Zenon DEF Tables, Segments
  <1>5. Own(p)'
    <2>1. Numbers(up[p]) = {} /\ Numbers(down[p]) = {}
      BY <1>1, <1>2, Zenon DEF Own
    <2> QED
      BY <1>2, <1>3, <2>1, Zenon DEF Own
  <1>6. ASSUME NEW q \in Pid \ {p} PROVE Own(q)'
    <2>1. Own(q) /\ idx'[q] = idx[q] /\ sub_process'[q] = sub_process[q] /\ pc'[q] = pc[q]
      BY <1>1, <1>4, Zenon
    <2> QED
      BY <1>2, <2>1, OwnFrom, Zenon
  <1> QED
    BY <1>1, <1>2, <1>5, <1>6, Zenon

(* The last child is reaped, or else another one is moved. *)
LEMMA OwnReap ==
    ASSUME Inv, OwnInv, NEW p \in Pid, sigchld(p)
    PROVE  OwnInv'
  <1>1. Tables /\ Pipes /\ pc \in [Pid -> Place]
    BY Parts, SMTT(30) DEF Inv
  <1>2. /\ moved' = (moved \/ users[Len(users)] # p)
        /\ sub_process' = Vacate(sub_process[p], users[Len(users)])
        /\ up' = [up EXCEPT ![p] = <<>>] /\ down' = [down EXCEPT ![p] = <<>>]
        /\ pc' = [pc EXCEPT ![p] = "none"] /\ UNCHANGED <<idx, share_mem, echoed>>
    <2>1. Reaped(p)
      BY Zenon DEF sigchld
    <2>2. moved' = (moved \/ users[Len(users)] # p)
      BY <2>1, Zenon DEF Reaped
    <2>3. sub_process' = Vacate(sub_process[p], users[Len(users)])
      BY <2>1, Zenon DEF Reaped
    <2>4. up' = [up EXCEPT ![p] = <<>>] /\ down' = [down EXCEPT ![p] = <<>>]
      BY <2>1, Zenon DEF Reaped
    <2>5. pc' = [pc EXCEPT ![p] = "none"]
      BY <2>1, Zenon DEF Reaped
    <2>6. UNCHANGED <<idx, share_mem, echoed>>
      BY DEF sigchld
    <2> QED
      BY <2>2, <2>3, <2>4, <2>5, <2>6, Zenon
  <1> SUFFICES ASSUME ~ moved, users[Len(users)] = p PROVE echoed' = {} /\ \A q \in Pid : Own(q)'
    BY <1>2, Zenon DEF OwnInv
  <1>3. echoed = {} /\ \A q \in Pid : Own(q)
    BY DEF OwnInv
  <1>4. users[sub_process[p] + 1] = p
    <2>1. DOMAIN users = 1..Len(users) /\ Len(users) \in Nat
      BY <1>1 DEF Tables
    <2>2. pc[p] # "none"
      BY Zenon DEF sigchld, Zombies
    <2>3. PICK d \in 1..Len(users) : users[d] = p
      BY <1>1, <2>1, <2>2, Zenon DEF Tables
    <2>4. sub_process[p] = d - 1
      BY <1>1, <2>1, <2>3, Zenon DEF Tables
    <2>5. sub_process[p] + 1 = d
      BY <2>1, <2>4
    <2> QED
      BY <2>3, <2>5
  <1>5. \A q \in Pid \ {p} : sub_process'[q] = sub_process[q]
    <2>1. sub_process' = [[sub_process EXCEPT ![p] = -1] EXCEPT ![p] = sub_process[p]]
      BY <1>2, <1>4 DEF Vacate
    <2> QED
      BY <1>1, <2>1 DEF Tables
  <1>6. /\ up'[p] = <<>> /\ down'[p] = <<>> /\ pc'[p] = "none"
        /\ \A q \in Pid \ {p} : up'[q] = up[q] /\ down'[q] = down[q] /\ pc'[q] = pc[q]
    BY <1>1, <1>2, Zenon DEF Pipes
  <1>7. Own(p)'
    <2>1. Numbers(<<>>) = {}
      BY SMTT(30) DEF Numbers
    <2> QED
      BY <1>6, <2>1, Zenon DEF Own
  <1>8. ASSUME NEW q \in Pid \ {p} PROVE Own(q)'
    <2>1. /\ Own(q) /\ sub_process'[q] = sub_process[q]
          /\ up'[q] = up[q] /\ down'[q] = down[q] /\ pc'[q] = pc[q]
      BY <1>3, <1>5, <1>6, Zenon
    <2> QED
      BY <1>2, <2>1, Zenon DEF Own
  <1> QED
    BY <1>2, <1>3, <1>7, <1>8, Zenon

(* The number of a segment goes to the children that do not write it. *)
LEMMA OwnPass ==
    ASSUME Inv, OwnInv, NEW p \in Pid, pass_on(p)
    PROVE  OwnInv'
  <1>1. Tables /\ Pipes /\ Segments
    BY Parts DEF Inv
  <1>2. /\ <<"up", p>> \in edge /\ up' = [up EXCEPT ![p] = Tail(up[p])]
        /\ down' = [q \in Pid |-> IF q \in Others(p) THEN Append(down[q], Head(up[p])) ELSE down[q]]
        /\ UNCHANGED <<sub_process, moved, pc, idx, share_mem, echoed>>
    BY Zenon DEF pass_on, parent
  <1> SUFFICES ASSUME ~ moved PROVE echoed' = {} /\ \A q \in Pid : Own(q)'
    BY <1>2 DEF OwnInv
  <1>3. echoed = {} /\ \A q \in Pid : Own(q)
    BY DEF OwnInv
  <1>4. up[p] \in Seq(Idx) /\ up[p] # <<>> /\ up \in [Pid -> Seq(Idx)] /\ Head(up[p]) \in Idx
    <2>1. up[p] \in Seq(Idx) /\ up[p] # <<>> /\ up \in [Pid -> Seq(Idx)]
      BY <1>1, <1>2, Zenon DEF Pipes
    <2> QED
      BY <2>1
  <1>5. Numbers(Tail(up[p])) \subseteq Numbers(up[p]) /\ Head(up[p]) \in Numbers(up[p])
    BY <1>4, NumbersFacts
  <1>6. Head(up[p]) = idx[p] /\ share_mem[idx[p]] \in {p, NoPid} /\ pc[p] # "none"
    BY <1>3, <1>5, Zenon DEF Own
  <1>7. \A q \in Pid : Numbers(up'[q]) \subseteq Numbers(up[q])
    <2>1. up'[p] = Tail(up[p]) /\ \A q \in Pid \ {p} : up'[q] = up[q]
      BY <1>2, <1>4
    <2>2. Numbers(up'[p]) \subseteq Numbers(up[p])
      BY <1>5, <2>1, Zenon
    <2>3. \A q \in Pid \ {p} : Numbers(up'[q]) = Numbers(up[q])
      BY <2>1
    <2> QED
      BY <2>2, <2>3
  <1>8. ASSUME NEW q \in Pid PROVE Own(q)'
    <2>1. Own(q) /\ down[q] \in Seq(Idx) /\ q # NoPid
      BY <1>1, <1>3, PidAssumption, SMTT(30) DEF Pipes
    <2>2. CASE q \in Others(p)
      <3>1. q # p /\ pc[q] # "none"
        BY <1>1, <2>2, Zenon DEF Others, Tables
      <3>2. Numbers(down'[q]) = Numbers(down[q]) \cup {idx[p]}
        <4>1. down'[q] = Append(down[q], idx[p])
          BY <1>2, <1>6, <2>2, Zenon
        <4>2. idx[p] \in Idx
          BY <1>4, <1>6, Zenon
        <4> QED
          BY <2>1, <4>1, <4>2, NumbersFacts, Zenon
      <3>3. idx[p] # idx[q] /\ share_mem[idx[p]] # q
        BY <1>3, <1>6, <2>1, <3>1, Distinct, Zenon
      <3> QED
        BY <1>2, <1>7, <2>1, <3>1, <3>2, <3>3, Zenon DEF Own
    <2>3. CASE q \notin Others(p)
      <3>1. down'[q] = down[q]
        BY <1>2, <2>3, Zenon
      <3> QED
        BY <1>2, <1>7, <2>1, <3>1, Zenon DEF Own
    <2> QED
      BY <2>2, <2>3
  <1> QED
    BY <1>2, <1>3, <1>8, Zenon

(* Until a reaped child's place is taken by another, run_child's idx is the     *)
(* child's own: no two children write to one segment and nobody is sent their   *)
(* own message, for any number of users, forks and messages and although pids   *)
(* and segments are used again.                                                 *)
THEOREM SegmentsApart == Spec => []OwnSegment
  <1>1. Init => Inv /\ OwnInv
    <2> SUFFICES ASSUME Init PROVE OwnInv
      BY InitInv
    <2>1. Numbers(<<>>) = {}
      BY DEF Numbers
    <2> QED
      BY <2>1, Zenon DEF Init, OwnInv, Own
  <1>2. Inv /\ OwnInv /\ [Next]_vars => Inv' /\ OwnInv'
    <2> SUFFICES ASSUME Inv, OwnInv, [Next]_vars PROVE OwnInv'
      BY NextInv
    <2>1. CASE \/ sigterm_arrives \/ sigterm \/ leave \/ UNCHANGED vars
               \/ \E p \in Pid : client_talks(p) \/ client_leaves(p)
      <3>1. UNCHANGED <<idx, share_mem, up, down, sub_process, moved, echoed>>
        BY <2>1, Zenon DEF sigterm_arrives, sigterm, leave, vars, client_talks, client_leaves, parent, pipes
      <3>2. pc' = pc \/ pc' = [p \in Pid |-> IF pc[p] = "wait" THEN "top" ELSE pc[p]]
        BY <2>1, Zenon DEF sigterm_arrives, sigterm, leave, vars, client_talks, client_leaves
      <3>3. \A p \in Pid : pc'[p] = "none" <=> pc[p] = "none"
        BY <3>2 DEF Inv
      <3> QED
        BY <3>1, <3>3, OwnStays
    <2> QED
      BY <2>1, OwnChild, OwnAccept, OwnReap, OwnPass DEF Next
  <1>3. Inv /\ OwnInv => OwnSegment
    BY Distinct, Zenon DEF OwnInv, OwnSegment
  <1> QED
    BY <1>1, <1>2, <1>3, PTL DEF Spec
=============================================================================
