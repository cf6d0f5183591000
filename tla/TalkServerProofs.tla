-------------------------- MODULE TalkServerProofs --------------------------
(* The talk server with poll: every entry that was reported has its turn, and
   clients are sent what was meant for them until one of them leaves. *)
EXTENDS MCTalk, ShmTalkProofs, TLAPS

Entry == [fd : Fd, revents : SUBSET {"IN", "OUT", "RDHUP", "ERR"}, out : BOOLEAN]

RoundTypes ==
    /\ t_fds \in Seq(Entry) /\ Len(t_fds) <= T_USER_LIMIT
    /\ t_i \in Nat /\ (t_i = T!Polls \/ t_i <= Len(t_fds))
    /\ t_rcv \in [Fd -> Seq(Nat)] /\ t_texts \in Nat

Data(e) == "IN" \in e.revents /\ "RDHUP" \notin e.revents /\ "ERR" \notin e.revents

(* What every step preserves: the entries before i have had their turn, those from
   i on have not, and what poll() reported of these is still true. *)
RoundInv ==
    /\ RoundTypes
    /\ \A j, k \in 1..Len(t_fds) : t_fds[j].fd = t_fds[k].fd => j = k
    /\ \A f \in t_gone \cup t_err : \E k \in 1..Len(t_fds) : t_fds[k].fd = f
    /\ t_i = 0 => t_served = {}
    /\ \A k \in 1..Len(t_fds) : k >= t_i => t_fds[k].fd \notin t_served
    /\ \A k \in 1..Len(t_fds) : k < t_i /\ t_fds[k].revents # {} => t_fds[k].fd \in t_served
    /\ \A k \in 1..Len(t_fds) : k >= t_i /\ Data(t_fds[k]) => t_rcv[t_fds[k].fd] # <<>> \/ t_fds[k].fd \in t_err

(* An entry of the array, as the steps below need it. *)
LEMMA FdsFacts ==
    ASSUME RoundTypes
    PROVE  /\ Len(t_fds) \in Nat /\ DOMAIN t_fds = 1..Len(t_fds)
           /\ \A k \in 1..Len(t_fds) : t_fds[k] \in Entry /\ t_fds[k].fd \in Fd
  <1>1. t_fds \in Seq(Entry)
    BY DEF RoundTypes
  <1>2. Len(t_fds) \in Nat /\ DOMAIN t_fds = 1..Len(t_fds) /\ \A k \in 1..Len(t_fds) : t_fds[k] \in Entry
    BY <1>1, SMTT(30)
  <1> QED
    BY <1>2, Zenon DEF Entry

(* RoundInv says what TurnsComplete asks for. *)
LEMMA RoundComplete ==
    ASSUME T_USER_LIMIT \in Nat, RoundInv
    PROVE  T!TurnsComplete
  <1>1. RoundTypes /\ Len(t_fds) \in Nat /\ DOMAIN t_fds = 1..Len(t_fds) /\ Len(t_fds) <= T_USER_LIMIT /\ t_i \in Nat
    BY FdsFacts, Zenon DEF RoundInv, RoundTypes
  <1>2. t_gone \cup t_err \subseteq T!Open
    BY <1>1, Zenon DEF RoundInv, T!Open
  <1>3. t_i \in DOMAIN t_fds => t_fds[t_i].fd \notin t_served
    BY <1>1 DEF RoundInv
  <1>4. t_i = T!Polls => \A k \in DOMAIN t_fds : t_fds[k].revents # {} => t_fds[k].fd \in t_served
    BY <1>1 DEF RoundInv, T!Polls
  <1>5. t_i \in DOMAIN t_fds /\ T!Has("IN") /\ ~ T!Has("RDHUP") /\ ~ T!Has("ERR") =>
            t_rcv[t_fds[t_i].fd] # <<>> \/ t_fds[t_i].fd \in t_err
    BY <1>1, SMTT(30) DEF RoundInv, T!Has, Data
  <1>6. \A j, k \in DOMAIN t_fds : t_fds[j].fd = t_fds[k].fd => j = k
    BY <1>1 DEF RoundInv
  <1> QED
    BY <1>1, <1>2, <1>3, <1>4, <1>5, <1>6 DEF T!TurnsComplete, T!user_counter

(* A turn that leaves the array as it is, and changes only what belongs to the
   entry whose turn it is *)
LEMMA TurnRound ==
    ASSUME T_USER_LIMIT \in Nat, RoundInv, T!Turn, T!Next_i, UNCHANGED t_texts,
           t_fds' \in Seq(Entry), Len(t_fds') = Len(t_fds),
           \A k \in 1..Len(t_fds) : t_fds'[k].fd = t_fds[k].fd /\ t_fds'[k].revents = t_fds[k].revents,
           t_rcv' \in [Fd -> Seq(Nat)],
           \A g \in Fd : g # t_fds[t_i].fd => t_rcv'[g] = t_rcv[g] /\ (g \in t_err => g \in t_err'),
           t_gone' \subseteq t_gone, t_err' \subseteq t_err \cup t_gone
    PROVE  RoundInv'
  <1>1. RoundTypes /\ Len(t_fds) \in Nat /\ DOMAIN t_fds = 1..Len(t_fds) /\ t_i \in 1..Len(t_fds)
    BY FdsFacts, Zenon DEF RoundInv, T!Turn
  <1>2. \A k \in 1..Len(t_fds) : t_fds[k].fd \in Fd /\ (t_fds[k].fd = t_fds[t_i].fd => k = t_i)
    BY <1>1, FdsFacts, Zenon DEF RoundInv
  <1>3. t_i' = (IF t_i < Len(t_fds) THEN t_i + 1 ELSE T!Polls) /\ t_served' = t_served \cup {t_fds[t_i].fd}
    BY DEF T!Next_i, T!Turn
  <1>4. Len(t_fds) <= T_USER_LIMIT
    BY <1>1, Zenon DEF RoundTypes
  <1>5. \A k \in 1..Len(t_fds) : (k >= t_i' => k > t_i) /\ (k < t_i' => k <= t_i)
    BY <1>1, <1>3, <1>4, SMTT(30) DEF T!Polls
  <1>6. t_i' \in Nat /\ t_i' # 0 /\ (t_i' = T!Polls \/ t_i' <= Len(t_fds))
    BY <1>1, <1>3 DEF T!Polls
  <1>7. RoundTypes'
    BY <1>1, <1>6, SMTT(30) DEF RoundTypes, T!Polls
  <1>8. \A k \in 1..Len(t_fds) : k >= t_i' => t_fds'[k].fd \notin t_served'
    BY <1>1, <1>2, <1>3, <1>5, SMTT(30) DEF RoundInv
  <1>9. \A k \in 1..Len(t_fds) : k < t_i' /\ t_fds'[k].revents # {} => t_fds'[k].fd \in t_served'
    BY <1>1, <1>3, <1>5, SMTT(30) DEF RoundInv
  <1>10. \A k \in 1..Len(t_fds) : k >= t_i' /\ Data(t_fds'[k]) => t_rcv'[t_fds'[k].fd] # <<>> \/ t_fds'[k].fd \in t_err'
    <2>1. \A k \in 1..Len(t_fds) : k >= t_i' => k >= t_i /\ t_fds[k].fd # t_fds[t_i].fd
      <3>1. \A k \in 1..Len(t_fds) : k >= t_i' => k >= t_i /\ k # t_i
        BY <1>1, <1>5
      <3> QED
        BY <1>2, <3>1
    <2>2. \A k \in 1..Len(t_fds) : Data(t_fds'[k]) <=> Data(t_fds[k])
      BY SMTT(30) DEF Data
    <2>3. TAKE k \in 1..Len(t_fds)
    <2>4. HAVE k >= t_i' /\ Data(t_fds'[k])
    <2>5. k >= t_i /\ Data(t_fds[k]) /\ t_fds[k].fd \in Fd /\ t_fds[k].fd # t_fds[t_i].fd
      BY <1>2, <2>1, <2>2, <2>4, SMTT(30)
    <2>6. t_rcv[t_fds[k].fd] # <<>> \/ t_fds[k].fd \in t_err
      BY <2>5, SMTT(30) DEF RoundInv
    <2> QED
      BY <2>5, <2>6, SMTT(30)
  <1>11. \A f \in t_gone' \cup t_err' : \E k \in 1..Len(t_fds) : t_fds'[k].fd = f
    BY SMTT(30) DEF RoundInv
  <1>12. \A j, k \in 1..Len(t_fds) : t_fds'[j].fd = t_fds'[k].fd => j = k
    BY SMTT(30) DEF RoundInv
  <1> QED
    BY <1>6, <1>7, <1>8, <1>9, <1>10, <1>11, <1>12, Zenon DEF RoundInv

(* An entry leaves, the last one takes its place, and i stays. *)
LEMMA LeftRound ==
    ASSUME T_USER_LIMIT \in Nat, RoundInv, T!Turn, NEW data, T!Left(data), UNCHANGED t_texts
    PROVE  RoundInv'
  <1>1. /\ RoundTypes /\ t_fds \in Seq(Entry) /\ Len(t_fds) <= T_USER_LIMIT
        /\ Len(t_fds) \in Nat /\ t_i \in 1..Len(t_fds)
    BY FdsFacts DEF RoundInv, T!Turn, RoundTypes
  <1>2. PICK n \in Nat \ {0} : n = Len(t_fds)
    BY <1>1
  <1>3. PICK f \in Fd : f = t_fds[t_i].fd
    BY <1>1, FdsFacts, SMTT(30)
  <1>4. \A k \in 1..n : t_fds[k].fd \in Fd /\ (t_fds[k].fd = f => k = t_i)
    BY <1>1, <1>2, <1>3, FdsFacts, SMTT(30) DEF RoundInv
  <1>5. /\ t_fds' = SubSeq([t_fds EXCEPT ![t_i] = t_fds[Len(t_fds)]], 1, Len(t_fds) - 1)
        /\ t_i' = (IF t_i <= Len(t_fds') THEN t_i ELSE T!Polls)
        /\ t_served' = t_served \cup {f}
        /\ t_rcv' = [t_rcv EXCEPT ![f] = <<>>] /\ t_gone' = t_gone \ {f} /\ t_err' = t_err \ {f}
    BY <1>3, Zenon DEF T!Left, T!Moved, T!Turn, T!user_counter
  <1>6. /\ t_fds' \in Seq(Entry) /\ Len(t_fds') = n - 1
        /\ \A k \in 1..(n - 1) : t_fds'[k] = IF k = t_i THEN t_fds[n] ELSE t_fds[k]
    <2>1. /\ t_fds' \in Seq(Entry) /\ Len(t_fds') = Len(t_fds) - 1
          /\ \A k \in 1..(Len(t_fds) - 1) : t_fds'[k] = IF k = t_i THEN t_fds[Len(t_fds)] ELSE t_fds[k]
      BY <1>1, <1>5, SwapFacts, ZenonT(60)
    <2> QED
      BY <1>2, <2>1, Zenon
  <1>7. t_i' \in Nat /\ t_i' # 0 /\ (t_i' = T!Polls \/ t_i' <= n - 1)
    BY <1>1, <1>2, <1>5, <1>6 DEF T!Polls
  <1>8. RoundTypes'
    <2>1. t_rcv' \in [Fd -> Seq(Nat)] /\ t_texts' \in Nat
      BY <1>1, <1>5 DEF RoundTypes
    <2>2. n - 1 <= T_USER_LIMIT
      BY <1>1, <1>2
    <2> QED
      BY <1>6, <1>7, <2>1, <2>2 DEF RoundTypes, T!Polls
  <1>9. \* the old index of the entry that is now at k
        \A k \in 1..(n - 1) : \E o \in 1..n :
            /\ t_fds'[k] = t_fds[o] /\ o # t_i
            /\ (k >= t_i' => o >= t_i) /\ (k < t_i' => o < t_i) /\ (k = t_i => o = n) /\ (k # t_i => o = k)
    <2>1. TAKE k \in 1..(n - 1)
    <2>2. k >= t_i' => k >= t_i
      BY <1>1, <1>2, <1>5, <1>6, SMTT(30) DEF T!Polls
    <2>3. k < t_i' => k < t_i
      BY <1>1, <1>2, <1>5, <1>6 DEF T!Polls
    <2>4. CASE k = t_i
      <3>1. n \in 1..n /\ n # t_i /\ n >= t_i /\ ~ (k < t_i')
        BY <1>1, <1>2, <2>3, <2>4
      <3> QED
        BY <1>6, <2>4, <3>1
    <2>5. CASE k # t_i
      <3>1. k \in 1..n
        BY <1>2
      <3> QED
        BY <1>6, <2>2, <2>3, <2>5, <3>1
    <2> QED
      BY <2>4, <2>5
  <1>10. \A j, k \in 1..(n - 1) : t_fds'[j].fd = t_fds'[k].fd => j = k
    <2>1. SUFFICES ASSUME NEW j \in 1..(n - 1), NEW k \in 1..(n - 1), t_fds'[j].fd = t_fds'[k].fd
                   PROVE  j = k
      OBVIOUS
    <2>2. PICK a \in 1..n : t_fds'[j] = t_fds[a] /\ (j = t_i => a = n) /\ (j # t_i => a = j)
      BY <1>9
    <2>3. PICK b \in 1..n : t_fds'[k] = t_fds[b] /\ (k = t_i => b = n) /\ (k # t_i => b = k)
      BY <1>9, SMTT(30)
    <2>4. a = b
      BY <1>2, <2>1, <2>2, <2>3, Zenon DEF RoundInv
    <2> QED
      BY <2>2, <2>3, <2>4
  <1>11. \A g \in t_gone' \cup t_err' : \E k \in 1..(n - 1) : t_fds'[k].fd = g
    <2>1. SUFFICES ASSUME NEW g \in t_gone' \cup t_err' PROVE \E k \in 1..(n - 1) : t_fds'[k].fd = g
      OBVIOUS
    <2>2. g # f /\ g \in t_gone \cup t_err
      BY <1>5, <2>1, SMTT(30)
    <2>3. PICK o \in 1..n : t_fds[o].fd = g
      BY <1>2, <2>2, Zenon DEF RoundInv
    <2>4. o # t_i
      BY <1>3, <2>2, <2>3
    <2>5. CASE o = n
      <3>1. t_i \in 1..(n - 1) /\ t_fds'[t_i] = t_fds[n]
        BY <1>1, <1>2, <1>6, <2>4, <2>5, SMTT(30)
      <3> QED
        BY <2>3, <2>5, <3>1
    <2>6. CASE o # n
      <3>1. o \in 1..(n - 1) /\ t_fds'[o] = t_fds[o]
        BY <1>2, <1>6, <2>4, <2>6, SMTT(30)
      <3> QED
        BY <2>3, <3>1
    <2> QED
      BY <2>5, <2>6
  <1>12. ASSUME NEW k \in 1..(n - 1)
         PROVE  /\ k >= t_i' => t_fds'[k].fd \notin t_served'
                /\ k < t_i' /\ t_fds'[k].revents # {} => t_fds'[k].fd \in t_served'
                /\ k >= t_i' /\ Data(t_fds'[k]) => t_rcv'[t_fds'[k].fd] # <<>> \/ t_fds'[k].fd \in t_err'
    <2>1. PICK o \in 1..n : t_fds'[k] = t_fds[o] /\ o # t_i /\ (k >= t_i' => o >= t_i) /\ (k < t_i' => o < t_i)
      BY <1>9, SMTT(30)
    <2>2. /\ o >= t_i => t_fds[o].fd \notin t_served
          /\ o < t_i /\ t_fds[o].revents # {} => t_fds[o].fd \in t_served
          /\ o >= t_i /\ Data(t_fds[o]) => t_rcv[t_fds[o].fd] # <<>> \/ t_fds[o].fd \in t_err
      BY <1>2, Zenon DEF RoundInv
    <2>3. t_fds[o].fd # f /\ t_fds[o].fd \in Fd
      BY <1>4, <2>1
    <2>4. t_rcv'[t_fds[o].fd] = t_rcv[t_fds[o].fd] /\ (t_fds[o].fd \in t_err' <=> t_fds[o].fd \in t_err)
      BY <1>1, <1>5, <2>3, Zenon DEF RoundTypes
    <2> QED
      BY <1>5, <2>1, <2>2, <2>3, <2>4, Zenon
  <1> QED
    BY <1>6, <1>7, <1>8, <1>10, <1>11, <1>12, SMTT(30) DEF RoundInv

(* poll() starts a new round. *)
LEMMA PollRound ==
    ASSUME T_USER_LIMIT \in Nat, RoundInv, T!poll
    PROVE  RoundInv'
  <1>1. RoundTypes /\ t_fds \in Seq(Entry) /\ Len(t_fds) \in Nat /\ DOMAIN t_fds = 1..Len(t_fds)
    BY FdsFacts, Zenon DEF RoundInv, RoundTypes
  <1>2. /\ t_fds' = [k \in 1..Len(t_fds) |-> [t_fds[k] EXCEPT !.revents = T!Events(t_fds[k])]]
        /\ t_i' \in {0, 1} /\ (t_i' = 1 => \E k \in 1..Len(t_fds) : TRUE) /\ t_served' = {}
        /\ UNCHANGED <<t_rcv, t_gone, t_err, t_texts>>
    BY <1>1 DEF T!poll, T!kernel
  <1>3. \A k \in 1..Len(t_fds) : t_fds[k] \in Entry /\ t_fds[k].fd \in Fd
    BY <1>1, FdsFacts
  <1>4. \A k \in 1..Len(t_fds) : /\ t_fds'[k] = [t_fds[k] EXCEPT !.revents = T!Events(t_fds[k])]
                               /\ t_fds'[k] \in Entry
                               /\ t_fds'[k].fd = t_fds[k].fd /\ t_fds'[k].revents = T!Events(t_fds[k])
    <2>1. TAKE k \in 1..Len(t_fds)
    <2>2. T!Events(t_fds[k]) \in SUBSET {"IN", "OUT", "RDHUP", "ERR"}
      BY DEF T!Events
    <2>3. t_fds'[k] = [t_fds[k] EXCEPT !.revents = T!Events(t_fds[k])]
      BY <1>2
    <2> QED
      BY <1>3, <2>2, <2>3 DEF Entry
  <1>5. t_fds' \in Seq(Entry) /\ Len(t_fds') = Len(t_fds)
    BY <1>1, <1>2, <1>4
  <1>6. RoundTypes'
    <2>1. t_i' \in Nat /\ t_i' <= Len(t_fds)
      BY <1>1, <1>2
    <2> QED
      BY <1>1, <1>2, <1>5, <2>1 DEF RoundTypes
  <1>7. \A k \in 1..Len(t_fds) : Data(t_fds'[k]) => t_rcv[t_fds[k].fd] # <<>>
    <2>1. TAKE k \in 1..Len(t_fds)
    <2>2. HAVE Data(t_fds'[k])
    <2>3. "IN" \in T!Events(t_fds[k]) /\ "RDHUP" \notin T!Events(t_fds[k])
      BY <1>4, <2>2, Zenon DEF Data
    <2>4. t_fds[k].fd \notin t_gone
      BY <2>3, Zenon DEF T!Events
    <2> QED
      BY <2>3, <2>4, SMTT(30) DEF T!Events
  <1>8. \A k \in 1..Len(t_fds) : ~ (k < t_i')
    BY <1>1, <1>2
  <1>9. /\ \A j, k \in 1..Len(t_fds) : t_fds'[j].fd = t_fds'[k].fd => j = k
        /\ \A f \in t_gone' \cup t_err' : \E k \in 1..Len(t_fds) : t_fds'[k].fd = f
    <2>1. \A k \in 1..Len(t_fds) : t_fds'[k].fd = t_fds[k].fd
      BY <1>4, Zenon
    <2>2. UNCHANGED <<t_gone, t_err>>
      BY <1>2
    <2> QED
      BY <2>1, <2>2, Zenon DEF RoundInv
  <1> QED
    BY <1>2, <1>4, <1>5, <1>6, <1>7, <1>8, <1>9, SMTT(30) DEF RoundInv

(* A client accepted during a round comes at the end, without revents. *)
LEMMA AcceptRound ==
    ASSUME T_USER_LIMIT \in Nat, RoundInv, T!accept
    PROVE  RoundInv'
  <1>1. /\ RoundTypes /\ t_fds \in Seq(Entry) /\ Len(t_fds) \in Nat /\ Len(t_fds) <= T_USER_LIMIT
        /\ DOMAIN t_fds = 1..Len(t_fds) /\ t_i = 0 /\ t_served' = {}
        /\ UNCHANGED <<t_rcv, t_gone, t_err, t_texts>>
    BY FdsFacts, Zenon DEF RoundInv, RoundTypes, T!accept
  <1>2. ASSUME Len(t_fds') \in Nat PROVE t_i' = IF Len(t_fds') = 0 THEN T!Polls ELSE 1
    <2>1. t_i' = IF 0 < Len(t_fds') THEN 0 + 1 ELSE T!Polls
      BY <1>1, SMTT(30) DEF T!accept, T!Next_i
    <2> QED
      BY <1>2, <2>1, SMTT(30)
  <1>3. CASE t_fds' = t_fds
    <2>1. RoundTypes'
      BY <1>1, <1>2, <1>3 DEF RoundTypes, T!Polls
    <2>2. \A k \in 1..Len(t_fds) : ~ (k < t_i') /\ k >= t_i
      BY <1>1, <1>2, <1>3
    <2>3. t_i' # 0
      BY <1>2 DEF T!Polls
    <2> QED
      BY <1>1, <1>3, <2>1, <2>2, <2>3, Zenon DEF RoundInv
  <1>4. CASE Len(t_fds) < T_USER_LIMIT /\ \E f \in Fd \ T!Open :
                t_fds' = Append(t_fds, [fd |-> f, revents |-> {}, out |-> FALSE])
    <2>1. PICK f \in Fd \ T!Open : t_fds' = Append(t_fds, [fd |-> f, revents |-> {}, out |-> FALSE])
      BY <1>4, Zenon
    <2>2. PICK e \in Entry : e = [fd |-> f, revents |-> {}, out |-> FALSE]
      BY Zenon DEF Entry
    <2>3. PICK n \in Nat : n = Len(t_fds)
      BY <1>1, Zenon
    <2>4. /\ t_fds' \in Seq(Entry) /\ Len(t_fds') = n + 1
          /\ \A k \in 1..n : t_fds'[k] = t_fds[k]
          /\ t_fds'[n + 1] = e
      BY <1>1, <2>1, <2>2, <2>3, SMTT(30)
    <2>5. e.fd = f /\ e.revents = {} /\ \A k \in 1..n : t_fds[k].fd # f
      BY <1>1, <2>1, <2>2, <2>3, Zenon DEF T!Open
    <2>6. RoundTypes'
      <3>1. n + 1 <= T_USER_LIMIT /\ t_i' = 1
        BY <1>2, <1>4, <2>3, <2>4
      <3> QED
        BY <1>1, <2>3, <2>4, <3>1, SMTT(30) DEF RoundTypes
    <2>7. \A k \in 1..(n + 1) : k \in 1..n \/ k = n + 1
      BY <2>3, SMTT(30)
    <2>8. \A j, k \in 1..(n + 1) : t_fds'[j].fd = t_fds'[k].fd => j = k
      BY <2>3, <2>4, <2>5, <2>7, SMTT(30) DEF RoundInv
    <2>9. \A g \in t_gone' \cup t_err' : \E k \in 1..(n + 1) : t_fds'[k].fd = g
      <3>1. \A k \in 1..n : k \in 1..(n + 1)
        BY <2>3
      <3> QED
        BY <1>1, <2>3, <2>4, <3>1, Zenon DEF RoundInv
    <2>10. t_i' = 1 /\ \A k \in 1..(n + 1) : ~ (k < t_i')
      BY <1>2, <2>3, <2>4
    <2>11. \A k \in 1..(n + 1) : Data(t_fds'[k]) => t_rcv[t_fds'[k].fd] # <<>> \/ t_fds'[k].fd \in t_err
      <3>1. ~ Data(e)
        BY <2>5 DEF Data
      <3>2. \A k \in 1..n : Data(t_fds[k]) => t_rcv[t_fds[k].fd] # <<>> \/ t_fds[k].fd \in t_err
        <4>1. \A k \in 1..n : k >= t_i
          BY <1>1, <2>3
        <4> QED
          BY <2>3, <4>1, Zenon DEF RoundInv
      <3> QED
        BY <2>4, <2>7, <3>1, <3>2, Zenon
    <2> QED
      BY <1>1, <2>4, <2>6, <2>8, <2>9, <2>10, <2>11, Zenon DEF RoundInv
  <1>5. CASE Len(t_fds) >= T_USER_LIMIT
    BY <1>3, <1>5 DEF T!accept, T!user_counter
  <1>6. CASE ~ (Len(t_fds) >= T_USER_LIMIT)
    <2>1. \E f \in Fd \ T!Open : t_fds' = Append(t_fds, [fd |-> f, revents |-> {}, out |-> FALSE])
      BY <1>6, Zenon DEF T!accept, T!user_counter, T!Lowest
    <2>2. Len(t_fds) < T_USER_LIMIT
      BY <1>1, <1>6
    <2> QED
      BY <1>4, <2>1, <2>2, Zenon
  <1> QED
    BY <1>5, <1>6

(* recv(): the others are asked to send, and keep what poll() reported of them. *)
LEMMA RecvRound ==
    ASSUME T_USER_LIMIT \in Nat, RoundInv, T!recv
    PROVE  RoundInv'
  <1>1. RoundTypes /\ t_fds \in Seq(Entry) /\ Len(t_fds) \in Nat /\ DOMAIN t_fds = 1..Len(t_fds) /\ t_i \in 1..Len(t_fds)
    BY FdsFacts, Zenon DEF RoundInv, RoundTypes, T!recv, T!Readable, T!Turn
  <1>2. \A k \in 1..Len(t_fds) : t_fds[k] \in Entry /\ t_fds[k].fd \in Fd
    BY <1>1, FdsFacts
  <1>3. /\ t_fds' = [k \in 1..Len(t_fds) |-> [t_fds[k] EXCEPT !.out = t_fds[k].out \/ k \in T!Others]]
        /\ T!Turn /\ T!Next_i /\ UNCHANGED <<t_gone, t_err, t_texts>>
    BY <1>1, Zenon DEF T!recv, T!Readable
  <1>4. \A k \in 1..Len(t_fds) : /\ t_fds'[k] \in Entry
                               /\ t_fds'[k].fd = t_fds[k].fd /\ t_fds'[k].revents = t_fds[k].revents
    <2>1. TAKE k \in 1..Len(t_fds)
    <2>2. PICK b \in BOOLEAN : t_fds'[k] = [t_fds[k] EXCEPT !.out = b]
      BY <1>3, Zenon
    <2> QED
      BY <1>2, <2>2 DEF Entry
  <1>5. t_fds' \in Seq(Entry) /\ Len(t_fds') = Len(t_fds)
    BY <1>1, <1>3, <1>4
  <1>6. t_rcv' \in [Fd -> Seq(Nat)] /\ \A g \in Fd : g # t_fds[t_i].fd => t_rcv'[g] = t_rcv[g]
    <2>1. PICK f \in Fd : f = t_fds[t_i].fd
      BY <1>1, <1>2, Zenon
    <2>2. PICK n \in 1..Len(t_rcv[f]) : T!Received(f, SubSeq(t_rcv[f], 1, n), {t_fds[k].fd : k \in T!Others})
      BY <2>1, Zenon DEF T!recv
    <2>3. t_rcv \in [Fd -> Seq(Nat)] /\ t_rcv[f] \in Seq(Nat)
      BY <1>1, Zenon DEF RoundTypes
    <2>4. SubSeq(t_rcv[f], 1, n) \in Seq(Nat)
      BY <2>3
    <2>5. SubSeq(t_rcv[f], Len(SubSeq(t_rcv[f], 1, n)) + 1, Len(t_rcv[f])) \in Seq(Nat)
      BY <2>3, <2>4
    <2>6. t_rcv' = [t_rcv EXCEPT ![f] = SubSeq(t_rcv[f], Len(SubSeq(t_rcv[f], 1, n)) + 1, Len(t_rcv[f]))]
      BY <2>2, Zenon DEF T!Received
    <2> QED
      BY <2>1, <2>3, <2>5, <2>6, Zenon
  <1> QED
    BY <1>3, <1>4, <1>5, <1>6, TurnRound, Zenon

(* Every kind of turn keeps the invariant. *)
LEMMA ServeRound ==
    ASSUME T_USER_LIMIT \in Nat, RoundInv, T!serve
    PROVE  RoundInv'
  <1>1. RoundTypes /\ t_fds \in Seq(Entry) /\ t_rcv \in [Fd -> Seq(Nat)]
    BY Zenon DEF RoundInv, RoundTypes
  <1>2. CASE T!get_error
    BY <1>1, <1>2, TurnRound, Zenon DEF T!get_error
  <1>3. CASE T!skip
    BY <1>1, <1>3, TurnRound, Zenon DEF T!skip, T!kernel
  <1>4. CASE T!send
    BY <1>1, <1>4, TurnRound, Zenon DEF T!send
  <1>5. CASE T!client_left
    BY <1>5, LeftRound DEF T!client_left
  <1>6. CASE T!recv_fails
    BY <1>6, LeftRound DEF T!recv_fails, T!Readable
  <1> QED
    BY <1>2, <1>3, <1>4, <1>5, <1>6, RecvRound, AcceptRound, SMTT(30) DEF T!serve

(* The clients: what poll() reported before stays true or becomes an error. *)
LEMMA ClientRound ==
    ASSUME T_USER_LIMIT \in Nat, RoundInv,
           \/ T!connect \/ UNCHANGED T!vars
           \/ \E f \in Fd : T!client_sends(f) \/ T!client_closes(f) \/ T!client_resets(f)
    PROVE  RoundInv'
  <1>1. RoundTypes /\ DOMAIN t_fds = 1..Len(t_fds) /\ UNCHANGED <<t_fds, t_i, t_served>>
    BY FdsFacts, Zenon DEF RoundInv, T!connect, T!vars, T!client_sends, T!client_closes, T!client_resets
  <1>2. /\ t_rcv' \in [Fd -> Seq(Nat)] /\ t_texts' \in Nat
        /\ \A g \in Fd : t_rcv[g] # <<>> => t_rcv'[g] # <<>> \/ g \in t_err'
        /\ t_err \subseteq t_err'
        /\ t_gone' \cup t_err' \subseteq t_gone \cup t_err \cup T!Open
    <2>1. CASE T!connect \/ UNCHANGED T!vars
      BY <1>1, <2>1, Zenon DEF T!connect, T!vars, T!kernel, RoundTypes
    <2>2. ASSUME NEW f \in Fd, T!client_sends(f)
          PROVE  /\ t_rcv' \in [Fd -> Seq(Nat)] /\ t_texts' \in Nat
                 /\ \A g \in Fd : t_rcv[g] # <<>> => t_rcv'[g] # <<>>
                 /\ UNCHANGED <<t_gone, t_err>>
      <3>1. t_rcv[f] \in Seq(Nat) /\ t_texts' = t_texts + 1 /\ t_texts \in Nat
        BY <1>1, <2>2, Zenon DEF RoundTypes, T!client_sends
      <3>2. Append(t_rcv[f], t_texts') \in Seq(Nat) /\ Append(t_rcv[f], t_texts') # <<>>
        BY <3>1
      <3> QED
        BY <1>1, <2>2, <3>1, <3>2, SMTT(30) DEF T!client_sends, RoundTypes
    <2>3. ASSUME NEW f \in Fd, T!client_closes(f)
          PROVE  UNCHANGED <<t_rcv, t_texts, t_err>> /\ t_gone' \subseteq t_gone \cup T!Open
      BY <2>3, Zenon DEF T!client_closes
    <2>4. ASSUME NEW f \in Fd, T!client_resets(f)
          PROVE  /\ t_rcv' = t_rcv \/ t_rcv' = [t_rcv EXCEPT ![f] = <<>>]
                 /\ UNCHANGED t_texts /\ t_err' = t_err \cup {f} /\ t_gone' = t_gone \cup {f} /\ f \in T!Open
      BY <2>4, Zenon DEF T!client_resets
    <2>5. ASSUME NEW f \in Fd, T!client_resets(f)
          PROVE  t_rcv' \in [Fd -> Seq(Nat)] /\ \A g \in Fd : t_rcv[g] # <<>> => t_rcv'[g] # <<>> \/ g \in t_err'
      <3>1. t_rcv \in [Fd -> Seq(Nat)] /\ <<>> \in Seq(Nat)
        BY <1>1 DEF RoundTypes
      <3>2. (t_rcv' = t_rcv \/ t_rcv' = [t_rcv EXCEPT ![f] = <<>>]) /\ f \in t_err'
        BY <2>4, <2>5, Zenon
      <3> QED
        BY <3>1, <3>2, Zenon
    <2> QED
      BY <1>1, <2>1, <2>2, <2>3, <2>4, <2>5, Zenon DEF RoundTypes
  <1>3. \A k \in 1..Len(t_fds) : t_fds[k].fd \in Fd
    BY <1>1, FdsFacts
  <1>4. RoundTypes'
    BY <1>1, <1>2, Zenon DEF RoundTypes, T!Polls
  <1>5. \A f \in t_gone' \cup t_err' : \E k \in 1..Len(t_fds) : t_fds[k].fd = f
    <2>1. \A f \in T!Open : \E k \in 1..Len(t_fds) : t_fds[k].fd = f
      BY <1>1, Zenon DEF T!Open
    <2>2. \A f \in t_gone \cup t_err : \E k \in 1..Len(t_fds) : t_fds[k].fd = f
      BY Zenon DEF RoundInv
    <2> QED
      BY <1>2, <2>1, <2>2, Zenon
  <1>6. \A k \in 1..Len(t_fds) : k >= t_i /\ Data(t_fds[k]) => t_rcv'[t_fds[k].fd] # <<>> \/ t_fds[k].fd \in t_err'
    <2>1. ASSUME NEW k \in 1..Len(t_fds), k >= t_i, Data(t_fds[k])
          PROVE  t_rcv'[t_fds[k].fd] # <<>> \/ t_fds[k].fd \in t_err'
      <3>1. t_rcv[t_fds[k].fd] # <<>> \/ t_fds[k].fd \in t_err
        BY <2>1, Zenon DEF RoundInv
      <3> QED
        BY <1>2, <1>3, <3>1, Zenon
    <2> QED
      BY <2>1, Zenon
  <1> QED
    BY <1>1, <1>4, <1>5, <1>6, Zenon DEF RoundInv

(* The server starts between two rounds, without clients. *)
LEMMA InitRound ==
    ASSUME T_USER_LIMIT \in Nat
    PROVE  T!Init => RoundInv
  <1>1. SUFFICES ASSUME T!Init PROVE RoundInv
    OBVIOUS
  <1>2. t_fds = <<>> /\ t_fds \in Seq(Entry) /\ Len(t_fds) = 0 /\ t_i = T!Polls /\ t_i \in Nat /\ t_i # 0
    BY <1>1 DEF T!Init, T!Polls
  <1>3. RoundTypes
    BY <1>1, <1>2, SMTT(30) DEF T!Init, RoundTypes
  <1>4. t_gone = {} /\ t_err = {} /\ 1..Len(t_fds) = {}
    BY <1>1, <1>2 DEF T!Init
  <1> QED
    BY <1>2, <1>3, <1>4, Zenon DEF RoundInv

(* Every step keeps the rounds in order. *)
LEMMA NextRound ==
    ASSUME T_USER_LIMIT \in Nat
    PROVE  RoundInv /\ [T!Next]_(T!vars) => RoundInv'
  BY PollRound, ServeRound, ClientRound DEF T!Next

(* For any limit of users: however clients come and go during a round, each entry
   that poll() reported has its turn exactly once, and recv() never returns 0. *)
THEOREM EveryTurnTaken == T!Spec => []TurnsComplete
  <1>1. T_USER_LIMIT \in Nat
    BY TalkAssumption
  <1>2. RoundInv => TurnsComplete
    BY <1>1, RoundComplete DEF TurnsComplete
  <1>3. (T!Init => RoundInv) /\ (RoundInv /\ [T!Next]_(T!vars) => RoundInv')
    BY <1>1, InitRound, NextRound
  <1> QED
    BY <1>2, <1>3, PTL DEF T!Spec
-----------------------------------------------------------------------------
(* A client that is asked for POLLOUT has been told whose buffer to send, and that
   buffer holds what was meant for it, or was copied over. *)
Holds(f) ==
    LET w == t_users[f].write_buf IN
    w = T!NULL \/ (w \in Fd /\ w # f /\ (t_stale \/ t_users[w].buf = t_meant[f]))

User == [buf : Seq(Nat), write_buf : Fd \cup {T!NULL, T!Wild}]

TextInv ==
    /\ t_users \in [Fd -> User] /\ t_meant \in [Fd -> Seq(Nat)]
    /\ \A k \in 1..Len(t_fds) : "OUT" \in t_fds[k].revents => t_fds[k].out
    /\ \A k \in 1..Len(t_fds) : t_fds[k].out => Holds(t_fds[k].fd)
    /\ t_wrong => t_stale

(* Nothing was copied, sent or asked for. *)
LEMMA TextUntouched ==
    ASSUME TextInv, UNCHANGED <<t_users, t_meant, t_stale, t_wrong>>, Len(t_fds') = Len(t_fds),
           \A k \in 1..Len(t_fds) : t_fds'[k].fd = t_fds[k].fd,
           \A k \in 1..Len(t_fds) : t_fds'[k].out => t_fds[k].out,
           \A k \in 1..Len(t_fds) : "OUT" \in t_fds'[k].revents => t_fds'[k].out
    PROVE  TextInv'
  <1>1. \A k \in 1..Len(t_fds) : t_fds'[k].out => Holds(t_fds'[k].fd)
    <2>1. ASSUME NEW k \in 1..Len(t_fds), t_fds'[k].out PROVE Holds(t_fds'[k].fd)
      <3>1. t_fds'[k].fd = t_fds[k].fd
        BY <2>1, Zenon
      <3>2. t_fds[k].out
        BY <2>1, Zenon
      <3>3. Holds(t_fds[k].fd)
        BY <2>1, <3>2, Zenon DEF TextInv
      <3> QED
        BY <3>1, <3>3, Zenon
    <2> QED
      BY <2>1, Zenon
  <1>2. \A f : Holds(f) => Holds(f)'
    BY Zenon DEF Holds
  <1>3. \A k \in 1..Len(t_fds') : t_fds'[k].out => \E g : g = t_fds'[k].fd /\ Holds(g)'
    BY <1>1, <1>2, Zenon
  <1>4. t_users' \in [Fd -> User] /\ t_meant' \in [Fd -> Seq(Nat)] /\ (t_wrong' => t_stale')
    BY Zenon DEF TextInv
  <1>5. \A k \in 1..Len(t_fds') : "OUT" \in t_fds'[k].revents => t_fds'[k].out
    BY Zenon
  <1> QED
    BY <1>3, <1>4, <1>5, ZenonT(60) DEF TextInv, Holds

(* poll() reports POLLOUT only where it is asked for. *)
LEMMA PollText ==
    ASSUME RoundInv, TextInv, T!poll
    PROVE  TextInv'
  <1>1. RoundTypes /\ t_fds \in Seq(Entry) /\ Len(t_fds) \in Nat /\ DOMAIN t_fds = 1..Len(t_fds)
    BY FdsFacts, Zenon DEF RoundInv, RoundTypes
  <1>2. /\ t_fds' = [k \in 1..Len(t_fds) |-> [t_fds[k] EXCEPT !.revents = T!Events(t_fds[k])]]
        /\ UNCHANGED <<t_users, t_meant, t_stale, t_wrong>>
    BY <1>1, Zenon DEF T!poll, T!account
  <1>3. ASSUME NEW k \in 1..Len(t_fds)
        PROVE  /\ t_fds'[k].fd = t_fds[k].fd /\ t_fds'[k].out = t_fds[k].out
               /\ "OUT" \in t_fds'[k].revents => t_fds'[k].out
    <2>1. t_fds[k] \in Entry /\ t_fds'[k] = [t_fds[k] EXCEPT !.revents = T!Events(t_fds[k])]
      BY <1>1, <1>2
    <2>2. t_fds'[k].fd = t_fds[k].fd /\ t_fds'[k].out = t_fds[k].out /\ t_fds'[k].revents = T!Events(t_fds[k])
      BY <2>1 DEF Entry
    <2>3. "OUT" \in T!Events(t_fds[k]) => t_fds[k].out
      BY Zenon DEF T!Events
    <2> QED
      BY <2>2, <2>3, Zenon
  <1>4. Len(t_fds') = Len(t_fds)
    BY <1>1, <1>2
  <1> QED
    BY <1>2, <1>3, <1>4, TextUntouched, SMTT(30)

(* A new client is not asked for POLLOUT. *)
LEMMA AcceptText ==
    ASSUME RoundInv, TextInv, T!accept
    PROVE  TextInv'
  <1>1. /\ t_fds \in Seq(Entry) /\ UNCHANGED <<t_users, t_meant, t_stale, t_wrong>>
        /\ \/ t_fds' = t_fds
           \/ \E f \in Fd : t_fds' = Append(t_fds, [fd |-> f, revents |-> {}, out |-> FALSE])
    BY Zenon DEF RoundInv, RoundTypes, T!accept, T!Lowest, T!account
  <1>2. CASE t_fds' = t_fds
    BY <1>1, <1>2, Zenon DEF TextInv, Holds
  <1>3. ASSUME NEW f \in Fd, t_fds' = Append(t_fds, [fd |-> f, revents |-> {}, out |-> FALSE])
        PROVE  TextInv'
    <2>1. PICK e \in Entry : e = [fd |-> f, revents |-> {}, out |-> FALSE]
      BY Zenon DEF Entry
    <2>2. PICK n \in Nat : n = Len(t_fds)
      BY <1>1
    <2>3. /\ Len(t_fds') = n + 1 /\ t_fds'[n + 1] = e
          /\ \A k \in 1..n : t_fds'[k] = t_fds[k]
      BY <1>1, <1>3, <2>1, <2>2
    <2>4. e.revents = {} /\ e.out = FALSE
      BY <2>1, Zenon
    <2>5. \A k \in 1..(n + 1) : k \in 1..n \/ k = n + 1
      BY <2>2, SMTT(30)
    <2>6. \A k \in 1..n : /\ "OUT" \in t_fds'[k].revents => t_fds'[k].out
                          /\ t_fds'[k].out => Holds(t_fds'[k].fd)
      BY <2>2, <2>3, Zenon DEF TextInv
    <2>7. \A k \in 1..(n + 1) : /\ "OUT" \in t_fds'[k].revents => t_fds'[k].out
                                /\ t_fds'[k].out => Holds(t_fds'[k].fd)
      BY <2>3, <2>4, <2>5, <2>6, Zenon
    <2>8. \A g : Holds(g)' <=> Holds(g)
      BY <1>1, Zenon DEF Holds
    <2> QED
      BY <1>1, <2>3, <2>7, <2>8, Zenon DEF TextInv
  <1> QED
    BY <1>1, <1>2, <1>3, Zenon

(* A client leaves: if its buffer changes while it is to be sent, it is stale. *)
LEMMA LeftText ==
    ASSUME RoundInv, TextInv, T!Turn, NEW data \in User, T!Left(data), UNCHANGED t_wrong
    PROVE  TextInv'
  <1>1. t_fds \in Seq(Entry) /\ Len(t_fds) \in Nat /\ DOMAIN t_fds = 1..Len(t_fds) /\ t_i \in 1..Len(t_fds)
    BY FdsFacts, Zenon DEF RoundInv, RoundTypes, T!Turn
  <1>2. PICK n \in Nat : n = Len(t_fds) /\ n >= 1
    <2>1. Len(t_fds) >= 1
      BY <1>1, SMTT(30)
    <2> QED
      BY <1>1, <2>1, Zenon
  <1>3. PICK f \in Fd, l \in Fd : f = t_fds[t_i].fd /\ l = t_fds[Len(t_fds)].fd
    <2>1. n \in 1..Len(t_fds)
      BY <1>2, SMTT(30)
    <2> QED
      BY <1>1, <1>2, <2>1, FdsFacts, ZenonT(60) DEF RoundInv
  <1>4. \A k \in 1..n : t_fds[k].fd \in Fd /\ (t_fds[k].fd = f => k = t_i)
    BY <1>1, <1>2, <1>3, FdsFacts, Zenon DEF RoundInv
  <1>5. /\ t_users' = [t_users EXCEPT ![f] = IF f = l THEN data ELSE t_users[l]]
        /\ t_fds' = SubSeq([t_fds EXCEPT ![t_i] = t_fds[Len(t_fds)]], 1, Len(t_fds) - 1)
        /\ t_stale' = (t_stale \/ {g \in T!Open \ {f} : t_users[g].write_buf = f /\ t_users'[f].buf # t_users[f].buf} # {})
        /\ t_meant' = [t_meant EXCEPT ![f] = <<>>]
    BY <1>3, Zenon DEF T!Left, T!user_counter
  <1>6. /\ Len(t_fds') = n - 1
        /\ \A k \in 1..(n - 1) : t_fds'[k] = IF k = t_i THEN t_fds[n] ELSE t_fds[k]
    BY <1>1, <1>2, <1>5, SwapFacts
  <1>7. ASSUME NEW k \in 1..(n - 1) PROVE \E o \in 1..n : t_fds'[k] = t_fds[o] /\ o # t_i
    <2>1. k \in 1..n /\ n \in 1..n /\ (k = t_i => n # t_i)
      BY <1>2
    <2> QED
      BY <1>6, <2>1, Zenon
  <1>8. t_users' \in [Fd -> User] /\ t_meant' \in [Fd -> Seq(Nat)]
    <2>1. t_users \in [Fd -> User] /\ t_meant \in [Fd -> Seq(Nat)] /\ <<>> \in Seq(Nat)
      BY SMTT(30) DEF TextInv
    <2> QED
      BY <1>5, <2>1, Zenon
  <1>9. ASSUME NEW g \in Fd, g # f, g \in T!Open, Holds(g) PROVE Holds(g)'
    <2>1. t_users'[g] = t_users[g] /\ t_meant'[g] = t_meant[g]
      BY <1>5, <1>9, Zenon DEF TextInv
    <2>2. PICK w : w = t_users[g].write_buf
      OBVIOUS
    <2>3. CASE w = T!NULL
      BY <2>1, <2>2, <2>3, Zenon DEF Holds
    <2>4. CASE w \in Fd /\ w # g /\ (t_stale \/ t_users[w].buf = t_meant[g])
      <3>1. CASE w = f
        <4>1. t_stale' \/ t_users'[f].buf = t_users[f].buf
          BY <1>5, <1>9, <2>2, <3>1, Zenon
        <4>2. t_stale => t_stale'
          BY <1>5, Zenon
        <4> QED
          BY <2>1, <2>2, <2>4, <3>1, <4>1, <4>2, Zenon DEF Holds
      <3>2. CASE w # f
        <4>1. t_users'[w] = t_users[w] /\ (t_stale => t_stale')
          BY <1>5, <2>4, <3>2, Zenon DEF TextInv
        <4> QED
          BY <2>1, <2>2, <2>4, <4>1, Zenon DEF Holds
      <3> QED
        BY <3>1, <3>2
    <2> QED
      BY <1>9, <2>2, <2>3, <2>4, Zenon DEF Holds
  <1>10. ASSUME NEW k \in 1..(n - 1)
         PROVE  /\ "OUT" \in t_fds'[k].revents => t_fds'[k].out
                /\ t_fds'[k].out => \E g \in Fd : g = t_fds'[k].fd /\ Holds(g)'
    <2>1. PICK o \in 1..n : t_fds'[k] = t_fds[o] /\ o # t_i
      BY <1>7, Zenon
    <2>2. /\ "OUT" \in t_fds[o].revents => t_fds[o].out
          /\ t_fds[o].out => Holds(t_fds[o].fd)
      BY <1>2, Zenon DEF TextInv
    <2>3. t_fds[o].fd \in Fd /\ t_fds[o].fd # f /\ t_fds[o].fd \in T!Open
      BY <1>1, <1>2, <1>4, <2>1, Zenon DEF T!Open
    <2>4. t_fds[o].out => \E g \in Fd : g = t_fds[o].fd /\ Holds(g)'
      BY <1>9, <2>2, <2>3, Zenon
    <2> QED
      BY <2>1, <2>2, <2>4, Zenon
  <1>11. t_wrong' => t_stale'
    BY <1>5, Zenon DEF TextInv
  <1>12. \A k \in 1..Len(t_fds') : "OUT" \in t_fds'[k].revents => t_fds'[k].out
    BY <1>6, <1>10, Zenon
  <1>13. \A k \in 1..Len(t_fds') : t_fds'[k].out => Holds(t_fds[k].fd)'
    <2> SUFFICES ASSUME NEW k \in 1..Len(t_fds'), t_fds'[k].out
                 PROVE  Holds(t_fds[k].fd)'
      OBVIOUS
    <2>1. PICK g \in Fd : g = t_fds'[k].fd /\ Holds(g)'
      BY <1>6, <1>10, Zenon
    <2> QED
      BY <2>1, Zenon DEF Holds
  <1> QED
    BY <1>8, <1>11, <1>12, <1>13, ZenonT(60) DEF TextInv

(* recv(): the others are to be sent what has just been read; the reader may still
   have another client's text to send. *)
LEMMA RecvText ==
    ASSUME RoundInv, TextInv, T!recv
    PROVE  TextInv'
  <1>1. /\ t_fds \in Seq(Entry) /\ Len(t_fds) \in Nat /\ DOMAIN t_fds = 1..Len(t_fds) /\ t_i \in 1..Len(t_fds)
        /\ t_rcv \in [Fd -> Seq(Nat)] /\ RoundTypes
    BY FdsFacts, Zenon DEF RoundInv, RoundTypes, T!recv, T!Readable, T!Turn
  <1>2. PICK f \in Fd : f = t_fds[t_i].fd
    BY <1>1, FdsFacts, SMTT(30)
  <1>3. \A k \in 1..Len(t_fds) : t_fds[k] \in Entry /\ t_fds[k].fd \in Fd /\ (t_fds[k].fd = f <=> k = t_i)
    BY <1>1, <1>2, FdsFacts, Zenon DEF RoundInv
  <1>4. T!Open = {t_fds[k].fd : k \in 1..Len(t_fds)} /\ T!Others = 1..Len(t_fds) \ {t_i}
    BY <1>1, <1>2, <1>3, Zenon DEF T!Open, T!Others
  <1>5. {t_fds[k].fd : k \in T!Others} = T!Open \ {f}
    BY <1>2, <1>3, <1>4, Zenon
  <1>5a. PICK n \in 1..Len(t_rcv[f]) : T!Received(f, SubSeq(t_rcv[f], 1, n), {t_fds[k].fd : k \in T!Others})
    BY <1>2, Zenon DEF T!recv
  <1>5b. PICK got \in Seq(Nat) : got = SubSeq(t_rcv[f], 1, n)
    <2>1. t_rcv[f] \in Seq(Nat)
      BY <1>1, Zenon
    <2>2. SubSeq(t_rcv[f], 1, n) \in Seq(Nat)
      BY <2>1
    <2> QED
      BY <2>2, Zenon
  <1>6. /\ t_users' = [g \in Fd |-> IF g = f THEN [t_users[g] EXCEPT !.buf = got]
                                 ELSE IF g \in T!Open \ {f} THEN [t_users[g] EXCEPT !.write_buf = f]
                                 ELSE t_users[g]]
        /\ t_meant' = [g \in Fd |-> IF g \in T!Open \ {f} THEN got ELSE t_meant[g]]
        /\ t_fds' = [k \in 1..Len(t_fds) |-> [t_fds[k] EXCEPT !.out = t_fds[k].out \/ k \in T!Others]]
        /\ UNCHANGED <<t_stale, t_wrong>>
    <2>1. T!Received(f, got, T!Open \ {f})
      BY <1>5, <1>5a, <1>5b, Zenon
    <2> QED
      BY <1>1, <2>1, Zenon DEF T!recv, T!Received
  <1>7. t_users \in [Fd -> User] /\ t_meant \in [Fd -> Seq(Nat)]
    BY Zenon DEF TextInv
  <1>8. ASSUME NEW g \in Fd, g # f
        PROVE  /\ t_users'[g] \in User /\ t_users'[g].buf = t_users[g].buf
               /\ g \in T!Open => t_users'[g].write_buf = f
    <2>1. t_users[g] \in User
      BY <1>7
    <2>2. CASE g \in T!Open
      <3>1. t_users'[g] = [t_users[g] EXCEPT !.write_buf = f]
        BY <1>6, <1>8, <2>2
      <3> QED
        BY <2>1, <3>1, Zenon DEF User
    <2>3. CASE g \notin T!Open
      <3>1. t_users'[g] = t_users[g]
        BY <1>6, <1>8, <2>3, SMTT(30)
      <3> QED
        BY <2>1, <2>3, <3>1, Zenon
    <2> QED
      BY <2>2, <2>3, Zenon
  <1>9. t_users'[f] \in User /\ t_users'[f].buf = got /\ t_users'[f].write_buf = t_users[f].write_buf
    <2>1. t_users'[f] = [t_users[f] EXCEPT !.buf = got] /\ t_users[f] \in User
      BY <1>6, <1>7, SMTT(30)
    <2> QED
      BY <1>5b, <2>1, Zenon DEF User
  <1>10. t_users' \in [Fd -> User] /\ t_meant' \in [Fd -> Seq(Nat)]
    <2>1. t_users' = [g \in Fd |-> t_users'[g]]
      BY <1>6
    <2>2. t_meant' = [g \in Fd |-> IF g \in T!Open \ {f} THEN got ELSE t_meant[g]]
      BY <1>6
    <2>3. \A g \in Fd : t_users'[g] \in User
      BY <1>8, <1>9, Zenon
    <2> QED
      BY <1>7, <1>5b, <2>1, <2>2, <2>3, SMTT(30)
  <1>11. Len(t_fds') = Len(t_fds)
    BY <1>1, <1>6
  <1>12. ASSUME NEW k \in 1..Len(t_fds)
         PROVE  /\ t_fds'[k].fd = t_fds[k].fd /\ t_fds'[k].revents = t_fds[k].revents
                /\ t_fds'[k].out <=> t_fds[k].out \/ k # t_i
    <2>1. PICK b \in BOOLEAN : b = (t_fds[k].out \/ k \in T!Others)
      BY Zenon
    <2>2. t_fds'[k] = [t_fds[k] EXCEPT !.out = b] /\ (b <=> t_fds[k].out \/ k # t_i)
      BY <1>4, <1>6, <2>1, Zenon
    <2> QED
      BY <1>3, <2>2 DEF Entry
  <1>13. ASSUME NEW g \in T!Open \ {f} PROVE Holds(g)'
    <2>1. g \in Fd
      BY <1>3, <1>4, Zenon
    <2>2. t_users'[g].write_buf = f /\ t_users'[f].buf = got
      BY <1>8, <1>9, <2>1, Zenon
    <2>3. t_meant'[g] = got
      <3>1. t_meant' = [h \in Fd |-> IF h \in T!Open \ {f} THEN got ELSE t_meant[h]]
        BY <1>6
      <3> QED
        BY <2>1, <3>1, Zenon
    <2> QED
      BY <2>2, <2>3, Zenon DEF Holds
  <1>14. Holds(f) => Holds(f)'
    <2>1. /\ t_users'[f].write_buf = t_users[f].write_buf
          /\ \A w \in Fd : w # f => t_users'[w].buf = t_users[w].buf
      BY <1>8, <1>9, Zenon
    <2>2. t_meant'[f] = t_meant[f] /\ t_stale' = t_stale
      <3>1. /\ t_meant' = [h \in Fd |-> IF h \in T!Open \ {f} THEN got ELSE t_meant[h]]
            /\ t_stale' = t_stale
        BY <1>6, SMTT(30)
      <3> QED
        BY <3>1, Zenon
    <2> QED
      BY <2>1, <2>2, Zenon DEF Holds
  <1>15. ASSUME NEW k \in 1..Len(t_fds)
         PROVE  /\ "OUT" \in t_fds'[k].revents => t_fds'[k].out
                /\ t_fds'[k].out => \E g \in Fd : g = t_fds'[k].fd /\ Holds(g)'
    <2>1. /\ "OUT" \in t_fds[k].revents => t_fds[k].out
          /\ t_fds[k].out => Holds(t_fds[k].fd)
      BY Zenon DEF TextInv
    <2>2. CASE k = t_i
      BY <1>2, <1>12, <1>14, <2>1, <2>2, Zenon
    <2>3. CASE k # t_i
      <3>1. t_fds[k].fd \in T!Open \ {f} /\ t_fds[k].fd \in Fd
        BY <1>3, <1>4, <2>3, Zenon
      <3> QED
        BY <1>12, <1>13, <2>3, <3>1, Zenon
    <2> QED
      BY <2>2, <2>3, Zenon
  <1>16. t_wrong' => t_stale'
    BY <1>6 DEF TextInv
  <1> QED
    BY <1>10, <1>11, <1>15, <1>16, Zenon DEF TextInv, Holds

(* send(): the text is the one that was meant, or its buffer is stale. *)
LEMMA SendText ==
    ASSUME T!Wild \notin Fd, RoundInv, TextInv, T!send
    PROVE  TextInv'
  <1>1. RoundTypes /\ DOMAIN t_fds = 1..Len(t_fds) /\ t_i \in 1..Len(t_fds) /\ t_fds' = t_fds /\ t_stale' = t_stale
    BY FdsFacts, Zenon DEF RoundInv, T!send, T!Turn
  <1>2. PICK f \in Fd : f = t_fds[t_i].fd
    BY <1>1, FdsFacts
  <1>3. PICK w : w = t_users[f].write_buf
    BY SMTT(30)
  <1>4. /\ t_wrong' = (t_wrong \/ (w # T!NULL /\ (w = T!Wild \/ t_users[w].buf # t_meant[f])))
        /\ t_users' = [t_users EXCEPT ![f].write_buf = T!NULL]
        /\ t_meant' = t_meant \/ t_meant' = [t_meant EXCEPT ![f] = <<>>]
    <2>1. t_wrong' = (t_wrong \/ (w # T!NULL /\ (w = T!Wild \/ t_users[w].buf # t_meant[f])))
      BY <1>2, <1>3, Zenon DEF T!send
    <2>2. t_users' = [t_users EXCEPT ![f].write_buf = T!NULL]
      BY <1>2, Zenon DEF T!send, T!Cleared
    <2>3. t_meant' = t_meant \/ t_meant' = [t_meant EXCEPT ![f] = <<>>]
      BY <1>2, <1>3, Zenon DEF T!send
    <2> QED
      BY <2>1, <2>2, <2>3, Zenon
  <1>5. t_users \in [Fd -> User] /\ t_meant \in [Fd -> Seq(Nat)] /\ <<>> \in Seq(Nat)
    BY DEF TextInv
  <1>6. t_users' = [t_users EXCEPT ![f] = [t_users[f] EXCEPT !.write_buf = T!NULL]]
    BY <1>4
  <1>7. /\ [t_users[f] EXCEPT !.write_buf = T!NULL] \in User
        /\ [t_users[f] EXCEPT !.write_buf = T!NULL].buf = t_users[f].buf
        /\ [t_users[f] EXCEPT !.write_buf = T!NULL].write_buf = T!NULL
    <2>1. t_users[f] \in User
      BY <1>5
    <2> QED
      BY <2>1, SMTT(30) DEF User
  <1>8. /\ t_users' \in [Fd -> User] /\ t_meant' \in [Fd -> Seq(Nat)]
        /\ t_users'[f].write_buf = T!NULL
        /\ \A g \in Fd : t_users'[g].buf = t_users[g].buf
        /\ \A g \in Fd \ {f} : t_users'[g].write_buf = t_users[g].write_buf /\ t_meant'[g] = t_meant[g]
    BY <1>4, <1>5, <1>6, <1>7, ZenonT(60)
  <1>9. \A g \in Fd : Holds(g) \/ g = f => Holds(g)'
    BY <1>1, <1>8, ZenonT(60) DEF Holds
  <1>10. t_wrong' => t_stale'
    <2>1. Holds(f)
      <3>1. "OUT" \in t_fds[t_i].revents
        BY Zenon DEF T!send
      <3> QED
        BY <1>1, <1>2, <3>1, Zenon DEF TextInv
    <2>2. w = T!NULL \/ (w \in Fd /\ (t_stale \/ t_users[w].buf = t_meant[f]))
      BY <1>3, <2>1, Zenon DEF Holds
    <2>3. t_wrong => t_stale
      BY Zenon DEF TextInv
    <2> QED
      BY <1>1, <1>4, <2>2, <2>3, Zenon
  <1>11. \A k \in 1..Len(t_fds) : t_fds[k].fd \in Fd
    BY <1>1, FdsFacts, SMTT(30)
  <1>12. \A k \in 1..Len(t_fds) : t_fds[k].out => \E g \in Fd : g = t_fds[k].fd /\ Holds(g)'
    BY <1>9, <1>11, Zenon DEF TextInv
  <1>13. \A k \in 1..Len(t_fds') : t_fds'[k].out => Holds(t_fds[k].fd)'
    BY <1>1, <1>12, Zenon DEF Holds
  <1>14. \A k \in 1..Len(t_fds') : "OUT" \in t_fds'[k].revents => t_fds'[k].out
    BY <1>1, Zenon DEF TextInv
  <1> QED
    BY <1>8, <1>10, <1>13, <1>14, Zenon DEF TextInv

(* A client of the poll server is sent what was meant for it, unless the client it
   is read from has left and the last user's data was copied over the buffer: for
   any limit of users, any set of descriptors and any number of texts. *)
LEMMA TextsArrive == T!Spec => []T!RightText
  <1>0. T_USER_LIMIT \in Nat /\ T!Wild \notin Fd
    BY TalkAssumption DEF T!Wild
  <1>1. T!Init => RoundInv /\ TextInv
    <2> SUFFICES ASSUME T!Init PROVE TextInv
      BY <1>0, InitRound
    <2>1. 1..Len(t_fds) = {} /\ ~ t_wrong
      BY DEF T!Init
    <2>2. [buf |-> <<>>, write_buf |-> T!Wild] \in User
      <3>1. <<>> \in Seq(Nat) /\ T!Wild \in Fd \cup {T!NULL, T!Wild}
        OBVIOUS
      <3> QED
        BY <3>1, Zenon DEF User
    <2>3. t_users \in [Fd -> User] /\ t_meant \in [Fd -> Seq(Nat)]
      BY <2>2 DEF T!Init
    <2> QED
      BY <2>1, <2>3, Zenon DEF TextInv
  <1>2. RoundInv /\ TextInv /\ [T!Next]_(T!vars) => RoundInv' /\ TextInv'
    <2> SUFFICES ASSUME RoundInv, TextInv, [T!Next]_(T!vars) PROVE TextInv'
      BY <1>0, NextRound
    <2>1. CASE t_fds' = t_fds /\ UNCHANGED <<t_users, t_meant, t_stale, t_wrong>>
      BY <2>1, TextUntouched, Zenon DEF TextInv
    <2>2. CASE T!client_left
      <3>1. t_users[t_fds[t_i].fd] \in User
        BY <2>2, FdsFacts, Zenon DEF T!client_left, T!Turn, RoundInv, TextInv
      <3> QED
        BY <2>2, <3>1, LeftText, Zenon DEF T!client_left
    <2>3. CASE T!recv_fails
      <3>1. t_users[t_fds[t_i].fd] \in User
        BY <2>3, FdsFacts DEF T!recv_fails, T!Readable, T!Turn, RoundInv, TextInv
      <3>2. [t_users[t_fds[t_i].fd] EXCEPT !.buf = <<>>] \in User
        <4>1. <<>> \in Seq(Nat)
          OBVIOUS
        <4> QED
          BY <3>1, <4>1, Zenon DEF User
      <3> QED
        BY <2>3, <3>2, LeftText DEF T!recv_fails, T!Readable
    <2> QED
      BY <1>0, <2>1, <2>2, <2>3, PollText, AcceptText, RecvText, SendText, Zenon
         DEF T!Next, T!serve, T!vars, T!connect, T!client_sends, T!client_closes, T!client_resets,
             T!get_error, T!skip, T!account
  <1>3. TextInv => T!RightText
    BY Zenon DEF TextInv, T!RightText
  <1> QED
    BY <1>1, <1>2, <1>3, PTL DEF T!Spec

(* Each server sends its clients the texts they are to have: children write to  *)
(* segments of their own until one is moved, and clients of the poll server get *)
(* what was meant for them until one leaves whose buffer is still to be sent.   *)
THEOREM TextsTheirOwn == Spec /\ T!Spec => []OwnText
  <1>1. OwnSegment /\ T!RightText => OwnText
    BY DEF OwnText
  <1> QED
    BY <1>1, SegmentsApart, TextsArrive, PTL
=============================================================================
