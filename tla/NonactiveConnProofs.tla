------------------------- MODULE NonactiveConnProofs -------------------------
(* Connections, timers and events of the server that closes idle connections,
   for any number of descriptors, any TIMESLOT and any amount of data; and
   TimeWheel implements TimerService for every number of slots, slot length,
   set of timers and set of timeouts. *)
EXTENDS MCNonactiveConn, FiniteSetTheorems, TLAPS

(* The edges of the listening socket that a set of events holds: one or none. *)
Edges(set) == Cardinality(set \cap {"listenfd"})

Flags ==
    /\ pc \in {"wait", "batch", "stopped"}
    /\ signals \subseteq {"SIGALRM", "SIGTERM"}
    /\ timeout \in BOOLEAN /\ stop_server \in BOOLEAN

Amounts ==
    /\ alarm \in 0 .. TIMESLOT
    /\ data \in [FD -> 0 .. MaxData]
    /\ peer \in [FD -> {"none", "talks", "silent", "closed"}]

Pairing ==
    /\ open \subseteq FD /\ users \in [FD -> Timer \cup {NULL}]
    /\ live \subseteq Timer /\ left \in [Timer -> 0 .. 3 * TIMESLOT]
    /\ owner \in [Timer -> FD \cup {NULL}]
    /\ \A t \in Timer \ live : left[t] = 0 /\ owner[t] = NULL
    /\ \A fd \in open : users[fd] \in live /\ owner[users[fd]] = fd
    /\ \A t \in live : owner[t] \in open /\ users[owner[t]] = t

(* What epoll will report, or has reported and the batch has not come to, is
   about connections that are open; an edge of the listening socket has a
   connection behind it. *)
Reported ==
    /\ events \subseteq FD \cup {"listenfd", "pipefd"}
    /\ ready \subseteq FD \cup {"listenfd", "pipefd"}
    /\ events \cap FD \subseteq open /\ ready \cap FD \subseteq open
    /\ backlog \in Nat
    /\ Edges(events) + Edges(ready) <= backlog

(* The inductive invariant: the two invariants of the runs, and the same of
   events that are still unreported. *)
Inv == Flags /\ Amounts /\ Pairing /\ Reported

(* What the runs check follows from the invariant. *)
LEMMA InvMeans == Inv => TimersMatchConnections /\ NoStaleEvent
  BY Zenon DEF Inv, Flags, Amounts, Pairing, Reported, Edges, TimersMatchConnections, TypeOK, NoStaleEvent

(* An edge is counted once, however often it is reported. *)
LEMMA EdgeCount ==
    ASSUME NEW S
    PROVE  /\ "listenfd" \in S => Edges(S) = 1
           /\ "listenfd" \notin S => Edges(S) = 0
  <1>1. CASE "listenfd" \in S
    <2>1. S \cap {"listenfd"} = {"listenfd"}
      BY <1>1
    <2> QED
      BY <1>1, <2>1, FS_Singleton DEF Edges
  <1>2. CASE "listenfd" \notin S
    <2>1. S \cap {"listenfd"} = {}
      BY <1>2
    <2> QED
      BY <1>2, <2>1, FS_EmptySet DEF Edges
  <1> QED
    BY <1>1, <1>2

(* The server starts without connections, timers and events. *)
LEMMA InitInv == Init => Inv
  <1> SUFFICES ASSUME Init PROVE Inv
    OBVIOUS
  <1>0. Flags
    BY Zenon DEF Init, Flags
  <1>1. Amounts
    BY NonactiveAssumption DEF Init, Amounts
  <1>2. Pairing
    BY NonactiveAssumption DEF Init, Pairing
  <1>3. Reported
    BY EdgeCount DEF Init, Reported
  <1> QED
    BY <1>0, <1>1, <1>2, <1>3 DEF Inv

-----------------------------------------------------------------------------
(* What the clients and the kernel do *)
LEMMA EnvironmentKeeps ==
    ASSUME Inv, environment
    PROVE  Inv'
  <1> USE NonactiveAssumption
  <1> Flags /\ Amounts /\ Pairing /\ Reported
    BY DEF Inv
  <1>1. CASE connect
    <2>0. Flags'
      BY <1>1 DEF connect, Flags, server
    <2>1. Amounts' /\ Pairing'
      BY <1>1, SMTT(30) DEF connect, Amounts, Pairing, server, clock
    <2>2. Reported'
      <3>1. Edges(ready') <= Edges(ready) + 1 /\ Edges(ready) \in {0, 1} /\ Edges(ready') = 1
        BY <1>1, EdgeCount DEF connect
      <3>2. Edges(events) \in {0, 1}
        BY EdgeCount
      <3>3. events' = events /\ Edges(events') = Edges(events)
        BY <1>1, SMTT(30) DEF connect, server
      <3> QED
        BY <1>1, <3>1, <3>2, <3>3, SMTT(30) DEF connect, Reported, server
    <2> QED
      BY <2>0, <2>1, <2>2 DEF Inv
  <1>2. CASE sigterm
    <2>0. Flags'
      BY <1>2, SMTT(30) DEF sigterm, sig_handler, Flags, server
    <2>1. Amounts' /\ Pairing'
      BY <1>2 DEF sigterm, Amounts, Pairing, server, clock
    <2>2. Edges(ready') = Edges(ready) /\ Edges(events') = Edges(events)
      BY <1>2, EdgeCount DEF sigterm, sig_handler, server
    <2>3. Reported'
      BY <1>2, <2>2 DEF sigterm, sig_handler, Reported, server
    <2> QED
      BY <2>0, <2>1, <2>3 DEF Inv
  <1>3. CASE second
    <2>1. left' \in [Timer -> 0 .. 3 * TIMESLOT] /\ \A t \in Timer \ live : left'[t] = 0
      BY <1>3 DEF second, Pairing
    <2>2. Pairing'
      BY <1>3, <2>1, Zenon DEF second, Pairing, server
    <2>0. Flags'
      BY <1>3, Zenon DEF second, sig_handler, Flags, server
    <2>3. Amounts'
      BY <1>3 DEF second, Amounts
    <2>4. Edges(ready') = Edges(ready) /\ Edges(events') = Edges(events)
      BY <1>3, EdgeCount, Zenon DEF second, sig_handler, server
    <2>5. Reported'
      BY <1>3, <2>4 DEF second, sig_handler, Reported, server
    <2> QED
      BY <2>0, <2>2, <2>3, <2>5, SMTT(30) DEF Inv
  <1>4. ASSUME NEW fd \in FD, client_sends(fd) \/ client_falls_silent(fd) \/ client_closes(fd)
        PROVE  Inv'
    <2>1. Pairing' /\ fd \in open
      BY <1>4 DEF client_sends, client_falls_silent, client_closes, Pairing, server, clock
    <2>0. Flags'
      BY <1>4, Zenon DEF client_sends, client_falls_silent, client_closes, Flags, server
    <2>2. Amounts'
      <3>1. data[fd] \in 0 .. MaxData /\ alarm' = alarm
        BY <1>4, SMTT(30) DEF client_sends, client_falls_silent, client_closes, Amounts, clock
      <3>2. data' = data \/ \E d \in 0 .. MaxData : data' = [data EXCEPT ![fd] = d]
        BY <1>4, <3>1, SMTT(30) DEF client_sends, client_falls_silent, client_closes
      <3>3. peer' = peer \/ \E p \in {"silent", "closed"} : peer' = [peer EXCEPT ![fd] = p]
        BY <1>4 DEF client_sends, client_falls_silent, client_closes
      <3> QED
        BY <3>1, <3>2, <3>3, SMTT(30) DEF Amounts
    <2>3. ready' \in {ready, ready \cup {fd}} /\ events' = events /\ open' = open /\ backlog' = backlog
      BY <1>4, Zenon DEF client_sends, client_falls_silent, client_closes, server
    <2>4. Edges(ready') = Edges(ready) /\ Edges(events') = Edges(events)
      BY <2>3, EdgeCount
    <2>5. Reported'
      BY <2>1, <2>3, <2>4 DEF Reported
    <2> QED
      BY <2>0, <2>1, <2>2, <2>5, SMTT(30) DEF Inv
  <1> QED
    BY <1>1, <1>2, <1>3, <1>4, SMTT(30) DEF environment

-----------------------------------------------------------------------------
(* Closing connections together with their timers keeps the pairing. *)
LEMMA ClosedInPairs ==
    ASSUME Inv, NEW T, T \subseteq live, NEW C, C = {owner[t] : t \in T},
           Closed(C), Deleted(T), UNCHANGED users
    PROVE  /\ Pairing'
           /\ data' \in [FD -> 0 .. MaxData]
           /\ peer' \in [FD -> {"none", "talks", "silent", "closed"}]
           /\ ready' \subseteq ready /\ ready' \cap FD \subseteq open'
           /\ Edges(ready') = Edges(ready)
  <1> USE NonactiveAssumption
  <1> Amounts /\ Pairing /\ Reported
    BY DEF Inv
  <1>1. C \subseteq FD
    BY DEF Pairing
  <1>2. /\ open' = open \ C /\ live' = live \ T /\ ready' = ready \ C
        /\ left' = [t \in Timer |-> IF t \in T THEN 0 ELSE left[t]]
        /\ owner' = [t \in Timer |-> IF t \in T THEN NULL ELSE owner[t]]
    BY Zenon DEF Closed, Deleted
  <1>3. left' \in [Timer -> 0 .. 3 * TIMESLOT]
    BY <1>2 DEF Pairing
  <1>4. owner' \in [Timer -> FD \cup {NULL}]
    BY <1>2 DEF Pairing
  <1>5. \A t \in Timer \ live' : left'[t] = 0 /\ owner'[t] = NULL
    BY <1>2 DEF Pairing
  <1>6. \A fd \in open' : users'[fd] \in live' /\ owner'[users'[fd]] = fd
    BY <1>2 DEF Pairing
  <1>7. \A t \in live' : owner'[t] \in open' /\ users'[owner'[t]] = t
    BY <1>2 DEF Pairing
  <1>8. Pairing'
    BY <1>2, <1>3, <1>4, <1>5, <1>6, <1>7, Zenon DEF Pairing
  <1>9. Edges(ready') = Edges(ready)
    BY <1>1, <1>2, EdgeCount
  <1>10. /\ data' \in [FD -> 0 .. MaxData]
         /\ peer' \in [FD -> {"none", "talks", "silent", "closed"}]
    BY DEF Closed, Amounts
  <1> QED
    BY <1>2, <1>8, <1>9, <1>10, Zenon DEF Reported

(* The steps of the event loop *)
LEMMA WaitKeeps ==
    ASSUME Inv, epoll_wait
    PROVE  Inv'
  <1> Flags /\ Amounts /\ Pairing /\ Reported
    BY DEF Inv
  <1>0. Flags'
    BY DEF epoll_wait, Flags
  <1>1. Amounts' /\ Pairing'
    BY Zenon DEF epoll_wait, Amounts, Pairing, clock
  <1>2. Edges(ready') = 0 /\ Edges(events') = Edges(ready) /\ Edges(events) \in {0, 1} /\ Edges(ready) \in {0, 1}
    BY EdgeCount DEF epoll_wait
  <1>3. Reported'
    BY <1>2 DEF epoll_wait, Reported
  <1> QED
    BY <1>0, <1>1, <1>3 DEF Inv

(* accept gives the new connection a new timer. *)
LEMMA AcceptKeeps ==
    ASSUME Inv, accept_conn
    PROVE  Inv'
  <1> USE NonactiveAssumption
  <1> Flags /\ Amounts /\ Pairing /\ Reported
    BY DEF Inv
  <1>1. PICK fd \in Lowest, t \in Timer \ live, d \in 0 .. MaxData, p \in {"talks", "closed"} :
         /\ \A g \in FD \ {fd} : data[g] + d <= MaxData
         /\ open' = open \cup {fd}
         /\ users' = [users EXCEPT ![fd] = t]
         /\ live' = live \cup {t}
         /\ left' = [left EXCEPT ![t] = Allowance]
         /\ owner' = [owner EXCEPT ![t] = fd]
         /\ peer' = [peer EXCEPT ![fd] = p]
         /\ data' = [data EXCEPT ![fd] = d]
         /\ ready' = IF d > 0 \/ p = "closed" THEN ready \cup {fd} ELSE ready
    BY ZenonT(60) DEF accept_conn
  <1>2. fd \in FD \ open
    <2>1. open # FD /\ fd = CHOOSE g \in FD : g \notin open
      BY <1>1 DEF Lowest
    <2>2. \E g \in FD : g \notin open
      BY <2>1 DEF Pairing
    <2> QED
      BY <2>1, <2>2
  <1>3. Flags'
    BY Zenon DEF accept_conn, Flags, Handling
  <1>4. Amounts'
    BY <1>1, <1>2, Zenon DEF accept_conn, Amounts
  <1>5. Pairing'
    <2>1. left' \in [Timer -> 0 .. 3 * TIMESLOT]
      BY <1>1 DEF Pairing, Allowance
    <2>2. \A u \in Timer \ live' : left'[u] = 0 /\ owner'[u] = NULL
      BY <1>1, Zenon DEF Pairing
    <2>3. \A g \in open' : users'[g] \in live' /\ owner'[users'[g]] = g
      BY <1>1, <1>2 DEF Pairing
    <2>4. \A u \in live' : owner'[u] \in open' /\ users'[owner'[u]] = u
      BY <1>1, <1>2 DEF Pairing
    <2>5. open' \subseteq FD
      <3>1. open \subseteq FD
        BY Zenon DEF Pairing
      <3> QED
        BY <1>1, <1>2, <3>1, Zenon
    <2>6. live' \subseteq Timer
      <3>1. live \subseteq Timer
        BY Zenon DEF Pairing
      <3> QED
        BY <1>1, <3>1, Zenon
    <2>7. users' \in [FD -> Timer \cup {NULL}] /\ owner' \in [Timer -> FD \cup {NULL}]
      BY <1>1, <1>2, Zenon DEF Pairing
    <2> QED
      BY <2>1, <2>2, <2>3, <2>4, <2>5, <2>6, <2>7, Zenon DEF Pairing
  <1>6. Reported'
    <2>1. /\ "listenfd" \in events /\ events' = events \ {"listenfd"}
          /\ backlog' = backlog - 1
      BY Zenon DEF accept_conn, Handling, Taken
    <2>2. Edges(events) = 1 /\ Edges(events') = 0
      BY <2>1, EdgeCount, SMTT(30)
    <2>3. Edges(ready') = Edges(ready) /\ Edges(ready) \in {0, 1}
      BY <1>1, <1>2, EdgeCount, SMTT(30)
    <2>4. backlog' \in Nat /\ Edges(events') + Edges(ready') <= backlog'
      BY <2>1, <2>2, <2>3, SMTT(30) DEF Reported
    <2> QED
      BY <1>1, <1>2, <2>1, <2>4, Zenon DEF Reported
  <1> QED
    BY <1>3, <1>4, <1>5, <1>6 DEF Inv

(* Reading the pipe only sets flags. *)
LEMMA SignalsKeep ==
    ASSUME Inv, read_signals
    PROVE  Inv'
  <1> Flags /\ Amounts /\ Pairing /\ Reported
    BY DEF Inv
  <1>0. Flags'
    BY DEF read_signals, Flags, Handling
  <1>1. Amounts' /\ Pairing'
    BY Zenon DEF read_signals, Amounts, Pairing, clock
  <1>2. Edges(events') = Edges(events)
    BY EdgeCount DEF read_signals, Handling
  <1>3. Reported'
    BY <1>2 DEF read_signals, Handling, Reported
  <1> QED
    BY <1>0, <1>1, <1>3 DEF Inv

(* The events of a connection find it open, with its timer. *)
LEMMA ReadKeeps ==
    ASSUME Inv, NEW fd \in FD, read_data(fd) \/ read_end(fd) \/ read_nothing(fd)
    PROVE  Inv'
  <1> USE NonactiveAssumption
  <1> Flags /\ Amounts /\ Pairing /\ Reported
    BY DEF Inv
  <1>0. Flags'
    BY Zenon DEF read_data, read_end, read_nothing, Flags, Handling
  <1>1. fd \in open /\ users[fd] \in live /\ owner[users[fd]] = fd /\ users[fd] \in Timer
    BY Zenon DEF read_data, read_end, read_nothing, Handling, Reported, Pairing
  <1>2. /\ events' = events \ {fd} /\ backlog' = backlog
        /\ Edges(events') = Edges(events)
    BY EdgeCount, Zenon DEF read_data, read_end, read_nothing, Handling
  <1>3. CASE read_data(fd)
    <2>1. left' = [left EXCEPT ![users[fd]] = Allowance] /\ UNCHANGED <<open, users, live, owner, ready, alarm, peer>>
      BY <1>3, Zenon DEF read_data
    <2>2. Pairing'
      BY <1>1, <2>1 DEF Pairing, Allowance
    <2>3. Amounts'
      <3>1. data[fd] \in 0 .. MaxData
        BY DEF Amounts
      <3>2. PICK k \in 1 .. data[fd] : data' = [data EXCEPT ![fd] = data[fd] - k]
        BY <1>3, Zenon DEF read_data
      <3>3. data[fd] - k \in 0 .. MaxData
        BY <3>1, <3>2
      <3> QED
        BY <2>1, <3>2, <3>3, Zenon DEF Amounts
    <2>4. Reported'
      BY <1>2, <2>1, Zenon DEF Reported
    <2> QED
      BY <1>0, <2>2, <2>3, <2>4 DEF Inv
  <1>4. CASE read_end(fd)
    <2>1. {fd} = {owner[t] : t \in {users[fd]}} /\ {users[fd]} \subseteq live
      BY <1>1, Zenon
    <2>2. Closed({fd}) /\ Deleted({users[fd]}) /\ UNCHANGED <<users, alarm>>
      BY <1>4, Zenon DEF read_end
    <2>3. /\ Pairing'
          /\ data' \in [FD -> 0 .. MaxData]
          /\ peer' \in [FD -> {"none", "talks", "silent", "closed"}]
          /\ ready' \subseteq ready /\ ready' \cap FD \subseteq open'
          /\ Edges(ready') = Edges(ready)
      BY <2>1, <2>2, ClosedInPairs, Zenon
    <2>4. Amounts'
      BY <2>2, <2>3, Zenon DEF Amounts
    <2>5. Reported'
      BY <1>2, <2>2, <2>3, Zenon DEF Reported, Closed
    <2> QED
      BY <1>0, <2>3, <2>4, <2>5, Zenon DEF Inv
  <1>5. CASE read_nothing(fd)
    <2>1. UNCHANGED <<open, users, live, owner, clock, ready, peer, data>>
      BY <1>5, Zenon DEF read_nothing
    <2>2. Amounts' /\ Pairing'
      BY <2>1, Zenon DEF Amounts, Pairing, clock
    <2>3. Reported'
      BY <1>2, <2>1, Zenon DEF Reported
    <2> QED
      BY <1>0, <2>2, <2>3, Zenon DEF Inv
  <1> QED
    BY <1>3, <1>4, <1>5, SMTT(30)

(* The batch is empty when tick() closes connections. *)
LEMMA BatchEndKeeps ==
    ASSUME Inv, end_of_batch
    PROVE  Inv'
  <1> USE NonactiveAssumption
  <1> Flags /\ Amounts /\ Pairing /\ Reported
    BY DEF Inv
  <1>0. Flags'
    BY Zenon DEF end_of_batch, Flags
  <1>1. events = {} /\ UNCHANGED <<events, users, backlog>>
    BY Zenon DEF end_of_batch
  <1>2. CASE timeout
    <2>1. Closed({owner[t] : t \in Due}) /\ Deleted(Due) /\ alarm' = TIMESLOT
      BY <1>2, Zenon DEF end_of_batch, Rearmed
    <2>2. Due \subseteq live
      BY DEF Due
    <2>3. /\ Pairing'
          /\ data' \in [FD -> 0 .. MaxData]
          /\ peer' \in [FD -> {"none", "talks", "silent", "closed"}]
          /\ ready' \subseteq ready /\ ready' \cap FD \subseteq open'
          /\ Edges(ready') = Edges(ready)
      BY <1>1, <2>1, <2>2, ClosedInPairs, Zenon
    <2>4. Amounts'
      BY <2>1, <2>3 DEF Amounts
    <2>5. Reported'
      BY <1>1, <2>3, Zenon DEF Reported
    <2> QED
      BY <1>0, <2>3, <2>4, <2>5, SMTT(30) DEF Inv
  <1>3. CASE ~ timeout
    <2>1. UNCHANGED <<open, peer, data, ready, live, left, owner, alarm>>
      BY <1>3, Zenon DEF end_of_batch
    <2>2. Amounts' /\ Pairing'
      BY <1>1, <2>1, Zenon DEF Amounts, Pairing
    <2>3. Reported'
      BY <1>1, <2>1, Zenon DEF Reported
    <2> QED
      BY <1>0, <2>2, <2>3 DEF Inv
  <1> QED
    BY <1>2, <1>3

(* Every step keeps the invariant. *)
LEMMA NextKeeps == Inv /\ [Next]_vars => Inv'
  <1> SUFFICES ASSUME Inv, [Next]_vars PROVE Inv'
    OBVIOUS
  <1>1. CASE UNCHANGED vars
    <2>1. UNCHANGED <<server, clock, network>>
      BY <1>1 DEF vars
    <2>2. Flags'
      BY <2>1 DEF Inv, Flags, server, network
    <2>3. Amounts' /\ Pairing' /\ Reported'
      BY <2>1, Zenon DEF Inv, Amounts, Pairing, Reported, Edges, server, clock, network
    <2> QED
      BY <2>2, <2>3 DEF Inv
  <1>2. CASE environment
    BY <1>2, EnvironmentKeeps, SMTT(30)
  <1>3. CASE loop
    BY <1>3, WaitKeeps, AcceptKeeps, SignalsKeep, ReadKeeps, BatchEndKeeps, SMTT(30) DEF loop
  <1> QED
    BY <1>1, <1>2, <1>3 DEF Next

(* Every open connection has a live timer that will close it, and every live   *)
(* timer an open connection, although users[fd].timer is never reset and both  *)
(* descriptors and timer objects are used again: for any number of them.       *)
THEOREM TimersPaired == Spec => []TimersMatchConnections
  <1>1. Spec => []Inv
    BY InitInv, NextKeeps, PTL DEF Spec
  <1> QED
    BY <1>1, InvMeans, PTL

(* No event of a batch is about a connection that was closed earlier in it,    *)
(* since tick() waits for its end; and accept always finds a connection.       *)
THEOREM EventsAreFresh == Spec => []NoStaleEvent
  <1>1. Spec => []Inv
    BY InitInv, NextKeeps, PTL DEF Spec
  <1> QED
    BY <1>1, InvMeans, PTL
-----------------------------------------------------------------------------
(* Turning the wheel by one slot wraps exactly at its last slot. *)
LEMMA NextSlot ==
    \A c \in W!Slot : (c + 1) % N = (IF c = N - 1 THEN 0 ELSE c + 1)
BY WheelAssumption DEF W!Slot

(* add_timer's division splits a number of ticks into turns and slots. *)
LEMMA TurnsAndSlots ==
    \A k \in Nat : /\ k \div N \in Nat
                   /\ k % N \in W!Slot
                   /\ k = (k \div N) * N + (k % N)
BY WheelAssumption DEF W!Slot

(* A position past the end of the wheel is reduced by one turn. *)
LEMMA Wrap ==
    \A c \in W!Slot, d \in W!Slot :
        (c + d) % N = (IF c + d < N THEN c + d ELSE c + d - N)
BY WheelAssumption DEF W!Slot

(* A timeout stands for one slot or more. *)
LEMMA TicksPositive ==
    \A x \in Int : x >= 0 => W!Ticks(x) \in Nat \ {0}
BY WheelAssumption DEF W!Ticks

(* A full turn more or less. *)
LEMMA Turn ==
    \A r \in Nat : /\ r * N \in Nat
                   /\ r >= 1 => (r - 1) * N = r * N - N /\ r * N >= N
BY WheelAssumption

-----------------------------------------------------------------------------
(* Every timer of the wheel is in one of its slots and has no negative
   number of turns to wait, whatever sequence of calls is made. *)
LEMMA WheelTyped == W!Spec => []W!TypeOK
<1>1. W!Init => W!TypeOK
  BY WheelAssumption DEF W!Init, W!TypeOK, W!Slot
<1>2. W!TypeOK /\ [W!Next]_W!vars => W!TypeOK'
  <2> SUFFICES ASSUME W!TypeOK, [W!Next]_W!vars PROVE W!TypeOK'
    OBVIOUS
  <2> USE DEF W!TypeOK
  <2>1. ASSUME NEW t \in WheelTimer, NEW delay \in Timeouts, W!add_timer(t, delay)
        PROVE  W!TypeOK'
    <3>1. W!Ticks(delay) \in Nat
      BY <2>1, TicksPositive, WheelAssumption, Zenon DEF W!add_timer
    <3>2. /\ W!Ticks(delay) \div N \in Nat
          /\ W!SlotAfter(W!Ticks(delay)) \in W!Slot
      <4>1. W!Ticks(delay) \div N \in Nat /\ W!Ticks(delay) % N \in W!Slot
        BY <3>1, TurnsAndSlots, SMTT(30)
      <4>2. W!SlotAfter(W!Ticks(delay)) \in W!Slot
        BY <4>1, Wrap, WheelAssumption, SMTT(30) DEF W!SlotAfter, W!Slot
      <4>3. QED
        BY <4>1, <4>2, SMTT(30)
    <3>3. QED
      BY <2>1, <3>2, Zenon DEF W!add_timer
  <2>2. ASSUME NEW t \in WheelTimer, W!del_timer(t)
        PROVE  W!TypeOK'
    BY <2>2, Zenon DEF W!del_timer
  <2>3. CASE W!tick
    <3>1. cur_slot' \in W!Slot
      BY <2>3, NextSlot, WheelAssumption, SMTT(30) DEF W!tick, W!TurnWheel, W!Slot
    <3>2. \A t \in DOMAIN wheel' :
              wheel'[t] \in [rotation : Nat, time_slot : W!Slot]
      BY <2>3 DEF W!tick, W!Expires
    <3>3. QED
      BY <2>3, <3>1, <3>2, SMTT(30) DEF W!tick
  <2>4. CASE UNCHANGED W!vars
    BY <2>4 DEF W!vars
  <2>5. QED
    BY <2>1, <2>2, <2>3, <2>4, Zenon DEF W!Next
<1>3. QED
  BY <1>1, <1>2, PTL DEF W!Spec

(* A tick brings every timer that does not fire one tick closer to firing,
   and fires exactly the timers that had one tick left. *)
LEMMA TickCountsDown ==
    ASSUME W!TypeOK, W!tick
    PROVE  /\ fired' = {t \in DOMAIN W!Left : W!Left[t] <= 1}
           /\ W!Left' = [t \in DOMAIN W!Left \ fired' |-> W!Left[t] - 1]
<1>1. ASSUME NEW t \in DOMAIN wheel
      PROVE  /\ wheel[t].rotation \in Nat
             /\ wheel[t].time_slot \in W!Slot
             /\ cur_slot \in W!Slot
  BY <1>1 DEF W!TypeOK
<1>2. cur_slot' = IF cur_slot = N - 1 THEN 0 ELSE cur_slot + 1
  BY NextSlot DEF W!TypeOK, W!tick, W!TurnWheel
<1>3. ASSUME NEW t \in DOMAIN wheel
      PROVE  W!Expires(t) <=> W!Left[t] <= 1
  <2>1. /\ wheel[t].rotation * N \in Nat
        /\ wheel[t].rotation >= 1 => wheel[t].rotation * N >= N
        /\ wheel[t].rotation = 0 => wheel[t].rotation * N = 0
    BY <1>1, <1>3, Turn, WheelAssumption, SMTT(30)
  <2>2. W!Left[t] = wheel[t].rotation * N + W!Distance(wheel[t].time_slot)
    BY <1>3, SMTT(30) DEF W!Left
  <2>3. /\ W!Distance(wheel[t].time_slot) \in Nat \ {0}
        /\ W!Distance(wheel[t].time_slot) = 1 <=> wheel[t].time_slot = cur_slot
    BY <1>1, <1>3, WheelAssumption, SMTT(30) DEF W!Distance, W!Slot
  <2>4. CASE wheel[t].rotation = 0
    BY <2>1, <2>2, <2>3, <2>4, SMTT(30) DEF W!Expires
  <2>5. CASE wheel[t].rotation >= 1
    BY <2>1, <2>2, <2>3, <2>5, <1>1, <1>3, WheelAssumption, SMTT(30) DEF W!Expires
  <2>6. QED
    BY <1>1, <1>3, <2>4, <2>5, SMTT(30)
<1>4. ASSUME NEW t \in DOMAIN wheel, ~ W!Expires(t)
      PROVE  t \in DOMAIN wheel' /\ W!Left'[t] = W!Left[t] - 1
  <2>1. t \in DOMAIN wheel'
    BY <1>4, SMTT(30) DEF W!tick
  <2>2. CASE wheel[t].time_slot = cur_slot
    <3>1. wheel[t].rotation >= 1
      BY <1>1, <1>4, <2>2, SMTT(30) DEF W!Expires
    <3>2. /\ wheel'[t].rotation = wheel[t].rotation - 1
          /\ wheel'[t].time_slot = wheel[t].time_slot
      BY <1>4, <2>1, <2>2, SMTT(30) DEF W!tick, W!TypeOK
    <3>3. /\ wheel'[t].rotation * N = wheel[t].rotation * N - N
          /\ wheel[t].rotation * N \in Nat
      BY <1>1, <1>4, <3>1, <3>2, Turn, Zenon
    <3>4. QED
      BY <1>1, <1>2, <1>4, <2>1, <2>2, <3>2, <3>3, WheelAssumption, SMTT(30) DEF W!Left, W!Distance, W!Slot
  <2>3. CASE wheel[t].time_slot # cur_slot
    <3>1. wheel'[t] = wheel[t]
      BY <1>4, <2>1, <2>3 DEF W!tick
    <3>2. wheel[t].rotation * N \in Nat
      BY <1>1, <1>4, Turn, Zenon
    <3>3. QED
      BY <1>1, <1>2, <1>4, <2>1, <2>3, <3>1, <3>2, WheelAssumption, SMTT(30) DEF W!Left, W!Distance, W!Slot
  <2>4. QED
    BY <2>2, <2>3, Zenon
<1>5. fired' = {t \in DOMAIN W!Left : W!Left[t] <= 1}
  BY <1>3 DEF W!tick, W!Left
<1>6. DOMAIN W!Left' = DOMAIN W!Left \ fired'
  BY DEF W!tick, W!Left
<1>7. \A t \in DOMAIN W!Left \ fired' : W!Left'[t] = W!Left[t] - 1
  BY <1>4, Zenon DEF W!tick, W!Left
<1>8. QED
  BY <1>5, <1>6, <1>7, Zenon DEF W!Left

(* The slot and the number of turns add_timer computes for k slots put the
   timer k + 1 ticks away. *)
LEMMA AddSetsDelay ==
    ASSUME cur_slot \in W!Slot, NEW k \in Nat
    PROVE  (k \div N) * N + W!Distance(W!SlotAfter(k)) = k + 1
<1>1. k % N \in W!Slot /\ k = (k \div N) * N + (k % N) /\ k \div N \in Nat
  BY TurnsAndSlots
<1>2. W!SlotAfter(k) = IF cur_slot + (k % N) < N THEN cur_slot + (k % N)
                                               ELSE cur_slot + (k % N) - N
  BY <1>1, Wrap, Zenon DEF W!SlotAfter
<1>3. W!Distance(W!SlotAfter(k)) = (k % N) + 1
  BY <1>1, <1>2, WheelAssumption DEF W!Distance, W!Slot
<1>4. (k \div N) * N \in Nat
  BY <1>1, Turn
<1>5. QED
  BY <1>1, <1>3, <1>4, SMTT(30) DEF W!Slot

(* The wheel keeps the promise of a timer service: after add_timer(x) the
   callback runs at the (Ticks(x)+1)-th tick and at no other, unless del_timer
   removes the timer first. *)
THEOREM WheelImplementsService == W!Spec => WheelServes
<1>1. W!Init => W!Service!Init
  BY Zenon DEF W!Init, W!Service!Init, W!Left
<1>2. W!TypeOK /\ [W!Next]_W!vars => [W!Service!Next]_W!Service!vars
  <2> SUFFICES ASSUME W!TypeOK, [W!Next]_W!vars PROVE [W!Service!Next]_W!Service!vars
    OBVIOUS
  <2>1. ASSUME NEW t \in WheelTimer, NEW delay \in Timeouts, W!add_timer(t, delay)
        PROVE  W!Service!Next
    <3> DEFINE k == W!Ticks(delay)
    <3>1. delay \in Int /\ delay >= 0
      BY <2>1, WheelAssumption, Zenon DEF W!add_timer
    <3>2. k \in Nat
      BY <3>1, TicksPositive, Zenon
    <3>3. k + 1 \in W!Delays
      BY <2>1, <3>1, <3>2, WheelAssumption DEF W!Delays, W!Ticks
    <3> HIDE DEF k
    <3>4. W!Left'[t] = k + 1
      <4>1. /\ t \in DOMAIN wheel'
            /\ wheel'[t].rotation = k \div N
            /\ wheel'[t].time_slot = W!SlotAfter(k)
            /\ cur_slot' = cur_slot
        BY <2>1, Zenon DEF W!add_timer, k
      <4>2. W!Left'[t] = (k \div N) * N + W!Distance(W!SlotAfter(k))
        BY <4>1, Zenon DEF W!Left, W!Distance
      <4>3. QED
        BY <4>2, <3>2, AddSetsDelay, Zenon DEF W!TypeOK
    <3>5. /\ DOMAIN W!Left' = DOMAIN W!Left \cup {t}
          /\ \A u \in DOMAIN W!Left : u # t /\ W!Left'[u] = W!Left[u]
      BY <2>1, Zenon DEF W!add_timer, W!Left, W!Distance
    <3>6. W!Left' = [u \in DOMAIN W!Left \cup {t} |->
                      IF u = t THEN k + 1 ELSE W!Left[u]]
      BY <3>4, <3>5, Zenon DEF W!Left
    <3>7. W!Service!Add(t, k + 1)
      BY <2>1, <3>5, <3>6, Zenon DEF W!Service!Add, W!add_timer
    <3>8. QED
      BY <3>3, <3>7 DEF W!Service!Next
  <2>2. ASSUME NEW t \in WheelTimer, W!del_timer(t)
        PROVE  W!Service!Next
    <3>1. /\ DOMAIN W!Left' = DOMAIN W!Left \ {t}
          /\ \A u \in DOMAIN W!Left' : W!Left'[u] = W!Left[u]
      BY <2>2, Zenon DEF W!del_timer, W!Left, W!Distance
    <3>2. W!Left' = [u \in DOMAIN W!Left \ {t} |-> W!Left[u]]
      BY <3>1, Zenon DEF W!Left
    <3>3. W!Service!Del(t)
      BY <2>2, <3>2, Zenon DEF W!Service!Del, W!del_timer, W!Left
    <3>4. QED
      BY <3>3, Zenon DEF W!Service!Next
  <2>3. CASE W!tick
    <3>1. W!Service!Tick(1)
      BY <2>3, TickCountsDown, Zenon DEF W!Service!Tick
    <3>2. QED
      BY <3>1, Zenon DEF W!Service!Next
  <2>4. CASE UNCHANGED W!vars
    BY <2>4, Zenon DEF W!vars, W!Service!vars, W!Left, W!Distance
  <2>5. QED
    BY <2>1, <2>2, <2>3, <2>4 DEF W!Next
<1>3. QED
  BY <1>1, <1>2, WheelTyped, PTL DEF W!Spec, WheelServes, W!ImplementsService, W!Service!Spec
=============================================================================
