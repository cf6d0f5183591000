-------------------------- MODULE HttpServerProofs --------------------------
(* Who holds a connection of the HTTP server, and what m_user_count counts, for
   any number of threads and connections and any length of the queue. *)
EXTENDS HttpServer, FiniteSetTheorems, TLAPS

Label == {"loop", "accepted", "count++", "close", "clear", "count", "count--",
          "process", "modin", "modout"}

User == [sockfd : BOOLEAN, req : {"none", "part", "full"}, out : BOOLEAN]

TypeOK ==
    /\ open \subseteq Fd
    /\ epoll \in [Fd -> {"none", "in", "out", "off"}]
    /\ input \in [Fd -> {"none", "part", "full", "long"}]
    /\ users \in [Fd -> User]
    /\ m_workqueue \in Seq(Fd)
    /\ pc \in [Thread -> Label \X (Fd \cup {0})]
    /\ \A t \in Thread : At(t) # "loop" => Conn(t) \in Fd
    /\ \A w \in Worker : At(w) \notin {"accepted", "count++"}
    /\ m_user_count \in Int
    /\ reg \in [Thread -> Int]

Held(w, f) == At(w) # "loop" /\ Conn(w) = f
Queued(k, f) == k \in DOMAIN m_workqueue /\ m_workqueue[k] = f
On(t, l, f) == At(t) = l /\ Conn(t) = f

(* no worker has f, now or soon *)
Untouched(f) ==
    /\ \A w \in Worker : ~ Held(w, f)
    /\ \A k \in Nat : ~ Queued(k, f)

(* What every step preserves about a connection whose number has not been used
   again too early.  That it has one holder needs the queue and the threads
   together, and the event loop: it closes only what nobody holds. *)
ConnInv(f) ==
    /\ \A v, w \in Worker : Held(v, f) /\ Held(w, f) => v = w
    /\ \A j, k \in Nat : Queued(j, f) /\ Queued(k, f) => j = k
    /\ \A w \in Worker, k \in Nat : ~ (Held(w, f) /\ Queued(k, f))
    /\ Armed(f) => Untouched(f)
    /\ On(Main, "close", f) \/ On(Main, "clear", f) => Untouched(f)
    /\ \A k \in Nat : Queued(k, f) => f \in open
    /\ f \in open =>
        /\ users[f].sockfd
        /\ \/ Armed(f)
           \/ \E w \in Worker : Held(w, f)
           \/ \E k \in Nat : Queued(k, f)
           \/ On(Main, "close", f)
           \/ f \in refused
    /\ \A t \in Thread : On(t, "clear", f) => f \notin open
    /\ users[f].sockfd /\ f \notin open => \E t \in Thread : On(t, "clear", f)

HoldInv ==
    /\ TypeOK
    /\ \A f \in Fd : epoll[f] # "none" <=> f \in open
    /\ \A f \in Fd \ reused : ConnInv(f)

(* read(), write() and init() keep the fields of users[f] in range *)
LEMMA UserFacts ==
    ASSUME NEW u \in [Fd -> User], NEW f \in Fd, NEW r \in {"none", "part", "full"},
           NEW b \in BOOLEAN
    PROVE  /\ [u EXCEPT ![f].req = r] \in [Fd -> User]
           /\ [u EXCEPT ![f].sockfd = b] \in [Fd -> User]
           /\ [u EXCEPT ![f].out = b] \in [Fd -> User]
           /\ [u EXCEPT ![f].req = r, ![f].out = b] \in [Fd -> User]
           /\ [u EXCEPT ![f] = [Blank EXCEPT !.sockfd = b]] \in [Fd -> User]
  <1>1. u[f] \in User
    OBVIOUS
  <1>2. /\ [u[f] EXCEPT !.req = r] \in User
        /\ [u[f] EXCEPT !.sockfd = b] \in User
        /\ [u[f] EXCEPT !.out = b] \in User
        /\ [u[f] EXCEPT !.req = r, !.out = b] \in User
        /\ [Blank EXCEPT !.sockfd = b] \in User
    BY <1>1, Zenon DEF User, Blank
  <1> QED
    BY <1>2, Zenon

(* append() puts f behind the others *)
LEMMA AppendFacts ==
    ASSUME NEW S, NEW q \in Seq(S), NEW e \in S
    PROVE  /\ Append(q, e) \in Seq(S)
           /\ DOMAIN Append(q, e) = DOMAIN q \cup {Len(q) + 1}
           /\ Len(q) + 1 \notin DOMAIN q /\ Len(q) \in Nat
           /\ \A k \in DOMAIN q : k \in Nat /\ Append(q, e)[k] = q[k]
           /\ Append(q, e)[Len(q) + 1] = e
  OBVIOUS

(* run() takes the first *)
LEMMA TailFacts ==
    ASSUME NEW S, NEW q \in Seq(S), q # <<>>
    PROVE  /\ Tail(q) \in Seq(S)
           /\ 1 \in DOMAIN q /\ Head(q) = q[1] /\ Head(q) \in S
           /\ \A k \in Nat : k \in DOMAIN Tail(q) <=> k # 0 /\ k + 1 \in DOMAIN q
           /\ \A k \in DOMAIN Tail(q) : Tail(q)[k] = q[k + 1]
  OBVIOUS

(* a thread moves, the others stay *)
LEMMA Moves ==
    ASSUME TypeOK, NEW t \in Thread, NEW l \in Label, NEW f \in Fd \cup {0},
           pc' = [pc EXCEPT ![t] = <<l, f>>]
    PROVE  /\ pc' \in [Thread -> Label \X (Fd \cup {0})]
           /\ At(t)' = l /\ Conn(t)' = f
           /\ \A u \in Thread : u # t => At(u)' = At(u) /\ Conn(u)' = Conn(u)
  BY DEF TypeOK, At, Conn

(* The places a thread can be at, as main and the workers use them. *)
LEMMA Labels ==
    ASSUME TypeOK, NEW t \in Thread
    PROVE  At(t) \in Label /\ Conn(t) \in Fd \cup {0}
  BY DEF TypeOK, At, Conn

(* A step that is not about f keeps what is known of f. *)
LEMMA Frame ==
    ASSUME NEW f, ConnInv(f),
           epoll'[f] = epoll[f], users'[f].sockfd = users[f].sockfd,
           f \in open' <=> f \in open, f \in refused => f \in refused',
           \A w \in Worker : Held(w, f)' <=> Held(w, f),
           \A t \in Thread : On(t, "clear", f)' <=> On(t, "clear", f),
           On(Main, "close", f)' <=> On(Main, "close", f),
           \A k \in Nat : Queued(k, f)' <=> Queued(k, f)
    PROVE  ConnInv(f)'
  <1>1. Main \in Thread
    BY DEF Thread
  <1>2. Untouched(f)' <=> Untouched(f)
    BY DEF Untouched
  <1>3. Armed(f)' <=> Armed(f)
    BY DEF Armed
  <1> QED
    BY <1>1, <1>2, <1>3, Zenon DEF ConnInv

(* A step of t that is about another connection keeps what is known of f. *)
LEMMA OtherFrame ==
    ASSUME TypeOK, NEW t \in Thread, NEW l \in Label, NEW g \in Fd \cup {0},
           pc' = [pc EXCEPT ![t] = <<l, g>>],
           NEW f \in Fd, ConnInv(f), f # g, Conn(t) # f \/ At(t) = "loop",
           epoll'[f] = epoll[f], users'[f].sockfd = users[f].sockfd,
           f \in open' <=> f \in open, f \in refused => f \in refused',
           \A k \in Nat : Queued(k, f)' <=> Queued(k, f)
    PROVE  ConnInv(f)'
  <1>1. /\ At(t)' = l /\ Conn(t)' = g
        /\ \A u \in Thread : u # t => At(u)' = At(u) /\ Conn(u)' = Conn(u)
    BY Moves, Zenon
  <1>2. Main \in Thread /\ \A w \in Worker : w \in Thread
    BY DEF Thread
  <1>3. \A u \in Thread : Held(u, f)' <=> Held(u, f)
    BY <1>1 DEF Held
  <1>4. \A u \in Thread : /\ On(u, "clear", f)' <=> On(u, "clear", f)
                          /\ On(u, "close", f)' <=> On(u, "close", f)
    BY <1>1 DEF On
  <1> QED
    BY <1>2, <1>3, <1>4, Frame, SMTT(30)

(* Moving one thread on keeps the types. *)
LEMMA GotoType ==
    ASSUME TypeOK, NEW t \in Thread, NEW l \in Label, At(t) # "loop", Goto(t, l),
           t \in Worker => l \notin {"accepted", "count++"}
    PROVE  /\ pc' \in [Thread -> Label \X (Fd \cup {0})]
           /\ \A u \in Thread : At(u)' # "loop" => Conn(u)' \in Fd
           /\ \A w \in Worker : At(w)' \notin {"accepted", "count++"}
  <1> DEFINE g == IF l = "loop" THEN 0 ELSE Conn(t)
  <1>1. g \in Fd \cup {0} /\ (l # "loop" => g \in Fd) /\ pc' = [pc EXCEPT ![t] = <<l, g>>]
    BY DEF TypeOK, Goto
  <1> HIDE DEF g
  <1>2. \A w \in Worker : w \in Thread
    BY DEF Thread
  <1>3. /\ pc' \in [Thread -> Label \X (Fd \cup {0})]
        /\ At(t)' = l /\ Conn(t)' = g
        /\ \A u \in Thread : u # t => At(u)' = At(u) /\ Conn(u)' = Conn(u)
    BY <1>1, Moves, Zenon
  <1> QED
    BY <1>1, <1>2, <1>3, SMTT(30) DEF TypeOK

(* So does taking a connection out of the queue. *)
LEMMA TakeType ==
    ASSUME TypeOK, NEW t \in Thread, NEW l \in Label, NEW f \in Fd, Take(t, l, f),
           t \in Worker => l \notin {"accepted", "count++"}
    PROVE  /\ pc' \in [Thread -> Label \X (Fd \cup {0})]
           /\ \A u \in Thread : At(u)' # "loop" => Conn(u)' \in Fd
           /\ \A w \in Worker : At(w)' \notin {"accepted", "count++"}
  <1>1. f \in Fd \cup {0} /\ pc' = [pc EXCEPT ![t] = <<l, f>>]
    BY DEF Take
  <1>2. \A w \in Worker : w \in Thread
    BY DEF Thread
  <1>3. /\ pc' \in [Thread -> Label \X (Fd \cup {0})]
        /\ At(t)' = l /\ Conn(t)' = f
        /\ \A u \in Thread : u # t => At(u)' = At(u) /\ Conn(u)' = Conn(u)
    BY <1>1, Moves, Zenon
  <1> QED
    BY <1>2, <1>3, SMTT(30) DEF TypeOK

(* So does a step that changes nothing typed. *)
LEMMA SameType ==
    ASSUME TypeOK, UNCHANGED pc
    PROVE  /\ pc' \in [Thread -> Label \X (Fd \cup {0})]
           /\ \A u \in Thread : At(u)' # "loop" => Conn(u)' \in Fd
           /\ \A w \in Worker : At(w)' \notin {"accepted", "count++"}
  BY DEF TypeOK, At, Conn

(* The steps of close_conn keep the types. *)
LEMMA CloseType ==
    ASSUME TypeOK, NEW t \in Thread, close_conn(t)
    PROVE  TypeOK'
  <1>1. /\ After(t) \in Label /\ After(t) \notin {"accepted", "count++"}
        /\ {"clear", "count", "count--", "count++", "loop"} \subseteq Label
    BY DEF After, Label
  <1>2. CASE close_fd(t)
    <2>1. At(t) = "close" /\ Conn(t) \in Fd
      BY <1>2, Zenon DEF close_fd, TypeOK
    <2>2. \E l \in Label : Goto(t, l) /\ l \notin {"accepted", "count++"}
      BY <1>1, <1>2 DEF close_fd
    <2> QED
      BY <1>2, <2>1, <2>2, GotoType, Zenon DEF close_fd, TypeOK, kernel
  <1>3. CASE close_clear(t)
    <2>1. At(t) = "clear" /\ Conn(t) \in Fd /\ Goto(t, "count")
      BY <1>3 DEF close_clear, TypeOK
    <2>2. users' \in [Fd -> User]
      BY <1>3, <2>1, UserFacts, Zenon DEF close_clear, TypeOK
    <2> QED
      BY <1>1, <1>3, <2>1, <2>2, GotoType, Zenon DEF close_clear, TypeOK, kernel
  <1>4. CASE count_read(t)
    <2>1. PICK l \in Label : /\ Goto(t, l) /\ At(t) # "loop"
                             /\ t \in Worker => l \notin {"accepted", "count++"}
      BY <1>1, <1>4, SMTT(30) DEF count_read, TypeOK
    <2> QED
      BY <1>4, <2>1, GotoType, Zenon DEF count_read, TypeOK, kernel
  <1>5. CASE count_write(t)
    <2>1. PICK l \in Label : /\ Goto(t, l) /\ At(t) # "loop"
                             /\ t \in Worker => l \notin {"accepted", "count++"}
      BY <1>1, <1>5, SMTT(30) DEF count_write, TypeOK
    <2>2. m_user_count' \in Int /\ reg' \in [Thread -> Int]
      BY <1>5, SMTT(30) DEF count_write, TypeOK, Step
    <2> QED
      BY <1>5, <2>1, <2>2, GotoType, Zenon DEF count_write, TypeOK, kernel
  <1> QED
    BY <1>2, <1>3, <1>4, <1>5 DEF close_conn

(* The steps of main's event loop keep the types. *)
LEMMA EventType ==
    ASSUME TypeOK, NEW f \in Fd, event(f)
    PROVE  TypeOK'
  <1>1. Main \in Thread /\ Main \notin Worker /\ "close" \in Label
    BY ThreadAssumption DEF Thread, Label
  <1>2. \A ev \in {"in", "out"} : modfd(f, ev) \in [Fd -> {"none", "in", "out", "off"}]
    BY DEF modfd, TypeOK
  <1>3. Fired(f) \in [Fd -> {"none", "in", "out", "off"}]
    BY DEF Fired, TypeOK
  <1>4. /\ UNCHANGED <<open, m_user_count, reg>>
        /\ epoll' \in [Fd -> {"none", "in", "out", "off"}]
        /\ Take(Main, "close", f) \/ UNCHANGED pc
    BY <1>2, <1>3, Zenon DEF event, on_hup, on_in, on_out, Event, write_nothing, write_again,
                      write_fails, write_done
  <1>5. /\ pc' \in [Thread -> Label \X (Fd \cup {0})]
        /\ \A u \in Thread : At(u)' # "loop" => Conn(u)' \in Fd
        /\ \A w \in Worker : At(w)' \notin {"accepted", "count++"}
    BY <1>1, <1>4, TakeType, SameType, SMTT(30)
  <1>6. /\ input' \in [Fd -> {"none", "part", "full", "long"}]
        /\ m_workqueue' \in Seq(Fd)
        /\ users' \in [Fd -> User]
    <2>1. CASE on_in(f)
      <3>1. CASE users[f].sockfd /\ input[f] # "long"
        <4> DEFINE r == IF users[f].req = "full" THEN users[f].req ELSE input[f]
        <4>1. r \in {"none", "part", "full"}
          BY <3>1 DEF TypeOK
        <4>2. users' = [users EXCEPT ![f].req = r]
          BY <2>1, <3>1 DEF on_in
        <4> HIDE DEF r
        <4>3. users' \in [Fd -> User]
          BY <4>1, <4>2, UserFacts, Zenon DEF TypeOK
        <4>4. m_workqueue' = m_workqueue \/ m_workqueue' = Append(m_workqueue, f)
          BY <2>1, <3>1 DEF on_in
        <4>5. m_workqueue' \in Seq(Fd)
          <5>1. m_workqueue \in Seq(Fd)
            BY DEF TypeOK
          <5>2. Append(m_workqueue, f) \in Seq(Fd)
            BY <5>1, AppendFacts
          <5> QED
            BY <4>4, <5>1, <5>2
        <4>6. input' = [input EXCEPT ![f] = "none"]
          BY <2>1, <3>1 DEF on_in
        <4> QED
          BY <4>3, <4>5, <4>6, SMTT(30) DEF TypeOK
      <3>2. CASE ~ (users[f].sockfd /\ input[f] # "long")
        <4>1. UNCHANGED <<input, users, m_workqueue>>
          BY <2>1, <3>2, SMTT(30) DEF on_in
        <4> QED
          BY <4>1 DEF TypeOK
      <3> QED
        BY <3>1, <3>2
    <2>2. CASE on_hup(f)
      BY <2>2 DEF on_hup, TypeOK
    <2>3. CASE on_out(f)
      <3>1. UNCHANGED <<input, m_workqueue>>
        BY <2>3 DEF on_out
      <3>2. \/ UNCHANGED users
            \/ users' = [users EXCEPT ![f].req = "none"]
            \/ users' = [users EXCEPT ![f].req = "none", ![f].out = FALSE]
        BY <2>3 DEF on_out, write_nothing, write_again, write_fails, write_done
      <3>3. users' \in [Fd -> User]
        <4>1. users \in [Fd -> User]
          BY DEF TypeOK
        <4>2. /\ [users EXCEPT ![f].req = "none"] \in [Fd -> User]
              /\ [users EXCEPT ![f].req = "none", ![f].out = FALSE] \in [Fd -> User]
          BY <4>1, UserFacts, Zenon
        <4> QED
          BY <3>2, <4>1, <4>2
      <3> QED
        BY <3>1, <3>3 DEF TypeOK
    <2> QED
      BY <2>1, <2>2, <2>3, SMTT(30) DEF event
  <1> QED
    BY <1>4, <1>5, <1>6, SMTT(30) DEF TypeOK

(* The clients keep the types. *)
LEMMA OtherType ==
    ASSUME TypeOK, NEW f \in Fd, accept(f) \/ client_sends(f) \/ client_closes(f)
    PROVE  TypeOK'
  <1>1. Main \in Thread /\ Main \notin Worker /\ "accepted" \in Label
    BY ThreadAssumption DEF Thread, Label
  <1>2. CASE accept(f)
    <2>1. CASE m_user_count >= MAX_FD
      BY <1>2, <2>1, SameType, SMTT(30) DEF accept, TypeOK
    <2>2. CASE ~ (m_user_count >= MAX_FD)
      <3>1. Take(Main, "accepted", f)
        BY <1>2, <2>2 DEF accept
      <3>2. /\ pc' \in [Thread -> Label \X (Fd \cup {0})]
            /\ \A u \in Thread : At(u)' # "loop" => Conn(u)' \in Fd
            /\ \A w \in Worker : At(w)' \notin {"accepted", "count++"}
        BY <1>1, <3>1, TakeType
      <3>3. users' \in [Fd -> User]
        <4>1. users \in [Fd -> User]
          BY DEF TypeOK
        <4>2. [users EXCEPT ![f] = [Blank EXCEPT !.sockfd = TRUE]] \in [Fd -> User]
          BY <4>1, UserFacts, Zenon
        <4> QED
          BY <1>2, <2>2, <4>2, Zenon DEF accept
      <3> QED
        BY <1>2, <2>2, <3>2, <3>3, SMTT(30) DEF accept, TypeOK
    <2> QED
      BY <2>1, <2>2, SMTT(30)
  <1>3. CASE client_sends(f)
    BY <1>3, SameType DEF client_sends, TypeOK, history
  <1>4. CASE client_closes(f)
    BY <1>4, SameType, Zenon DEF client_closes, TypeOK, history
  <1> QED
    BY <1>2, <1>3, <1>4, SMTT(30)

(* The steps of a worker keep the types. *)
LEMMA WorkerType ==
    ASSUME TypeOK, NEW w \in Worker, worker(w)
    PROVE  TypeOK'
  <1>1. w \in Thread /\ {"loop", "process", "modin", "modout", "close"} \subseteq Label
    BY DEF Thread, Label
  <1>2. CASE run(w)
    <2>1. m_workqueue \in Seq(Fd) /\ m_workqueue # <<>>
      BY <1>2 DEF TypeOK, run
    <2>2. Tail(m_workqueue) \in Seq(Fd) /\ Head(m_workqueue) \in Fd
      BY <2>1, TailFacts
    <2>3. Take(w, "process", Head(m_workqueue)) /\ m_workqueue' = Tail(m_workqueue)
      BY <1>2 DEF run
    <2>4. /\ pc' \in [Thread -> Label \X (Fd \cup {0})]
          /\ \A u \in Thread : At(u)' # "loop" => Conn(u)' \in Fd
          /\ \A v \in Worker : At(v)' \notin {"accepted", "count++"}
      BY <1>1, <2>2, <2>3, TakeType, Zenon
    <2> QED
      BY <1>2, <2>2, <2>3, <2>4, Zenon DEF run, TypeOK, kernel
  <1>3. CASE process(w)
    <2>1. At(w) = "process" /\ Conn(w) \in Fd
      BY <1>1, <1>3, SMTT(30) DEF process, TypeOK
    <2>2. PICK l \in {"modin", "modout", "close"} : Goto(w, l)
      BY <1>3, SMTT(30) DEF process
    <2>3. /\ pc' \in [Thread -> Label \X (Fd \cup {0})]
          /\ \A u \in Thread : At(u)' # "loop" => Conn(u)' \in Fd
          /\ \A v \in Worker : At(v)' \notin {"accepted", "count++"}
      BY <1>1, <2>1, <2>2, GotoType
    <2>4. users' \in [Fd -> User]
      <3>1. users \in [Fd -> User]
        BY DEF TypeOK
      <3>2. [users EXCEPT ![Conn(w)].out = TRUE] \in [Fd -> User]
        BY <2>1, <3>1, UserFacts, Zenon
      <3> QED
        BY <1>3, <3>1, <3>2, Zenon DEF process
    <2> QED
      BY <1>3, <2>3, <2>4, SMTT(30) DEF process, TypeOK, kernel
  <1>4. CASE rearm(w)
    <2>1. At(w) # "loop" /\ Conn(w) \in Fd /\ Goto(w, "loop")
      BY <1>1, <1>4, Zenon DEF rearm, TypeOK
    <2>2. epoll' \in [Fd -> {"none", "in", "out", "off"}]
      BY <1>4, <2>1 DEF rearm, modfd, TypeOK
    <2>3. /\ pc' \in [Thread -> Label \X (Fd \cup {0})]
          /\ \A u \in Thread : At(u)' # "loop" => Conn(u)' \in Fd
          /\ \A v \in Worker : At(v)' \notin {"accepted", "count++"}
      BY <1>1, <2>1, GotoType, Zenon
    <2> QED
      BY <1>4, <2>2, <2>3, Zenon DEF rearm, TypeOK, kernel
  <1> QED
    BY <1>2, <1>3, <1>4 DEF worker
-----------------------------------------------------------------------------
(* An action of t about its own connection leaves the others alone. *)
LEMMA GotoFrame ==
    ASSUME HoldInv, NEW t \in Thread, NEW l \in Label, At(t) # "loop", Goto(t, l),
           NEW f \in Fd \ reused, f # Conn(t),
           epoll'[f] = epoll[f], users'[f].sockfd = users[f].sockfd,
           f \in open' <=> f \in open, UNCHANGED <<refused, m_workqueue>>
    PROVE  ConnInv(f)'
  <1> DEFINE g == IF l = "loop" THEN 0 ELSE Conn(t)
  <1>1. TypeOK /\ ConnInv(f)
    BY DEF HoldInv
  <1>2. g \in Fd \cup {0} /\ pc' = [pc EXCEPT ![t] = <<l, g>>]
    BY <1>1, Labels DEF Goto
  <1>3. f # g
    BY FdAssumption
  <1>4. \A k \in Nat : Queued(k, f)' <=> Queued(k, f)
    BY DEF Queued
  <1> HIDE DEF g
  <1> QED
    BY <1>1, <1>2, <1>3, <1>4, OtherFrame, Zenon

(* Where threads other than t are does not change. *)
LEMMA OthersStay ==
    ASSUME TypeOK, NEW t \in Thread, NEW l \in Label, At(t) # "loop", Goto(t, l)
    PROVE  /\ At(t)' = l /\ (l # "loop" => Conn(t)' = Conn(t)) /\ (l = "loop" => Conn(t)' = 0)
           /\ \A u \in Thread : u # t => At(u)' = At(u) /\ Conn(u)' = Conn(u)
  <1> DEFINE g == IF l = "loop" THEN 0 ELSE Conn(t)
  <1>1. g \in Fd \cup {0} /\ pc' = [pc EXCEPT ![t] = <<l, g>>]
    BY Labels DEF Goto
  <1>2. (l # "loop" => g = Conn(t)) /\ (l = "loop" => g = 0)
    OBVIOUS
  <1> HIDE DEF g
  <1> QED
    BY <1>1, <1>2, Moves, Zenon

(* The invariant holds after a step about connection g. *)
LEMMA StepHolds ==
    ASSUME HoldInv, TypeOK', NEW g \in Fd, reused \subseteq reused',
           \A f \in Fd : f # g => epoll'[f] = epoll[f] /\ (f \in open' <=> f \in open),
           epoll'[g] # "none" <=> g \in open',
           \A f \in Fd \ reused : f # g => ConnInv(f)',
           g \notin reused' => ConnInv(g)'
    PROVE  HoldInv'
  <1>1. \A f \in Fd : epoll'[f] # "none" <=> f \in open'
    BY DEF HoldInv
  <1>2. \A f \in Fd \ reused' : ConnInv(f)'
    OBVIOUS
  <1> QED
    BY <1>1, <1>2, SMTT(30) DEF HoldInv

(* close_conn() closes the socket: t is the only one that has it. *)
LEMMA CloseHolds ==
    ASSUME HoldInv, NEW t \in Thread, close_fd(t)
    PROVE  HoldInv'
  <1>1. PICK g \in Fd : g = Conn(t) /\ At(t) = "close"
    BY Zenon DEF HoldInv, TypeOK, close_fd
  <1>2. TypeOK /\ TypeOK'
    BY CloseType, SMTT(30) DEF HoldInv, close_conn
  <1>3. /\ UNCHANGED <<users, m_workqueue, refused, reused>>
        /\ \A f \in Fd : f # g => epoll'[f] = epoll[f] /\ (f \in open' <=> f \in open)
    BY <1>1, <1>2, SMTT(30) DEF close_fd, TypeOK, kernel, history
  <1>4. PICK l \in Label : Goto(t, l) /\ l = IF users[g].sockfd THEN "clear" ELSE After(t)
    BY <1>1, SMTT(30) DEF close_fd, After, Label
  <1>5. /\ users[g].sockfd => epoll'[g] = "none" /\ g \notin open'
        /\ ~ users[g].sockfd => epoll'[g] = epoll[g] /\ (g \in open' <=> g \in open)
    BY <1>1, <1>2 DEF close_fd, TypeOK, kernel
  <1>6. epoll'[g] # "none" <=> g \in open'
    BY <1>5 DEF HoldInv
  <1>7. \A f \in Fd \ reused : f # g => ConnInv(f)'
    BY <1>1, <1>2, <1>3, <1>4, GotoFrame, Zenon
  <1>8. ASSUME g \notin reused PROVE ConnInv(g)'
    <2>1. ConnInv(g) /\ Main \in Thread /\ Main \notin Worker /\ \A w \in Worker : w \in Thread
      BY <1>8, ThreadAssumption DEF HoldInv, Thread
    <2>2. /\ At(t)' = l /\ (l # "loop" => Conn(t)' = g) /\ (l = "loop" => t = Main)
          /\ \A u \in Thread : u # t => At(u)' = At(u) /\ Conn(u)' = Conn(u)
      BY <1>1, <1>2, <1>4, OthersStay, Zenon DEF After
    <2>3. \A w \in Worker : Held(w, g)' <=> Held(w, g)
      BY <1>1, <2>1, <2>2, SMTT(30) DEF Held
    <2>4. \A k \in Nat : (Queued(k, g)' <=> Queued(k, g)) /\ ~ Queued(k, g)
      <3>1. \A k \in Nat : Queued(k, g)' <=> Queued(k, g)
        BY <1>3 DEF Queued
      <3>2. t = Main \/ (Held(t, g) /\ t \in Worker)
        BY <1>1 DEF Held, Thread
      <3>3. t = Main => Untouched(g)
        BY <1>1, <2>1, Zenon DEF ConnInv, On
      <3>4. \A w \in Worker, k \in Nat : ~ (Held(w, g) /\ Queued(k, g))
        BY <2>1, Zenon DEF ConnInv
      <3> QED
        BY <3>1, <3>2, <3>3, <3>4, SMTT(30) DEF Untouched
    <2>5. Untouched(g)' <=> Untouched(g)
      BY <2>3, <2>4 DEF Untouched
    <2>6. g \notin open'
      BY <1>5, <2>1, Zenon DEF ConnInv
    <2>7. Armed(g)' => Untouched(g)'
      BY <1>5, <2>1, <2>5, Zenon DEF ConnInv, Armed
    <2>8. On(Main, "close", g)' \/ On(Main, "clear", g)' => Untouched(g)'
      <3>1. CASE t = Main
        BY <1>1, <2>1, <2>5, <3>1, Zenon DEF ConnInv, On
      <3>2. CASE t # Main
        BY <2>1, <2>2, <2>5, <3>2, Zenon DEF ConnInv, On
      <3> QED
        BY <3>1, <3>2
    <2>9. users'[g].sockfd => \E u \in Thread : On(u, "clear", g)'
      BY <1>3, <1>4, <2>2, Zenon DEF On
    <2> QED
      BY <2>1, <2>3, <2>4, <2>6, <2>7, <2>8, <2>9, Zenon DEF ConnInv
  <1> QED
    BY <1>2, <1>3, <1>6, <1>7, <1>8, StepHolds, Zenon

(* The rest of close_conn(), and init(): m_sockfd and the counter. *)
LEMMA CountHolds ==
    ASSUME HoldInv, NEW t \in Thread, close_clear(t) \/ count_read(t) \/ count_write(t)
    PROVE  HoldInv'
  <1>1. PICK g \in Fd : g = Conn(t)
    BY DEF HoldInv, TypeOK, close_clear, count_read, count_write
  <1>2. TypeOK /\ TypeOK'
    BY CloseType DEF HoldInv, close_conn
  <1>3. UNCHANGED <<open, epoll, m_workqueue, refused, reused>>
    BY DEF close_clear, count_read, count_write, kernel, history
  <1>4. PICK l \in Label : /\ Goto(t, l)
                           /\ At(t) \in {"clear", "count", "count--", "accepted", "count++"}
                           /\ l \in {"count", "count--", "count++", "loop", "modout"}
                           /\ l = "loop" => t \notin Worker
    <2>1. After(t) \in {"loop", "modout"} /\ (After(t) = "loop" => t = Main)
      BY DEF After
    <2> QED
      BY <1>2, <2>1, ThreadAssumption, SMTT(30) DEF close_clear, count_read, count_write, TypeOK, Label
  <1>5. /\ \A f \in Fd : f # g => users'[f] = users[f]
        /\ \/ users' = users /\ At(t) # "clear"
           \/ ~ users'[g].sockfd /\ At(t) = "clear"
    BY <1>1, <1>2 DEF close_clear, count_read, count_write, TypeOK, User
  <1>6. \A f \in Fd \ reused : f # g => ConnInv(f)'
    BY <1>1, <1>2, <1>3, <1>4, <1>5, GotoFrame, Zenon
  <1>7. ASSUME g \notin reused PROVE ConnInv(g)'
    <2>1. ConnInv(g) /\ Main \in Thread /\ Main \notin Worker /\ \A w \in Worker : w \in Thread
      BY <1>7, ThreadAssumption, Zenon DEF HoldInv, Thread
    <2>2. /\ At(t)' = l /\ (l # "loop" => Conn(t)' = g) /\ (l = "loop" => t = Main)
          /\ \A u \in Thread : u # t => At(u)' = At(u) /\ Conn(u)' = Conn(u)
      BY <1>1, <1>2, <1>4, OthersStay, Zenon DEF Thread
    <2>3. \A w \in Worker : Held(w, g)' <=> Held(w, g)
      BY <1>1, <1>4, <2>1, <2>2, SMTT(30) DEF Held
    <2>4. \A k \in Nat : Queued(k, g)' <=> Queued(k, g)
      BY <1>3 DEF Queued
    <2>5. (Untouched(g)' <=> Untouched(g)) /\ (Armed(g)' <=> Armed(g))
      BY <1>3, <2>3, <2>4 DEF Untouched, Armed
    <2>6. \A u \in Thread : On(u, "clear", g)' => On(u, "clear", g)
      BY <1>4, <2>2, Zenon DEF On
    <2>7. On(Main, "close", g)' <=> On(Main, "close", g)
      BY <1>4, <2>1, <2>2 DEF On
    <2>8. g \in open' => users'[g].sockfd
      <3>1. At(t) = "clear" => g \notin open
        BY <1>1, <2>1, Zenon DEF ConnInv, On
      <3> QED
        BY <1>3, <1>5, <2>1, <3>1, Zenon DEF ConnInv
    <2>9. users'[g].sockfd /\ g \notin open' => \E u \in Thread : On(u, "clear", g)'
      <3>1. SUFFICES ASSUME users'[g].sockfd, g \notin open'
                     PROVE  \E u \in Thread : On(u, "clear", g)'
        OBVIOUS
      <3>2. users' = users /\ At(t) # "clear"
        BY <1>5, <3>1
      <3>3. PICK u \in Thread : On(u, "clear", g)
        BY <1>3, <2>1, <3>1, <3>2, Zenon DEF ConnInv
      <3>4. On(u, "clear", g)'
        BY <2>2, <3>2, <3>3, Zenon DEF On
      <3> QED
        BY <3>4
    <2>10. \A u \in Thread : On(u, "clear", g)' => g \notin open'
      BY <1>3, <2>1, <2>6, Zenon DEF ConnInv
    <2>11. On(Main, "close", g)' \/ On(Main, "clear", g)' => Untouched(g)'
      BY <2>1, <2>5, <2>6, <2>7, Zenon DEF ConnInv
    <2>12. g \in open' => \/ Armed(g)'
                          \/ \E w \in Worker : Held(w, g)'
                          \/ \E k \in Nat : Queued(k, g)'
                          \/ On(Main, "close", g)'
                          \/ g \in refused'
      BY <1>3, <2>1, <2>3, <2>4, <2>5, <2>7, Zenon DEF ConnInv
    <2>13. /\ \A v, w \in Worker : Held(v, g)' /\ Held(w, g)' => v = w
           /\ \A j, k \in Nat : Queued(j, g)' /\ Queued(k, g)' => j = k
           /\ \A w \in Worker, k \in Nat : ~ (Held(w, g)' /\ Queued(k, g)')
           /\ Armed(g)' => Untouched(g)'
           /\ \A k \in Nat : Queued(k, g)' => g \in open'
      BY <1>3, <2>1, <2>3, <2>4, <2>5, Zenon DEF ConnInv
    <2> QED
      BY <2>8, <2>9, <2>10, <2>11, <2>12, <2>13, Zenon DEF ConnInv
  <1> QED
    BY <1>2, <1>3, <1>6, <1>7, StepHolds, Zenon DEF HoldInv

(* The event loop takes the event of a connection that nobody holds; it closes it,
   gives it to the queue, is refused, or arms it again. *)
LEMMA EventHolds ==
    ASSUME HoldInv, NEW g \in Fd, event(g)
    PROVE  HoldInv'
  <1>1. TypeOK /\ TypeOK'
    BY EventType DEF HoldInv
  <1>2. At(Main) = "loop" /\ Armed(g) /\ epoll[g] # "none" /\ UNCHANGED <<open, reused>>
    BY Zenon DEF event, on_hup, on_in, on_out, Event, Armed
  <1>3. \A ev \in {"in", "out"} :
            /\ \A f \in Fd : f # g => modfd(g, ev)[f] = epoll[f]
            /\ modfd(g, ev)[g] # "none"
            /\ users[g].sockfd => modfd(g, ev)[g] = ev
    BY <1>1, <1>2 DEF modfd, TypeOK
  <1>4. (\A f \in Fd : f # g => Fired(g)[f] = epoll[f]) /\ Fired(g)[g] = "off"
    BY <1>1, Zenon DEF Fired, TypeOK
  <1>5. \A f \in Fd : users'[f].sockfd = users[f].sockfd
    <2>1. \/ UNCHANGED users
          \/ \E r \in {"none", "part", "full"} : users' = [users EXCEPT ![g].req = r]
          \/ users' = [users EXCEPT ![g].req = "none", ![g].out = FALSE]
      <3>1. CASE on_in(g) /\ users[g].sockfd /\ input[g] # "long"
        <4>1. users' = [users EXCEPT ![g].req = IF users[g].req = "full" THEN users[g].req ELSE input[g]]
          BY <3>1 DEF on_in
        <4>2. users[g].req \in {"none", "part", "full"} /\ input[g] \in {"none", "part", "full"}
          BY <1>1, <3>1 DEF TypeOK, User
        <4> QED
          BY <4>1, <4>2, Zenon
      <3> QED
        BY <3>1, Zenon DEF event, on_hup, on_in, on_out, write_nothing, write_again, write_fails, write_done
    <2>2. \A f \in Fd : users[f] \in User
      BY <1>1, Zenon DEF TypeOK
    <2> QED
      BY <1>1, <2>1, <2>2 DEF TypeOK, User
  <1>6. \/ Take(Main, "close", g) /\ UNCHANGED <<m_workqueue, refused>>
        \/ /\ UNCHANGED <<pc, refused>> /\ m_workqueue' = Append(m_workqueue, g)
           /\ epoll' = Fired(g)
        \/ /\ UNCHANGED <<pc, m_workqueue>> /\ refused' = refused \cup {g}
           /\ epoll' = Fired(g)
        \/ /\ UNCHANGED <<pc, m_workqueue, refused>> /\ users[g].sockfd
           /\ epoll' = modfd(g, "in") \/ epoll' = modfd(g, "out")
    BY Zenon DEF event, on_hup, on_in, on_out, write_nothing, write_again, write_fails, write_done
  <1>7. epoll' = modfd(g, "in") \/ epoll' = modfd(g, "out") \/ epoll' = Fired(g)
    BY Zenon DEF event, on_hup, on_in, on_out, write_nothing, write_again, write_fails, write_done
  <1>8. /\ \A f \in Fd : f # g => epoll'[f] = epoll[f] /\ (f \in open' <=> f \in open)
        /\ epoll'[g] # "none" <=> g \in open'
    BY <1>2, <1>3, <1>4, <1>7, Zenon DEF HoldInv
  <1>9. Main \in Thread /\ Main \notin Worker /\ "close" \in Label /\ \A w \in Worker : w \in Thread
    BY ThreadAssumption DEF Thread, Label
  <1>10. m_workqueue \in Seq(Fd)
    BY <1>1, Zenon DEF TypeOK
  <1>11. \A f \in Fd : f # g => \A k \in Nat : Queued(k, f)' <=> Queued(k, f)
    <2>1. CASE UNCHANGED m_workqueue
      BY <2>1 DEF Queued
    <2>2. CASE m_workqueue' = Append(m_workqueue, g)
      BY <1>10, <2>2, AppendFacts DEF Queued
    <2> QED
      BY <1>6, <2>1, <2>2, Zenon
  <1>12. ASSUME NEW f \in Fd \ reused, f # g PROVE ConnInv(f)'
    <2>1. ConnInv(f) /\ (f \in refused => f \in refused')
      BY <1>6, Zenon DEF HoldInv
    <2>2. CASE Take(Main, "close", g)
      BY <1>1, <1>2, <1>5, <1>8, <1>9, <1>11, <1>12, <2>1, <2>2, OtherFrame, ZenonT(60) DEF Take
    <2>3. CASE UNCHANGED pc
      <3>1. /\ \A w \in Worker : Held(w, f)' <=> Held(w, f)
            /\ \A t \in Thread : On(t, "clear", f)' <=> On(t, "clear", f)
            /\ On(Main, "close", f)' <=> On(Main, "close", f)
        BY <2>3, Zenon DEF Held, On, At, Conn
      <3> QED
        BY <1>5, <1>8, <1>11, <1>12, <2>1, <3>1, Frame, Zenon
    <2> QED
      BY <1>6, <2>2, <2>3, Zenon
  <1>13. ASSUME g \notin reused PROVE ConnInv(g)'
    <2>1. ConnInv(g) /\ Untouched(g) /\ g \in open /\ users[g].sockfd
      BY <1>2, <1>13, Zenon DEF HoldInv, ConnInv
    <2>2. g \in open' /\ users'[g].sockfd
      BY <1>2, <1>5, <2>1, Zenon
    <2>3. \A w \in Worker : ~ Held(w, g)'
      <3>1. CASE Take(Main, "close", g)
        <4>1. \A u \in Thread : u # Main => At(u)' = At(u) /\ Conn(u)' = Conn(u)
          BY <1>1, <1>9, <3>1, Moves, Zenon DEF Take
        <4> QED
          BY <1>9, <2>1, <4>1, Zenon DEF Untouched, Held
      <3>2. CASE UNCHANGED pc
        BY <2>1, <3>2, Zenon DEF Untouched, Held, At, Conn
      <3> QED
        BY <1>6, <3>1, <3>2, Zenon
    <2>4. \A t \in Thread : ~ On(t, "clear", g)'
      <3>1. \A t \in Thread : ~ On(t, "clear", g)
        BY <2>1, Zenon DEF ConnInv
      <3>2. CASE Take(Main, "close", g)
        <4>1. At(Main)' = "close" /\ \A u \in Thread : u # Main => At(u)' = At(u) /\ Conn(u)' = Conn(u)
          BY <1>1, <1>9, <3>2, Moves, Zenon DEF Take
        <4> QED
          BY <3>1, <4>1 DEF On
      <3>3. CASE UNCHANGED pc
        BY <3>1, <3>3, Zenon DEF On, At, Conn
      <3> QED
        BY <1>6, <3>2, <3>3, Zenon
    <2>5. CASE Take(Main, "close", g) /\ UNCHANGED m_workqueue
      <3>1. On(Main, "close", g)'
        BY <1>1, <1>9, <2>5, Moves, Zenon DEF Take, On
      <3>2. \A k \in Nat : ~ Queued(k, g)'
        BY <2>1, <2>5, Zenon DEF Untouched, Queued
      <3> QED
        BY <2>2, <2>3, <2>4, <3>1, <3>2, Zenon DEF ConnInv, Untouched
    <2>6. CASE UNCHANGED pc /\ m_workqueue' = Append(m_workqueue, g) /\ epoll' = Fired(g)
      <3>1. ~ Armed(g)'
        BY <1>4, <2>6, Zenon DEF Armed
      <3>2. \A k \in Nat : Queued(k, g)' <=> k = Len(m_workqueue) + 1
        BY <1>10, <2>1, <2>6, AppendFacts, SMTT(30) DEF Queued, Untouched
      <3>3. ~ On(Main, "close", g)' /\ Len(m_workqueue) + 1 \in Nat
        BY <1>2, <1>10, <2>6 DEF On, At
      <3> QED
        BY <1>9, <2>2, <2>3, <2>4, <3>1, <3>2, <3>3, Zenon DEF ConnInv
    <2>7. CASE UNCHANGED <<pc, m_workqueue>> /\ (g \in refused' \/ Armed(g)')
      <3>1. \A k \in Nat : ~ Queued(k, g)'
        BY <2>1, <2>7, Zenon DEF Untouched, Queued
      <3> QED
        BY <1>9, <2>2, <2>3, <2>4, <2>7, <3>1, Zenon DEF ConnInv, Untouched
    <2>8. epoll' = modfd(g, "in") \/ epoll' = modfd(g, "out") => Armed(g)'
      BY <1>3, <2>1, Zenon DEF Armed
    <2> QED
      BY <1>6, <2>5, <2>6, <2>7, <2>8, Zenon
  <1> QED
    BY <1>1, <1>2, <1>8, <1>12, <1>13, StepHolds, Zenon

(* accept() returns g: unless a worker is still in close_conn() of its last
   connection, nobody has it. *)
LEMMA AcceptHolds ==
    ASSUME HoldInv, NEW g \in Fd, accept(g)
    PROVE  HoldInv'
  <1>1. TypeOK /\ TypeOK' /\ At(Main) = "loop" /\ g \notin open
    BY OtherType DEF HoldInv, accept, Lowest
  <1>2. UNCHANGED <<m_workqueue, refused>> /\ reused \subseteq reused'
    BY DEF accept
  <1>3. Main \in Thread /\ Main \notin Worker /\ "accepted" \in Label /\ \A w \in Worker : w \in Thread
    BY ThreadAssumption DEF Thread, Label
  <1>4. \A f \in Fd, k \in Nat : Queued(k, f)' <=> Queued(k, f)
    BY <1>2 DEF Queued
  <1>5. CASE m_user_count >= MAX_FD
    <2>1. UNCHANGED <<open, epoll, users, pc, reused>>
      BY <1>5, SMTT(30) DEF accept
    <2>2. \A f \in Fd \ reused : ConnInv(f)'
      <3>1. \A f : /\ \A w \in Worker : Held(w, f)' <=> Held(w, f)
                   /\ \A t \in Thread : On(t, "clear", f)' <=> On(t, "clear", f)
                   /\ On(Main, "close", f)' <=> On(Main, "close", f)
        BY <2>1, Zenon DEF Held, On, At, Conn
      <3> QED
        BY <1>2, <1>4, <2>1, <3>1, Frame, Zenon DEF HoldInv
    <2> QED
      BY <1>1, <2>1, <2>2 DEF HoldInv
  <1>6. CASE ~ (m_user_count >= MAX_FD)
    <2>1. /\ open' = open \cup {g}
          /\ users' = [users EXCEPT ![g] = [Blank EXCEPT !.sockfd = TRUE]]
          /\ epoll' = [epoll EXCEPT ![g] = "in"]
          /\ pc' = [pc EXCEPT ![Main] = <<"accepted", g>>]
          /\ g \notin reused' => \A w \in Worker : ~ Held(w, g)
      BY <1>6 DEF accept, Take, Held
    <2>2. /\ \A f \in Fd : f # g => epoll'[f] = epoll[f] /\ (f \in open' <=> f \in open)
          /\ \A f \in Fd : f # g => users'[f] = users[f]
          /\ epoll'[g] = "in" /\ g \in open'
      BY <1>1, <2>1 DEF TypeOK
    <2>3. users'[g].sockfd
      <3>1. users'[g] = [Blank EXCEPT !.sockfd = TRUE]
        BY <1>1, <2>1 DEF TypeOK
      <3> QED
        BY <3>1 DEF Blank
    <2>4. /\ At(Main)' = "accepted" /\ Conn(Main)' = g
          /\ \A u \in Thread : u # Main => At(u)' = At(u) /\ Conn(u)' = Conn(u)
      BY <1>1, <1>3, <2>1, Moves, Zenon
    <2>5. \A f \in Fd \ reused : f # g => ConnInv(f)'
      BY <1>1, <1>2, <1>3, <1>4, <2>1, <2>2, OtherFrame, ZenonT(60) DEF HoldInv
    <2>6. ASSUME g \notin reused' PROVE ConnInv(g)'
      <3>1. ConnInv(g) /\ \A w \in Worker : ~ Held(w, g)
        BY <1>2, <2>1, <2>6 DEF HoldInv
      <3>2. \A w \in Worker : ~ Held(w, g)'
        BY <1>3, <2>4, <3>1 DEF Held
      <3>3. \A k \in Nat : ~ Queued(k, g)'
        BY <1>1, <1>4, <3>1, Zenon DEF ConnInv
      <3>4. \A t \in Thread : ~ On(t, "clear", g)'
        <4>1. \A w \in Worker : ~ On(w, "clear", g)'
          BY <3>2 DEF Held, On
        <4> QED
          BY <2>4, <4>1 DEF On, Thread
      <3>5. ~ On(Main, "close", g)' /\ Armed(g)'
        BY <2>2, <2>4, Zenon DEF On, Armed
      <3> QED
        BY <1>3, <2>2, <2>3, <3>2, <3>3, <3>4, <3>5, Zenon DEF ConnInv, Untouched
    <2> QED
      BY <1>1, <1>2, <2>2, <2>5, <2>6, StepHolds, Zenon
  <1> QED
    BY <1>5, <1>6

(* A worker takes a connection from the queue: it had one place there. *)
LEMMA RunHolds ==
    ASSUME HoldInv, NEW w \in Worker, run(w)
    PROVE  HoldInv'
  <1>1. TypeOK /\ TypeOK' /\ m_workqueue \in Seq(Fd) /\ m_workqueue # <<>>
    BY WorkerType, Zenon DEF HoldInv, TypeOK, run, worker
  <1>2. PICK g \in Fd : g = Head(m_workqueue)
    BY <1>1, TailFacts
  <1>3. /\ UNCHANGED <<open, epoll, users, refused, reused>>
        /\ m_workqueue' = Tail(m_workqueue) /\ At(w) = "loop"
        /\ pc' = [pc EXCEPT ![w] = <<"process", g>>]
    BY <1>2, Zenon DEF run, kernel, history, Take
  <1>4. w \in Thread /\ Main \in Thread /\ w # Main /\ "process" \in Label /\ \A v \in Worker : v \in Thread
    BY ThreadAssumption, SMTT(30) DEF Thread, Label
  <1>5. /\ At(w)' = "process" /\ Conn(w)' = g
        /\ \A u \in Thread : u # w => At(u)' = At(u) /\ Conn(u)' = Conn(u)
    BY <1>1, <1>3, <1>4, Moves, Zenon
  <1>6. /\ \A f \in Fd, k \in Nat : Queued(k, f)' => Queued(k + 1, f) /\ k # 0
        /\ \A f \in Fd, k \in Nat : Queued(k + 1, f) /\ k # 0 => Queued(k, f)'
        /\ \A f \in Fd : ~ Queued(0, f)
        /\ Queued(1, g) /\ \A f \in Fd : Queued(1, f) => f = g
    <2>1. /\ 1 \in DOMAIN m_workqueue /\ m_workqueue[1] = g /\ 0 \notin DOMAIN m_workqueue
          /\ \A k \in Nat : k \in DOMAIN m_workqueue' <=> k # 0 /\ k + 1 \in DOMAIN m_workqueue
          /\ \A k \in DOMAIN m_workqueue' : m_workqueue'[k] = m_workqueue[k + 1]
      BY <1>1, <1>2, <1>3, TailFacts
    <2> QED
      BY <2>1, Zenon DEF Queued
  <1>7. \A f \in Fd : On(Main, "close", f)' <=> On(Main, "close", f)
    BY <1>4, <1>5, Zenon DEF On
  <1>8. \A f \in Fd, t \in Thread : On(t, "clear", f)' <=> On(t, "clear", f)
    BY <1>3, <1>5, Zenon DEF On
  <1>9. ASSUME NEW f \in Fd \ reused, f # g PROVE ConnInv(f)'
    <2>1. ConnInv(f)
      BY DEF HoldInv
    <2>2. \A v \in Worker : Held(v, f)' <=> Held(v, f)
      BY <1>3, <1>4, <1>5, <1>9, Zenon DEF Held
    <2>3. /\ \A k \in Nat : Queued(k, f)' => Queued(k + 1, f) /\ k + 1 \in Nat
          /\ (\E k \in Nat : Queued(k, f)) => \E k \in Nat : Queued(k, f)'
      <3>1. \A k \in Nat : Queued(k, f) => k # 0 /\ k # 1
        BY <1>6, <1>9, Zenon
      <3>2. \A k \in Nat : k # 0 => k - 1 \in Nat /\ (k - 1) + 1 = k
        OBVIOUS
      <3> QED
        BY <1>6, <3>1, <3>2
    <2>4. Untouched(f) => Untouched(f)'
      BY <2>2, <2>3, Zenon DEF Untouched
    <2>5. Armed(f)' <=> Armed(f)
      BY <1>3, Zenon DEF Armed
    <2>6. \A j, k \in Nat : Queued(j, f)' /\ Queued(k, f)' => j = k
      <3>1. SUFFICES ASSUME NEW j \in Nat, NEW k \in Nat, Queued(j, f)', Queued(k, f)'
                     PROVE  j = k
        OBVIOUS
      <3>2. j + 1 = k + 1
        BY <2>1, <2>3, <3>1, Zenon DEF ConnInv
      <3> QED
        BY <3>2
    <2>7. /\ \A v \in Worker, k \in Nat : ~ (Held(v, f)' /\ Queued(k, f)')
          /\ \A k \in Nat : Queued(k, f)' => f \in open'
      BY <1>3, <2>1, <2>2, <2>3, Zenon DEF ConnInv
    <2>8. f \in open' => /\ users'[f].sockfd
                         /\ \/ Armed(f)'
                            \/ \E v \in Worker : Held(v, f)'
                            \/ \E k \in Nat : Queued(k, f)'
                            \/ On(Main, "close", f)'
                            \/ f \in refused'
      BY <1>3, <1>7, <2>1, <2>2, <2>3, <2>5, Zenon DEF ConnInv
    <2>9. /\ \A u, v \in Worker : Held(u, f)' /\ Held(v, f)' => u = v
          /\ Armed(f)' => Untouched(f)'
          /\ On(Main, "close", f)' \/ On(Main, "clear", f)' => Untouched(f)'
          /\ \A t \in Thread : On(t, "clear", f)' => f \notin open'
          /\ users'[f].sockfd /\ f \notin open' => \E t \in Thread : On(t, "clear", f)'
      BY <1>3, <1>4, <1>7, <1>8, <2>1, <2>2, <2>4, <2>5, Zenon DEF ConnInv
    <2> QED
      BY <2>6, <2>7, <2>8, <2>9, Zenon DEF ConnInv
  <1>10. ASSUME g \notin reused PROVE ConnInv(g)'
    <2>1. ConnInv(g) /\ Queued(1, g)
      BY <1>6, <1>10 DEF HoldInv
    <2>2. \A k \in Nat : ~ Queued(k, g)'
      <3>1. \A k \in Nat : Queued(k, g) => k = 1
        BY <2>1, Zenon DEF ConnInv
      <3> QED
        BY <1>6, <3>1
    <2>3. \A v \in Worker : Held(v, g)' <=> v = w
      <3>1. \A v \in Worker : ~ Held(v, g)
        BY <2>1, Zenon DEF ConnInv
      <3> QED
        BY <1>4, <1>5, <3>1, Zenon DEF Held
    <2>4. ~ Armed(g) /\ ~ On(Main, "close", g) /\ ~ On(Main, "clear", g)
      BY <2>1, Zenon DEF ConnInv, Untouched
    <2>5. ~ Armed(g)' /\ ~ On(Main, "close", g)' /\ ~ On(Main, "clear", g)'
      BY <1>3, <1>4, <1>7, <1>8, <2>4, Zenon DEF Armed
    <2>6. /\ g \in open' => users'[g].sockfd
          /\ \A t \in Thread : On(t, "clear", g)' => g \notin open'
          /\ users'[g].sockfd /\ g \notin open' => \E t \in Thread : On(t, "clear", g)'
      BY <1>3, <1>8, <2>1, Zenon DEF ConnInv
    <2> QED
      BY <2>2, <2>3, <2>5, <2>6, Zenon DEF ConnInv
  <1> QED
    BY <1>1, <1>3, <1>9, <1>10, StepHolds, Zenon DEF HoldInv

(* process() up to the last call: the worker keeps the connection. *)
LEMMA ProcessHolds ==
    ASSUME HoldInv, NEW w \in Worker, process(w)
    PROVE  HoldInv'
  <1>1. TypeOK /\ TypeOK' /\ w \in Thread
    BY WorkerType DEF HoldInv, worker, Thread
  <1>2. PICK g \in Fd : g = Conn(w) /\ At(w) = "process"
    BY <1>1 DEF TypeOK, process
  <1>3. UNCHANGED <<open, epoll, m_workqueue, refused, reused>>
    BY DEF process, kernel, history
  <1>4. PICK l \in {"modin", "modout", "close"} : Goto(w, l)
    BY DEF process
  <1>5. \A f \in Fd : users'[f].sockfd = users[f].sockfd
    <2>1. users' = users \/ users' = [users EXCEPT ![g].out = TRUE]
      BY <1>2 DEF process
    <2>2. \A f \in Fd : users[f] \in User
      BY <1>1, Zenon DEF TypeOK
    <2> QED
      BY <1>1, <2>1, <2>2 DEF TypeOK, User
  <1>6. l \in Label /\ Main \in Thread /\ w # Main /\ \A v \in Worker : v \in Thread
    BY ThreadAssumption DEF Label, Thread
  <1>7. /\ At(w)' = l /\ Conn(w)' = g
        /\ \A u \in Thread : u # w => At(u)' = At(u) /\ Conn(u)' = Conn(u)
    BY <1>1, <1>2, <1>4, <1>6, OthersStay, Zenon
  <1>8. ASSUME NEW f \in Fd \ reused PROVE ConnInv(f)'
    <2>1. ConnInv(f) /\ \A k \in Nat : Queued(k, f)' <=> Queued(k, f)
      BY <1>3, Zenon DEF HoldInv, Queued
    <2>2. /\ \A v \in Worker : Held(v, f)' <=> Held(v, f)
          /\ \A t \in Thread : On(t, "clear", f)' <=> On(t, "clear", f)
          /\ On(Main, "close", f)' <=> On(Main, "close", f)
      BY <1>2, <1>6, <1>7, Zenon DEF Held, On
    <2> QED
      BY <1>3, <1>5, <2>1, <2>2, Frame, Zenon
  <1> QED
    BY <1>1, <1>3, <1>8, Zenon DEF HoldInv

(* modfd() at the end of process(): the connection goes back to epoll, unless it
   has been closed. *)
LEMMA RearmHolds ==
    ASSUME HoldInv, NEW w \in Worker, rearm(w)
    PROVE  HoldInv'
  <1>1. TypeOK /\ TypeOK' /\ w \in Thread
    BY WorkerType DEF HoldInv, worker, Thread
  <1>2. PICK g \in Fd : g = Conn(w) /\ At(w) \in {"modin", "modout"}
    BY <1>1, Zenon DEF TypeOK, rearm
  <1>3. UNCHANGED <<open, users, m_workqueue, refused, reused>> /\ Goto(w, "loop")
    BY Zenon DEF rearm, kernel, history
  <1>4. /\ \A f \in Fd : f # g => epoll'[f] = epoll[f]
        /\ epoll'[g] # "none" <=> epoll[g] # "none"
        /\ users[g].sockfd /\ epoll[g] # "none" => epoll'[g] \in {"in", "out"}
        /\ ~ (users[g].sockfd /\ epoll[g] # "none") => epoll'[g] = epoll[g]
    BY <1>1, <1>2, Zenon DEF rearm, modfd, TypeOK
  <1>5. "loop" \in Label /\ Main \in Thread /\ w # Main /\ \A v \in Worker : v \in Thread
    BY ThreadAssumption DEF Label, Thread
  <1>6. /\ At(w)' = "loop"
        /\ \A u \in Thread : u # w => At(u)' = At(u) /\ Conn(u)' = Conn(u)
    BY <1>1, <1>2, <1>3, <1>5, OthersStay, Zenon
  <1>7. \A f \in Fd \ reused : f # g => ConnInv(f)'
    BY <1>1, <1>2, <1>3, <1>4, <1>5, GotoFrame, Zenon
  <1>8. ASSUME g \notin reused PROVE ConnInv(g)'
    <2>1. ConnInv(g) /\ (epoll[g] # "none" <=> g \in open) /\ Held(w, g)
      BY <1>2, <1>8, Zenon DEF HoldInv, Held
    <2>2. \A v \in Worker : ~ Held(v, g)'
      <3>1. \A v \in Worker : Held(v, g) => v = w
        BY <2>1, Zenon DEF ConnInv
      <3> QED
        BY <1>5, <1>6, <3>1, Zenon DEF Held
    <2>3. \A k \in Nat : ~ Queued(k, g)'
      BY <1>3, <2>1, Zenon DEF ConnInv, Queued
    <2>4. Untouched(g)'
      BY <2>2, <2>3 DEF Untouched
    <2>5. \A t \in Thread : On(t, "clear", g)' <=> On(t, "clear", g)
      BY <1>2, <1>6 DEF On
    <2>6. g \in open' => users'[g].sockfd /\ Armed(g)'
      BY <1>3, <1>4, <2>1, Zenon DEF ConnInv, Armed
    <2>7. /\ \A t \in Thread : On(t, "clear", g)' => g \notin open'
          /\ users'[g].sockfd /\ g \notin open' => \E t \in Thread : On(t, "clear", g)'
      BY <1>3, <2>1, <2>5, Zenon DEF ConnInv
    <2> QED
      BY <2>2, <2>3, <2>4, <2>6, <2>7, Zenon DEF ConnInv
  <1>9. epoll'[g] # "none" <=> g \in open'
    BY <1>3, <1>4, Zenon DEF HoldInv
  <1> QED
    BY <1>1, <1>3, <1>4, <1>7, <1>8, <1>9, StepHolds, Zenon

(* What changes nothing about holders and epoll keeps the invariant. *)
LEMMA QuietHolds ==
    ASSUME HoldInv, TypeOK', UNCHANGED <<open, epoll, users, m_workqueue, pc, refused, reused>>
    PROVE  HoldInv'
  <1>1. ASSUME NEW f \in Fd \ reused PROVE ConnInv(f)'
    <2>1. ConnInv(f)
      BY DEF HoldInv
    <2>2. /\ \A w \in Worker : Held(w, f)' <=> Held(w, f)
          /\ \A t \in Thread : On(t, "clear", f)' <=> On(t, "clear", f)
          /\ On(Main, "close", f)' <=> On(Main, "close", f)
          /\ \A k \in Nat : Queued(k, f)' <=> Queued(k, f)
      BY Zenon DEF Held, On, Queued, At, Conn
    <2> QED
      BY <2>1, <2>2, Frame, Zenon
  <1> QED
    BY <1>1, SMTT(30) DEF HoldInv

(* The server starts with nothing open. *)
LEMMA InitHolds == Init => HoldInv
  <1>1. SUFFICES ASSUME Init PROVE HoldInv
    OBVIOUS
  <1>2. \A t \in Thread : pc[t] = <<"loop", 0>> /\ At(t) = "loop" /\ Conn(t) = 0
    BY <1>1, Zenon DEF Init, At, Conn
  <1>3. TypeOK
    <2>1. Blank \in User /\ "loop" \in Label
      BY DEF Blank, User, Label
    <2>2. \A w \in Worker : w \in Thread
      BY DEF Thread
    <2> QED
      BY <1>1, <1>2, <2>1, <2>2 DEF Init, TypeOK
  <1>4. \A f \in Fd : epoll[f] = "none" /\ f \notin open /\ users[f] = Blank
    BY <1>1, SMTT(30) DEF Init
  <1>5. ASSUME NEW f \in Fd PROVE ConnInv(f)
    <2>1. (\A w \in Worker : ~ Held(w, f)) /\ \A k \in Nat : ~ Queued(k, f)
      BY <1>1, <1>2 DEF Held, Queued, Init, Thread
    <2>2. (\A t \in Thread : ~ On(t, "clear", f)) /\ ~ On(Main, "close", f) /\ ~ On(Main, "clear", f)
      BY <1>2, Zenon DEF On, Thread
    <2>3. ~ Armed(f)
      <3>1. epoll[f] = "none"
        BY <1>4, Zenon
      <3> QED
        BY <3>1 DEF Armed
    <2>4. ~ users[f].sockfd
      <3>1. ~ Blank.sockfd
        BY DEF Blank
      <3> QED
        BY <1>4, <3>1, Zenon
    <2> QED
      BY <1>4, <2>1, <2>2, <2>3, <2>4, Zenon DEF ConnInv
  <1> QED
    BY <1>3, <1>4, <1>5, Zenon DEF HoldInv

(* Every step keeps the invariant, one case for each action. *)
LEMMA NextHolds == HoldInv /\ [Next]_vars => HoldInv'
  <1>1. SUFFICES ASSUME HoldInv, [Next]_vars PROVE HoldInv'
    OBVIOUS
  <1>2. ASSUME NEW f \in Fd, client_sends(f) \/ client_closes(f) PROVE HoldInv'
    <2>1. TypeOK'
      BY <1>1, <1>2, OtherType DEF HoldInv
    <2> QED
      BY <1>1, <1>2, <2>1, QuietHolds, Zenon DEF client_sends, client_closes, history
  <1>3. CASE UNCHANGED vars
    <2>1. TypeOK'
      <3>1. UNCHANGED pc
        BY <1>3 DEF vars
      <3>2. TypeOK
        BY <1>1 DEF HoldInv
      <3>3. /\ pc' \in [Thread -> Label \X (Fd \cup {0})]
            /\ \A u \in Thread : At(u)' # "loop" => Conn(u)' \in Fd
            /\ \A w \in Worker : At(w)' \notin {"accepted", "count++"}
        BY <3>1, <3>2, SameType, Zenon
      <3> QED
        BY <1>3, <3>2, <3>3, Zenon DEF TypeOK, vars
    <2> QED
      BY <1>1, <1>3, <2>1, QuietHolds, Zenon DEF vars
  <1>4. ASSUME NEW t \in Thread, close_conn(t) PROVE HoldInv'
    BY <1>1, <1>4, CloseHolds, CountHolds, Zenon DEF close_conn
  <1>5. ASSUME NEW w \in Worker, worker(w) PROVE HoldInv'
    BY <1>1, <1>5, RunHolds, ProcessHolds, RearmHolds DEF worker
  <1> QED
    BY <1>1, <1>2, <1>3, <1>4, <1>5, EventHolds, AcceptHolds, Zenon DEF Next
-----------------------------------------------------------------------------
(* ConnInv, counted *)
LEMMA HolderCount ==
    ASSUME TypeOK, NEW f \in Fd, ConnInv(f)
    PROVE  /\ Holders(f) \in {0, 1}
           /\ Untouched(f) => Holders(f) = 0
           /\ (\E w \in Worker : Held(w, f)) \/ (\E k \in Nat : Queued(k, f)) => Holders(f) = 1
  <1>1. \A w \in Worker : w \in Busy(f) <=> Held(w, f)
    BY DEF Busy, Held
  <1>2. DOMAIN m_workqueue \subseteq Nat
    <2>1. m_workqueue \in Seq(Fd)
      BY Zenon DEF TypeOK
    <2> QED
      BY <2>1
  <1>3. Waiting(f) \subseteq Nat /\ \A k \in Nat : k \in Waiting(f) <=> Queued(k, f)
    BY <1>2 DEF Waiting, Queued
  <1>4. Busy(f) \subseteq Worker
    BY DEF Busy
  <1>5. Cardinality({}) = 0
    BY FS_EmptySet
  <1>6. CASE Untouched(f)
    <2>1. Busy(f) = {} /\ Waiting(f) = {}
      BY <1>1, <1>3, <1>4, <1>6, Zenon DEF Untouched
    <2>2. Holders(f) = 0
      BY <1>5, <2>1 DEF Holders
    <2> QED
      BY <1>6, <2>2, Zenon DEF Untouched
  <1>7. CASE \E w \in Worker : Held(w, f)
    <2>1. PICK w \in Worker : Held(w, f)
      BY <1>7
    <2>2. (\A v \in Worker : Held(v, f) <=> v = w) /\ \A k \in Nat : ~ Queued(k, f)
      BY <2>1, Zenon DEF ConnInv
    <2>3. Busy(f) = {w} /\ Waiting(f) = {}
      BY <1>1, <1>3, <1>4, <2>1, <2>2, Zenon
    <2>4. Cardinality({w}) = 1
      BY FS_Singleton
    <2>5. Holders(f) = 1
      BY <1>5, <2>3, <2>4 DEF Holders
    <2> QED
      BY <1>7, <2>5, Zenon DEF Untouched
  <1>8. CASE \E k \in Nat : Queued(k, f)
    <2>1. PICK k \in Nat : Queued(k, f)
      BY <1>8
    <2>2. (\A w \in Worker : ~ Held(w, f)) /\ \A j \in Nat : Queued(j, f) <=> j = k
      BY <2>1, Zenon DEF ConnInv
    <2>3. Busy(f) = {} /\ Waiting(f) = {k}
      BY <1>1, <1>3, <1>4, <2>2
    <2>4. Cardinality({k}) = 1
      BY FS_Singleton, Zenon
    <2>5. Holders(f) = 1
      BY <1>5, <2>3, <2>4 DEF Holders
    <2> QED
      BY <1>8, <2>5, Zenon DEF Untouched
  <1> QED
    BY <1>6, <1>7, <1>8, Zenon DEF Untouched

(* EPOLLONESHOT at work, for any number of threads and connections: no two
   threads process one connection, and no event of it arrives meanwhile, unless
   accept() returned its number while a worker was still in close_conn(). *)
THEOREM HeldByOne == Spec => []OneHolder
  <1>1. HoldInv => OneHolder
    <2>1. SUFFICES ASSUME HoldInv, NEW f \in Fd \ reused
                   PROVE  Holders(f) <= 1 /\ (Armed(f) => Holders(f) = 0)
      BY DEF OneHolder
    <2>2. TypeOK /\ ConnInv(f)
      BY <2>1 DEF HoldInv
    <2>3. Holders(f) \in {0, 1} /\ (Untouched(f) => Holders(f) = 0)
      BY <2>2, HolderCount, Zenon
    <2>4. Armed(f) => Untouched(f)
      BY <2>2, Zenon DEF ConnInv
    <2> QED
      BY <2>3, <2>4
  <1> QED
    BY <1>1, InitHolds, NextHolds, PTL DEF Spec

(* No connection is forgotten, for any number of threads and connections: each
   open one has its m_sockfd and is armed, held, being closed or refused. *)
THEOREM NobodyForgotten == Spec => []NoneForgotten
  <1>1. HoldInv => NoneForgotten
    <2>1. SUFFICES ASSUME HoldInv, NEW f \in open \ reused
                   PROVE  /\ users[f].sockfd
                          /\ \/ Armed(f)
                             \/ Holders(f) = 1
                             \/ At(Main) = "close" /\ Conn(Main) = f
                             \/ f \in refused
      BY Zenon DEF NoneForgotten
    <2>2. TypeOK /\ ConnInv(f) /\ f \in Fd
      BY <2>1, Zenon DEF HoldInv, TypeOK
    <2>3. (\E w \in Worker : Held(w, f)) \/ (\E k \in Nat : Queued(k, f)) => Holders(f) = 1
      BY <2>2, HolderCount, Zenon
    <2> QED
      BY <2>2, <2>3, Zenon DEF ConnInv, On
  <1> QED
    BY <1>1, InitHolds, NextHolds, PTL DEF Spec
-----------------------------------------------------------------------------
Closing == {t \in Thread : At(t) \in {"clear", "count", "count--"}}
Accepting == {t \in Thread : At(t) \in {"accepted", "count++"}}

(* The sets that CountExact counts are finite. *)
LEMMA Finite ==
    ASSUME TypeOK
    PROVE  IsFiniteSet(open) /\ IsFiniteSet(Closing) /\ IsFiniteSet(Accepting)
  <1>1. IsFiniteSet(Thread)
    BY ThreadAssumption, FS_AddElement, Zenon DEF Thread
  <1>2. Closing \subseteq Thread /\ Accepting \subseteq Thread /\ open \subseteq Fd
    BY Zenon DEF Closing, Accepting, TypeOK
  <1> QED
    BY <1>1, <1>2, FdAssumption, FS_Subset, Zenon

(* Who closes the socket of g finds it open: nobody else is in close_conn(). *)
LEMMA ClosesOpen ==
    ASSUME HoldInv, NEW t \in Thread, At(t) = "close", NEW g \in Fd \ reused, g = Conn(t),
           users[g].sockfd
    PROVE  g \in open
  <1>1. ConnInv(g)
    BY Zenon DEF HoldInv
  <1>2. SUFFICES ASSUME g \notin open PROVE FALSE
    OBVIOUS
  <1>3. PICK u \in Thread : On(u, "clear", g)
    BY <1>1, <1>2, Zenon DEF ConnInv
  <1>4. On(t, "close", g) /\ u # t
    BY <1>3, Zenon DEF On
  <1>5. (t # Main => Held(t, g) /\ t \in Worker) /\ (u # Main => Held(u, g) /\ u \in Worker)
    BY <1>3, <1>4, Zenon DEF On, Held, Thread
  <1>6. CASE t = Main \/ u = Main
    <2>1. Untouched(g)
      BY <1>1, <1>3, <1>4, <1>6, Zenon DEF ConnInv
    <2> QED
      BY <1>4, <1>5, <1>6, <2>1, Zenon DEF Untouched
  <1>7. CASE t # Main /\ u # Main
    BY <1>1, <1>4, <1>5, <1>7, Zenon DEF ConnInv
  <1> QED
    BY <1>6, <1>7

Exact == m_user_count = Cardinality(open) + Cardinality(Closing) - Cardinality(Accepting)

(* CountExact, in terms of the sets of threads about to change the count. *)
LEMMA CountDef ==
    /\ CountExact <=> (reused = {} /\ ~ lost => Exact)
    /\ CountExact' <=> (reused' = {} /\ ~ lost' => Exact')
  BY Zenon DEF CountExact, Exact, Closing, Accepting

(* close_conn(), with the counter it changes last *)
LEMMA CloseCounts ==
    ASSUME HoldInv, NEW t \in Thread, close_conn(t), reused = {}, ~ lost', Exact
    PROVE  Exact'
  <1> DEFINE C == Cardinality(Closing)
             A == Cardinality(Accepting)
  <1>1. /\ TypeOK /\ At(t) # "loop"
        /\ IsFiniteSet(open) /\ IsFiniteSet(Closing) /\ IsFiniteSet(Accepting)
    BY Finite, Zenon DEF HoldInv, close_conn, close_fd, close_clear, count_read, count_write
  <1>2. Cardinality(open) \in Nat /\ C \in Nat /\ A \in Nat
    BY <1>1, FS_CardinalityType, Zenon
  <1>3. After(t) \in {"loop", "modout"}
    BY DEF After
  <1>4. CASE close_fd(t) /\ users[Conn(t)].sockfd
    <2>1. PICK g \in Fd : g = Conn(t) /\ At(t) = "close"
      BY <1>1, <1>4, Zenon DEF TypeOK, close_fd
    <2>2. g \in open
      BY <1>4, <2>1, ClosesOpen, Zenon
    <2>3. open' = open \ {g} /\ m_user_count' = m_user_count /\ Goto(t, "clear") /\ "clear" \in Label
      BY <1>4, <2>1, Zenon DEF close_fd, Label
    <2>4. At(t)' = "clear" /\ \A u \in Thread : u # t => At(u)' = At(u)
      BY <1>1, <2>3, OthersStay, Zenon
    <2>5. t \notin Closing /\ Closing' = Closing \cup {t} /\ Accepting' = Accepting
      BY <2>1, <2>4, Zenon DEF Closing, Accepting
    <2>6. Cardinality(Closing') = C + 1
      BY <1>1, <2>5, FS_AddElement, Zenon
    <2>7. Cardinality(open') = Cardinality(open) - 1
      BY <1>1, <2>2, <2>3, FS_RemoveElement, Zenon
    <2> QED
      BY <1>2, <2>3, <2>5, <2>6, <2>7 DEF Exact
  <1>5. CASE \/ close_fd(t) /\ ~ users[Conn(t)].sockfd
             \/ close_clear(t)
             \/ count_read(t)
    <2>1. PICK l \in Label : /\ Goto(t, l) /\ UNCHANGED <<open, m_user_count>>
                             /\ \/ At(t) = "close" /\ l \in {"loop", "modout"}
                                \/ At(t) = "clear" /\ l = "count"
                                \/ At(t) = "count" /\ l = "count--"
                                \/ At(t) = "accepted" /\ l = "count++"
      BY <1>3, <1>5 DEF close_fd, close_clear, count_read, kernel, Label
    <2>2. At(t)' = l /\ \A u \in Thread : u # t => At(u)' = At(u)
      BY <1>1, <2>1, OthersStay, Zenon
    <2>3. Closing' = Closing /\ Accepting' = Accepting
      BY <2>1, <2>2, Zenon DEF Closing, Accepting
    <2> QED
      BY <2>1, <2>3, Zenon DEF Exact
  <1>6. CASE count_write(t)
    <2>1. reg[t] = m_user_count /\ m_user_count \in Int /\ open' = open
      BY <1>1, <1>6, Zenon DEF count_write, TypeOK, kernel
    <2>2. PICK l \in {"loop", "modout"} : Goto(t, l) /\ l \in Label
      BY <1>3, <1>6, Zenon DEF count_write, Label
    <2>3. At(t)' = l /\ \A u \in Thread : u # t => At(u)' = At(u)
      BY <1>1, <2>2, OthersStay, Zenon
    <2>4. CASE At(t) = "count++"
      <3>1. m_user_count' = m_user_count + 1
        BY <1>6, <2>1, <2>4, Zenon DEF count_write, Step
      <3>2. t \in Accepting /\ Accepting' = Accepting \ {t} /\ Closing' = Closing
        BY <2>3, <2>4, Zenon DEF Accepting, Closing
      <3>3. Cardinality(Accepting') = A - 1
        BY <1>1, <3>2, FS_RemoveElement, Zenon
      <3> QED
        BY <1>2, <2>1, <3>1, <3>2, <3>3 DEF Exact
    <2>5. CASE At(t) = "count--"
      <3>1. m_user_count' = m_user_count - 1
        BY <1>6, <2>1, <2>5, Zenon DEF count_write, Step
      <3>2. t \in Closing /\ Closing' = Closing \ {t} /\ Accepting' = Accepting
        BY <2>3, <2>5, Zenon DEF Accepting, Closing
      <3>3. Cardinality(Closing') = C - 1
        BY <1>1, <3>2, FS_RemoveElement, Zenon
      <3> QED
        BY <1>2, <2>1, <3>1, <3>2, <3>3 DEF Exact
    <2> QED
      BY <1>6, <2>4, <2>5, Zenon DEF count_write
  <1> QED
    BY <1>4, <1>5, <1>6, Zenon DEF close_conn

(* accept() and init(), whose m_user_count++ is still to come *)
LEMMA AcceptCounts ==
    ASSUME HoldInv, NEW g \in Fd, accept(g), Exact
    PROVE  Exact'
  <1>1. /\ TypeOK /\ At(Main) = "loop" /\ g \notin open /\ UNCHANGED m_user_count
        /\ Main \in Thread /\ "accepted" \in Label
        /\ IsFiniteSet(open) /\ IsFiniteSet(Closing) /\ IsFiniteSet(Accepting)
    BY Finite DEF HoldInv, accept, Lowest, Thread, Label
  <1>2. /\ Cardinality(open) \in Nat /\ Cardinality(Closing) \in Nat
        /\ Cardinality(Accepting) \in Nat
    BY <1>1, FS_CardinalityType, Zenon
  <1>3. CASE UNCHANGED <<open, pc>>
    BY <1>1, <1>3, Zenon DEF Exact, Closing, Accepting, At
  <1>4. CASE open' = open \cup {g} /\ Take(Main, "accepted", g)
    <2>1. At(Main)' = "accepted" /\ \A u \in Thread : u # Main => At(u)' = At(u)
      BY <1>1, <1>4, Moves, Zenon DEF Take
    <2>2. Main \notin Accepting /\ Accepting' = Accepting \cup {Main} /\ Closing' = Closing
      BY <1>1, <2>1, Zenon DEF Accepting, Closing
    <2>3. Cardinality(Accepting') = Cardinality(Accepting) + 1
      BY <1>1, <2>2, FS_AddElement, Zenon
    <2>4. Cardinality(open') = Cardinality(open) + 1
      BY <1>1, <1>4, FS_AddElement, Zenon
    <2> QED
      BY <1>1, <1>2, <2>2, <2>3, <2>4 DEF Exact
  <1> QED
    BY <1>3, <1>4 DEF accept

(* The other steps move no thread into or out of the counter's updates. *)
LEMMA OthersCount ==
    ASSUME HoldInv, Exact,
           \/ \E f \in Fd : client_sends(f) \/ client_closes(f) \/ event(f)
           \/ \E w \in Worker : worker(w)
           \/ UNCHANGED vars
    PROVE  Exact'
  <1>1. TypeOK /\ Main \in Thread /\ "close" \in Label /\ UNCHANGED <<open, m_user_count>>
    BY Zenon DEF HoldInv, Thread, Label, vars, client_sends, client_closes, event, on_hup, on_in, on_out,
           Event, worker, run, process, rearm, kernel
  <1>2. CASE UNCHANGED pc
    BY <1>1, <1>2, Zenon DEF Exact, Closing, Accepting, At
  <1>3. ASSUME NEW t \in Thread, NEW l \in {"process", "modin", "modout", "close", "loop"},
               NEW g \in Fd \cup {0}, pc' = [pc EXCEPT ![t] = <<l, g>>],
               At(t) \in {"loop", "process", "modin", "modout"}
        PROVE  Exact'
    <2>1. At(t)' = l /\ \A u \in Thread : u # t => At(u)' = At(u)
      BY <1>1, <1>3, Moves, ZenonT(60) DEF Label
    <2>2. Closing' = Closing /\ Accepting' = Accepting
      BY <1>3, <2>1, Zenon DEF Closing, Accepting
    <2> QED
      BY <1>1, <2>2, Zenon DEF Exact
  <1>4. ASSUME NEW f \in Fd, event(f) PROVE Exact'
    <2>1. At(Main) = "loop" /\ (Take(Main, "close", f) \/ UNCHANGED pc)
      BY <1>4, Zenon DEF event, on_hup, on_in, on_out, Event, write_nothing, write_again, write_fails, write_done
    <2> QED
      BY <1>1, <1>2, <1>3, <2>1, Zenon DEF Take
  <1>5. ASSUME NEW w \in Worker, worker(w) PROVE Exact'
    <2>1. w \in Thread
      BY DEF Thread
    <2>2. CASE run(w)
      <3>1. m_workqueue \in Seq(Fd) /\ m_workqueue # <<>>
        BY <1>1, <2>2, Zenon DEF run, TypeOK
      <3>2. Head(m_workqueue) \in Fd
        BY <3>1, TailFacts, Zenon
      <3> QED
        BY <1>3, <2>1, <2>2, <3>2, Zenon DEF run, Take
    <2>3. CASE process(w) \/ rearm(w)
      <3>1. PICK l \in {"process", "modin", "modout", "close", "loop"} :
                Goto(w, l) /\ At(w) \in {"process", "modin", "modout"}
        BY <2>3 DEF process, rearm
      <3>2. Conn(w) \in Fd \cup {0}
        BY <1>1, <2>1, Labels, Zenon
      <3> QED
        BY <1>3, <2>1, <3>1, <3>2, Zenon DEF Goto
    <2> QED
      BY <1>5, <2>2, <2>3 DEF worker
  <1>6. ASSUME NEW f \in Fd, client_sends(f) \/ client_closes(f) PROVE Exact'
    BY <1>2, <1>6, Zenon DEF client_sends, client_closes
  <1> QED
    BY <1>2, <1>4, <1>5, <1>6, Zenon DEF vars

(* m_user_count counts the open connections and the updates under way, for any
   number of threads, as long as no two of its unprotected updates overlap. *)
THEOREM Counted == Spec => []CountExact
  <1>1. Init => HoldInv /\ CountExact
    <2>1. SUFFICES ASSUME Init PROVE Exact
      BY CountDef, InitHolds
    <2>2. \A t \in Thread : At(t) = "loop"
      BY <2>1, Zenon DEF Init, At
    <2>3. open = {} /\ Closing = {} /\ Accepting = {} /\ m_user_count = 0
      BY <2>1, <2>2, Zenon DEF Init, Closing, Accepting
    <2>4. Cardinality({}) = 0
      BY FS_EmptySet
    <2> QED
      BY <2>3, <2>4 DEF Exact
  <1>2. HoldInv /\ CountExact /\ [Next]_vars => HoldInv' /\ CountExact'
    <2>1. SUFFICES ASSUME HoldInv, CountExact, [Next]_vars, reused' = {}, ~ lost' PROVE Exact'
      BY CountDef, NextHolds
    <2>2. reused = {} /\ ~ lost
      <3>1. reused \subseteq reused'
        BY <2>1, Zenon DEF Next, vars, client_sends, client_closes, event, on_hup, on_in, on_out, Event, accept,
                    close_conn, close_fd, close_clear, count_read, count_write,
                    worker, run, process, rearm, history
      <3>2. lost => lost'
        BY <2>1, Zenon DEF Next, vars, client_sends, client_closes, event, on_hup, on_in, on_out, Event, accept,
                    close_conn, close_fd, close_clear, count_read, count_write,
                    worker, run, process, rearm, history
      <3> QED
        BY <2>1, <3>1, <3>2, SMTT(30)
    <2>3. Exact
      BY <2>1, <2>2, CountDef
    <2> QED
      BY <2>1, <2>2, <2>3, CloseCounts, AcceptCounts, OthersCount, Zenon DEF Next
  <1> QED
    BY <1>1, <1>2, PTL DEF Spec
=============================================================================
