----------------------------- MODULE HttpServer -----------------------------
(***************************************************************************)
(* The HTTP server of codes/15: the event loop of 15-6main.cpp hands a     *)
(* connection to the threads of the pool and gets it back through epoll.   *)
(* Every registration is EPOLLONESHOT, so the holder of a connection is    *)
(* whoever took its last event.  m_user_count is not atomic: each update   *)
(* is a read and a write.  What a request says is left to HttpParser; here *)
(* a request is incomplete, complete or too long for the buffer.           *)
(***************************************************************************)
EXTENDS Integers, Sequences, FiniteSets

CONSTANTS
    Fd,             \* the numbers accept may return, 1..n: it takes the lowest
    Worker, Main,
    MAX_FD, m_max_requests,
    Unanswerable,   \* whether some request makes process_write fail (an empty file)
    MaxAccepts      \* bound on connection attempts

ASSUME ThreadAssumption == IsFiniteSet(Worker) /\ Main \notin Worker
ASSUME FdAssumption == IsFiniteSet(Fd) /\ 0 \notin Fd

Thread == Worker \cup {Main}

VARIABLES
    open,           \* the connected sockets
    epoll,          \* epoll[f]: "none", or what f's registration waits for, "off" once fired
    input,          \* what the client has sent and nobody has read
    hup,            \* the sockets whose client has closed
    users,          \* users[f].sockfd: m_sockfd is f, not -1;  .req: the request read so far;
                    \* .out: m_write_idx > 0
    m_user_count,
    m_workqueue,
    pc,             \* At(t) = <<l, f>>: what t does next, and with which users[f]
    reg,            \* the value of m_user_count a thread has read and not yet written back
    accepts,
    refused,        \* connections that append() refused
    reused,         \* numbers accepted again while a worker was still inside close_conn
    lost            \* an update of m_user_count has overwritten another

vars == <<open, epoll, input, hup, users, m_user_count, m_workqueue, pc, reg,
          accepts, refused, reused, lost>>
kernel == <<open, input, hup>>
history == <<accepts, refused, reused>>

Blank == [sockfd |-> FALSE, req |-> "none", out |-> FALSE]

Init ==
    /\ open = {} /\ hup = {} /\ refused = {} /\ reused = {}
    /\ epoll = [f \in Fd |-> "none"]
    /\ input = [f \in Fd |-> "none"]
    /\ users = [f \in Fd |-> Blank]
    /\ m_user_count = 0 /\ accepts = 0 /\ lost = FALSE
    /\ m_workqueue = <<>>
    /\ pc = [t \in Thread |-> <<"loop", 0>>]
    /\ reg = [t \in Thread |-> 0]

At(t) == pc[t][1]
Conn(t) == pc[t][2]
Goto(t, l) == pc' = [pc EXCEPT ![t] = <<l, IF l = "loop" THEN 0 ELSE Conn(t)>>]
Take(t, l, f) == pc' = [pc EXCEPT ![t] = <<l, f>>]

Armed(f) == epoll[f] \in {"in", "out"}

(* modfd( m_epollfd, users[f].m_sockfd, ev ): no effect on -1 or on a number *)
(* that is not registered                                                    *)
modfd_drops_in(f, ev) ==
    IF users[f].sockfd /\ epoll[f] # "none" /\ ev = "out"
    THEN [epoll EXCEPT ![f] = ev] ELSE epoll
modfd(f, ev) ==
    IF users[f].sockfd /\ epoll[f] # "none" THEN [epoll EXCEPT ![f] = ev] ELSE epoll
-----------------------------------------------------------------------------
(* The clients *)
client_sends(f) ==
    /\ f \in open \ hup
    /\ input[f] \in {"none", "part"}
    /\ \E d \in {"part", "full", "long"} : input' = [input EXCEPT ![f] = d]
    /\ UNCHANGED <<open, epoll, hup, users, m_user_count, m_workqueue, pc, reg, history, lost>>

client_closes(f) ==
    /\ f \in open \ hup
    /\ hup' = hup \cup {f}
    /\ UNCHANGED <<open, epoll, input, users, m_user_count, m_workqueue, pc, reg, history, lost>>
-----------------------------------------------------------------------------
(* close_conn(): the socket, then m_sockfd, then the counter *)
After(t) == IF t = Main THEN "loop" ELSE "modout"

close_fd_of_minus_one(t) ==
    /\ At(t) = "close"
    /\ users' = [users EXCEPT ![Conn(t)].sockfd = FALSE]
    /\ Goto(t, "clear")
    /\ UNCHANGED <<kernel, epoll, m_user_count, m_workqueue, reg, history, lost>>
close_fd(t) ==
    /\ At(t) = "close"
    /\ IF users[Conn(t)].sockfd
       THEN /\ open' = open \ {Conn(t)}
            /\ hup' = hup \ {Conn(t)}
            /\ epoll' = [epoll EXCEPT ![Conn(t)] = "none"]
            /\ input' = [input EXCEPT ![Conn(t)] = "none"]
            /\ Goto(t, "clear")
       ELSE UNCHANGED <<kernel, epoll>> /\ Goto(t, After(t))
    /\ UNCHANGED <<users, m_user_count, m_workqueue, reg, history, lost>>

close_clear(t) ==
    /\ At(t) = "clear"
    /\ users' = [users EXCEPT ![Conn(t)].sockfd = FALSE]
    /\ Goto(t, "count")
    /\ UNCHANGED <<kernel, epoll, m_user_count, m_workqueue, reg, history, lost>>

(* m_user_count++ in init() when t is at "accepted", m_user_count-- otherwise *)
count_read(t) ==
    /\ At(t) \in {"count", "accepted"}
    /\ reg' = [reg EXCEPT ![t] = m_user_count]
    /\ Goto(t, IF At(t) = "count" THEN "count--" ELSE "count++")
    /\ UNCHANGED <<kernel, epoll, users, m_user_count, m_workqueue, history, lost>>

Step_no_decrement(t) == IF At(t) = "count++" THEN 1 ELSE 0
Step(t) == IF At(t) = "count++" THEN 1 ELSE -1

count_write(t) ==
    /\ At(t) \in {"count--", "count++"}
    /\ m_user_count' = reg[t] + Step(t)
    /\ lost' = (lost \/ reg[t] # m_user_count)
    /\ reg' = [reg EXCEPT ![t] = 0]
    /\ Goto(t, IF At(t) = "count++" THEN "loop" ELSE After(t))
    /\ UNCHANGED <<kernel, epoll, users, m_workqueue, history>>
-----------------------------------------------------------------------------
(* The event loop *)
Lowest(f) == f \in Fd \ open /\ \A g \in Fd \ open : f <= g

accept(f) ==
    /\ At(Main) = "loop"
    /\ accepts < MaxAccepts /\ Lowest(f)
    /\ accepts' = accepts + 1
    /\ IF m_user_count >= MAX_FD
       THEN UNCHANGED <<open, epoll, users, pc, reused>>    \* show_error closes it
       ELSE /\ open' = open \cup {f}
            /\ users' = [users EXCEPT ![f] = [Blank EXCEPT !.sockfd = TRUE]]
            /\ epoll' = [epoll EXCEPT ![f] = "in"]
            /\ reused' = IF \E w \in Worker : At(w) # "loop" /\ Conn(w) = f
                         THEN reused \cup {f} ELSE reused
            /\ Take(Main, "accepted", f)
    /\ UNCHANGED <<input, hup, m_user_count, m_workqueue, reg, refused, lost>>

(* epoll_wait returns an event of f: EPOLLONESHOT leaves f registered for nothing *)
Fired_stays(f) == epoll
Fired(f) == [epoll EXCEPT ![f] = "off"]

Event(f, ev) ==
    /\ At(Main) = "loop"
    /\ epoll[f] = ev
    /\ UNCHANGED <<open, hup, m_user_count, reg, accepts, reused, lost>>

on_hup(f) ==
    /\ f \in hup
    /\ Event(f, "in") \/ Event(f, "out")
    /\ epoll' = Fired(f)
    /\ Take(Main, "close", f)
    /\ UNCHANGED <<input, users, m_workqueue, refused>>

Full == Len(m_workqueue) > m_max_requests

(* read(), then append() whose result is ignored *)
on_in(f) ==
    /\ f \notin hup /\ input[f] # "none"
    /\ Event(f, "in")
    /\ epoll' = Fired(f)
    /\ IF users[f].sockfd /\ input[f] # "long"
       THEN /\ input' = [input EXCEPT ![f] = "none"]
            /\ users' = [users EXCEPT ![f].req = IF @ = "full" THEN @ ELSE input[f]]
            /\ m_workqueue' = IF Full THEN m_workqueue ELSE Append(m_workqueue, f)
            /\ refused' = IF Full THEN refused \cup {f} ELSE refused
            /\ UNCHANGED pc
       ELSE Take(Main, "close", f) /\ UNCHANGED <<input, users, m_workqueue, refused>>

(* write(): nothing to send, the socket full, an error, or a response sent *)
(* on a connection that stays (keep) or is closed                          *)
write_nothing(f) ==
    /\ users[f].sockfd /\ ~ users[f].out
    /\ epoll' = modfd(f, "in")
    /\ users' = [users EXCEPT ![f].req = "none"]
    /\ UNCHANGED pc

write_again(f) ==
    /\ users[f].sockfd /\ users[f].out
    /\ epoll' = modfd(f, "out")
    /\ UNCHANGED <<users, pc>>

write_fails(f) ==
    /\ epoll' = Fired(f)
    /\ Take(Main, "close", f)
    /\ UNCHANGED users

write_done(f) ==
    /\ users[f].sockfd /\ users[f].out
    /\ epoll' = modfd(f, "in")
    /\ \/ users' = [users EXCEPT ![f].req = "none", ![f].out = FALSE] /\ UNCHANGED pc
       \/ Take(Main, "close", f) /\ UNCHANGED users

on_out(f) ==
    /\ f \notin hup
    /\ Event(f, "out")
    /\ UNCHANGED <<input, m_workqueue, refused>>
    /\ write_nothing(f) \/ write_again(f) \/ write_fails(f) \/ write_done(f)
-----------------------------------------------------------------------------
(* The threads of the pool, whose queue ThreadPool models in detail *)
run(w) ==
    /\ At(w) = "loop" /\ m_workqueue # <<>>
    /\ m_workqueue' = Tail(m_workqueue)
    /\ Take(w, "process", Head(m_workqueue))
    /\ UNCHANGED <<kernel, epoll, users, m_user_count, reg, history, lost>>

(* process_read() and process_write() *)
process(w) ==
    /\ At(w) = "process"
    /\ IF users[Conn(w)].req = "full"
       THEN /\ users' = [users EXCEPT ![Conn(w)].out = TRUE]
            /\ \E l \in {"modout"} \cup (IF Unanswerable THEN {"close"} ELSE {}) : Goto(w, l)
       ELSE Goto(w, "modin") /\ UNCHANGED users
    /\ UNCHANGED <<kernel, epoll, m_user_count, m_workqueue, reg, history, lost>>

rearm(w) ==
    /\ At(w) \in {"modin", "modout"}
    /\ epoll' = modfd(Conn(w), IF At(w) = "modin" THEN "in" ELSE "out")
    /\ Goto(w, "loop")
    /\ UNCHANGED <<kernel, users, m_user_count, m_workqueue, reg, history, lost>>

close_conn(t) == close_fd(t) \/ close_clear(t) \/ count_read(t) \/ count_write(t)
event(f) == on_hup(f) \/ on_in(f) \/ on_out(f)
worker(w) == run(w) \/ process(w) \/ rearm(w)

Next ==
    \/ \E f \in Fd : client_sends(f) \/ client_closes(f) \/ event(f) \/ accept(f)
    \/ \E t \in Thread : close_conn(t)
    \/ \E w \in Worker : worker(w)

Spec == Init /\ [][Next]_vars

(* Threads run; epoll_wait serves its ready descriptors in turn; a client that *)
(* does not close reads what it is sent.                                       *)
FairSpec ==
    /\ Spec
    /\ \A t \in Thread : WF_vars(close_conn(t))
    /\ \A w \in Worker : WF_vars(worker(w))
    /\ \A f \in Fd : SF_vars(on_hup(f)) /\ SF_vars(on_in(f))
                     /\ SF_vars(on_out(f) /\ write_done(f))
-----------------------------------------------------------------------------
Busy(f) == {w \in Worker : At(w) # "loop" /\ Conn(w) = f}
Waiting(f) == {i \in DOMAIN m_workqueue : m_workqueue[i] = f}
Holders(f) == Cardinality(Busy(f)) + Cardinality(Waiting(f))

(* At most one thread works on a connection, and epoll reports nothing about  *)
(* it meanwhile.  EPOLLONESHOT and the re-arming at the end of process() give *)
(* this; only a number that accept() returns again while a worker is still in *)
(* close_conn() escapes it.                                                   *)
OneHolder ==
    \A f \in Fd \ reused : Holders(f) <= 1 /\ (Armed(f) => Holders(f) = 0)

(* No connection is forgotten: every open one has its m_sockfd, so it can be   *)
(* closed, and is armed in epoll, held by one thread or the queue, or being    *)
(* closed - unless append() refused it or its number was reused too early.     *)
NoneForgotten ==
    \A f \in open \ reused :
        /\ users[f].sockfd
        /\ \/ Armed(f)
           \/ Holders(f) = 1
           \/ At(Main) = "close" /\ Conn(Main) = f
           \/ f \in refused

(* m_user_count counts the open connections, give or take the updates under   *)
(* way, as long as no two updates overlap and no number is reused too early.  *)
CountExact ==
    reused = {} /\ ~ lost =>
        m_user_count = Cardinality(open)
                       + Cardinality({t \in Thread : At(t) \in {"clear", "count", "count--"}})
                       - Cardinality({t \in Thread : At(t) \in {"accepted", "count++"}})

(* What a client sends is read, and a complete request is answered, or the     *)
(* connection is closed - unless append() refused it or its number was reused  *)
(* too early.                                                                  *)
Served ==
    \A f \in Fd :
        /\ (f \in open /\ input[f] # "none")
              ~> (f \notin open \/ input[f] = "none" \/ f \in refused \cup reused)
        /\ (f \in open /\ users[f].req = "full")
              ~> (f \notin open \/ users[f].req = "none" \/ f \in refused \cup reused)
=============================================================================
