--------------------------- MODULE NonactiveConn ----------------------------
(***************************************************************************)
(* codes/11/11-3nonactive_conn.cpp: an epoll server (edge-triggered, one   *)
(* accept or recv per event) that closes connections idle for              *)
(* 3 * TIMESLOT seconds.  SIGALRM and SIGTERM reach the event loop as      *)
(* bytes in a pipe; the timeout is handled after the batch of events.      *)
(*                                                                         *)
(* The timer list is the set `live' of allocated timers with the seconds   *)
(* each has left; SortTimerList is its implementation.  Time left stops at *)
(* 0, since tick() asks only whether expire has come.                      *)
(***************************************************************************)
EXTENDS Naturals, FiniteSets

CONSTANTS
    FD,         \* descriptors that accept can return
    Timer,      \* addresses at which util_timer objects can be allocated
    NULL,
    TIMESLOT,
    MaxData     \* bound: units of unread data of two connections together

ASSUME NonactiveAssumption ==
    /\ TIMESLOT \in Nat \ {0} /\ NULL \notin Timer \cup FD
    /\ FD \cap {"listenfd", "pipefd"} = {}
    /\ MaxData \in Nat /\ Cardinality(Timer) >= Cardinality(FD)

VARIABLES
    pc,         \* "wait" in epoll_wait, "batch" after it, "stopped"
    events,     \* the events of the batch still to handle
    ready,      \* what epoll_wait will report: edges since the last report
    signals,    \* the bytes in the pipe
    timeout, stop_server,
    alarm,      \* seconds until SIGALRM, 0 when none is scheduled
    open,       \* the connections the server has accepted and not closed
    users,      \* users[fd].timer
    live, left, owner,  \* timers: allocated, seconds left, user_data->sockfd
    backlog,    \* connections waiting for accept
    peer,       \* peer[fd]: what the client will do
    data        \* data[fd]: units of data received and not read

server == <<pc, events, timeout, stop_server, open, users, live, owner>>
clock == <<alarm, left>>
network == <<ready, signals, backlog, peer, data>>
vars == <<server, clock, network>>

Init ==
    /\ pc = "wait" /\ events = {} /\ ready = {} /\ signals = {}
    /\ timeout = FALSE /\ stop_server = FALSE /\ alarm = TIMESLOT
    /\ open = {} /\ users = [fd \in FD |-> NULL]
    /\ live = {} /\ left = [t \in Timer |-> 0] /\ owner = [t \in Timer |-> NULL]
    /\ backlog = 0 /\ peer = [fd \in FD |-> "none"] /\ data = [fd \in FD |-> 0]
-----------------------------------------------------------------------------
(* The clients and the kernel *)
(* bound: there are never more connections than descriptors *)
connect ==
    /\ backlog + Cardinality(open) < Cardinality(FD)
    /\ backlog' = backlog + 1
    /\ ready' = ready \cup {"listenfd"}
    /\ UNCHANGED <<server, clock, signals, peer, data>>

client_sends(fd) ==
    /\ fd \in open /\ peer[fd] = "talks"
    /\ data[fd] < MaxData /\ \A g \in FD \ {fd} : data[fd] + data[g] < MaxData
    /\ data' = [data EXCEPT ![fd] = @ + 1]
    /\ ready' = ready \cup {fd}
    /\ UNCHANGED <<server, clock, signals, backlog, peer>>

(* the client sends nothing from now on, without closing the connection *)
client_falls_silent(fd) ==
    /\ fd \in open /\ peer[fd] = "talks"
    /\ peer' = [peer EXCEPT ![fd] = "silent"]
    /\ UNCHANGED <<server, clock, signals, backlog, data, ready>>

(* a close leaves the unread data, a reset discards it *)
client_closes(fd) ==
    /\ fd \in open /\ peer[fd] \in {"talks", "silent"}
    /\ peer' = [peer EXCEPT ![fd] = "closed"]
    /\ \E d \in {0, data[fd]} : data' = [data EXCEPT ![fd] = d]
    /\ ready' = ready \cup {fd}
    /\ UNCHANGED <<server, clock, signals, backlog>>

(* sig_handler sends a byte down the pipe *)
sig_handler(sig) ==
    /\ signals' = signals \cup {sig}
    /\ ready' = ready \cup {"pipefd"}

(* bound: SIGTERM comes once *)
sigterm ==
    /\ "SIGTERM" \notin signals /\ ~ stop_server
    /\ sig_handler("SIGTERM")
    /\ UNCHANGED <<server, clock, backlog, peer, data>>

second ==
    /\ left' = [t \in Timer |-> IF left[t] > 0 THEN left[t] - 1 ELSE 0]
    /\ alarm' = IF alarm > 0 THEN alarm - 1 ELSE 0
    /\ IF alarm = 1 THEN sig_handler("SIGALRM") ELSE UNCHANGED <<signals, ready>>
    /\ UNCHANGED <<server, backlog, peer, data>>
-----------------------------------------------------------------------------
(* The event loop *)
epoll_wait ==
    /\ pc = "wait"
    /\ ready # {}
    /\ pc' = "batch"
    /\ events' = ready
    /\ ready' = {}
    /\ UNCHANGED <<timeout, stop_server, open, users, live, owner, clock, signals,
                   backlog, peer, data>>

Handling(e) == pc = "batch" /\ e \in events /\ events' = events \ {e}

(* accept, new util_timer, add_timer: one connection for each event.  What the
   client did before the accept is reported as soon as addfd has run. *)
Taken_all == backlog
Taken == 1

Allowance == 3 * TIMESLOT

(* The free number that accept returns: the lowest, in some order of them. *)
Lowest == IF open = FD THEN {} ELSE {CHOOSE fd \in FD : fd \notin open}

accept_conn ==
    /\ Handling("listenfd")
    /\ \E fd \in Lowest, t \in Timer \ live, d \in 0 .. MaxData, p \in {"talks", "closed"} :
         /\ \A g \in FD \ {fd} : data[g] + d <= MaxData
         /\ open' = open \cup {fd}
         /\ users' = [users EXCEPT ![fd] = t]
         /\ live' = live \cup {t}
         /\ left' = [left EXCEPT ![t] = Allowance]
         /\ owner' = [owner EXCEPT ![t] = fd]
         /\ peer' = [peer EXCEPT ![fd] = p]
         /\ data' = [data EXCEPT ![fd] = d]
         /\ ready' = IF d > 0 \/ p = "closed" THEN ready \cup {fd} ELSE ready
    /\ backlog' = backlog - Taken
    /\ UNCHANGED <<pc, timeout, stop_server, alarm, signals>>

(* cb_func for the connections C, and delete for the timers T *)
Closed(C) ==
    /\ open' = open \ C
    /\ peer' = [fd \in FD |-> IF fd \in C THEN "none" ELSE peer[fd]]
    /\ data' = [fd \in FD |-> IF fd \in C THEN 0 ELSE data[fd]]
    /\ ready' = ready \ C

Deleted_never(T) == UNCHANGED <<live, left, owner>>
Deleted(T) ==
    /\ live' = live \ T
    /\ left' = [t \in Timer |-> IF t \in T THEN 0 ELSE left[t]]
    /\ owner' = [t \in Timer |-> IF t \in T THEN NULL ELSE owner[t]]

Due == {t \in live : left[t] = 0}

read_signals_ticks ==
    /\ Handling("pipefd")
    /\ Closed({owner[t] : t \in Due})
    /\ Deleted(Due)
    /\ alarm' = TIMESLOT
    /\ stop_server' = (stop_server \/ "SIGTERM" \in signals)
    /\ signals' = {}
    /\ UNCHANGED <<pc, timeout, users, backlog>>

read_signals ==
    /\ Handling("pipefd")
    /\ timeout' = (timeout \/ "SIGALRM" \in signals)
    /\ stop_server' = (stop_server \/ "SIGTERM" \in signals)
    /\ signals' = {}
    /\ UNCHANGED <<pc, open, users, live, owner, clock, ready, backlog, peer, data>>

(* recv on a connection *)
read_data(fd) ==
    /\ Handling(fd)
    /\ data[fd] > 0
    /\ \E k \in 1 .. data[fd] : data' = [data EXCEPT ![fd] = @ - k]
    /\ left' = [left EXCEPT ![users[fd]] = Allowance]
    /\ UNCHANGED <<pc, timeout, stop_server, open, users, live, owner, alarm, ready,
                   signals, backlog, peer>>

(* ret = 0, or an error other than EAGAIN: a descriptor that is not open
   included *)
read_end(fd) ==
    /\ Handling(fd)
    /\ data[fd] = 0
    /\ peer[fd] \in {"closed", "none"}
    /\ Closed({fd})
    /\ Deleted({users[fd]})
    /\ UNCHANGED <<pc, timeout, stop_server, users, alarm, signals, backlog>>

read_nothing(fd) ==
    /\ Handling(fd)
    /\ data[fd] = 0
    /\ peer[fd] \in {"talks", "silent"}
    /\ UNCHANGED <<pc, timeout, stop_server, open, users, live, owner, clock, ready,
                   signals, backlog, peer, data>>

(* timer_handler: tick and alarm *)
Rearmed_not == 0
Rearmed == TIMESLOT

end_of_batch ==
    /\ pc = "batch"
    /\ events = {}
    /\ pc' = IF stop_server THEN "stopped" ELSE "wait"
    /\ \/ /\ timeout
          /\ Closed({owner[t] : t \in Due})
          /\ Deleted(Due)
          /\ alarm' = Rearmed
       \/ /\ ~ timeout
          /\ UNCHANGED <<open, peer, data, ready, live, left, owner, alarm>>
    /\ timeout' = FALSE
    /\ UNCHANGED <<events, stop_server, users, signals, backlog>>

loop ==
    \/ epoll_wait \/ accept_conn \/ read_signals \/ end_of_batch
    \/ \E fd \in FD : read_data(fd) \/ read_end(fd) \/ read_nothing(fd)

environment ==
    /\ pc # "stopped"
    /\ \/ connect \/ sigterm \/ second
       \/ \E fd \in FD : client_sends(fd) \/ client_falls_silent(fd) \/ client_closes(fd)

Next == loop \/ environment

(* The server is scheduled and time passes.  No client has to do anything. *)
Spec == Init /\ [][Next]_vars /\ WF_vars(loop) /\ WF_vars(second /\ pc # "stopped")
-----------------------------------------------------------------------------
(* Types, and: a timer that has been deleted is not written to. *)
TypeOK ==
    /\ pc \in {"wait", "batch", "stopped"}
    /\ events \subseteq FD \cup {"listenfd", "pipefd"}
    /\ ready \subseteq FD \cup {"listenfd", "pipefd"}
    /\ signals \subseteq {"SIGALRM", "SIGTERM"}
    /\ timeout \in BOOLEAN /\ stop_server \in BOOLEAN
    /\ alarm \in 0 .. TIMESLOT
    /\ open \subseteq FD /\ users \in [FD -> Timer \cup {NULL}]
    /\ live \subseteq Timer /\ left \in [Timer -> 0 .. 3 * TIMESLOT]
    /\ owner \in [Timer -> FD \cup {NULL}]
    /\ \A t \in Timer \ live : left[t] = 0 /\ owner[t] = NULL
    /\ backlog \in Nat /\ data \in [FD -> 0 .. MaxData]
    /\ peer \in [FD -> {"none", "talks", "silent", "closed"}]

(* Connections and timers stay paired although users[fd].timer is never reset
   and descriptors and addresses are reused: every open connection has a live
   timer that will close it, and every live timer closes an open connection.
   No timer leaks and none closes the connection of somebody else. *)
TimersMatchConnections ==
    /\ TypeOK
    /\ \A fd \in open : users[fd] \in live /\ owner[users[fd]] = fd
    /\ \A t \in live : owner[t] \in open /\ users[owner[t]] = t

(* Every event in the batch finds what it is about: because the timeout waits
   for the end of the batch, recv and del_timer never run on a connection that
   a timer of the same batch has closed, and accept, whose result the code does
   not check, has a connection for each reported or unreported edge. *)
NoStaleEvent ==
    LET edges(set) == Cardinality(set \cap {"listenfd"})
    IN  /\ events \cap FD \subseteq open
        /\ edges(events) + edges(ready) <= backlog

(* A connection whose client has gone, or says nothing more, is closed in the
   end, unless SIGTERM stops the server: also when one recv left data behind
   and no further edge will come, and however SIGALRM and the batches fall. *)
IdleIsClosed ==
    \A fd \in FD :
        peer[fd] \in {"silent", "closed"} ~> (fd \notin open \/ stop_server)
=============================================================================
