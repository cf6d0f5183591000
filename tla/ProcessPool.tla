---------------------------- MODULE ProcessPool ----------------------------
(***************************************************************************)
(* The three process pools of codes/: 15/15-1processpool.h, the CGI server *)
(* 15/15-2pool_cgi.cpp and springsnail/processpool.h.  The parent watches  *)
(* the listening socket and tells a child to accept(); the variant says how *)
(* it chooses the child and how a child takes SIGTERM.  The listening socket  *)
(* and the pipes are edge-triggered, and each event is answered once: one  *)
(* message for an event of the socket, one accept() for an event of a pipe.*)
(***************************************************************************)
EXTENDS Integers, Sequences, FiniteSets

CONSTANTS
    Sizes,                  \* the number of children of each pool
    ByteValues,             \* 256: a busy ratio is sent as one byte
    MaxConns, MaxCrashes    \* bounds

(* the constructors assert that there is a child *)
ASSUME SizesAssumption ==
    /\ DOMAIN Sizes \subseteq {"processpool", "pool_cgi", "springsnail"}
    /\ \A v \in DOMAIN Sizes : Sizes[v] \in Nat \ {0}
ASSUME ByteAssumption == ByteValues \in Nat \ {0}

VARIABLES
    variant,                \* which of the three pools this is
    parent,                 \* "start" until its signal handlers are set, "loop", "left"
    m_pid,                  \* the children whose m_pid is not -1
    sub_process_counter,
    signals,                \* the signals in the parent's sig_pipefd
    m_stop,
    proc,                   \* where a child is; "zombie" until reaped, then "gone"
    term,                   \* SIGTERM: not sent, in the child's sig_pipefd, or its stop flag set
    backlog, edge,          \* connections not accepted; an event of the listening socket
    notified,               \* the children with an event of their pipe
    conns,                  \* the connections of each child
    nulls,                  \* entries of a child's m_used that are NULL and belong to no connection
    late,                   \* events of closed connections that a child has still to look at
    busy, up,               \* m_busy_ratio, and the reports on their way to the parent
    reported,               \* the children whose reports raise an event
    garbled,                \* children of which the parent read several reports as one number
    sent, missed,           \* messages sent to each child; events merged with others or lost
    arrived, crashes

vars == <<variant, parent, m_pid, sub_process_counter, signals, m_stop, proc, term, backlog, edge, notified,
          conns, nulls, late, busy, up, reported, garbled, sent, missed, arrived, crashes>>
table == <<m_pid, sub_process_counter, m_stop>>
used == <<conns, nulls, late>>
ratios == <<busy, up, reported, garbled>>
counts == <<sent, arrived, crashes>>

m_process_number == Sizes[variant]
Child == 0..(m_process_number - 1)
Zero == [i \in Child |-> 0]

(* pool_cgi goes on when a fork fails, with pid -1 *)
Init ==
    /\ variant \in DOMAIN Sizes
    /\ parent = "start" /\ signals = {} /\ m_stop = FALSE /\ sub_process_counter = 0
    /\ IF variant = "pool_cgi" THEN m_pid \in SUBSET Child ELSE m_pid = Child
    /\ proc = [i \in Child |-> IF i \in m_pid THEN "forked" ELSE "gone"]
    /\ term = [i \in Child |-> "no"]
    /\ backlog = 0 /\ edge = FALSE /\ notified = {} /\ missed = 0 /\ arrived = 0 /\ crashes = 0
    /\ conns = Zero /\ nulls = Zero /\ late = Zero /\ busy = Zero /\ sent = Zero
    /\ up = [i \in Child |-> <<>>] /\ reported = {} /\ garbled = {}

Alive(i) == proc[i] \notin {"zombie", "gone"}
One(b) == IF b THEN 1 ELSE 0
-----------------------------------------------------------------------------
connect ==
    /\ parent # "left" /\ arrived < MaxConns[variant]
    /\ arrived' = arrived + 1 /\ backlog' = backlog + 1
    /\ edge' = TRUE /\ missed' = missed + One(edge)
    /\ UNCHANGED <<variant, parent, table, signals, proc, term, notified, used, ratios, sent, crashes>>

setup_sig_pipe ==
    /\ parent = "start" /\ parent' = "loop"
    /\ UNCHANGED <<variant, table, signals, proc, term, backlog, edge, notified, used, ratios, missed, counts>>

(* The children in S end: SIGCHLD is ignored until the parent has its handlers *)
Ended(S) ==
    /\ signals' = IF parent = "loop" /\ S # {} THEN signals \cup {"SIGCHLD"} ELSE signals
    /\ notified' = notified \ S
    /\ missed' = missed + Cardinality(notified \cap S)
    /\ conns' = [i \in Child |-> IF i \in S THEN 0 ELSE conns[i]]
    /\ nulls' = [i \in Child |-> IF i \in S THEN 0 ELSE nulls[i]]
    /\ late' = [i \in Child |-> IF i \in S THEN 0 ELSE late[i]]
-----------------------------------------------------------------------------
(* run_child *)
At(i, from, to) == proc[i] = from /\ proc' = [proc EXCEPT ![i] = to]

crash(i) ==
    /\ Alive(i) /\ crashes < MaxCrashes
    /\ crashes' = crashes + 1
    /\ proc' = [proc EXCEPT ![i] = "zombie"]
    /\ Ended({i})
    /\ UNCHANGED <<variant, parent, table, term, backlog, edge, ratios, sent, arrived>>

(* while( !m_stop ), then epoll_wait: pool_cgi sets the flag in the signal handler, *)
(* and does not notice one that comes between the two; the others read it from a    *)
(* pipe that epoll_wait watches                                                     *)
child_loops(i) ==
    /\ \/ At(i, "forked", "top")
       \/ term[i] # "flag" /\ At(i, "top", IF variant = "pool_cgi" THEN "checked" ELSE "wait")
       \/ At(i, "checked", "wait")
    /\ UNCHANGED <<variant, parent, table, signals, term, backlog, edge, notified, used, ratios, missed, counts>>

child_exits(i) ==
    /\ term[i] = "flag" /\ At(i, "top", "zombie")
    /\ Ended({i})
    /\ UNCHANGED <<variant, parent, table, term, backlog, edge, ratios, counts>>

(* springsnail: m_used has two entries for a connection *)
get_used_conn_cnt(i) == 2 * conns'[i] + nulls'[i]

notify_parent_busy_ratio(i) ==
    IF variant = "springsnail"
    THEN /\ up' = [up EXCEPT ![i] = Append(@, get_used_conn_cnt(i) % ByteValues)]
         /\ reported' = reported \cup {i}
         /\ UNCHANGED <<busy, garbled>>
    ELSE UNCHANGED ratios

(* springsnail may have no connection to a server left for the client; if it has, *)
(* the two descriptors may be numbers for which there are NULL entries            *)
child_accept(i) ==
    /\ i \in notified /\ At(i, "wait", "top")
    /\ notified' = notified \ {i}
    /\ backlog' = backlog - 1
    /\ \/ /\ conns' = [conns EXCEPT ![i] = @ + 1]
          /\ \E k \in 0..2 : k <= nulls[i] /\ nulls' = [nulls EXCEPT ![i] = @ - k]
          /\ late' = late
          /\ notify_parent_busy_ratio(i)
       \/ variant = "springsnail" /\ UNCHANGED <<used, ratios>>
    /\ UNCHANGED <<variant, parent, table, signals, term, edge, missed, counts>>

(* the request is answered by a new process, or one side has closed; then the other *)
(* side may have an event in the same batch                                         *)
child_closes(i) ==
    /\ conns[i] > 0 /\ At(i, "wait", "top")
    /\ conns' = [conns EXCEPT ![i] = @ - 1]
    /\ nulls' = nulls
    /\ \/ late' = late
       \/ variant = "springsnail" /\ late' = [late EXCEPT ![i] = @ + 1]
    /\ notify_parent_busy_ratio(i)
    /\ UNCHANGED <<variant, parent, table, signals, term, backlog, edge, notified, missed, counts>>

(* m_used[ fd ] makes an entry, unless another connection has that number by now *)
child_stale(i) ==
    /\ late[i] > 0 /\ At(i, "wait", "top")
    /\ late' = [late EXCEPT ![i] = @ - 1]
    /\ \/ nulls' = [nulls EXCEPT ![i] = @ + 1]
       \/ conns[i] > 0 /\ nulls' = nulls
    /\ UNCHANGED <<variant, parent, table, signals, term, backlog, edge, notified, conns, ratios, missed, counts>>

child_signal(i) ==
    /\ term[i] = "pipe" /\ At(i, "wait", "top")
    /\ term' = [term EXCEPT ![i] = "flag"]
    /\ UNCHANGED <<variant, parent, table, signals, backlog, edge, notified, used, ratios, missed, counts>>

child(i) == child_loops(i) \/ child_exits(i) \/ child_accept(i) \/ child_signal(i)
-----------------------------------------------------------------------------
(* run_parent: the child to tell *)
Turn(k) == (sub_process_counter + k) % m_process_number

next_alive == CHOOSE i \in m_pid : \E k \in Child :
    i = Turn(k) /\ \A j \in 0..(k - 1) : Turn(j) \notin m_pid

get_most_free_srv_last ==
    CHOOSE i \in Child : \A j \in Child : busy[j] <= busy[i] /\ (busy[j] = busy[i] => i <= j)
get_most_free_srv ==
    CHOOSE i \in Child : \A j \in Child : busy[i] <= busy[j] /\ (busy[j] = busy[i] => i <= j)

Chosen == CASE variant = "processpool" -> next_alive
            [] variant = "pool_cgi" -> sub_process_counter
            [] variant = "springsnail" -> get_most_free_srv

After_stays(i) == i
After(i) == (i + 1) % m_process_number

(* an event of the listening socket; a message to a dead child is lost *)
Told_all(i) == {j \in Child : Alive(j)}
Told(i) == {j \in {i} : Alive(j)}

dispatch ==
    /\ parent = "loop" /\ edge /\ edge' = FALSE
    /\ IF variant = "processpool" /\ m_pid = {}
       THEN /\ m_stop' = TRUE /\ missed' = missed + 1
            /\ UNCHANGED <<sub_process_counter, notified, sent>>
       ELSE /\ sent' = [sent EXCEPT ![Chosen] = @ + 1]
            /\ sub_process_counter' = IF variant = "springsnail" THEN 0 ELSE After(Chosen)
            /\ notified' = notified \cup Told(Chosen)
            /\ missed' = missed + One(Chosen \in notified \/ ~ Alive(Chosen))
            /\ UNCHANGED m_stop
    /\ UNCHANGED <<variant, parent, m_pid, signals, proc, term, backlog, used, ratios, arrived, crashes>>

(* SIGCHLD: every dead child is reaped, and the pool stops with the last one *)
Reaped_one == {i \in Child : proc[i] = "zombie" /\ \A j \in 0..(i - 1) : proc[j] # "zombie"}
Reaped == {i \in Child : proc[i] = "zombie"}

Cleared_none(S) == m_pid
Cleared(S) == m_pid \ S

Stops(left) == left = {}

sigchld ==
    /\ parent = "loop" /\ "SIGCHLD" \in signals
    /\ signals' = signals \ {"SIGCHLD"}
    /\ proc' = [i \in Child |-> IF i \in Reaped THEN "gone" ELSE proc[i]]
    /\ m_pid' = Cleared(Reaped)
    /\ m_stop' = Stops(m_pid')
    /\ UNCHANGED <<variant, parent, sub_process_counter, term, backlog, edge, notified, used, ratios, missed, counts>>

sigterm_arrives ==
    /\ parent = "loop" /\ signals' = signals \cup {"SIGTERM"}
    /\ UNCHANGED <<variant, parent, table, proc, term, backlog, edge, notified, used, ratios, missed, counts>>

(* pool_cgi also calls kill( -1 ), which reaches every process there is *)
Targets == IF variant = "pool_cgi" /\ m_pid # Child THEN Child ELSE m_pid

sigterm ==
    LET killed == {i \in Targets : proc[i] = "forked"}      \* no handler yet
        told == {i \in Targets : Alive(i)} \ killed
    IN  /\ parent = "loop" /\ "SIGTERM" \in signals
        /\ signals' = (signals \ {"SIGTERM"}) \cup (IF killed # {} THEN {"SIGCHLD"} ELSE {})
        /\ term' = [i \in Child |->
             IF i \notin told THEN term[i]
             ELSE IF variant = "pool_cgi" \/ term[i] = "flag" THEN "flag" ELSE "pipe"]
        /\ proc' = [i \in Child |->
             IF i \in killed THEN "zombie"
             ELSE IF i \in told /\ variant = "pool_cgi" /\ proc[i] = "wait" THEN "top" ELSE proc[i]]
        /\ notified' = notified \ killed
        /\ missed' = missed + Cardinality(notified \cap killed)
        /\ UNCHANGED <<variant, parent, table, backlog, edge, used, ratios, counts>>

(* springsnail: one recv() of a signed int takes up to four reports at once, the *)
(* lowest byte first, and leaves the other bytes 0                               *)
Byte(s, k) == IF k <= Len(s) THEN s[k] ELSE 0
Signed(b) == IF 2 * b >= ByteValues THEN b - ByteValues ELSE b
Ratio(s) ==
    Byte(s, 1) + ByteValues * (Byte(s, 2) + ByteValues * (Byte(s, 3) + ByteValues * Signed(Byte(s, 4))))

recv_ratio(i) ==
    LET n == IF Len(up[i]) < 4 THEN Len(up[i]) ELSE 4
    IN  /\ parent = "loop" /\ i \in m_pid /\ i \in reported
        /\ busy' = [busy EXCEPT ![i] = Ratio(SubSeq(up[i], 1, n))]
        /\ up' = [up EXCEPT ![i] = SubSeq(@, n + 1, Len(@))]
        /\ reported' = reported \ {i}
        /\ garbled' = IF n = 1 THEN garbled \ {i} ELSE garbled \cup {i}
        /\ UNCHANGED <<variant, parent, table, signals, proc, term, backlog, edge, notified, used, missed, counts>>

leave ==
    /\ parent = "loop" /\ m_stop /\ parent' = "left"
    /\ UNCHANGED <<variant, table, signals, proc, term, backlog, edge, notified, used, ratios, missed, counts>>

Next ==
    \/ connect \/ setup_sig_pipe \/ dispatch \/ sigchld \/ sigterm_arrives \/ sigterm \/ leave
    \/ \E i \in Child : crash(i) \/ child(i) \/ child_closes(i) \/ child_stale(i) \/ recv_ratio(i)

Spec == Init /\ [][Next]_vars

Largest == CHOOSE v \in DOMAIN Sizes : \A w \in DOMAIN Sizes : Sizes[w] <= Sizes[v]
Places == 0..(Sizes[Largest] - 1)

(* Processes run and epoll_wait serves every ready descriptor of a process in turn. *)
FairSpec ==
    /\ Spec
    /\ WF_vars(setup_sig_pipe) /\ WF_vars(sigchld) /\ WF_vars(sigterm) /\ WF_vars(leave)
    /\ \A i \in Places : /\ WF_vars(i \in Child /\ child(i))
                         /\ SF_vars(i \in Child /\ child_signal(i))
-----------------------------------------------------------------------------
(* The table lists exactly the children that waitpid() has not returned: their *)
(* pids are not used again, so the parent never signals a stranger.  And the   *)
(* pool stops only when every child has been reaped.                           *)
TableAgrees ==
    /\ m_pid = {i \in Child : proc[i] # "gone"}
    /\ sub_process_counter \in Child
    /\ m_stop => m_pid = {}

(* A connection waits without a message on its way to a child only if its own  *)
(* event was merged with another one or its message went to a dead child.  So  *)
(* every accept() finds a connection, and no two children compete for one.     *)
WaitsOnlyIfMissed == backlog = One(edge) + Cardinality(notified) + missed

(* The connections go to the children fairly.  15-1 takes turns among the      *)
(* children that are left, whoever dies.  springsnail tells a child with the   *)
(* fewest connections, provided that all children live, every report has been  *)
(* read, none together with another, and none is too large for a byte: but the *)
(* NULL entries count, and two of them make a child look as if it had one      *)
(* connection more.                                                            *)
Settled(i) == Alive(i) /\ up[i] = <<>> /\ i \notin garbled /\ 2 * conns[i] + nulls[i] < ByteValues
Balanced ==
    [][/\ variant = "processpool" => \A i, j \in m_pid' : sent'[i] <= sent'[j] + 1
       /\ variant = "springsnail" /\ (\A j \in Child : Settled(j)) =>
              \A i \in Child : sent'[i] # sent[i] => \A j \in Child : 2 * conns[i] <= 2 * conns[j] + nulls[j]]_vars

(* SIGTERM stops the pool, however many children share one SIGCHLD, if a child *)
(* is left whose end the parent can notice.  In pool_cgi a child can sleep     *)
(* through one SIGTERM, but not through all.                                   *)
TermStops ==
    /\ ("SIGTERM" \in signals /\ \E i \in Child : Alive(i))
          ~> (parent = "left" \/ variant = "pool_cgi")
    /\ (<>(parent = "loop" /\ \E i \in Child : Alive(i))) /\ ([]<>("SIGTERM" \in signals))
          => <>(parent = "left")
=============================================================================
