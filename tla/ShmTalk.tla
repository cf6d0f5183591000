------------------------------ MODULE ShmTalk ------------------------------
(***************************************************************************)
(* The talk server of codes/13/13-4shm_talk_server.cpp: one child process  *)
(* per client, one segment of shared memory per child, a pipe between the  *)
(* parent and each child.  A child announces a message by sending its idx; *)
(* the parent passes the idx on and the other children send that segment   *)
(* to their clients.  Sockets and pipes are edge-triggered and each event  *)
(* is answered by one recv.  A pipe is named by the pid of its child.      *)
(***************************************************************************)
EXTENDS Integers, Sequences, FiniteSets

CONSTANTS
    Pid,            \* the process numbers fork() may return
    NoPid,
    USER_LIMIT,
    MaxForks, MaxMessages   \* bounds

ASSUME LimitAssumption == USER_LIMIT \in Nat \ {0}
ASSUME PidAssumption == NoPid \notin Pid

Idx == 0..(USER_LIMIT - 1)

VARIABLES
    users,          \* users[i+1] is the pid of user i; its length is user_count
    sub_process,    \* pid -> index in users, or -1
    signals,        \* the signals in sig_pipefd
    terminate, stop_server,
    left,           \* the parent has left its loop: it ends the batch of events first
    pc,             \* pc[p]: where child p is; "none" before fork and after waitpid
    stop_child,     \* the children whose stop_child is set
    idx,            \* idx[p]: the argument of run_child
    share_mem,      \* share_mem[i]: the pid whose client wrote the message in segment i
    up, down,       \* the numbers in the pipe from, and to, each child
    edge,           \* the pipe ends with an event not yet returned by epoll_wait
    unread, closed, \* what child p's connfd holds: unread[p] texts, and the end of the client's side
    ready,          \* the children whose connfd has an event not yet returned by epoll_wait
    echoed,         \* children that sent their client the message that client wrote
    forks, messages,
    moved           \* reaping a child has moved another one to a lower index

vars == <<users, sub_process, signals, terminate, stop_server, left, pc, stop_child, idx, share_mem,
          up, down, edge, unread, closed, ready, echoed, forks, messages, moved>>
parent == <<users, sub_process, signals, terminate, stop_server, left, forks, moved>>
pipes == <<up, down, edge>>
connfd == <<unread, closed, ready>>

Init ==
    /\ users = <<>> /\ signals = {} /\ terminate = FALSE /\ stop_server = FALSE /\ left = FALSE
    /\ sub_process = [p \in Pid |-> -1]
    /\ pc = [p \in Pid |-> "none"]
    /\ stop_child = {} /\ edge = {} /\ echoed = {} /\ moved = FALSE
    /\ idx = [p \in Pid |-> 0]
    /\ share_mem = [i \in Idx |-> NoPid]
    /\ up = [p \in Pid |-> <<>>] /\ down = [p \in Pid |-> <<>>]
    /\ unread = [p \in Pid |-> 0] /\ closed = {} /\ ready = {}
    /\ forks = 0 /\ messages = 0

Running(p) == pc[p] \notin {"none", "zombie"}
-----------------------------------------------------------------------------
(* The clients (external).  Whatever arrives raises an event.  A client that     *)
(* closes with data of its own unread resets the connection, and what it had     *)
(* sent may be thrown away.                                                      *)
client_talks(p) ==
    /\ Running(p) /\ p \notin closed /\ messages < MaxMessages
    /\ unread' = [unread EXCEPT ![p] = @ + 1]
    /\ ready' = ready \cup {p}
    /\ messages' = messages + 1
    /\ UNCHANGED <<parent, pipes, closed, pc, stop_child, idx, share_mem, echoed>>

client_leaves(p) ==
    /\ Running(p) /\ p \notin closed
    /\ closed' = closed \cup {p} /\ unread' \in {unread, [unread EXCEPT ![p] = 0]}
    /\ ready' = ready \cup {p}
    /\ UNCHANGED <<parent, pipes, pc, stop_child, idx, share_mem, echoed, messages>>
-----------------------------------------------------------------------------
(* run_child *)
Child(p, from, to) == pc[p] = from /\ pc' = [pc EXCEPT ![p] = to]

child_starts(p) ==      \* SIGTERM has child_term_handler from here on
    /\ Child(p, "forked", "top")
    /\ UNCHANGED <<parent, pipes, stop_child, idx, share_mem, connfd, echoed, messages>>

(* while( !stop_child ), and epoll_wait after it: a signal in between goes unnoticed *)
child_loops(p) ==
    /\ p \notin stop_child
    /\ Child(p, "top", "checked")
    /\ UNCHANGED <<parent, pipes, stop_child, idx, share_mem, connfd, echoed, messages>>

child_waits(p) ==
    /\ Child(p, "checked", "wait")
    /\ UNCHANGED <<parent, pipes, stop_child, idx, share_mem, connfd, echoed, messages>>

child_exits(p) ==
    /\ p \in stop_child
    /\ Child(p, "top", "zombie")
    /\ signals' = signals \cup {"SIGCHLD"}
    /\ unread' = [unread EXCEPT ![p] = 0] /\ closed' = closed \ {p} /\ ready' = ready \ {p}
    /\ UNCHANGED <<users, sub_process, terminate, stop_server, left, forks, moved, pipes, stop_child,
                   idx, share_mem, echoed, messages>>

(* an event on connfd: the segment is cleared, then recv fills it, once *)
child_clears(p) ==
    /\ p \in ready
    /\ Child(p, "wait", "recv")
    /\ ready' = ready \ {p}
    /\ share_mem' = [share_mem EXCEPT ![idx[p]] = NoPid]
    /\ UNCHANGED <<parent, pipes, stop_child, idx, unread, closed, echoed, messages>>

(* recv takes what fits of the texts that have come; it fails with EAGAIN if an  *)
(* earlier one has already taken what raised the event.                          *)
child_recv(p) ==
    /\ Child(p, "recv", "top")
    /\ IF unread[p] > 0
       THEN /\ share_mem' = [share_mem EXCEPT ![idx[p]] = p]
            /\ up' = [up EXCEPT ![p] = Append(@, idx[p])]
            /\ edge' = edge \cup {<<"up", p>>}
            /\ \E rest \in 0..(unread[p] - 1) : unread' = [unread EXCEPT ![p] = rest]
            /\ UNCHANGED stop_child
       ELSE /\ stop_child' = stop_child \cup ({p} \cap closed)
            /\ UNCHANGED <<share_mem, up, edge, unread>>
    /\ UNCHANGED <<parent, down, closed, ready, idx, echoed, messages>>

(* an event on the pipe: one number is read, its segment goes to the client; one *)
(* that has closed may answer with a reset, which is an event, too               *)
child_sends(p) ==
    /\ <<"down", p>> \in edge
    /\ Child(p, "wait", "top")
    /\ edge' = edge \ {<<"down", p>>}
    /\ echoed' = IF share_mem[Head(down[p])] = p THEN echoed \cup {p} ELSE echoed
    /\ down' = [down EXCEPT ![p] = Tail(@)]
    /\ \/ UNCHANGED connfd
       \/ /\ p \in closed /\ ready' = ready \cup {p}
          /\ unread' \in {unread, [unread EXCEPT ![p] = 0]} /\ UNCHANGED closed
    /\ UNCHANGED <<parent, up, stop_child, idx, share_mem, messages>>

child(p) ==
    \/ child_starts(p) \/ child_loops(p) \/ child_waits(p) \/ child_exits(p)
    \/ child_clears(p) \/ child_recv(p) \/ child_sends(p)
-----------------------------------------------------------------------------
(* The parent: accept and fork, then the child's place in the tables *)
Room == Len(users) < USER_LIMIT

Slot_in_turn == forks % USER_LIMIT
Slot == Len(users)

accept(p) ==
    /\ ~ left /\ forks < MaxForks
    /\ Room                                 \* otherwise "too many users"
    /\ pc[p] = "none"
    /\ forks' = forks + 1
    /\ pc' = [pc EXCEPT ![p] = "forked"]
    /\ idx' = [idx EXCEPT ![p] = Slot]
    /\ sub_process' = [sub_process EXCEPT ![p] = Len(users)]
    /\ users' = Append(users, p)
    /\ stop_child' = stop_child \ {p} /\ echoed' = echoed \ {p}
    /\ UNCHANGED <<signals, terminate, stop_server, left, moved, share_mem, pipes, connfd, messages>>

(* one turn of while( waitpid() > 0 ): the last user takes the place of the dead one *)
Vacate_swap_lost(del, last) == [sub_process EXCEPT ![users[del + 1]] = -1]
Vacate(del, last) ==
    [[sub_process EXCEPT ![users[del + 1]] = -1] EXCEPT ![last] = del]

Reaped(p) ==
    LET del == sub_process[p]
        last == users[Len(users)]
    IN  /\ del >= 0                         \* always, by TablesAgree
        /\ sub_process' = Vacate(del, last)
        /\ users' = SubSeq([users EXCEPT ![del + 1] = last], 1, Len(users) - 1)
        /\ moved' = (moved \/ last # p)
        /\ edge' = edge \ {<<"up", p>>, <<"down", p>>}
        /\ up' = [up EXCEPT ![p] = <<>>] /\ down' = [down EXCEPT ![p] = <<>>]
        /\ pc' = [pc EXCEPT ![p] = "none"]

(* the SIGCHLD byte stays until waitpid finds no more dead children *)
Zombies == {p \in Pid : pc[p] = "zombie"}
Unreaped_stops_early(p) == {}
Unreaped(p) == Zombies \ {p}

Handled(p) == IF Unreaped(p) = {} THEN signals \ {"SIGCHLD"} ELSE signals

Finished_early == terminate
Finished == terminate /\ users' = <<>>

sigchld(p) ==
    /\ ~ left /\ "SIGCHLD" \in signals
    /\ p \in Zombies
    /\ Reaped(p)
    /\ signals' = Handled(p)
    /\ stop_server' = (stop_server \/ (Unreaped(p) = {} /\ Finished))
    /\ UNCHANGED <<terminate, left, forks, stop_child, idx, share_mem, connfd, echoed, messages>>

sigterm_arrives ==
    /\ ~ left
    /\ signals' = signals \cup {"SIGTERM"}
    /\ UNCHANGED <<users, sub_process, terminate, stop_server, left, forks, moved, pc, stop_child, idx,
                   share_mem, pipes, connfd, echoed, messages>>

(* kill: a child before child_starts only has the parent's handler, and its pipe *)
(* is closed; a child in epoll_wait returns to the top of its loop               *)
Killed == {p \in Pid : pc[p] \notin {"none", "zombie", "forked"}}

sigterm ==
    /\ ~ left /\ "SIGTERM" \in signals
    /\ signals' = signals \ {"SIGTERM"}
    /\ IF users = <<>>
       THEN stop_server' = TRUE /\ UNCHANGED <<terminate, stop_child, pc>>
       ELSE /\ terminate' = TRUE
            /\ stop_child' = stop_child \cup {users[i] : i \in {j \in DOMAIN users : users[j] \in Killed}}
            /\ pc' = [p \in Pid |-> IF pc[p] = "wait" THEN "top" ELSE pc[p]]
            /\ UNCHANGED stop_server
    /\ UNCHANGED <<users, sub_process, left, forks, moved, idx, share_mem, pipes, connfd, echoed, messages>>

(* an event on the pipe of child p: one number goes to every user but p *)
Others_all(p) == {users[i] : i \in DOMAIN users}
Others(p) == {users[i] : i \in DOMAIN users} \ {p}

pass_on(p) ==
    /\ ~ left /\ <<"up", p>> \in edge
    /\ up' = [up EXCEPT ![p] = Tail(@)]
    /\ down' = [q \in Pid |-> IF q \in Others(p) THEN Append(down[q], Head(up[p])) ELSE down[q]]
    /\ edge' = (edge \ {<<"up", p>>}) \cup {<<"down", q>> : q \in Others(p)}
    /\ UNCHANGED <<parent, pc, stop_child, idx, share_mem, connfd, echoed, messages>>

leave ==
    /\ stop_server /\ ~ left
    /\ left' = TRUE
    /\ UNCHANGED <<users, sub_process, signals, terminate, stop_server, forks, moved, pc, stop_child,
                   idx, share_mem, pipes, connfd, echoed, messages>>

Next ==
    \/ \E p \in Pid : \/ client_talks(p) \/ client_leaves(p) \/ child(p)
                      \/ accept(p) \/ sigchld(p) \/ pass_on(p)
    \/ sigterm_arrives \/ sigterm \/ leave

Spec == Init /\ [][Next]_vars

(* Processes run, the parent serves its events, and clients leave in the end. *)
Fairness ==
    /\ \A p \in Pid : /\ WF_vars(child(p)) /\ SF_vars(child_clears(p)) /\ SF_vars(client_leaves(p))
                      /\ WF_vars(sigchld(p)) /\ WF_vars(pass_on(p))
    /\ WF_vars(sigterm) /\ WF_vars(leave)

FairSpec == Spec /\ Fairness
-----------------------------------------------------------------------------
TypeOK ==
    /\ users \in Seq(Pid) /\ Len(users) <= USER_LIMIT
    /\ sub_process \in [Pid -> -1..(USER_LIMIT - 1)]
    /\ idx \in [Pid -> Idx]
    /\ share_mem \in [Idx -> Pid \cup {NoPid}]
    /\ up \in [Pid -> Seq(Idx)] /\ down \in [Pid -> Seq(Idx)]
    /\ edge \subseteq {"up", "down"} \X Pid
    /\ \A p \in Pid : /\ <<"up", p>> \in edge => up[p] # <<>>
                      /\ <<"down", p>> \in edge => down[p] # <<>>

(* The tables agree: sub_process inverts users, and users lists exactly the    *)
(* children that waitpid has not returned yet.  So SIGCHLD deletes the right   *)
(* user and SIGTERM reaches every child, whatever the order of their ends and  *)
(* whichever pids fork() uses again.                                           *)
TablesAgree ==
    /\ TypeOK
    /\ \A i \in DOMAIN users : sub_process[users[i]] = i - 1
    /\ {users[i] : i \in DOMAIN users} = {p \in Pid : pc[p] # "none"}

(* Until a reaped child's place is taken by another, no two children write to  *)
(* the same segment, and nobody is sent a message of their own.  Afterwards    *)
(* they may: run_child keeps the idx it started with, and the next child gets  *)
(* user_count, which the moved one still uses.                                 *)
OwnSegment ==
    ~ moved =>
        /\ \A p, q \in Pid : p # q /\ pc[p] # "none" /\ pc[q] # "none" => idx[p] # idx[q]
        /\ echoed = {}

(* stop_server is set only when no child is left; the events of the same batch *)
(* are still served, so a client accepted last keeps its child.                *)
StopsClean == [][stop_server' /\ ~ stop_server => \A p \in Pid : pc'[p] = "none"]_vars

(* Child p sleeps, its client has gone, and no event is left to tell it: the   *)
(* end of the client came with a text, and recv is called once for each event. *)
Deaf(p) == pc[p] = "wait" /\ p \in closed /\ p \notin ready

(* A child ends after its client has, unless it is deaf to that for ever.      *)
LeavesNoticed == \A p \in Pid : p \in closed ~> (p \notin closed \/ []Deaf(p))

(* After SIGTERM the server stops, provided the clients leave in the end: a    *)
(* child that missed its SIGTERM still ends with its client, and every end is  *)
(* noticed even if several share one SIGCHLD.  Only a child that is deaf to    *)
(* the end of its client as well keeps the server alive.                       *)
TermStops == terminate ~> (left \/ [](\E p \in Pid : Deaf(p)))
=============================================================================
