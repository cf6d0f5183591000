------------------------------- MODULE MCTalk -------------------------------
(* The two talk servers.  With processes and shared memory: two users at a time,
   two pids and three forks, so that a child is reaped, the other one moves to
   its place, and the pid of the first is used again.  With poll: three users,
   and four connections and texts together.  The run about the ends has two
   forks and one text in shared memory: enough for a text and the end of its
   client to meet in one event, and for two ends to share one SIGCHLD. *)
EXTENDS ShmTalk

CONSTANTS
    Fd, T_USER_LIMIT, MaxActs       \* of the server with poll

ASSUME TalkAssumption == T_USER_LIMIT \in Nat /\ Fd \subseteq Nat \ {0}

VARIABLES program, t_fds, t_users, t_i, t_backlog, t_rcv, t_gone, t_err, t_texts, t_conns,
          t_served, t_meant, t_owed, t_lost, t_stale, t_wrong

T == INSTANCE TalkServer
         WITH fds <- t_fds, users <- t_users, i <- t_i, backlog <- t_backlog, rcv <- t_rcv,
              gone <- t_gone, err <- t_err, texts <- t_texts, conns <- t_conns,
              served <- t_served, meant <- t_meant, owed <- t_owed, lost <- t_lost, stale <- t_stale, wrong <- t_wrong,
              USER_LIMIT <- T_USER_LIMIT

t_vars == <<t_fds, t_users, t_i, t_backlog, t_rcv, t_gone, t_err, t_texts, t_conns,
            t_served, t_meant, t_owed, t_lost, t_stale, t_wrong>>

MCInit == program \in {"shared memory", "poll"} /\ Init /\ T!Init

MCNext ==
    \/ program = "shared memory" /\ Next /\ UNCHANGED <<program, t_vars>>
    \/ program = "poll" /\ T!Next /\ UNCHANGED <<program, vars>>

(* Nothing that is treated fairly is enabled in the program that is not chosen. *)
MCSpec == MCInit /\ [][MCNext]_<<program, vars, t_vars>> /\ Fairness /\ T!Fairness
-----------------------------------------------------------------------------
(* However clients come and go during a round of poll(), the array lists each  *)
(* connection once, each entry that was reported has exactly one turn, and     *)
(* recv never returns 0, as the code says.                                     *)
TurnsComplete == T!TurnsComplete

(* Until a reaped child's place is taken by another, children write to         *)
(* segments of their own and nobody is sent their own message; and until a     *)
(* client leaves whose buffer is still to be sent, clients of the poll server  *)
(* are sent what was meant for them.                                           *)
OwnText == OwnSegment /\ T!RightText

=============================================================================
