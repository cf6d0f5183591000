----------------------------- MODULE SpringMgr -----------------------------
(***************************************************************************)
(* The connections of one child of springsnail: mgr.cpp keeps conn objects *)
(* connected to the back-end server (m_conns), bound to a client (m_used,  *)
(* under both descriptors) or disconnected (m_freed).  Descriptors are     *)
(* numbers that the kernel gives out again, lowest first; an event of a    *)
(* batch may come after the connection it is about has been freed.  What   *)
(* is relayed is left to SpringConn.                                       *)
(***************************************************************************)
EXTENDS Integers, Functions

CONSTANTS
    Fd,             \* the descriptors accept() and socket() may return, numbers
    Conn,           \* the conn objects
    NULL

VARIABLES
    open,           \* the open sockets
    m_conns, m_used, m_freed,   \* maps from a descriptor to a conn, or to NULL
    m_cltfd, m_srvfd,           \* of each conn; -1 is none
    batch,          \* the events epoll_wait has returned: descriptors, and 0 for the pipe
    nulled          \* descriptors under which m_used has got a NULL

vars == <<open, m_conns, m_used, m_freed, m_cltfd, m_srvfd, batch, nulled>>

Empty == [f \in {} |-> NULL]
Without(map, fds) == Restrict(map, DOMAIN map \ fds)
Lowest(fds) == {f \in fds : \A g \in fds : f <= g}

(* std::map::insert leaves an entry that is there *)
Insert(map, f, c) == [g \in DOMAIN map \cup {f} |-> IF g \in DOMAIN map THEN map[g] ELSE c]

(* The constructor: some connections may fail *)
Init ==
    \E n \in Fd \cup {0} : \E cs \in [1..n -> Conn] :
        /\ 1..n \subseteq Fd /\ IsInjective(cs)
        /\ open = 1..n /\ m_conns = cs
        /\ m_used = Empty /\ m_freed = Empty
        /\ m_cltfd = [c \in Conn |-> -1]
        /\ m_srvfd = [c \in Conn |-> IF c \in Range(cs) THEN CHOOSE f \in 1..n : cs[f] = c ELSE -1]
        /\ batch = {} /\ nulled = {}

(* Only sockets that pick_conn has added are watched *)
epoll_wait ==
    /\ batch = {}
    /\ batch' \in SUBSET ((open \ DOMAIN m_conns) \cup {0}) \ {{}}
    /\ UNCHANGED <<open, m_conns, m_used, m_freed, m_cltfd, m_srvfd, nulled>>

Handles(e) == e \in batch /\ batch' = batch \ {e}

Bind_clt(c, cltfd, srvfd) == Insert(m_used, cltfd, c)
Bind(c, cltfd, srvfd) == Insert(Insert(m_used, cltfd, c), srvfd, c)

(* The parent has sent a message: accept(), then pick_conn(); without a conn the *)
(* client is closed again                                                        *)
accept ==
    /\ Handles(0)
    /\ IF m_conns = Empty \/ open = Fd
       THEN UNCHANGED <<open, m_conns, m_used, m_cltfd>>
       ELSE \E cltfd \in Lowest(Fd \ open), srvfd \in Lowest(DOMAIN m_conns) :
            LET c == m_conns[srvfd]
            IN  /\ open' = open \cup {cltfd}
                /\ m_conns' = Without(m_conns, {srvfd})
                /\ m_used' = Bind(c, cltfd, srvfd)
                /\ m_cltfd' = [m_cltfd EXCEPT ![c] = cltfd]
    /\ UNCHANGED <<m_freed, m_srvfd, nulled>>

(* process(): m_used[ fd ] makes an entry when there is none *)
Looked(f) == Insert(m_used, f, NULL)

Erased_clt(c) == Without(m_used, {m_cltfd[c]})
Erased(c) == Without(m_used, {m_cltfd[c], m_srvfd[c]})

Closed(c) == {m_cltfd[c], m_srvfd[c]}

FreedKey(c) == m_srvfd[c]

(* the client has closed, or the server has and the buffer has been written *)
free_conn(f) ==
    LET c == m_used[f] IN
    /\ f \in DOMAIN m_used /\ c # NULL /\ m_cltfd[c] = f
    /\ Handles(f)
    /\ open' = open \ Closed(c)
    /\ m_used' = Erased(c)
    /\ m_cltfd' = [m_cltfd EXCEPT ![c] = -1]
    /\ m_freed' = Insert(m_freed, FreedKey(c), c)
    /\ UNCHANGED <<m_conns, m_srvfd, nulled>>

(* any other event changes at most what SpringConn models *)
process(f) ==
    /\ f # 0 /\ Handles(f)
    /\ m_used' = Looked(f)
    /\ nulled' = IF f \in DOMAIN m_used THEN nulled ELSE nulled \cup {f}
    /\ UNCHANGED <<open, m_conns, m_freed, m_cltfd, m_srvfd>>

Remaining_all == m_freed
Remaining == Empty

(* The descriptors that socket() returns when the conns S of m_freed are        *)
(* connected in their order: each time the lowest that is free                  *)
Reconnected(S) ==
    {fd \in [S -> Fd \ open] :
        \A f \in S, g \in Fd \ open : g < fd[f] <=> \E h \in S : h < f /\ fd[h] = g}

(* epoll_wait has timed out: every freed conn is connected again, or dropped *)
recycle_conns ==
    /\ batch = {} /\ m_freed # Empty
    /\ \E S \in SUBSET DOMAIN m_freed : \E fd \in Reconnected(S) :
          /\ open' = open \cup Range(fd)
          /\ m_conns' = [g \in DOMAIN m_conns \cup Range(fd) |->
                            IF g \in DOMAIN m_conns THEN m_conns[g]
                            ELSE m_freed[CHOOSE f \in S : fd[f] = g]]
          /\ m_srvfd' = [c \in Conn |-> IF \E f \in S : m_freed[f] = c
                                        THEN fd[CHOOSE f \in S : m_freed[f] = c]
                                        ELSE m_srvfd[c]]
    /\ m_freed' = Remaining
    /\ UNCHANGED <<m_used, m_cltfd, batch, nulled>>

Next ==
    \/ epoll_wait \/ accept \/ recycle_conns
    \/ \E f \in Fd : free_conn(f) \/ process(f)

Spec == Init /\ [][Next]_vars
-----------------------------------------------------------------------------
Bound == {c \in Conn : m_cltfd[c] # -1}

TypeOK ==
    /\ open \subseteq Fd /\ batch \subseteq Fd \cup {0}
    /\ DOMAIN m_conns \subseteq open /\ Range(m_conns) \subseteq Conn
    /\ DOMAIN m_used \subseteq Fd /\ Range(m_used) \subseteq Conn \cup {NULL}
    /\ DOMAIN m_freed \subseteq Fd /\ Range(m_freed) \subseteq Conn
    /\ m_cltfd \in [Conn -> Fd \cup {-1}] /\ m_srvfd \in [Conn -> Fd \cup {-1}]

(* No conn is in two pools: ready, bound to a client, or freed.  A conn whose    *)
(* reconnect failed has been dropped and is in none.                             *)
OnePool ==
    /\ Range(m_conns) \cap Bound = {} /\ Range(m_freed) \cap Bound = {}
    /\ Range(m_conns) \cap Range(m_freed) = {}
    /\ IsInjective(m_conns) /\ IsInjective(m_freed)

(* No two clients are mixed up: an entry of m_used is about a descriptor of its  *)
(* conn, although numbers are used again while events of the same batch are      *)
(* still to come, and no descriptor belongs to two conns.                        *)
NoMixup ==
    /\ \A f \in DOMAIN m_used : m_used[f] # NULL => f \in {m_cltfd[m_used[f]], m_srvfd[m_used[f]]}
    /\ \A c, d \in Bound : c # d => {m_cltfd[c], m_srvfd[c]} \cap {m_cltfd[d], m_srvfd[d]} = {}

(* Every open socket can be closed later: it belongs to a ready or bound conn.   *)
NoLeak == open = DOMAIN m_conns \cup UNION {{m_cltfd[c], m_srvfd[c]} : c \in Bound}

(* Both descriptors of a bound conn lead to it, unless m_used once got a NULL    *)
(* under that number: insert() does not replace it, and the connection is deaf.  *)
BothEndsFound ==
    \A c \in Bound : \A f \in {m_cltfd[c], m_srvfd[c]} \ nulled : f \in DOMAIN m_used /\ m_used[f] = c
=============================================================================
