------------------------------ MODULE MCSpring ------------------------------
(* springsnail's child: the bytes of one connection, or the maps of all of them.
   A buffer shorter than what is sent; two conns and a fifth descriptor, so that
   numbers are used again in both roles. *)
EXTENDS SpringConn

CONSTANTS Fd, Conn, NULL

ASSUME MgrAssumption == Fd \subseteq Nat \ {0} /\ NULL \notin Conn     \* 0 is the pipe

VARIABLES part, open, m_conns, m_used, m_freed, m_cltfd, m_srvfd, events, nulled

M == INSTANCE SpringMgr WITH batch <- events
mgr == <<open, m_conns, m_used, m_freed, m_cltfd, m_srvfd, events, nulled>>

MCInit ==
    /\ part \in {"conn", "mgr"}
    /\ Init /\ (part = "mgr" => ~ mayFill)
    /\ M!Init /\ (part = "conn" => open = {})

MCNext ==
    \/ part = "conn" /\ Next /\ UNCHANGED <<part, mgr>>
    \/ part = "mgr" /\ M!Next /\ UNCHANGED <<part, vars>>

MCSpec ==
    /\ MCInit /\ [][MCNext]_<<part, vars, mgr>>
    /\ WF_vars(part = "conn" /\ epoll_wait /\ UNCHANGED <<mayFill, part, mgr>>)
    /\ WF_vars(part = "conn" /\ process /\ UNCHANGED <<mayFill, part, mgr>>)
-----------------------------------------------------------------------------
(* Although numbers are used again while events of the same batch are still to *)
(* come, no conn is in two of the maps at once (one whose reconnect failed is  *)
(* in none), no entry of m_used leads to the conn of another client, and every *)
(* open socket can be closed later.  Both descriptors of a bound conn lead to  *)
(* it, unless process() once left a NULL in m_used under that number, which    *)
(* insert() does not replace.                                                  *)
PoolsSound == part = "mgr" => M!TypeOK /\ M!OnePool /\ M!NoMixup /\ M!NoLeak /\ M!BothEndsFound
=============================================================================
