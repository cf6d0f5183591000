----------------------------- MODULE SpringConn -----------------------------
(***************************************************************************)
(* One connection of springsnail: the buffers of conn.cpp and what         *)
(* mgr::process does with them when epoll reports a socket.  m_<s>_buf     *)
(* holds what was read from side s and goes to the other side.  The        *)
(* sockets are edge-triggered and watched for reading or for writing,      *)
(* never for both: modfd replaces what it finds.                           *)
(***************************************************************************)
EXTENDS Integers, Sequences

CONSTANTS
    BUF_SIZE,
    MaxBytes        \* bound on what each side sends

ASSUME SizeAssumption == BUF_SIZE \in Nat /\ MaxBytes \in Nat

Side == {"clt", "srv"}
Peer(s) == IF s = "clt" THEN "srv" ELSE "clt"

VARIABLES
    mayFill,        \* whether sockets may refuse bytes for a while
    sent,           \* how many bytes a side has sent; they are 1, 2, 3, ...
    in,             \* the bytes in a socket that nobody has read
    eof,            \* the sides that have closed
    got,            \* got[s]: what the other side has received from s
    full,           \* the sockets that take no more bytes
    buf,            \* buf[s]: m_<s>_buf, m_<s>_read_idx, m_<s>_write_idx
    m_srv_closed,
    mask,           \* what epoll watches a socket for
    fresh,          \* the sockets with an event to report
    batch,          \* the events epoll_wait has returned that are not handled yet
    freed,          \* free_conn has been called
    filled, failed, early   \* a socket was full; a write failed; the client was read after m_srv_closed

vars == <<mayFill, sent, in, eof, got, full, buf, m_srv_closed, mask, fresh, batch, freed, filled, failed, early>>
history == <<filled, early>>

Init ==
    /\ mayFill \in BOOLEAN
    /\ sent = [s \in Side |-> 0]
    /\ in = [s \in Side |-> <<>>] /\ got = in
    /\ eof = {} /\ full = {} /\ batch = {} /\ fresh = {}
    /\ buf = [s \in Side |-> [data |-> <<>>, read_idx |-> 0, write_idx |-> 0]]
    /\ mask = [s \in Side |-> "IN"]
    /\ m_srv_closed = FALSE /\ freed = FALSE
    /\ filled = FALSE /\ failed = FALSE /\ early = FALSE
-----------------------------------------------------------------------------
(* The peers and the kernel *)
send(s) ==
    /\ ~ freed /\ s \notin eof /\ sent[s] < MaxBytes
    /\ sent' = [sent EXCEPT ![s] = @ + 1]
    /\ in' = [in EXCEPT ![s] = Append(@, sent[s] + 1)]
    /\ fresh' = IF mask[s] = "IN" THEN fresh \cup {s} ELSE fresh
    /\ UNCHANGED <<eof, got, full, buf, m_srv_closed, mask, batch, freed, failed, history>>

closes(s) ==
    /\ ~ freed /\ s \notin eof
    /\ eof' = eof \cup {s}
    /\ fresh' = IF mask[s] = "IN" THEN fresh \cup {s} ELSE fresh
    /\ UNCHANGED <<sent, in, got, full, buf, m_srv_closed, mask, batch, freed, failed, history>>

drains(s) ==
    /\ s \in full
    /\ full' = full \ {s}
    /\ fresh' = IF mask[s] = "OUT" THEN fresh \cup {s} ELSE fresh
    /\ UNCHANGED <<sent, in, eof, got, buf, m_srv_closed, mask, batch, freed, failed, history>>

(* EPOLL_CTL_MOD reports at once what is already there *)
Ready(s, ev) == IF ev = "IN" THEN in'[s] # <<>> \/ s \in eof ELSE s \notin full'
modfd(evs) ==
    /\ mask' = [s \in Side |-> IF s \in DOMAIN evs THEN evs[s] ELSE mask[s]]
    /\ fresh' = {s \in DOMAIN evs : Ready(s, evs[s])} \cup (fresh \ DOMAIN evs)

Only(s, ev) == [x \in {s} |-> ev]

epoll_wait ==
    /\ ~ freed /\ batch = {} /\ fresh # {}
    /\ batch' = {<<s, mask[s]>> : s \in fresh}
    /\ fresh' = {}
    /\ UNCHANGED <<sent, in, eof, got, full, buf, m_srv_closed, mask, freed, failed, history>>

free_conn == freed' = TRUE /\ UNCHANGED <<mask, fresh>>
-----------------------------------------------------------------------------
(* read_clt and read_srv: recv until the socket is empty or the buffer is full *)
Pending(s) == buf[s].read_idx - buf[s].write_idx
Room(s) == BUF_SIZE - buf[s].read_idx
Taken(s) == IF Len(in[s]) < Room(s) THEN Len(in[s]) ELSE Room(s)

read(s) ==
    /\ buf' = [buf EXCEPT ![s].data = SubSeq(@, 1, buf[s].read_idx) \o SubSeq(in[s], 1, Taken(s)),
                          ![s].read_idx = @ + Taken(s)]
    /\ in' = [in EXCEPT ![s] = SubSeq(@, Taken(s) + 1, Len(@))]
    /\ UNCHANGED <<sent, eof, got, full>>

ReadResult(s) ==
    CASE buf'[s].read_idx >= BUF_SIZE -> "BUFFER_FULL"
      [] buf'[s].read_idx < BUF_SIZE /\ s \in eof -> "CLOSED"
      [] OTHER -> IF buf'[s].read_idx > buf'[s].write_idx THEN "OK" ELSE "NOTHING"

(* write_srv and write_clt: send n bytes to s, everything if n is all there is *)
Emptied(b) == [b EXCEPT !.read_idx = 0, !.write_idx = 0]

Advanced_not(b, n) == b
Advanced(b, n) == [b EXCEPT !.write_idx = @ + n]

(* with nothing left to write to s, both sockets are read again *)
Rearmed_own(s) == Only(s, "IN")
Rearmed(s) == [x \in Side |-> "IN"]

write(s, n, res) ==
    LET o == Peer(s) IN
    /\ got' = [got EXCEPT ![o] = @ \o SubSeq(buf[o].data, buf[o].write_idx + 1, buf[o].write_idx + n)]
    /\ buf' = [buf EXCEPT ![o] = IF res = "BUFFER_EMPTY" THEN Emptied(@) ELSE Advanced(@, n)]
    /\ CASE res = "BUFFER_EMPTY" -> n = Pending(o) /\ UNCHANGED <<full, filled, failed>>
         [] res = "TRY_AGAIN" -> /\ mayFill /\ n < Pending(o)
                                 /\ full' = full \cup {s} /\ filled' = TRUE /\ UNCHANGED failed
         [] res = "IOERR" -> /\ s \in eof /\ n < Pending(o)
                             /\ failed' = TRUE /\ UNCHANGED <<full, filled>>
    /\ s \in full => n = 0 /\ res # "BUFFER_EMPTY"
    /\ UNCHANGED <<sent, in, eof>>

(* mgr::process *)
Handles(ev) == ~ freed /\ ev \in batch /\ batch' = batch \ {ev}

read_clt ==
    /\ Handles(<<"clt", "IN">>)
    /\ read("clt")
    /\ \/ /\ ReadResult("clt") = "CLOSED" \/ m_srv_closed
          /\ free_conn
       \/ /\ ReadResult("clt") \in {"OK", "BUFFER_FULL"} /\ ~ m_srv_closed
          /\ modfd(Only("srv", "OUT")) /\ UNCHANGED freed
       \/ /\ ReadResult("clt") = "NOTHING" /\ ~ m_srv_closed
          /\ UNCHANGED <<mask, fresh, freed>>
    /\ early' = (early \/ m_srv_closed)
    /\ UNCHANGED <<m_srv_closed, filled, failed>>

write_clt ==
    /\ Handles(<<"clt", "OUT">>)
    /\ \E n \in 0..Pending("srv"), res \in {"BUFFER_EMPTY", "TRY_AGAIN", "IOERR"} :
        /\ write("clt", n, res)
        /\ CASE res = "IOERR" \/ m_srv_closed -> free_conn
             [] res = "TRY_AGAIN" /\ ~ m_srv_closed -> modfd(Only("clt", "OUT")) /\ UNCHANGED freed
             [] res = "BUFFER_EMPTY" /\ ~ m_srv_closed -> modfd(Rearmed("clt")) /\ UNCHANGED freed
    /\ UNCHANGED <<m_srv_closed, early>>

read_srv_frees ==
    /\ Handles(<<"srv", "IN">>)
    /\ read("srv")
    /\ CASE ReadResult("srv") = "NOTHING" -> UNCHANGED <<mask, fresh, freed>>
         [] ReadResult("srv") = "CLOSED" -> free_conn
         [] OTHER -> modfd(Only("clt", "OUT")) /\ UNCHANGED freed
    /\ UNCHANGED <<m_srv_closed, failed, history>>
read_srv ==
    /\ Handles(<<"srv", "IN">>)
    /\ read("srv")
    /\ IF ReadResult("srv") = "NOTHING" THEN UNCHANGED <<mask, fresh>> ELSE modfd(Only("clt", "OUT"))
    /\ m_srv_closed' = (m_srv_closed \/ ReadResult("srv") = "CLOSED")
    /\ UNCHANGED <<freed, failed, history>>

write_srv ==
    /\ Handles(<<"srv", "OUT">>)
    /\ \E n \in 0..Pending("clt"), res \in {"BUFFER_EMPTY", "TRY_AGAIN", "IOERR"} :
        /\ write("srv", n, res)
        /\ modfd(CASE res = "IOERR" -> Only("clt", "OUT")
                   [] res = "TRY_AGAIN" -> Only("srv", "OUT")
                   [] res = "BUFFER_EMPTY" -> Rearmed("srv"))
        /\ m_srv_closed' = (m_srv_closed \/ res = "IOERR")
    /\ UNCHANGED <<freed, early>>

process == read_clt \/ write_clt \/ read_srv \/ write_srv

Next ==
    /\ UNCHANGED mayFill
    /\ \/ \E s \in Side : send(s) \/ closes(s) \/ drains(s)
       \/ epoll_wait \/ process

Spec == Init /\ [][Next]_vars

(* The child's loop runs; the events of a batch are all handled. *)
FairSpec == Spec /\ WF_vars(epoll_wait) /\ WF_vars(process)
-----------------------------------------------------------------------------
(* The two buffers and the sockets before them are the queues of a relay: bytes *)
(* arrive in order, none twice, none left out before the connection is freed.   *)
Queue(s) == SubSeq(buf[s].data, buf[s].write_idx + 1, buf[s].read_idx) \o in[s]
R == INSTANCE Relay WITH Byte <- 1..MaxBytes, queue <- [s \in Side |-> Queue(s)], closed <- freed
ImplementsRelay == R!Spec

(* When the server closes, its whole answer reaches the client, unless a socket *)
(* was full (write_clt then returns TRY_AGAIN and the connection is freed all    *)
(* the same), a write failed, or the client closed or sent more meanwhile.       *)
AnswerComplete ==
    freed /\ "clt" \notin eof /\ ~ filled /\ ~ failed /\ ~ early => Queue("srv") = <<>>

(* While no socket is full, what a side sends is passed on or the connection    *)
(* ends, and a peer that closes ends it.  With a full socket this fails: once   *)
(* the other buffer is empty, modfd makes epoll watch both sockets for input    *)
(* only.                                                                        *)
PassedOn ==
    /\ \A s \in Side : Queue(s) # <<>> ~> (Queue(s) = <<>> \/ freed \/ mayFill)
    /\ (eof # {}) ~> (freed \/ mayFill)
=============================================================================
