----------------------------- MODULE TalkServer -----------------------------
(***************************************************************************)
(* The talk server of codes/9/9-7mytalk_server.cpp: one poll() over an     *)
(* array without gaps, and buffers that clients share by pointer.          *)
(* fds[0], the listening socket, is reported if backlog is not 0, and a    *)
(* connection refused because the array is full leaves no trace.  Since    *)
(* events |= ~POLLIN and |= ~POLLOUT never clear a bit, an entry asks for  *)
(* POLLOUT for ever once it did.                                           *)
(***************************************************************************)
EXTENDS Integers, Sequences

CONSTANTS
    Fd,             \* descriptors a connection can get, numbers
    USER_LIMIT,
    MaxActs         \* how many connections clients make and texts they send, together

NULL == 0
Wild == -1          \* write_buf of an entry nobody has written

VARIABLES
    fds,            \* fds[1..user_counter]: fd, revents, and whether POLLOUT is asked for
    users,          \* buf and write_buf of each descriptor; write_buf names the owner of the buf
    i,              \* the loop's index, or Polls
    backlog,
    rcv, gone, err, \* a socket's input, the client's end of it, an error to report
    texts, conns,   \* counters
    served,         \* descriptors whose turn this round has had
    meant,          \* the texts a client is to be sent next
    owed, lost,     \* texts read from others and not sent to a client, and those it can no longer get
    stale, wrong    \* a buffer was copied over before it was sent; another text was sent

kernel == <<backlog, rcv, gone, err, texts, conns>>
account == <<meant, owed, lost>>
vars == <<fds, users, i, kernel, served, account, stale, wrong>>

Polls == USER_LIMIT + 1
user_counter == Len(fds)
Open == {fds[k].fd : k \in DOMAIN fds}

Init ==
    /\ fds = <<>> /\ i = Polls /\ backlog = 0
    /\ users = [f \in Fd |-> [buf |-> <<>>, write_buf |-> Wild]]
    /\ rcv = [f \in Fd |-> <<>>] /\ gone = {} /\ err = {}
    /\ texts = 0 /\ conns = 0 /\ served = {}
    /\ meant = [f \in Fd |-> <<>>] /\ owed = [f \in Fd |-> {}] /\ lost = [f \in Fd |-> {}]
    /\ stale = FALSE /\ wrong = FALSE
-----------------------------------------------------------------------------
(* The clients and the kernel (external).  A client connects, sends, closes,   *)
(* or resets the connection, and what it had sent may be thrown away.          *)
connect ==
    /\ conns + texts < MaxActs /\ conns' = conns + 1 /\ backlog' = backlog + 1
    /\ UNCHANGED <<fds, users, i, rcv, gone, err, texts, served, account, stale, wrong>>

client_sends(f) ==
    /\ f \in Open \ gone /\ conns + texts < MaxActs
    /\ texts' = texts + 1 /\ rcv' = [rcv EXCEPT ![f] = Append(@, texts')]
    /\ UNCHANGED <<fds, users, i, backlog, gone, err, conns, served, account, stale, wrong>>

client_closes(f) ==
    /\ f \in Open \ gone /\ gone' = gone \cup {f}
    /\ UNCHANGED <<fds, users, i, backlog, rcv, err, texts, conns, served, account, stale, wrong>>

client_resets(f) ==
    /\ f \in Open \ gone
    /\ gone' = gone \cup {f} /\ err' = err \cup {f}
    /\ rcv' \in {rcv, [rcv EXCEPT ![f] = <<>>]}
    /\ UNCHANGED <<fds, users, i, backlog, texts, conns, served, account, stale, wrong>>

Events(e) ==
    {ev \in {"IN", "OUT", "RDHUP", "ERR"} :
        \/ ev = "IN" /\ (rcv[e.fd] # <<>> \/ e.fd \in gone)
        \/ ev = "OUT" /\ e.out
        \/ ev = "RDHUP" /\ e.fd \in gone
        \/ ev = "ERR" /\ e.fd \in err}
-----------------------------------------------------------------------------
poll ==
    /\ i = Polls
    /\ backlog > 0 \/ \E k \in DOMAIN fds : Events(fds[k]) # {}
    /\ fds' = [k \in DOMAIN fds |-> [fds[k] EXCEPT !.revents = Events(fds[k])]]
    /\ i' = IF backlog > 0 THEN 0 ELSE 1
    /\ served' = {}
    /\ UNCHANGED <<users, kernel, account, stale, wrong>>

Next_i == i' = IF i < Len(fds') THEN i + 1 ELSE Polls

Lowest(f) == f \in Fd \ Open /\ \A g \in Fd \ Open : f <= g

accept ==
    /\ i = 0 /\ backlog' = backlog - 1
    /\ IF user_counter >= USER_LIMIT THEN UNCHANGED fds
       ELSE \E f \in Fd : Lowest(f) /\ fds' = Append(fds, [fd |-> f, revents |-> {}, out |-> FALSE])
    /\ Next_i
    /\ UNCHANGED <<users, rcv, gone, err, texts, conns, served, account, stale, wrong>>

(* The turn of an entry; what it is asked for decides which branch is taken. *)
Turn ==
    /\ i \in DOMAIN fds
    /\ served' = served \cup {fds[i].fd}

Has(ev) == ev \in fds[i].revents

get_error ==
    /\ Turn /\ Has("ERR")
    /\ err' = err \ {fds[i].fd}
    /\ fds' = fds /\ Next_i
    /\ UNCHANGED <<users, backlog, rcv, gone, texts, conns, account, stale, wrong>>

(* The entry's place is taken by the last one, which is looked at next, and    *)
(* the data of the last user is copied over that of the one who leaves.        *)
Moved_skips == Next_i
Moved == i' = IF i <= Len(fds') THEN i ELSE Polls

Left(data) ==
    LET f == fds[i].fd  l == fds[user_counter].fd IN
    /\ users' = [users EXCEPT ![f] = IF f = l THEN data ELSE users[l]]
    /\ fds' = SubSeq([fds EXCEPT ![i] = fds[user_counter]], 1, user_counter - 1)
    /\ Moved
    /\ LET robbed == {g \in Open \ {f} : users[g].write_buf = f /\ users'[f].buf # users[f].buf} IN
       /\ stale' = (stale \/ robbed # {})
       /\ lost' = [g \in Fd |-> IF g = f THEN {} ELSE IF g \in robbed THEN owed[g] ELSE lost[g]]
    /\ rcv' = [rcv EXCEPT ![f] = <<>>] /\ gone' = gone \ {f} /\ err' = err \ {f}
    /\ meant' = [meant EXCEPT ![f] = <<>>] /\ owed' = [owed EXCEPT ![f] = {}]

client_left ==
    /\ Turn /\ ~ Has("ERR") /\ Has("RDHUP")
    /\ Left(users[fds[i].fd])
    /\ UNCHANGED <<backlog, texts, conns, wrong>>

Readable == Turn /\ ~ Has("ERR") /\ ~ Has("RDHUP") /\ Has("IN")

Others == {k \in DOMAIN fds : fds[k].fd # fds[i].fd}

Texts(buf) == {buf[k] : k \in DOMAIN buf}

Received(f, got, to) ==
    /\ rcv' = [rcv EXCEPT ![f] = SubSeq(@, Len(got) + 1, Len(@))]
    /\ users' = [g \in Fd |-> IF g = f THEN [users[g] EXCEPT !.buf = got]
                              ELSE IF g \in to THEN [users[g] EXCEPT !.write_buf = f]
                              ELSE users[g]]
    /\ meant' = [g \in Fd |-> IF g \in Open \ {f} THEN got ELSE meant[g]]
    /\ lost' = [g \in Fd |-> IF g \in Open \ {f} THEN owed[g] ELSE lost[g]]
    /\ owed' = [g \in Fd |-> IF g \in Open \ {f} THEN owed[g] \cup Texts(got) ELSE owed[g]]

recv ==
    /\ Readable
    /\ LET f == fds[i].fd IN
       \E n \in 1..Len(rcv[f]) :          \* what fits into buf
          Received(f, SubSeq(rcv[f], 1, n), {fds[k].fd : k \in Others})
    /\ fds' = [k \in DOMAIN fds |-> [fds[k] EXCEPT !.out = @ \/ k \in Others]]
    /\ Next_i
    /\ UNCHANGED <<backlog, gone, err, texts, conns, stale, wrong>>

(* The buffer is cleared first; recv reports the error. *)
recv_fails ==
    /\ Readable /\ rcv[fds[i].fd] = <<>> /\ fds[i].fd \in err
    /\ Left([users[fds[i].fd] EXCEPT !.buf = <<>>])
    /\ UNCHANGED <<backlog, texts, conns, wrong>>

Cleared_not(f) == users
Cleared(f) == [users EXCEPT ![f].write_buf = NULL]

(* Sending to a client that has gone may be answered with a reset.  After      *)
(* POLLOUT there is room for a buffer of 64 bytes.                             *)
send ==
    /\ Turn /\ fds[i].revents = {"OUT"}
    /\ LET f == fds[i].fd  w == users[f].write_buf IN
       /\ wrong' = (wrong \/ (w # NULL /\ (w = Wild \/ users[w].buf # meant[f])))
       /\ users' = Cleared(f)
       /\ meant' = IF w = NULL THEN meant ELSE [meant EXCEPT ![f] = <<>>]
       /\ owed' = IF w \in Fd THEN [owed EXCEPT ![f] = @ \ Texts(users[w].buf)] ELSE owed
    /\ err' \in {err, err \cup ({fds[i].fd} \cap gone)}
    /\ fds' = fds /\ Next_i
    /\ UNCHANGED <<backlog, rcv, gone, texts, conns, lost, stale>>

skip ==
    /\ Turn /\ fds[i].revents = {}
    /\ fds' = fds /\ Next_i
    /\ UNCHANGED <<users, kernel, account, stale, wrong>>

serve == accept \/ get_error \/ client_left \/ recv \/ recv_fails \/ send \/ skip

Next ==
    \/ poll \/ serve \/ connect
    \/ \E f \in Fd : client_sends(f) \/ client_closes(f) \/ client_resets(f)

Fairness == WF_vars(poll) /\ WF_vars(serve)

Spec == Init /\ [][Next]_vars /\ Fairness
-----------------------------------------------------------------------------
(* However clients come and go during a round, the array lists each connection *)
(* once, no entry has two turns in a round, and no entry that poll() reported  *)
(* goes without one; and recv never returns 0, as the code says: the end of a  *)
(* connection is always seen as POLLRDHUP first.                               *)
TurnsComplete ==
    /\ user_counter <= USER_LIMIT
    /\ \A j, k \in DOMAIN fds : fds[j].fd = fds[k].fd => j = k
    /\ gone \cup err \subseteq Open
    /\ i \in DOMAIN fds => fds[i].fd \notin served
    /\ i = Polls => \A k \in DOMAIN fds : fds[k].revents # {} => fds[k].fd \in served
    /\ i \in DOMAIN fds /\ Has("IN") /\ ~ Has("RDHUP") /\ ~ Has("ERR") =>
            rcv[fds[i].fd] # <<>> \/ fds[i].fd \in err

(* A client is sent what was meant for it, although it is read from another    *)
(* client's buffer only when its own turn comes: unless that client has left   *)
(* meanwhile and the last user's data was copied over the buffer.              *)
RightText == wrong => stale

(* In the end every text has been sent to everyone else who stayed, except     *)
(* those that were lost because the next text was read, or the sender left,    *)
(* before the receiver's turn had come; the last text is never lost to another. *)
(* And every client that has closed is closed here too.                        *)
TalkGoesOn == <>[](gone = {} /\ \A f \in Fd : owed[f] \subseteq lost[f])
=============================================================================
