-------------------------- MODULE SpringConnProofs --------------------------
(* A connection of springsnail is a relay, for every BUF_SIZE and any number of
   bytes, whether sockets fill up or not; and the maps of the connections agree
   with the sockets, for any number of conns and descriptors. *)
EXTENDS MCSpring, SequenceTheorems, TLAPS

(* The i+1st to j-th element of a sequence; and the queue that is made of what a
   buffer d holds between its indices w and r and of what is in the socket, x. *)
Part(q, i, j) == SubSeq(q, i + 1, j)
Rest(d, w, r, x) == Part(d, w, r) \o x

(* What a read moves from the socket x to the end of the buffer d stays in the
   queue, in its place. *)
LEMMA ReadMoves ==
    ASSUME NEW S, NEW d \in Seq(S), NEW x \in Seq(S), NEW w \in Nat, NEW r \in Nat, NEW t \in Nat,
           w <= r, r <= Len(d), t <= Len(x)
    PROVE  Rest(Part(d, 0, r) \o Part(x, 0, t), w, r + t, Part(x, t, Len(x))) = Rest(d, w, r, x)
  <1> DEFINE e == SubSeq(d, 1, r) \o SubSeq(x, 1, t)
             y == SubSeq(x, t + 1, Len(x))
             f == SubSeq(e, w + 1, r + t)
             g == SubSeq(d, w + 1, r)
  <1>1. SubSeq(d, 1, r) \in Seq(S) /\ Len(SubSeq(d, 1, r)) = r
        /\ \A i \in 1..r : SubSeq(d, 1, r)[i] = d[i]
    BY SubSeqProperties
  <1>2. SubSeq(x, 1, t) \in Seq(S) /\ Len(SubSeq(x, 1, t)) = t
        /\ \A i \in 1..t : SubSeq(x, 1, t)[i] = x[i]
    BY SubSeqProperties
  <1>3. /\ e \in Seq(S) /\ Len(e) = r + t
        /\ \A i \in 1..r : e[i] = d[i]
        /\ \A i \in 1..t : e[r + i] = x[i]
    BY <1>1, <1>2, ConcatProperties
  <1>4. /\ y \in Seq(S) /\ Len(y) = Len(x) - t
        /\ \A i \in 1..(Len(x) - t) : y[i] = x[t + i]
    BY SubSeqProperties
  <1>5. /\ f \in Seq(S) /\ Len(f) = r + t - w
        /\ \A i \in 1..(r + t - w) : f[i] = e[w + i]
    BY <1>3, SubSeqProperties
  <1>6. /\ g \in Seq(S) /\ Len(g) = r - w
        /\ \A i \in 1..(r - w) : g[i] = d[w + i]
    BY SubSeqProperties
  <1> HIDE DEF e, y, f, g
  <1> Len(x) \in Nat
    OBVIOUS
  <1>7. /\ f \o y \in Seq(S) /\ Len(f \o y) = Len(f) + Len(y)
        /\ \A i \in 1..(Len(f) + Len(y)) : (f \o y)[i] = IF i <= Len(f) THEN f[i] ELSE y[i - Len(f)]
    BY <1>4, <1>5, ConcatProperties, ZenonT(60)
  <1>8. /\ g \o x \in Seq(S) /\ Len(g \o x) = Len(g) + Len(x)
        /\ \A i \in 1..(Len(g) + Len(x)) : (g \o x)[i] = IF i <= Len(g) THEN g[i] ELSE x[i - Len(g)]
    BY <1>6, ConcatProperties, Zenon
  <1> DEFINE h == f \o y
             k == g \o x
  <1> HIDE DEF h, k
  <1>9. Len(h) = Len(x) + r - w /\ Len(k) = Len(x) + r - w
    BY <1>4, <1>5, <1>6, <1>7, <1>8 DEF h, k
  <1>10. ASSUME NEW i \in 1..Len(h) PROVE h[i] = k[i]
    <2>0. /\ i \in 1..(Len(x) + r - w)
          /\ h[i] = IF i <= r + t - w THEN f[i] ELSE y[i - (r + t - w)]
          /\ k[i] = IF i <= r - w THEN g[i] ELSE x[i - (r - w)]
      BY <1>9, <1>10, <1>4, <1>5, <1>6, <1>7, <1>8, Zenon DEF h, k
    <2>1. CASE i <= r - w
      <3>1. i \in 1..(r - w) /\ i \in 1..(r + t - w) /\ i <= r + t - w /\ w + i \in 1..r
        BY <2>0, <2>1
      <3>2. h[i] = f[i] /\ k[i] = g[i]
        BY <2>0, <2>1, <3>1, Zenon
      <3>3. f[i] = e[w + i] /\ g[i] = d[w + i] /\ e[w + i] = d[w + i]
        BY <1>3, <1>5, <1>6, <3>1, Zenon
      <3> QED
        BY <3>2, <3>3, Zenon
    <2>2. CASE r - w < i /\ i <= r + t - w
      <3>1. /\ i \in 1..(r + t - w) /\ ~ (i <= r - w)
            /\ i - (r - w) \in 1..t /\ w + i = r + (i - (r - w))
        BY <2>0, <2>2
      <3>2. h[i] = f[i] /\ k[i] = x[i - (r - w)]
        BY <2>0, <2>2, <3>1, Zenon
      <3>3. f[i] = e[w + i] /\ e[r + (i - (r - w))] = x[i - (r - w)]
        BY <1>3, <1>5, <3>1, Zenon
      <3> QED
        BY <3>1, <3>2, <3>3, Zenon
    <2>3. CASE r + t - w < i
      <3>0. ~ (i <= r + t - w) /\ ~ (i <= r - w)
        BY <2>0, <2>3
      <3>1. h[i] = y[i - (r + t - w)] /\ k[i] = x[i - (r - w)]
        BY <2>0, <3>0, Zenon
      <3>2. i - (r + t - w) \in 1..(Len(x) - t) /\ t + (i - (r + t - w)) = i - (r - w)
        BY <2>0, <2>3
      <3> QED
        BY <1>4, <3>1, <3>2, Zenon
    <2> QED
      BY <2>0, <2>1, <2>2, <2>3, SMTT(30)
  <1>11. h = k
    <2>1. h \in Seq(S) /\ k \in Seq(S) /\ Len(h) = Len(k) /\ \A i \in 1..Len(h) : h[i] = k[i]
      BY <1>7, <1>8, <1>9, <1>10, Zenon DEF h, k
    <2> QED
      BY <2>1, SeqEqual
  <1>12. e = Part(d, 0, r) \o Part(x, 0, t) /\ y = Part(x, t, Len(x))
    BY DEF e, y, Part
  <1>13. h = Rest(e, w, r + t, y) /\ k = Rest(d, w, r, x)
    BY SMTT(30) DEF h, k, f, g, Rest, Part
  <1> QED
    BY <1>11, <1>12, <1>13, Zenon

(* Writing n bytes from the buffer takes the first n out of the queue. *)
LEMMA WriteTakes ==
    ASSUME NEW S, NEW d \in Seq(S), NEW x \in Seq(S), NEW w \in Nat, NEW r \in Nat, NEW n \in Nat,
           r <= Len(d), w + n <= r
    PROVE  /\ Rest(d, w, r, x) \in Seq(S) /\ Len(Rest(d, w, r, x)) = r - w + Len(x)
           /\ Part(Rest(d, w, r, x), 0, n) = Part(d, w, w + n)
           /\ Part(Rest(d, w, r, x), n, Len(Rest(d, w, r, x))) = Rest(d, w + n, r, x)
  <1> DEFINE g == SubSeq(d, w + 1, r)
             q == g \o x
             u == SubSeq(q, 1, n)
             v == SubSeq(d, w + 1, w + n)
             a == SubSeq(q, n + 1, Len(q))
             b == SubSeq(d, w + n + 1, r)
             c == b \o x
  <1> Len(x) \in Nat
    OBVIOUS
  <1>1. /\ g \in Seq(S) /\ Len(g) = r - w
        /\ \A i \in 1..(r - w) : g[i] = d[w + i]
    BY SubSeqProperties
  <1> HIDE DEF g
  <1>2. /\ q \in Seq(S) /\ Len(q) = r - w + Len(x)
        /\ \A i \in 1..(r - w + Len(x)) : q[i] = IF i <= r - w THEN g[i] ELSE x[i - (r - w)]
    <2>1. /\ q \in Seq(S) /\ Len(q) = Len(g) + Len(x)
          /\ \A i \in 1..(Len(g) + Len(x)) : q[i] = IF i <= Len(g) THEN g[i] ELSE x[i - Len(g)]
      BY <1>1, ConcatProperties, Zenon
    <2> HIDE DEF q
    <2> QED
      BY <1>1, <2>1
  <1> HIDE DEF q
  <1>3. u \in Seq(S) /\ Len(u) = n /\ \A i \in 1..n : u[i] = q[i]
    BY <1>2, SubSeqProperties
  <1>4. v \in Seq(S) /\ Len(v) = n /\ \A i \in 1..n : v[i] = d[w + i]
    BY SubSeqProperties
  <1>5. /\ a \in Seq(S) /\ Len(a) = r - w + Len(x) - n
        /\ \A i \in 1..(r - w + Len(x) - n) : a[i] = q[n + i]
    BY <1>2, SubSeqProperties, SMTT(30)
  <1>6. /\ b \in Seq(S) /\ Len(b) = r - w - n
        /\ \A i \in 1..(r - w - n) : b[i] = d[w + n + i]
    BY SubSeqProperties
  <1> HIDE DEF u, v, a, b
  <1>7. /\ c \in Seq(S) /\ Len(c) = r - w - n + Len(x)
        /\ \A i \in 1..(r - w - n + Len(x)) : c[i] = IF i <= r - w - n THEN b[i] ELSE x[i - (r - w - n)]
    <2>1. /\ c \in Seq(S) /\ Len(c) = Len(b) + Len(x)
          /\ \A i \in 1..(Len(b) + Len(x)) : c[i] = IF i <= Len(b) THEN b[i] ELSE x[i - Len(b)]
      BY <1>6, ConcatProperties, Zenon
    <2> HIDE DEF c
    <2> QED
      BY <1>6, <2>1
  <1> HIDE DEF c
  <1>8. u = v
    <2>1. ASSUME NEW i \in 1..n PROVE u[i] = v[i]
      <3>1. i \in 1..(r - w) /\ i \in 1..(r - w + Len(x))
        OBVIOUS
      <3>2. u[i] = q[i] /\ v[i] = d[w + i]
        BY <1>3, <1>4
      <3>3. q[i] = g[i] /\ g[i] = d[w + i]
        BY <1>1, <1>2, <3>1, SMTT(30)
      <3> QED
        BY <3>2, <3>3
    <2> QED
      BY <1>3, <1>4, <2>1, SeqEqual, SMTT(30)
  <1>9. a = c
    <2>1. ASSUME NEW i \in 1..(r - w - n + Len(x)) PROVE a[i] = c[i]
      <3>1. a[i] = q[n + i]
        BY <1>5
      <3>2. CASE i <= r - w - n
        <4>0. n + i \in 1..(r - w) /\ i \in Nat
          BY <3>2
        <4>1. q[n + i] = g[n + i] /\ c[i] = d[w + n + i]
          <5>1. i \in 1..(r - w - n) /\ n + i \in 1..(r - w + Len(x)) /\ n + i <= r - w
            BY <3>2, <4>0
          <5>2. q[n + i] = g[n + i]
            BY <1>2, <5>1
          <5>3. c[i] = b[i]
            BY <1>7, <3>2
          <5>4. b[i] = d[w + n + i]
            BY <1>6, <5>1
          <5> QED
            BY <5>2, <5>3, <5>4, Zenon
        <4>2. g[n + i] = d[w + (n + i)]
          BY <1>1, <4>0, Zenon
        <4>3. w + (n + i) = w + n + i
          BY <4>0
        <4> QED
          BY <3>1, <4>1, <4>2, <4>3, Zenon
      <3>3. CASE i > r - w - n
        <4>1. n + i \in 1..(r - w + Len(x)) /\ ~ (n + i <= r - w)
          BY <3>3
        <4>2. q[n + i] = x[n + i - (r - w)] /\ c[i] = x[i - (r - w - n)]
          BY <1>2, <1>7, <3>3, <4>1
        <4>3. n + i - (r - w) = i - (r - w - n)
          OBVIOUS
        <4> QED
          BY <3>1, <4>2, <4>3
      <3> QED
        BY <3>2, <3>3
    <2>2. Len(a) = Len(c) /\ Len(a) = r - w - n + Len(x)
      BY <1>5, <1>7, SMTT(30)
    <2> QED
      BY <1>5, <1>7, <2>1, <2>2, SeqEqual, Zenon
  <1> QED
    BY <1>2, <1>8, <1>9, SMTT(30) DEF g, q, u, v, a, b, c, Rest, Part

(* A byte that arrives in the socket joins the end of the queue. *)
LEMMA SendAppends ==
    ASSUME NEW S, NEW g \in Seq(S), NEW x \in Seq(S), NEW e \in S
    PROVE  g \o Append(x, e) = Append(g \o x, e)
  <1>1. Append(x, e) = x \o <<e>> /\ <<e>> \in Seq(S)
    BY AppendIsConcat
  <1>2. g \o x \in Seq(S) /\ Append(g \o x, e) = (g \o x) \o <<e>>
    BY AppendIsConcat, ConcatProperties
  <1>3. (g \o x) \o <<e>> = g \o (x \o <<e>>)
    BY <1>1, ConcatAssociative, SMTT(30)
  <1> QED
    BY <1>1, <1>2, <1>3, Zenon
-----------------------------------------------------------------------------
Bytes == Seq(1..MaxBytes)

(* The indices into the buffers are in order and within what has been stored. *)
Indices(b) ==
    /\ b \in [data : Bytes, read_idx : Nat, write_idx : Nat]
    /\ b.write_idx <= b.read_idx /\ b.read_idx <= Len(b.data) /\ b.read_idx <= BUF_SIZE

Inv ==
    /\ sent \in [Side -> 0..MaxBytes]
    /\ in \in [Side -> Bytes] /\ got \in [Side -> Bytes]
    /\ buf \in [Side -> [data : Bytes, read_idx : Nat, write_idx : Nat]]
    /\ \A s \in Side : Indices(buf[s])

(* The queue of the refinement mapping, in these terms. *)
LEMMA QueueIsRest ==
    ASSUME NEW s \in Side
    PROVE  Queue(s) = Rest(buf[s].data, buf[s].write_idx, buf[s].read_idx, in[s])
  BY DEF Queue, Rest, Part

(* Buffers and sockets are empty in the beginning, as are the relay's queues. *)
LEMMA InitInv == Init => Inv /\ R!Init
  <1> SUFFICES ASSUME Init PROVE Inv /\ R!Init
    OBVIOUS
  <1>1. <<>> \in Bytes /\ Len(<<>>) = 0
    BY DEF Bytes
  <1>2. \A s \in Side : buf[s] = [data |-> <<>>, read_idx |-> 0, write_idx |-> 0]
    BY DEF Init
  <1>3. \A s \in Side : Indices(buf[s])
    BY <1>1, <1>2, SizeAssumption DEF Indices
  <1>4. Inv
    BY <1>1, <1>2, <1>3, SizeAssumption DEF Init, Inv
  <1>5. \A s \in Side : Queue(s) = <<>>
    <2>1. SubSeq(<<>>, 0 + 1, 0) = <<>>
      BY SubSeqEmpty
    <2>2. <<>> \o <<>> = <<>>
      BY <1>1, ConcatEmptySeq DEF Bytes
    <2> QED
      BY <1>2, <2>1, <2>2 DEF Queue, Init
  <1>6. R!Init
    BY <1>5 DEF R!Init, Init
  <1> QED
    BY <1>4, <1>6

-----------------------------------------------------------------------------
(* read(s) leaves the queue as it is. *)
LEMMA ReadStep ==
    ASSUME Inv, NEW s \in Side, read(s)
    PROVE  Inv' /\ \A t \in Side : Queue(t)' = Queue(t)
  <1>1. PICK S : S = 1..MaxBytes
    OBVIOUS
  <1>2. PICK d \in Seq(S), w \in Nat, r \in Nat, x \in Seq(S) :
            /\ d = buf[s].data /\ w = buf[s].write_idx /\ r = buf[s].read_idx /\ x = in[s]
            /\ w <= r /\ r <= Len(d) /\ r <= BUF_SIZE
    BY <1>1, Zenon DEF Inv, Indices, Bytes
  <1>3. PICK t \in Nat : t = Taken(s) /\ t <= Len(x) /\ r + t <= BUF_SIZE
    <2>1. Len(x) \in Nat /\ Len(in[s]) = Len(x) /\ BUF_SIZE - r \in Nat
      BY <1>2, SizeAssumption
    <2>2. Taken(s) = IF Len(x) < BUF_SIZE - r THEN Len(x) ELSE BUF_SIZE - r
      BY <1>2 DEF Taken, Room
    <2>3. Taken(s) \in Nat /\ Taken(s) <= Len(x) /\ r + Taken(s) <= BUF_SIZE
      BY <2>1, <2>2, SizeAssumption
    <2> QED
      BY <2>3
  <1>4. PICK e : e = SubSeq(d, 1, r) \o SubSeq(x, 1, t)
    BY Zenon
  <1>5. PICK y : y = SubSeq(x, t + 1, Len(x))
    BY Zenon
  <1>6. /\ buf' = [buf EXCEPT ![s] = [data |-> e, read_idx |-> r + t, write_idx |-> w]]
        /\ in' = [in EXCEPT ![s] = y] /\ sent' = sent /\ got' = got
    <2>1. buf[s] = [data |-> d, read_idx |-> r, write_idx |-> w]
      BY <1>2 DEF Inv
    <2>2. buf' = [buf EXCEPT ![s] = [data |-> e, read_idx |-> r + t, write_idx |-> w]]
      <3>1. buf' = [buf EXCEPT ![s].data = SubSeq(buf[s].data, 1, buf[s].read_idx) \o SubSeq(in[s], 1, Taken(s)),
                               ![s].read_idx = buf[s].read_idx + Taken(s)]
        BY Zenon DEF read
      <3>2. buf' = [buf EXCEPT ![s].data = e, ![s].read_idx = r + t]
        BY <1>2, <1>3, <1>4, <3>1, Zenon
      <3>3. buf' = [buf EXCEPT ![s] = [buf[s] EXCEPT !.data = e, !.read_idx = r + t]]
        BY <3>2, Zenon DEF Inv
      <3>4. [buf[s] EXCEPT !.data = e, !.read_idx = r + t] = [data |-> e, read_idx |-> r + t, write_idx |-> w]
        <4>1. [buf[s] EXCEPT !.data = e, !.read_idx = r + t]
                = [[buf[s] EXCEPT !.data = e] EXCEPT !.read_idx = r + t]
          OBVIOUS
        <4>2. [buf[s] EXCEPT !.data = e] = [data |-> e, read_idx |-> r, write_idx |-> w]
          BY <2>1
        <4>3. [[data |-> e, read_idx |-> r, write_idx |-> w] EXCEPT !.read_idx = r + t]
                = [data |-> e, read_idx |-> r + t, write_idx |-> w]
          OBVIOUS
        <4> QED
          BY <4>1, <4>2, <4>3, Zenon
      <3> QED
        BY <3>3, <3>4, Zenon
    <2> QED
      BY <1>2, <1>3, <1>5, <2>2, Zenon DEF read
  <1>7. e \in Seq(S) /\ Len(e) = r + t
    <2>1. SubSeq(d, 1, r) \in Seq(S) /\ Len(SubSeq(d, 1, r)) = r
      BY <1>2, SubSeqProperties
    <2>2. SubSeq(x, 1, t) \in Seq(S) /\ Len(SubSeq(x, 1, t)) = t
      BY <1>3, SubSeqProperties
    <2> QED
      BY <1>4, <2>1, <2>2, ConcatProperties, SMTT(30)
  <1>8. y \in Seq(S)
    BY <1>3, <1>5, SubSeqProperties, SMTT(30)
  <1>9. PICK b : b = [data |-> e, read_idx |-> r + t, write_idx |-> w]
    BY Zenon
  <1>10. Indices(b) /\ b \in [data : Bytes, read_idx : Nat, write_idx : Nat]
    <2>1. e \in Bytes /\ r + t \in Nat /\ w \in Nat
      BY <1>1, <1>2, <1>3, <1>7, SMTT(30) DEF Bytes
    <2>2. w <= r + t /\ r + t <= Len(e) /\ r + t <= BUF_SIZE
      BY <1>2, <1>3, <1>7, SMTT(30)
    <2>3. b \in [data : Bytes, read_idx : Nat, write_idx : Nat]
      BY <1>9, <2>1
    <2>4. b.data = e /\ b.read_idx = r + t /\ b.write_idx = w
      BY <1>9
    <2> QED
      BY <2>2, <2>3, <2>4 DEF Indices
  <1>11. Inv'
    BY <1>1, <1>6, <1>8, <1>9, <1>10, Zenon DEF Inv, Bytes
  <1>12. Rest(e, w, r + t, y) = Rest(d, w, r, x)
    <2>1. w <= r /\ r <= Len(d) /\ t <= Len(x)
      BY <1>2, <1>3
    <2>2. Rest(Part(d, 0, r) \o Part(x, 0, t), w, r + t, Part(x, t, Len(x))) = Rest(d, w, r, x)
      BY <2>1, ReadMoves
    <2>3. e = Part(d, 0, r) \o Part(x, 0, t) /\ y = Part(x, t, Len(x))
      BY <1>4, <1>5 DEF Part
    <2> QED
      BY <2>2, <2>3
  <1>13. buf'[s] = b /\ in'[s] = y /\ \A u \in Side \ {s} : buf'[u] = buf[u] /\ in'[u] = in[u]
    BY <1>6, <1>9 DEF Inv
  <1>14. Queue(s)' = Queue(s)
    <2>1. Queue(s)' = Rest(b.data, b.write_idx, b.read_idx, y)
      BY <1>13, Zenon DEF Queue, Rest, Part
    <2>2. b.data = e /\ b.read_idx = r + t /\ b.write_idx = w
      BY <1>9
    <2>3. Queue(s) = Rest(d, w, r, x)
      BY <1>2, QueueIsRest, Zenon
    <2> QED
      BY <1>12, <2>1, <2>2, <2>3
  <1>15. \A u \in Side \ {s} : Queue(u)' = Queue(u)
    BY <1>13, Zenon DEF Queue
  <1> QED
    BY <1>11, <1>14, <1>15

(* n bytes of what o has sent are delivered, in terms of the relay. *)
Delivers(o, n) ==
    /\ \A u \in Side \ {o} : Queue(u)' = Queue(u)
    /\ Queue(o)' = SubSeq(Queue(o), n + 1, Len(Queue(o)))
    /\ got' = [got EXCEPT ![o] = got[o] \o SubSeq(Queue(o), 1, n)]
    /\ n \in 0..Len(Queue(o))
    /\ n = 0 => Queue(o)' = Queue(o) /\ got' = got

(* write(s, n, res) takes n bytes out of the queue of the other side. *)
LEMMA WriteStep ==
    ASSUME Inv, NEW s \in Side, NEW o \in Side, o = Peer(s), NEW n \in 0..Pending(o), NEW res,
           res \in {"BUFFER_EMPTY", "TRY_AGAIN", "IOERR"}, write(s, n, res)
    PROVE  Inv' /\ Delivers(o, n)
  <1>1. PICK S : S = 1..MaxBytes
    OBVIOUS
  <1>2. PICK d \in Seq(S), w \in Nat, r \in Nat, x \in Seq(S) :
            /\ d = buf[o].data /\ w = buf[o].write_idx /\ r = buf[o].read_idx /\ x = in[o]
            /\ w <= r /\ r <= Len(d) /\ r <= BUF_SIZE
    BY <1>1, SMTT(30) DEF Inv, Indices, Bytes
  <1>3. n \in Nat /\ w + n <= r
    BY <1>2, SMTT(30) DEF Pending
  <1>4. PICK q : q = Rest(d, w, r, x)
    OBVIOUS
  <1>5. q = Queue(o)
    BY <1>2, <1>4, QueueIsRest, Zenon
  <1>6. /\ q \in Seq(S) /\ Len(q) = r - w + Len(x)
        /\ Part(q, 0, n) = Part(d, w, w + n)
        /\ Part(q, n, Len(q)) = Rest(d, w + n, r, x)
    <2>1. n \in Nat /\ r <= Len(d) /\ w + n <= r
      BY <1>2, <1>3, Zenon
    <2>2. /\ Rest(d, w, r, x) \in Seq(S) /\ Len(Rest(d, w, r, x)) = r - w + Len(x)
          /\ Part(Rest(d, w, r, x), 0, n) = Part(d, w, w + n)
          /\ Part(Rest(d, w, r, x), n, Len(Rest(d, w, r, x))) = Rest(d, w + n, r, x)
      BY <2>1, WriteTakes
    <2> QED
      BY <1>4, <2>2
  <1>7. /\ got' = [got EXCEPT ![o] = got[o] \o Part(d, w, w + n)]
        /\ in' = in /\ sent' = sent
    BY <1>2, Zenon DEF write, Part
  <1>8. \/ buf' = [buf EXCEPT ![o] = [data |-> d, read_idx |-> 0, write_idx |-> 0]] /\ w + n = r
        \/ buf' = [buf EXCEPT ![o] = [data |-> d, read_idx |-> r, write_idx |-> w + n]]
    <2>1. buf[o] \in [data : Bytes, read_idx : Nat, write_idx : Nat]
      BY DEF Inv
    <2>2. /\ Emptied(buf[o]) = [data |-> d, read_idx |-> 0, write_idx |-> 0]
          /\ Advanced(buf[o], n) = [data |-> d, read_idx |-> r, write_idx |-> w + n]
      <3>1. buf[o] = [data |-> d, read_idx |-> r, write_idx |-> w]
        BY <1>2, <2>1, Zenon
      <3>2. Emptied(buf[o]) = [data |-> d, read_idx |-> 0, write_idx |-> 0]
        <4>1. Emptied(buf[o]) = [[buf[o] EXCEPT !.read_idx = 0] EXCEPT !.write_idx = 0]
          BY DEF Emptied
        <4>2. [buf[o] EXCEPT !.read_idx = 0] = [data |-> d, read_idx |-> 0, write_idx |-> w]
          BY <3>1
        <4>3. [[data |-> d, read_idx |-> 0, write_idx |-> w] EXCEPT !.write_idx = 0]
                = [data |-> d, read_idx |-> 0, write_idx |-> 0]
          OBVIOUS
        <4> QED
          BY <4>1, <4>2, <4>3, Zenon
      <3>3. Advanced(buf[o], n) = [buf[o] EXCEPT !.write_idx = w + n]
        BY <1>2 DEF Advanced
      <3>4. [buf[o] EXCEPT !.write_idx = w + n] = [data |-> d, read_idx |-> r, write_idx |-> w + n]
        BY <3>1
      <3> QED
        BY <3>2, <3>3, <3>4
    <2>3. buf' = [buf EXCEPT ![o] = IF res = "BUFFER_EMPTY" THEN Emptied(buf[o]) ELSE Advanced(buf[o], n)]
      BY Zenon DEF write
    <2>4. CASE res = "BUFFER_EMPTY"
      <3>1. n = Pending(o)
        BY <2>4, Zenon DEF write
      <3>2. n = r - w
        BY <1>2, <3>1, Zenon DEF Pending
      <3>3. w + n = r
        <4>1. w \in Nat /\ r \in Nat
          OBVIOUS
        <4> QED
          BY <3>2, <4>1
      <3> QED
        BY <2>2, <2>3, <2>4, <3>3, Zenon
    <2>5. CASE res # "BUFFER_EMPTY"
      BY <2>2, <2>3, <2>5
    <2> QED
      BY <2>4, <2>5, Zenon
  <1>9. PICK b : /\ buf' = [buf EXCEPT ![o] = b]
                 /\ \/ b = [data |-> d, read_idx |-> 0, write_idx |-> 0] /\ w + n = r
                    \/ b = [data |-> d, read_idx |-> r, write_idx |-> w + n]
    <2>1. CASE buf' = [buf EXCEPT ![o] = [data |-> d, read_idx |-> 0, write_idx |-> 0]] /\ w + n = r
      BY <2>1, Zenon
    <2>2. CASE buf' = [buf EXCEPT ![o] = [data |-> d, read_idx |-> r, write_idx |-> w + n]]
      BY <2>2, Zenon
    <2> QED
      BY <1>8, <2>1, <2>2, Zenon
  <1>10. Indices(b) /\ b \in [data : Bytes, read_idx : Nat, write_idx : Nat]
    <2>1. d \in Bytes /\ Len(d) \in Nat /\ w + n \in Nat /\ 0 <= BUF_SIZE
      <3>1. d \in Bytes
        BY <1>1, <1>2, Zenon DEF Bytes
      <3>2. Len(d) \in Nat
        BY <1>2, SMTT(30)
      <3>3. w + n \in Nat
        BY <1>2, <1>3, SMTT(30)
      <3> QED
        BY <3>1, <3>2, <3>3, SizeAssumption
    <2>2. CASE b = [data |-> d, read_idx |-> 0, write_idx |-> 0]
      BY <2>1, <2>2 DEF Indices
    <2>3. CASE b = [data |-> d, read_idx |-> r, write_idx |-> w + n]
      BY <1>2, <1>3, <2>1, <2>3, Zenon DEF Indices
    <2> QED
      BY <1>9, <2>2, <2>3, Zenon
  <1>11. got[o] \o Part(d, w, w + n) \in Bytes
    <2>1. Part(d, w, w + n) \in Seq(S)
      <3>1. ASSUME NEW i \in (w + 1)..(w + n) PROVE d[i] \in S
        <4>1. i \in 1..Len(d)
          BY <1>2, <1>3, SMTT(30)
        <4>2. d \in Seq(S)
          OBVIOUS
        <4> QED
          BY <4>1, <4>2
      <3> QED
        BY <1>3, <3>1, SubSeqProperties DEF Part
    <2>2. got[o] \in Seq(S)
      BY <1>1 DEF Inv, Bytes
    <2> QED
      BY <1>1, <2>1, <2>2, ConcatProperties DEF Bytes
  <1>12. Inv'
    BY <1>7, <1>9, <1>10, <1>11, Zenon DEF Inv
  <1>13. buf'[o] = b /\ \A u \in Side \ {o} : buf'[u] = buf[u]
    BY <1>9, Zenon DEF Inv
  <1>14. \A u \in Side \ {o} : Queue(u)' = Queue(u)
    BY <1>7, <1>13, Zenon DEF Queue
  <1>15. Queue(o)' = Rest(d, w + n, r, x)
    <2>0. Queue(o)' = Rest(b.data, b.write_idx, b.read_idx, x)
      BY <1>2, <1>7, <1>13, Zenon DEF Queue, Rest, Part
    <2>1. CASE b = [data |-> d, read_idx |-> r, write_idx |-> w + n]
      BY <2>0, <2>1
    <2>2. CASE b = [data |-> d, read_idx |-> 0, write_idx |-> 0] /\ w + n = r
      <3>1. w + n = r /\ b.data = d /\ b.write_idx = 0 /\ b.read_idx = 0
        BY <2>2
      <3>2. Part(d, w + n, r) = <<>>
        BY <1>3, <3>1, SubSeqEmpty DEF Part
      <3>3. Part(d, 0, 0) = <<>>
        BY SubSeqEmpty DEF Part
      <3> QED
        BY <2>0, <3>1, <3>2, <3>3, Zenon DEF Rest
    <2> QED
      BY <1>9, <2>1, <2>2, Zenon
  <1>16. n \in 0..Len(q)
    <2>1. Len(x) \in Nat
      OBVIOUS
    <2> QED
      BY <1>3, <1>6, <2>1
  <1>17. n = 0 => Queue(o)' = Queue(o) /\ got' = got
    <2> SUFFICES ASSUME n = 0 PROVE Queue(o)' = q /\ got' = got
      BY <1>5
    <2>1. w + n = w
      OBVIOUS
    <2>2. Part(d, w, w + n) = <<>>
      BY <1>2, SubSeqEmpty, SMTT(30) DEF Part
    <2>3. got[o] \o <<>> = got[o]
      <3>1. got[o] \in Seq(S)
        BY <1>1 DEF Inv, Bytes
      <3> QED
        BY <3>1, ConcatEmptySeq
    <2>4. got' = got
      BY <1>7, <2>2, <2>3, Zenon DEF Inv
    <2> QED
      BY <1>4, <1>15, <2>1, <2>4
  <1>18. /\ Queue(o)' = SubSeq(Queue(o), n + 1, Len(Queue(o)))
         /\ got' = [got EXCEPT ![o] = got[o] \o SubSeq(Queue(o), 1, n)]
    <2>1. Queue(o)' = Part(q, n, Len(q)) /\ got' = [got EXCEPT ![o] = got[o] \o Part(q, 0, n)]
      BY <1>6, <1>7, <1>15, Zenon
    <2>2. Part(q, 0, n) = SubSeq(q, 1, n) /\ Part(q, n, Len(q)) = SubSeq(q, n + 1, Len(q))
      BY DEF Part
    <2> QED
      BY <1>5, <2>1, <2>2, Zenon
  <1> QED
    BY <1>5, <1>12, <1>14, <1>16, <1>17, <1>18, Zenon DEF Delivers

-----------------------------------------------------------------------------
relayed == <<[s \in Side |-> Queue(s)], got, freed>>

(* Equal queues are an equal function. *)
LEMMA SameQueues ==
    ASSUME \A s \in Side : Queue(s)' = Queue(s)
    PROVE  [s \in Side |-> Queue(s)]' = [s \in Side |-> Queue(s)]
  OBVIOUS

(* A step that leaves the queues alone is none of the relay, or closes it. *)
LEMMA QuietStep ==
    ASSUME \A s \in Side : Queue(s)' = Queue(s), got' = got,
           freed' = freed \/ (~ freed /\ freed' = TRUE)
    PROVE  [R!Next]_relayed
  <1>1. [s \in Side |-> Queue(s)]' = [s \in Side |-> Queue(s)]
    BY SameQueues
  <1> QED
    BY <1>1 DEF R!Next, R!Close, relayed

(* Steps of the kernel that move no byte are none of the relay. *)
LEMMA UntouchedStep ==
    ASSUME Inv, UNCHANGED <<sent, in, got, buf, freed>>
    PROVE  Inv' /\ [R!Next]_relayed
  <1>1. Inv'
    BY DEF Inv
  <1>2. \A s \in Side : Queue(s)' = Queue(s)
    BY DEF Queue
  <1> QED
    BY <1>1, <1>2, QuietStep

(* What a side sends joins the end of its queue. *)
LEMMA SendStep ==
    ASSUME Inv, NEW s \in Side, send(s)
    PROVE  Inv' /\ [R!Next]_relayed
  <1>1. PICK S : S = 1..MaxBytes
    OBVIOUS
  <1>2. PICK d \in Seq(S), w \in Nat, r \in Nat, x \in Seq(S) :
            /\ d = buf[s].data /\ w = buf[s].write_idx /\ r = buf[s].read_idx /\ x = in[s]
            /\ w <= r /\ r <= Len(d)
    BY <1>1, Zenon DEF Inv, Indices, Bytes
  <1>3. PICK e \in S : e = sent[s] + 1
    BY <1>1, SizeAssumption DEF Inv, send
  <1>4. /\ sent' = [sent EXCEPT ![s] = e] /\ in' = [in EXCEPT ![s] = Append(x, e)]
        /\ UNCHANGED <<got, buf, freed>> /\ ~ freed
    BY <1>2, <1>3, Zenon DEF send
  <1>5. Append(x, e) \in Bytes /\ e \in 0..MaxBytes
    BY <1>1 DEF Bytes
  <1>6. Inv'
    BY <1>4, <1>5, Zenon DEF Inv
  <1>7. Rest(d, w, r, Append(x, e)) = Append(Rest(d, w, r, x), e)
    <2>1. Part(d, w, r) \in Seq(S)
      BY <1>2, SubSeqProperties, SMTT(30) DEF Part
    <2> QED
      BY <2>1, SendAppends, SMTT(30) DEF Rest
  <1>8. Queue(s) = Rest(d, w, r, x) /\ Queue(s)' = Rest(d, w, r, Append(x, e))
    <2>1. in'[s] = Append(x, e) /\ buf'[s] = buf[s]
      BY <1>4 DEF Inv
    <2>2. Queue(s)' = Rest(d, w, r, Append(x, e))
      BY <1>2, <2>1, Zenon DEF Queue, Rest, Part
    <2> QED
      BY <1>2, <2>2, QueueIsRest, Zenon
  <1>9. \A u \in Side \ {s} : Queue(u)' = Queue(u)
    BY <1>4, Zenon DEF Queue, Inv
  <1>10. [u \in Side |-> Queue(u)]' = [[u \in Side |-> Queue(u)] EXCEPT ![s] = Append([u \in Side |-> Queue(u)][s], e)]
    BY <1>7, <1>8, <1>9, Zenon
  <1>11. R!Send(s)
    BY <1>1, <1>3, <1>4, <1>10, Zenon DEF R!Send
  <1> QED
    BY <1>4, <1>6, <1>11 DEF R!Next

(* mgr::process writes n bytes, and may free the connection. *)
LEMMA DeliverStep ==
    ASSUME Inv, NEW s \in Side, NEW n \in 0..Pending(Peer(s)), NEW res,
           res \in {"BUFFER_EMPTY", "TRY_AGAIN", "IOERR"}, write(s, n, res),
           ~ freed, freed' = TRUE \/ freed' = freed
    PROVE  Inv' /\ [R!Next]_relayed
  <1>1. PICK o \in Side : o = Peer(s)
    BY DEF Side, Peer
  <1>2. /\ Inv'
        /\ \A u \in Side \ {o} : Queue(u)' = Queue(u)
        /\ Queue(o)' = SubSeq(Queue(o), n + 1, Len(Queue(o)))
        /\ got' = [got EXCEPT ![o] = got[o] \o SubSeq(Queue(o), 1, n)]
        /\ n \in 0..Len(Queue(o))
        /\ n = 0 => Queue(o)' = Queue(o) /\ got' = got
    <2>1. n \in 0..Pending(o)
      BY <1>1
    <2>2. Inv' /\ Delivers(o, n)
      BY <1>1, <2>1, WriteStep
    <2> QED
      BY <2>1, <2>2, Zenon DEF Delivers
  <1>3. CASE n = 0
    <2>1. \A u \in Side : Queue(u)' = Queue(u)
      BY <1>2, <1>3
    <2>2. freed' = freed \/ (~ freed /\ freed' = TRUE)
      OBVIOUS
    <2> QED
      BY <1>2, <1>3, <2>1, <2>2, QuietStep, Zenon
  <1>4. CASE n # 0
    <2> DEFINE queue == [u \in Side |-> Queue(u)]
    <2>1. queue' = [queue EXCEPT ![o] = SubSeq(queue[o], n + 1, Len(queue[o]))]
      BY <1>2, Zenon
    <2>2. got' = [got EXCEPT ![o] = got[o] \o SubSeq(queue[o], 1, n)]
      BY <1>2, Zenon
    <2>3. n \in 1..Len(queue[o])
      BY <1>2, <1>4
    <2>4. freed' \in {freed, TRUE}
      BY Zenon
    <2>5. R!Deliver(o, n)
      BY <2>1, <2>2, <2>4, Zenon DEF R!Deliver
    <2> QED
      BY <1>2, <2>3, <2>5, Zenon DEF R!Next
  <1> QED
    BY <1>3, <1>4

(* mgr::process, one case for each kind of event. *)
LEMMA ProcessStep ==
    ASSUME Inv, process
    PROVE  Inv' /\ [R!Next]_relayed
  <1>1. CASE read_clt
    <2>1. read("clt") /\ "clt" \in Side /\ ~ freed
      BY <1>1 DEF read_clt, Side, Handles
    <2>2. Inv' /\ \A t \in Side : Queue(t)' = Queue(t)
      BY <2>1, ReadStep
    <2>3. got' = got
      BY <2>1, Zenon DEF read
    <2>4. freed' = TRUE \/ freed' = freed
      BY <1>1 DEF read_clt, free_conn
    <2> QED
      BY <2>1, <2>2, <2>3, <2>4, QuietStep, Zenon
  <1>2. CASE read_srv
    <2>1. read("srv") /\ "srv" \in Side /\ freed' = freed
      BY <1>2 DEF read_srv, Side
    <2>2. Inv' /\ \A t \in Side : Queue(t)' = Queue(t)
      BY <2>1, ReadStep
    <2>3. got' = got
      BY <2>1, Zenon DEF read
    <2> QED
      BY <2>1, <2>2, <2>3, QuietStep
  <1>3. CASE write_clt
    <2>1. "clt" \in Side /\ Peer("clt") = "srv" /\ ~ freed
      BY <1>3 DEF Side, Peer, write_clt, Handles
    <2>2. PICK n \in 0..Pending("srv"), res \in {"BUFFER_EMPTY", "TRY_AGAIN", "IOERR"} :
            /\ write("clt", n, res)
            /\ CASE res = "IOERR" \/ m_srv_closed -> free_conn
                 [] res = "TRY_AGAIN" /\ ~ m_srv_closed -> modfd(Only("clt", "OUT")) /\ UNCHANGED freed
                 [] res = "BUFFER_EMPTY" /\ ~ m_srv_closed -> modfd(Rearmed("clt")) /\ UNCHANGED freed
      BY <1>3, Zenon DEF write_clt
    <2>3. freed' = TRUE \/ freed' = freed
      <3>1. \/ res = "IOERR" \/ m_srv_closed
            \/ res = "TRY_AGAIN" /\ ~ m_srv_closed
            \/ res = "BUFFER_EMPTY" /\ ~ m_srv_closed
        OBVIOUS
      <3> QED
        BY <2>2, <3>1, Zenon DEF free_conn
    <2>4. n \in 0..Pending(Peer("clt"))
      BY <2>1, <2>2
    <2> QED
      BY <2>1, <2>2, <2>3, <2>4, DeliverStep, Zenon
  <1>4. CASE write_srv
    <2>1. "srv" \in Side /\ Peer("srv") = "clt" /\ ~ freed /\ freed' = freed
      BY <1>4 DEF Side, Peer, write_srv, Handles
    <2>2. PICK n \in 0..Pending("clt"), res \in {"BUFFER_EMPTY", "TRY_AGAIN", "IOERR"} : write("srv", n, res)
      BY <1>4 DEF write_srv
    <2>3. n \in 0..Pending(Peer("srv"))
      BY <2>1, <2>2
    <2> QED
      BY <2>1, <2>2, <2>3, DeliverStep
  <1> QED
    BY <1>1, <1>2, <1>3, <1>4 DEF process

(* Every step keeps the indices in order and is a step of the relay or none. *)
LEMMA NextStep == Inv /\ [Next]_vars => Inv' /\ [R!Next]_relayed
  <1> SUFFICES ASSUME Inv, [Next]_vars PROVE Inv' /\ [R!Next]_relayed
    OBVIOUS
  <1>1. CASE UNCHANGED vars
    BY <1>1, UntouchedStep DEF vars
  <1>2. ASSUME NEW s \in Side, send(s) PROVE Inv' /\ [R!Next]_relayed
    BY <1>2, SendStep
  <1>3. ASSUME NEW s \in Side, closes(s) \/ drains(s) PROVE Inv' /\ [R!Next]_relayed
    BY <1>3, UntouchedStep, Zenon DEF closes, drains
  <1>4. CASE epoll_wait
    BY <1>4, UntouchedStep, Zenon DEF epoll_wait
  <1>5. CASE process
    BY <1>5, ProcessStep
  <1> QED
    BY <1>1, <1>2, <1>3, <1>4, <1>5 DEF Next

(* springsnail relays: conn::read_clt, read_srv, write_clt and write_srv with  *)
(* mgr::process around them pass the bytes of each side on in order, none      *)
(* twice and none left out, until free_conn.  For every size of the buffers,   *)
(* any number of bytes, partial writes, full sockets and failing writes.       *)
THEOREM SpringRelays == Spec => ImplementsRelay
  <1>1. Init => Inv
    BY InitInv
  <1>2. Inv /\ [Next]_vars => Inv'
    BY NextStep
  <1>3. Init => R!Init
    BY InitInv
  <1>4. Inv /\ [Next]_vars => [R!Next]_<<[s \in Side |-> Queue(s)], got, freed>>
    BY NextStep DEF relayed
  <1> QED
    BY <1>1, <1>2, <1>3, <1>4, PTL DEF Spec, ImplementsRelay, R!Spec
-----------------------------------------------------------------------------
(* m_srv_closed is set when recv has returned 0, and then nothing is left in the
   server's socket, or when a write to the server has failed. *)
ClosedDrained == m_srv_closed /\ ~ failed => "srv" \in eof /\ in["srv"] = <<>>

AnswerInv == Inv /\ ClosedDrained /\ AnswerComplete

(* read_srv returns CLOSED only when the socket has been read to its end. *)
LEMMA ClosedReadsAll ==
    ASSUME Inv, read("srv")
    PROVE  /\ ReadResult("srv") = "CLOSED" => "srv" \in eof /\ in'["srv"] = <<>>
           /\ in["srv"] = <<>> => in'["srv"] = <<>>
  <1>1. PICK x \in Bytes, r \in Nat : x = in["srv"] /\ r = buf["srv"].read_idx /\ r <= BUF_SIZE
    BY Zenon DEF Inv, Indices, Side
  <1>2. PICK t \in Nat : t = Taken("srv") /\ t = IF Len(x) < BUF_SIZE - r THEN Len(x) ELSE BUF_SIZE - r
    BY <1>1, SizeAssumption DEF Taken, Room, Bytes
  <1>3. in'["srv"] = SubSeq(x, t + 1, Len(x)) /\ buf'["srv"].read_idx = r + t
    BY <1>1, <1>2, Zenon DEF read, Inv, Side
  <1>4. Len(x) \in Nat /\ (t = Len(x) => in'["srv"] = <<>>)
    BY <1>3, SubSeqEmpty DEF Bytes
  <1>5. ASSUME ReadResult("srv") = "CLOSED" PROVE "srv" \in eof /\ in'["srv"] = <<>>
    <2>1. buf'["srv"].read_idx \in Nat /\ (buf'["srv"].read_idx >= BUF_SIZE \/ buf'["srv"].read_idx < BUF_SIZE)
      BY <1>3, SizeAssumption
    <2>2. buf'["srv"].read_idx < BUF_SIZE /\ "srv" \in eof
      BY <1>5, <2>1 DEF ReadResult
    <2>3. t = Len(x)
      BY <1>2, <1>3, <1>4, <2>2, SizeAssumption
    <2> QED
      BY <1>4, <2>2, <2>3, SMTT(30)
  <1>6. ASSUME x = <<>> PROVE in'["srv"] = <<>>
    <2>1. Len(x) = 0
      BY <1>6
    <2>2. t = Len(x)
      BY <1>1, <1>2, <2>1, SizeAssumption, SMTT(30)
    <2> QED
      BY <1>4, <2>2
  <1> QED
    BY <1>1, <1>5, <1>6

(* Once the buffer is empty, what is left of the answer is in the socket. *)
LEMMA EmptiedQueue ==
    ASSUME Inv, NEW n, write("clt", n, "BUFFER_EMPTY"), in["srv"] = <<>>
    PROVE  Queue("srv")' = <<>>
  <1>1. buf'["srv"] = Emptied(buf["srv"]) /\ in'["srv"] = <<>>
    BY Zenon DEF write, Peer, Inv, Side
  <1>2. buf'["srv"].read_idx = 0 /\ buf'["srv"].write_idx = 0
    BY <1>1 DEF Emptied, Inv, Side
  <1>3. SubSeq(buf'["srv"].data, 0 + 1, 0) = <<>>
    BY SubSeqEmpty
  <1>4. <<>> \in Seq(1..MaxBytes) /\ <<>> \o <<>> = <<>>
    BY ConcatEmptySeq
  <1> QED
    BY <1>1, <1>2, <1>3, <1>4 DEF Queue

(* mgr::process, one case for each kind of event: only write_clt frees the
   connection without the client's doing, and then the buffer is empty. *)
LEMMA AnswerProcess ==
    ASSUME AnswerInv, process
    PROVE  ClosedDrained' /\ AnswerComplete'
  <1>0. Inv /\ ~ freed /\ (m_srv_closed /\ ~ failed => "srv" \in eof /\ in["srv"] = <<>>)
    BY Zenon DEF AnswerInv, ClosedDrained, process, read_clt, read_srv, write_clt, write_srv, Handles
  <1>1. CASE read_clt
    <2>1. in'["srv"] = in["srv"] /\ eof' = eof /\ m_srv_closed' = m_srv_closed /\ failed' = failed
      BY <1>0, <1>1, Zenon DEF read_clt, read, Inv, Side
    <2>2. ClosedDrained'
      BY <1>0, <2>1 DEF ClosedDrained
    <2>3. ASSUME freed', ~ early' PROVE "clt" \in eof'
      <3>1. (~ m_srv_closed /\ free_conn) \/ UNCHANGED freed
        BY <1>1, <2>3, Zenon DEF read_clt
      <3>2. ReadResult("clt") = "CLOSED"
        BY <1>0, <1>1, <2>3, <3>1, Zenon DEF read_clt
      <3> QED
        BY <2>1, <3>2 DEF ReadResult
    <2> QED
      BY <2>2, <2>3 DEF AnswerComplete
  <1>2. CASE write_clt
    <2>1. PICK n \in 0..Pending("srv"), res \in {"BUFFER_EMPTY", "TRY_AGAIN", "IOERR"} :
            /\ write("clt", n, res)
            /\ CASE res = "IOERR" \/ m_srv_closed -> free_conn
                 [] res = "TRY_AGAIN" /\ ~ m_srv_closed -> modfd(Only("clt", "OUT")) /\ UNCHANGED freed
                 [] res = "BUFFER_EMPTY" /\ ~ m_srv_closed -> modfd(Rearmed("clt")) /\ UNCHANGED freed
      BY <1>2, Zenon DEF write_clt
    <2>2. in' = in /\ eof' = eof /\ m_srv_closed' = m_srv_closed
      BY <1>2, <2>1, Zenon DEF write_clt, write
    <2>3. CASE res = "IOERR"
      <3>1. failed'
        BY <2>1, <2>3, Zenon DEF write
      <3> QED
        BY <3>1 DEF ClosedDrained, AnswerComplete
    <2>4. CASE res = "TRY_AGAIN"
      <3>1. filled' /\ failed' = failed
        BY <2>1, <2>4, Zenon DEF write
      <3> QED
        BY <1>0, <2>2, <3>1, Zenon DEF ClosedDrained, AnswerComplete
    <2>5. CASE res = "BUFFER_EMPTY"
      <3>1. failed' = failed /\ write("clt", n, "BUFFER_EMPTY")
        BY <2>1, <2>5, Zenon DEF write
      <3>2. ClosedDrained'
        BY <1>0, <2>2, <3>1 DEF ClosedDrained
      <3>3. CASE m_srv_closed /\ ~ failed
        BY <1>0, <3>1, <3>2, <3>3, EmptiedQueue, Zenon DEF AnswerComplete
      <3>4. CASE ~ m_srv_closed
        <4>1. freed' = freed
          BY <2>1, <2>5, <3>4
        <4> QED
          BY <1>0, <3>2, <4>1, Zenon DEF AnswerComplete
      <3>5. CASE failed
        BY <3>1, <3>2, <3>5 DEF AnswerComplete
      <3> QED
        BY <3>3, <3>4, <3>5
    <2> QED
      BY <2>1, <2>3, <2>4, <2>5
  <1>3. CASE read_srv
    <2>1. /\ read("srv") /\ eof' = eof /\ failed' = failed /\ ~ freed'
          /\ m_srv_closed' = (m_srv_closed \/ ReadResult("srv") = "CLOSED")
      BY <1>0, <1>3, Zenon DEF read_srv, read
    <2>2. ClosedDrained'
      BY <1>0, <2>1, ClosedReadsAll, Zenon DEF ClosedDrained
    <2> QED
      BY <2>1, <2>2 DEF AnswerComplete
  <1>4. CASE write_srv
    <2>1. PICK n \in 0..Pending("clt"), res \in {"BUFFER_EMPTY", "TRY_AGAIN", "IOERR"} :
            write("srv", n, res) /\ m_srv_closed' = (m_srv_closed \/ res = "IOERR")
      BY <1>4 DEF write_srv
    <2>2. in' = in /\ eof' = eof /\ ~ freed' /\ (res = "IOERR" => failed') /\ (res # "IOERR" => failed' = failed)
      BY <1>0, <1>4, <2>1, Zenon DEF write_srv, write
    <2>3. CASE res = "IOERR"
      BY <2>2, <2>3, Zenon DEF ClosedDrained, AnswerComplete
    <2>4. CASE res # "IOERR"
      <3>1. (m_srv_closed' => m_srv_closed) /\ failed' = failed
        BY <2>1, <2>2, <2>4, Zenon
      <3> QED
        BY <1>0, <2>2, <3>1, Zenon DEF ClosedDrained, AnswerComplete
    <2> QED
      BY <2>3, <2>4
  <1> QED
    BY <1>1, <1>2, <1>3, <1>4 DEF process

(* When the server closes, its whole answer reaches the client, for every size *)
(* of the buffers and any number of bytes: free_conn runs with something left  *)
(* of it only if the client closed or sent more, or a socket was full, or a    *)
(* write failed.                                                               *)
THEOREM AnswerDelivered == Spec => []AnswerComplete
  <1>1. Init => AnswerInv
    BY InitInv, Zenon DEF Init, AnswerInv, ClosedDrained, AnswerComplete
  <1>2. AnswerInv /\ [Next]_vars => AnswerInv'
    <2> SUFFICES ASSUME AnswerInv, [Next]_vars PROVE AnswerInv'
      OBVIOUS
    <2>0. Inv /\ Inv'
      BY NextStep DEF AnswerInv
    <2>1. CASE UNCHANGED vars
      <3>1. Queue("srv")' = Queue("srv")
        BY <2>1 DEF vars, Queue
      <3> QED
        BY <2>0, <2>1, <3>1, Zenon DEF vars, AnswerInv, ClosedDrained, AnswerComplete
    <2>2. ASSUME NEW s \in Side, send(s) PROVE AnswerInv'
      <3>1. /\ ~ freed' /\ m_srv_closed' = m_srv_closed /\ failed' = failed /\ eof' = eof
            /\ ("srv" \in eof => in'["srv"] = in["srv"])
        BY <2>0, <2>2, Zenon DEF send, Inv, Side
      <3> QED
        BY <2>0, <3>1, Zenon DEF AnswerInv, ClosedDrained, AnswerComplete
    <2>3. ASSUME NEW s \in Side, closes(s) \/ drains(s) PROVE AnswerInv'
      <3>1. /\ UNCHANGED <<m_srv_closed, failed, filled, early, freed, in, buf>>
            /\ eof \subseteq eof' /\ (eof' = eof \/ ~ freed')
        BY <2>3 DEF closes, drains, history
      <3>2. Queue("srv")' = Queue("srv")
        BY <3>1 DEF Queue
      <3> QED
        BY <2>0, <3>1, <3>2, Zenon DEF AnswerInv, ClosedDrained, AnswerComplete
    <2>4. CASE epoll_wait
      <3>1. ~ freed' /\ UNCHANGED <<m_srv_closed, failed, in, eof>>
        BY <2>4, Zenon DEF epoll_wait
      <3> QED
        BY <2>0, <3>1, Zenon DEF AnswerInv, ClosedDrained, AnswerComplete
    <2>5. CASE process
      BY <2>0, <2>5, AnswerProcess DEF AnswerInv
    <2> QED
      BY <2>1, <2>2, <2>3, <2>4, <2>5 DEF Next
  <1>3. AnswerInv => AnswerComplete
    BY DEF AnswerInv
  <1> QED
    BY <1>1, <1>2, <1>3, PTL DEF Spec
-----------------------------------------------------------------------------
(* the maps, and the descriptors in them *)
Maps ==
    /\ open \subseteq Fd /\ events \subseteq Fd \cup {0}
    /\ m_conns \in [DOMAIN m_conns -> Conn] /\ DOMAIN m_conns \subseteq open
    /\ m_used \in [DOMAIN m_used -> Conn \cup {NULL}] /\ DOMAIN m_used \subseteq Fd
    /\ m_freed \in [DOMAIN m_freed -> Conn] /\ DOMAIN m_freed \subseteq Fd
    /\ m_cltfd \in [Conn -> Fd \cup {-1}] /\ m_srvfd \in [Conn -> Fd \cup {-1}]

(* A conn that is ready or freed is found under the descriptor it has, or had,
   to the server, and under no other. *)
Keys ==
    /\ \A f \in DOMAIN m_conns : m_srvfd[m_conns[f]] = f /\ m_cltfd[m_conns[f]] = -1
    /\ \A f \in DOMAIN m_freed : m_srvfd[m_freed[f]] = f /\ m_cltfd[m_freed[f]] = -1
    /\ DOMAIN m_freed \cap DOMAIN m_conns = {}

(* The two descriptors of a bound conn are open, and nobody else's. *)
Owned ==
    \A c \in M!Bound : /\ m_cltfd[c] \in open /\ m_srvfd[c] \in open
                     /\ m_cltfd[c] \notin DOMAIN m_conns /\ m_srvfd[c] \notin DOMAIN m_conns
                     /\ m_srvfd[c] \notin DOMAIN m_freed
(* No two bound conns have a descriptor in common, and no open one is lost. *)
Apart == \A c, d \in M!Bound : c # d => /\ m_cltfd[c] # m_cltfd[d] /\ m_srvfd[c] # m_srvfd[d]
                                      /\ m_cltfd[c] # m_srvfd[d] /\ m_srvfd[c] # m_cltfd[d]
Kept == \A f \in open : f \in DOMAIN m_conns \/ \E c \in M!Bound : f = m_cltfd[c] \/ f = m_srvfd[c]

(* m_used leads to bound conns only; a NULL in it is remembered. *)
Used ==
    /\ \A f \in DOMAIN m_used : IF m_used[f] = NULL THEN f \in nulled
                                ELSE m_used[f] \in M!Bound /\ f \in {m_cltfd[m_used[f]], m_srvfd[m_used[f]]}
    /\ M!BothEndsFound

(* the inductive invariant of the maps *)
MInv == Maps /\ Keys /\ Owned /\ Apart /\ Kept /\ Used
-----------------------------------------------------------------------------
(* The invariant implies what is claimed of the maps. *)
LEMMA MInvMeans == MInv => PoolsSound
  <1> SUFFICES ASSUME MInv PROVE PoolsSound
    OBVIOUS
  <1>1. M!TypeOK
    BY DEF MInv, Maps, M!TypeOK, M!Range
  <1>2. M!OnePool
    BY DEF MInv, Maps, Keys, M!OnePool, M!Bound, M!Range, M!IsInjective
  <1>3. M!NoMixup
    BY DEF MInv, Used, Apart, M!NoMixup
  <1>4. M!NoLeak
    BY DEF MInv, Maps, Kept, Owned, M!NoLeak
  <1> QED
    BY <1>1, <1>2, <1>3, <1>4 DEF PoolsSound, MInv, Used

(* The constructor *)
LEMMA MInit == M!Init => MInv
  <1> SUFFICES ASSUME M!Init PROVE MInv
    OBVIOUS
  <1>1. PICK n \in Fd \cup {0} : \E cs \in [1..n -> Conn] :
        /\ 1..n \subseteq Fd /\ M!IsInjective(cs)
        /\ open = 1..n /\ m_conns = cs
        /\ m_used = M!Empty /\ m_freed = M!Empty
        /\ m_cltfd = [c \in Conn |-> -1]
        /\ m_srvfd = [c \in Conn |-> IF c \in M!Range(cs) THEN CHOOSE f \in 1..n : cs[f] = c ELSE -1]
        /\ events = {} /\ nulled = {}
    BY Zenon DEF M!Init
  <1>2. /\ m_conns \in [1..n -> Conn] /\ M!IsInjective(m_conns) /\ open = 1..n
        /\ m_used = M!Empty /\ m_freed = M!Empty
        /\ m_cltfd = [c \in Conn |-> -1]
        /\ m_srvfd = [c \in Conn |-> IF c \in M!Range(m_conns) THEN CHOOSE f \in 1..n : m_conns[f] = c ELSE -1]
        /\ events = {} /\ nulled = {}
    BY <1>1
  <1>3. open \subseteq Fd
    BY <1>1, <1>2, Zenon
  <1>4. ASSUME NEW f \in 1..n PROVE m_conns[f] \in Conn /\ m_srvfd[m_conns[f]] = f
    <2>1. PICK c \in Conn : c = m_conns[f]
      BY <1>2
    <2>2. c \in M!Range(m_conns)
      BY <1>2, <2>1, Zenon DEF M!Range
    <2>3. PICK e \in 1..n : e = (CHOOSE g \in 1..n : m_conns[g] = c) /\ m_conns[e] = c
      BY <2>1
    <2>4. e = f
      BY <1>2, <2>1, <2>3, Zenon DEF M!IsInjective
    <2> QED
      BY <1>2, <2>1, <2>2, <2>3, <2>4, Zenon
  <1>5. m_srvfd \in [Conn -> Fd \cup {-1}]
    <2>1. ASSUME NEW c \in Conn PROVE m_srvfd[c] \in Fd \cup {-1}
      <3>1. CASE c \in M!Range(m_conns)
        <4>1. PICK f \in 1..n : m_conns[f] = c
          BY <1>2, <3>1 DEF M!Range
        <4> QED
          BY <1>2, <1>3, <1>4, <4>1, Zenon
      <3>2. CASE c \notin M!Range(m_conns)
        BY <1>2, <3>2, Zenon
      <3> QED
        BY <3>1, <3>2
    <2> QED
      BY <1>2, <2>1
  <1>6. M!Bound = {}
    BY <1>2 DEF M!Bound
  <1>7. Maps
    BY <1>2, <1>3, <1>5, Zenon DEF Maps, M!Empty
  <1>8. Keys
    BY <1>2, <1>4, Zenon DEF Keys, M!Empty
  <1>9. Owned /\ Apart /\ Kept /\ Used
    BY <1>2, <1>6, Zenon DEF Owned, Apart, Kept, Used, M!BothEndsFound, M!Empty
  <1> QED
    BY <1>7, <1>8, <1>9 DEF MInv
-----------------------------------------------------------------------------
(* A step that only changes the batch of events keeps the maps as they are. *)
LEMMA PoolsUntouched ==
    ASSUME MInv, UNCHANGED <<open, m_conns, m_used, m_freed, m_cltfd, m_srvfd, nulled>>,
           M!Bound' = M!Bound, events' \subseteq Fd \cup {0}
    PROVE  MInv'
  <1>1. Maps'
    BY Zenon DEF MInv, Maps
  <1>2. Keys'
    BY Zenon DEF MInv, Keys
  <1>3. Owned'
    BY Zenon DEF MInv, Owned
  <1>4. Apart'
    BY ZenonT(60) DEF MInv, Apart
  <1>5. Kept'
    BY Zenon DEF MInv, Kept
  <1>6. Used'
    BY ZenonT(60) DEF MInv, Used, M!BothEndsFound
  <1> QED
    BY <1>1, <1>2, <1>3, <1>4, <1>5, <1>6, Zenon DEF MInv

(* accept() and pick_conn(): a ready conn is bound to a client. *)
LEMMA AcceptKeepsPools == MInv /\ M!accept => MInv'
  <1> SUFFICES ASSUME MInv, M!accept PROVE MInv'
    OBVIOUS
  <1>1. events' \subseteq Fd \cup {0} /\ UNCHANGED <<m_freed, m_srvfd, nulled>>
    BY Zenon DEF M!accept, M!Handles, MInv, Maps
  <1>2. CASE m_conns = M!Empty \/ open = Fd
    <2>1. UNCHANGED <<open, m_conns, m_used, m_cltfd>> /\ M!Bound' = M!Bound
      BY <1>2, Zenon DEF M!accept, M!Bound
    <2> QED
      BY <1>1, <2>1, PoolsUntouched, Zenon
  <1>3. CASE ~ (m_conns = M!Empty \/ open = Fd)
    <2>1. PICK cltfd \in M!Lowest(Fd \ open), srvfd \in M!Lowest(DOMAIN m_conns) :
          /\ open' = open \cup {cltfd}
          /\ m_conns' = M!Without(m_conns, {srvfd})
          /\ m_used' = M!Bind(m_conns[srvfd], cltfd, srvfd)
          /\ m_cltfd' = [m_cltfd EXCEPT ![m_conns[srvfd]] = cltfd]
      BY <1>3, Zenon DEF M!accept
    <2>2. PICK c : /\ c = m_conns[srvfd]
                   /\ open' = open \cup {cltfd}
                   /\ m_conns' = M!Without(m_conns, {srvfd})
                   /\ m_used' = M!Bind(c, cltfd, srvfd)
                   /\ m_cltfd' = [m_cltfd EXCEPT ![c] = cltfd]
      BY <2>1, Zenon
    <2>3. cltfd \in Fd \ open
      BY <2>1, Zenon DEF M!Lowest
    <2>4. srvfd \in DOMAIN m_conns
      BY <2>1, Zenon DEF M!Lowest
    <2>5. c \in Conn /\ m_srvfd[c] = srvfd /\ m_cltfd[c] = -1 /\ c \notin M!Bound /\ cltfd # -1
      BY <2>2, <2>3, <2>4, MgrAssumption DEF MInv, Maps, Keys, M!Bound
    <2>6. M!Bound' = M!Bound \cup {c} /\ m_cltfd'[c] = cltfd /\ \A d \in Conn \ {c} : m_cltfd'[d] = m_cltfd[d]
      BY <2>2, <2>5, ZenonT(60) DEF M!Bound, MInv, Maps
    <2>7. /\ DOMAIN m_conns' = DOMAIN m_conns \ {srvfd} /\ \A f \in DOMAIN m_conns' : m_conns'[f] = m_conns[f]
          /\ m_conns' \in [DOMAIN m_conns' -> Conn]
      BY <2>2, Zenon DEF M!Without, M!Restrict, MInv, Maps
    <2>8. /\ DOMAIN m_used' = DOMAIN m_used \cup {cltfd, srvfd}
          /\ \A f \in DOMAIN m_used : m_used'[f] = m_used[f]
          /\ \A f \in {cltfd, srvfd} \ DOMAIN m_used : m_used'[f] = c
          /\ m_used' \in [DOMAIN m_used' -> Conn \cup {NULL}]
      BY <2>2, <2>5, Zenon DEF M!Bind, M!Insert, MInv, Maps
    <2>9. Maps'
      BY <1>1, <2>2, <2>3, <2>4, <2>5, <2>7, <2>8, ZenonT(60) DEF MInv, Maps
    <2>10. \A f \in DOMAIN m_conns' : m_conns[f] # c
      BY <2>4, <2>5, <2>7, Zenon DEF MInv, Keys
    <2>11. \A f \in DOMAIN m_freed : m_freed[f] # c
      BY <2>4, <2>5, SMTT(30) DEF MInv, Keys
    <2>12. Keys'
      BY <1>1, <2>6, <2>7, <2>10, <2>11 DEF MInv, Maps, Keys
    <2>13. srvfd \in open /\ srvfd # cltfd /\ srvfd \notin DOMAIN m_freed /\ cltfd \notin DOMAIN m_conns
      BY <2>3, <2>4, Zenon DEF MInv, Maps, Keys
    <2>14. \A d \in M!Bound : d # c /\ d \in Conn /\ m_cltfd'[d] = m_cltfd[d] /\ m_srvfd'[d] = m_srvfd[d]
      BY <1>1, <2>5, <2>6, Zenon DEF M!Bound
    <2>15. m_srvfd'[c] = srvfd
      BY <1>1, <2>5, Zenon
    <2>16. Owned'
      BY <1>1, <2>2, <2>6, <2>7, <2>13, <2>14, <2>15 DEF MInv, Owned
    <2>17. \A d \in M!Bound : /\ m_cltfd[d] # cltfd /\ m_srvfd[d] # cltfd
                             /\ m_cltfd[d] # srvfd /\ m_srvfd[d] # srvfd
      BY <2>3, <2>4, Zenon DEF MInv, Owned
    <2>18. Apart'
      <3> SUFFICES ASSUME NEW a \in M!Bound', NEW d \in M!Bound', a # d
                   PROVE  /\ m_cltfd'[a] # m_cltfd'[d] /\ m_srvfd'[a] # m_srvfd'[d]
                          /\ m_cltfd'[a] # m_srvfd'[d] /\ m_srvfd'[a] # m_cltfd'[d]
        BY Zenon DEF Apart
      <3>1. CASE a = c
        BY <2>6, <2>14, <2>15, <2>17, <3>1, Zenon
      <3>2. CASE d = c
        BY <2>6, <2>14, <2>15, <2>17, <3>2, Zenon
      <3>3. CASE a # c /\ d # c
        <4>1. a \in M!Bound /\ d \in M!Bound
          BY <2>6, <3>3, Zenon
        <4>2. /\ m_cltfd[a] # m_cltfd[d] /\ m_srvfd[a] # m_srvfd[d]
              /\ m_cltfd[a] # m_srvfd[d] /\ m_srvfd[a] # m_cltfd[d]
          BY <4>1, Zenon DEF MInv, Apart
        <4> QED
          BY <2>14, <4>1, <4>2, Zenon
      <3> QED
        BY <3>1, <3>2, <3>3, Zenon
    <2>19. Kept'
      BY <2>2, <2>6, <2>7, <2>14, <2>15 DEF MInv, Kept
    <2>20. Used'
      <3>1. \A f \in DOMAIN m_used : f \in {cltfd, srvfd} => m_used[f] = NULL /\ f \in nulled
        BY <2>17, ZenonT(60) DEF MInv, Used
      <3>2. ASSUME NEW f \in DOMAIN m_used'
            PROVE  IF m_used'[f] = NULL THEN f \in nulled
                   ELSE m_used'[f] \in M!Bound' /\ (f = m_cltfd'[m_used'[f]] \/ f = m_srvfd'[m_used'[f]])
        <4>1. CASE f \in DOMAIN m_used
          BY <2>6, <2>8, <2>14, <4>1, SMTT(30) DEF MInv, Used
        <4>2. CASE f \notin DOMAIN m_used
          BY <2>5, <2>6, <2>8, <2>15, <4>2, MgrAssumption
        <4> QED
          BY <4>1, <4>2, Zenon
      <3>3. M!BothEndsFound'
        <4> SUFFICES ASSUME NEW d \in M!Bound', NEW f \in {m_cltfd'[d], m_srvfd'[d]} \ nulled
                     PROVE  f \in DOMAIN m_used' /\ m_used'[f] = d
          BY <1>1, Zenon DEF M!BothEndsFound
        <4>1. CASE d = c
          BY <2>6, <2>8, <2>15, <3>1, <4>1, Zenon
        <4>2. CASE d # c
          BY <2>6, <2>8, <2>14, <4>2, Zenon DEF MInv, Used, M!BothEndsFound
        <4> QED
          BY <4>1, <4>2, Zenon
      <3> QED
        BY <1>1, <3>2, <3>3, Zenon DEF Used
    <2> QED
      BY <2>9, <2>12, <2>16, <2>18, <2>19, <2>20 DEF MInv
  <1> QED
    BY <1>2, <1>3

(* A conn is freed: its sockets are closed, and its entries erased. *)
LEMMA FreeKeepsPools == ASSUME MInv, NEW e \in Fd, M!free_conn(e) PROVE MInv'
  <1>1. PICK c : c = m_used[e]
    OBVIOUS
  <1>2. PICK cltfd, srvfd : cltfd = m_cltfd[c] /\ srvfd = m_srvfd[c]
    OBVIOUS
  <1>3. /\ e \in DOMAIN m_used /\ c # NULL /\ UNCHANGED <<m_conns, m_srvfd, nulled>>
        /\ open' = open \ {cltfd, srvfd}
        /\ m_used' = M!Without(m_used, {cltfd, srvfd})
        /\ m_cltfd' = [m_cltfd EXCEPT ![c] = -1]
        /\ m_freed' = M!Insert(m_freed, srvfd, c)
        /\ events' \subseteq events
    BY <1>1, <1>2, Zenon DEF M!free_conn, M!Closed, M!Erased, M!FreedKey, M!Handles
  <1>4. c \in M!Bound /\ c \in Conn
    BY <1>1, <1>3, Zenon DEF MInv, Used, M!Bound
  <1>5. M!Bound' = M!Bound \ {c} /\ m_cltfd'[c] = -1 /\ \A d \in Conn \ {c} : m_cltfd'[d] = m_cltfd[d]
    BY <1>3, <1>4, Zenon DEF M!Bound, MInv, Maps
  <1>6. srvfd \in Fd /\ srvfd \notin DOMAIN m_freed /\ cltfd \notin DOMAIN m_conns /\ srvfd \notin DOMAIN m_conns
    BY <1>2, <1>4, Zenon DEF MInv, Owned, Maps
  <1>7. /\ DOMAIN m_freed' = DOMAIN m_freed \cup {srvfd} /\ m_freed'[srvfd] = c
        /\ \A f \in DOMAIN m_freed : m_freed'[f] = m_freed[f]
        /\ m_freed' \in [DOMAIN m_freed' -> Conn]
    BY <1>3, <1>4, <1>6, Zenon DEF M!Insert, MInv, Maps
  <1>8. /\ DOMAIN m_used' = DOMAIN m_used \ {cltfd, srvfd} /\ \A f \in DOMAIN m_used' : m_used'[f] = m_used[f]
        /\ m_used' \in [DOMAIN m_used' -> Conn \cup {NULL}]
    BY <1>3, Zenon DEF M!Without, M!Restrict, MInv, Maps
  <1>9. Maps'
    BY <1>3, <1>4, <1>6, <1>7, <1>8, ZenonT(60) DEF MInv, Maps
  <1>10. Keys'
    <2>1. \A f \in DOMAIN m_conns : m_conns[f] # c /\ m_conns[f] \in Conn
      BY <1>4, Zenon DEF MInv, Keys, M!Bound, Maps
    <2>2. \A f \in DOMAIN m_freed : m_freed[f] # c /\ m_freed[f] \in Conn
      BY <1>4, Zenon DEF MInv, Keys, M!Bound, Maps
    <2> QED
      BY <1>2, <1>3, <1>5, <1>6, <1>7, <2>1, <2>2 DEF MInv, Keys
  <1>11. \A d \in M!Bound \ {c} : /\ d \in Conn /\ m_cltfd'[d] = m_cltfd[d] /\ m_srvfd'[d] = m_srvfd[d]
                                 /\ m_cltfd[d] \notin {cltfd, srvfd} /\ m_srvfd[d] \notin {cltfd, srvfd}
    <2> TAKE d \in M!Bound \ {c}
    <2>1. d \in Conn /\ m_cltfd'[d] = m_cltfd[d] /\ m_srvfd'[d] = m_srvfd[d]
      BY <1>3, <1>5, Zenon DEF M!Bound
    <2>2. /\ m_cltfd[d] # m_cltfd[c] /\ m_srvfd[d] # m_srvfd[c]
          /\ m_cltfd[d] # m_srvfd[c] /\ m_srvfd[d] # m_cltfd[c]
      BY <1>4, Zenon DEF MInv, Apart
    <2> QED
      BY <1>2, <2>1, <2>2, Zenon
  <1>12. Owned'
    BY <1>3, <1>5, <1>7, <1>11, SMTT(30) DEF MInv, Owned
  <1>13. Apart'
    BY <1>5, <1>11 DEF MInv, Apart
  <1>14. Kept'
    <2> SUFFICES ASSUME NEW f \in open', f \notin DOMAIN m_conns'
                 PROVE  \E d \in M!Bound' : f = m_cltfd'[d] \/ f = m_srvfd'[d]
      BY Zenon DEF Kept
    <2>1. PICK d \in M!Bound : f = m_cltfd[d] \/ f = m_srvfd[d]
      BY <1>3, Zenon DEF MInv, Kept
    <2>2. d # c
      BY <1>2, <1>3, <2>1, Zenon
    <2> QED
      BY <1>5, <1>11, <2>1, <2>2, Zenon
  <1>15. Used'
    <2>1. ASSUME NEW f \in DOMAIN m_used'
          PROVE  IF m_used'[f] = NULL THEN f \in nulled
                 ELSE m_used'[f] \in M!Bound' /\ (f = m_cltfd'[m_used'[f]] \/ f = m_srvfd'[m_used'[f]])
      BY <1>2, <1>5, <1>8, <1>11 DEF MInv, Used
    <2>2. M!BothEndsFound'
      <3> SUFFICES ASSUME NEW d \in M!Bound', NEW f \in {m_cltfd'[d], m_srvfd'[d]} \ nulled
                   PROVE  f \in DOMAIN m_used' /\ m_used'[f] = d
        BY <1>3, Zenon DEF M!BothEndsFound
      <3>1. d \in M!Bound \ {c} /\ f \in {m_cltfd[d], m_srvfd[d]} \ nulled
        BY <1>5, <1>11, Zenon
      <3>2. f \in DOMAIN m_used /\ m_used[f] = d
        BY <3>1, Zenon DEF MInv, Used, M!BothEndsFound
      <3> QED
        BY <1>8, <1>11, <3>1, <3>2
    <2> QED
      BY <1>3, <2>1, <2>2, Zenon DEF Used
  <1> QED
    BY <1>9, <1>10, <1>12, <1>13, <1>14, <1>15 DEF MInv

(* An event that frees nothing adds at most a NULL to m_used. *)
LEMMA ProcessKeepsPools == ASSUME MInv, NEW e \in Fd, M!process(e) PROVE MInv'
  <1>1. /\ UNCHANGED <<open, m_conns, m_freed, m_cltfd, m_srvfd>> /\ events' \subseteq events
        /\ m_used' = M!Insert(m_used, e, NULL)
        /\ nulled' = IF e \in DOMAIN m_used THEN nulled ELSE nulled \cup {e}
    BY Zenon DEF M!process, M!Handles, M!Looked
  <1>2. /\ DOMAIN m_used' = DOMAIN m_used \cup {e} /\ \A f \in DOMAIN m_used : m_used'[f] = m_used[f]
        /\ e \notin DOMAIN m_used => m_used'[e] = NULL
        /\ m_used' \in [DOMAIN m_used' -> Conn \cup {NULL}]
    BY <1>1, Zenon DEF M!Insert, MInv, Maps
  <1>3. M!Bound' = M!Bound
    BY <1>1 DEF M!Bound
  <1>4. Maps' /\ Keys' /\ Owned' /\ Apart' /\ Kept'
    <2>1. Maps'
      BY <1>1, <1>2, Zenon DEF MInv, Maps
    <2>2. Keys'
      BY <1>1, Zenon DEF MInv, Keys
    <2>3. Owned' /\ Apart'
      <3>1. Owned'
        BY <1>1, <1>3, Zenon DEF MInv, Owned
      <3>2. Apart'
        BY <1>1, <1>3, ZenonT(60) DEF MInv, Apart
      <3> QED
        BY <3>1, <3>2
    <2>4. Kept'
      BY <1>1, <1>3, Zenon DEF MInv, Kept
    <2> QED
      BY <2>1, <2>2, <2>3, <2>4
  <1>5. nulled \subseteq nulled' /\ (e \notin DOMAIN m_used => e \in nulled')
    BY <1>1, Zenon
  <1>6. Used'
    <2>1. ASSUME NEW f \in DOMAIN m_used'
          PROVE  IF m_used'[f] = NULL THEN f \in nulled'
                 ELSE m_used'[f] \in M!Bound /\ (f = m_cltfd[m_used'[f]] \/ f = m_srvfd[m_used'[f]])
      BY <1>2, <1>5, Zenon DEF MInv, Used
    <2>2. ASSUME NEW d \in M!Bound, NEW f \in {m_cltfd[d], m_srvfd[d]} \ nulled'
          PROVE  f \in DOMAIN m_used' /\ m_used'[f] = d
      <3>1. f \in DOMAIN m_used /\ m_used[f] = d
        BY <1>5, <2>2, Zenon DEF MInv, Used, M!BothEndsFound
      <3> QED
        BY <1>2, <3>1, Zenon
    <2> QED
      BY <1>1, <1>3, <2>1, <2>2, Zenon DEF Used, M!BothEndsFound
  <1> QED
    BY <1>4, <1>6, Zenon DEF MInv

(* Freed conns get new descriptors, each its own, and are ready again. *)
LEMMA RecycleKeepsPools == MInv /\ M!recycle_conns => MInv'
  <1> SUFFICES ASSUME MInv, M!recycle_conns PROVE MInv'
    OBVIOUS
  <1>1. UNCHANGED <<m_used, m_cltfd, events, nulled>> /\ m_freed' = M!Empty /\ M!Bound' = M!Bound
    BY Zenon DEF M!recycle_conns, M!Remaining, M!Bound
  <1>2. PICK S, fd :
          /\ S \in SUBSET DOMAIN m_freed /\ fd \in M!Reconnected(S)
          /\ open' = open \cup M!Range(fd)
          /\ m_conns' = [g \in DOMAIN m_conns \cup M!Range(fd) |->
                            IF g \in DOMAIN m_conns THEN m_conns[g]
                            ELSE m_freed[CHOOSE f \in S : fd[f] = g]]
          /\ m_srvfd' = [c \in Conn |-> IF \E f \in S : m_freed[f] = c
                                        THEN fd[CHOOSE f \in S : m_freed[f] = c]
                                        ELSE m_srvfd[c]]
    BY SMTT(30) DEF M!recycle_conns
  <1>3. fd \in [S -> Fd \ open] /\ M!Range(fd) = {fd[f] : f \in S}
    BY <1>2, Zenon DEF M!Reconnected, M!Range
  <1>4. \A f, g \in S : m_freed[f] = m_freed[g] => f = g
    BY <1>2, Zenon DEF MInv, Keys
  <1>5. ASSUME NEW f \in S
        PROVE  /\ m_freed[f] \in Conn /\ m_cltfd[m_freed[f]] = -1 /\ m_srvfd'[m_freed[f]] = fd[f]
    <2>1. f \in DOMAIN m_freed /\ m_freed[f] \in Conn /\ m_cltfd[m_freed[f]] = -1
      BY <1>2, Zenon DEF MInv, Keys, Maps
    <2>2. (CHOOSE g \in S : m_freed[g] = m_freed[f]) = f
      BY <1>4
    <2> QED
      BY <1>2, <2>1, <2>2, Zenon
  <1>6. ASSUME NEW c \in Conn, \A f \in S : m_freed[f] # c
        PROVE  m_srvfd'[c] = m_srvfd[c]
    BY <1>2, <1>6, Zenon
  <1>7. ASSUME NEW g \in M!Range(fd)
        PROVE  /\ g \in Fd \ open /\ g \notin DOMAIN m_conns
               /\ m_conns'[g] \in Conn /\ m_srvfd'[m_conns'[g]] = g /\ m_cltfd[m_conns'[g]] = -1
    <2>1. g \in Fd \ open /\ g \notin DOMAIN m_conns
      BY <1>3, Zenon DEF MInv, Maps
    <2>2. PICK f : f = CHOOSE h \in S : fd[h] = g
      OBVIOUS
    <2>3. f \in S /\ fd[f] = g
      BY <1>3, <2>2
    <2>4. m_conns'[g] = m_freed[f]
      BY <1>2, <2>1, <2>2, Zenon
    <2> QED
      BY <1>5, <2>1, <2>3, <2>4, Zenon
  <1>8. ASSUME NEW g \in DOMAIN m_conns
        PROVE  /\ g \in DOMAIN m_conns' /\ m_conns'[g] = m_conns[g] /\ m_conns[g] \in Conn
               /\ m_srvfd'[m_conns[g]] = m_srvfd[m_conns[g]]
    <2>1. m_conns[g] \in Conn /\ \A f \in S : m_freed[f] # m_conns[g]
      BY <1>2 DEF MInv, Maps, Keys
    <2> QED
      BY <1>2, <1>6, <2>1, Zenon
  <1>9. DOMAIN m_conns' = DOMAIN m_conns \cup M!Range(fd) /\ DOMAIN m_freed' = {}
    BY <1>1, <1>2, Zenon DEF M!Empty
  <1>10. \A c \in M!Bound : c \in Conn /\ m_srvfd'[c] = m_srvfd[c]
    BY <1>5, <1>6, Zenon DEF M!Bound
  <1>11. Maps'
    <2>1. m_conns' \in [DOMAIN m_conns' -> Conn] /\ DOMAIN m_conns' \subseteq open' /\ open' \subseteq Fd
      <3>1. \A g \in DOMAIN m_conns' : m_conns'[g] \in Conn
        BY <1>7, <1>8, <1>9, Zenon
      <3>2. DOMAIN m_conns' \subseteq open' /\ open' \subseteq Fd
        BY <1>2, <1>7, <1>9, Zenon DEF MInv, Maps
      <3>3. m_conns' = [g \in DOMAIN m_conns' |-> m_conns'[g]]
        BY <1>2
      <3> QED
        BY <3>1, <3>2, <3>3
    <2>2. m_srvfd' \in [Conn -> Fd \cup {-1}]
      <3>1. \A c \in Conn : m_srvfd'[c] \in Fd \cup {-1}
        BY <1>3, <1>5, <1>6 DEF MInv, Maps
      <3>2. m_srvfd' = [c \in Conn |-> m_srvfd'[c]]
        BY <1>2, Zenon
      <3> QED
        BY <3>1, <3>2
    <2>3. m_freed' \in [DOMAIN m_freed' -> Conn] /\ DOMAIN m_freed' \subseteq Fd
      BY <1>1 DEF M!Empty
    <2> QED
      BY <1>1, <2>1, <2>2, <2>3, Zenon DEF MInv, Maps
  <1>12. Keys'
    <2>1. ASSUME NEW g \in DOMAIN m_conns'
          PROVE  m_srvfd'[m_conns'[g]] = g /\ m_cltfd[m_conns'[g]] = -1
      <3>1. CASE g \in DOMAIN m_conns
        <4>1. m_srvfd[m_conns[g]] = g /\ m_cltfd[m_conns[g]] = -1
          BY <3>1, Zenon DEF MInv, Keys
        <4> QED
          BY <1>8, <3>1, <4>1, Zenon
      <3>2. CASE g \in M!Range(fd)
        BY <1>7, <3>2, Zenon
      <3> QED
        BY <1>9, <3>1, <3>2, Zenon
    <2> QED
      BY <1>1, <1>9, <2>1, Zenon DEF Keys
  <1>13. Owned' /\ Apart' /\ Kept'
    <2>1. \A g \in M!Range(fd) : g \notin open
      BY <1>7, Zenon
    <2>2. Owned'
      BY <1>1, <1>2, <1>9, <1>10, <2>1, Zenon DEF MInv, Owned
    <2>3. Apart'
      <3> SUFFICES ASSUME NEW c \in M!Bound, NEW d \in M!Bound, c # d
                   PROVE  /\ m_cltfd[c] # m_cltfd[d] /\ m_srvfd'[c] # m_srvfd'[d]
                          /\ m_cltfd[c] # m_srvfd'[d] /\ m_srvfd'[c] # m_cltfd[d]
        BY <1>1, ZenonT(60) DEF Apart
      <3>1. m_srvfd'[c] = m_srvfd[c] /\ m_srvfd'[d] = m_srvfd[d]
        BY <1>10, Zenon
      <3> QED
        BY <3>1, Zenon DEF MInv, Apart
    <2>4. Kept'
      <3> SUFFICES ASSUME NEW f \in open', f \notin DOMAIN m_conns'
                   PROVE  \E c \in M!Bound : f = m_cltfd[c] \/ f = m_srvfd'[c]
        BY <1>1, Zenon DEF Kept
      <3>1. f \in open /\ f \notin DOMAIN m_conns
        BY <1>2, <1>9, Zenon
      <3>2. PICK c \in M!Bound : f = m_cltfd[c] \/ f = m_srvfd[c]
        BY <3>1, Zenon DEF MInv, Kept
      <3> QED
        BY <1>10, <3>2, Zenon
    <2> QED
      BY <2>2, <2>3, <2>4
  <1>14. Used'
    <2>1. M!BothEndsFound'
      BY <1>1, <1>10 DEF MInv, Used, M!BothEndsFound
    <2>2. ASSUME NEW f \in DOMAIN m_used
          PROVE  IF m_used[f] = NULL THEN f \in nulled
                 ELSE m_used[f] \in M!Bound /\ (f = m_cltfd[m_used[f]] \/ f = m_srvfd'[m_used[f]])
      <3>1. PICK u : u = m_used[f]
        OBVIOUS
      <3>2. IF u = NULL THEN f \in nulled ELSE u \in M!Bound /\ (f = m_cltfd[u] \/ f = m_srvfd[u])
        BY <3>1, Zenon DEF MInv, Used
      <3> QED
        BY <1>10, <3>1, <3>2, Zenon
    <2> QED
      BY <1>1, <2>1, <2>2, Zenon DEF Used
  <1> QED
    BY <1>11, <1>12, <1>13, <1>14, Zenon DEF MInv

(* epoll_wait() changes the batch only. *)
LEMMA WaitKeepsPools == MInv /\ (M!epoll_wait \/ UNCHANGED M!vars) => MInv'
  <1> SUFFICES ASSUME MInv, M!epoll_wait \/ UNCHANGED M!vars PROVE MInv'
    OBVIOUS
  <1>1. UNCHANGED <<open, m_conns, m_used, m_freed, m_cltfd, m_srvfd, nulled>> /\ events' \subseteq Fd \cup {0}
    BY Zenon DEF M!epoll_wait, M!vars, MInv, Maps
  <1>2. M!Bound' = M!Bound
    BY <1>1 DEF M!Bound
  <1> QED
    BY <1>1, <1>2, PoolsUntouched, Zenon

(* mgr.cpp keeps its three maps and the open sockets in agreement, for any number *)
(* of conns and of descriptors and in whatever order events come, are stale, or   *)
(* meet a number that is used again.                                              *)
THEOREM PoolsAreSound == M!Spec => []PoolsSound
  <1>1. M!Init => MInv
    BY MInit
  <1>2. MInv /\ [M!Next]_M!vars => MInv'
    BY WaitKeepsPools, AcceptKeepsPools, FreeKeepsPools, ProcessKeepsPools, RecycleKeepsPools DEF M!Next
  <1> QED
    BY <1>1, <1>2, MInvMeans, PTL DEF M!Spec
=============================================================================
