--------------------------- MODULE DownloadProofs ---------------------------
(* What download.c leaves on the disk is sound, for files of any size, any number
   of threads, of kills and of broken connections, and whatever numbers the monitor
   reads while the threads change them. *)
EXTENDS Download, WellFoundedInduction, TLAPS

TaskType == [start : Int, limit : Int]
SavedType == [kind : {"saved"}, downloaded : Int, amount : Nat, tasks : Seq(TaskType)]

Typed ==
    /\ file_size \in Nat /\ wanted \in Nat \ {0}
    /\ spoilt \in BOOLEAN /\ trusted \in BOOLEAN
    /\ targs \in Seq(TaskType)
    /\ DOMAIN pc = DOMAIN targs
    /\ ct \in [DOMAIN targs -> Nat] /\ i \in [DOMAIN targs -> Nat]
    /\ reg \in [DOMAIN targs -> Int]
    /\ g_downloaded \in Int
    /\ g_breakpoint \in [downloaded : Int, amount : Nat, tasks : Seq(TaskType)]
    /\ Len(g_breakpoint.tasks) = Len(targs)
    /\ cfg \in SavedType \cup {Absent, Empty}
    /\ rec \in SavedType \cup {Empty}

(* The monitor prints the tasks one after the other, and ends only when everything
   has been counted. *)
Printing ==
    /\ g_breakpoint.amount \in {0, Len(targs)}
    /\ rec = Empty \/ rec.amount \in {0, g_breakpoint.amount}
    /\ monitor = "start" => /\ rec # Empty /\ z \in 1..(g_breakpoint.amount + 1)
                            /\ Len(rec.tasks) = z - 1
    /\ monitor = "limit" => /\ rec # Empty /\ z \in 1..g_breakpoint.amount
                            /\ Len(rec.tasks) = z
    /\ cfg.kind = "saved" => cfg.amount \in {0, Len(cfg.tasks)}
    /\ main = "down" => rec = Empty /\ targs = <<>> /\ g_breakpoint.amount = 0 /\ monitor = "none"
    /\ main = "exit" => monitor = "exit"
    /\ monitor \in {"remove", "exit"} => g_downloaded >= file_size

(* the first position behind part n *)
PartEnd(n) == Part(n).start + Part(n).limit

(* Whoever says that part n is finished up to s is right: these bytes are in the
   file; and s is within the part, if the breakpoint is one that adds up. *)
Sound(s, n) ==
    /\ Part(n).start <= s
    /\ ~ spoilt => Part(n).start..(s - 1) \subseteq right
    /\ trusted /\ ~ spoilt => n \in 1..wanted /\ s <= PartEnd(n)

(* The threads say so, g_breakpoint says so, what the monitor has printed and what is
   on the disk say so.  An older number is as sound as the newest: the file grows. *)
PosSound == \A n \in DOMAIN targs : Sound(Position(n), n)
TasksSound == \A n \in DOMAIN targs : Sound(g_breakpoint.tasks[n].start, n)
RecSound == rec # Empty => \A n \in DOMAIN rec.tasks : Sound(rec.tasks[n].start, n)
CfgSound == cfg.kind = "saved" => \A n \in DOMAIN cfg.tasks : Sound(cfg.tasks[n].start, n)
Starts == PosSound /\ TasksSound /\ RecSound /\ CfgSound

(* what the first k threads have still to fetch or to count *)
PartialSums(s) ==
    /\ s \in [0..wanted -> Int] /\ s[0] = 0
    /\ \A k \in 1..wanted : s[k] = s[k - 1] + Left(k) + i[k]

(* If the breakpoint adds up, g_downloaded and what the threads have still to fetch
   or to count are together the size of the file. *)
Counted ==
    /\ trusted => right \subseteq Whole
    /\ trusted /\ main # "down" =>
          /\ Len(targs) = wanted
          /\ \A n \in 1..wanted : targs[n].start + targs[n].limit = PartEnd(n)
    /\ trusted /\ main # "down" /\ ~ spoilt =>
          \E s \in [0..wanted -> Int] : PartialSums(s) /\ g_downloaded + s[wanted] = file_size

(* A piece is counted once. *)
Pending == \A n \in DOMAIN targs : pc[n] \notin {"count", "record"} => i[n] = 0

(* the inductive invariant *)
DInv == Typed /\ Printing /\ Starts /\ Counted /\ Pending
-----------------------------------------------------------------------------
(* A set of naturals that is not empty has a least element. *)
LEMMA Least ==
    ASSUME NEW T \in SUBSET Nat, T # {}
    PROVE  \E m \in T : \A k \in T : m <= k
  <1>1. PICK R : R = OpToRel(<, Nat)
    BY Zenon
  <1>2. IsWellFoundedOn(R, Nat)
    BY <1>1, NatLessThanWellFounded, Zenon
  <1>3. PICK m \in T : \A k \in T : ~ (<<k, m>> \in R)
    BY <1>2, WFMin, Zenon
  <1>4. \A k, l \in Nat : k < l => <<k, l>> \in R
    BY <1>1 DEF OpToRel
  <1>5. ASSUME NEW k \in T PROVE m <= k
    <2>1. m \in Nat /\ k \in Nat /\ ~ (k < m)
      BY <1>3, <1>4, Zenon
    <2> QED
      BY <2>1
  <1> QED
    BY <1>5, Zenon

(* Where the parts of a file are *)
LEMMA Parts ==
    ASSUME file_size \in Nat, wanted \in Nat \ {0}
    PROVE  /\ \A n \in Nat \ {0} : Part(n).start \in Nat /\ Part(n).limit \in Nat
           /\ Part(1).start = 0 /\ PartEnd(wanted) = file_size
           /\ \A n \in 1..(wanted - 1) : PartEnd(n) = Part(n + 1).start
           /\ \A n \in 1..wanted : PartEnd(n) <= file_size
  <1>1. PICK b \in Nat, r \in Nat : /\ b = file_size \div wanted /\ r = file_size % wanted
                                    /\ b * wanted + r = file_size
    BY SMTT(30)
  <1>2. \A n \in Nat \ {0} : Part(n).start = b * (n - 1) /\ Part(n).limit = (IF n = wanted THEN b + r ELSE b)
    BY <1>1 DEF Part, Task, Limit, block_size
  <1>3. \A n \in Nat \ {0} : b * (n - 1) \in Nat
    BY SMTT(30)
  <1>4. \A n \in Nat \ {0} : b * (n - 1) + b = b * n
    BY SMTT(30)
  <1>5. \A n \in 1..wanted : n < wanted => b * n <= b * wanted
    BY SMTT(30)
  <1>6. ASSUME NEW n \in Nat \ {0}
        PROVE  /\ Part(n).start \in Nat /\ Part(n).limit \in Nat
               /\ n = 1 => Part(n).start = 0
               /\ n = wanted => PartEnd(n) = file_size
               /\ n < wanted => PartEnd(n) = Part(n + 1).start /\ PartEnd(n) <= file_size
    <2>1. PICK p \in Nat, q \in Nat : p = b * (n - 1) /\ q = b * n /\ p + b = q /\ (n < wanted => q <= b * wanted)
                                     /\ (n = 1 => p = 0) /\ (n = wanted => q = b * wanted)
      <3>1. b * (n - 1) \in Nat /\ b * n \in Nat /\ (n = 1 => b * (n - 1) = 0)
        BY SMTT(30)
      <3>2. n < wanted => n \in 1..wanted
        OBVIOUS
      <3> QED
        BY <3>1, <3>2, <1>4, <1>5, Zenon
    <2>2. Part(n).start = p /\ Part(n).limit = (IF n = wanted THEN b + r ELSE b) /\ Part(n + 1).start = q
      <3>1. PICK m \in Nat \ {0} : m = n + 1 /\ m - 1 = n
        OBVIOUS
      <3>2. Part(m).start = b * (m - 1)
        BY <1>2, Zenon
      <3> QED
        BY <1>2, <2>1, <3>1, <3>2, Zenon
    <2>3. PICK w \in Nat : w = b * wanted
      BY SMTT(30)
    <2>4. w + r = file_size /\ (n < wanted => q <= w) /\ (n = wanted => q = w)
      BY <1>1, <2>1, <2>3, Zenon
    <2>5. (n = 1 => p = 0) /\ p + b = q
      BY <2>1
    <2> QED
      BY <2>2, <2>4, <2>5 DEF PartEnd
  <1> QED
    BY <1>6

(* The sums of Adds are what they are meant to be, although Remaining is
   defined by recursion. *)
LEMMA SumsOf ==
    ASSUME NEW ts \in Seq(TaskType)
    PROVE  /\ Remaining(ts) \in [0..Len(ts) -> Int] /\ Remaining(ts)[0] = 0
           /\ \A k \in 1..Len(ts) : Remaining(ts)[k] = Remaining(ts)[k - 1] + ts[k].limit
  <1> DEFINE Good(m, f) == f = [k \in 0..m |-> IF k = 0 THEN 0 ELSE f[k - 1] + ts[k].limit]
             Bad == {m \in 0..Len(ts) : ~ \E f \in [0..m -> Int] : Good(m, f)}
  <1>0. Len(ts) \in Nat /\ \A k \in 1..Len(ts) : ts[k].limit \in Int
    <2>1. Len(ts) \in Nat /\ \A k \in 1..Len(ts) : ts[k] \in TaskType
      OBVIOUS
    <2> QED
      BY <2>1 DEF TaskType
  <1> HIDE DEF Good
  <1>1. Bad = {}
    <2> SUFFICES ASSUME Bad # {} PROVE FALSE
      OBVIOUS
    <2>1. PICK m \in Bad : \A k \in Bad : m <= k
      <3>1. Bad \in SUBSET Nat
        BY <1>0
      <3> HIDE DEF Bad
      <3> QED
        BY <3>1, Least
    <2>2. CASE m = 0
      <3>1. [k \in {0} |-> 0] \in [0..0 -> Int] /\ Good(0, [k \in {0} |-> 0])
        BY SMTT(30) DEF Good
      <3> QED
        BY <2>1, <2>2, <3>1
    <2>3. CASE m # 0
      <3>1. PICK f \in [0..(m - 1) -> Int] : Good(m - 1, f)
        <4>1. m \in Nat /\ m <= Len(ts) /\ m - 1 \in 0..Len(ts) /\ ~ (m <= m - 1)
          BY <2>3, <1>0
        <4>2. m - 1 \notin Bad
          BY <2>1, <4>1, SMTT(30)
        <4> QED
          BY <4>1, <4>2
      <3> DEFINE g == [k \in 0..m |-> IF k = m THEN f[m - 1] + ts[m].limit ELSE f[k]]
      <3>2. m \in 1..Len(ts) /\ ts[m].limit \in Int
        BY <2>1, <2>3, <1>0
      <3>3. g \in [0..m -> Int]
        BY <3>1, <3>2, <1>0
      <3>4. ASSUME NEW k \in 0..m PROVE g[k] = IF k = 0 THEN 0 ELSE g[k - 1] + ts[k].limit
        BY <3>1, <3>2, <3>4, <1>0, SMTT(30) DEF Good
      <3>5. Good(m, g)
        BY <3>3, <3>4, Zenon DEF Good
      <3> QED
        BY <2>1, <3>3, <3>5
    <2> QED
      BY <2>2, <2>3
  <1>2. PICK f \in [0..Len(ts) -> Int] : Good(Len(ts), f)
    BY <1>0, <1>1
  <1>3. Good(Len(ts), Remaining(ts))
    BY <1>2, Zenon DEF Remaining, Good
  <1>4. Remaining(ts) = [k \in 0..Len(ts) |-> IF k = 0 THEN 0 ELSE Remaining(ts)[k - 1] + ts[k].limit]
    BY <1>3, Zenon DEF Good
  <1>5. Remaining(ts) \in [0..Len(ts) -> Int]
    <2> DEFINE Odd == {k \in 0..Len(ts) : Remaining(ts)[k] \notin Int}
    <2>1. Odd = {}
      <3> SUFFICES ASSUME Odd # {} PROVE FALSE
        OBVIOUS
      <3>1. PICK m \in Odd : \A k \in Odd : m <= k
        <4>1. Odd \in SUBSET Nat
          BY <1>0
        <4> HIDE DEF Odd
        <4> QED
          BY <4>1, Least
      <3>2. m # 0
        BY <1>0, <1>4
      <3>3. m \in 1..Len(ts) /\ m - 1 \in 0..Len(ts) /\ ~ (m <= m - 1)
        BY <1>0, <3>2
      <3>4. Remaining(ts)[m - 1] \in Int
        BY <3>1, <3>3
      <3>5. Remaining(ts)[m] = Remaining(ts)[m - 1] + ts[m].limit
        BY <1>4, <3>2, <3>3, Zenon
      <3> QED
        BY <1>0, <3>3, <3>4, <3>5, SMTT(30)
    <2> QED
      BY <1>4, <2>1, Zenon
  <1>6. PICK r : r = Remaining(ts)
    OBVIOUS
  <1>7. r = [k \in 0..Len(ts) |-> IF k = 0 THEN 0 ELSE r[k - 1] + ts[k].limit]
    BY <1>4, <1>6, Zenon
  <1>8. \A k \in 0..Len(ts) : r[k] = IF k = 0 THEN 0 ELSE r[k - 1] + ts[k].limit
    BY <1>7, Zenon
  <1>9. r[0] = 0 /\ \A k \in 1..Len(ts) : r[k] = r[k - 1] + ts[k].limit
    <2>1. 0 \in 0..Len(ts) /\ \A k \in 1..Len(ts) : k \in 0..Len(ts) /\ k # 0
      BY <1>0
    <2> QED
      BY <1>8, <2>1, Zenon
  <1> QED
    BY <1>5, <1>6, <1>9, Zenon

(* Sums of numbers that are not negative do not fall. *)
LEMMA Rises ==
    ASSUME NEW w \in Nat, NEW s \in [0..w -> Int], \A k \in 1..w : s[k - 1] <= s[k]
    PROVE  \A a, b \in 0..w : a <= b => s[a] <= s[b]
  <1> SUFFICES ASSUME NEW a \in 0..w, NEW b \in 0..w, a <= b, ~ (s[a] <= s[b]) PROVE FALSE
    OBVIOUS
  <1> DEFINE Falls == {k \in 0..w : a <= k /\ ~ (s[a] <= s[k])}
  <1>1. PICK m \in Falls : \A k \in Falls : m <= k
    <2>1. Falls \in SUBSET Nat
      OBVIOUS
    <2>2. b \in Falls
      OBVIOUS
    <2> HIDE DEF Falls
    <2> QED
      BY <2>1, <2>2, Least, Zenon
  <1>2. m # a /\ m \in 1..w /\ m - 1 \in 0..w /\ a <= m - 1 /\ ~ (m <= m - 1)
    OBVIOUS
  <1>3. s[a] <= s[m - 1]
    BY <1>1, <1>2
  <1> QED
    BY <1>2, <1>3

(* If the sums say that nothing is left, no part has anything left. *)
LEMMA NothingLeft ==
    ASSUME Typed, Len(targs) = wanted, \A k \in 1..wanted : Left(k) \in Nat,
           NEW s \in [0..wanted -> Int], PartialSums(s), s[wanted] <= 0
    PROVE  \A n \in 1..wanted : Left(n) = 0
  <1>1. wanted \in Nat /\ \A k \in 1..wanted : i[k] \in Nat
    <2>1. DOMAIN targs = 1..wanted
      BY DEF Typed
    <2> QED
      BY <2>1, SMTT(30) DEF Typed
  <1>2. ASSUME NEW k \in 1..wanted PROVE s[k - 1] <= s[k] /\ s[k] = s[k - 1] + Left(k) + i[k]
    <2>1. s[k] = s[k - 1] + Left(k) + i[k]
      BY DEF PartialSums
    <2>2. s[k - 1] \in Int /\ Left(k) \in Nat /\ i[k] \in Nat
      BY <1>1
    <2> QED
      BY <2>1, <2>2
  <1>3. \A a, b \in 0..wanted : a <= b => s[a] <= s[b]
    BY <1>1, <1>2, Rises, Zenon
  <1> SUFFICES ASSUME NEW n \in 1..wanted PROVE Left(n) = 0
    OBVIOUS
  <1>4. s[0] <= s[n - 1] /\ s[n] <= s[wanted] /\ s[0] = 0
    BY <1>1, <1>3 DEF PartialSums
  <1>5. Left(n) \in Nat /\ i[n] \in Nat /\ s[n - 1] \in Int /\ s[n] = s[n - 1] + Left(n) + i[n]
    BY <1>1, <1>2
  <1> QED
    BY <1>4, <1>5, SMTT(30)

(* Every byte of the file is in one of its parts. *)
LEMMA PartsCover ==
    ASSUME file_size \in Nat, wanted \in Nat \ {0}, NEW p \in Whole
    PROVE  \E n \in 1..wanted : p \in Part(n).start..(PartEnd(n) - 1)
  <1>0. p \in Nat /\ p < file_size
    BY DEF Whole, Bytes
  <1> DEFINE Behind == {n \in 1..wanted : p < PartEnd(n)}
  <1>1. PICK m \in Behind : \A k \in Behind : m <= k
    <2>1. Behind \in SUBSET Nat /\ wanted \in Behind
      BY <1>0, Parts
    <2> HIDE DEF Behind
    <2> QED
      BY <2>1, Least
  <1>2. CASE m = 1
    BY <1>0, <1>2, Parts DEF PartEnd
  <1>3. CASE m # 1
    <2>1. m - 1 \in 1..(wanted - 1) /\ m - 1 \in 1..wanted /\ m - 1 + 1 = m /\ ~ (m <= m - 1)
      BY <1>3
    <2>2. ~ (p < PartEnd(m - 1))
      BY <1>1, <2>1
    <2>3. PartEnd(m - 1) = Part(m).start
      BY <2>1, Parts
    <2>4. Part(m).start \in Nat /\ Part(m).limit \in Nat
      BY Parts
    <2> QED
      BY <1>0, <2>2, <2>3, <2>4 DEF PartEnd
  <1> QED
    BY <1>2, <1>3

(* The invariant implies what is claimed of the file. *)
LEMMA InvSound == DInv => FileSound
  <1> SUFFICES ASSUME DInv PROVE FileSound
    OBVIOUS
  <1>1. BreakpointHonest
    BY DEF DInv, Starts, CfgSound, Sound, BreakpointHonest
  <1>2. ASSUME main = "exit", trusted, ~ spoilt PROVE right = Whole
    <2>1. Typed /\ file_size \in Nat /\ wanted \in Nat \ {0} /\ g_downloaded \in Int
      BY DEF DInv, Typed
    <2>2. g_downloaded >= file_size
      BY <1>2 DEF DInv, Printing
    <2>3. /\ Len(targs) = wanted
          /\ \A n \in 1..wanted : targs[n].start + targs[n].limit = PartEnd(n)
          /\ right \subseteq Whole
      BY <1>2 DEF DInv, Counted
    <2>4. PICK s \in [0..wanted -> Int] : PartialSums(s) /\ g_downloaded + s[wanted] = file_size
      BY <1>2 DEF DInv, Counted
    <2>5. s[wanted] <= 0
      BY <2>1, <2>2, <2>4
    <2>6. DOMAIN targs = 1..wanted /\ \A n \in 1..wanted : targs[n] \in TaskType /\ ct[n] \in Nat
      BY <2>1, <2>3, SMTT(30) DEF Typed
    <2>7. ASSUME NEW n \in 1..wanted
          PROVE  /\ Left(n) \in Nat /\ (Left(n) = 0 => Position(n) = PartEnd(n))
                 /\ Part(n).start..(Position(n) - 1) \subseteq right
      <3>1. Sound(Position(n), n)
        BY <2>6 DEF DInv, Starts, PosSound
      <3>2. Position(n) <= PartEnd(n) /\ Part(n).start..(Position(n) - 1) \subseteq right
        BY <3>1, <1>2 DEF Sound
      <3>3. targs[n].start \in Int /\ targs[n].limit \in Int /\ ct[n] \in Nat
        BY <2>6 DEF TaskType
      <3>4. PICK a \in Int, l \in Int, m \in Nat : a = targs[n].start /\ l = targs[n].limit /\ m = ct[n]
        BY <3>3
      <3>5. Position(n) = a + m /\ Left(n) = l - m /\ PartEnd(n) = a + l
        BY <2>3, <3>4 DEF Left, Position
      <3> QED
        BY <3>2, <3>4, <3>5, SMTT(30)
    <2>8. \A n \in 1..wanted : Left(n) = 0
      BY <2>1, <2>3, <2>4, <2>5, <2>7, NothingLeft, Zenon
    <2>9. ASSUME NEW p \in Whole PROVE p \in right
      <3>1. PICK n \in 1..wanted : p \in Part(n).start..(PartEnd(n) - 1)
        BY <2>1, PartsCover
      <3> QED
        BY <2>7, <2>8, <3>1
    <2> QED
      BY <2>3, <2>9, Zenon
  <1> QED
    BY <1>1, <1>2 DEF FileSound, DownloadComplete
-----------------------------------------------------------------------------
(* The initial states *)
LEMMA InitD == Init => DInv
  <1> SUFFICES ASSUME Init PROVE DInv
    OBVIOUS
  <1>1. file_size \in Nat /\ wanted \in Nat \ {0}
    BY TasksAssumption DEF Init
  <1>2. Typed
    <2>1. \A S : <<>> \in Seq(S) /\ <<>> \in [DOMAIN <<>> -> S]
      OBVIOUS
    <2>2. NoTasks \in [downloaded : Int, amount : Nat, tasks : Seq(TaskType)] /\ NoTasks.tasks = <<>>
      BY <2>1 DEF NoTasks
    <2>3. cfg \in SavedType \cup {Absent, Empty} /\ rec \in SavedType \cup {Empty}
      BY DEF Init
    <2>4. Len(g_breakpoint.tasks) = Len(targs) /\ g_downloaded \in Int
      BY <2>2 DEF Init
    <2> QED
      BY <1>1, <2>1, <2>2, <2>3, <2>4, Zenon DEF Init, Typed
  <1>3. Printing
    BY DEF Init, Printing, NoTasks, Absent, Empty
  <1>4. Starts
    BY DEF Init, Starts, PosSound, TasksSound, RecSound, CfgSound, Absent, Empty
  <1>5. Counted
    BY DEF Init, Counted
  <1>6. Pending
    BY DEF Init, Pending
  <1> QED
    BY <1>2, <1>3, <1>4, <1>5, <1>6 DEF DInv

(* What was true of a start stays true while the file grows. *)
LEMMA SoundKept ==
    ASSUME UNCHANGED <<rigid, trusted>>, spoilt' \/ (spoilt' = spoilt /\ right \subseteq right'),
           spoilt \in BOOLEAN, NEW n, NEW s, Sound(s, n)
    PROVE  Sound(s, n)'
  <1>1. Part(n)' = Part(n) /\ PartEnd(n)' = PartEnd(n) /\ wanted' = wanted
    BY DEF rigid, PartEnd, Part, Task, Limit, block_size
  <1> QED
    BY <1>1 DEF Sound

(* A step that leaves the task alone and spoils the file or lets it grow *)
Grown ==
    /\ UNCHANGED <<rigid, trusted>>
    /\ spoilt' \/ (spoilt' = spoilt /\ right \subseteq right')

(* Such a step keeps every sound start sound. *)
LEMMA GrownKeeps ==
    ASSUME DInv, Grown, NEW n, NEW s, Sound(s, n)
    PROVE  Sound(s, n)'
  BY SoundKept DEF Grown, DInv, Typed

(* The same for where the threads are, *)
LEMMA PosKept ==
    ASSUME DInv, Grown, UNCHANGED <<targs, ct>>
    PROVE  PosSound'
  <1> SUFFICES ASSUME NEW n \in DOMAIN targs PROVE Sound(Position(n), n)'
    BY DEF PosSound
  <1>1. PICK a : a = Position(n)
    OBVIOUS
  <1>2. Position(n)' = a
    BY <1>1 DEF Position
  <1>3. Sound(a, n)'
    BY <1>1, GrownKeeps DEF DInv, Starts, PosSound
  <1> QED
    BY <1>2, <1>3 DEF Sound

(* for the breakpoint in memory, *)
LEMMA TasksKept ==
    ASSUME DInv, Grown, targs' = targs,
           \A n \in DOMAIN targs : g_breakpoint'.tasks[n].start = g_breakpoint.tasks[n].start
    PROVE  TasksSound'
  <1> SUFFICES ASSUME NEW n \in DOMAIN targs PROVE Sound(g_breakpoint.tasks[n].start, n)'
    BY DEF TasksSound
  <1>1. PICK a : a = g_breakpoint.tasks[n].start
    OBVIOUS
  <1>2. g_breakpoint'.tasks[n].start = a
    BY <1>1
  <1>3. Sound(a, n)'
    BY <1>1, GrownKeeps DEF DInv, Starts, TasksSound
  <1> QED
    BY <1>2, <1>3 DEF Sound

(* for what the monitor has printed, *)
LEMMA RecKept ==
    ASSUME DInv, Grown, rec' = rec
    PROVE  RecSound'
  <1> SUFFICES ASSUME rec # Empty, NEW n \in DOMAIN rec.tasks PROVE Sound(rec.tasks[n].start, n)'
    BY DEF RecSound
  <1>1. PICK a : a = rec.tasks[n].start
    OBVIOUS
  <1>2. rec'.tasks[n].start = a
    BY <1>1
  <1>3. Sound(a, n)'
    BY <1>1, GrownKeeps DEF DInv, Starts, RecSound
  <1> QED
    BY <1>2, <1>3 DEF Sound

(* and for the breakpoint on the disk, which may also be emptied or removed. *)
LEMMA CfgKept ==
    ASSUME DInv, Grown, cfg' = cfg \/ cfg'.kind # "saved"
    PROVE  CfgSound'
  <1> SUFFICES ASSUME cfg' = cfg, cfg.kind = "saved", NEW n \in DOMAIN cfg.tasks PROVE Sound(cfg.tasks[n].start, n)'
    BY DEF CfgSound
  <1>1. PICK a : a = cfg.tasks[n].start
    OBVIOUS
  <1>2. cfg'.tasks[n].start = a
    BY <1>1
  <1>3. Sound(a, n)'
    BY <1>1, GrownKeeps DEF DInv, Starts, CfgSound
  <1> QED
    BY <1>2, <1>3 DEF Sound

(* The count does not change while nobody fetches or counts. *)
LEMMA CountKept ==
    ASSUME DInv, UNCHANGED <<rigid, trusted, right, spoilt, targs, ct, i, g_downloaded>>,
           main # "down" \/ main' = "down"
    PROVE  Counted'
  <1>1. \A n : PartEnd(n)' = PartEnd(n) /\ Left(n)' = Left(n)
    BY Zenon DEF PartEnd, Part, Task, Limit, block_size, Left, rigid
  <1>2. Whole' = Whole /\ wanted' = wanted /\ file_size' = file_size
    BY DEF Whole, rigid, Bytes
  <1>3. \A s : PartialSums(s)' <=> PartialSums(s)
    BY <1>1, <1>2 DEF PartialSums
  <1> QED
    BY <1>1, <1>2, <1>3 DEF DInv, Counted
-----------------------------------------------------------------------------
(* A function on the domain of a sequence of tasks is a sequence of as many. *)
LEMMA AsMany ==
    ASSUME NEW ts \in Seq(TaskType), NEW us \in [DOMAIN ts -> TaskType]
    PROVE  us \in Seq(TaskType) /\ Len(us) = Len(ts)
  <1>1. ts \in [1..Len(ts) -> TaskType] /\ Len(ts) \in Nat
    OBVIOUS
  <1> QED
    BY <1>1

(* What print_task makes of the record: a task with the start that has been
   read, and later its limit. *)
LEMMA PrintTask ==
    ASSUME DInv, print_task
    PROVE  /\ rec \in SavedType /\ rec' \in SavedType /\ rec'.amount = rec.amount
           /\ z \in 1..g_breakpoint.amount
           /\ monitor = "start" => monitor' = "limit" /\ z' = z /\ Len(rec.tasks) = z - 1
           /\ monitor = "limit" => monitor' = "start" /\ z' = z + 1 /\ Len(rec.tasks) = z
           /\ monitor \in {"start", "limit"}
           /\ Len(rec'.tasks) = z
           /\ \A n \in 1..z : \/ n \in DOMAIN rec.tasks /\ rec'.tasks[n].start = rec.tasks[n].start
                              \/ n \in DOMAIN targs /\ rec'.tasks[n].start = g_breakpoint.tasks[n].start
  <1>1. Typed /\ Printing /\ monitor \in {"start", "limit"}
    BY DEF DInv, print_task
  <1>2. /\ rec \in SavedType /\ z \in 1..g_breakpoint.amount
        /\ (monitor = "start" => Len(rec.tasks) = z - 1) /\ (monitor = "limit" => Len(rec.tasks) = z)
    BY <1>1, SMTT(30) DEF Typed, Printing, print_task
  <1>3. z \in DOMAIN targs /\ DOMAIN targs = 1..Len(targs) /\ g_breakpoint.tasks[z] \in TaskType
    <2>1. targs \in Seq(TaskType) /\ g_breakpoint.tasks \in Seq(TaskType)
          /\ Len(g_breakpoint.tasks) = Len(targs) /\ g_breakpoint.amount \in {0, Len(targs)}
      BY <1>1 DEF Typed, Printing
    <2>2. z \in 1..Len(targs)
      BY <1>2, <2>1
    <2> QED
      BY <2>1, <2>2
  <1>4. PICK a \in Int, b \in Int : a = g_breakpoint.tasks[z].start /\ b = g_breakpoint.tasks[z].limit
    BY <1>3, Zenon DEF TaskType
  <1>5. rec.tasks \in Seq(TaskType) /\ rec = [kind |-> "saved", downloaded |-> rec.downloaded, amount |-> rec.amount, tasks |-> rec.tasks]
    BY <1>2, SMTT(30) DEF SavedType
  <1>6. CASE monitor = "start"
    <2>1. rec' = [rec EXCEPT !.tasks = Append(@, Task(a, 0))] /\ monitor' = "limit" /\ z' = z
      BY <1>4, <1>6 DEF print_task
    <2>2. rec'.tasks = Append(rec.tasks, Task(a, 0)) /\ rec'.amount = rec.amount /\ rec'.downloaded = rec.downloaded
      BY <1>2, <2>1 DEF SavedType
    <2>3. Task(a, 0) \in TaskType /\ Task(a, 0).start = a
      BY DEF Task, TaskType
    <2>4. /\ Append(rec.tasks, Task(a, 0)) \in Seq(TaskType) /\ Len(Append(rec.tasks, Task(a, 0))) = z
          /\ Append(rec.tasks, Task(a, 0))[z] = Task(a, 0)
          /\ \A n \in 1..(z - 1) : Append(rec.tasks, Task(a, 0))[n] = rec.tasks[n] /\ n \in DOMAIN rec.tasks
      BY <1>2, <1>5, <1>6, <2>3
    <2>5. rec' \in SavedType
      BY <1>2, <2>1, <2>4, Zenon DEF SavedType
    <2>6. ASSUME NEW n \in 1..z
          PROVE  \/ n \in DOMAIN rec.tasks /\ rec'.tasks[n].start = rec.tasks[n].start
                 \/ n \in DOMAIN targs /\ rec'.tasks[n].start = g_breakpoint.tasks[n].start
      <3>1. CASE n = z
        BY <1>3, <1>4, <2>2, <2>3, <2>4, <3>1, Zenon
      <3>2. CASE n # z
        <4>1. z \in Int
          BY <1>2
        <4>2. n \in 1..(z - 1)
          BY <3>2, <4>1
        <4> QED
          BY <2>2, <2>4, <4>2, Zenon
      <3> QED
        BY <3>1, <3>2, Zenon
    <2>7. Len(rec'.tasks) = z
      BY <2>2, <2>4, Zenon
    <2> QED
      BY <1>1, <1>2, <1>6, <2>1, <2>2, <2>5, <2>6, <2>7, Zenon
  <1>7. CASE monitor = "limit"
    <2>1. rec' = [rec EXCEPT !.tasks[z].limit = b] /\ monitor' = "start" /\ z' = z + 1
      BY <1>4, <1>7 DEF print_task
    <2>2. rec'.tasks = [rec.tasks EXCEPT ![z].limit = b] /\ rec'.amount = rec.amount
      BY <1>2, <2>1 DEF SavedType
    <2>0. z \in DOMAIN rec.tasks /\ DOMAIN rec.tasks = 1..z
      BY <1>2, <1>5, <1>7
    <2>3. PICK us : us = rec'.tasks
      OBVIOUS
    <2>4. us \in Seq(TaskType) /\ Len(us) = Len(rec.tasks) /\ \A n \in DOMAIN rec.tasks : us[n].start = rec.tasks[n].start
      <3>1. PICK e \in TaskType : e = rec.tasks[z]
        BY <1>5, <2>0
      <3>2. PICK d : d = [e EXCEPT !.limit = b]
        BY Zenon
      <3>3. d \in TaskType /\ d.start = e.start
        BY <3>2 DEF TaskType
      <3>4. us = [n \in DOMAIN rec.tasks |-> IF n = z THEN d ELSE rec.tasks[n]]
        BY <1>5, <2>0, <2>2, <2>3, <3>1, <3>2, SMTT(30)
      <3>5. \A n \in DOMAIN rec.tasks : rec.tasks[n] \in TaskType
        BY <1>5
      <3>6. us \in [DOMAIN rec.tasks -> TaskType] /\ \A n \in DOMAIN rec.tasks : us[n].start = rec.tasks[n].start
        BY <3>1, <3>3, <3>4, <3>5
      <3> QED
        BY <1>5, <3>6, AsMany
    <2>5. rec' \in SavedType
      BY <1>2, <2>1, <2>2, <2>3, <2>4, Zenon DEF SavedType
    <2> QED
      BY <1>1, <1>2, <1>7, <2>0, <2>1, <2>2, <2>3, <2>4, <2>5, SMTT(30)
  <1> QED
    BY <1>1, <1>6, <1>7, Zenon

(* The monitor reads and prints. *)
LEMMA MonitorStep ==
    ASSUME DInv, Running, monitoring
    PROVE  DInv'
  <1>0. Grown /\ UNCHANGED <<program, targs, ct, i, g_downloaded, g_breakpoint, right, spoilt>>
    BY Zenon DEF Grown, monitoring, store_breakpoint, print_head, print_task, fclose, all_downloaded, program, locals
  <1>01. Typed /\ Printing /\ Starts /\ main # "down" /\ main # "exit"
    BY DEF DInv, Running
  <1>02. /\ g_breakpoint.amount \in Nat /\ g_breakpoint.downloaded \in Int /\ g_breakpoint.amount \in {0, Len(targs)}
         /\ Empty \notin SavedType /\ \A r \in SavedType : r.kind = "saved"
    BY <1>01, Zenon DEF Typed, Printing, Empty, SavedType
  <1>03. Pending'
    BY <1>0 DEF DInv, Pending, program
  <1>1. CASE store_breakpoint \/ all_downloaded
    <2>1. Typed'
      BY <1>0, <1>01, <1>1, ZenonT(60) DEF Typed, store_breakpoint, all_downloaded, program, rigid, locals
    <2>2. Printing'
      <3>1. Empty.kind # "saved" /\ Absent.kind # "saved"
        BY DEF Empty, Absent
      <3>2. CASE store_breakpoint
        BY <1>0, <1>01, <3>1, <3>2, Zenon DEF Printing, store_breakpoint, program, rigid
      <3>3. CASE all_downloaded
        BY <1>0, <1>01, <3>1, <3>3, Zenon DEF Printing, all_downloaded, program, rigid
      <3> QED
        BY <1>1, <3>2, <3>3, Zenon
    <2>3. rec' = rec /\ (cfg' = cfg \/ cfg'.kind # "saved")
      BY <1>1 DEF store_breakpoint, all_downloaded, Empty, Absent
    <2>4. Starts'
      BY <1>0, <2>3, PosKept, TasksKept, RecKept, CfgKept, SMTT(30) DEF Starts
    <2> QED
      BY <1>0, <1>01, <1>03, <2>1, <2>2, <2>4, CountKept DEF DInv, program
  <1>2. CASE print_head
    <2>1. rec' \in SavedType /\ rec'.amount = g_breakpoint.amount /\ rec'.tasks = <<>>
      BY <1>02, <1>2 DEF print_head, Saved, SavedType
    <2>2. Typed'
      BY <1>0, <1>01, <1>2, <2>1, ZenonT(60) DEF Typed, print_head, program, rigid, locals
    <2>3. Printing'
      BY <1>0, <1>01, <1>02, <1>2, <2>1 DEF Printing, print_head, program, rigid
    <2>4. RecSound'
      BY <2>1 DEF RecSound
    <2>5. cfg' = cfg
      BY <1>2 DEF print_head
    <2>6. Starts'
      BY <1>0, <2>4, <2>5, PosKept, TasksKept, CfgKept, Zenon DEF Starts
    <2> QED
      BY <1>0, <1>01, <1>03, <2>2, <2>3, <2>6, CountKept DEF DInv, program
  <1>3. CASE print_task
    <2>1. cfg' = cfg /\ main' = main
      BY <1>3 DEF print_task
    <2>2. Typed'
      BY <1>0, <1>01, <1>3, <2>1, PrintTask, ZenonT(60) DEF Typed, program, rigid, locals
    <2>3. Printing'
      BY <1>0, <1>01, <1>02, <1>3, <2>1, PrintTask, SMTT(30) DEF Printing, program, rigid
    <2>4. RecSound'
      <3> SUFFICES ASSUME NEW n \in DOMAIN rec'.tasks PROVE Sound(rec.tasks[n].start, n)'
        BY DEF RecSound
      <3>1. PICK a : a = rec'.tasks[n].start
        OBVIOUS
      <3>2. n \in 1..z
        BY <1>3, PrintTask, SMTT(30) DEF SavedType
      <3>3. Sound(a, n)
        BY <1>01, <1>02, <1>3, <3>1, <3>2, PrintTask, Zenon DEF Starts, RecSound, TasksSound
      <3>4. Sound(a, n)'
        BY <1>0, <3>3, GrownKeeps
      <3> QED
        BY <3>1, <3>4, Zenon DEF Sound
    <2>5. Starts'
      BY <1>0, <2>1, <2>4, PosKept, TasksKept, CfgKept, SMTT(30) DEF Starts
    <2> QED
      BY <1>0, <1>01, <1>03, <2>2, <2>3, <2>5, CountKept DEF DInv, program
  <1>4. CASE fclose
    <2>1. rec \in SavedType /\ Len(rec.tasks) = g_breakpoint.amount /\ rec.amount \in {0, g_breakpoint.amount}
      BY <1>01, <1>02, <1>4 DEF fclose, Typed, Printing
    <2>2. Typed'
      BY <1>0, <1>01, <1>4, <2>1, Zenon DEF Typed, fclose, program, rigid, locals
    <2>3. Printing'
      BY <1>0, <1>01, <1>02, <1>4, <2>1, Zenon DEF Printing, fclose, program, rigid
    <2>4. RecSound'
      BY <1>4 DEF RecSound, fclose
    <2>5. CfgSound'
      <3> SUFFICES ASSUME NEW n \in DOMAIN rec.tasks PROVE Sound(cfg.tasks[n].start, n)'
        BY <1>4 DEF CfgSound, fclose
      <3>1. PICK a : a = rec.tasks[n].start
        OBVIOUS
      <3>2. Sound(a, n)
        BY <1>01, <1>02, <2>1, <3>1 DEF Starts, RecSound
      <3>3. Sound(a, n)'
        BY <1>0, <3>2, GrownKeeps
      <3> QED
        BY <1>4, <3>1, <3>3, Zenon DEF Sound, fclose
    <2>6. Starts'
      BY <1>0, <2>4, <2>5, PosKept, TasksKept, SMTT(30) DEF Starts
    <2> QED
      BY <1>0, <1>01, <1>03, <2>2, <2>3, <2>6, CountKept DEF DInv, program
  <1> QED
    BY <1>1, <1>2, <1>3, <1>4 DEF monitoring
-----------------------------------------------------------------------------
(* A step of a thread, with the facts about its task that its cases need *)
LEMMA ThreadFacts ==
    ASSUME DInv, NEW n \in DOMAIN pc
    PROVE  /\ n \in DOMAIN targs /\ DOMAIN targs = 1..Len(targs) /\ Len(targs) \in Nat /\ n \in Nat \ {0}
           /\ targs[n].start \in Int /\ targs[n].limit \in Int
           /\ ct[n] \in Nat /\ i[n] \in Nat /\ reg[n] \in Int /\ Left(n) \in Int /\ Position(n) \in Int
           /\ g_breakpoint.tasks \in Seq(TaskType) /\ n \in DOMAIN g_breakpoint.tasks
           /\ DOMAIN g_breakpoint.tasks = DOMAIN targs
           /\ file_size \in Nat /\ wanted \in Nat \ {0} /\ g_downloaded \in Int
           /\ Sound(Position(n), n)
  <1>1. n \in DOMAIN targs /\ targs \in Seq(TaskType) /\ g_breakpoint.tasks \in Seq(TaskType)
        /\ Len(g_breakpoint.tasks) = Len(targs)
    BY DEF DInv, Typed
  <1>2. DOMAIN targs = 1..Len(targs) /\ Len(targs) \in Nat /\ targs[n] \in TaskType /\ DOMAIN g_breakpoint.tasks = DOMAIN targs
    BY <1>1
  <1>3. ct[n] \in Nat /\ i[n] \in Nat /\ reg[n] \in Int /\ file_size \in Nat /\ wanted \in Nat \ {0} /\ g_downloaded \in Int
    BY <1>1, Zenon DEF DInv, Typed
  <1>4. targs[n].start \in Int /\ targs[n].limit \in Int
    BY <1>2 DEF TaskType
  <1>5. Left(n) \in Int /\ Position(n) \in Int
    BY <1>3, <1>4, SMTT(30) DEF Left, Position
  <1>6. Sound(Position(n), n)
    BY <1>1, SMTT(30) DEF DInv, Starts, PosSound
  <1> QED
    BY <1>1, <1>2, <1>3, <1>4, <1>5, <1>6, SMTT(30)

(* The monitor and what it has printed are as they were. *)
LEMMA PrintingKept ==
    ASSUME DInv, Running, UNCHANGED <<rigid, main, targs, cfg, monitors>>,
           g_breakpoint'.amount = g_breakpoint.amount, g_downloaded' \in Int, g_downloaded' >= g_downloaded
    PROVE  Printing'
  <1>1. Printing /\ main # "down" /\ main # "exit" /\ g_downloaded \in Int /\ file_size \in Nat
    BY Zenon DEF DInv, Running, Typed
  <1> QED
    BY <1>1 DEF Printing, monitors, rigid

(* A thread counts the bytes of its piece. *)
LEMMA CountMoves ==
    ASSUME DInv, Running, NEW n \in DOMAIN pc,
           UNCHANGED <<rigid, trusted, right, spoilt, targs, ct, main>>,
           i' = [i EXCEPT ![n] = 0], g_downloaded' = g_downloaded + i[n]
    PROVE  Counted'
  <1>1. \A k : PartEnd(k)' = PartEnd(k) /\ Left(k)' = Left(k)
    BY Zenon DEF PartEnd, Part, Task, Limit, block_size, Left, rigid
  <1>2. Whole' = Whole /\ wanted' = wanted /\ file_size' = file_size
    BY DEF Whole, rigid, Bytes
  <1>3. Counted /\ main # "down"
    BY DEF DInv, Running
  <1>4. ASSUME trusted, ~ spoilt
        PROVE  \E s \in [0..wanted -> Int] : PartialSums(s)' /\ g_downloaded' + s[wanted] = file_size
    <2>1. PICK s \in [0..wanted -> Int] : PartialSums(s) /\ g_downloaded + s[wanted] = file_size
      BY <1>3, <1>4 DEF Counted
    <2>2. Len(targs) = wanted /\ n \in 1..wanted /\ DOMAIN targs = 1..wanted
      BY <1>3, <1>4, ThreadFacts, Zenon DEF Counted
    <2>3. /\ wanted \in Nat /\ i[n] \in Nat /\ file_size \in Nat /\ g_downloaded \in Int
          /\ \A k \in 1..wanted : i[k] \in Nat /\ i'[k] = IF k = n THEN 0 ELSE i[k]
      BY <2>2, Zenon DEF DInv, Typed
    <2>4. \A k \in 1..wanted : Left(k) \in Int
      <3> TAKE k \in 1..wanted
      <3>1. k \in DOMAIN pc
        BY <2>2, Zenon DEF DInv, Typed
      <3> QED
        BY <3>1, ThreadFacts, Zenon
    <2>9. PICK j \in Nat : j = i[n]
      BY <2>3
    <2>10. PICK t : t = [k \in 0..wanted |-> IF k < n THEN s[k] ELSE s[k] - j]
      BY Zenon
    <2>11. s[0] = 0 /\ \A k \in 1..wanted : s[k] = s[k - 1] + Left(k) + i[k]
      BY <2>1 DEF PartialSums
    <2>5. t \in [0..wanted -> Int] /\ t[0] = 0 /\ t[wanted] = s[wanted] - j
      <3>1. 0 \in 0..wanted /\ wanted \in 0..wanted /\ 0 < n /\ ~ (wanted < n)
        BY <2>2, <2>3, SMTT(30)
      <3>2. t[0] = s[0] /\ t[wanted] = s[wanted] - j
        BY <2>10, <3>1
      <3>3. t \in [0..wanted -> Int]
        BY <2>9, <2>10
      <3> QED
        BY <2>11, <3>2, <3>3, SMTT(30)
    <2>6. ASSUME NEW k \in 1..wanted PROVE t[k] = t[k - 1] + Left(k) + i'[k]
      <3>1. s[k] = s[k - 1] + Left(k) + i[k] /\ s[k] \in Int /\ s[k - 1] \in Int /\ Left(k) \in Int
        <4>1. k \in 0..wanted /\ k - 1 \in 0..wanted
          BY <2>3
        <4>2. s[k] \in Int /\ s[k - 1] \in Int
          BY <4>1, Zenon
        <4> QED
          BY <2>4, <2>11, <4>2, Zenon
      <3>2. t[k] = (IF k < n THEN s[k] ELSE s[k] - j) /\ t[k - 1] = (IF k - 1 < n THEN s[k - 1] ELSE s[k - 1] - j)
        <4>1. k \in 0..wanted /\ k - 1 \in 0..wanted
          BY <2>3
        <4> QED
          BY <2>10, <4>1, Zenon
      <3>3. i'[k] \in Nat /\ i[k] \in Nat /\ i'[k] = (IF k = n THEN 0 ELSE i[k]) /\ (k = n => i[k] = j)
        BY <2>3, <2>9
      <3>4. PICK p \in Int, q \in Int, l \in Int, u \in Nat, v \in Nat :
              p = s[k] /\ q = s[k - 1] /\ l = Left(k) /\ u = i[k] /\ v = i'[k]
        BY <3>1, <3>3, Zenon
      <3>5. p = q + l + u /\ v = (IF k = n THEN 0 ELSE u) /\ (k = n => u = j)
        BY <3>1, <3>3, <3>4, Zenon
      <3>6. t[k] = (IF k < n THEN p ELSE p - j) /\ t[k - 1] = (IF k - 1 < n THEN q ELSE q - j)
        BY <3>2, <3>4, Zenon
      <3>7. k \in Int /\ n \in Int
        BY <2>2, <2>3, SMTT(30)
      <3>8. t[k] = t[k - 1] + l + v
        BY <3>5, <3>6, <3>7
      <3> QED
        BY <3>4, <3>8, Zenon
    <2>7. PartialSums(t)'
      BY <1>1, <1>2, <2>5, <2>6, Zenon DEF PartialSums
    <2>8. g_downloaded' + t[wanted] = file_size
      BY <2>1, <2>3, <2>5, <2>9, SMTT(30)
    <2> QED
      BY <2>5, <2>7, <2>8, Zenon
  <1> QED
    BY <1>1, <1>2, <1>3, <1>4, Zenon DEF Counted

(* Fetching moves bytes from what is left to what is to be counted. *)
LEMMA CountFetched ==
    ASSUME DInv, Running, NEW n \in DOMAIN pc, NEW k \in 0..Left(n), Fetches(n, k), i[n] = 0,
           UNCHANGED <<rigid, trusted, spoilt, targs, main, g_downloaded>>
    PROVE  Counted'
  <1>1. \A m : PartEnd(m)' = PartEnd(m)
    BY Zenon DEF PartEnd, Part, Task, Limit, block_size, rigid
  <1>2. Whole' = Whole /\ wanted' = wanted /\ file_size' = file_size
    BY Zenon DEF Whole, rigid, Bytes
  <1>3. Counted /\ main # "down"
    BY DEF DInv, Running
  <1>4. k \in Nat /\ k <= Left(n)
    BY ThreadFacts
  <1>5. ASSUME trusted PROVE right' \subseteq Whole
    <2>1. Len(targs) = wanted /\ n \in 1..wanted /\ targs[n].start + targs[n].limit = PartEnd(n) /\ right \subseteq Whole
      BY <1>3, <1>5, ThreadFacts, Zenon DEF Counted
    <2>2. PartEnd(n) <= file_size /\ Part(n).start \in Nat /\ file_size \in Nat
      BY <2>1, ThreadFacts, Parts, Zenon
    <2>3. Part(n).start <= Position(n) /\ Position(n) \in Int
      BY ThreadFacts, Zenon DEF Sound
    <2>4. Position(n) + Left(n) = PartEnd(n) /\ Left(n) \in Int
      <3>1. targs[n].start \in Int /\ targs[n].limit \in Int /\ ct[n] \in Nat
        BY ThreadFacts, Zenon
      <3> QED
        BY <2>1, <3>1, SMTT(30) DEF Position, Left
    <2>5. Bytes(Position(n), k) \subseteq Whole
      BY <1>4, <2>2, <2>3, <2>4 DEF Bytes, Whole
    <2> QED
      BY <2>1, <2>5, Zenon DEF Fetches
  <1>6. ASSUME trusted, ~ spoilt
        PROVE  \E s \in [0..wanted -> Int] : PartialSums(s)' /\ g_downloaded + s[wanted] = file_size
    <2>1. PICK s \in [0..wanted -> Int] : PartialSums(s) /\ g_downloaded + s[wanted] = file_size
      BY <1>3, <1>6, Zenon DEF Counted
    <2>2. n \in 1..wanted /\ DOMAIN targs = 1..wanted /\ Len(targs) = wanted
      BY <1>3, <1>6, ThreadFacts, ZenonT(60) DEF Counted
    <2>3. ASSUME NEW m \in 1..wanted PROVE s[m] = s[m - 1] + Left(m)' + i'[m]
      <3>1. m \in DOMAIN pc /\ s[m - 1] \in Int
        BY <2>2 DEF DInv, Typed
      <3>2. s[m] = s[m - 1] + Left(m) + i[m] /\ targs[m].limit \in Int /\ ct[m] \in Nat /\ i[m] \in Nat
        BY <2>1, <3>1, ThreadFacts, Zenon DEF PartialSums
      <3>3. ct'[m] = (IF m = n THEN ct[m] + k ELSE ct[m]) /\ i'[m] = IF m = n THEN k ELSE i[m]
        BY <2>2, Zenon DEF Fetches, DInv, Typed
      <3> QED
        BY <1>4, <3>1, <3>2, <3>3, SMTT(30) DEF Left
    <2>4. PartialSums(s)'
      BY <1>2, <2>1, <2>3, Zenon DEF PartialSums
    <2> QED
      BY <2>1, <2>4, Zenon
  <1> QED
    BY <1>1, <1>2, <1>3, <1>5, <1>6, Zenon DEF Counted

(* A thread fetches a piece of its range. *)
LEMMA FetchStep ==
    ASSUME DInv, Running, NEW n \in DOMAIN pc, first_piece(n) \/ next_piece(n)
    PROVE  DInv'
  <1>1. PICK k \in 0..Left(n) : Fetches(n, k)
    <2>1. Left(n) \in Int
      BY ThreadFacts, Zenon
    <2>2. \A k \in 1..Left(n) : k \in 0..Left(n)
      BY <2>1
    <2> QED
      BY <2>2, Zenon DEF first_piece, next_piece
  <1>2. /\ UNCHANGED <<others, spoilt>> /\ pc[n] \notin {"count", "record"}
        /\ pc' = [pc EXCEPT ![n] = "count"] \/ pc' = [pc EXCEPT ![n] = "record"]
    BY DEF first_piece, next_piece, Goto
  <1>3. UNCHANGED <<rigid, trusted, spoilt, targs, main, g_downloaded, g_breakpoint, cfg, rec, monitors, reg>>
    BY <1>2 DEF others, monitors
  <1>4. k \in Nat /\ k <= Left(n)
    BY ThreadFacts
  <1>5. i[n] = 0
    BY <1>2, ThreadFacts, Zenon DEF DInv, Pending
  <1>6. Typed'
    <2>1. ct' \in [DOMAIN targs -> Nat] /\ i' \in [DOMAIN targs -> Nat] /\ DOMAIN pc' = DOMAIN pc
      BY <1>1, <1>2, <1>4, SMTT(30) DEF Fetches, DInv, Typed
    <2> QED
      BY <1>3, <2>1, Zenon DEF DInv, Typed, rigid
  <1>7. Printing'
    <2>1. g_downloaded' = g_downloaded /\ g_breakpoint'.amount = g_breakpoint.amount
      BY <1>3, Zenon
    <2>2. g_downloaded \in Int
      BY ThreadFacts, Zenon
    <2>3. g_downloaded' \in Int /\ g_downloaded' >= g_downloaded
      BY <2>1, <2>2
    <2> QED
      BY <1>3, <2>1, <2>3, PrintingKept, Zenon
  <1>8. Grown
    BY <1>1, <1>3, Zenon DEF Grown, Fetches
  <1>9. PosSound'
    <2> SUFFICES ASSUME NEW m \in DOMAIN targs PROVE Sound(Position(m), m)'
      BY <1>3 DEF PosSound
    <2>1. PICK a : a = Position(m)
      OBVIOUS
    <2>2. Sound(a, m)'
      BY <1>8, <2>1, GrownKeeps DEF DInv, Starts, PosSound
    <2>3. CASE m # n
      <3>1. Position(m)' = a
        BY <1>1, <1>3, <2>1, <2>3, Zenon DEF Position, Fetches, DInv, Typed
      <3> QED
        BY <2>2, <3>1, Zenon DEF Sound
    <2>4. CASE m = n
      <3>1. a \in Int /\ Part(m)' = Part(m) /\ PartEnd(m)' = PartEnd(m) /\ wanted' = wanted
        BY <1>3, <2>1, <2>4, ThreadFacts, Zenon DEF rigid, PartEnd, Part, Task, Limit, block_size
      <3>2. Position(m)' = a + k
        <4>1. ct'[n] = ct[n] + k /\ targs[n].start \in Int /\ ct[n] \in Nat
          BY <1>1, ThreadFacts, Zenon DEF Fetches, DInv, Typed
        <4> QED
          BY <1>3, <1>4, <2>1, <2>4, <4>1 DEF Position
      <3>3. right' = right \cup a..(a + k - 1)
        BY <1>1, <2>1, <2>4, Zenon DEF Fetches, Bytes
      <3>4. n \in Nat \ {0} /\ Part(m).start \in Nat
        BY <2>4, ThreadFacts, Parts, Zenon
      <3>5. ASSUME trusted', ~ spoilt' PROVE m \in 1..wanted /\ a + k <= PartEnd(m)
        <4>1. trusted /\ ~ spoilt /\ main # "down"
          BY <1>3, <3>5 DEF Running
        <4>2. targs[m].start + targs[m].limit = PartEnd(m) /\ m \in 1..wanted
          BY <2>4, <4>1, ThreadFacts, Zenon DEF DInv, Counted
        <4>3. targs[m].start \in Int /\ targs[m].limit \in Int /\ ct[m] \in Nat
          BY <2>4, ThreadFacts, Zenon
        <4> QED
          BY <1>4, <2>1, <2>4, <4>2, <4>3, SMTT(30) DEF Position, Left
      <3> QED
        BY <1>4, <2>2, <3>1, <3>2, <3>3, <3>4, <3>5, SMTT(30) DEF Sound
    <2> QED
      BY <2>3, <2>4, Zenon
  <1>10. TasksSound' /\ RecSound' /\ CfgSound'
    BY <1>3, <1>8, TasksKept, RecKept, CfgKept, Zenon
  <1>11. Counted'
    BY <1>1, <1>3, <1>5, CountFetched, Zenon
  <1>12. Pending'
    BY <1>1, <1>2, <1>3, Zenon DEF DInv, Typed, Pending, Fetches
  <1> QED
    BY <1>6, <1>7, <1>9, <1>10, <1>11, <1>12 DEF DInv, Starts

(* A server sends the file from its beginning. *)
LEMMA WholeStep ==
    ASSUME DInv, Running, NEW n \in DOMAIN pc, whole_file(n)
    PROVE  DInv'
  <1>1. PICK k \in 1..file_size : /\ right' = right \ Bytes(Position(n), k)
                                  /\ ct' = [ct EXCEPT ![n] = @ + k] /\ i' = [i EXCEPT ![n] = k]
    BY Zenon DEF whole_file
  <1>2. /\ spoilt' = TRUE /\ pc' = [pc EXCEPT ![n] = "count"]
        /\ UNCHANGED <<rigid, trusted, targs, main, g_downloaded, g_breakpoint, cfg, rec, monitors, reg>>
    BY Zenon DEF whole_file, others, monitors, Goto
  <1>3. k \in Nat
    BY ThreadFacts
  <1>4. Typed'
    <2>1. ct' \in [DOMAIN targs -> Nat] /\ i' \in [DOMAIN targs -> Nat] /\ DOMAIN pc' = DOMAIN pc
      BY <1>1, <1>2, <1>3, SMTT(30) DEF DInv, Typed
    <2> QED
      BY <1>2, <2>1, Zenon DEF DInv, Typed, rigid
  <1>5. Printing'
    BY <1>2, ThreadFacts, PrintingKept
  <1>6. Grown
    BY <1>2 DEF Grown
  <1>7. PosSound'
    <2> SUFFICES ASSUME NEW m \in DOMAIN targs PROVE Sound(Position(m), m)'
      BY <1>2, SMTT(30) DEF PosSound
    <2>1. Part(m)' = Part(m) /\ Part(m).start <= Position(m) /\ Position(m) \in Int /\ Part(m).start \in Nat
      <3>1. m \in DOMAIN pc
        BY Zenon DEF DInv, Typed
      <3> QED
        BY <1>2, <3>1, ThreadFacts, Parts, Zenon DEF Sound, rigid, Part, Task, Limit, block_size
    <2>2. Position(m)' \in Int /\ Position(m) <= Position(m)'
      <3>1. m \in DOMAIN pc
        BY DEF DInv, Typed
      <3>2. ct'[m] = (IF m = n THEN ct[m] + k ELSE ct[m]) /\ targs[m].start \in Int /\ ct[m] \in Nat
        BY <1>1, <3>1, ThreadFacts, Zenon DEF DInv, Typed
      <3> QED
        BY <1>2, <1>3, <3>2, SMTT(30) DEF Position
    <2> QED
      BY <1>2, <2>1, <2>2 DEF Sound
  <1>8. TasksSound' /\ RecSound' /\ CfgSound'
    BY <1>2, <1>6, TasksKept, RecKept, CfgKept, Zenon
  <1>9. Counted'
    <2>1. \A m : PartEnd(m)' = PartEnd(m)
      BY <1>2, Zenon DEF PartEnd, Part, Task, Limit, block_size, rigid
    <2>2. Whole' = Whole /\ wanted' = wanted
      BY <1>2 DEF Whole, rigid, Bytes
    <2> QED
      BY <1>1, <1>2, <2>1, <2>2, Zenon DEF DInv, Counted
  <1>10. Pending'
    BY <1>1, <1>2, Zenon DEF DInv, Typed, Pending
  <1> QED
    BY <1>4, <1>5, <1>7, <1>8, <1>9, <1>10, SMTT(30) DEF DInv, Starts

(* the breakpoint in memory *)
BreakpointType == [downloaded : Int, amount : Nat, tasks : Seq(TaskType)]

(* A thread counts and records, and leaves the file and the monitor alone. *)
LEMMA Books ==
    ASSUME DInv, Running, UNCHANGED <<rigid, disk, main, targs, ct, monitors, trusted>>, DOMAIN pc' = DOMAIN pc,
           i' \in [DOMAIN targs -> Nat], reg' \in [DOMAIN targs -> Int],
           g_downloaded' \in Int, g_downloaded' >= g_downloaded,
           g_breakpoint' \in BreakpointType, Len(g_breakpoint'.tasks) = Len(g_breakpoint.tasks),
           g_breakpoint'.amount = g_breakpoint.amount,
           TasksSound', Counted', Pending'
    PROVE  DInv'
  <1>1. Grown /\ rec' = rec /\ cfg' = cfg /\ right' = right /\ spoilt' = spoilt
    BY Zenon DEF Grown, disk, monitors
  <1>2. Typed'
    BY <1>1, Zenon DEF DInv, Typed, rigid, BreakpointType
  <1>3. Printing'
    BY <1>1, PrintingKept, Zenon
  <1>4. PosSound' /\ RecSound' /\ CfgSound'
    BY <1>1, PosKept, RecKept, CfgKept, Zenon
  <1> QED
    BY <1>2, <1>3, <1>4, Zenon DEF DInv, Starts

(* What becomes of the breakpoint when its task n changes to x *)
LEMMA OneTask ==
    ASSUME NEW bp \in BreakpointType, NEW n \in DOMAIN bp.tasks, NEW x \in TaskType, NEW b1, NEW d \in Int,
           b1 = [downloaded |-> d, amount |-> bp.amount,
                 tasks |-> [m \in DOMAIN bp.tasks |-> IF m = n THEN x ELSE bp.tasks[m]]]
    PROVE  /\ b1 \in BreakpointType /\ b1.amount = bp.amount /\ Len(b1.tasks) = Len(bp.tasks)
           /\ \A m \in DOMAIN bp.tasks : b1.tasks[m].start = IF m = n THEN x.start ELSE bp.tasks[m].start
  <1>1. PICK ts \in Seq(TaskType) : ts = bp.tasks
    BY DEF BreakpointType
  <1>2. \A m \in DOMAIN ts : ts[m] \in TaskType
    BY SMTT(30)
  <1>3. PICK us : us = [m \in DOMAIN ts |-> IF m = n THEN x ELSE ts[m]]
    BY Zenon
  <1>4. us \in [DOMAIN ts -> TaskType]
    BY <1>2, <1>3, Zenon
  <1>5. us \in Seq(TaskType) /\ Len(us) = Len(ts)
    BY <1>4, AsMany, Zenon
  <1>6. b1 = [downloaded |-> d, amount |-> bp.amount, tasks |-> us]
    BY <1>1, <1>3, Zenon
  <1>7. b1 \in BreakpointType
    <2>1. bp.amount \in Nat
      BY Zenon DEF BreakpointType
    <2> QED
      BY <1>5, <1>6, <2>1, SMTT(30) DEF BreakpointType
  <1> QED
    BY <1>1, <1>3, <1>5, <1>6, <1>7

(* A thread counts a piece, records where it is, or closes. *)
LEMMA RecordStep ==
    ASSUME DInv, Running, NEW n \in DOMAIN pc, count(n) \/ broken(n) \/ record(n) \/ close(n)
    PROVE  DInv'
  <1>1. /\ UNCHANGED <<rigid, disk, main, targs, ct, monitors, trusted, right, spoilt, cfg, rec>>
        /\ \E l : pc' = [pc EXCEPT ![n] = l]
    BY Zenon DEF count, broken, record, close, disk, monitors, others, locals, Goto, Loop
  <1>2. Grown /\ DOMAIN pc' = DOMAIN pc
    BY <1>1 DEF Grown
  <1>3. /\ i \in [DOMAIN targs -> Nat] /\ reg \in [DOMAIN targs -> Int] /\ g_breakpoint \in BreakpointType
        /\ DOMAIN pc = DOMAIN targs /\ g_downloaded \in Int
    BY Zenon DEF DInv, Typed, BreakpointType
  <1>4. CASE (count(n) \/ pc[n] = "record") /\ (count(n) \/ record(n))
    <2>1. /\ i' = [i EXCEPT ![n] = 0] /\ g_downloaded' = g_downloaded + i[n] /\ reg' = reg
          /\ g_breakpoint' = g_breakpoint \/ g_breakpoint' = [g_breakpoint EXCEPT !.tasks[n].start = NextStart(n)]
      BY <1>4, Zenon DEF count, record
    <2>2. PICK a \in Int : a = NextStart(n) /\ a = Position(n)
      BY ThreadFacts, Zenon DEF NextStart, Position
    <2>3. g_downloaded' \in Int /\ g_downloaded' >= g_downloaded /\ i' \in [DOMAIN targs -> Nat]
      BY <1>3, <2>1, ThreadFacts, SMTT(30)
    <2>4. /\ g_breakpoint' \in BreakpointType /\ Len(g_breakpoint'.tasks) = Len(g_breakpoint.tasks)
          /\ g_breakpoint'.amount = g_breakpoint.amount
          /\ \/ g_breakpoint' = g_breakpoint
             \/ \A m \in DOMAIN targs : g_breakpoint'.tasks[m].start = IF m = n THEN a ELSE g_breakpoint.tasks[m].start
      <3>1. n \in DOMAIN g_breakpoint.tasks /\ DOMAIN g_breakpoint.tasks = DOMAIN targs
        BY ThreadFacts, Zenon
      <3>2. CASE g_breakpoint' = [g_breakpoint EXCEPT !.tasks[n].start = a]
        <4>1. PICK bp \in BreakpointType : bp = g_breakpoint
          BY <1>3, Zenon
        <4>2. PICK b1 : b1 = g_breakpoint'
          OBVIOUS
        <4>3. PICK x : x = [bp.tasks[n] EXCEPT !.start = a]
          BY Zenon
        <4>4. x \in TaskType /\ x.start = a /\ n \in DOMAIN bp.tasks
          <5>1. bp.tasks[n] \in TaskType
            <6>1. g_breakpoint.tasks \in Seq(TaskType) /\ n \in DOMAIN g_breakpoint.tasks
              BY ThreadFacts, Zenon
            <6>2. \A ts \in Seq(TaskType) : \A m \in DOMAIN ts : ts[m] \in TaskType
              OBVIOUS
            <6> QED
              BY <3>1, <4>1, <6>1, <6>2, Zenon
          <5> QED
            BY <3>1, <4>1, <4>3, <5>1 DEF TaskType
        <4>5. b1 = [downloaded |-> bp.downloaded, amount |-> bp.amount,
                    tasks |-> [m \in DOMAIN bp.tasks |-> IF m = n THEN x ELSE bp.tasks[m]]]
              /\ bp.downloaded \in Int
          BY <3>2, <4>1, <4>2, <4>3, Zenon DEF BreakpointType
        <4>6. /\ b1 \in BreakpointType /\ b1.amount = bp.amount /\ Len(b1.tasks) = Len(bp.tasks)
              /\ \A m \in DOMAIN bp.tasks : b1.tasks[m].start = IF m = n THEN x.start ELSE bp.tasks[m].start
          BY <4>4, <4>5, OneTask
        <4> QED
          BY <3>1, <4>1, <4>2, <4>4, <4>6, Zenon
      <3> QED
        BY <1>3, <2>1, <2>2, <3>2
    <2>5. TasksSound'
      <3> SUFFICES ASSUME NEW m \in DOMAIN targs PROVE Sound(g_breakpoint.tasks[m].start, m)'
        BY <1>1 DEF TasksSound
      <3>1. PICK b : b = g_breakpoint'.tasks[m].start
        BY Zenon
      <3>2. b = g_breakpoint.tasks[m].start \/ (m = n /\ b = Position(n))
        BY <2>2, <2>4, <3>1, Zenon
      <3>3. Sound(b, m)
        BY <3>2, ThreadFacts, Zenon DEF DInv, Starts, TasksSound
      <3>4. Sound(b, m)'
        BY <1>2, <3>3, GrownKeeps, Zenon
      <3> QED
        BY <3>1, <3>4, Zenon DEF Sound
    <2>6. Counted'
      BY <1>1, <2>1, CountMoves, Zenon
    <2>7. Pending'
      BY <1>1, <1>3, <2>1, SMTT(30) DEF DInv, Pending
    <2> QED
      BY <1>1, <1>2, <1>3, <2>1, <2>3, <2>4, <2>5, <2>6, <2>7, Books, Zenon
  <1>5. CASE ~ (count(n) \/ pc[n] = "record") \/ broken(n) \/ close(n)
    <2>1. i' = i /\ g_downloaded' = g_downloaded /\ pc[n] \notin {"count", "record"}
      BY <1>5, Zenon DEF record, broken, close, others, locals
    <2>2. reg' \in [DOMAIN targs -> Int]
      <3>1. reg' = reg \/ (\E r \in Int : reg' = [reg EXCEPT ![n] = r])
        BY <1>3, <1>5 DEF record, broken, close, others, locals
      <3> QED
        BY <1>3, <3>1, Zenon
    <2>3. /\ g_breakpoint' \in BreakpointType /\ Len(g_breakpoint'.tasks) = Len(g_breakpoint.tasks)
          /\ g_breakpoint'.amount = g_breakpoint.amount
          /\ \A m \in DOMAIN targs : g_breakpoint'.tasks[m].start = g_breakpoint.tasks[m].start
      <3>1. \/ g_breakpoint' = g_breakpoint
            \/ g_breakpoint' = [g_breakpoint EXCEPT !.tasks[n].limit = Left(n), !.downloaded = g_downloaded]
            \/ g_breakpoint' = [g_breakpoint EXCEPT !.downloaded = reg[n]]
        BY <1>5, Zenon DEF record, broken, close, others
      <3>2. CASE g_breakpoint' = [g_breakpoint EXCEPT !.tasks[n].limit = Left(n), !.downloaded = g_downloaded]
        <4>1. PICK bp \in BreakpointType : bp = g_breakpoint
          BY <1>3, Zenon
        <4>2. PICK a \in Int, d \in Int : a = Left(n) /\ d = g_downloaded
          BY ThreadFacts, Zenon
        <4>3. PICK b1 : b1 = g_breakpoint'
          OBVIOUS
        <4>4. n \in DOMAIN bp.tasks /\ DOMAIN bp.tasks = DOMAIN targs /\ bp.tasks[n] \in TaskType
          <5>1. g_breakpoint.tasks \in Seq(TaskType) /\ n \in DOMAIN g_breakpoint.tasks
                /\ DOMAIN g_breakpoint.tasks = DOMAIN targs
            BY ThreadFacts, Zenon
          <5>2. \A ts \in Seq(TaskType) : \A m \in DOMAIN ts : ts[m] \in TaskType
            OBVIOUS
          <5> QED
            BY <4>1, <5>1, <5>2, Zenon
        <4>5. PICK x : x = [bp.tasks[n] EXCEPT !.limit = a]
          BY Zenon
        <4>6. x \in TaskType /\ x.start = bp.tasks[n].start
          BY <4>4, <4>5 DEF TaskType
        <4>7. b1 = [downloaded |-> d, amount |-> bp.amount,
                    tasks |-> [m \in DOMAIN bp.tasks |-> IF m = n THEN x ELSE bp.tasks[m]]]
          BY <3>2, <4>1, <4>2, <4>3, <4>5, Zenon DEF BreakpointType
        <4>8. /\ b1 \in BreakpointType /\ b1.amount = bp.amount /\ Len(b1.tasks) = Len(bp.tasks)
              /\ \A m \in DOMAIN bp.tasks : b1.tasks[m].start = IF m = n THEN x.start ELSE bp.tasks[m].start
          BY <4>4, <4>6, <4>7, OneTask
        <4>9. ASSUME NEW m \in DOMAIN targs PROVE b1.tasks[m].start = bp.tasks[m].start
          <5>1. m \in DOMAIN bp.tasks /\ (m = n => bp.tasks[m].start = x.start)
            BY <4>4, <4>6, Zenon
          <5> QED
            BY <4>8, <5>1, Zenon
        <4> QED
          BY <4>1, <4>3, <4>8, <4>9, Zenon
      <3>3. CASE g_breakpoint' = [g_breakpoint EXCEPT !.downloaded = reg[n]]
        BY <1>3, <3>3, ThreadFacts, Zenon DEF BreakpointType
      <3> QED
        BY <1>3, <3>1, <3>2, <3>3
    <2>4. TasksSound' /\ Counted'
      <3>1. main # "down"
        BY DEF Running
      <3> QED
        BY <1>1, <1>2, <2>1, <2>3, <3>1, TasksKept, CountKept, Zenon
    <2>5. Pending'
      BY <1>1, <1>3, <2>1, Zenon DEF DInv, Pending
    <2> QED
      BY <1>1, <1>2, <1>3, <2>1, <2>2, <2>3, <2>4, <2>5, Books
  <1> QED
    BY <1>4, <1>5 DEF record
-----------------------------------------------------------------------------
(* download() sets the amount, and the program is killed. *)
LEMMA MainStep ==
    ASSUME DInv, set_amount \/ killed
    PROVE  DInv'
  <1>1. Grown /\ UNCHANGED <<rigid, right, spoilt, cfg, trusted>> /\ main # "down"
    BY DEF Grown, set_amount, killed, disk
  <1>2. CfgSound'
    BY <1>1, CfgKept
  <1>3. CASE killed
    <2>1. \A S : <<>> \in Seq(S) /\ <<>> \in [DOMAIN <<>> -> S]
      BY SMTT(30)
    <2>2. NoTasks \in [downloaded : Int, amount : Nat, tasks : Seq(TaskType)] /\ NoTasks.tasks = <<>> /\ NoTasks.amount = 0
      BY <2>1 DEF NoTasks
    <2>3. /\ main' = "down" /\ pc' = <<>> /\ targs' = <<>> /\ ct' = <<>> /\ i' = <<>> /\ reg' = <<>>
          /\ g_downloaded' = 0 /\ g_breakpoint' = NoTasks /\ monitor' = "none" /\ rec' = Empty
      BY <1>3, Zenon DEF killed
    <2>4. Typed'
      <3>1. /\ file_size' \in Nat /\ wanted' \in Nat \ {0} /\ spoilt' \in BOOLEAN /\ trusted' \in BOOLEAN
            /\ cfg' \in SavedType \cup {Absent, Empty}
        BY <1>1, Zenon DEF DInv, Typed, rigid
      <3>2. g_downloaded' \in Int /\ Len(g_breakpoint'.tasks) = Len(targs') /\ rec' \in SavedType \cup {Empty}
        BY <2>2, <2>3
      <3> QED
        BY <2>1, <2>2, <2>3, <3>1, <3>2, Zenon DEF Typed
    <2>5. Printing'
      BY <1>1, <2>2, <2>3, Zenon DEF DInv, Printing
    <2>6. PosSound' /\ TasksSound' /\ RecSound' /\ Pending'
      BY <2>3 DEF PosSound, TasksSound, RecSound, Pending
    <2>7. Counted'
      BY <1>1, <2>3, Zenon DEF DInv, Counted, Whole, Bytes, rigid
    <2> QED
      BY <1>2, <2>4, <2>5, <2>6, <2>7 DEF DInv, Starts
  <1>4. CASE set_amount
    <2>1. /\ UNCHANGED <<rigid, disk, pc, locals, g_downloaded, monitors, trusted, targs, ct, i, reg, rec>>
          /\ main = "amount" /\ main' = "join"
      BY <1>4 DEF set_amount, locals, monitors
    <2>2. g_breakpoint' = [g_breakpoint EXCEPT !.amount = Len(targs), !.downloaded = g_downloaded]
      BY <1>4 DEF set_amount
    <2>3. /\ g_breakpoint \in [downloaded : Int, amount : Nat, tasks : Seq(TaskType)] /\ g_downloaded \in Int
          /\ Len(targs) \in Nat
      BY DEF DInv, Typed
    <2>4. /\ g_breakpoint' \in [downloaded : Int, amount : Nat, tasks : Seq(TaskType)]
          /\ g_breakpoint'.tasks = g_breakpoint.tasks /\ g_breakpoint'.amount = Len(targs)
      BY <2>2, <2>3, Zenon
    <2>5. Typed'
      BY <1>1, <2>1, <2>4, Zenon DEF DInv, Typed, rigid
    <2>6. Printing'
      BY <1>1, <2>1, <2>3, <2>4, SMTT(30) DEF DInv, Printing, monitors, rigid
    <2>7. PosSound' /\ TasksSound' /\ RecSound' /\ Counted'
      BY <1>1, <2>1, <2>4, PosKept, TasksKept, RecKept, CountKept, Zenon
    <2>8. Pending'
      BY <2>1, Zenon DEF DInv, Pending
    <2> QED
      BY <1>2, <2>5, <2>6, <2>7, <2>8 DEF DInv, Starts
  <1> QED
    BY <1>3, <1>4

(* What a run begins with, whichever tasks it has *)
Begins(parts) ==
    /\ targs' = parts /\ main' = "amount" /\ monitor' = "top"
    /\ pc' = [n \in DOMAIN parts |-> "begin_down"] /\ ct' = [n \in DOMAIN parts |-> 0] /\ i' = ct' /\ reg' = ct'
    /\ UNCHANGED <<rigid, cfg, rec>>

(* A run begins, with tasks whose starts are sound. *)
LEMMA BeginsWell ==
    ASSUME DInv, main = "down", NEW parts \in Seq(TaskType), Begins(parts),
           spoilt' \in BOOLEAN, trusted' \in BOOLEAN, g_downloaded' \in Int,
           NEW ts \in Seq(TaskType), Len(ts) = Len(parts), g_breakpoint' = [g_breakpoint EXCEPT !.tasks = ts],
           \A n \in DOMAIN parts : Sound(parts[n].start, n)' /\ ts[n].start = parts[n].start,
           CfgSound', Counted'
    PROVE  DInv'
  <1>1. Typed /\ Printing
    BY DEF DInv
  <1>2. /\ g_breakpoint' \in [downloaded : Int, amount : Nat, tasks : Seq(TaskType)]
        /\ g_breakpoint'.tasks = ts /\ g_breakpoint'.amount = 0 /\ rec' = Empty
    BY <1>1, SMTT(30) DEF Typed, Printing, Begins
  <1>3. Typed'
    BY <1>1, <1>2 DEF Typed, Begins, rigid
  <1>4. Printing'
    BY <1>1, <1>2 DEF Printing, Begins, rigid
  <1>5. PosSound'
    <2> SUFFICES ASSUME NEW n \in DOMAIN parts PROVE Sound(Position(n), n)'
      BY DEF PosSound, Begins
    <2>1. PICK a : a = parts[n].start
      OBVIOUS
    <2>2. Position(n)' = a
      <3>0. parts[n] \in TaskType
        OBVIOUS
      <3>1. a \in Int
        BY <2>1, <3>0 DEF TaskType
      <3>2. targs'[n].start = a /\ ct'[n] = 0
        BY <2>1 DEF Begins
      <3> QED
        BY <3>1, <3>2 DEF Position
    <2>3. Sound(a, n)'
      BY <2>1
    <2> QED
      BY <2>2, <2>3 DEF Sound
  <1>6. TasksSound'
    <2> SUFFICES ASSUME NEW n \in DOMAIN parts PROVE Sound(g_breakpoint.tasks[n].start, n)'
      BY DEF TasksSound, Begins
    <2>1. PICK a : a = parts[n].start
      OBVIOUS
    <2>2. g_breakpoint'.tasks[n].start = a
      BY <1>2, <2>1
    <2>3. Sound(a, n)'
      BY <2>1
    <2> QED
      BY <2>2, <2>3 DEF Sound
  <1>7. RecSound' /\ Pending'
    BY <1>2 DEF RecSound, Pending, Begins
  <1> QED
    BY <1>3, <1>4, <1>5, <1>6, <1>7 DEF DInv, Starts

(* A new task: the parts, of which nothing is there *)
LEMMA NewTask ==
    ASSUME DInv, download, cfg.kind # "saved"
    PROVE  DInv'
  <1>1. /\ main = "down" /\ Begins(NewParts) /\ right' = {} /\ spoilt' = FALSE /\ g_downloaded' = 0 /\ trusted' = TRUE
    BY Zenon DEF download, Begins
  <1>2. file_size \in Nat /\ wanted \in Nat \ {0} /\ file_size' = file_size /\ wanted' = wanted
    BY <1>1, Zenon DEF DInv, Typed, Begins, rigid
  <1>3. block_size \in Int
    BY <1>2 DEF block_size
  <1>4. \A n \in 1..wanted : Part(n).start \in Nat /\ Part(n).limit \in Nat
    BY <1>2, Parts
  <1>5. \A n \in 1..wanted : Part(n) \in TaskType /\ Task(Part(n).start, block_size) \in TaskType
    <2> TAKE n \in 1..wanted
    <2>1. Part(n).start \in Int /\ Part(n).limit \in Int
      BY <1>4
    <2> QED
      BY <1>3, <2>1, Zenon DEF Part, Task, TaskType
  <1>6. NewParts \in Seq(TaskType) /\ Len(NewParts) = wanted /\ NewTasks \in Seq(TaskType) /\ Len(NewTasks) = wanted
    BY <1>2, <1>5 DEF NewParts, NewTasks
  <1>7. \A n : Part(n)' = Part(n) /\ PartEnd(n)' = PartEnd(n)
    BY <1>2, Zenon DEF PartEnd, Part, Task, Limit, block_size
  <1>8. ASSUME NEW n \in DOMAIN NewParts
        PROVE  Sound(NewParts[n].start, n)' /\ NewTasks[n].start = NewParts[n].start
    <2>1. n \in 1..wanted
      BY DEF NewParts
    <2>2. NewTasks[n].start = NewParts[n].start /\ NewParts[n].start = Part(n).start
      BY <2>1, Zenon DEF NewParts, NewTasks, Task
    <2>3. PICK a : a = Part(n).start
      OBVIOUS
    <2>4. Sound(a, n)'
      BY <1>1, <1>2, <1>4, <1>7, <2>1, <2>3 DEF Sound, PartEnd
    <2>5. NewParts[n].start' = a
      BY <1>2, <1>7, <2>1, <2>3 DEF NewParts
    <2> QED
      BY <2>2, <2>4, <2>5, Zenon DEF Sound
  <1>9. CfgSound'
    BY <1>1, SMTT(30) DEF CfgSound, Begins
  <1>10. Counted'
    <2>1. PICK s : s = [k \in 0..wanted |-> IF k = 0 THEN 0 ELSE PartEnd(k)]
      BY Zenon
    <2>2. \A n \in 1..wanted : targs'[n] = Part(n) /\ ct'[n] = 0 /\ i'[n] = 0
      BY <1>1, Zenon DEF Begins, NewParts
    <2>3. \A n \in 1..wanted : PartEnd(n) \in Int
      BY <1>4 DEF PartEnd
    <2>4. s \in [0..wanted -> Int] /\ s[0] = 0 /\ s[wanted] = file_size
      BY <1>2, <2>1, <2>3, Parts
    <2>5. ASSUME NEW k \in 1..wanted PROVE s[k] = s[k - 1] + Left(k)' + i'[k]
      <3>1. Left(k)' = Part(k).limit /\ i'[k] = 0
        <4>1. targs'[k].limit = Part(k).limit /\ ct'[k] = 0 /\ i'[k] = 0 /\ Part(k).limit \in Nat
          BY <1>4, <2>2, Zenon
        <4> QED
          BY <4>1 DEF Left
      <3>2. s[k - 1] = Part(k).start
        <4>1. CASE k = 1
          BY <1>2, <2>4, <4>1, Parts
        <4>2. CASE k # 1
          <5>1. k - 1 \in 1..(wanted - 1) /\ k - 1 # 0 /\ k - 1 \in 0..wanted /\ k - 1 + 1 = k
            BY <1>2, <4>2
          <5> QED
            BY <1>2, <2>1, <5>1, Parts, Zenon
        <4> QED
          BY <4>1, <4>2, Zenon
      <3>3. s[k] = PartEnd(k)
        BY <2>1
      <3> QED
        BY <1>4, <3>1, <3>2, <3>3 DEF PartEnd
    <2>6. PartialSums(s)'
      BY <1>2, <2>4, <2>5, Zenon DEF PartialSums
    <2>7. Len(targs') = wanted /\ \A n \in 1..wanted : targs'[n].start + targs'[n].limit = PartEnd(n)
      BY <1>1, <1>6, <2>2, Zenon DEF Begins, PartEnd
    <2> QED
      BY <1>1, <1>2, <1>7, <2>4, <2>6, <2>7 DEF Counted
  <1>11. NewParts' = NewParts
    BY <1>2, Zenon DEF NewParts, Part, Task, Limit, block_size
  <1>12. PICK parts, ts : parts = NewParts /\ ts = NewTasks
    OBVIOUS
  <1>13. /\ parts \in Seq(TaskType) /\ ts \in Seq(TaskType) /\ Len(ts) = Len(parts) /\ Begins(parts)
         /\ g_breakpoint' = [g_breakpoint EXCEPT !.tasks = ts]
    BY <1>1, <1>6, <1>12 DEF download
  <1>14. ASSUME NEW n \in DOMAIN parts PROVE Sound(parts[n].start, n)' /\ ts[n].start = parts[n].start
    BY <1>8, <1>11, <1>12, Zenon DEF Sound
  <1>15. main = "down" /\ g_downloaded' \in Int
    BY <1>1
  <1>16. spoilt' \in BOOLEAN /\ trusted' \in BOOLEAN
    BY <1>1, Zenon
  <1> QED
    BY <1>15, <1>16, <1>9, <1>10, <1>13, <1>14, BeginsWell, Zenon

(* A task is resumed from its breakpoint. *)
LEMMA Resumed ==
    ASSUME DInv, download, cfg.kind = "saved"
    PROVE  DInv'
  <1>1. PICK parts : parts = SubSeq(cfg.tasks, 1, cfg.amount)
    BY Zenon
  <1>2. /\ main = "down" /\ Begins(parts) /\ right' = right /\ spoilt' = spoilt
        /\ g_downloaded' = cfg.downloaded /\ trusted' = (trusted /\ Adds(cfg)) /\ cfg' = cfg
        /\ g_breakpoint' = [g_breakpoint EXCEPT !.tasks = parts]
    <2>1. spoilt \in BOOLEAN
      BY Zenon DEF DInv, Typed
    <2> QED
      BY <1>1, <2>1 DEF download, Begins
  <1>3. /\ file_size \in Nat /\ wanted \in Nat \ {0} /\ file_size' = file_size /\ wanted' = wanted
        /\ spoilt' \in BOOLEAN /\ trusted' \in BOOLEAN
    BY <1>2, SMTT(30) DEF DInv, Typed, Begins, rigid
  <1>4. cfg \in SavedType /\ cfg.amount \in {0, Len(cfg.tasks)} /\ cfg.tasks \in Seq(TaskType) /\ cfg.downloaded \in Int
    <2>1. cfg \in SavedType \cup {Absent, Empty} /\ cfg.amount \in {0, Len(cfg.tasks)}
      BY Zenon DEF DInv, Typed, Printing
    <2>2. cfg \in SavedType
      BY <2>1 DEF Absent, Empty
    <2>3. cfg.tasks \in Seq(TaskType) /\ cfg.downloaded \in Int
      BY <2>2 DEF SavedType
    <2> QED
      BY <2>1, <2>2, <2>3, Zenon
  <1>5. /\ parts \in Seq(TaskType) /\ Len(parts) = cfg.amount
        /\ \A n \in DOMAIN parts : n \in DOMAIN cfg.tasks /\ parts[n] = cfg.tasks[n]
    BY <1>1, <1>4, SMTT(30)
  <1>6. \A n : Part(n)' = Part(n) /\ PartEnd(n)' = PartEnd(n)
    BY <1>3, Zenon DEF PartEnd, Part, Task, Limit, block_size
  <1>7. ASSUME NEW a, NEW n, Sound(a, n) PROVE Sound(a, n)'
    BY <1>2, <1>3, <1>6, <1>7 DEF Sound
  <1>8. ASSUME NEW n \in DOMAIN cfg.tasks PROVE Sound(cfg.tasks[n].start, n)'
    <2>1. PICK a : a = cfg.tasks[n].start
      OBVIOUS
    <2>2. Sound(a, n)'
      BY <1>7, <2>1, Zenon DEF DInv, Starts, CfgSound
    <2> QED
      BY <1>2, <2>1, <2>2 DEF Sound
  <1>9. CfgSound'
    BY <1>2, <1>8 DEF CfgSound
  <1>10. ASSUME NEW n \in DOMAIN parts PROVE Sound(parts[n].start, n)'
    <2>1. PICK a : a = parts[n].start
      OBVIOUS
    <2>2. Sound(a, n)'
      BY <1>5, <1>7, <2>1, Zenon DEF DInv, Starts, CfgSound
    <2> QED
      BY <2>1, <2>2, Zenon DEF Sound
  <1>11. Counted'
    <2>1. trusted' => right' \subseteq Whole'
      BY <1>2, <1>3, Zenon DEF DInv, Counted, Whole, Bytes
    <2>2. ASSUME trusted'
          PROVE  /\ Len(targs') = wanted
                 /\ \A n \in 1..wanted : targs'[n].start + targs'[n].limit = PartEnd(n)
                 /\ \E s \in [0..wanted -> Int] : PartialSums(s)' /\ g_downloaded' + s[wanted] = file_size
      <3>1. Adds(cfg) /\ cfg.amount = wanted /\ Len(cfg.tasks) = wanted
        BY <1>2, <1>3, <1>4, <2>2, Zenon DEF Adds
      <3>2. targs' = parts /\ Len(parts) = wanted /\ DOMAIN parts = 1..wanted
        BY <1>2, <1>3, <1>5, <3>1 DEF Begins
      <3>3. \A n \in 1..wanted : targs'[n] = cfg.tasks[n] /\ ct'[n] = 0 /\ i'[n] = 0 /\ cfg.tasks[n] \in TaskType
        BY <1>2, <1>4, <1>5, <3>1, <3>2 DEF Begins
      <3>4. \A n \in 1..wanted : cfg.tasks[n].start + cfg.tasks[n].limit = PartEnd(n)
        BY <3>1, Zenon DEF Adds, PartEnd
      <3>5. PICK s : s = Remaining(cfg.tasks)
        OBVIOUS
      <3>6. s \in [0..wanted -> Int] /\ s[0] = 0 /\ \A k \in 1..wanted : s[k] = s[k - 1] + cfg.tasks[k].limit
        BY <1>4, <3>1, <3>5, SumsOf, Zenon
      <3>7. cfg.downloaded + s[wanted] = file_size
        BY <3>1, <3>5, Zenon DEF Adds
      <3>8. ASSUME NEW k \in 1..wanted PROVE s[k] = s[k - 1] + Left(k)' + i'[k]
        <4>1. PICK d \in Int : d = cfg.tasks[k].limit
          BY <3>3, Zenon DEF TaskType
        <4>2. Left(k)' = d /\ i'[k] = 0
          BY <3>3, <4>1 DEF Left
        <4>3. s[k] = s[k - 1] + d /\ s[k - 1] \in Int
          BY <1>3, <3>6, <4>1
        <4> QED
          BY <4>2, <4>3
      <3>9. PartialSums(s)'
        BY <1>3, <3>6, <3>8, Zenon DEF PartialSums
      <3> QED
        BY <1>2, <3>2, <3>3, <3>4, <3>6, <3>7, <3>9
    <2> QED
      BY <1>3, <1>6, <2>1, <2>2, Zenon DEF Counted
  <1> QED
    BY <1>2, <1>3, <1>4, <1>5, <1>9, <1>10, <1>11, BeginsWell, SMTT(30)
-----------------------------------------------------------------------------
(* The invariant holds in every state. *)
LEMMA NextD == DInv /\ [Next]_vars => DInv'
  <1> SUFFICES ASSUME DInv, [Next]_vars PROVE DInv'
    BY SMTT(30)
  <1>1. CASE UNCHANGED vars
    <2>1. Typed' /\ Printing' /\ Pending'
      <3>1. Typed'
        BY <1>1, Zenon DEF DInv, Typed, vars, rigid, disk, locals, monitors
      <3>2. Printing'
        BY <1>1, Zenon DEF DInv, Printing, vars, rigid, disk, locals, monitors
      <3>3. Pending'
        BY <1>1, Zenon DEF DInv, Pending, vars, locals
      <3> QED
        BY <3>1, <3>2, <3>3, Zenon
    <2>2. /\ Grown /\ UNCHANGED <<rigid, targs, ct, i, rec, cfg, g_breakpoint, right, spoilt, trusted, main, g_downloaded>>
      BY <1>1, Zenon DEF Grown, vars, rigid, disk, locals, monitors
    <2> QED
      BY <2>1, <2>2, PosKept, TasksKept, RecKept, CfgKept, CountKept, Zenon DEF DInv, Starts
  <1>2. CASE download
    BY <1>2, NewTask, Resumed
  <1>3. CASE set_amount \/ killed
    BY <1>3, MainStep
  <1>4. CASE Running /\ monitoring
    BY <1>4, MonitorStep
  <1>5. ASSUME Running, NEW n \in Thread, download_part(n) PROVE DInv'
    BY <1>5, FetchStep, WholeStep, RecordStep, Zenon DEF Thread, download_part
  <1> QED
    BY <1>1, <1>2, <1>3, <1>4, <1>5, Zenon DEF Next, exited, spins

(* A program that says 100% has the file, and what the breakpoint says is      *)
(* finished is in the file at any time: for files of every size, any number of *)
(* threads and kills, and connections that break at any time.                  *)
THEOREM FileIsSound == Spec => []FileSound
  <1>1. Init => DInv
    BY InitD
  <1>2. DInv /\ [Next]_vars => DInv'
    BY NextD
  <1>3. DInv => FileSound
    BY InvSound
  <1> QED
    BY <1>1, <1>2, <1>3, PTL DEF Spec
=============================================================================
