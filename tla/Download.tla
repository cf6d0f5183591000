------------------------------ MODULE Download ------------------------------
(***************************************************************************)
(* download/download.c: threads fetch the parts of a file, each with       *)
(* requests for a range of bytes, while a monitor writes a breakpoint to   *)
(* file_name.cfg again and again.  The program may be killed at any time;  *)
(* the file and the breakpoint stay, and the next run resumes from them.   *)
(*                                                                         *)
(* The server (external) may break a connection at any time.  It honours   *)
(* ranges; a range that is empty it refuses, or ignores, sending the whole *)
(* file.  An answer that is no 200 or 206 changes nothing: the thread asks *)
(* again.  The first piece of an answer has all of its heading.            *)
(***************************************************************************)
EXTENDS Integers, Sequences

CONSTANTS
    Tasks,              \* file_size, thread_amount and a bound on kills, as triples
    MaxThreads          \* the largest thread_amount of Tasks

ASSUME TasksAssumption == \A t \in Tasks : t[1] \in Nat /\ t[2] \in Nat \ {0} /\ t[3] \in Nat

VARIABLES
    file_size, wanted,  \* rigid: size of the file, and thread_amount as main has it
    right, spoilt,      \* positions of the file on disk that hold their byte; it has others
    cfg,                \* file_name.cfg on disk: absent, empty or the breakpoint
    main,               \* where download() is; "down": the program does not run
    pc,                 \* where each download_part is
    targs,              \* [start, limit] of each thread
    ct, i,              \* bytes a thread has written; the size of its last piece
    reg,                \* g_downloaded as a thread has read it without g_mut
    g_downloaded, g_breakpoint,
    monitor, z, rec,    \* the monitor's place, its counter, and what it has printed so far
    old,
    kills,              \* how often the program may still be killed
    trusted             \* this run is new, or the numbers of its breakpoint add up

disk == <<right, spoilt, cfg>>
locals == <<targs, ct, i, reg>>
monitors == <<monitor, z, rec, old>>
rigid == <<file_size, wanted>>
vars == <<rigid, disk, main, pc, locals, g_downloaded, g_breakpoint, monitors, kills, trusted>>

Absent == [kind |-> "absent"]
Empty == [kind |-> "empty"]
Saved(d, n, ts) == [kind |-> "saved", downloaded |-> d, amount |-> n, tasks |-> ts]
Task(s, l) == [start |-> s, limit |-> l]
Bytes(from, n) == from..(from + n - 1)
Whole == Bytes(0, file_size)
Thread == DOMAIN pc

NoTasks == [downloaded |-> 0, amount |-> 0, tasks |-> <<>>]

Init ==
    /\ \E t \in Tasks : file_size = t[1] /\ wanted = t[2] /\ kills = t[3]
    /\ right = {} /\ spoilt = FALSE /\ cfg = Absent
    /\ main = "down" /\ pc = <<>> /\ targs = <<>> /\ ct = <<>> /\ i = <<>> /\ reg = <<>>
    /\ g_downloaded = 0 /\ g_breakpoint = NoTasks
    /\ monitor = "none" /\ z = 0 /\ rec = Empty /\ old = 0
    /\ trusted = TRUE

(* Everything but the disk is lost. *)
killed ==
    /\ main \notin {"down", "exit"} /\ kills > 0
    /\ kills' = kills - 1
    /\ main' = "down" /\ pc' = <<>> /\ targs' = <<>> /\ ct' = <<>> /\ i' = <<>> /\ reg' = <<>>
    /\ g_downloaded' = 0 /\ g_breakpoint' = NoTasks
    /\ monitor' = "none" /\ z' = 0 /\ rec' = Empty /\ old' = 0
    /\ UNCHANGED <<rigid, disk, trusted>>
-----------------------------------------------------------------------------
block_size == file_size \div wanted
Limit_without_rest(n) == block_size
Limit(n) == IF n = wanted THEN block_size + (file_size % wanted) ELSE block_size
Part(n) == Task(block_size * (n - 1), Limit(n))

(* The breakpoint of a new task has block_size for the last part, too. *)
NewParts == [n \in 1..wanted |-> Part(n)]
NewTasks == [n \in 1..wanted |-> Task(Part(n).start, block_size)]

(* what the first k of ts have left to fetch *)
Remaining(ts) == LET sum[k \in 0..Len(ts)] == IF k = 0 THEN 0 ELSE sum[k - 1] + ts[k].limit IN sum

(* What c says is left, and what it says has been downloaded, is the file. *)
Adds(c) ==
    /\ c.amount = wanted
    /\ c.downloaded + Remaining(c.tasks)[wanted] = file_size
    /\ \A n \in 1..wanted : c.tasks[n].start + c.tasks[n].limit = Part(n).start + Part(n).limit

(* download() creates the threads and the monitor.  An empty breakpoint is a new task. *)
download ==
    /\ main = "down" /\ main' = "amount"
    /\ LET new == cfg.kind # "saved"
           parts == IF new THEN NewParts ELSE SubSeq(cfg.tasks, 1, cfg.amount)
       IN  /\ right' = IF new THEN {} ELSE right
           /\ spoilt' = (~ new /\ spoilt)
           /\ g_downloaded' = IF new THEN 0 ELSE cfg.downloaded
           /\ g_breakpoint' = [g_breakpoint EXCEPT !.tasks = IF new THEN NewTasks ELSE parts]
           /\ targs' = parts
           /\ pc' = [n \in DOMAIN parts |-> "begin_down"]
           /\ ct' = [n \in DOMAIN parts |-> 0] /\ i' = ct'
           /\ reg' = ct'
           /\ trusted' = (new \/ (trusted /\ Adds(cfg)))
    /\ old' \in {-1, g_downloaded'}         \* it is not initialized
    /\ monitor' = "top"
    /\ UNCHANGED <<rigid, cfg, z, rec, kills>>

(* The monitor runs already when download() sets thread_amount and downloaded, *)
(* here in one step; close below has the window between reading and storing.   *)
set_amount ==
    /\ main = "amount" /\ main' = "join"
    /\ g_breakpoint' = [g_breakpoint EXCEPT !.amount = Len(targs), !.downloaded = g_downloaded]
    /\ UNCHANGED <<rigid, disk, pc, locals, g_downloaded, monitors, kills, trusted>>
-----------------------------------------------------------------------------
Goto(n, l) == pc' = [pc EXCEPT ![n] = l]
Left(n) == targs[n].limit - ct[n]
others == <<rigid, cfg, main, targs, reg, g_downloaded, g_breakpoint, monitors, kills, trusted>>

(* The file position follows start_pos + ct, also after a broken connection. *)
Position_restarts(n) == targs[n].start
Position(n) == targs[n].start + ct[n]

(* recv and fwrite of k bytes of the range asked for *)
Fetches(n, k) ==
    /\ right' = right \cup Bytes(Position(n), k)
    /\ ct' = [ct EXCEPT ![n] = @ + k] /\ i' = [i EXCEPT ![n] = k]

first_piece(n) ==
    /\ pc[n] = "begin_down" /\ Left(n) > 0
    /\ \E k \in 0..Left(n) : Fetches(n, k)
    /\ Goto(n, "count")
    /\ UNCHANGED <<others, spoilt>>

(* The range is empty and the server sends the file from its beginning. *)
whole_file(n) ==
    /\ pc[n] = "begin_down" /\ Left(n) <= 0
    /\ \E k \in 1..file_size :
          /\ right' = right \ Bytes(Position(n), k)
          /\ ct' = [ct EXCEPT ![n] = @ + k] /\ i' = [i EXCEPT ![n] = k]
    /\ spoilt' = TRUE
    /\ Goto(n, "count")
    /\ UNCHANGED others

Mutex == \A n \in Thread : pc[n] # "record2"
Loop(n) == Goto(n, IF Left(n) > 0 THEN "loop" ELSE "close")

(* The first piece of an answer is counted but not recorded. *)
count(n) ==
    /\ pc[n] = "count" /\ Mutex
    /\ g_downloaded' = g_downloaded + i[n] /\ i' = [i EXCEPT ![n] = 0]
    /\ Loop(n)
    /\ UNCHANGED <<rigid, disk, main, targs, ct, reg, g_breakpoint, monitors, kills, trusted>>

next_piece(n) ==
    /\ pc[n] = "loop"
    /\ \E k \in 1..Left(n) : Fetches(n, k)
    /\ Goto(n, "record")
    /\ UNCHANGED <<others, spoilt>>

(* recv returns 0; open_url is tried until it succeeds *)
broken(n) ==
    /\ pc[n] = "loop" /\ Goto(n, "begin_down")
    /\ UNCHANGED <<others, right, spoilt, ct, i>>

NextStart_ahead(n) == targs[n].start + ct[n] + i[n]
NextStart(n) == targs[n].start + ct[n]

(* Within g_mut, which the monitor does not take *)
record(n) ==
    \/ /\ pc[n] = "record" /\ Mutex /\ Goto(n, "record2")
       /\ g_downloaded' = g_downloaded + i[n] /\ i' = [i EXCEPT ![n] = 0]
       /\ g_breakpoint' = [g_breakpoint EXCEPT !.tasks[n].start = NextStart(n)]
       /\ UNCHANGED <<rigid, disk, main, targs, ct, reg, monitors, kills, trusted>>
    \/ /\ pc[n] = "record2" /\ Loop(n)
       /\ g_breakpoint' = [g_breakpoint EXCEPT !.tasks[n].limit = Left(n), !.downloaded = g_downloaded]
       /\ UNCHANGED <<rigid, disk, main, locals, g_downloaded, monitors, kills, trusted>>

(* g_breakpoint.downloaded = g_downloaded, without g_mut *)
close(n) ==
    \/ /\ pc[n] = "close" /\ Goto(n, "closed")
       /\ reg' = [reg EXCEPT ![n] = g_downloaded]
       /\ UNCHANGED <<rigid, disk, main, targs, ct, i, g_downloaded, g_breakpoint, monitors, kills, trusted>>
    \/ /\ pc[n] = "closed" /\ Goto(n, "exit")
       /\ g_breakpoint' = [g_breakpoint EXCEPT !.downloaded = reg[n]]
       /\ reg' = [reg EXCEPT ![n] = 0]
       /\ UNCHANGED <<rigid, disk, main, targs, ct, i, g_downloaded, monitors, kills, trusted>>

download_part(n) ==
    \/ first_piece(n) \/ whole_file(n) \/ count(n)
    \/ next_piece(n) \/ broken(n) \/ record(n) \/ close(n)
-----------------------------------------------------------------------------
program == <<rigid, right, spoilt, pc, locals, g_downloaded, g_breakpoint, kills, trusted>>

(* fopen for writing makes the breakpoint empty *)
store_breakpoint ==
    /\ monitor = "top" /\ g_downloaded < file_size /\ old # g_downloaded
    /\ monitor' = "head" /\ cfg' = Empty
    /\ UNCHANGED <<program, main, z, rec, old>>

print_head ==
    /\ monitor = "head" /\ monitor' = "start"
    /\ rec' = Saved(g_breakpoint.downloaded, g_breakpoint.amount, <<>>) /\ z' = 1
    /\ UNCHANGED <<program, main, cfg, old>>

(* one line, whose two numbers are read one after the other *)
print_task ==
    \/ /\ monitor = "start" /\ z <= g_breakpoint.amount /\ monitor' = "limit"
       /\ rec' = [rec EXCEPT !.tasks = Append(@, Task(g_breakpoint.tasks[z].start, 0))]
       /\ UNCHANGED <<program, main, cfg, z, old>>
    \/ /\ monitor = "limit" /\ monitor' = "start" /\ z' = z + 1
       /\ rec' = [rec EXCEPT !.tasks[z].limit = g_breakpoint.tasks[z].limit]
       /\ UNCHANGED <<program, main, cfg, old>>

fclose ==
    /\ monitor = "start" /\ z > g_breakpoint.amount /\ monitor' = "top"
    /\ cfg' = rec /\ old' = g_downloaded
    /\ rec' = Empty /\ z' = 0
    /\ UNCHANGED <<program, main>>

(* The monitor ends, and with it download() and the program. *)
all_downloaded ==
    \/ /\ monitor = "top" /\ g_downloaded >= file_size /\ monitor' = "remove"
       /\ UNCHANGED <<program, main, cfg, z, rec, old>>
    \/ /\ monitor = "remove" /\ main = "join"
       /\ monitor' = "exit" /\ main' = "exit" /\ cfg' = Absent
       /\ UNCHANGED <<program, z, rec, old>>

monitoring == store_breakpoint \/ print_head \/ print_task \/ fclose \/ all_downloaded

(* It looks at g_downloaded again and again. *)
spins == monitor = "top" /\ UNCHANGED vars
exited == main = "exit" /\ UNCHANGED vars

Running == main \notin {"down", "exit"}
Next ==
    \/ download \/ set_amount \/ killed \/ exited
    \/ Running /\ (monitoring \/ spins \/ \E n \in Thread : download_part(n))

(* Threads run, somebody starts the program again, and the server does not     *)
(* break every connection before it has sent something.                        *)
Fairness ==
    /\ WF_vars(download \/ set_amount)
    /\ WF_vars(Running /\ monitoring)
    /\ \A n \in 1..MaxThreads :
          /\ WF_vars(Running /\ n \in Thread /\ download_part(n))
          /\ SF_vars(Running /\ n \in Thread /\ next_piece(n))

Spec == Init /\ [][Next]_vars /\ Fairness
-----------------------------------------------------------------------------
(* When the program says 100%, the file is there, however often connections    *)
(* broke: if the run was new, or its breakpoint adds up, and no server sent a  *)
(* whole file for an empty range.                                              *)
DownloadComplete == main = "exit" /\ trusted /\ ~ spoilt => right = Whole

(* A kill loses nothing behind the start of a part: at any time, what the      *)
(* breakpoint says a thread has finished is in the file - also if the monitor  *)
(* reads the numbers of a part while its thread changes them.                  *)
BreakpointHonest ==
    cfg.kind = "saved" /\ ~ spoilt =>
        \A n \in DOMAIN cfg.tasks : Part(n).start..(cfg.tasks[n].start - 1) \subseteq right

(* A program that says 100% has the file, and what the breakpoint says is      *)
(* finished is in the file at any time.                                        *)
FileSound == DownloadComplete /\ BreakpointHonest

(* A new run, and one whose breakpoint adds up, comes to an end. *)
DownloadEnds == (Running /\ trusted) ~> (~ Running)
=============================================================================
