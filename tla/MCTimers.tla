------------------------------ MODULE MCTimers ------------------------------
(* The timer containers of codes/11, one of them used in each behaviour: the
   wheel with its lists, the sorted list and the heap.  The wheel is held
   against TimeWheel, which implements TimerService, the others against
   TimerService itself. *)
EXTENDS Integers, TLC

CONSTANTS N, TI, Timer, Timeouts, NULL

VARIABLES
    container,                                          \* the one in use
    wl_cur_slot, wl_mem, wl_live, wl_fired,             \* the wheel's lists
    sl_heap, sl_live, sl_now, sl_cur, sl_fired,         \* the sorted list
    th_array, th_cur_size, th_expire, th_cb, th_now, th_cur, th_fired

WL == INSTANCE TimeWheelList
          WITH cur_slot <- wl_cur_slot, mem <- wl_mem, live <- wl_live, fired <- wl_fired
SL == INSTANCE SortTimerList
          WITH heap <- sl_heap, live <- sl_live, now <- sl_now, cur <- sl_cur,
               fired <- sl_fired, Offsets <- 0 .. 3, MaxTime <- 5
TH == INSTANCE TimeHeap
          WITH array <- th_array, cur_size <- th_cur_size, expire <- th_expire, cb <- th_cb,
               now <- th_now, cur <- th_cur, fired <- th_fired,
               Offsets <- 0 .. 2, Cap <- 1, MaxTime <- 2

wl_vars == <<wl_cur_slot, wl_mem, wl_live, wl_fired>>
sl_vars == <<sl_heap, sl_live, sl_now, sl_cur, sl_fired>>
th_vars == <<th_array, th_cur_size, th_expire, th_cb, th_now, th_cur, th_fired>>
allvars == <<container, wl_vars, sl_vars, th_vars>>

MCInit ==
    /\ container \in {"wheel lists", "sorted list", "heap"}
    /\ WL!Init /\ SL!Init
    /\ IF container = "heap" THEN TH!Init ELSE TH!InitEmpty

MCNext ==
    \/ container = "wheel lists" /\ WL!Next /\ UNCHANGED <<container, sl_vars, th_vars>>
    \/ container = "sorted list" /\ SL!Next /\ UNCHANGED <<container, wl_vars, th_vars>>
    \/ container = "heap" /\ TH!Next /\ UNCHANGED <<container, wl_vars, sl_vars>>

MCSpec == MCInit /\ [][MCNext]_allvars
-----------------------------------------------------------------------------
(* After any adds, adjustments, deletions and ticks the lists of the wheel and *)
(* the sorted list hold their live timers, each once, linked both ways and in  *)
(* order of expiry, and no operation has written to a deleted timer; the heap  *)
(* keeps its order and neither loses nor doubles a timer nor writes behind the *)
(* array, through resizes, cancelled timers and heaps built from an array.     *)
ContainersSound ==
    /\ container = "wheel lists" => WL!TypeOK /\ WL!WellLinked
    /\ container = "sorted list" => SL!TypeOK /\ SL!WellLinked /\ SL!Sorted
    /\ container = "heap" => TH!TypeOK /\ TH!HeapOrder /\ TH!Complete

(* With its linked lists the wheel does what the wheel of sets does, and the   *)
(* sorted list and the heap are timer services: a tick runs exactly the        *)
(* callbacks that are due, each once.                                          *)
ContainersFire == WL!ImplementsWheel /\ SL!ImplementsService /\ TH!ImplementsService

MCTimeouts == -1 .. 7
Symmetry == Permutations(Timer)
=============================================================================
