----------------------------- MODULE LoopDetect -----------------------------
(***************************************************************************)
(* The two tests for a loop in data_struct/linked_list/loop2.c, one after  *)
(* the other as in main, on any list.  0 is NULL.  ret is -1 until a test  *)
(* returns.                                                                *)
(***************************************************************************)
EXTENDS Integers, FiniteSets

CONSTANT Cell           \* the nodes, positive numbers; the head is 1

VARIABLES
    next,
    cur1, pos1, cur2, pos2, ret1,       \* has_loop
    p, q, ret2                          \* has_loop2

dvars == <<next, cur1, pos1, cur2, pos2, ret1, p, q, ret2>>
head == 1

Init ==
    /\ next \in [Cell -> Cell \cup {0}]
    /\ cur1 = head /\ pos1 = 1 /\ cur2 = head /\ pos2 = 0 /\ ret1 = -1
    /\ p = head /\ q = head /\ ret2 = -1

(* One turn of the inner loop: the same node at another position is a loop, at *)
(* the same position it ends the inner loop.                                   *)
Found_at_once == cur2 = cur1
Found == cur2 = cur1 /\ pos1 # pos2 + 1

has_loop ==
    /\ ret1 = -1
    /\ IF cur1 = 0 THEN ret1' = 0 /\ UNCHANGED <<cur1, pos1, cur2, pos2>>
       ELSE IF Found THEN ret1' = 1 /\ UNCHANGED <<cur1, pos1, cur2, pos2>>
       ELSE /\ IF cur2 \in {cur1, 0}
               THEN cur1' = next[cur1] /\ pos1' = pos1 + 1 /\ cur2' = head /\ pos2' = 0
               ELSE cur2' = next[cur2] /\ pos2' = pos2 + 1 /\ UNCHANGED <<cur1, pos1>>
            /\ UNCHANGED ret1
    /\ UNCHANGED <<next, p, q, ret2>>

Step(n) == IF n = 0 THEN 0 ELSE next[n]

(* p takes one step and q two; q's second step has a test of its own *)
has_loop2 ==
    /\ ret1 # -1 /\ ret2 = -1
    /\ IF p = 0 \/ q = 0 THEN ret2' = 0 /\ UNCHANGED <<p, q>>
       ELSE /\ p' = next[p] /\ q' = Step(next[q])
            /\ ret2' = IF p' # 0 /\ p' = q' THEN 1 ELSE -1
    /\ UNCHANGED <<next, cur1, pos1, cur2, pos2, ret1>>

Next == has_loop \/ has_loop2
Spec == Init /\ [][Next]_dvars /\ WF_dvars(Next)
-----------------------------------------------------------------------------
(* There is no loop if some number of steps from the head leads to NULL. *)
After[n \in 0..Cardinality(Cell)] == IF n = 0 THEN head ELSE Step(After[n - 1])
Looped == After[Cardinality(Cell)] # 0

(* Both tests end and answer whether the list runs into a loop, wherever it is. *)
LoopFound == <>(ret1 = (IF Looped THEN 1 ELSE 0) /\ ret2 = ret1)
=============================================================================
