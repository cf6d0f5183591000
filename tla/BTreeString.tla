---------------------------- MODULE BTreeString ----------------------------
(***************************************************************************)
(* CreateBTree of data_struct/btree/BinaryTree.cpp: a binary tree from its *)
(* notation, such as A(B(C), D), one character in each step.  Nodes are    *)
(* numbered in the order of their allocation; 0 is NULL.  Every letter is  *)
(* "x".  A tree is <<>> or the pair of its subtrees.  A letter that has no *)
(* parent is stored through s[-1], or through a p that was never assigned: *)
(* anything may follow, and the model stops there (wild).                  *)
(***************************************************************************)
EXTENDS Integers, Sequences, FiniteSets, SequencesExt

CONSTANTS MS,           \* the size of the stack
          MaxNodes,     \* bound on the trees
          MaxString     \* bound on the strings that are no notation

RECURSIVE Trees(_)
Trees(m) ==
    IF m = 0 THEN {<<>>}
    ELSE UNION {{<<l, r>> : l \in Trees(i), r \in Trees(m - 1 - i)} : i \in 0..(m - 1)}

(* How a tree is written: brackets only around children, a comma only before a *)
(* right one.                                                                  *)
RECURSIVE Notation(_)
Notation(t) ==
    CASE t = <<>> -> <<>>
      [] t = << <<>>, <<>> >> -> <<"x">>
      [] OTHER -> <<"x", "(">> \o Notation(t[1])
                  \o (IF t[2] = <<>> THEN <<>> ELSE <<",", " ">> \o Notation(t[2])) \o <<")">>

VARIABLES
    tree, a,            \* the tree meant, <<>> when none is, and the string
    i, bt, kids,        \* kids[n]: the left and right child of node n
    ptr, s, k,          \* p, the stack s[0..top] and which child comes next
    failed,             \* exit(1)
    wild                \* a letter was stored through no valid pointer
bvars == <<tree, a, i, bt, kids, ptr, s, k, failed, wild>>

(* The notation of t, with any number of its last brackets left open *)
Written(t) ==
    {SubSeq(Notation(t), 1, m) : m \in {m \in 1..Len(Notation(t)) :
                                          \A n \in (m + 1)..Len(Notation(t)) : Notation(t)[n] = ")"}}

Init ==
    /\ \/ \E t \in UNION {Trees(m) : m \in 1..MaxNodes} :
            \/ tree = t /\ a \in Written(t)
            \/ tree = <<>> /\ \E c \in {")", "?"} : a = Append(Notation(t), c)
       \/ tree = <<>> /\ a \in SeqOf({"x", "(", ")", ",", "?"}, MaxString)
    /\ i = 1 /\ bt = 0 /\ kids = <<>> /\ ptr = 0 /\ s = <<>> /\ k = 1 /\ failed = FALSE /\ wild = FALSE

Reads(c) == ~ failed /\ ~ wild /\ i \in DOMAIN a /\ a[i] = c /\ i' = i + 1 /\ UNCHANGED <<tree, a>>

space == Reads(" ") /\ UNCHANGED <<bt, kids, ptr, s, k, failed, wild>>

StackFull_late == Len(s) = MS + 1
StackFull == Len(s) = MS

opens ==
    /\ Reads("(")
    /\ IF StackFull THEN failed' = TRUE /\ UNCHANGED <<s, k>>
       ELSE s' = Append(s, ptr) /\ k' = 1 /\ UNCHANGED failed
    /\ UNCHANGED <<bt, kids, ptr, wild>>

closes ==
    /\ Reads(")")
    /\ IF s = <<>> THEN failed' = TRUE /\ UNCHANGED s ELSE s' = Front(s) /\ UNCHANGED failed
    /\ UNCHANGED <<bt, kids, ptr, k, wild>>

comma == Reads(",") /\ k' = 2 /\ UNCHANGED <<bt, kids, ptr, s, failed, wild>>

letter ==
    LET new == Len(kids) + 1 IN
    /\ Reads("x")
    /\ ptr' = new
    /\ CASE bt = 0 -> bt' = new /\ kids' = << <<0, 0>> >> /\ UNCHANGED wild
         [] bt # 0 /\ (s = <<>> \/ Last(s) = 0) -> wild' = TRUE /\ UNCHANGED <<bt, kids>>
         [] OTHER -> /\ kids' = [Append(kids, <<0, 0>>) EXCEPT ![Last(s)][k] = new]
                     /\ UNCHANGED <<bt, wild>>
    /\ UNCHANGED <<s, k, failed>>

other == Reads("?") /\ failed' = TRUE /\ UNCHANGED <<bt, kids, ptr, s, k, wild>>

Next == space \/ opens \/ closes \/ comma \/ letter \/ other
Spec == Init /\ [][Next]_bvars
-----------------------------------------------------------------------------
RECURSIVE TreeAt(_)
TreeAt(m) == IF m = 0 THEN <<>> ELSE <<TreeAt(kids[m][1]), TreeAt(kids[m][2])>>

(* How deep brackets are nested in the notation of t *)
RECURSIVE Nesting(_)
Nesting(t) == IF t = <<>> \/ t = << <<>>, <<>> >> THEN 0
              ELSE 1 + (IF Nesting(t[1]) > Nesting(t[2]) THEN Nesting(t[1]) ELSE Nesting(t[2]))

(* How many brackets are open after the m-th character *)
Depth(m) == Cardinality({n \in 1..m : a[n] = "("}) - Cardinality({n \in 1..m : a[n] = ")"})

(* A character that is no part of a notation, a bracket that closes nothing, or *)
(* one that opens the level MS + 1.                                             *)
Wrong(m) == a[m] = "?" \/ Depth(m) < 0 \/ Depth(m) > MS

(* A letter after the first one, with no letter before the bracket it stands in *)
Stray(m) ==
    LET letterBefore(n) == \E l \in 1..(n - 1) : a[l] = "x" IN
    /\ a[m] = "x" /\ letterBefore(m)
    /\ ~ \E j \in 1..(m - 1) :
            /\ a[j] = "(" /\ letterBefore(j) /\ Depth(j) = Depth(m - 1)
            /\ \A n \in j..(m - 1) : Depth(n) >= Depth(j)

(* What CreateBTree does with a string is settled by its first wrong or stray    *)
(* character: a wrong one is refused when it is read, and nothing else is; a     *)
(* stray letter, such as a second root, is not refused but stored through an     *)
(* invalid pointer.  A notation has no stray letter, so the tree that is built   *)
(* is the one that was written, also when brackets are left open at the end      *)
(* (no test follows the loop), unless it is nested deeper than MS.               *)
NotationRead ==
    /\ \A m \in 1..(i - 1) :
        /\ Wrong(m) <=> failed /\ m = i - 1
        /\ ~ Wrong(m) => (Stray(m) <=> wild /\ m = i - 1)
    /\ tree # <<>> =>
        /\ ~ wild
        /\ failed => Nesting(tree) > MS
        /\ i > Len(a) /\ ~ failed => TreeAt(bt) = tree
=============================================================================
