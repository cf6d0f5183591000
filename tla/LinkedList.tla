----------------------------- MODULE LinkedList -----------------------------
(***************************************************************************)
(* The singly linked list of data_struct/linked_list/list.c, on its nodes. *)
(* 0 is NULL.  The operations that only read are left out.                 *)
(***************************************************************************)
EXTENDS Naturals, Sequences, SequencesExt

CONSTANTS
    Node,       \* addresses malloc can return, positive numbers
    Elem        \* what can be stored, positive numbers

VARIABLES
    pList,
    link, element,      \* next and element of each node
    alloc,              \* the nodes allocated and not freed
    phase,              \* main creates the list, works with it and clears it
    contents            \* what the operations were asked to store, in order

lvars == <<pList, link, element, alloc, phase, contents>>

Init ==
    /\ pList = 0
    /\ link = [n \in Node |-> 0] /\ element = link
    /\ alloc = {} /\ phase = "creates" /\ contents = <<>>

RECURSIVE Walk(_)
Walk(n) == IF n = 0 THEN <<>> ELSE <<n>> \o Walk(link[n])
List == Walk(pList)

(* malloc and the assignment to the new node's element *)
New(n, x) ==
    /\ n \notin alloc /\ alloc' = alloc \cup {n}
    /\ element' = [element EXCEPT ![n] = x]

(* creatList: a number is read and appended; p2 is the last node *)
creatList(n, x) ==
    /\ phase = "creates"
    /\ New(n, x)
    /\ IF pList = 0 THEN pList' = n /\ link' = [link EXCEPT ![n] = 0]
       ELSE /\ link' = [link EXCEPT ![n] = 0, ![Last(List)] = n]
            /\ UNCHANGED pList
    /\ contents' = Append(contents, x)
    /\ UNCHANGED phase

(* The number that ends the input is read into one more node, which is not linked. *)
creatList_ends(n) ==
    /\ phase = "creates" /\ phase' = "works"
    /\ New(n, 0)
    /\ UNCHANGED <<pList, link, contents>>

(* The pos-th node, counted as in getElement and modifyElem *)
At_off_by_one(pos) == Walk(pList)[IF pos < Len(List) THEN pos + 1 ELSE pos]
At(pos) == List[pos]

modifyElem(pos, x) ==
    /\ phase = "works" /\ pos \in DOMAIN List
    /\ element' = [element EXCEPT ![At(pos)] = x]
    /\ contents' = [contents EXCEPT ![pos] = x]
    /\ UNCHANGED <<pList, link, alloc, phase>>

insertHeadList(n, x) ==
    /\ phase = "works"
    /\ New(n, x)
    /\ link' = [link EXCEPT ![n] = pList]
    /\ pList' = n
    /\ contents' = <<x>> \o contents
    /\ UNCHANGED phase

(* pHead->next is read without a test: the list must not be empty *)
insertLastList(n, x) ==
    /\ phase = "works" /\ pList # 0
    /\ New(n, x)
    /\ link' = [link EXCEPT ![n] = 0, ![Last(List)] = n]
    /\ contents' = Append(contents, x)
    /\ UNCHANGED <<pList, phase>>

(* The loop ends at the node without a successor, which is not freed; the      *)
(* caller's pointer is left as it is.                                          *)
clearList ==
    /\ phase = "works" /\ phase' = "cleared"
    /\ alloc' = alloc \ ToSet(IF pList = 0 THEN <<>> ELSE Front(List))
    /\ contents' = <<>>
    /\ UNCHANGED <<pList, link, element>>

Next ==
    \/ \E n \in Node, x \in Elem :
        creatList(n, x) \/ insertHeadList(n, x) \/ insertLastList(n, x)
    \/ \E n \in Node : creatList_ends(n)
    \/ \E pos \in 1..Len(contents), x \in Elem : modifyElem(pos, x)
    \/ clearList

Spec == Init /\ [][Next]_lvars
-----------------------------------------------------------------------------
(* Until it is cleared, the list holds what it was asked to store, in order,   *)
(* in nodes of its own.                                                        *)
HoldsContents ==
    phase # "cleared" =>
        /\ [i \in DOMAIN List |-> element[List[i]]] = contents
        /\ ToSet(List) \subseteq alloc

(* clearList releases every node of the list: the comment above it says so.    *)
ClearFreesAll == phase = "cleared" => ToSet(List) \cap alloc = {}
=============================================================================
