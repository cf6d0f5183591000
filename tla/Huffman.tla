------------------------------ MODULE Huffman ------------------------------
(***************************************************************************)
(* CreateHuffman of data_struct/btree/HuffmanTree.cpp.  A tree is kept as  *)
(* its data and the depth of each of its leaves.  data is a char, so the   *)
(* weight of an inner node is cut to eight bits.                           *)
(***************************************************************************)
EXTENDS Integers, Sequences, SequencesExt, FiniteSets, FiniteSetsExt, Functions

CONSTANTS
    Lengths,            \* numbers of weights, at least 2: for one the result is not initialized
    Weights             \* the values in a

VARIABLES a, b          \* the weights; b[j], for each j that is not NULL
hvars == <<a, b>>

Char(x) == ((x + 128) % 256) - 128

Init ==
    /\ \E len \in Lengths : a \in [1..len -> Weights]
    /\ b = [i \in DOMAIN a |-> [data |-> Char(a[i]), depth |-> [x \in {i} |-> 0]]]

(* The indices of the two smallest: k1 the smallest, k2 the next. *)
Rest == SetToSortSeq(DOMAIN b, LAMBDA i, j : i < j)
Turn_ignores_second(k, j) ==
    IF b[j].data < b[k.k1].data THEN [k1 |-> j, k2 |-> k.k1] ELSE k
Turn(k, j) ==
    IF b[j].data < b[k.k1].data THEN [k1 |-> j, k2 |-> k.k1]
    ELSE IF b[j].data < b[k.k2].data THEN [k EXCEPT !.k2 = j] ELSE k
Smallest == FoldLeft(Turn, [k1 |-> Rest[1], k2 |-> Rest[2]], SubSeq(Rest, 2, Len(Rest)))

Deeper(t) == [i \in DOMAIN t.depth |-> t.depth[i] + 1]
Joined(s, t) ==
    [data  |-> Char(s.data + t.data),
     depth |-> [i \in DOMAIN s.depth \cup DOMAIN t.depth |->
                    IF i \in DOMAIN s.depth THEN Deeper(s)[i] ELSE Deeper(t)[i]]]

CreateHuffman ==
    /\ Cardinality(DOMAIN b) > 1
    /\ LET k == Smallest
       IN  b' = [j \in DOMAIN b \ {k.k2} |-> IF j = k.k1 THEN Joined(b[k.k1], b[k.k2]) ELSE b[j]]
    /\ UNCHANGED a

Next == CreateHuffman
Spec == Init /\ [][Next]_hvars
-----------------------------------------------------------------------------
(* The depths of the leaves of a binary tree in which every inner node has two *)
(* children: the fractions 2^-depth add up to 1.                               *)
Full(len) == {d \in [1..len -> 1..(len - 1)] : SumFunction([i \in 1..len |-> 2^(len - d[i])]) = 2^len}
FullTrees == [len \in Lengths |-> Full(len)]
Cost(d) == SumFunction([i \in DOMAIN a |-> a[i] * d[i]])

(* No binary tree with these leaves has a smaller weighted path length, as     *)
(* long as the sum of the weights fits in a char.                              *)
HuffmanOptimal ==
    (\E j \in DOMAIN b : DOMAIN b = {j}) /\ SumFunction(a) < 128 =>
        \A j \in DOMAIN b : \A d \in FullTrees[Len(a)] : Cost(b[j].depth) <= Cost(d)
=============================================================================
