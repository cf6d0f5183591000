------------------------------- MODULE RBTree -------------------------------
(***************************************************************************)
(* The red-black tree of data_struct/btree/rbtree.c.  A node is named by   *)
(* its key, since the tree has at most one node for a key and erase moves  *)
(* nodes, not keys; 0 is NULL.  The mirrored halves of the code are one    *)
(* definition with a direction d.  The loops of the rebalancing are        *)
(* recursive operators on the memory t.                                    *)
(***************************************************************************)
EXTENDS Naturals, FiniteSets

CONSTANT Key                \* positive numbers

NULL == 0
Dir == {"left", "right"}
Opp(d) == IF d = "left" THEN "right" ELSE "left"

VARIABLE tree               \* root, kid[d][n], parent[n], color[n]

Init == tree = [root   |-> NULL,
                kid    |-> [d \in Dir |-> [n \in Key |-> NULL]],
                parent |-> [n \in Key |-> NULL],
                color  |-> [n \in Key |-> "BLACK"]]
-----------------------------------------------------------------------------
SetKid(t, d, n, v) == [t EXCEPT !.kid[d][n] = v]
SetParent(t, n, v) == IF n = NULL THEN t ELSE [t EXCEPT !.parent[n] = v]
Paint(t, n, c) == [t EXCEPT !.color[n] = c]
Red(t, n) == n # NULL /\ t.color[n] = "RED"

(* new takes the place of old under par, or at the root *)
Replace(t, par, old, new) ==
    IF par = NULL THEN [t EXCEPT !.root = new]
    ELSE SetKid(t, IF t.kid["left"][par] = old THEN "left" ELSE "right", par, new)

(* rb_rotate_left and rb_rotate_right *)
rotate(t, n, d) ==
    LET s == Opp(d)
        up == t.kid[s][n]
        t1 == SetParent(SetKid(t, s, n, t.kid[d][up]), t.kid[d][up], n)
        t2 == SetKid(t1, d, up, n)
    IN  SetParent(Replace(SetParent(t2, up, t.parent[n]), t.parent[n], n, up), n, up)

RECURSIVE rb_insert_rebalance(_, _)
rb_insert_rebalance(t, n) ==
    LET par == t.parent[n] IN
    IF ~ Red(t, par) THEN Paint(t, t.root, "BLACK")
    ELSE LET g == t.parent[par]
             d == IF par = t.kid["left"][g] THEN "left" ELSE "right"
             uncle == t.kid[Opp(d)][g]
             inner == t.kid[Opp(d)][par] = n
             t1 == IF inner THEN rotate(t, par, d) ELSE t
             top == IF inner THEN n ELSE par
             low == IF inner THEN par ELSE n
         IN  IF Red(t, uncle)
             THEN rb_insert_rebalance(Paint(Paint(Paint(t, uncle, "BLACK"), par, "BLACK"), g, "RED"), g)
             ELSE rb_insert_rebalance(rotate(Paint(Paint(t1, top, "BLACK"), g, "RED"), g, Opp(d)), low)

(* node n, the child of par, may be NULL *)
RECURSIVE rb_erase_rebalance(_, _, _)
rb_erase_rebalance(t, n, par) ==
    IF Red(t, n) \/ n = t.root
    THEN IF n = NULL THEN t ELSE Paint(t, n, "BLACK")
    ELSE LET d == IF t.kid["left"][par] = n THEN "left" ELSE "right"
             s == Opp(d)
             sib == t.kid[s][par]
             t1 == IF Red(t, sib) THEN rotate(Paint(Paint(t, sib, "BLACK"), par, "RED"), par, d) ELSE t
             other == t1.kid[s][par]
             far == t1.kid[s][other]
             near == t1.kid[d][other]
             t2 == IF Red(t1, far) THEN t1
                   ELSE rotate(Paint(Paint(t1, near, "BLACK"), other, "RED"), other, s)
             top == t2.kid[s][par]
             t3 == Paint(Paint(Paint(t2, top, t2.color[par]), par, "BLACK"), t2.kid[s][top], "BLACK")
             t4 == rotate(t3, par, d)
         IN  IF ~ Red(t1, far) /\ ~ Red(t1, near)
             THEN rb_erase_rebalance(Paint(t1, other, "RED"), par, t1.parent[par])
             ELSE Paint(t4, t4.root, "BLACK")
-----------------------------------------------------------------------------
(* rb_search_auxiliary: the node, or NULL and the last node on the way *)
RECURSIVE Search(_, _, _, _)
Search(t, k, n, par) ==
    IF n = NULL \/ n = k THEN [node |-> n, save |-> par]
    ELSE Search(t, k, t.kid[IF n > k THEN "left" ELSE "right"][n], n)
rb_search_auxiliary(t, k) == Search(t, k, t.root, NULL)

Side(par, k) == IF par > k THEN "left" ELSE "right"

rb_insert(t, k) ==
    LET par == rb_search_auxiliary(t, k).save
        t1 == SetParent(Paint(t, k, "RED"), k, par)
        t2 == IF par = NULL THEN [t1 EXCEPT !.root = k]
              ELSE SetKid(t1, Side(par, k), par, k)
    IN  IF rb_search_auxiliary(t, k).node # NULL THEN t
        ELSE rb_insert_rebalance(t2, k)

RECURSIVE Leftmost(_, _)
Leftmost(t, n) == IF t.kid["left"][n] = NULL THEN n ELSE Leftmost(t, t.kid["left"][n])

Unlink(t, n, child) == Replace(SetParent(t, child, t.parent[n]), t.parent[n], n, child)

(* free(): a node outside the tree has no fields left to follow *)
Free(t, n) == SetKid(SetKid(SetParent(Paint(t, n, "BLACK"), n, NULL), "left", n, NULL), "right", n, NULL)

(* node takes the place and the color of old *)
TakePlace_drops_left(t, node, old) ==
    LET t1 == Paint(SetParent(t, node, t.parent[old]), node, t.color[old])
        t2 == SetKid(t1, "right", node, t.kid["right"][old])
    IN  SetParent(Replace(t2, t.parent[old], old, node), t.kid["right"][old], node)
TakePlace(t, node, old) ==
    LET t1 == Paint(SetParent(t, node, t.parent[old]), node, t.color[old])
        t2 == SetKid(SetKid(t1, "right", node, t.kid["right"][old]), "left", node, t.kid["left"][old])
        t3 == Replace(t2, t.parent[old], old, node)
    IN  SetParent(SetParent(t3, t.kid["left"][old], node), t.kid["right"][old], node)

Rebalances_red(color) == color = "RED"
Rebalances(color) == color = "BLACK"

rb_erase(t, k) ==
    LET two == t.kid["left"][k] # NULL /\ t.kid["right"][k] # NULL
        node == IF two THEN Leftmost(t, t.kid["right"][k]) ELSE k
        child == IF t.kid["left"][node] = NULL THEN t.kid["right"][node] ELSE t.kid["left"][node]
        t1 == Unlink(t, node, child)
        t2 == IF two THEN TakePlace(t1, node, k) ELSE t1
        par == IF two /\ t.parent[node] = k THEN node ELSE t.parent[node]
        t3 == Free(t2, k)
    IN  IF rb_search_auxiliary(t, k).node = NULL THEN t
        ELSE IF Rebalances(t.color[node]) THEN rb_erase_rebalance(t3, child, par)
        ELSE t3

Next == \E k \in Key : tree' = rb_insert(tree, k) \/ tree' = rb_erase(tree, k)
Spec == Init /\ [][Next]_tree
-----------------------------------------------------------------------------
RECURSIVE Nodes(_, _)
Nodes(t, n) == IF n = NULL THEN {} ELSE {n} \cup Nodes(t, t.kid["left"][n]) \cup Nodes(t, t.kid["right"][n])
KeysOf(t) == Nodes(t, t.root)
InTree == KeysOf(tree)

RECURSIVE BlackHeight(_)
BlackHeight(n) ==
    IF n = NULL THEN 1 ELSE BlackHeight(tree.kid["left"][n]) + (IF Red(tree, n) THEN 0 ELSE 1)

(* Kids and parents point at each other, and freed nodes are not written to.     *)
TypeOK ==
    /\ tree.root # NULL => tree.parent[tree.root] = NULL
    /\ \A n \in InTree, d \in Dir : tree.kid[d][n] # NULL => tree.parent[tree.kid[d][n]] = n
    /\ \A n \in Key \ InTree : /\ tree.parent[n] = NULL /\ tree.color[n] = "BLACK"
                               /\ \A d \in Dir : tree.kid[d][n] = NULL

(* The root is black, a red node has no red child, and every path from a node    *)
(* down to NULL has as many black nodes: no branch is more than twice as long as *)
(* another, whatever was inserted and erased before.                             *)
RedBlack ==
    /\ ~ Red(tree, tree.root)
    /\ \A n \in InTree :
        /\ Red(tree, n) => \A d \in Dir : ~ Red(tree, tree.kid[d][n])
        /\ BlackHeight(tree.kid["left"][n]) = BlackHeight(tree.kid["right"][n])

(* rb_search finds exactly the keys of the tree.                                 *)
SearchFinds == \A k \in Key : (rb_search_auxiliary(tree, k).node = k) <=> (k \in InTree)

(* The tree is a set of keys: from every tree that can be reached, rb_insert of  *)
(* a key adds that key and no other and rb_search then finds it, as main checks  *)
(* after each insert; rb_erase of a key removes that key and no other, and       *)
(* rb_search then does not find it.  Either leaves the tree alone when the key   *)
(* was, or was not, in it.                                                       *)
KeepsSet ==
    \A k \in Key :
        LET more == rb_insert(tree, k)
            less == rb_erase(tree, k)
        IN  /\ KeysOf(more) = InTree \cup {k} /\ rb_search_auxiliary(more, k).node = k
            /\ KeysOf(less) = InTree \ {k} /\ rb_search_auxiliary(less, k).node = NULL
            /\ IF k \in InTree THEN more = tree ELSE less = tree
=============================================================================
