------------------------------ MODULE Dijkstra ------------------------------
(***************************************************************************)
(* Shortest paths from vertex 1, data_struct/graphics/dijkstra.cpp: main   *)
(* reads the edges, myDijstra marks one vertex in each turn.               *)
(***************************************************************************)
EXTENDS Integers, FiniteSets, FiniteSetsExt

CONSTANTS
    n,                  \* number of vertices
    Weight, MAX,        \* weights of edges, natural numbers below MAX
    MaxLines            \* bound on the edges read

Vertex == 1..n
start == 1

VARIABLES
    map, dist, mark,    \* mark: the vertices whose mark is 1
    lines,              \* the edges read so far, each written from its smaller end
    done                \* myDijstra has returned
gvars == <<map, dist, mark, lines, done>>

Init ==
    /\ map = [a \in Vertex |-> [b \in Vertex |-> MAX]]
    /\ lines = {} /\ dist = [i \in Vertex |-> MAX] /\ mark = {} /\ done = FALSE

(* of several edges between two vertices the shortest is kept *)
Shorter_last(a, b, d) == TRUE
Shorter(a, b, d) == map[a][b] > d

scanf(a, b, d) ==
    /\ mark = {} /\ Cardinality(lines) < MaxLines
    /\ map' = IF Shorter(a, b, d) THEN [map EXCEPT ![a][b] = d, ![b][a] = d] ELSE map
    /\ lines' = lines \cup {<<Min({a, b}), Max({a, b}), d>>}
    /\ UNCHANGED <<dist, mark, done>>

begins ==
    /\ mark = {} /\ mark' = {start}
    /\ dist' = [map[start] EXCEPT ![start] = 0]
    /\ UNCHANGED <<map, lines, done>>

(* the first unmarked vertex with the smallest distance *)
Open == {j \in Vertex \ mark : dist[j] < MAX}
pos_first == Min(Open)
pos == Min({j \in Open : \A k \in Open : dist[j] <= dist[k]})

relax ==
    /\ mark # {} /\ ~ done
    /\ done' = (Open = {})
    /\ IF Open = {} THEN UNCHANGED <<dist, mark>>
       ELSE /\ mark' = mark \cup {pos}
            /\ dist' = [j \in Vertex |->
                  IF j \notin mark' /\ dist[j] > dist[pos] + map[pos][j]
                  THEN dist[pos] + map[pos][j] ELSE dist[j]]
    /\ UNCHANGED <<map, lines>>

Next ==
    \/ \E a, b \in Vertex, d \in Weight : scanf(a, b, d)
    \/ begins \/ relax
Spec == Init /\ [][Next]_gvars
-----------------------------------------------------------------------------
Edge(i, j) == Min({e[3] : e \in {x \in lines : {x[1], x[2]} = {i, j}}} \cup {MAX})

(* The length of a shortest walk of at most k of the edges read, from start to j: *)
(* as no weight is negative, n - 1 edges are enough for a shortest one.            *)
Within[k \in 0..(n - 1), j \in Vertex] ==
    IF k = 0 THEN IF j = start THEN 0 ELSE MAX
    ELSE Min({Within[k - 1, j]} \cup {Within[k - 1, i] + Edge(i, j) : i \in Vertex} \cup {MAX})

(* In every turn the distances of the marked vertices are final, those of the  *)
(* others are the best over marked ones, and in the end all are right: zero    *)
(* weights, parallel edges and vertices out of reach included.                 *)
ShortestPaths ==
    mark # {} =>
        /\ \A j \in mark : dist[j] = Within[n - 1, j]
        /\ \A j \in Vertex \ mark :
               dist[j] = Min({MAX} \cup {dist[i] + Edge(i, j) : i \in mark})
        /\ done => \A j \in Vertex : dist[j] = Within[n - 1, j]
=============================================================================
