---------------------------- MODULE MCAlgorithms ----------------------------
(* The programs of data_struct, conf.c and the two parsers of HTTP requests, one
   in each behaviour.  Ten keys give trees of black height 3, so that each case of
   the rebalancing also occurs where it has to go on further up.  Some sums of the
   weights do not fit in a char, and some trees are nested deeper than MS.  The
   parsers get every short input, and long requests with up to two bytes changed,
   lost or doubled, each followed by content or the next request.  The variables
   of programs that do not run have any fixed value. *)
EXTENDS Integers, Sequences

VARIABLES
    program, tree,
    pList, link, element, alloc, phase, contents,
    next, cur1, pos1, cur2, pos2, ret1, p, q, ret2,
    map, lines, dist, mark, done,
    a, b,
    meant, str, i, bt, kids, ptr, s, k, failed, wild,
    file, pos, found, KeyVal, results,
    stream, read_idx, p8, p15, cut

Byte == {"G", "2", "k", "x", "CR", "LF"}
Good == {<<"G", "CR", "LF">> \o h \o <<"CR", "LF", "x", "x">> :
           h \in {<<"2", "CR", "LF">>, <<"k", "CR", "LF">>, <<"2", "CR", "LF", "k", "CR", "LF">>}}
Edited(requests) == requests \cup UNION {
    {SubSeq(r, 1, n - 1) \o e \o SubSeq(r, n + 1, Len(r)) :
       n \in 1..Len(r), e \in {<<c>> : c \in Byte} \cup {<<>>, <<"CR", "CR">>, <<"LF", "LF">>}}
    : r \in requests}
Streams == Edited(Edited(Good)) \cup UNION {[1..n -> Byte] : n \in 0..4}

RB == INSTANCE RBTree WITH Key <- 1..10
LL == INSTANCE LinkedList WITH Node <- 1..4, Elem <- 1..2
LD == INSTANCE LoopDetect WITH Cell <- 1..5
DJ == INSTANCE Dijkstra WITH n <- 4, Weight <- {0, 2}, MAX <- 99, MaxLines <- 4
HF == INSTANCE Huffman WITH Lengths <- 2..4, Weights <- {1, 2, 3, 5, 30, 70}
BS == INSTANCE BTreeString WITH MS <- 2, MaxNodes <- 5, MaxString <- 5, tree <- meant, a <- str
CF == INSTANCE ConfFile WITH Calls <- <<"a", "b">>, MaxLines <- 3
HP == INSTANCE HttpParser WITH WRITE_BUFFER_SIZE <- 1024, MaxDigits <- 10

list == <<pList, link, element, alloc, phase, contents>>
loop == <<next, cur1, pos1, cur2, pos2, ret1, p, q, ret2>>
graph == <<map, lines, dist, mark, done>>
huffman == <<a, b>>
notation == <<meant, str, i, bt, kids, ptr, s, k, failed, wild>>
conf == <<file, pos, found, KeyVal, results>>
request == <<stream, read_idx, p8, p15, cut>>

MCInit ==
    /\ program \in {"rbtree", "list", "loop", "dijkstra", "huffman", "btree", "conf", "http"}
    /\ RB!Init /\ LL!Init /\ DJ!Init
    /\ IF program = "loop" THEN LD!Init
       ELSE /\ next = [c \in 1..5 |-> 0] /\ cur1 = 1 /\ pos1 = 1 /\ cur2 = 1 /\ pos2 = 0 /\ ret1 = -1
            /\ p = 1 /\ q = 1 /\ ret2 = -1
    /\ IF program = "huffman" THEN HF!Init ELSE a = <<>> /\ b = <<>>
    /\ IF program = "btree" THEN BS!Init
       ELSE /\ meant = <<>> /\ str = <<>> /\ i = 1 /\ bt = 0 /\ kids = <<>>
            /\ ptr = 0 /\ s = <<>> /\ k = 1 /\ failed = FALSE /\ wild = FALSE
    /\ IF program = "conf" THEN CF!Init
       ELSE file = <<>> /\ pos = 1 /\ found = 0 /\ KeyVal = <<>> /\ results = <<>>
    /\ IF program = "http" THEN HP!Init
       ELSE stream = <<>> /\ read_idx = 0 /\ p8 = HP!Start /\ p15 = HP!Start /\ cut = FALSE

MCNext ==
    \/ program = "rbtree" /\ RB!Next /\ UNCHANGED <<program, list, loop, graph, huffman, notation, conf, request>>
    \/ program = "list" /\ LL!Next /\ UNCHANGED <<program, tree, loop, graph, huffman, notation, conf, request>>
    \/ program = "loop" /\ LD!Next /\ UNCHANGED <<program, tree, list, graph, huffman, notation, conf, request>>
    \/ program = "dijkstra" /\ DJ!Next /\ UNCHANGED <<program, tree, list, loop, huffman, notation, conf, request>>
    \/ program = "huffman" /\ HF!Next /\ UNCHANGED <<program, tree, list, loop, graph, notation, conf, request>>
    \/ program = "btree" /\ BS!Next /\ UNCHANGED <<program, tree, list, loop, graph, huffman, conf, request>>
    \/ program = "conf" /\ CF!Next /\ UNCHANGED <<program, tree, list, loop, graph, huffman, notation, request>>
    \/ program = "http" /\ HP!Next /\ UNCHANGED <<program, tree, list, loop, graph, huffman, notation, conf>>

all == <<program, tree, list, loop, graph, huffman, notation, conf, request>>
MCSpec == MCInit /\ [][MCNext]_all /\ WF_all(program = "loop" /\ MCNext)
-----------------------------------------------------------------------------
(* Every tree that inserts and erases can reach is red-black, its nodes and    *)
(* parents point at each other, and rb_search finds exactly its keys.          *)
RedBlackTree == program = "rbtree" => RB!TypeOK /\ RB!RedBlack /\ RB!SearchFinds

(* From every such tree rb_insert adds its own key and no other, which         *)
(* rb_search then finds, and rb_erase removes its own key and no other,        *)
(* whatever they do to the shape.                                              *)
ImplementsSet == program = "rbtree" => RB!KeepsSet

(* Both tests for a loop end and agree with the list, wherever its loop is.    *)
LoopFound == program = "loop" => LD!LoopFound

(* The algorithms compute what their references define: in every turn Dijkstra's *)
(* marked distances are final; Huffman's tree has the smallest weighted path     *)
(* length while the sum fits in a char; CreateBTree builds the tree written down *)
(* and refuses a string at its first bracket that closes nothing or goes too     *)
(* deep and at its first foreign character, and for nothing else; the linked     *)
(* list holds what it was asked to store; and GetProfileString returns what the  *)
(* first section of that name sets.                                              *)
ComputesReference ==
    /\ program = "dijkstra" => DJ!ShortestPaths
    /\ program = "huffman" => HF!HuffmanOptimal
    /\ program = "btree" => BS!NotationRead
    /\ program = "list" => LL!HoldsContents
    /\ program = "conf" => CF!ProfileRead

(* However recv() cuts a request into pieces, each parser is where it would be  *)
(* had it received all of them at once; not so for http_conn once a piece ends  *)
(* inside the content.                                                          *)
CutAnywhere == program = "http" => HP!CutAnywhere

(* http_conn accepts exactly the complete requests, if no piece ended inside    *)
(* the content; chapter 8 accepts at the end of the heading and refuses         *)
(* whatever http_conn refuses.                                                  *)
AcceptsGrammar == program = "http" => HP!AcceptsGrammar

(* Every answer fits the write buffer whole, although process_write looks at    *)
(* the result of the last add_response only; only an empty file has no answer.  *)
AnswerFits == program = "http" => HP!AnswerFits
=============================================================================
