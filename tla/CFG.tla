-------------------------------- MODULE CFG --------------------------------
(***************************************************************************)
(* Control-flow-graph construction of the intermediate code generator     *)
(* (src/src/ic.c: build_CFG, number_CFG, number_subCFG, number_subRCFG).   *)
(*                                                                         *)
(* The quad stream is a sequence of records [op, tar, arg1, arg2]; quad    *)
(* index k of ic_instructions is position k+1 of the sequence.  Address    *)
(* arguments are indices into the address table `addrs'; a label is an    *)
(* IConst address whose value is the label number (new_label).             *)
(*                                                                         *)
(* Node 0 is the NULL node; nodes 1..N are the basic blocks in the order   *)
(* of their leaders.  The result of BuildCFG is a record holding, per      *)
(* node, its leader, last quad, out edges and in edges (in the order the   *)
(* code fills the fixed-size arrays), whether an in-edge array overflowed  *)
(* (the assert of build_CFG), and the four DFS orderings.                  *)
(***************************************************************************)
EXTENDS Integers, Sequences, SequencesExt, FiniteSets, Steps

CONSTANT MAX_IN_EDGES   \* capacity of CFGNode.in_edges (a header outside src/)

\* Positions of the leaders: the first quad and every OpLab (build_CFG 1st step).
Leaders(instrs) ==
    SelectSeq([p \in 1..Len(instrs) |-> p], LAMBDA p : p = 1 \/ instrs[p].op = "Lab")

\* lab2node: label number -> node whose leader is that label.  A label that
\* is emitted twice is mapped to its later block, as the array store does.
Lab2Node(instrs, addrs, leaders) ==
    LET labNodes == {i \in 1..Len(leaders) : instrs[leaders[i]].op = "Lab"}
        val(i) == addrs[instrs[leaders[i]].tar].val
    IN  [v \in {val(i) : i \in labNodes} |->
            CHOOSE i \in labNodes : val(i) = v /\ \A j \in labNodes : val(j) = v => j <= i]

\* Mutant of LastOf: the next leader itself (the "- 1" dropped).
LastOf_at_leader(instrs, leaders, i) ==
    IF i # Len(leaders) THEN leaders[i+1] ELSE Len(instrs)

\* Last quad of block i: the quad before the next leader, or the last quad.
LastOf(instrs, leaders, i) ==
    IF i # Len(leaders) THEN leaders[i+1] - 1 ELSE Len(instrs)

\* Successors named by the terminator of block i, in out_edges order.  A
\* label with no lab2node entry reads the uninitialised malloc'd table; it
\* is represented by the NULL node 0.
Succs(instrs, addrs, leaders, l2n, i) ==
    LET q == instrs[LastOf(instrs, leaders, i)]
        node(a) == IF addrs[a].val \in DOMAIN l2n THEN l2n[addrs[a].val] ELSE 0
    IN  CASE q.op = "CBr" -> <<node(q.arg1), node(q.arg2)>>
          [] q.op = "Jmp" -> <<node(q.tar)>>
          [] OTHER        -> << >>

\* Mutant of AddInEdges: the slot search never advances, so every
\* predecessor lands in slot 0 and overwrites the one before.
AddInEdges_slot0(st, i, succs) ==
    FoldInOrder(LAMBDA s, n : [s EXCEPT !.in[n] = <<i>>], st, succs)

\* Add i to the first free in-edge slot of each successor, in order; a full
\* array trips assert(j != MAX_IN_EDGES).
AddInEdges(st, i, succs) ==
    FoldInOrder(LAMBDA s, n :
                IF Len(s.in[n]) < MAX_IN_EDGES
                THEN [s EXCEPT !.in[n] = Append(@, i)]
                ELSE [s EXCEPT !.aborted = TRUE],
             st, succs)

RECURSIVE DFSList(_, _, _), DFS(_, _, _)
\* number_subCFG / number_subRCFG: visit n, recurse into the unvisited
\* successors in array order, then number n: CFG_RPO[cfg_nodes_counter -
\* pocount] = n and CFG_PO[pocount++] = n.  st.po holds CFG_PO[1..pocount-1]
\* and st.rpo the array CFG_RPO[0..N]; 0 marks a slot never written (the
\* array is malloc'd), and a write outside it is lost.
\* Mutant of DFS: CFG_RPO written after pocount is incremented.
DFS_rpo_late(n, succ, st) ==
    LET st1 == DFSList(succ[n], succ, [st EXCEPT !.visited = @ \cup {n}])
        pocount == Len(st1.po) + 1
    IN  [st1 EXCEPT !.po = Append(@, n), !.rpo[st1.counter - (pocount + 1)] = n]

DFS(n, succ, st) ==
    LET st1 == DFSList(succ[n], succ, [st EXCEPT !.visited = @ \cup {n}])
        pocount == Len(st1.po) + 1
    IN  [st1 EXCEPT !.rpo[st1.counter - pocount] = n, !.po = Append(@, n)]

DFSList(ms, succ, st) ==
    IF ms = << >> THEN st
    ELSE DFSList(Tail(ms), succ,
                 IF Head(ms) \in st.visited THEN st ELSE DFS(Head(ms), succ, st))

RECURSIVE NumberForest(_, _, _)
\* The while loop of number_CFG: start a DFS at the lowest unvisited node
\* until every node 1..N has been visited.
NumberForest(N, succ, st) ==
    IF (1..N) \subseteq st.visited THEN st
    ELSE NumberForest(N, succ,
            DFS(CHOOSE n \in 1..N : n \notin st.visited
                                    /\ \A m \in 1..N : m \notin st.visited => n <= m,
                succ, st))

\* number_CFG, one direction: pocount from 1, cfg_nodes_counter = N + 1;
\* the result is [po, rpo], both indexed 1..N.
Numbering(N, succ) ==
    LET st == NumberForest(N, succ, [visited |-> {}, po |-> << >>, counter |-> N + 1,
                                     rpo |-> [i \in 0..N |-> 0]])
    IN  [po |-> st.po, rpo |-> [k \in 1..N |-> st.rpo[k]]]

\* build_CFG followed by number_CFG.
BuildCFG(instrs, addrs) ==
    LET leaders == Leaders(instrs)
        N       == Len(leaders)
        l2n     == Lab2Node(instrs, addrs, leaders)
        out     == [i \in 1..N |-> Succs(instrs, addrs, leaders, l2n, i)]
        edges   == FoldInOrder(LAMBDA s, i : AddInEdges(s, i, out[i]),
                            [in |-> [n \in 0..N |-> << >>], aborted |-> FALSE],
                            [k \in 1..N |-> k])
        realOut == [i \in 1..N |-> SelectSeq(out[i], LAMBDA n : n # 0)]
        in      == [i \in 1..N |-> edges.in[i]]
        fwd     == Numbering(N, realOut)
        bwd     == Numbering(N, in)
    IN  [n       |-> N,
         leader  |-> leaders,
         last    |-> [i \in 1..N |-> LastOf(instrs, leaders, i)],
         out     |-> out,
         in      |-> in,
         aborted |-> edges.aborted,
         po      |-> fwd.po,
         rpo     |-> fwd.rpo,
         rpoR    |-> bwd.po,
         rrpo    |-> bwd.rpo]

EmptyCFG == [n |-> 0, leader |-> << >>, last |-> << >>, out |-> << >>, in |-> << >>,
             aborted |-> FALSE, po |-> << >>, rpo |-> << >>, rpoR |-> << >>, rrpo |-> << >>]

-----------------------------------------------------------------------------
(* Graph helpers used by the properties.                                   *)

Edges(g) == UNION {{<<u, v>> : v \in ToSet(g.out[u]) \ {0}} : u \in 1..g.n}

RECURSIVE ReachFrom(_, _, _)
\* Nodes reachable from the set S along edges E, avoiding the nodes in X.
ReachFrom(S, E, X) ==
    LET next == {e[2] : e \in {e \in E : e[1] \in S}} \ (S \cup X)
    IN  IF next = {} THEN S ELSE ReachFrom(S \cup next, E, X)

\* d dominates n: every path from the entry node 1 to n passes through d.
Dominates(g, d, n) ==
    d = n \/ n \notin ReachFrom({1} \ {d}, Edges(g), {d})

\* Position of node n in a numbering sequence.
IndexIn(s, n) == CHOOSE k \in 1..Len(s) : s[k] = n
=============================================================================
