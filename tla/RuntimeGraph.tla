---------------------------- MODULE RuntimeGraph ----------------------------
(***************************************************************************)
(* The order in which SKIRRuntimeGraph lists the kernels of the graph that *)
(* the runtime's instructions and requests built.                          *)
(***************************************************************************)
EXTENDS RuntimeEvents

(* refreshAdjList and topo_sort.                                           *)
Edges == {<<stream[s].src, stream[s].dst>> :
             s \in {t \in DOMAIN stream : stream[t].si /\ stream[t].src >= 0
                                                       /\ stream[t].dst >= 0}}
adj_Reversed(k) == SetToSortSeq({e[1] : e \in {d \in Edges : d[2] = k}}, >)
adj(k) == SetToSortSeq({e[2] : e \in {d \in Edges : d[1] = k}}, >)

RECURSIVE topo_sort_visit(_, _)
topo_sort_visit(k, r) ==
  LET seen == [c |-> r.c \cup {k}, sorted |-> r.sorted]
      below == FoldSeq(LAMBDA j, x : IF j \in x.c THEN x ELSE topo_sort_visit(j, x),
                       seen, adj(k))
  IN IF k \notin id2kernel THEN seen
     ELSE [below EXCEPT !.sorted = <<k>> \o @]

topo_sort ==
  FoldSeq(LAMBDA k, x : IF k \in x.c THEN x ELSE topo_sort_visit(k, x),
          [c |-> {}, sorted |-> <<>>],
          [i \in 1 .. next_kernel_id |-> next_kernel_id - i]).sorted
-----------------------------------------------------------------------------
(* topo_sort lists the kernels of the graph once each, every producer      *)
(* before its consumers.                                                   *)
TopoSorted ==
  LET l == topo_sort IN
  /\ ToSet(l) = id2kernel /\ Len(l) = Cardinality(id2kernel)
  /\ \A i, j \in DOMAIN l : <<l[i], l[j]>> \in Edges => i < j
=============================================================================
