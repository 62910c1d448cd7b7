------------------------------ MODULE TopoSort ------------------------------
(***************************************************************************)
(* The dispatch order of a flow: topological_sort of the flow validator,   *)
(* Kahn's algorithm with the ids of each layer in lexical order.  Node ids *)
(* are numbers here, in the order of their names.  flow_define stores a    *)
(* definition without validating it, so edges may name ids that are no     *)
(* nodes, and may form cycles.                                             *)
(***************************************************************************)
EXTENDS Naturals, Sequences, FiniteSets

Preds(nodes, edges, n) == {m \in nodes : <<m, n>> \in edges}
Ascending(S) ==
  CHOOSE s \in [1 .. Cardinality(S) -> S] : \A i, j \in DOMAIN s : i < j => s[i] < s[j]

(* Before the loop: the queue holds the nodes of in-degree 0. *)
Start0(nodes, edges) ==
  LET degree == [n \in nodes |-> Cardinality({e \in edges : e[2] = n})]
  IN  [degree |-> degree, sorted |-> <<>>,
       queue  |-> Ascending({n \in nodes : degree[n] = 0})]

PopEager(nodes, edges, k) ==  \* mutant: a neighbour is queued when first reached
  IF k.queue = <<>> THEN k
  ELSE LET node == Head(k.queue)
           next == {n \in nodes : <<node, n>> \in edges}
           held == {k.sorted[i] : i \in DOMAIN k.sorted} \cup {k.queue[i] : i \in DOMAIN k.queue}
       IN  [degree |-> k.degree, sorted |-> Append(k.sorted, node),
            queue  |-> Tail(k.queue) \o Ascending(next \ held)]

(* One turn of the loop: pop a node, and queue each neighbour whose in-degree
   it brings to 0. *)
Pop(nodes, edges, k) ==
  IF k.queue = <<>> THEN k
  ELSE LET node == Head(k.queue)
           next == {n \in nodes : <<node, n>> \in edges}
       IN  [degree |-> [n \in nodes |-> IF n \in next THEN k.degree[n] - 1 ELSE k.degree[n]],
            sorted |-> Append(k.sorted, node),
            queue  |-> Tail(k.queue) \o Ascending({n \in next : k.degree[n] = 1})]

(* The loop; a turn with an empty queue stands for its end. *)
Kahn(nodes, edges) ==
  LET run[i \in 0 .. Cardinality(nodes)] ==
        IF i = 0 THEN Start0(nodes, edges) ELSE Pop(nodes, edges, run[i - 1])
  IN  run

Sorted(nodes, edges) == Kahn(nodes, edges)[Cardinality(nodes)].sorted

(* topological_sort answers Err: some node never reached in-degree 0. *)
CycleDetected(nodes, edges) == Len(Sorted(nodes, edges)) # Cardinality(nodes)
=============================================================================
