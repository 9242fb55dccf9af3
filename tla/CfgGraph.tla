------------------------------ MODULE CfgGraph ------------------------------
(***************************************************************************)
(* The graph container both generations of FunctionCfg are built on        *)
(* (util::graph::Graph in the eir crate, cfg::graph::Graph in the          *)
(* compiler crate).  Its source is not part of the repository at hand; the *)
(* operators below are modelled from the specification and from the way    *)
(* the FunctionCfg code uses the container:                                *)
(*                                                                         *)
(*   graph[node label]  has .inner, .outgoing (a Vec of (edge, target)     *)
(*                      pairs, read in order by branch_slots) and          *)
(*                      .incoming (only its length is read);               *)
(*   graph[edge label]  has .from and .to.                                 *)
(*                                                                         *)
(* A graph is a function from its live node labels to node containers.     *)
(* The edge table is kept by the modules that use the graph.               *)
(***************************************************************************)
LOCAL INSTANCE Naturals
LOCAL INSTANCE Sequences
LOCAL INSTANCE SequencesExt

\* A node container that holds inner and has no edges yet.
NodeOf(inner) == [inner |-> inner, outgoing |-> << >>, incoming |-> {}]

\* Graph::add_node: lbl is a fresh label, never one that was issued before.
GraphAddNode(ns, lbl, inner) ==
    [n \in DOMAIN ns \cup {lbl} |-> IF n = lbl THEN NodeOf(inner) ELSE ns[n]]

\* Graph::add_edge: the edge takes the last slot of its source.
GraphAddEdge(ns, lbl, from, to) ==
    [ns EXCEPT ![from].outgoing = Append(@, <<lbl, to>>),
               ![to].incoming   = @ \cup {<<lbl, from>>}]

\* Graph::remove_edge: both endpoints forget the edge, the slots after it
\* move up by one.
GraphRemoveEdge(ns, lbl, from, to) ==
    [ns EXCEPT ![from].outgoing = SelectSeq(@, LAMBDA p : p[1] # lbl),
               ![to].incoming   = @ \ {<<lbl, from>>}]

\* Graph::remove_node: the node goes, and with it its outgoing edges, which
\* its successors forget.  (FunctionCfg only calls it on a node without
\* incoming edges.)
GraphRemoveNode(ns, lbl) ==
    LET gone == ToSet(ns[lbl].outgoing)
    IN  [n \in DOMAIN ns \ {lbl} |->
            [ns[n] EXCEPT !.incoming = {p \in @ : <<p[1], n>> \notin gone}]]

\* The edge table after add_edge and after the removal of a set of edges.
EdgesWith(es, lbl, from, to) ==
    [e \in DOMAIN es \cup {lbl} |->
        IF e = lbl THEN [from |-> from, to |-> to] ELSE es[e]]

EdgesWithout(es, gone) == [e \in DOMAIN es \ gone |-> es[e]]

=============================================================================
