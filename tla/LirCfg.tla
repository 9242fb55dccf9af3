------------------------------- MODULE LirCfg -------------------------------
(***************************************************************************)
(* The control-flow graph of one function in the compiler crate, the older *)
(* generation of the IR: FunctionCfg of                                    *)
(* src/compiler/src/ir/lir/cfg/mod.rs.                                     *)
(*                                                                         *)
(* It differs from the eir FunctionCfg (module EirCfg) in two places.      *)
(* remove_edge looks for the phi entry of the edge by the label of the     *)
(* edge's source block, so a phi entry is a (LabelN, value) pair.  And the *)
(* body of remove_block is commented out: the call returns and the graph   *)
(* is as it was.                                                           *)
(*                                                                         *)
(* The graph container (module CfgGraph) and the builder are modelled from *)
(* the specification.  A panic of the code is the guard of the action.     *)
(* The graph is shown to implement the abstract block graph (module        *)
(* BlockGraph) as long as no two edges join the same two blocks.           *)
(***************************************************************************)
EXTENDS Naturals, Sequences, FiniteSets, SequencesExt, CfgGraph

CONSTANTS
    MaxNodes,       \* block labels the graph may issue (bounds add_node)
    MaxEdges,       \* edge labels the graph may issue (bounds add_edge)
    MaxPhis,        \* phi nodes one block may hold (bounds the builder)
    Sources,        \* the values a phi entry may carry
    ParallelEdges   \* may the builder join two blocks by more than one edge

ASSUME
    /\ MaxNodes \in Nat \ {0}
    /\ MaxEdges \in Nat
    /\ MaxPhis \in Nat
    /\ Sources # {}
    /\ ParallelEdges \in BOOLEAN

VARIABLES
    entry,      \* FunctionCfg.entry
    nodes,      \* the graph's node containers, by live LabelN
    edges,      \* the graph's edge containers, by live EdgeN
    issued,     \* how many labels of each kind the graph has issued
    removed     \* history: the labels remove_block was called with

vars == <<entry, nodes, edges, issued, removed>>

LabelN == 0 .. MaxNodes - 1
EdgeN  == 0 .. MaxEdges - 1

\* BasicBlock { phi_nodes: vec![], ops: vec![] }; the ops are not modelled.
EmptyBlock == [phi_nodes |-> << >>]

Phis(ns, lbl) == ns[lbl].inner.phi_nodes

-----------------------------------------------------------------------------
\* new() without graph.add_node: entry names a block that is not there.
Init_NoEntryNode ==
    /\ entry = 0
    /\ nodes = << >>
    /\ edges = << >>
    /\ issued = [node |-> 1, edge |-> 0]
    /\ removed = {}

\* FunctionCfg::new: the graph holds the entry block and nothing else.
Init ==
    /\ entry = 0
    /\ nodes = GraphAddNode(<< >>, 0, EmptyBlock)
    /\ edges = << >>
    /\ issued = [node |-> 1, edge |-> 0]
    /\ removed = {}

\* phi.entries.iter().position(|(from, _)| *from == edge_from_label) is Some
HasEntry(phi, from) == \E i \in DOMAIN phi.entries : phi.entries[i][1] = from

\* phi.entries.remove(pos): the first entry of that source block goes.
RemoveEntry(phi, from) ==
    [phi EXCEPT !.entries = RemoveFirstMatch(@, LAMBDA en : en[1] = from)]

\* remove_edge without its loop over the phi nodes.
StripPhiEntries_Skip(ns, dst, from) == ns

\* for phi in dst.phi_nodes.iter_mut() { ... phi.entries.remove(pos) }
StripPhiEntries(ns, dst, from) ==
    [ns EXCEPT ![dst].inner.phi_nodes =
                    [i \in DOMAIN @ |-> RemoveEntry(@[i], from)]]

\* FunctionCfg::branch_slots
BranchSlots(lbl) == [i \in DOMAIN nodes[lbl].outgoing |->
                        nodes[lbl].outgoing[i][2]]

\* FunctionCfg::remove_edge
RemoveEdge(lbl) ==
    /\ lbl \in DOMAIN edges
    /\ LET from == edges[lbl].from
           to   == edges[lbl].to
       IN  /\ \A i \in DOMAIN Phis(nodes, to) :
                  HasEntry(Phis(nodes, to)[i], from)
           /\ nodes' = GraphRemoveEdge(StripPhiEntries(nodes, to, from),
                                       lbl, from, to)
    /\ edges' = EdgesWithout(edges, {lbl})
    /\ UNCHANGED <<entry, issued, removed>>

\* FunctionCfg::remove_block: the body is a comment, the assertions too.
RemoveBlock(lbl) ==
    /\ removed' = removed \cup {lbl}
    /\ UNCHANGED <<entry, nodes, edges, issued>>

-----------------------------------------------------------------------------
(***************************************************************************)
(* The builder, modelled from the specification.                           *)
(***************************************************************************)

\* A new, empty block.
AddBlock ==
    /\ issued.node < MaxNodes
    /\ nodes' = GraphAddNode(nodes, issued.node, EmptyBlock)
    /\ issued' = [issued EXCEPT !.node = @ + 1]
    /\ UNCHANGED <<entry, edges, removed>>

\* A new edge from -> to.  Every phi node of the target gets an entry for
\* it, tagged with the source block; srcs[i] is the value that flows into
\* the i-th phi along the edge.  The entry block is never a target.
AddEdge(from, to, srcs) ==
    /\ issued.edge < MaxEdges
    /\ from \in DOMAIN nodes
    /\ to \in DOMAIN nodes \ {entry}
    /\ ParallelEdges \/ \A e \in DOMAIN edges :
                            edges[e] # [from |-> from, to |-> to]
    /\ LET lbl == issued.edge
       IN  /\ nodes' = [GraphAddEdge(nodes, lbl, from, to) EXCEPT
                          ![to].inner.phi_nodes = [i \in DOMAIN @ |->
                              [entries |-> Append(@[i].entries,
                                                  <<from, srcs[i]>>)]]]
           /\ edges' = EdgesWith(edges, lbl, from, to)
    /\ issued' = [issued EXCEPT !.edge = @ + 1]
    /\ UNCHANGED <<entry, removed>>

\* A new phi node in block lbl, with one entry for each edge that comes in
\* now; srcs[e] is the value that flows in along edge e.
AddPhi(lbl, srcs) ==
    /\ lbl \in DOMAIN nodes
    /\ Len(Phis(nodes, lbl)) < MaxPhis
    /\ LET in == SetToSortSeq({p[1] : p \in nodes[lbl].incoming}, <)
       IN  nodes' = [nodes EXCEPT ![lbl].inner.phi_nodes = Append(@,
                [entries |-> [i \in DOMAIN in |->
                                <<edges[in[i]].from, srcs[in[i]]>>]])]
    /\ UNCHANGED <<entry, edges, issued, removed>>

-----------------------------------------------------------------------------
\* The blocks a pass may hand to remove_block: not the entry, no edge in.
DeadBlocks == {lbl \in DOMAIN nodes \ {entry} : nodes[lbl].incoming = {}}

Next ==
    \/ AddBlock
    \/ \E from, to \in DOMAIN nodes :
         \E srcs \in [DOMAIN Phis(nodes, to) -> Sources] :
            AddEdge(from, to, srcs)
    \/ \E lbl \in DOMAIN nodes :
         \E srcs \in [{p[1] : p \in nodes[lbl].incoming} -> Sources] :
            AddPhi(lbl, srcs)
    \/ \E lbl \in DOMAIN edges : RemoveEdge(lbl)
    \/ \E lbl \in DeadBlocks \ removed : RemoveBlock(lbl)

Spec == Init /\ [][Next]_vars

-----------------------------------------------------------------------------
(***************************************************************************)
(* Properties                                                              *)
(***************************************************************************)

\* The shape of the state; entry names a live block.
TypeOK ==
    /\ issued \in [node : 1 .. MaxNodes, edge : 0 .. MaxEdges]
    /\ DOMAIN nodes \subseteq 0 .. issued.node - 1
    /\ DOMAIN edges \subseteq 0 .. issued.edge - 1
    /\ removed \subseteq LabelN
    /\ entry \in DOMAIN nodes
    /\ \A n \in DOMAIN nodes :
        /\ nodes[n].outgoing \in Seq(EdgeN \X LabelN)
        /\ nodes[n].incoming \subseteq EdgeN \X LabelN
        /\ Len(Phis(nodes, n)) <= MaxPhis
        /\ \A i \in DOMAIN Phis(nodes, n) :
             Phis(nodes, n)[i].entries \in Seq(LabelN \X Sources)
    /\ \A e \in DOMAIN edges : edges[e] \in [from : LabelN, to : LabelN]

\* The entries of a phi node for the source block s, the oldest first.
EntriesFrom(phi, s) == SelectSeq(phi.entries, LAMBDA en : en[1] = s)

\* What a phi node of block b binds.  An entry names the source block of
\* its edge: the k-th entry for a source block is the entry of the k-th
\* edge from that block, since the builder adds entries as it adds edges.
\* Entries that have no edge are bound to MaxEdges, which is no edge.
Binding(b, phi) ==
    LET in       == nodes[b].incoming
        From(s)  == {p \in in : p[2] = s}
        Rank(p)  == Cardinality({q \in From(p[2]) : q[1] <= p[1]})
        bound    == {p \in in : Rank(p) <= Len(EntriesFrom(phi, p[2]))}
        stale    == {en \in ToSet(phi.entries) :
                        Len(EntriesFrom(phi, en[1])) > Cardinality(From(en[1]))}
    IN  [e \in {p[1] : p \in bound} \cup {MaxEdges : en \in stale} |->
            IF e = MaxEdges THEN (CHOOSE en \in stale : TRUE)[2]
            ELSE LET p == CHOOSE q \in bound : q[1] = e
                 IN  EntriesFrom(phi, p[2])[Rank(p)][2]]

\* The graph a FunctionCfg stands for: the live blocks with the bindings of
\* their phi nodes, the edge table, the edges of each outgoing list in
\* order, what branch_slots answers, and the labels issued so far.
Abs == INSTANCE BlockGraph WITH
    Blocks <- LabelN,
    Edges  <- EdgeN,
    Values <- Sources,
    phis   <- [b \in DOMAIN nodes |->
                 [i \in DOMAIN Phis(nodes, b) |->
                     Binding(b, Phis(nodes, b)[i])]],
    arcs   <- edges,
    order  <- [b \in DOMAIN nodes |->
                 [i \in DOMAIN nodes[b].outgoing |-> nodes[b].outgoing[i][1]]],
    slots  <- [b \in DOMAIN nodes |-> BranchSlots(b)],
    used   <- [blocks |-> 0 .. issued.node - 1, edges |-> 0 .. issued.edge - 1]

\* The legacy FunctionCfg implements the block graph of the specification:
\* every call of remove_edge and of the builder is one step of the abstract
\* graph, and a call of remove_block is no step at all.  So remove_edge
\* takes away the edge it names and the value every phi node of the target
\* binds to it, every edge that stays keeps the value it was bound to, and
\* branch_slots answers the targets of the edges that stay, in their
\* order.  remove_edge finds the entry by the source block alone, so when
\* two edges join the same two blocks it may take the entry of the edge
\* that stays.
RefinesBlockGraph == Abs!Spec

=============================================================================
