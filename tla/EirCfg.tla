------------------------------- MODULE EirCfg -------------------------------
(***************************************************************************)
(* The control-flow graph of one function in the eir crate:                *)
(* FunctionCfg of src/eir/src/cfg/mod.rs.                                  *)
(*                                                                         *)
(* A FunctionCfg owns a multigraph of basic blocks.  Nodes and edges are   *)
(* named by labels the graph issues (LabelN, EdgeN).  A block keeps its    *)
(* phi nodes and the graph keeps, per block, the ordered list of outgoing  *)
(* (edge, target) pairs and the incoming (edge, source) pairs.  A phi      *)
(* entry is tagged with the EdgeN of the predecessor edge it belongs to.   *)
(*                                                                         *)
(* remove_edge and remove_block are translated from the source.  The       *)
(* graph container (module CfgGraph) and the builder (cfg/builder.rs) are  *)
(* not part of the sources at hand; their operations are modelled from     *)
(* the specification and say so.                                           *)
(*                                                                         *)
(* A panic of the code (an index of a label that is not there, a failed    *)
(* assert!, an unwrap of None) ends the compilation: in the model it is    *)
(* the guard of the action, and the step does not exist.                   *)
(***************************************************************************)
EXTENDS Naturals, Sequences, FiniteSets, SequencesExt, CfgGraph

CONSTANTS
    MaxNodes,   \* block labels the graph may issue (bounds add_node)
    MaxEdges,   \* edge labels the graph may issue (bounds add_edge)
    MaxPhis,    \* phi nodes one block may hold (bounds the builder)
    Sources     \* the values a phi entry may carry (Source)

ASSUME
    /\ MaxNodes \in Nat \ {0}
    /\ MaxEdges \in Nat
    /\ MaxPhis \in Nat
    /\ Sources # {}

VARIABLES
    entry,      \* FunctionCfg.entry
    nodes,      \* the graph's node containers, by live LabelN
    edges,      \* the graph's edge containers, by live EdgeN
    issued      \* how many labels of each kind the graph has issued

vars == <<entry, nodes, edges, issued>>

LabelN == 0 .. MaxNodes - 1
EdgeN  == 0 .. MaxEdges - 1

\* BasicBlock { phi_nodes: vec![], ops: vec![] }.  The ops are not modelled:
\* nothing in this file reads them.
EmptyBlock == [phi_nodes |-> << >>]

\* Phi { entries: Vec<(EdgeN, Source)>, ssa }.  The ssa name is left out.
PhiOf(entries) == [entries |-> entries]

Tag(en) == en[1]

\* dst.phi_nodes of the block in node container ns[lbl]
Phis(ns, lbl) == ns[lbl].inner.phi_nodes

-----------------------------------------------------------------------------
(***************************************************************************)
(* FunctionCfg                                                             *)
(***************************************************************************)

\* FunctionCfg::new: the graph holds the entry block and nothing else.
Init ==
    /\ entry = 0
    /\ nodes = GraphAddNode(<< >>, 0, EmptyBlock)
    /\ edges = << >>
    /\ issued = [node |-> 1, edge |-> 0]

\* phi.entries.iter().position(|(from, _)| *from == lbl) is Some
HasEntry(phi, lbl) == \E i \in DOMAIN phi.entries : Tag(phi.entries[i]) = lbl

\* phi.entries.remove(pos) for the first entry tagged lbl
RemoveEntry(phi, lbl) ==
    [phi EXCEPT !.entries = RemoveFirstMatch(@, LAMBDA en : Tag(en) = lbl)]

\* The loop over dst.phi_nodes would not panic.
PhisHaveEntry(ns, dst, lbl) ==
    \A i \in DOMAIN Phis(ns, dst) : HasEntry(Phis(ns, dst)[i], lbl)

\* for phi in dst.phi_nodes.iter_mut() { ... phi.entries.remove(pos) }
StripPhiEntries(ns, dst, lbl) ==
    [ns EXCEPT ![dst].inner.phi_nodes =
                    [i \in DOMAIN @ |-> RemoveEntry(@[i], lbl)]]

\* branch_slots reading the incoming list instead of the outgoing one.
BranchSlots_Incoming(lbl) ==
    LET in == SetToSeq(nodes[lbl].incoming)
    IN  [i \in DOMAIN in |-> in[i][2]]

\* FunctionCfg::branch_slots: the targets of lbl's outgoing edges, in the
\* order of the edges.
BranchSlots(lbl) == [i \in DOMAIN nodes[lbl].outgoing |->
                        nodes[lbl].outgoing[i][2]]

\* FunctionCfg::remove_edge
RemoveEdge(lbl) ==
    /\ lbl \in DOMAIN edges
    /\ LET from == edges[lbl].from
           to   == edges[lbl].to
       IN  /\ PhisHaveEntry(nodes, to, lbl)
           /\ nodes' = GraphRemoveEdge(StripPhiEntries(nodes, to, lbl),
                                       lbl, from, to)
    /\ edges' = EdgesWithout(edges, {lbl})
    /\ UNCHANGED <<entry, issued>>

\* remove_block without its "Remove from PHI nodes" loop.
StripOutgoing_Skip(ns, lbl) == ns

\* remove_block's loop over block_container.outgoing: every phi of every
\* successor loses its entry for the edge.
StripOutgoing(ns, lbl) ==
    FoldLeft(LAMBDA acc, out : StripPhiEntries(acc, out[2], out[1]),
             ns, ns[lbl].outgoing)

\* remove_block without assert!(lbl != self.entry()).
Removable_EntryToo(lbl) ==
    /\ lbl \in DOMAIN nodes
    /\ nodes[lbl].incoming = {}

\* remove_block without assert!(block_container.incoming.len() == 0).
Removable_NoIncomingCheck(lbl) ==
    /\ lbl \in DOMAIN nodes
    /\ lbl # entry

\* The two assert!s of remove_block.
Removable(lbl) ==
    /\ lbl \in DOMAIN nodes
    /\ lbl # entry
    /\ nodes[lbl].incoming = {}

\* FunctionCfg::remove_block
RemoveBlock(lbl) ==
    /\ Removable(lbl)
    /\ \A i \in DOMAIN nodes[lbl].outgoing :
            PhisHaveEntry(nodes, nodes[lbl].outgoing[i][2],
                          nodes[lbl].outgoing[i][1])
    /\ nodes' = GraphRemoveNode(StripOutgoing(nodes, lbl), lbl)
    /\ edges' = EdgesWithout(edges, {e \in DOMAIN edges : edges[e].from = lbl})
    /\ UNCHANGED <<entry, issued>>

-----------------------------------------------------------------------------
(***************************************************************************)
(* The builder, modelled from the specification: it is the only code that  *)
(* adds to the graph, and it keeps the phi nodes of a block in step with   *)
(* the block's incoming edges.                                             *)
(***************************************************************************)

\* A new, empty block.
AddBlock ==
    /\ issued.node < MaxNodes
    /\ nodes' = GraphAddNode(nodes, issued.node, EmptyBlock)
    /\ issued' = [issued EXCEPT !.node = @ + 1]
    /\ UNCHANGED <<entry, edges>>

\* A new edge from -> to.  Every phi node of the target gets an entry for
\* it; srcs[i] is the value that flows into the i-th phi along the edge.
\* The entry block is never a target.
AddEdge(from, to, srcs) ==
    /\ issued.edge < MaxEdges
    /\ from \in DOMAIN nodes
    /\ to \in DOMAIN nodes \ {entry}
    /\ LET lbl == issued.edge
       IN  /\ nodes' = [GraphAddEdge(nodes, lbl, from, to) EXCEPT
                          ![to].inner.phi_nodes = [i \in DOMAIN @ |->
                              PhiOf(Append(@[i].entries, <<lbl, srcs[i]>>))]]
           /\ edges' = EdgesWith(edges, lbl, from, to)
    /\ issued' = [issued EXCEPT !.edge = @ + 1]
    /\ UNCHANGED entry

\* A new phi node in block lbl, with one entry for each edge that comes in
\* now; srcs[e] is the value that flows in along edge e.
AddPhi(lbl, srcs) ==
    /\ lbl \in DOMAIN nodes
    /\ Len(Phis(nodes, lbl)) < MaxPhis
    /\ LET in == SetToSortSeq({Tag(p) : p \in nodes[lbl].incoming}, <)
       IN  nodes' = [nodes EXCEPT ![lbl].inner.phi_nodes =
                Append(@, PhiOf([i \in DOMAIN in |-> <<in[i], srcs[in[i]]>>]))]
    /\ UNCHANGED <<entry, edges, issued>>

-----------------------------------------------------------------------------
Next ==
    \/ AddBlock
    \/ \E from, to \in DOMAIN nodes :
         \E srcs \in [DOMAIN Phis(nodes, to) -> Sources] :
            AddEdge(from, to, srcs)
    \/ \E lbl \in DOMAIN nodes :
         \E srcs \in [{Tag(p) : p \in nodes[lbl].incoming} -> Sources] :
            AddPhi(lbl, srcs)
    \/ \E lbl \in DOMAIN edges : RemoveEdge(lbl)
    \/ \E lbl \in DOMAIN nodes : RemoveBlock(lbl)

Spec == Init /\ [][Next]_vars

-----------------------------------------------------------------------------
(***************************************************************************)
(* Properties                                                              *)
(***************************************************************************)

\* The shape of the state: live labels are issued labels, every container
\* has its fields, and the entry block is live (remove_block refuses it).
TypeOK ==
    /\ issued \in [node : 1 .. MaxNodes, edge : 0 .. MaxEdges]
    /\ DOMAIN nodes \subseteq 0 .. issued.node - 1
    /\ DOMAIN edges \subseteq 0 .. issued.edge - 1
    /\ entry \in DOMAIN nodes
    /\ \A n \in DOMAIN nodes :
        /\ nodes[n].outgoing \in Seq(EdgeN \X LabelN)
        /\ nodes[n].incoming \subseteq EdgeN \X LabelN
        /\ Len(Phis(nodes, n)) <= MaxPhis
        /\ \A i \in DOMAIN Phis(nodes, n) :
             Phis(nodes, n)[i].entries \in Seq(EdgeN \X Sources)
    /\ \A e \in DOMAIN edges : edges[e] \in [from : LabelN, to : LabelN]

\* The adjacency lists of the blocks and the edge table describe the same
\* graph: an edge is live iff its source lists it once as outgoing iff its
\* target lists it as incoming, and both ends are live blocks.  remove_edge
\* and remove_block update up to three containers for this; remove_block
\* relies on its incoming-edges assertion for it.
AdjacencyConsistent ==
    /\ \A e \in DOMAIN edges :
        /\ {edges[e].from, edges[e].to} \subseteq DOMAIN nodes
        /\ <<e, edges[e].from>> \in nodes[edges[e].to].incoming
        /\ Cardinality({i \in DOMAIN nodes[edges[e].from].outgoing :
              nodes[edges[e].from].outgoing[i] = <<e, edges[e].to>>}) = 1
    /\ \A n \in DOMAIN nodes :
        /\ \A p \in ToSet(nodes[n].outgoing) :
              Tag(p) \in DOMAIN edges /\ edges[Tag(p)] = [from |-> n, to |-> p[2]]
        /\ \A p \in nodes[n].incoming :
              Tag(p) \in DOMAIN edges /\ edges[Tag(p)] = [from |-> p[2], to |-> n]

\* Every phi node has exactly one entry for each edge that now comes into
\* its block, and no entry for any other edge: remove_edge and remove_block
\* strip the entries of the edges they take away, in the blocks those edges
\* led to, and of no other edge.  A phi node with a missing entry makes the
\* next remove_edge panic ("Phi node was invalid!"); one with a stale entry
\* makes a consumer read a value for an edge that cannot be taken.
PhiEntriesMatchIncoming ==
    \A n \in DOMAIN nodes : \A i \in DOMAIN Phis(nodes, n) :
        LET entries == Phis(nodes, n)[i].entries
        IN  /\ \A j, k \in DOMAIN entries :
                  Tag(entries[j]) = Tag(entries[k]) => j = k
            /\ {Tag(en) : en \in ToSet(entries)}
                  = {Tag(p) : p \in nodes[n].incoming}

\* What a phi node binds: the value of its entry for each edge it names.
Binding(phi) ==
    [e \in {Tag(en) : en \in ToSet(phi.entries)} |->
        (CHOOSE en \in ToSet(phi.entries) : Tag(en) = e)[2]]

\* The graph a FunctionCfg stands for: the live blocks with the bindings of
\* their phi nodes, the edge table, the edges of each outgoing list in
\* order, what branch_slots answers, and the labels issued so far.
Abs == INSTANCE BlockGraph WITH
    Blocks <- LabelN,
    Edges  <- EdgeN,
    Values <- Sources,
    phis   <- [b \in DOMAIN nodes |->
                 [i \in DOMAIN Phis(nodes, b) |-> Binding(Phis(nodes, b)[i])]],
    arcs   <- edges,
    order  <- [b \in DOMAIN nodes |->
                 [i \in DOMAIN nodes[b].outgoing |-> Tag(nodes[b].outgoing[i])]],
    slots  <- [b \in DOMAIN nodes |-> BranchSlots(b)],
    used   <- [blocks |-> 0 .. issued.node - 1, edges |-> 0 .. issued.edge - 1]

\* FunctionCfg implements the block graph of the specification: every call
\* of remove_edge, of remove_block and of the builder is one step of the
\* abstract graph.  So a removal takes away exactly the edges it names (one
\* edge, or the edges that leave the dead block), every edge that stays
\* keeps its ends and the value each phi node binds it to, no label is
\* issued twice, and branch_slots answers the targets of the edges that
\* stay in their order: the slots after a removed edge move up and no two
\* slots swap, which the interpreter relies on when it picks a successor by
\* position.
RefinesBlockGraph == Abs!Spec

=============================================================================
