------------------------------ MODULE BlockGraph ------------------------------
(***************************************************************************)
(* What the block graph of a function promises the passes that rewrite it  *)
(* and the interpreter that walks it, as the specification of the core     *)
(* states it (the invariants of the data model, the contracts of the       *)
(* block graph and of the phi nodes).  Nothing here says how a graph is    *)
(* stored.                                                                 *)
(*                                                                         *)
(* A graph is a set of live blocks joined by edges, each with an identity  *)
(* of its own, so that two edges may join the same two blocks.  A phi node *)
(* binds each edge that comes into its block to the value that flows in    *)
(* along it: it is a function from those edges to values.  The edges that  *)
(* leave a block are ordered; a user picks one by its position, the        *)
(* branch slot.                                                            *)
(*                                                                         *)
(* EirCfg and LirCfg are shown to implement this specification.            *)
(***************************************************************************)
EXTENDS Naturals, Sequences, FiniteSets, Functions, TLC

CONSTANTS
    Blocks,     \* the labels a block may have
    Edges,      \* the labels an edge may have
    Values      \* the values a phi node may bind

VARIABLES
    entry,      \* the entry block
    phis,       \* live block -> its phi nodes, each: edge into it -> value
    arcs,       \* live edge -> [from, to]
    order,      \* live block -> the edges that leave it, in slot order
    slots,      \* live block -> the answer of branch_slots
    used        \* the labels that have ever named a block or an edge

vars == <<entry, phis, arcs, order, slots, used>>

Live == DOMAIN order

Into(b) == {e \in DOMAIN arcs : arcs[e].to = b}

OutOf(b) == {e \in DOMAIN arcs : arcs[e].from = b}

\* A graph holds its entry block and nothing else.
Init ==
    /\ entry \in Blocks
    /\ phis = entry :> << >>
    /\ arcs = << >>
    /\ order = entry :> << >>
    /\ slots = entry :> << >>
    /\ used = [blocks |-> {entry}, edges |-> {}]

\* A new block has a label no block had before, no phi node and no edge.
NewBlock(b) ==
    /\ b \in Blocks \ used.blocks
    /\ used' = [used EXCEPT !.blocks = @ \cup {b}]
    /\ order' = (b :> << >>) @@ order
    /\ slots' = (b :> << >>) @@ slots
    /\ phis' = (b :> << >>) @@ phis
    /\ UNCHANGED <<entry, arcs>>

\* A new edge has a label no edge had before and takes the last slot of its
\* source; every phi node of its target binds it to a value.  No edge leads
\* to the entry block.
NewArc(e, from, to) ==
    /\ e \in Edges \ used.edges
    /\ {from, to} \subseteq Live
    /\ to # entry
    /\ used' = [used EXCEPT !.edges = @ \cup {e}]
    /\ arcs' = (e :> [from |-> from, to |-> to]) @@ arcs
    /\ order' = [order EXCEPT ![from] = Append(@, e)]
    /\ slots' = [slots EXCEPT ![from] = Append(@, to)]
    /\ phis' \in {[phis EXCEPT ![to] =
                        [i \in DOMAIN @ |-> (e :> vals[i]) @@ @[i]]] :
                    vals \in [DOMAIN phis[to] -> Values]}
    /\ UNCHANGED entry

\* A new phi node binds every edge that comes into its block.
NewPhi(b) ==
    /\ b \in Live
    /\ UNCHANGED <<entry, arcs, order, slots, used>>
    /\ phis' \in {[phis EXCEPT ![b] = Append(@, binding)] :
                    binding \in [Into(b) -> Values]}

\* The graph with the blocks `live` after the edges `gone` have left it:
\* the edges that stay keep their ends, their bindings and their order; the
\* slots after an edge that goes move up.
Without(live, gone) ==
    LET kept(b) == SelectSeq(order[b], LAMBDA e : e \notin gone)
    IN  /\ arcs' = Restrict(arcs, DOMAIN arcs \ gone)
        /\ order' = [b \in live |-> kept(b)]
        /\ slots' = [b \in live |->
                        [i \in DOMAIN kept(b) |-> arcs[kept(b)[i]].to]]
        /\ phis' = [b \in live |-> [i \in DOMAIN phis[b] |->
                        Restrict(phis[b][i], DOMAIN phis[b][i] \ gone)]]

\* remove_edge: one live edge goes.
RemoveArc(e) ==
    /\ e \in DOMAIN arcs
    /\ UNCHANGED <<entry, used>>
    /\ Without(Live, {e})

\* remove_block: a block other than the entry that no edge leads to goes,
\* and with it the edges that leave it.
RemoveBlock(b) ==
    /\ b \in Live \ {entry}
    /\ Into(b) = {}
    /\ UNCHANGED <<entry, used>>
    /\ Without(Live \ {b}, OutOf(b))

Next ==
    \/ \E b \in Blocks : NewBlock(b)
    \/ \E e \in Edges : \E from, to \in Live : NewArc(e, from, to)
    \/ \E b \in Live : NewPhi(b)
    \/ \E e \in DOMAIN arcs : RemoveArc(e)
    \/ \E b \in Live : RemoveBlock(b)

Spec == Init /\ [][Next]_vars

=============================================================================
