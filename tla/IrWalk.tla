------------------------------- MODULE IrWalk -------------------------------
(***************************************************************************)
(* The walks of a function that hand the function to the visitor:          *)
(* block_walk_nested_values_mut, value_walk_nested_values_mut and          *)
(* primop_walk_nested_values_mut of src/libeir_ir/src/function/mod.rs.     *)
(*                                                                         *)
(* The visitor gets the function mutably with every value, so what it does *)
(* to the function happens between two steps of the walk.  The walk is     *)
(* therefore a machine of its own here: a stack with one frame for the     *)
(* loop over the reads of the block and one for each loop over the         *)
(* operands of a primop the walk is in.  A loop reads the length of its    *)
(* list once, when it starts, and fetches the n-th entry from the function *)
(* as it is when the loop gets there.  What the visitor may do is what the *)
(* builder may do (module IrFunction).                                     *)
(***************************************************************************)
EXTENDS Naturals, Sequences, FiniteSets, SequencesExt

CONSTANTS
    MaxBlocks, MaxValues, MaxPrimOps, MaxReads,     \* as in IrFunction
    OpKinds, PrimOpKinds, Consts, DistinctBlockReads, None,
    MaxWalked,      \* bound: the values of a function a walk starts on
    MaxVisitorOps   \* bound: the changes the visitor makes during one walk

VARIABLES
    entry_block, blocks, values, primops, constant_values, last_insert,
    walked,     \* the block block_walk_nested_values_mut was called with
    walk,       \* the loops the walk is in, the innermost last
    visited,    \* history: the values visit was called with, in order
    changes,    \* history: the changes the visitor made during the walk
    touched     \* history: the visitor changed the reads of the block

F == INSTANCE IrFunction

fvars == <<entry_block, blocks, values, primops, constant_values, last_insert>>
wvars == <<walked, walk, visited, changes, touched>>
vars  == <<fvars, wvars>>

\* The list a loop goes over, as the function has it now.
ReadsOf(loop) ==
    IF loop.over = "block" THEN F!BlockReads(loop.of)
    ELSE F!PrimopReads(loop.of)

\* "let len = ...; for n in 0..len": a loop over a list of len entries.
Loop(over, of, len) ==
    [over |-> over, of |-> of, n |-> 0, len |-> len]

\* A turn that passes over an entry.
Turned_ByTwo(loop) == [loop EXCEPT !.n = @ + 2]

\* "for n in 0..len": the loop after one turn
Turned(loop) == [loop EXCEPT !.n = @ + 1]

\* The loop over the operands of a primop that leaves out the first.
PrimopWalkMut_FromOne(p) ==
    [Loop("primop", p, Len(F!PrimopReads(p))) EXCEPT !.n = 1]

\* primop_walk_nested_values_mut: the loop over the operands of a primop
PrimopWalkMut(p) == Loop("primop", p, Len(F!PrimopReads(p)))

\* value_walk_nested_values_mut, after visit(self, value): the loops the
\* walk is in then
ValueWalkMut(loops, v) ==
    IF F!IsKind(v, "PrimOp") THEN Append(loops, PrimopWalkMut(values[v].primop))
    ELSE loops

-----------------------------------------------------------------------------
\* No walk is going on.
Init ==
    /\ F!Init
    /\ walked = None
    /\ walk = << >>
    /\ visited = << >>
    /\ changes = 0
    /\ touched = FALSE

\* The builder, while no walk is going on.
Build ==
    /\ walked = None
    /\ F!Next
    /\ UNCHANGED wvars

\* block_walk_nested_values_mut up to its loop
BlockWalkMut(b) ==
    /\ walked = None
    /\ Len(values) <= MaxWalked
    /\ walked' = b
    /\ walk' = <<Loop("block", b, Len(F!BlockReads(b)))>>
    /\ visited' = << >>
    /\ changes' = 0
    /\ touched' = FALSE
    /\ UNCHANGED fvars

\* One turn of the innermost loop: the n-th entry is fetched (the unwrap
\* and the index panic when the list has become shorter), visited, and
\* walked into.
WalkTurn ==
    LET loop == Last(walk)
        read == ReadsOf(loop)[loop.n + 1]
    IN  /\ walk # << >>
        /\ loop.n < loop.len
        /\ loop.n < Len(ReadsOf(loop))
        /\ visited' = Append(visited, read)
        /\ walk' = ValueWalkMut(Append(Front(walk), Turned(loop)), read)
        /\ UNCHANGED <<fvars, walked, changes, touched>>

\* The innermost loop is over and the walk stays in it.
WalkReturn_Stays ==
    /\ walk # << >>
    /\ Last(walk).n = Last(walk).len
    /\ UNCHANGED vars

\* The innermost loop is over.
WalkReturn ==
    /\ walk # << >>
    /\ Last(walk).n = Last(walk).len
    /\ walk' = Front(walk)
    /\ UNCHANGED <<fvars, walked, visited, changes, touched>>

\* The visitor, called with a value, changes the function.
Visit ==
    /\ walk # << >>
    /\ visited # << >>
    /\ changes < MaxVisitorOps
    /\ F!Next
    /\ changes' = changes + 1
    /\ touched' = (touched \/ blocks'[walked].reads # blocks[walked].reads)
    /\ UNCHANGED <<walked, walk, visited>>

\* block_walk_nested_values_mut returns.
WalkDone ==
    /\ walked # None
    /\ walk = << >>
    /\ walked' = None
    /\ visited' = << >>
    /\ changes' = 0
    /\ touched' = FALSE
    /\ UNCHANGED <<fvars, walk>>

Next ==
    \/ Build
    \/ \E b \in DOMAIN blocks : BlockWalkMut(b)
    \/ WalkTurn
    \/ WalkReturn
    \/ Visit
    \/ WalkDone

Spec == Init /\ [][Next]_vars

\* A walk that was called runs: its loops take their turns and return.
FairSpec == Spec /\ WF_vars(WalkTurn) /\ WF_vars(WalkReturn) /\ WF_vars(WalkDone)

-----------------------------------------------------------------------------
(***************************************************************************)
(* Properties                                                              *)
(***************************************************************************)

\* The properties of the function, for the function a visitor has changed
\* as well.
PrimOpSharing == F!PrimOpSharing

SharingIsTransitive == F!SharingIsTransitive

WalkVisitsReachable == F!WalkVisitsReachable

\* The shape of the state of a walk: the loops are over entities of the
\* function and within their lists as they were when the loops started.
TypeOK ==
    /\ F!TypeOK
    /\ walked \in DOMAIN blocks \cup {None}
    /\ walked = None => walk = << >> /\ visited = << >>
    /\ \A i \in DOMAIN walk :
          /\ walk[i].over \in {"block", "primop"}
          /\ walk[i].over = "block" <=> i = 1
          /\ walk[i].of \in (IF i = 1 THEN {walked} ELSE DOMAIN primops)
          /\ walk[i].n \in 0 .. walk[i].len
    /\ visited \in Seq(DOMAIN values)
    /\ changes \in 0 .. MaxVisitorOps
    /\ touched \in BOOLEAN

\* A walk whose visitor leaves the reads of the block alone visits what
\* block_walk_nested_values visits, in the same order, and none of its
\* loops runs past the end of its list or stops short of it, although the
\* visitor adds values, primops and arguments to the function while the
\* walk goes on: a loop counts positions and fetches from the function as
\* it is, the function only grows, and a primop never changes.
MutWalkMatchesWalk ==
    walked # None /\ ~touched =>
        /\ IsPrefix(visited, F!BlockWalk(walked))
        /\ walk = << >> => visited = F!BlockWalk(walked)
        /\ \A i \in DOMAIN walk : walk[i].len = Len(ReadsOf(walk[i]))

\* A walk returns, whatever the visitor adds to the function on the way: a
\* loop over the operands of a primop starts another loop only for an
\* operand that is a primop, and the operands of a primop were there before
\* it, so the loops do not nest for ever although no walk keeps a set of
\* the values it has seen.  (A visitor that replaces the reads of the block
\* that is walked may make the walk panic instead.)
WalkEnds == (walked # None) ~> (walked = None \/ touched)

=============================================================================
