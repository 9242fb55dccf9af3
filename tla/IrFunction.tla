----------------------------- MODULE IrFunction -----------------------------
(***************************************************************************)
(* One function of the entity-arena IR: Function of                        *)
(* src/libeir_ir/src/function/mod.rs.                                      *)
(*                                                                         *)
(* The function owns three arenas.  An entity is its position in its       *)
(* arena: blocks, values and primops are sequences, and Block, Value and   *)
(* PrimOp are indexes into them.  A block keeps its arguments, its         *)
(* operation, the values the operation reads, and the sets of its          *)
(* predecessors and successors.  A value is of one kind: a block, an       *)
(* argument of a block, a constant, or the result of a primop.  Primops    *)
(* are deduplicated: inserting one that is structurally equal to an        *)
(* existing one gives the existing one.                                    *)
(*                                                                         *)
(* block_insert, block_arg_insert, the equality of primops, the walks and  *)
(* the validator are in the source.  The builder that sets a block's       *)
(* operation and reads, interns constants and inserts primops is modelled  *)
(* from the specification.                                                 *)
(***************************************************************************)
EXTENDS Naturals, Sequences, FiniteSets, SequencesExt

Gr == INSTANCE Graphs

CONSTANTS
    MaxBlocks,      \* blocks the arena may hold (bounds block_insert)
    MaxValues,      \* values the arena may hold (bounds every push)
    MaxPrimOps,     \* primops the pool may hold (bounds a missed insert)
    MaxReads,       \* the longest read list the builder passes
    OpKinds,        \* the operations of a block
    PrimOpKinds,    \* the operators of a primop
    Consts,         \* the constants
    DistinctBlockReads, \* does the builder read a block at most once per op
    None            \* Option::None

ASSUME
    /\ {MaxBlocks, MaxValues, MaxPrimOps, MaxReads} \subseteq Nat
    /\ DistinctBlockReads \in BOOLEAN

VARIABLES
    entry_block,        \* Function.entry_block
    blocks,             \* Function.blocks
    values,             \* Function.values
    primops,            \* Function.primops
    constant_values,    \* Function.constant_values
    last_insert         \* what the last primop insert was asked for and gave

vars == <<entry_block, blocks, values, primops, constant_values, last_insert>>

Block  == 1 .. MaxBlocks
Value  == 1 .. MaxValues
PrimOp == 1 .. MaxPrimOps

\* ValueKind (of the value module)
KBlock(b)       == [kind |-> "Block", block |-> b]
KArgument(b, n) == [kind |-> "Argument", block |-> b, arg |-> n]
KConst(c)       == [kind |-> "Const", const |-> c]
KPrimOp(p)      == [kind |-> "PrimOp", primop |-> p]

\* BlockData of a block that was just inserted
NewBlock == [arguments |-> << >>, op |-> None, reads |-> << >>,
             predecessors |-> {}, successors |-> {}]

\* PrimOpData
PrimOpData(kind, reads) == [op |-> kind, reads |-> reads]

-----------------------------------------------------------------------------
\* Function::new
Init ==
    /\ entry_block = None
    /\ blocks = << >>
    /\ values = << >>
    /\ primops = << >>
    /\ constant_values = {}
    /\ last_insert = None

\* value_kind: the value is of the kind
IsKind(v, kind) == values[v].kind = kind

\* value_is_constant
ValueIsConstant(v) == v \in constant_values

\* block_args, block_reads, block_kind
BlockArgs(b)  == blocks[b].arguments
BlockReads(b) == blocks[b].reads
BlockKind(b)  == blocks[b].op

\* primop_reads
PrimopReads(p) == primops[p].reads

\* value_block, value_const, value_primop: Some of what a value of the
\* kind holds
ValueBlock(v)  == IF IsKind(v, "Block") THEN values[v].block ELSE None
ValueConst(v)  == IF IsKind(v, "Const") THEN values[v].const ELSE None
ValuePrimop(v) == IF IsKind(v, "PrimOp") THEN values[v].primop ELSE None

\* value_argument: Some((block, arg)) of an argument
ValueArgument(v) ==
    IF IsKind(v, "Argument") THEN <<values[v].block, values[v].arg>> ELSE None

\* block_arg_n: Option of the num-th argument, counted from 0
BlockArgN(b, num) ==
    IF num < Len(BlockArgs(b)) THEN BlockArgs(b)[num + 1] ELSE None

\* The blocks a read list names, in the order it names them.
BlocksRead(reads) ==
    LET succs == SelectSeq(reads, LAMBDA v : IsKind(v, "Block"))
    IN  [i \in DOMAIN succs |-> values[succs[i]].block]

\* block_insert without the push of the block's value.
BlockInsert_NoValue ==
    /\ Len(blocks) < MaxBlocks
    /\ blocks' = Append(blocks, NewBlock)
    /\ UNCHANGED <<entry_block, values, primops, constant_values, last_insert>>

\* block_insert
BlockInsert ==
    /\ Len(blocks) < MaxBlocks
    /\ Len(values) < MaxValues
    /\ blocks' = Append(blocks, NewBlock)
    /\ values' = Append(values, KBlock(Len(blocks) + 1))
    /\ UNCHANGED <<entry_block, primops, constant_values, last_insert>>

\* block_arg_insert that reads the number of arguments after its push.
BlockArgInsert_CountAfterPush(b) ==
    /\ Len(values) < MaxValues
    /\ blocks' = [blocks EXCEPT ![b].arguments = Append(@, Len(values) + 1)]
    /\ values' = Append(values, KArgument(b, Len(blocks'[b].arguments)))
    /\ UNCHANGED <<entry_block, primops, constant_values, last_insert>>

\* block_arg_insert: the new argument's position is the number of arguments
\* the block had.
BlockArgInsert(b) ==
    /\ Len(values) < MaxValues
    /\ values' = Append(values, KArgument(b, Len(blocks[b].arguments)))
    /\ blocks' = [blocks EXCEPT ![b].arguments = Append(@, Len(values) + 1)]
    /\ UNCHANGED <<entry_block, primops, constant_values, last_insert>>

\* aux_eq that compares the operator alone.
AuxEq_OpOnly(lhs, rhs) == lhs.op = rhs.op

\* PrimOpData::aux_eq: the same operator and the same operands, by identity
AuxEq(lhs, rhs) == lhs.op = rhs.op /\ lhs.reads = rhs.reads

-----------------------------------------------------------------------------
(***************************************************************************)
(* The walks.  A walk visits the value, and when the value is the result   *)
(* of a primop, walks every operand of the primop, in order.  The visits   *)
(* of a walk are a sequence: a value that is reached twice is visited      *)
(* twice.                                                                  *)
(***************************************************************************)
RECURSIVE ValueWalk(_), PrimopWalk(_)

\* value_walk_nested_values without visit(value).
ValueWalk_SkipSelf(v) ==
    IF IsKind(v, "PrimOp") THEN PrimopWalk(values[v].primop) ELSE << >>

\* primop_walk_nested_values
PrimopWalk(p) ==
    FlattenSeq([i \in DOMAIN PrimopReads(p) |-> ValueWalk(PrimopReads(p)[i])])

\* value_walk_nested_values
ValueWalk(v) ==
    <<v>> \o IF IsKind(v, "PrimOp") THEN PrimopWalk(values[v].primop)
             ELSE << >>

\* block_walk_nested_values
BlockWalk(b) ==
    FlattenSeq([i \in DOMAIN BlockReads(b) |-> ValueWalk(BlockReads(b)[i])])

-----------------------------------------------------------------------------
\* graph_validate_block: the assertions hold.  Every block the reads name
\* is a successor and has the block as a predecessor, and there are as many
\* successors as reads that name a block.
GraphValidateBlock(b) ==
    /\ \A s \in ToSet(BlocksRead(blocks[b].reads)) :
          /\ s \in blocks[b].successors
          /\ b \in blocks[s].predecessors
    /\ Cardinality(blocks[b].successors) = Len(BlocksRead(blocks[b].reads))

\* graph_validate_global
GraphValidateGlobal == \A b \in DOMAIN blocks : GraphValidateBlock(b)

-----------------------------------------------------------------------------
(***************************************************************************)
(* The builder, modelled from the specification.                           *)
(***************************************************************************)

\* The first block to be named the entry stays the entry.
SetEntry(b) ==
    /\ entry_block = None
    /\ entry_block' = b
    /\ UNCHANGED <<blocks, values, primops, constant_values, last_insert>>

\* intern_constant: a constant has one value.  Interning it again gives the
\* value it has and changes nothing.
InternConstant(c) ==
    /\ \A v \in DOMAIN values : values[v] # KConst(c)
    /\ Len(values) < MaxValues
    /\ values' = Append(values, KConst(c))
    /\ constant_values' = constant_values \cup {Len(values) + 1}
    /\ UNCHANGED <<entry_block, blocks, primops, last_insert>>

\* The primops of the pool that are equal to data.
Lookup(data) == {p \in DOMAIN primops : AuxEq(primops[p], data)}

\* insert on a hit that gives the primop a second value.
PrimOpHit_NewValue(data) ==
    /\ Lookup(data) # {}
    /\ Len(values) < MaxValues
    /\ values' = Append(values, KPrimOp(CHOOSE p \in Lookup(data) : TRUE))
    /\ UNCHANGED <<entry_block, blocks, primops, constant_values, last_insert>>

\* insert of the primop pool, on a hit: the primop that is there.
PrimOpHit(data) ==
    /\ Lookup(data) # {}
    /\ last_insert' = [data |-> data, primop |-> CHOOSE p \in Lookup(data) : TRUE]
    /\ UNCHANGED <<entry_block, blocks, values, primops, constant_values>>

\* insert of the primop pool, on a miss: a new primop, and
\* record_primop_value gives it its value.
PrimOpMiss(data) ==
    /\ Lookup(data) = {}
    /\ Len(primops) < MaxPrimOps
    /\ Len(values) < MaxValues
    /\ primops' = Append(primops, data)
    /\ values' = Append(values, KPrimOp(Len(primops) + 1))
    /\ last_insert' = [data |-> data, primop |-> Len(primops) + 1]
    /\ UNCHANGED <<entry_block, blocks, constant_values>>

\* set_op_and_reads that adds the new edges and leaves the old ones.
SetOpAndReads_KeepOld(b, op, reads) ==
    LET succs  == ToSet(BlocksRead(reads))
        withOp == [blocks EXCEPT ![b].op = op, ![b].reads = reads,
                                 ![b].successors = @ \cup succs]
    IN  /\ blocks' = [c \in DOMAIN blocks |-> [withOp[c] EXCEPT
                !.predecessors = IF c \in succs THEN @ \cup {b} ELSE @]]
        /\ UNCHANGED <<entry_block, values, primops, constant_values,
                       last_insert>>

\* set_op_and_reads: the block gets the operation and the reads; its
\* successors become the blocks the reads name, and it becomes a
\* predecessor of exactly those blocks.
SetOpAndReads(b, op, reads) ==
    LET succs  == ToSet(BlocksRead(reads))
        withOp == [blocks EXCEPT ![b].op = op, ![b].reads = reads,
                                 ![b].successors = succs]
    IN  /\ blocks' = [c \in DOMAIN blocks |-> [withOp[c] EXCEPT
                !.predecessors = IF c \in succs THEN @ \cup {b}
                                 ELSE @ \ {b}]]
        /\ UNCHANGED <<entry_block, values, primops, constant_values,
                       last_insert>>

\* The read lists the builder passes: existing values, and a block at most
\* once when DistinctBlockReads.
ReadLists ==
    {reads \in BoundedSeq(DOMAIN values, MaxReads) :
        DistinctBlockReads => IsInjective(BlocksRead(reads))}

-----------------------------------------------------------------------------
Next ==
    \/ BlockInsert
    \/ \E b \in DOMAIN blocks : SetEntry(b)
    \/ \E b \in DOMAIN blocks : BlockArgInsert(b)
    \/ \E c \in Consts : InternConstant(c)
    \/ \E kind \in PrimOpKinds : \E reads \in ReadLists \ {<< >>} :
          PrimOpHit(PrimOpData(kind, reads))
    \/ \E kind \in PrimOpKinds : \E reads \in ReadLists \ {<< >>} :
          PrimOpMiss(PrimOpData(kind, reads))
    \/ \E b \in DOMAIN blocks : \E op \in OpKinds : \E reads \in ReadLists :
          SetOpAndReads(b, op, reads)

Spec == Init /\ [][Next]_vars

-----------------------------------------------------------------------------
(***************************************************************************)
(* Properties                                                              *)
(***************************************************************************)

\* The shape of the state.  Every entity a block, a value or a primop names
\* is in its arena, and an argument's position is a position of its block.
TypeOK ==
    /\ entry_block \in DOMAIN blocks \cup {None}
    /\ DOMAIN blocks \subseteq Block
    /\ DOMAIN values \subseteq Value
    /\ DOMAIN primops \subseteq PrimOp
    /\ constant_values \subseteq DOMAIN values
    /\ \A b \in DOMAIN blocks :
        /\ BlockKind(b) \in OpKinds \cup {None}
        /\ BlockArgs(b) \in Seq(DOMAIN values)
        /\ BlockReads(b) \in Seq(DOMAIN values)
        /\ blocks[b].predecessors \subseteq DOMAIN blocks
        /\ blocks[b].successors \subseteq DOMAIN blocks
    /\ \A v \in DOMAIN values :
        \/ \E b \in DOMAIN blocks : values[v] = KBlock(b)
        \/ \E b \in DOMAIN blocks : \E n \in 0 .. Len(blocks[b].arguments) - 1 :
              values[v] = KArgument(b, n)
        \/ \E c \in Consts : values[v] = KConst(c)
        \/ \E p \in DOMAIN primops : values[v] = KPrimOp(p)
    /\ \A p \in DOMAIN primops :
        /\ primops[p].op \in PrimOpKinds
        /\ primops[p].reads \in Seq(DOMAIN values)
    /\ last_insert # None =>
        /\ last_insert.primop \in DOMAIN primops
        /\ last_insert.data.op \in PrimOpKinds

\* The arenas name each other consistently: every block and every primop
\* has exactly one value (block_insert and the pool push it with the
\* entity), the n-th argument of a block is the one value that names the
\* block and position n (block_arg_insert), and constant_values holds
\* exactly the constants.  Primops are compared by the identity of their
\* operands, so a second value for an entity would defeat the
\* deduplication.
ValuesNameEntities ==
    /\ \A b \in DOMAIN blocks :
        /\ Cardinality({v \in DOMAIN values : ValueBlock(v) = b}) = 1
        /\ \A n \in 0 .. Len(BlockArgs(b)) - 1 :
              ValueArgument(BlockArgN(b, n)) = <<b, n>>
    /\ \A v \in DOMAIN values :
          ValueArgument(v) # None =>
              BlockArgN(ValueArgument(v)[1], ValueArgument(v)[2]) = v
    /\ \A p \in DOMAIN primops :
          Cardinality({v \in DOMAIN values : ValuePrimop(v) = p}) = 1
    /\ \A v \in DOMAIN values : ValueIsConstant(v) <=> ValueConst(v) # None

\* graph_validate_global passes on every function the builder builds: none
\* of its assertions fails.
ValidatorAccepts == GraphValidateGlobal

\* Two primops of the pool differ in operator or operands, and the primop
\* an insert gives has the operator and the operands that were asked for
\* (aux_eq decides on a hit).
PrimOpSharing ==
    /\ IsInjective(primops)
    /\ last_insert # None => primops[last_insert.primop] = last_insert.data

\* What a value stands for, whatever identities the arenas gave out: the
\* block, argument or constant it names, or the operator of its primop
\* applied to what the operands stand for.
RECURSIVE Denotes(_)
Denotes(v) ==
    IF IsKind(v, "PrimOp")
    THEN LET data == primops[values[v].primop]
         IN  [op |-> data.op,
              of |-> [i \in DOMAIN data.reads |-> Denotes(data.reads[i])]]
    ELSE values[v]

\* Sharing is transitive: two values that stand for the same thing are one
\* value, at every depth.  aux_eq compares the operands of a primop by
\* identity, so the pool shares a primop built on shared parts only when
\* every entity below it has a single value: a second value for a block, a
\* constant or a primop would give two primops for one expression, and the
\* pool would find them different.
SharingIsTransitive ==
    \A v, w \in DOMAIN values : Denotes(v) = Denotes(w) => v = w

\* v uses w: v is the result of a primop and w is one of its operands.
Uses == {<<v, w>> \in (DOMAIN values) \X (DOMAIN values) :
            IsKind(v, "PrimOp") /\ w \in ToSet(PrimopReads(values[v].primop))}

\* The walk of a value ends, and visits exactly the values that can be
\* reached from it through operands of primops, the value itself first;
\* the walk of a block visits what can be reached from its reads.
WalkVisitsReachable ==
    LET reach == Gr!ConnectionsIn([node |-> DOMAIN values, edge |-> Uses])
        Reachable(from) == {w \in DOMAIN values : \E v \in from : reach[v, w]}
    IN  /\ \A v \in DOMAIN values :
              /\ ToSet(ValueWalk(v)) = Reachable({v})
              /\ Head(ValueWalk(v)) = v
        /\ \A b \in DOMAIN blocks :
              ToSet(BlockWalk(b)) = Reachable(ToSet(BlockReads(b)))

=============================================================================
