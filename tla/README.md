# TLA+ models of the core_erlang IR and its consumers

This directory holds TLA+ models of the intermediate representation of the
core_erlang compiler (the per-function graph of basic blocks, phi nodes and
values) and of the code that consumes it, together with the TLC
configurations that check them. `PROJECT.json` is the machine-readable index:
components, runs, the source lines every definition stands for, the mutants
that show each property can fail, the findings and the hazards.

## 1. Inventory

The repository holds three generations of the IR and two consumers.

| Part | Source | State it keeps | Operations |
|---|---|---|---|
| eir `FunctionCfg` | `src/eir/src/cfg/mod.rs` | `entry`, `args`, a multigraph of `BasicBlock`s (phi nodes, ops) with per-block ordered `outgoing` and `incoming` edge lists, `ssa_gen` | `new`, `entry`, `remove_edge`, `remove_block`, `branch_slots` |
| legacy lir `FunctionCfg` | `src/compiler/src/ir/lir/cfg/mod.rs` | the same graph; phi entries are tagged with the *source block*, not with the edge | `new`, `entry`, `remove_edge`, `branch_slots`, `remove_block` (its body is commented out) |
| libeir_ir `Function` | `src/libeir_ir/src/function/mod.rs` | arenas `blocks`, `values`, `primops` (deduplicating), `entry_block`, `constant_values`; per block `arguments`, `op`, `reads`, and the *sets* `predecessors`, `successors` | `new`, `block_insert`, `block_arg_insert`, the `value_*`, `block_*` and `primop_*` accessors, the nested-value walks and their `_mut` forms, `graph_validate_block`, `graph_validate_global`, structural equality of `PrimOpData` |
| interpreter process | `src/interpreter/src/process/mod.rs` | a stack of Erlang and native frames; per Erlang frame `basic_block`, `prev_basic_block`, `state` (`Normal` or `InCall(outcomes)`), `variables`; `return_val` | `make_call_stackframe`, `do_reduction`, `run_reductions`, `StackFrame::read/write/tombstone` |
| interpreter case matching | `src/interpreter/src/pattern.rs` | `MatchState` (`MatchClause(n)`, `GuardWait(n)`, `Finished`), `vars`, `clauses`, `last_binds` | `match_node`, `do_body`, `guard_ok`, `guard_fail`, `case_values` |
| interpreter trace collector | `src/interpreter/src/trace/trace.rs` | a global VM id counter; per thread a VM id and a collector: `current_pid`, one call stack per pid, the event list | `gen_vm_id`, `set_pid`, `get_pid`, `enter_function`, `exit_function`, `start_basic_block`, `end_basic_block`, `dump_trace` |
| gen_nif compilation context | `src/gen_nif/src/lib.rs` | the LLVM module, the prototype cache `protos`, `loc_id` | `new`, `gen_proto`, `get_fun_value`, `build_function`, `print_ir`, `write_bitcode` |
| gen_nif wasm types | `src/gen_nif/src/target/wasm/types.rs` | LLVM type and function handles | `WasmTypes::new` |

### How the parts interact

* The builders (not among the sources) are the only code that adds blocks,
  edges and phi nodes. Passes then call `remove_edge` and `remove_block`.
  Everything is single-threaded and synchronous: one owner mutates one
  graph, and a call either runs to its end or panics.
* The interpreter reads a finished graph: `do_reduction` executes the block
  a frame points at and resolves the *slot* the block's operation chose to a
  block with `branch_slots`. A call pushes a frame; a return leaves its
  value in `return_val`, which the caller's frame consumes on the process's
  next reduction. `CaseContext` is the state of one `case` between the
  blocks that drive it (match a clause, wait for its guard, resume).
* The interpreter reports to the trace collector, which keeps one call stack
  per process and relies on `set_pid` being called when the scheduler
  switches processes.
* gen_nif reads finished functions and caches one LLVM prototype per
  function identifier. The code that emits a function asks for the
  prototypes of the functions it calls (`gen_proto`), so a function may be
  declared long before `build_function` gives it a body.
* A `_mut` walk hands the function to its visitor at every value, so the
  visitor's changes happen between two steps of the walk.

### What is hard

Nothing is persisted and nothing times out. The graphs, a process and a
case are each mutated by one owner; the only state threads share is the VM
id counter of the trace collector, behind a mutex. The interpreter's
processes take turns on one thread, so what interleaves is their blocks,
not their instructions. The hard behaviour is of four kinds.

* *Long sequences of legal calls.* `remove_edge` and `remove_block` each
  touch up to three containers (the source's `outgoing`, the target's
  `incoming`, the target's phi nodes). Parallel edges between the same two
  blocks, self-loops and removals that cascade (a block loses its last
  predecessor, is removed, and thereby takes edges away from its successors)
  are the cases a unit test of one call does not reach.
* *Positions that must stay in step.* Branch slots are positions in
  `outgoing`; phi entries are found by tag and removed by position; argument
  values carry their position; the validator counts reads and compares with
  the size of a set.
* *Several steps of a protocol.* `return_val` is written by one reduction
  and read by the next one of another frame; `MatchState` is driven by three
  different blocks of the program; the trace collector's per-process stacks
  are pushed and popped by interleaved processes; the prototype cache is
  filled by two functions in an order the compiled program decides.
* *A callback in the middle of a loop.* The `_mut` walks read the length of
  a list, then call the visitor with the whole function between two
  fetches.

`PROJECT.json` lists each hazard at its line.

### Properties that make each part correct

| Part | Properties |
|---|---|
| eir `FunctionCfg` | the edge table and both adjacency lists describe the same graph; every phi node has exactly one entry per incoming edge; every call is a step of the abstract block graph (edges that stay keep their ends, their values and their slot order); the entry block stays |
| legacy lir `FunctionCfg` | every call is a step of the same abstract block graph, although the phi entries are tagged with blocks |
| libeir_ir `Function` | an argument value names its block and position; no two primops are structurally equal, and no two values stand for the same expression; the walks end and visit what is reachable; a `_mut` walk that was called returns, or its visitor replaced the reads it walks; a `_mut` walk visits what the read-only walk visits while its visitor adds to the function; the validator accepts what the builder builds |
| process | a frame is `InCall` iff it is below the top or a return value is pending for it; a frame moves along the edges of its graph; a return value is consumed by the frame that made the call, comes from the function that call named (its lambda included), and is written where the call said; a block finds every variable it reads in its frame, across calls, returns, tombstones and suspensions; a call of `run_reductions` on a program without a loop or a recursion comes back, with the process at its end or suspended |
| case matching | `match_node` agrees with structural matching; the guard sees the bindings of its clause; `do_body` answers the first clause that matches and never offers a clause twice |
| trace collector | the stack of a pid is the stack of that process's open calls; the dump never ends on a lane what was not begun there |
| gen_nif | one LLVM function per function identifier, the one the cache gives, whatever the order of `gen_proto` and `get_fun_value`; `build_function` emits the functions of its name and arity, declared before or not, and no other |

## 2. Plan

| # | Module | State |
|---|---|---|
| 1 | `CfgGraph`, `EirCfg` - the eir `FunctionCfg` | done, run `eir_cfg` |
| 2 | `LirCfg` - the legacy `FunctionCfg` | done, runs `lir_cfg`, `lir_parallel_edges` |
| 3 | `IrFunction` - the libeir_ir arenas, primop pool, walks, validator | done, runs `ir_graph`, `ir_primops`, `ir_validate_duplicate_read` |
| 4 | `BlockGraph` - the abstract graph of the specification | done: implemented by `EirCfg` (run `eir_cfg`) and, without parallel edges, by `LirCfg` (runs `lir_cfg`, `lir_parallel_edges`) |
| 5 | `CaseMatch` - `MatchState`, `CaseContext`, `match_node` | done, runs `case_terms`, `case_clauses`, `case_last_guard_fails` |
| 6 | `Process` - `do_reduction`, `run_reductions`, `make_call_stackframe`, `StackFrame::read/write/tombstone` | done, run `process` (safety and termination) |
| 7 | `TraceCollector` - the collector and the processes that report to it | done, run `trace` |
| 8 | `GenNif` - the prototype cache of `CompilationContext` | done, run `gen_nif` |
| 9 | `IrWalk` - the `_mut` walks with a visitor that changes the function | done, run `ir_primops` (safety and the return of the walk) |

What is left, in order:

1. A run of its own for the budget of `run_reductions` (section 4, "Other
   departures"): the property that a call runs at most `reductions` blocks
   fails on the first call, and is recorded without a run so far.
2. Two threads in `TraceCollector` once the VM id is used for anything: the
   collectors are thread-locals and share only the counter `gen_vm_id`
   reads.

## 3. Modules

A panic of the code (an index that is not there, a failed `assert!`, an
`unwrap` of `None`, `unreachable!`) ends the program. In every module it is
the guard of the action: the step does not exist. In `process` a
reachable panic would show as a deadlock: while control is in the loop of
`run_reductions` nothing but `do_reduction` can take a step. Elsewhere a
property says the guard holds when the call is due.

Definitions whose name ends in a suffix after `_` (`Removable_EntryToo`,
`Write_Skip`, ...) are the mutated forms of the definition they precede:
what the code would be with a plausible bug. No specification uses them;
`PROJECT.json` pairs each with the property that must catch it.

### `CfgGraph` - the graph container

`util::graph::Graph` is not among the sources. `GraphAddNode`,
`GraphAddEdge`, `GraphRemoveEdge`, `GraphRemoveNode` and the edge table
(`EdgesWith`, `EdgesWithout`) are written from the specification and from
the fields `FunctionCfg` reads: a node container has `inner`, `outgoing` (a
sequence of (edge, target) pairs, in slot order) and `incoming` (a set of
(edge, source) pairs); an edge container has `from` and `to`.

### `EirCfg` - `src/eir/src/cfg/mod.rs`

| Model | Code |
|---|---|
| `entry` | `FunctionCfg.entry` |
| `nodes[l]` = `[inner, outgoing, incoming]` | the node container of label `l`; `inner.phi_nodes` are the phi nodes of the `BasicBlock` |
| `edges[e]` = `[from, to]` | the edge container of label `e` |
| `issued` | the labels the graph has handed out; a label is never issued twice |
| `Init` | `FunctionCfg::new` |
| `RemoveEdge(lbl)` | `remove_edge`: strips the entry tagged `lbl` from every phi node of the target (`StripPhiEntries`, guard `PhisHaveEntry`), then `graph.remove_edge` |
| `RemoveBlock(lbl)` | `remove_block`: the two assertions (`Removable`), the loop over the outgoing edges (`StripOutgoing`), then `graph.remove_node` |
| `BranchSlots(lbl)` | `branch_slots` |
| `AddBlock`, `AddEdge`, `AddPhi` | the builder, from the specification: a new edge adds an entry to every phi node of its target, a new phi node has an entry for every incoming edge, the entry block is never a target |

Left out of the state: `ops`, `args`, `ssa_gen`, `Phi.ssa` and
`BasicBlockEdge.writes`. No operation of the file reads them.

### `BlockGraph` - the abstract graph

The graph as the specification describes it, without storage: live blocks,
edges with an identity and two ends, phi nodes as functions from incoming
edges to values, the order of the edges that leave a block, and the answer
of `branch_slots`. Its actions are the contracts: `NewBlock`, `NewArc`,
`NewPhi`, `RemoveArc`, `RemoveBlock`. A removal is defined once (`Without`):
the edges that stay keep their ends, their bindings and their order.

`EirCfg` instantiates it (`Abs == INSTANCE BlockGraph WITH ...`). The
mapping reads the abstract state off the containers: the binding of a phi
node from its entry list (`Binding`), the order from the tags of `outgoing`,
the slots from `BranchSlots`, the used labels from `issued`.
`RefinesBlockGraph == Abs!Spec` says every step of `EirCfg` is a step of
`BlockGraph` or changes nothing of it.

`LirCfg` instantiates it as well. Its phi entries carry the source block
and no edge, so its `Binding` has to say which edge an entry belongs to: the
entries of one source block, in the order they stand in the phi node, are
bound to the edges from that block, in the order the edges were made (a new
edge appends its entry, `remove_edge` takes the first). An entry that is
left over when its block has fewer edges than entries is a binding of an
edge that does not exist, which no step of `BlockGraph` produces.

The actions of `BlockGraph` put their cheap conjuncts first and choose the
new bindings last (`phis' \in {...}`): TLC evaluates the mapping of an
instance anew for every conjunct that names a variable.

### `LirCfg` - `src/compiler/src/ir/lir/cfg/mod.rs`

The same state as `EirCfg`, with two differences that are the code's: a phi
entry is a (source block, value) pair and `remove_edge` removes the first
entry whose block is the source of the edge; `remove_block` has no body
(lines 76 to 95 are commented out), so `RemoveBlock` changes nothing of the
graph. One history variable: `removed`, the labels `remove_block` was
called with (a pass calls it once for a dead block). The constant
`ParallelEdges` says whether the builder may join two blocks by more than
one edge. What the phi entries must be is said by `BlockGraph`, under the
mapping described above.

### `IrFunction` - `src/libeir_ir/src/function/mod.rs`

| Model | Code |
|---|---|
| `blocks`, `values`, `primops` (sequences) | the arenas; an entity is its index |
| `entry_block`, `constant_values` | the fields of the same name |
| `BlockInsert`, `BlockArgInsert(b)` | `block_insert`, `block_arg_insert` |
| `AuxEq` | the structural equality of `PrimOpData` the pool deduplicates by |
| `ValueWalk`, `PrimopWalk`, `BlockWalk` (recursive) | the nested-value walks |
| `GraphValidateBlock`, `GraphValidateGlobal` | the validator, as a state predicate |
| `ValueArgument`, `ValueBlock`, `ValueConst`, `ValuePrimop`, `BlockArgN`, `IsKind`, `ValueIsConstant`, `BlockArgs`, `BlockReads`, `BlockKind`, `PrimopReads` | the accessors of the same names |
| `KArgument`, `KBlock`, `KConst`, `KPrimOp` | `ValueKind` of the module `value` (not among the sources), from the specification |
| `SetEntry`, `InternConstant`, `PrimOpHit`, `PrimOpMiss`, `SetOpAndReads` | the builder, from the specification |

`last_insert` is a history variable: what the last primop insert was asked
for and which primop it gave. `Denotes(v)` is the expression a value stands
for: its operator and, in turn, what its operands stand for.
`SharingIsTransitive` says that two values that stand for the same
expression are one value. `aux_eq` compares operands by identity, so this
holds only because every operand was shared before the primop that reads
it was looked up, and because a hit gives back the value the primop
already has. `DistinctBlockReads` says whether the builder
may name one block twice in one read list.

### `IrWalk` - the `_mut` walks of `src/libeir_ir/src/function/mod.rs`

`block_walk_nested_values_mut`, `value_walk_nested_values_mut` and
`primop_walk_nested_values_mut` call `visit(self, value)` with the function
borrowed mutably, so the walk is a machine of its own here, over the state
of `IrFunction` (`F == INSTANCE IrFunction`).

| Model | Code |
|---|---|
| `walk`, a stack of loops `[over, of, n, len]` | the loop of `block_walk_nested_values_mut` and, above it, the loops of the `primop_walk_nested_values_mut` calls the walk is in; `len` is the length read before the loop (`let len = ...`), `n` the loop counter |
| `BlockWalkMut(b)` | the call, up to its loop |
| `WalkTurn` | one turn of the innermost loop: the `n`-th read is fetched from the function *as it is now* (`ReadsOf`; the guard is the `unwrap` and the index), visited, and walked into (`ValueWalkMut`, `PrimopWalkMut`); `Turned` is the counter after the turn |
| `WalkReturn`, `WalkDone` | a loop ends; the walk returns |
| `Visit` | the visitor, after it was called at least once: any step of the builder (`F!Next`) |
| `Build` | the builder between walks |

`WalkTurn` takes the fetch, the call of the visitor and the test of the
value's kind as one step, and lets the visitor act in the steps after it
(`Visit`). In the code the visitor acts before the kind is tested and the
length of the primop's reads is taken; the outcome is the same, because the
kind of a value and the reads of a primop never change once they exist.

`visited`, `changes` and `touched` are history variables: the values the
visitor was called with, the number of changes it made, and whether it
replaced the reads of the block that is walked. `FairSpec` adds weak
fairness of `WalkTurn`, `WalkReturn` and `WalkDone`; `WalkEnds` is checked
under it.

### `CaseMatch` - `src/interpreter/src/pattern.rs`

| Model | Code |
|---|---|
| `state` (`MatchClause(n)`, `GuardWait(n)`, `Finished`) | `MatchState` and its `into_*` transitions (`IntoBody` is `into_body`) |
| `vars`, `clauses`, `last_binds` | the fields of `CaseContext` |
| `MatchNode` (recursive, with `MatchList`, `MatchTuple`, `MatchEach`, `ListRest`, `Bind`, `LitTerm`) | `match_node`, arm by arm and in the order of the arms; its answer is `match`, `fail` or `unimplemented` (the arm for a list whose first group is shorter than the pattern's head) |
| `Init` | `CaseContext::new` for every choice of values and clauses |
| `DoBody` (`DoBodyFrom`, recursive; `Left`, `Panicked`, `Answer`) | `do_body`: the index and the assertion first, then the match of the clause, then the call of itself on the next clause; `Left` is the state it leaves with its answer, `Panicked` the index or the assertion that fails |
| `GuardOk`, `GuardFail` | `guard_ok`, `guard_fail`: the assertion on the state and the transition, on any clause |
| `ClauseNum`, `CaseValues` | `clause_num`, `case_values` |

Terms and pattern nodes are records; atoms and integers are a few model
values; a list term is a group of elements and a tail, as the interpreter
keeps it. `last_call` is a history variable: the clause number `do_body` was
entered with and its answer. The reference definitions the properties
compare with (`RefMatch`, `RefBinds`, `Canon`, `Elems`) match element by
element on the flattened list.

### `Process` - `src/interpreter/src/process/mod.rs`

| Model | Code |
|---|---|
| `stack`, `return_val` | the fields of `ProcessContext` |
| `modules` (`Program`) | `VMState.modules`, which every call gets and none changes: one of the programs of the constant `Programs` |
| a frame `[type, function, variables, state, basic_block, prev_basic_block]` | `StackFrame`; a native frame is `[type, function, args]` |
| `Init` | `ProcessContext::new` |
| a function `<<name, arity, lambda>>` | `FunctionIdent`; the module of a function is part of its name |
| `NativeKey`, `IsNative` | the key `(name, arity)` of the native overlay and of a native module, and `contains_key` on it |
| `MakeCallStackframe`, guard `CanCall` | `make_call_stackframe` and its assertions: the overlay is asked first, by name and arity; the Erlang function is found by its whole identifier |
| `Resumed`, `TakeReturn` (`Handed`, `Outcome`) | the first part of `do_reduction`: a pending return value is written to the variable, and the frame moved to the label, of the matching outcome; a throw from a native function is replaced by the term the code puts in its place |
| `Write`, `CanRead`, `Tombstone` | `StackFrame::write`, `read` (it panics on a variable that is not in the frame and on a literal other than an atom, an integer or nil) and `tombstone` |
| `Block`, `Ran`, `ExecBlock(r)` | the call of `exec_block` in `do_reduction`: the block of the resumed frame reads its sources, writes the variables it defines, tombstones those that die in it and answers `r` |
| `ReduceBranch`, `ReduceCall`, `ReduceReturn`, `ReduceSuspend` | `do_reduction` for each `BlockResult`, the push or pop at its end included |
| `ReduceNative`, `ReduceIdle` | `do_reduction` on a native frame, on an empty stack |
| `RunReductions(reductions)` | `run_reductions` up to its loop; `running` says control is in the loop; each turn of the loop is one `Reduce` step |
| `Spawn` | the VM pushes the first frame (not among the sources) |

`exec_block` is not among the sources. A program gives every block the
sources it reads (`Variable(v)` or `Constant(lit)`), the variables it
writes, the variables it tombstones, and the set of results its execution
may have, of which the model picks one; a native function has the set of
values it may return. A block reads before it writes and tombstones last; a
block that suspends keeps what it wrote and is run again when the process is
resumed. A program that lists more results for a block has every behaviour
of one that lists fewer. The graphs
of the programs in `MCProcess` are built with `GraphAddEdge`, so the slots
of a block are what `branch_slots` answers. `returned_by` is a history
variable: the function whose code wrote `return_val`, for a native frame
the native function of its name and arity. The programs are assumed to
hold no lambda with the name and arity of a native function
(`NoLambdaShadowed`); see "Other departures" below.

`run_reductions` declares `reduction_counter` and never increments it, and
reads the length of the stack once: its loop ends only when `do_reduction`
answers true (a suspension or an empty stack). `RunReductions` models that:
the argument matters only by being zero or not.

### `TraceCollector` - `src/interpreter/src/trace/trace.rs`

| Model | Code |
|---|---|
| `vm_id_counter`, `vm_id[t]`, `collector[t]` | `VM_ID_COUNTER` and the thread-locals `VM_ID`, `TRACE_COLLECTOR` |
| `collector[t]` = `[current_pid, pid_stacks, events]` | `TraceCollector` |
| `GenVmId(t)` | `gen_vm_id` (the counter is read and left as it is) |
| `WithPid`, `Entered`, `Exited` (guard `CanExit`), `BlockStarted`, `BlockEnded` | `set_pid`, `enter_function`, `exit_function` and its assertions, `start_basic_block`, `end_basic_block` |
| `DumpTrace(t)`, `DumpEntry` | the entries `dump_trace` makes: begin or end, the index as time stamp, the pid, lane 0 for calls and 1 for blocks |
| `SetPid`, `EnterFunction`, `ExitFunction`, `StartBasicBlock`, `EndBasicBlock` | the interpreter (not among the sources): the scheduler sets the pid between two blocks, a process reports a call when it makes one and a return from the call it is in |

`calls`, `scheduled` and `in_block` are the interpreter's side: the calls
each process has open, the process that runs, and whether a block of it is
running.

### `GenNif` - `src/gen_nif/src/lib.rs`

| Model | Code |
|---|---|
| `protos` | `Data.protos`: identifier -> `FunctionValue` |
| `module` | the functions of `Data.module` (the LLVM module), in the order they were declared; a `FunctionValue` is a position in it |
| `loc_id` | `Data.loc_id` |
| `Init` | `CompilationContext::new` |
| `GenProto(fun)` (`GenProtoIn`) | `gen_proto`: nothing for a lambda or a cached identifier |
| `GetFunValueIn` | `get_fun_value`: the cached function, or a new prototype |
| `BuildFunction(name, arity)` | `build_function`: the filter (`Funs`), the first loop with its dialect assertion and `get_fun_value`, the second loop with `emit_fun` |
| `Declare`, `Emit` | the target's `gen_prototype` / `gen_prototype_pub` and `emit::emit_fun`, which are not among the sources: a prototype is a new function of the LLVM module and records which of the two generators made it (`from`); `emit_fun` gives the function a body (`bodies` counts them) and may move `loc_id` on |

`Functions` is `EirModule.functions` (identifier -> dialect), `Idents` the
identifiers `gen_proto` may be called with, those of other modules among
them. `builds` is a history variable: the calls of `build_function` for each
name and arity.

## 4. Runs

| Run | Module, configuration | Checks | Result |
|---|---|---|---|
| `eir_cfg` | `MCEirCfg`, `MCEirCfg.cfg` | `TypeOK`, `AdjacencyConsistent`, `PhiEntriesMatchIncoming`, `RefinesBlockGraph` | pass, 62,558 states |
| `lir_cfg` | `MCLirCfg`, `MCLirCfg.cfg` | `TypeOK`, `RefinesBlockGraph` | pass, 93,338 states |
| `lir_parallel_edges` | `MCLirCfg`, `MCLirCfgParallel.cfg` | `RefinesBlockGraph` | violated, as expected |
| `ir_graph` | `MCIrFunction`, `MCIrGraph.cfg` | `TypeOK`, `ValuesNameEntities`, `ValidatorAccepts` | pass, 144,232 states |
| `ir_primops` | `IrWalk`, `MCIrPrimOps.cfg` | `TypeOK`, `PrimOpSharing`, `SharingIsTransitive`, `WalkVisitsReachable`, `MutWalkMatchesWalk`, `WalkEnds` | pass, 289,378 states |
| `ir_validate_duplicate_read` | `MCIrFunction`, `MCIrValidate.cfg` | `ValidatorAccepts` | violated, as expected |
| `case_terms` | `MCCaseMatch`, `MCCaseTerms.cfg` | `TypeOK`, `MatchNodeAgrees`, `BindsCoverPattern` | pass, 159,665 states |
| `case_clauses` | `MCCaseMatch`, `MCCaseClauses.cfg` | `DoBodyAnswersFirstMatch`, `AnswersGrow` | pass, 33,490 states |
| `case_last_guard_fails` | `MCCaseMatch`, `MCCaseLastGuard.cfg` | `DoBodyCanRun` | violated, as expected |
| `process` | `MCProcess`, `MCProcess.cfg` | `TypeOK`, `CallStateMatchesStack`, `ControlFollowsEdges`, `ReturnIsFromCallee`, `ReadsAreBound`, `ReturnWrittenToCaller`, `Terminates`, deadlock | pass, 176 states |
| `trace` | `MCTraceCollector`, `MCTraceCollector.cfg` | `TypeOK`, `StacksMirrorCalls`, `DumpNests` | pass, 25,814 states |
| `gen_nif` | `MCGenNif`, `MCGenNif.cfg` | `TypeOK`, `DeclarationsAreCached`, `BodiesMatchBuilds` | pass, 9,361 states |

Run one with `tlc -workers 2 -config MCEirCfg.cfg MCEirCfg`. The longest
(`lir_cfg`, `ir_graph`, `ir_primops`) take about two minutes.

### What the passing runs show

* `eir_cfg`: no sequence of builder calls and removals makes `remove_edge`
  or `remove_block` leave a stale or a missing phi entry, an edge known to
  one container and not to another, or a slot out of order; the panics
  "Phi node was invalid!" and the `unwrap`s cannot happen after legal calls.
* `lir_cfg`: the legacy container implements the abstract block graph as
  long as no two edges join the same two blocks: `remove_edge` takes the
  binding of the edge it removes, and only that, out of every phi node.
* `ir_graph`, `ir_primops`: the arenas stay consistent, the validator
  accepts every function the builder makes as long as no operation reads
  one block twice, the pool never holds two equal primops, and
  the walks visit exactly the reachable values. Sharing reaches through
  nesting: whatever the order of the inserts, two values never stand for
  the same expression, although `aux_eq` only compares the operands of a
  primop by their identity. A `_mut` walk whose visitor
  inserts blocks, arguments, constants and primops, or replaces the
  operation of another block, visits exactly what the read-only walk
  visits, in the same order, and none of its loops runs past its list: the
  lengths the loops read at their start stay right because the arenas only
  grow and a primop never changes. A walk that was called returns: no
  change the visitor makes to other blocks, values or primops keeps a loop
  from reaching its length. The one exception is the visitor that replaces
  the reads of the block that is walked ("Other departures" below).
* `case_terms`: over 145 terms and 284 pattern nodes (nested tuples, lists
  in one and two groups, proper and improper, bindings at every depth)
  `match_node` decides as structural matching does whenever it answers, and
  binds what the pattern names.
* `case_clauses`: with up to three clauses and guards that fail, that of
  the last clause included, `do_body` skips no clause and offers none
  twice: the clause it leaves in `GuardWait` is the first, from the one it
  was entered with, that matches.
* `process`: with calls, a call of a lambda, a recursion, a native
  function, loops and suspensions, no panic of `do_reduction` or `make_call_stackframe` is
  reachable, and every return value reaches the frame and the variable of
  the call that asked for it, from the function that call named: the
  lambda 0 of `k/1` and the function `k/1` are told apart. No block reads a variable its frame does not
  hold: the arguments `make_call_stackframe` wrote, the result the
  reduction after a return wrote, and what earlier blocks wrote are there
  when they are read, a tombstone in one frame takes nothing from another
  frame of the same function, and a block that is run again after a
  suspension finds what it read the first time. On the program without a
  loop or a recursion every call of `run_reductions` comes back: the
  process is then at its end, with the value it returned, or in a block
  that suspended it.
* `gen_nif`: whatever the order of `gen_proto` and `build_function`, for
  functions, lambdas and identifiers of other modules, no identifier is
  declared twice, and `build_function` gives a body to exactly the
  functions of its name and arity, those `gen_proto` declared before among
  them. The dialect assertion is the only panic; a build that meets it
  is not a step of the model.
* `trace`: with two processes whose calls, returns and blocks interleave,
  the assertions of `exit_function` hold and the dump is well nested on
  every lane.

### What the failing runs show

* `lir_parallel_edges` (`src/compiler/src/ir/lir/cfg/mod.rs:62`): with two
  edges between the same two blocks the legacy `remove_edge` removes the phi
  entry of the edge that stays, which is no step of `BlockGraph`.
  Counterexample: add a block, two edges 0 -> 1 with different values, a
  phi node; remove the second edge.
* `ir_validate_duplicate_read` (`src/libeir_ir/src/function/mod.rs:336`):
  `graph_validate_block` counts block-valued reads with multiplicity and
  compares with the size of the successor *set*; an operation that reads
  one block twice fails the assertion on a consistent graph.
* `case_last_guard_fails` (`src/interpreter/src/pattern.rs:162`):
  `guard_fail` on the last clause leaves `MatchClause(len)`, and the next
  `do_body` indexes `clauses[len]` before its bound check; the same case
  answers 0 when the last clause fails by its pattern.

The passing runs of the two graph components keep the builder away from
these cases by a constant (`ParallelEdges`, `DistinctBlockReads`); the
failing runs set it the other way. The runs of `CaseMatch` differ by their
property only: in all three the guard of the last clause may fail, and the
case then has no further step. That `do_body` can always run when it is
due (`DoBodyCanRun`) is claimed in the failing run and nowhere else.

### Other departures of the code, visible in the model

These need no search; the action that models the code shows them.

* `src/compiler/src/ir/lir/cfg/mod.rs:75`: the legacy `remove_block` does
  nothing (`LirCfg!RemoveBlock` leaves the graph unchanged; under the
  refinement mapping it is a step that does not change the abstract graph).
* `src/interpreter/src/process/mod.rs:285`: `run_reductions` does not count
  reductions, so its budget bounds nothing (`Process!RunReductions`).
* `src/interpreter/src/process/mod.rs:93`: `make_call_stackframe` asks the
  native overlay for the name and the arity of the identifier and leaves
  the lambda out, while the functions of the module are searched by the
  whole identifier. A call of a lambda whose name and arity are those of an
  overlaid function gets the native frame (`Process!IsNative`). A program
  with the native `g/1` and a lambda 0 of `g/1` violates
  `ReturnIsFromCallee` in five steps: the caller of the lambda is handed
  what the native function answered. Which functions an overlay holds is
  decided by the VM, which is not among the sources, so the programs of the
  run are assumed to have no such lambda.
* `src/interpreter/src/trace/trace.rs:45`: `gen_vm_id` does not increment
  the counter, so every thread gets the VM id 0 (`TraceCollector!GenVmId`).
* `src/libeir_ir/src/function/mod.rs:309`: a visitor that replaces the
  operation of the block that is walked makes the length read at line 307
  stale. With a shorter read list the `unwrap` panics (the guard of
  `IrWalk!WalkTurn` is false and the walk has no step); with a longer one
  the walk ends before the new reads. Both states are reachable in
  `ir_primops`; `MutWalkMatchesWalk` is stated for walks whose visitor
  leaves those reads alone (`touched` is false).
* `src/gen_nif/src/lib.rs:116`: a second `build_function` for the same name
  and arity emits a second body into the same LLVM function
  (`BodiesMatchBuilds` counts the bodies against the calls).

### Bounds

* `eir_cfg`, `lir_cfg`: `MaxNodes = 3`, `MaxEdges = 4`, `MaxPhis = 1`, two
  values. Labels are never reused, so the bounds are on labels *issued*.
  Three blocks and four edges give: two parallel edges, a self-loop, a
  block with two predecessors, a chain entry -> A -> B whose removal
  cascades, and an unreachable cycle A <-> B that only `remove_edge` can
  break. One phi node per block is enough because the code treats every phi
  node of a block alike; two values are enough because values are only
  copied and compared. The values are a symmetry set.
* `ir_graph`: two blocks, four values, read lists of up to two values, one
  primop: blocks that read each other, themselves and a primop, operations
  replaced. `ir_primops`: one block, four values, two primops of two
  operators: a primop of a primop, equal and different operand lists.
  `MaxWalked = 3`: a walk starts on a function of at most three values, so
  that the visitor has room for one more; `MaxVisitorOps = 1`: the visitor
  changes the function once during a walk, at any of its steps. One change
  is enough to move every list a loop of the walk could be reading. The
  run has no symmetry set, because it checks a liveness property.
* `case_terms`: one value, one clause, the "deep" terms and nodes of
  `MCCaseMatch`. `case_clauses`: two values, up to three clauses, three
  terms and three nodes chosen so that clauses match, fail and make
  `match_node` give up.
* `process`: the programs `Mixed` (no loop and no recursion; five
  functions, a lambda with the name and arity of one of them, calls whose
  slots are swapped, a native function that returns or throws, a
  suspension; its stack never holds more than four frames), `Dataflow` (blocks that read the result of a call, a
  constant and a variable written before the call, a block that suspends
  after writing and is run again, a variable tombstoned on one path only, a
  recursive callee each of whose frames tombstones its own copy of a
  variable) and `Looping` (a block that calls and comes back to itself,
  a self-loop in the callee, a suspension inside the loop) of `MCProcess`,
  `MaxStack = 5` (the recursion of `f` in `Dataflow` reaches it; a block
  that calls may also go on without the call, so a full stack stops
  nothing; the code has no such limit, and `Terminates` is claimed for
  `Mixed` only, which stays below it), budgets 0, 1 and 2.
* `trace`: one thread, pids 0 and 1, two functions (a symmetry set), calls
  two deep, six events: both processes can have a call open with a block
  running in between.
* `gen_nif`: the functions `f/1`, a lambda of `f/1`, `f/2` (all CPS) and
  `h/0` (not CPS, so its build panics), and the identifier `g/1` of another
  module; `MaxBuilds = 2` builds for each name and arity, `MaxLoc = 2`. The
  set holds every case the code tells apart: a lambda, two arities of one
  name, an identifier without a function, a function of the wrong dialect,
  a build after a declaration and a second build.

Deadlock checking is off for the graph modules and for `CaseMatch`: a graph
is a library, and a state in which every label has been issued and nothing
is left to remove, or a case that has finished, is a legal place to stop.
It is on for `Process`, where a state without a step would be a panic of
`do_reduction`. It is on for `TraceCollector` and `GenNif` as well, but
shows nothing there: `gen_vm_id` and `gen_proto` can always be called, so
no state is without a step. That the assertions of `exit_function` hold
when a process returns follows from `StacksMirrorCalls` (the stack of the
pid holds the call that ends, on top); the dialect assertion of
`build_function` is a guard and no more.

### Fairness

`WalkEnds` of run `ir_primops` is checked under `IrWalk!FairSpec`: weak
fairness of `WalkTurn`, `WalkReturn` and `WalkDone`. A walk is a function
call on one thread: once it is called its loops run on, turn after turn,
until they return or panic, and nothing else runs in between but the
visitor the walk itself calls. No fairness is assumed of the visitor or of
the builder. A turn that panics (the `unwrap` of a read that is no longer
there) is a state without a `WalkTurn` step; it can only follow a
replacement of the reads that are walked, which is why `WalkEnds` excepts
`touched`.

`Terminates` of run `process` needs fairness too (`Process!FairSpec`): weak
fairness of `Reduce`, and of nothing else. The loop of `run_reductions`
calls `do_reduction` again as long as it answers false, on one thread and
with nothing in between; a turn of the loop is enabled for as long as
`running` holds, so weak fairness is enough. Nothing is assumed of the VM,
which is not among the sources: it may never start a process and never
run one again that was suspended. `Terminates` is therefore about one call
of `run_reductions`: once control is in its loop it comes back, with the
process at its end or in a block that suspended it. It is claimed for the
programs of `Terminating` only (`Mixed`); in a loop or a recursion the call
may go on for ever, since `run_reductions` does not count. The safety
properties of the run do not depend on fairness.

## 5. Not modelled

* `WasmTypes::new` (`src/gen_nif/src/target/wasm/types.rs`): it declares
  five runtime functions and an opaque type in an LLVM module and returns
  the handles. It has no branch and no state that changes, and
  `CompilationContext` does not use it (its types are `NifTypes`).
* `inner_mut`, `print_ir`, `write_bitcode` of `CompilationContext`: they
  change nothing of the context. Lines 144 to 295 of `lib.rs` are commented
  out: more than half of the file is no code.
* The terms `StackFrame::read` answers: a variable holds the model value
  `"v"` or the term a call handed back, and a constant is told apart only
  by its kind; the parse of an integer literal's digits is left out, since
  no step of `process/mod.rs` depends on the term.
* `Process` composed with `CaseMatch` and `TraceCollector`: the calls of
  `do_body`, `guard_ok`, `guard_fail` and of the trace functions are made
  by `exec_block` and the VM, not by the code of `process/mod.rs`; a
  composition would check orders of calls that are the model's own. Each of
  the two is checked against every order of calls that does not panic
  instead.
* `Function::ident`, `entry_arg_num`, `block_entry`, `block_span`, `pat`,
  `cons`, `to_text`, the `GeneralSet` wrappers: read-only, and not used by
  any operation that is modelled.
* The text and the file of `dump_trace`, `println!` output everywhere.
* `exec_block`, the VM, the builders, the LLVM target and the graph
  container are not among the sources; what the models assume of them is
  stated in section 3.
