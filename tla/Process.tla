------------------------------- MODULE Process -------------------------------
(***************************************************************************)
(* One process of the interpreter: ProcessContext and StackFrame of        *)
(* src/interpreter/src/process/mod.rs.                                     *)
(*                                                                         *)
(* A process is a stack of frames and the slot return_val.  do_reduction   *)
(* runs one basic block of the top frame: it first hands a pending return  *)
(* value to the frame, then executes the block and acts on its result (a   *)
(* branch to a slot, a call, a return, a suspension).  run_reductions      *)
(* calls do_reduction until it says stop.                                  *)
(*                                                                         *)
(* The program is what the VM has loaded (VMState.modules, which every     *)
(* call gets and none changes).  What a block does (exec_block) is not     *)
(* part of the sources at hand: a block of the program lists the sources   *)
(* it reads, the variables it writes and those it tombstones, and the      *)
(* results its execution may have, of which the model picks one.  A        *)
(* function is named by <<name, arity, lambda>> (FunctionIdent); the       *)
(* module of a function is part of its name.                               *)
(* A panic of the code is the guard of the action.                         *)
(***************************************************************************)
EXTENDS Naturals, Sequences, FiniteSets, SequencesExt

CONSTANTS
    Programs,   \* the programs a VM may have loaded (see ProgramOK)
    Terminating,    \* those of them without a loop or a recursion
    Main,       \* the function a process is started with
    Budgets,    \* the budgets run_reductions may be called with
    MaxStack,   \* bound: the most frames on the stack
    None        \* Option::None

VARIABLES
    modules,        \* VMState.modules: function -> its code
    stack,          \* ProcessContext.stack
    return_val,     \* ProcessContext.return_val
    started,        \* history: the first frame was pushed
    running,        \* control is in the loop of run_reductions
    returned_by     \* history: the function that wrote return_val

vars == <<modules, stack, return_val, started, running, returned_by>>

Program == modules

\* BlockResult, as a block of the program lists it.
\*   [kind |-> "Branch", slot]
\*   [kind |-> "Call", fun, args, lambda, ok_ssa, ok_slot, throw_ssa,
\*    throw_slot]
\*   [kind |-> "Return", ret]       ret is a CallReturn
\*   [kind |-> "Suspend"]
\* CallReturn
Return(term) == [kind |-> "Return", term |-> term]
Throw        == [kind |-> "Throw"]

\* What the program must be: Erlang functions have a graph (its node
\* containers, as FunctionCfg keeps them), an entry, their arguments and
\* for each block what it reads, writes and tombstones and the results it
\* may have; native functions the values they may return.
ProgramOK(prog) ==
    \A f \in DOMAIN prog :
        \/ /\ prog[f].kind = "erlang"
           /\ prog[f].entry \in DOMAIN prog[f].nodes
           /\ DOMAIN prog[f].blocks = DOMAIN prog[f].nodes
           /\ \A b \in DOMAIN prog[f].blocks :
                 DOMAIN prog[f].blocks[b]
                    = {"reads", "writes", "kills", "results"}
        \/ /\ prog[f].kind = "native"
           /\ f[3] = None
           /\ prog[f].returns # {}

\* No lambda has the name and the arity of a native function.  Nothing in
\* make_call_stackframe sees to it: the programs checked are chosen so.
NoLambdaShadowed(prog) ==
    \A f \in DOMAIN prog :
        prog[f].kind = "native" =>
            \A g \in DOMAIN prog : g[1] = f[1] /\ g[2] = f[2] => g = f

ASSUME
    /\ \A prog \in Programs : ProgramOK(prog) /\ NoLambdaShadowed(prog)
    /\ Terminating \subseteq Programs
    /\ Budgets \subseteq Nat
    /\ MaxStack \in Nat \ {0}

-----------------------------------------------------------------------------
(***************************************************************************)
(* StackFrame                                                              *)
(***************************************************************************)

\* StackFrameState
Normal    == [tag |-> "Normal"]
InCall(o) == [tag |-> "InCall", outcomes |-> o]

\* The variable is not written.
Write_Skip(variables, ssa, term) == variables

\* StackFrame::write
Write(variables, ssa, term) == (ssa :> term) @@ variables

\* Source
Variable(var) == [src |-> "Variable", var |-> var]
Constant(lit) == [src |-> "Constant", lit |-> lit]

\* StackFrame::read answers: the variable is in the frame, or the literal
\* is an atom, an integer or nil (unimplemented!() for any other).
CanRead(variables, src) ==
    \/ src.src = "Variable" /\ src.var \in DOMAIN variables
    \/ src.src = "Constant" /\ src.lit \in {"Atom", "Integer", "Nil"}

\* StackFrame::tombstone
Tombstone(variables, ssa) == Restrict(variables, DOMAIN variables \ {ssa})

\* StackFrame::new
NewFrame(function, label) ==
    [type |-> "Erlang", function |-> function, variables |-> << >>,
     state |-> Normal, basic_block |-> label, prev_basic_block |-> None]

\* FunctionCfg::branch_slots of a block of function f
BranchSlots(f, lbl) ==
    [i \in DOMAIN Program[f].nodes[lbl].outgoing |->
        Program[f].nodes[lbl].outgoing[i][2]]

\* The slot number is taken for the label.
SlotTarget_Label(slots, slot) == slot

\* slots[slot]: slots are counted from 0.
SlotTarget(slots, slot) == slots[slot + 1]

-----------------------------------------------------------------------------
(***************************************************************************)
(* make_call_stackframe                                                    *)
(***************************************************************************)

\* The key of the native overlay and of a native module: the name and the
\* arity of the identifier, without its lambda.
NativeKey(f) == <<f[1], f[2], None>>

\* functions.contains_key(&(name, arity)) of the overlay or native module
IsNative(f) ==
    NativeKey(f) \in DOMAIN Program /\ Program[NativeKey(f)].kind = "native"

\* The assertions and unwraps of make_call_stackframe hold: a function
\* that is not native is found by its whole identifier.
CanCall(f, args) ==
    /\ f[2] = Len(args)
    /\ \/ IsNative(f)
       \/ /\ f \in DOMAIN Program
          /\ Program[f].kind = "erlang"
          /\ Len(Program[f].args) = Len(args)

\* The frame make_call_stackframe answers.
MakeCallStackframe(f, args) ==
    IF IsNative(f)
    THEN [type |-> "Native", function |-> f, args |-> args]
    ELSE [NewFrame(f, Program[f].entry) EXCEPT !.variables =
            FoldLeftDomain(LAMBDA vs, i : Write(vs, Program[f].args[i], args[i]),
                           << >>, args)]

-----------------------------------------------------------------------------
(***************************************************************************)
(* do_reduction                                                            *)
(***************************************************************************)

Top == stack[Len(stack)]

\* What a thrown value is replaced by.
ThrowReplacement == "nil_nil"

\* What the caller gets for a return value: the term, or the replacement
\* of a thrown one.
Handed(ret) == IF ret.kind = "Return" THEN ret.term ELSE ThrowReplacement

\* The frame at the label of the outcome of its call, with term in the
\* variable of that outcome.
Outcome(frame, ret, term) ==
    LET o  == frame.state.outcomes
        ok == ret.kind = "Return"
    IN  [frame EXCEPT
            !.prev_basic_block = frame.basic_block,
            !.basic_block = IF ok THEN o.ret_ok_label ELSE o.ret_throw_label,
            !.variables = Write(@, IF ok THEN o.ret_ok_ssa
                                         ELSE o.ret_throw_ssa, term)]

\* The frame stays in its call.
TakeReturn_StaysInCall(frame, ret) == Outcome(frame, ret, Handed(ret))

\* The replacement is written for a returned term as well.
TakeReturn_Replaced(frame, ret) ==
    [Outcome(frame, ret, ThrowReplacement) EXCEPT !.state = Normal]

\* "If we were in a call, handle result": the frame goes on at the label
\* of the outcome, with the value in the variable of the outcome.
TakeReturn(frame, ret) ==
    [Outcome(frame, ret, Handed(ret)) EXCEPT !.state = Normal]

\* The top frame as the block finds it.
Resumed == IF return_val = None THEN Top ELSE TakeReturn(Top, return_val)

\* CallOutcomes of the call r with the labels ok and throw
Outcomes(r, ok, throw) ==
    [ret_ok_ssa |-> r.ok_ssa, ret_ok_slot |-> r.ok_slot, ret_ok_label |-> ok,
     ret_throw_ssa |-> r.throw_ssa, ret_throw_slot |-> r.throw_slot,
     ret_throw_label |-> throw]

\* Only the label of the normal return is filled in.
FillLabels_OkOnly(r, slots) == Outcomes(r, SlotTarget(slots, r.ok_slot), None)

\* The CallOutcomes of a call, with the labels its slots stand for.
FillLabels(r, slots) ==
    Outcomes(r, SlotTarget(slots, r.ok_slot), SlotTarget(slots, r.throw_slot))

\* The caller goes with the callee.
Pop_Two(stk) == SubSeq(stk, 1, Len(stk) - 2)

\* stack.pop()
Pop(stk) == SubSeq(stk, 1, Len(stk) - 1)

\* The block the top frame is at.
Block == Program[Top.function].blocks[Resumed.basic_block]

\* The top frame as exec_block leaves it: the variables the block defines
\* are written, those that die in it are tombstoned.
Ran ==
    [Resumed EXCEPT !.variables =
        FoldSet(LAMBDA ssa, vs : Tombstone(vs, ssa),
                FoldSet(LAMBDA ssa, vs : Write(vs, ssa, "v"), @, Block.writes),
                Block.kills)]

\* do_reduction up to the result r of exec_block: the top frame is an
\* Erlang frame, its state fits return_val, its function and block exist,
\* and the block can read its sources.
ExecBlock(r) ==
    /\ running
    /\ stack # << >>
    /\ Top.type = "Erlang"
    /\ IF return_val = None THEN Top.state = Normal
                            ELSE Top.state.tag = "InCall"
    /\ Top.function \in DOMAIN Program
    /\ Program[Top.function].kind = "erlang"
    /\ Resumed.basic_block \in DOMAIN Program[Top.function].blocks
    /\ \A src \in Block.reads : CanRead(Resumed.variables, src)
    /\ r \in Block.results

\* BlockResult::Branch
ReduceBranch(r) ==
    LET slots == BranchSlots(Top.function, Resumed.basic_block)
    IN  /\ ExecBlock(r)
        /\ r.kind = "Branch"
        /\ r.slot < Len(slots)
        /\ stack' = [stack EXCEPT ![Len(stack)] = [Ran EXCEPT
                        !.prev_basic_block = Resumed.basic_block,
                        !.basic_block = SlotTarget(slots, r.slot)]]
        /\ return_val' = None
        /\ UNCHANGED <<modules, started, running, returned_by>>

\* BlockResult::Call, and the push of the callee's frame
ReduceCall(r) ==
    LET slots == BranchSlots(Top.function, Resumed.basic_block)
        f     == <<r.fun, Len(r.args), r.lambda>>
    IN  /\ ExecBlock(r)
        /\ r.kind = "Call"
        /\ r.ok_slot < Len(slots)
        /\ r.throw_slot < Len(slots)
        /\ CanCall(f, r.args)
        /\ Len(stack) < MaxStack
        /\ stack' = Append([stack EXCEPT ![Len(stack)] = [Ran EXCEPT
                                !.state = InCall(FillLabels(r, slots))]],
                           MakeCallStackframe(f, r.args))
        /\ return_val' = None
        /\ UNCHANGED <<modules, started, running, returned_by>>

\* BlockResult::Return, and the pop
ReduceReturn(r) ==
    /\ ExecBlock(r)
    /\ r.kind = "Return"
    /\ return_val' = r.ret
    /\ returned_by' = Top.function
    /\ stack' = Pop(stack)
    /\ UNCHANGED <<modules, started, running>>

\* BlockResult::Suspend: do_reduction answers true, run_reductions breaks.
ReduceSuspend(r) ==
    /\ ExecBlock(r)
    /\ r.kind = "Suspend"
    /\ stack' = [stack EXCEPT ![Len(stack)] = Ran]
    /\ return_val' = None
    /\ running' = FALSE
    /\ UNCHANGED <<modules, started, returned_by>>

\* StackFrameType::Native: the function runs and its frame is popped.
ReduceNative ==
    /\ running
    /\ stack # << >>
    /\ Top.type = "Native"
    /\ IsNative(Top.function)
    /\ return_val' \in Program[NativeKey(Top.function)].returns
    /\ returned_by' = NativeKey(Top.function)
    /\ stack' = Pop(stack)
    /\ UNCHANGED <<modules, started, running>>

\* do_reduction answers false on an empty stack.
ReduceIdle_GoesOn ==
    /\ running
    /\ stack = << >>
    /\ UNCHANGED vars

\* The stack is empty: do_reduction answers true, run_reductions breaks.
ReduceIdle ==
    /\ running
    /\ stack = << >>
    /\ running' = FALSE
    /\ UNCHANGED <<modules, stack, return_val, started, returned_by>>

\* The results the blocks of the program may have.
Results ==
    UNION {UNION {Program[f].blocks[b].results : b \in DOMAIN Program[f].blocks} :
              f \in {g \in DOMAIN Program : Program[g].kind = "erlang"}}

\* One turn of the loop of run_reductions.
Reduce ==
    \/ \E r \in Results : ReduceBranch(r)
    \/ \E r \in Results : ReduceCall(r)
    \/ \E r \in Results : ReduceReturn(r)
    \/ \E r \in Results : ReduceSuspend(r)
    \/ ReduceNative
    \/ ReduceIdle

\* run_reductions up to its loop: the condition is evaluated with the
\* counter at 0 and the length of the stack as it is now.
RunReductions(reductions) ==
    /\ ~running
    /\ started
    /\ running' = (0 < reductions /\ Len(stack) > 0)
    /\ UNCHANGED <<modules, stack, return_val, started, returned_by>>

\* The VM starts the process: it pushes the frame of a call of Main.
Spawn ==
    LET args == [i \in 1 .. Main[2] |-> "arg"]
    IN  /\ ~started
        /\ CanCall(Main, args)
        /\ stack' = <<MakeCallStackframe(Main, args)>>
        /\ started' = TRUE
        /\ UNCHANGED <<modules, return_val, running, returned_by>>

\* ProcessContext::new
Init ==
    /\ modules \in Programs
    /\ stack = << >>
    /\ return_val = None
    /\ started = FALSE
    /\ running = FALSE
    /\ returned_by = None

Next ==
    \/ Spawn
    \/ \E reductions \in Budgets : RunReductions(reductions)
    \/ Reduce

Spec == Init /\ [][Next]_vars

\* The loop of run_reductions calls do_reduction until it says stop.
\* Nothing is assumed of the VM: whether it starts a process, and whether
\* it runs one again that was suspended.
FairSpec == Spec /\ WF_vars(Reduce)

-----------------------------------------------------------------------------
(***************************************************************************)
(* Properties                                                              *)
(***************************************************************************)

Labels(f) == DOMAIN Program[f].nodes

ErlangFrames == {i \in DOMAIN stack : stack[i].type = "Erlang"}

\* The shape of the state.  The labels of the outcomes of a frame in a call
\* are filled in: do_reduction unwraps them when the call returns.
TypeOK ==
    /\ modules \in Programs
    /\ Len(stack) <= MaxStack
    /\ \A i \in DOMAIN stack :
          /\ stack[i].type \in {"Erlang", "Native"}
          /\ IF stack[i].type = "Native" THEN IsNative(stack[i].function)
             ELSE stack[i].function \in DOMAIN Program
    /\ \A i \in ErlangFrames :
          /\ stack[i].basic_block \in Labels(stack[i].function)
          /\ stack[i].prev_basic_block
                \in Labels(stack[i].function) \cup {None}
          /\ stack[i].state.tag \in {"Normal", "InCall"}
          /\ stack[i].state.tag = "InCall" =>
                /\ stack[i].state.outcomes.ret_ok_label
                      \in Labels(stack[i].function)
                /\ stack[i].state.outcomes.ret_throw_label
                      \in Labels(stack[i].function)
    /\ return_val = None \/ return_val.kind \in {"Return", "Throw"}
    /\ started \in BOOLEAN /\ running \in BOOLEAN

\* A frame is in a call exactly when a frame is above it or a return value
\* waits for it, and a native frame is only ever on top with no return
\* value waiting: what do_reduction checks of a frame's state before it
\* runs a block (a panic otherwise) holds whenever it looks.
CallStateMatchesStack ==
    /\ \A i \in DOMAIN stack :
          IF stack[i].type = "Erlang"
          THEN stack[i].state.tag = "InCall"
                  <=> (i < Len(stack) \/ return_val # None)
          ELSE i = Len(stack) /\ return_val = None

\* A frame only moves along the edges of its function's graph: it starts
\* at the entry, and the block it is at is one of the slots of the block it
\* was at before, whether a branch or the return of a call took it there.
ControlFollowsEdges ==
    \A i \in ErlangFrames :
        LET f == stack[i].function
        IN  IF stack[i].prev_basic_block = None
            THEN stack[i].basic_block = Program[f].entry
            ELSE stack[i].basic_block
                    \in ToSet(BranchSlots(f, stack[i].prev_basic_block))

\* A return value that waits was written by the function the top frame
\* called from the block it is at: the pop hands a result to the caller of
\* the frame that returned and to no other frame.
ReturnIsFromCallee ==
    return_val # None /\ stack # << >> =>
        \E r \in Program[Top.function].blocks[Top.basic_block].results :
            /\ r.kind = "Call"
            /\ returned_by = <<r.fun, Len(r.args), r.lambda>>

\* The reduction that finds a return value puts it where the outcomes of
\* the call say: a returned term in ret_ok_ssa, the replacement of a thrown
\* one in ret_throw_ssa, of the frame that made the call.
ReturnWrittenToCaller ==
    [][running /\ return_val # None /\ Len(stack) > 0
           /\ Len(stack') >= Len(stack)
         => LET o  == Top.state.outcomes
                vs == stack'[Len(stack)].variables
            IN  IF return_val.kind = "Return"
                THEN o.ret_ok_ssa \in DOMAIN vs
                        /\ vs[o.ret_ok_ssa] = return_val.term
                ELSE o.ret_throw_ssa \in DOMAIN vs
                        /\ vs[o.ret_throw_ssa] = ThrowReplacement]_vars

\* The block a frame is about to run finds every variable it reads in the
\* frame: the arguments were written when make_call_stackframe made the
\* frame, the result of a call when the reduction after the return gave it
\* to the caller (the thrown one under its own name), and what another
\* frame of the same function tombstoned is still there.  StackFrame::read
\* panics on a variable that is not in the frame; a block that suspends is
\* run again from its start when the process is resumed.
ReadsAreBound ==
    stack # << >> /\ Top.type = "Erlang" =>
        \A src \in Block.reads : CanRead(Resumed.variables, src)

\* The process waits in a block that suspended it.
Parked ==
    /\ ~running
    /\ stack # << >>
    /\ Top.type = "Erlang"
    /\ Top.state = Normal
    /\ [kind |-> "Suspend"]
          \in Program[Top.function].blocks[Top.basic_block].results

\* A call of run_reductions on a program without a loop or a recursion
\* comes back, and it comes back with the process at its end (the stack
\* empty and the result of Main in return_val) or in a block that suspended
\* it: every call finds its way back to its caller whatever the callee
\* answers, a suspension stops the loop, and a process that is run again
\* goes on from the block that suspended it.  The budget of the call has
\* no part in it.
Terminates ==
    \A prog \in Terminating :
        (running /\ modules = prog)
            ~> ((~running /\ stack = << >> /\ return_val # None) \/ Parked)

=============================================================================
