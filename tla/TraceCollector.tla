--------------------------- MODULE TraceCollector ---------------------------
(***************************************************************************)
(* The trace collector of the interpreter:                                 *)
(* src/interpreter/src/trace/trace.rs.                                     *)
(*                                                                         *)
(* Every thread has a VM id and a collector of its own (thread-locals);    *)
(* the counter the VM ids are taken from is shared.  A collector keeps the *)
(* pid of the process that runs, one stack of open calls for each pid, and *)
(* the list of events.  dump_trace turns the events into begin and end     *)
(* entries on two lanes for each pid: lane 0 for calls, lane 1 for blocks. *)
(*                                                                         *)
(* The interpreter that reports to the collector is not part of the        *)
(* sources at hand.  It is modelled by what it must do for a process: the  *)
(* scheduler tells the collector which process runs, and a process         *)
(* reports a call when it makes one and a return from the call it is in.   *)
(* A panic of the code is the guard of the action.                         *)
(***************************************************************************)
EXTENDS Naturals, Sequences, FiniteSets, SequencesExt

CONSTANTS
    Threads,    \* the threads, each with a VM of its own
    Pids,       \* the processes of a VM; Pid(0) is 0
    Functions,  \* the functions (module and ident) processes call
    Blocks,     \* the labels of basic blocks
    MaxDepth,   \* bound: the most calls a process has open
    MaxEvents,  \* bound: the most events a collector holds
    None        \* Option::None

ASSUME
    /\ Pids \subseteq Nat
    /\ MaxDepth \in Nat
    /\ MaxEvents \in Nat

VARIABLES
    vm_id_counter,  \* VM_ID_COUNTER
    vm_id,          \* VM_ID of each thread
    collector,      \* TRACE_COLLECTOR of each thread
    calls,          \* the interpreter: the calls each process has open
    scheduled,      \* the interpreter: the process that runs, if any
    in_block        \* the interpreter: a block of that process is running

vars == <<vm_id_counter, vm_id, collector, calls, scheduled, in_block>>

-----------------------------------------------------------------------------
\* TraceCollector::new
NewCollector == [current_pid |-> 0, pid_stacks |-> << >>, events |-> << >>]

\* The entry carries Pid(0).
StackEntry_PidZero(pid, f) == [pid |-> 0, fun |-> f]

\* StackEntry; the arguments of the call are left out.
StackEntry(pid, f) == [pid |-> pid, fun |-> f]

\* TraceEvent with its TraceEventType
FunctionEnter(pid, f)       == [pid |-> pid, typ |-> "FunctionEnter", fun |-> f]
FunctionExit(pid)           == [pid |-> pid, typ |-> "FunctionExit"]
BasicBlockStart(pid, f, b)  == [pid |-> pid, typ |-> "BasicBlockStart",
                                fun |-> f, block |-> b]
BasicBlockEnd(pid)          == [pid |-> pid, typ |-> "BasicBlockEnd"]

\* gen_vm_id: the thread's VM id becomes the value of the counter.
GenVmId(t) ==
    /\ vm_id' = [vm_id EXCEPT ![t] = vm_id_counter]
    /\ UNCHANGED <<vm_id_counter, collector, calls, scheduled, in_block>>

\* The pid is not stored.
WithPid_Ignored(c, pid) == c

\* set_pid, on a collector
WithPid(c, pid) == [c EXCEPT !.current_pid = pid]

\* get_pid
GetPid(t) == collector[t].current_pid

\* The stack of a pid, as enter_function finds or makes it.
StackOf(c, pid) ==
    IF pid \in DOMAIN c.pid_stacks THEN c.pid_stacks[pid] ELSE << >>

\* enter_function, on a collector
Entered(c, f) ==
    LET pid == c.current_pid
    IN  [c EXCEPT
            !.pid_stacks = (pid :> Append(StackOf(c, pid), StackEntry(pid, f)))
                               @@ @,
            !.events = Append(@, FunctionEnter(pid, f))]

\* exit_function can run: the unwraps and the assertions hold.
CanExit(c, f) ==
    /\ c.current_pid \in DOMAIN c.pid_stacks
    /\ c.pid_stacks[c.current_pid] # << >>
    /\ Last(c.pid_stacks[c.current_pid]).fun = f

\* exit_function, on a collector
Exited(c, f) ==
    LET pid == c.current_pid
    IN  [c EXCEPT !.pid_stacks[pid] = Front(@),
                  !.events = Append(@, FunctionExit(pid))]

\* start_basic_block and end_basic_block, on a collector
BlockStarted(c, f, b) ==
    [c EXCEPT !.events = Append(@, BasicBlockStart(c.current_pid, f, b))]

BlockEnded(c) ==
    [c EXCEPT !.events = Append(@, BasicBlockEnd(c.current_pid))]

\* The end of a block is put on the lane of the calls.
DumpEntry_BlockEndOnCallLane(event, idx) ==
    [ph  |-> IF event.typ \in {"FunctionEnter", "BasicBlockStart"}
             THEN "B" ELSE "E",
     ts  |-> idx,
     pid |-> event.pid,
     tid |-> IF event.typ \in {"FunctionEnter", "FunctionExit",
                               "BasicBlockEnd"} THEN 0 ELSE 1]

\* The TraceEntry dump_trace makes of the event at index idx: a begin or an
\* end, stamped with the index, on lane 0 (calls) or 1 (blocks) of its pid.
DumpEntry(event, idx) ==
    [ph  |-> IF event.typ \in {"FunctionEnter", "BasicBlockStart"}
             THEN "B" ELSE "E",
     ts  |-> idx,
     pid |-> event.pid,
     tid |-> IF event.typ \in {"FunctionEnter", "FunctionExit"}
             THEN 0 ELSE 1]

\* dump_trace, up to the text it writes: enumerate() counts from 0.
DumpTrace(t) ==
    [i \in DOMAIN collector[t].events |->
        DumpEntry(collector[t].events[i], i - 1)]

-----------------------------------------------------------------------------
(***************************************************************************)
(* The interpreter                                                         *)
(***************************************************************************)

\* The collector has room for one more event, and for the end of the block
\* that runs.
HasRoom(t) ==
    Len(collector[t].events) + (IF in_block[t] THEN 1 ELSE 0) < MaxEvents

\* The scheduler switches to process pid, between two blocks.
SetPid(t, pid) ==
    /\ ~in_block[t]
    /\ scheduled' = [scheduled EXCEPT ![t] = pid]
    /\ collector' = [collector EXCEPT ![t] = WithPid(@, pid)]
    /\ UNCHANGED <<vm_id_counter, vm_id, calls, in_block>>

\* The process that runs makes a call of f.
EnterFunction(t, f) ==
    /\ scheduled[t] # None
    /\ HasRoom(t)
    /\ Len(calls[t][scheduled[t]]) < MaxDepth
    /\ calls' = [calls EXCEPT ![t][scheduled[t]] = Append(@, f)]
    /\ collector' = [collector EXCEPT ![t] = Entered(@, f)]
    /\ UNCHANGED <<vm_id_counter, vm_id, scheduled, in_block>>

\* The process that runs returns from the call it is in.
ExitFunction(t) ==
    /\ scheduled[t] # None
    /\ HasRoom(t)
    /\ calls[t][scheduled[t]] # << >>
    /\ LET f == Last(calls[t][scheduled[t]])
       IN  /\ CanExit(collector[t], f)
           /\ collector' = [collector EXCEPT ![t] = Exited(@, f)]
    /\ calls' = [calls EXCEPT ![t][scheduled[t]] = Front(@)]
    /\ UNCHANGED <<vm_id_counter, vm_id, scheduled, in_block>>

\* The process that runs starts a block of the call it is in.
StartBasicBlock(t, b) ==
    /\ scheduled[t] # None
    /\ ~in_block[t]
    /\ Len(collector[t].events) + 1 < MaxEvents
    /\ calls[t][scheduled[t]] # << >>
    /\ in_block' = [in_block EXCEPT ![t] = TRUE]
    /\ collector' = [collector EXCEPT ![t] =
            BlockStarted(@, Last(calls[t][scheduled[t]]), b)]
    /\ UNCHANGED <<vm_id_counter, vm_id, calls, scheduled>>

\* The block that runs ends.
EndBasicBlock(t) ==
    /\ in_block[t]
    /\ in_block' = [in_block EXCEPT ![t] = FALSE]
    /\ collector' = [collector EXCEPT ![t] = BlockEnded(@)]
    /\ UNCHANGED <<vm_id_counter, vm_id, calls, scheduled>>

Init ==
    /\ vm_id_counter = 0
    /\ vm_id = [t \in Threads |-> None]
    /\ collector = [t \in Threads |-> NewCollector]
    /\ calls = [t \in Threads |-> [pid \in Pids |-> << >>]]
    /\ scheduled = [t \in Threads |-> None]
    /\ in_block = [t \in Threads |-> FALSE]

Next ==
    \E t \in Threads :
        \/ GenVmId(t)
        \/ \E pid \in Pids : SetPid(t, pid)
        \/ \E f \in Functions : EnterFunction(t, f)
        \/ ExitFunction(t)
        \/ \E b \in Blocks : StartBasicBlock(t, b)
        \/ EndBasicBlock(t)

Spec == Init /\ [][Next]_vars

-----------------------------------------------------------------------------
(***************************************************************************)
(* Properties                                                              *)
(***************************************************************************)

EventTypes ==
    {"FunctionEnter", "FunctionExit", "BasicBlockStart", "BasicBlockEnd"}

\* The shape of the state.  An entry on the stack of a pid carries that
\* pid.
TypeOK ==
    /\ vm_id_counter \in Nat
    /\ vm_id \in [Threads -> Nat \cup {None}]
    /\ scheduled \in [Threads -> Pids \cup {None}]
    /\ in_block \in [Threads -> BOOLEAN]
    /\ \A t \in Threads :
          /\ collector[t].current_pid \in Pids \cup {0}
          /\ DOMAIN collector[t].pid_stacks \subseteq Pids \cup {0}
          /\ \A pid \in DOMAIN collector[t].pid_stacks :
                \A i \in DOMAIN collector[t].pid_stacks[pid] :
                    /\ collector[t].pid_stacks[pid][i].pid = pid
                    /\ collector[t].pid_stacks[pid][i].fun \in Functions
          /\ Len(collector[t].events) <= MaxEvents
          /\ \A i \in DOMAIN collector[t].events :
                /\ collector[t].events[i].typ \in EventTypes
                /\ collector[t].events[i].pid \in Pids \cup {0}

\* The collector's stack of a pid holds the calls that process has open,
\* in order, however the calls and returns of the processes interleave:
\* enter_function and exit_function work on the stack of the pid that was
\* set last, which must be the process that reports.
StacksMirrorCalls ==
    \A t \in Threads : \A pid \in Pids :
        LET stk == StackOf(collector[t], pid)
        IN  [i \in DOMAIN stk |-> stk[i].fun] = calls[t][pid]

\* On every lane of the dump no entry ends what was not begun: up to any
\* point the lane has at least as many begins as ends.  dump_trace puts
\* calls and blocks of a pid on different lanes, so that a block that ends
\* inside a call does not end the call.
Lane(dump, pid, tid, ph) ==
    {i \in DOMAIN dump :
        dump[i].pid = pid /\ dump[i].tid = tid /\ dump[i].ph = ph}

DumpNests ==
    \A t \in Threads : \A n \in DOMAIN DumpTrace(t) :
        LET dump == SubSeq(DumpTrace(t), 1, n)
        IN  \A pid \in Pids \cup {0} : \A tid \in {0, 1} :
                Cardinality(Lane(dump, pid, tid, "E"))
                    <= Cardinality(Lane(dump, pid, tid, "B"))

=============================================================================
