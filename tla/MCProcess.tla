------------------------------ MODULE MCProcess ------------------------------
(***************************************************************************)
(* Programs for Process.  The graph of a function is built with the        *)
(* operations of the graph container, so that the slots of a block are     *)
(* what FunctionCfg::branch_slots answers for it.                          *)
(***************************************************************************)
EXTENDS Process, CfgGraph

\* The graph with the blocks 0 .. n-1 and the edges es, added in order.
GraphOf(n, es) ==
    FoldLeftDomain(LAMBDA ns, i : GraphAddEdge(ns, i - 1, es[i][1], es[i][2]),
                   [lbl \in 0 .. n - 1 |-> NodeOf("block")], es)

\* A block that reads, writes and tombstones, with the results it may have.
Blk(reads, writes, kills, results) ==
    [reads |-> reads, writes |-> writes, kills |-> kills, results |-> results]

\* A function whose blocks are given with what they read and write.
Function(args, es, blks) ==
    [kind |-> "erlang", entry |-> 0, args |-> args,
     nodes |-> GraphOf(Len(blks), es),
     blocks |-> [lbl \in 0 .. Len(blks) - 1 |-> blks[lbl + 1]]]

\* A function whose blocks touch no variable.
Erlang(args, n, es, results) ==
    Function(args, es, [i \in 1 .. n |-> Blk({}, {}, {}, results[i])])

Native(returns) == [kind |-> "native", returns |-> returns]

Branch(slot) == [kind |-> "Branch", slot |-> slot]
Suspend      == [kind |-> "Suspend"]
Ret(ret)     == [kind |-> "Return", ret |-> ret]

\* A call whose normal return goes to slot 0 and whose throw to slot 1.
Call(fun, args) ==
    [kind |-> "Call", fun |-> fun, args |-> args, lambda |-> None,
     ok_ssa |-> "r", ok_slot |-> 0, throw_ssa |-> "e", throw_slot |-> 1]

\* The same call with the slots the other way round and a variable of its
\* own for the result.
CallSwapped(fun, args) ==
    [kind |-> "Call", fun |-> fun, args |-> args, lambda |-> None,
     ok_ssa |-> "s", ok_slot |-> 1, throw_ssa |-> "e", throw_slot |-> 0]

\* A call of the lambda lam of fun.
CallLambda(fun, args, lam) == [Call(fun, args) EXCEPT !.lambda = lam]

MCMain == <<"main", 0, None>>

\* main calls f, then suspends or goes on, and may call g, k or m before
\* it returns; f calls g or h, or goes on without a call; m calls
\* k or its lambda 0 or goes on; k calls g, or goes on.  The lambda has
\* the name and the arity of k and of no native function.  No block is in a
\* loop and no function calls itself: the stack holds at most four frames.
Mixed ==
    (<<"main", 0, None>> :> Erlang(<< >>, 5,
                            <<<<0, 1>>, <<0, 2>>, <<1, 3>>, <<1, 4>>,
                              <<3, 4>>, <<3, 2>>>>,
                            <<{Call("f", <<"a">>), CallSwapped("f", <<"b">>)},
                              {Branch(0), Branch(1), Suspend},
                              {Ret(Throw)},
                              {Call("g", <<"d">>), Call("k", <<"d">>),
                               CallSwapped("m", <<"a", "b">>)},
                              {Ret(Return("main"))}>>))
    @@ (<<"f", 1, None>> :> Erlang(<<"x">>, 3, <<<<0, 1>>, <<0, 2>>>>,
                            <<{Call("g", <<"b">>), CallSwapped("h", << >>),
                               Branch(0)},
                              {Ret(Return("f"))},
                              {Ret(Throw)}>>))
    @@ (<<"k", 1, None>> :> Erlang(<<"y">>, 3, <<<<0, 1>>, <<0, 2>>>>,
                            <<{Call("g", <<"b">>), Branch(1)},
                              {Ret(Return("k"))},
                              {Ret(Throw)}>>))
    @@ (<<"m", 2, None>> :> Erlang(<<"x", "y">>, 3, <<<<0, 1>>, <<0, 2>>>>,
                            <<{Call("k", <<"c">>), CallLambda("k", <<"a">>, 0),
                               Branch(1)},
                              {Ret(Return("m"))},
                              {Ret(Throw)}>>))
    @@ (<<"k", 1, 0>> :> Erlang(<<"z">>, 1, << >>,
                            <<{Ret(Return("k0")), Ret(Throw)}>>))
    @@ (<<"g", 1, None>> :> Native({Return("g"), Throw}))
    @@ (<<"h", 0, None>> :> Erlang(<< >>, 1, << >>,
                            <<{Ret(Return("h")), Ret(Throw)}>>))

\* main goes round block 1 for as long as the calls of g return, and
\* leaves it when one throws; it may be suspended in the loop.  The call
\* comes back to the block it was made from.
Looping ==
    (<<"main", 0, None>> :> Erlang(<< >>, 3, <<<<0, 1>>, <<1, 1>>, <<1, 2>>>>,
                            <<{Branch(0)},
                              {Call("g", <<"a">>), Call("k", <<"b">>),
                               Suspend},
                              {Ret(Return("main"))}>>))
    @@ (<<"k", 1, None>> :> Erlang(<<"y">>, 2, <<<<0, 0>>, <<0, 1>>>>,
                            <<{Branch(0), Branch(1), CallSwapped("g", <<"c">>)},
                              {Ret(Return("k")), Ret(Throw)}>>))
    @@ (<<"g", 1, None>> :> Native({Return("g"), Throw}))

\* A program in SSA form: a block reads what was written on every way to
\* it.  main keeps x over the call of f and reads the result or the thrown
\* value; block 1 may suspend and is then run again.  f calls itself; each
\* frame of f tombstones its own y.
Dataflow ==
    (<<"main", 0, None>> :> Function(<< >>, <<<<0, 1>>, <<0, 2>>, <<1, 3>>, <<2, 3>>>>,
        <<Blk({Constant("Integer")}, {"x"}, {}, {Call("f", <<"a">>)}),
          Blk({Variable("r"), Variable("x")}, {"t"}, {"t"},
              {Suspend, Branch(0)}),
          Blk({Variable("e")}, {}, {"x"}, {Branch(0)}),
          Blk({Constant("Nil")}, {}, {}, {Ret(Return("main"))})>>))
    @@ (<<"f", 1, None>> :> Function(<<"y">>, <<<<0, 1>>, <<0, 2>>, <<0, 3>>>>,
        <<Blk({Variable("y")}, {}, {}, {Call("f", <<"c">>), Branch(2)}),
          Blk({Variable("r"), Variable("y")}, {}, {"y"}, {Ret(Return("f"))}),
          Blk({Variable("e"), Variable("y")}, {}, {}, {Ret(Throw)}),
          Blk({Variable("y"), Constant("Atom")}, {}, {"y"},
              {Ret(Return("f")), Ret(Throw)})>>))

MCPrograms == {Mixed, Looping, Dataflow}

MCTerminating == {Mixed}

=============================================================================
