----------------------------- MODULE MCCaseMatch -----------------------------
(***************************************************************************)
(* Values for the constants of CaseMatch.  The "deep" sets hold every term *)
(* and pattern of a few shapes, for the runs about match_node; the "few"   *)
(* sets hold a handful, for the runs about the clauses of a case.          *)
(***************************************************************************)
EXTENDS CaseMatch

\* Sequences over S of length 1 .. n.
Groups(S, n) == UNION {[1 .. k -> S] : k \in 1 .. n}

MCBindsRef == [X |-> 1, Y |-> 2]

\* The elements of tuples and lists.
Elements == {Atom("a"), Atom("b"), Integer(1), Tuple(<<Atom("a")>>)}

\* Lists of one or two groups, proper and improper; tuples; atoms, integers.
TermsDeep ==
    {Nil, Integer(0 - 1)} \cup Elements
        \cup {Tuple(es) : es \in Groups(Elements, 2)}
        \cup {List(h, t) : h \in Groups(Elements, 2),
                           t \in {Nil, Atom("a")}
                                   \cup {List(<<e>>, Nil) : e \in Elements}}

\* The nodes inside tuple and list patterns.
SubNodes == {Wildcard, BindVar("X", Wildcard), Atomic(Atom("a")),
             Atomic(IntLit(TRUE, 1)), PTuple(<<BindVar("X", Wildcard)>>)}

NodesDeep ==
    {Atomic(Nil), Atomic(IntLit(FALSE, 1))} \cup SubNodes
        \cup {PTuple(es) : es \in Groups(SubNodes, 2)}
        \cup {PList(h, t) : h \in {<< >>} \cup Groups(SubNodes, 2),
                            t \in {Atomic(Nil), Wildcard,
                                   BindVar("Y", Wildcard)}
                                    \cup {PList(<<n>>, Atomic(Nil)) :
                                             n \in SubNodes}}

\* A list in two groups makes match_node give up on a two-element head.
TermsFew == {Atom("a"), List(<<Atom("a"), Atom("b")>>, Nil),
             List(<<Atom("a")>>, List(<<Atom("b")>>, Nil))}

NodesFew == {Atomic(Atom("a")),
             BindVar("X", PList(<<Wildcard>>, BindVar("Y", Wildcard))),
             PList(<<BindVar("X", Wildcard), Wildcard>>, Atomic(Nil))}

=============================================================================
