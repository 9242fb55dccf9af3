------------------------------ MODULE CaseMatch ------------------------------
(***************************************************************************)
(* The state of one case expression of the interpreter: MatchState,        *)
(* CaseContext and match_node of src/interpreter/src/pattern.rs.           *)
(*                                                                         *)
(* The program drives a CaseContext from three kinds of blocks: the body   *)
(* of the case calls do_body, which answers the clause to try (or 0); the  *)
(* guard of that clause ends in guard_ok or in guard_fail, and after       *)
(* guard_fail the body runs again.  The model lets the program make every  *)
(* call that does not panic.  A panic of the code is the guard of the      *)
(* action.                                                                 *)
(*                                                                         *)
(* Terms are records tagged by t, pattern nodes records tagged by p.  Of   *)
(* the term and literal kinds only those match_node names are modelled.    *)
(***************************************************************************)
EXTENDS Integers, Sequences, FiniteSets, SequencesExt

CONSTANTS
    Terms,              \* the terms a case may be entered with
    Nodes,              \* the pattern nodes a clause may hold
    BindsRef,           \* Pattern.binds: variable name -> SSA variable
    NumVars,            \* the number of values the case matches on
    MaxClauses,         \* the most clauses a case holds
    None                \* Option::None

ASSUME
    /\ NumVars \in Nat \ {0}
    /\ MaxClauses \in Nat \ {0}

VARIABLES
    state,          \* CaseContext.state
    vars,           \* CaseContext.vars
    clauses,        \* CaseContext.clauses
    last_binds,     \* CaseContext.last_binds
    last_call       \* history: the clause number do_body was last entered
                    \* with, and what it answered

ctx == <<state, vars, clauses, last_binds, last_call>>

-----------------------------------------------------------------------------
(***************************************************************************)
(* Terms and patterns                                                      *)
(***************************************************************************)

Nil              == [t |-> "Nil"]
Atom(a)          == [t |-> "Atom", name |-> a]
Integer(i)       == [t |-> "Integer", int |-> i]
Tuple(es)        == [t |-> "Tuple", entries |-> es]
List(head, tail) == [t |-> "List", head |-> head, tail |-> tail]

Wildcard          == [p |-> "Wildcard"]
BindVar(var, n)   == [p |-> "BindVar", var |-> var, node |-> n]
PList(head, tail) == [p |-> "List", head |-> head, tail |-> tail]
PTuple(es)        == [p |-> "Tuple", entries |-> es]
Atomic(lit)       == [p |-> "Atomic", lit |-> lit]

\* AtomicLiteral::Integer: the digits (as the number they spell) and a sign,
\* TRUE for a literal that is not negative.
IntLit(sign, digits) == [t |-> "IntLit", sign |-> sign, digits |-> digits]

\* MatchState
MatchClause(n) == [tag |-> "MatchClause", num |-> n]
GuardWait(n)   == [tag |-> "GuardWait", num |-> n]
Finished       == [tag |-> "Finished"]

\* MatchState::clause_num, of a state that is not Finished
ClauseNum(s) == s.num

\* into_body that tries the same clause again.
IntoBody_SameClause(s) == MatchClause(ClauseNum(s))

\* MatchState::into_body, of a state that is GuardWait
IntoBody(s) == MatchClause(ClauseNum(s) + 1)

-----------------------------------------------------------------------------
(***************************************************************************)
(* match_node.  Its result is the verdict and, for a match, the bindings.  *)
(***************************************************************************)

Matched(binds) == [res |-> "match", binds |-> binds]
Failed         == [res |-> "fail"]
Unimplemented  == [res |-> "unimplemented"]

\* The term an atomic literal matches: Nil and atoms are themselves, an
\* integer literal is parsed and negated when its sign says so.
LitTerm(lit) ==
    IF lit.t = "IntLit"
    THEN Integer(IF lit.sign THEN lit.digits ELSE 0 - lit.digits)
    ELSE lit

\* The variable is not bound.
Bind_Skip(binds, ssa, term) == binds

\* binds.insert(ssa, term.clone())
Bind(binds, ssa, term) == (ssa :> term) @@ binds

\* The rest of the list is built without the tail of the term.
ListRest_DropsTail(t_head, t_tail, n) ==
    List(SubSeq(t_head, n + 1, Len(t_head)), Nil)

\* Term::List(t_head.iter().skip(n).cloned().collect(), t_tail.clone())
ListRest(t_head, t_tail, n) ==
    List(SubSeq(t_head, n + 1, Len(t_head)), t_tail)

RECURSIVE MatchNode(_, _, _, _)

\* for (pat, term) in pats.zip(terms) { if !match_node(..) { return false } }
\* The terms are at least as many as the patterns.
MatchEach(terms, pats, binds, ref) ==
    FoldLeftDomain(LAMBDA acc, i :
                       IF acc.res = "match"
                       THEN MatchNode(terms[i], pats[i], acc.binds, ref)
                       ELSE acc,
                   Matched(binds), pats)

\* The arm of a list term and a list pattern.
MatchList(term, node, binds, ref) ==
    LET n     == Len(node.head)
        heads == MatchEach(term.head, node.head, binds, ref)
        rest  == IF Len(term.head) = n THEN term.tail
                 ELSE ListRest(term.head, term.tail, n)
    IN  IF Len(term.head) < n THEN Unimplemented
        ELSE IF heads.res = "match"
             THEN MatchNode(rest, node.tail, heads.binds, ref)
             ELSE heads

\* The arm of a tuple pattern.
MatchTuple(term, node, binds, ref) ==
    IF term.t = "Tuple" /\ Len(term.entries) = Len(node.entries)
    THEN MatchEach(term.entries, node.entries, binds, ref)
    ELSE Failed

\* match_node: the arms, by the kind of the pattern node.
MatchNode(term, node, binds, ref) ==
    CASE node.p = "Wildcard" -> Matched(binds)
      [] node.p = "BindVar" ->
            MatchNode(term, node.node, Bind(binds, ref[node.var], term), ref)
      [] node.p = "List" /\ term.t = "List" ->
            MatchList(term, node, binds, ref)
      [] node.p = "List" /\ term.t # "List" ->
            IF node.head = << >>
            THEN MatchNode(term, node.tail, binds, ref)
            ELSE Failed
      [] node.p = "Tuple" -> MatchTuple(term, node, binds, ref)
      [] node.p = "Atomic" ->
            IF term = LitTerm(node.lit) THEN Matched(binds) ELSE Failed

-----------------------------------------------------------------------------
(***************************************************************************)
(* CaseContext                                                             *)
(***************************************************************************)

\* A clause holds one pattern for each value of the case.
Clauses == [patterns : [1 .. NumVars -> [node : Nodes, binds : {BindsRef}]]]

\* CaseContext::new
Init ==
    /\ state = MatchClause(0)
    /\ vars \in [1 .. NumVars -> Terms]
    /\ clauses \in UNION {[1 .. n -> Clauses] : n \in 1 .. MaxClauses}
    /\ last_binds = None
    /\ last_call = None

\* The clause with number c (clause numbers start at 0).
Clause(c) == clauses[c + 1]

\* self.vars.iter().zip(&clause.patterns).all(..) over one map of values
ClauseMatch(c) ==
    FoldLeftDomain(LAMBDA acc, i :
                       IF acc.res = "match"
                       THEN MatchNode(vars[i], Clause(c).patterns[i].node,
                                      acc.binds, Clause(c).patterns[i].binds)
                       ELSE acc,
                   Matched(<< >>), vars)

\* do_body adds one too many.
Answer_OneTooMany(c) == c + 2

\* What do_body answers for the clause with number c.
Answer(c) == c + 1

\* What a call of do_body leaves: the state, the bindings and the answer.
Left(st, binds, answer) == [state |-> st, binds |-> binds, answer |-> answer]

\* A call of do_body that panics.
Panicked == [panic |-> TRUE]

RECURSIVE DoBodyFrom(_)

\* do_body that answers 0 for a clause that does not match.
DoBodyFrom_GivesUp(c) ==
    IF ClauseMatch(c).res = "match"
    THEN Left(GuardWait(c), ClauseMatch(c).binds, Answer(c))
    ELSE Left(MatchClause(c + 1), last_binds, 0)

\* do_body with the clause number c: the clause is indexed and its length
\* asserted before anything else; a match goes into the guard, a failure
\* adds one to the clause number and answers 0 at the end of the clauses,
\* or calls do_body again.
DoBodyFrom(c) ==
    CASE c >= Len(clauses) -> Panicked
      [] c < Len(clauses) /\ ( \/ Len(Clause(c).patterns) # Len(vars)
                               \/ ClauseMatch(c).res = "unimplemented" ) ->
            Panicked
      [] OTHER ->
            IF ClauseMatch(c).res = "match"
            THEN Left(GuardWait(c), ClauseMatch(c).binds, Answer(c))
            ELSE IF c + 1 >= Len(clauses)
                 THEN Left(MatchClause(c + 1), last_binds, 0)
                 ELSE DoBodyFrom(c + 1)

\* CaseContext::do_body
DoBody ==
    /\ state.tag = "MatchClause"
    /\ DoBodyFrom(ClauseNum(state)) # Panicked
    /\ state' = DoBodyFrom(ClauseNum(state)).state
    /\ last_binds' = DoBodyFrom(ClauseNum(state)).binds
    /\ last_call' = [from |-> ClauseNum(state),
                     answer |-> DoBodyFrom(ClauseNum(state)).answer]
    /\ UNCHANGED <<vars, clauses>>

\* CaseContext::case_values, while a guard runs
CaseValues == last_binds

\* CaseContext::guard_ok
GuardOk ==
    /\ state' = Finished
    /\ UNCHANGED <<vars, clauses, last_binds, last_call>>

\* CaseContext::guard_fail
GuardFail(clause_num) ==
    /\ state.tag = "GuardWait"
    /\ clause_num = ClauseNum(state)
    /\ state' = IntoBody(state)
    /\ UNCHANGED <<vars, clauses, last_binds, last_call>>

Next ==
    \/ DoBody
    \/ GuardOk
    \/ \E clause_num \in 0 .. MaxClauses - 1 : GuardFail(clause_num)

Spec == Init /\ [][Next]_ctx

-----------------------------------------------------------------------------
(***************************************************************************)
(* The reference: structural matching.  A list is the sequence of its      *)
(* elements and its final tail, however its cells are grouped.             *)
(***************************************************************************)

RECURSIVE Elems(_), FinalTail(_), Canon(_), RefMatch(_, _), RefBinds(_, _, _)

Elems(term) ==
    IF term.t = "List" THEN term.head \o Elems(term.tail) ELSE << >>

FinalTail(term) == IF term.t = "List" THEN FinalTail(term.tail) ELSE term

\* The term with every list in one group.
Canon(term) ==
    CASE term.t = "List" ->
            List([i \in DOMAIN Elems(term) |-> Canon(Elems(term)[i])],
                 Canon(FinalTail(term)))
      [] term.t = "Tuple" ->
            Tuple([i \in DOMAIN term.entries |-> Canon(term.entries[i])])
      [] OTHER -> term

\* The term without its first n elements.
Drop(term, n) ==
    LET es == SubSeq(Elems(term), n + 1, Len(Elems(term)))
    IN  IF es = << >> THEN FinalTail(term) ELSE List(es, FinalTail(term))

RefMatch(term, node) ==
    CASE node.p = "Wildcard" -> TRUE
      [] node.p = "BindVar" -> RefMatch(term, node.node)
      [] node.p = "Atomic" -> Canon(term) = LitTerm(node.lit)
      [] node.p = "Tuple" ->
            /\ term.t = "Tuple"
            /\ Len(term.entries) = Len(node.entries)
            /\ \A i \in DOMAIN node.entries :
                  RefMatch(term.entries[i], node.entries[i])
      [] node.p = "List" ->
            /\ Len(Elems(term)) >= Len(node.head)
            /\ \A i \in DOMAIN node.head :
                  RefMatch(Elems(term)[i], node.head[i])
            /\ RefMatch(Drop(term, Len(node.head)), node.tail)

\* The bindings a match of term against node makes: (SSA variable, term).
RefBinds(term, node, ref) ==
    CASE node.p = "BindVar" ->
            {<<ref[node.var], Canon(term)>>}
                \cup RefBinds(term, node.node, ref)
      [] node.p = "Tuple" ->
            UNION {RefBinds(term.entries[i], node.entries[i], ref) :
                      i \in DOMAIN node.entries}
      [] node.p = "List" ->
            UNION {RefBinds(Elems(term)[i], node.head[i], ref) :
                      i \in DOMAIN node.head}
                \cup RefBinds(Drop(term, Len(node.head)), node.tail, ref)
      [] OTHER -> {}

-----------------------------------------------------------------------------
(***************************************************************************)
(* Properties                                                              *)
(***************************************************************************)

\* The shape of the state.  A clause number is at most the number of
\* clauses plus one: guard_fail adds one without looking at the clauses.
TypeOK ==
    /\ vars \in [1 .. NumVars -> Terms]
    /\ Len(clauses) \in 1 .. MaxClauses
    /\ \A c \in DOMAIN clauses : clauses[c] \in Clauses
    /\ \/ state = Finished
       \/ /\ state.tag \in {"MatchClause", "GuardWait"}
          /\ state.num \in 0 .. Len(clauses)
    /\ last_call = None
          \/ last_call \in [from : 0 .. MaxClauses, answer : 0 .. MaxClauses]
    /\ state # Finished /\ state.tag = "GuardWait" => CaseValues # None

\* Whenever match_node answers, its verdict is that of structural matching:
\* the arms of match_node, the order they are tried in and the rest list
\* built when the term's first group is longer than the pattern's head
\* decide the same as matching element by element.
MatchNodeAgrees ==
    \A c \in DOMAIN clauses : \A i \in DOMAIN vars :
        LET node == clauses[c].patterns[i].node
            r    == MatchNode(vars[i], node, << >>, BindsRef)
        IN  r.res # "unimplemented" =>
                ((r.res = "match") <=> RefMatch(vars[i], node))

\* While the guard of a clause runs, what case_values hands to the guard
\* binds the variables of that clause's patterns, and no others, each to
\* the part of the matched value at the variable's position.
BindsCoverPattern ==
    state # Finished /\ state.tag = "GuardWait" =>
        LET ps   == Clause(ClauseNum(state)).patterns
            want == UNION {RefBinds(vars[i], ps[i].node, ps[i].binds) :
                              i \in DOMAIN ps}
        IN  /\ DOMAIN CaseValues = {b[1] : b \in want}
            /\ \A k \in DOMAIN CaseValues :
                  <<k, Canon(CaseValues[k])>> \in want

\* do_body answers the first clause, from the one it was entered with on,
\* whose patterns all match the values of the case, and 0 when there is
\* none: its recursion skips no clause and stops at the first match.
DoBodyAnswersFirstMatch ==
    last_call # None =>
        LET fit == {c \in last_call.from .. Len(clauses) - 1 :
                       \A i \in DOMAIN vars :
                           RefMatch(vars[i], Clause(c).patterns[i].node)}
        IN  last_call.answer = IF fit = {} THEN 0 ELSE Min(fit) + 1

\* The answers of do_body grow: after guard_fail the case goes on with a
\* later clause and never offers the program a clause a second time.
AnswersGrow ==
    [][state.tag = "MatchClause" /\ state'.tag = "GuardWait"
           /\ last_call # None
         => state'.num + 1 > last_call.answer]_ctx

\* When the program is to call do_body (at first, and after guard_fail),
\* the clause number names a clause: do_body indexes the clauses with it
\* before it looks at their number.
DoBodyCanRun ==
    state # Finished /\ state.tag = "MatchClause"
        /\ (last_call = None \/ last_call.answer # 0)
      => state.num < Len(clauses)

=============================================================================
