------------------------------- MODULE GenNif -------------------------------
(***************************************************************************)
(* The compilation context of the native-code generator:                   *)
(* CompilationContext of src/gen_nif/src/lib.rs.                           *)
(*                                                                         *)
(* The context owns one LLVM module and the cache protos, which gives the  *)
(* LLVM function of a function identifier.  A function of the LLVM module  *)
(* is first declared (its prototype) and later given a body.  gen_proto    *)
(* declares a function from its identifier alone, get_fun_value from the   *)
(* function itself; both go through the cache.  build_function declares    *)
(* every function of a name and arity and then emits their bodies.         *)
(*                                                                         *)
(* The target that generates a prototype and emit_fun are not among the    *)
(* sources.  Of a prototype the model keeps which of the two generators    *)
(* made it, of a body that it was emitted.  A FunctionValue is the         *)
(* position of the function in the LLVM module.                            *)
(***************************************************************************)
EXTENDS Naturals, Sequences, FiniteSets, SequencesExt, TLC

CONSTANTS
    Functions,  \* EirModule.functions: identifier -> [dialect]
    Idents,     \* the identifiers gen_proto may be called with
    MaxBuilds,  \* bound: the calls of build_function for one name and arity
    MaxLoc,     \* bound: the value of loc_id
    None        \* Option::None

\* Dialect of a function
Dialect == {"High", "Normal", "CPS"}

ASSUME
    /\ DOMAIN Functions \subseteq Idents
    /\ \A i \in DOMAIN Functions : Functions[i].dialect \in Dialect
    /\ \A i \in Idents : DOMAIN i = {"name", "arity", "lambda"}
    /\ {MaxBuilds, MaxLoc} \subseteq Nat \ {0}

VARIABLES
    protos,     \* Data.protos
    module,     \* the functions of Data.module, in the order declared
    loc_id,     \* Data.loc_id
    builds      \* history: <<name, arity>> -> the calls of build_function

vars == <<protos, module, loc_id, builds>>

\* The names and arities build_function may be asked for.
Signatures == {<<i.name, i.arity>> : i \in Idents}

\* The context as gen_proto and get_fun_value see it.
Context == [protos |-> protos, module |-> module]

\* loc_id starts at 0.
Init_LocZero ==
    /\ protos = << >>
    /\ module = << >>
    /\ loc_id = 0
    /\ builds = [s \in Signatures |-> 0]

\* CompilationContext::new
Init ==
    /\ protos = << >>
    /\ module = << >>
    /\ loc_id = 1
    /\ builds = [s \in Signatures |-> 0]

\* A prototype is generated: the LLVM module has one function more, and
\* the cache gives it for the identifier.
Declare(ctx, ident, from) ==
    [protos |-> (ident :> Len(ctx.module) + 1) @@ ctx.protos,
     module |-> Append(ctx.module,
                       [ident |-> ident, from |-> from, bodies |-> 0])]

\* gen_proto that does not look into the cache.
GenProtoIn_NoCacheCheck(ctx, fun) ==
    IF fun.lambda = None THEN Declare(ctx, fun, "ident") ELSE ctx

\* gen_proto: nothing for a lambda or for an identifier the cache has.
GenProtoIn(ctx, fun) ==
    IF fun.lambda = None /\ fun \notin DOMAIN ctx.protos
    THEN Declare(ctx, fun, "ident")
    ELSE ctx

\* get_fun_value: the context after the call; its answer is then
\* protos[ident].
GetFunValueIn(ctx, ident) ==
    IF ident \in DOMAIN ctx.protos THEN ctx
    ELSE Declare(ctx, ident, "function")

\* The filter of build_function without the arity.
Funs_AnyArity(name, arity) == {i \in DOMAIN Functions : i.name = name}

\* funs of build_function: the functions of the name and arity, lambdas
\* among them.
Funs(name, arity) ==
    {i \in DOMAIN Functions : i.name = name /\ i.arity = arity}

\* emit_fun for the LLVM functions fn_vals: each gets a body.
Emit(mod, fn_vals) ==
    [v \in DOMAIN mod |->
        IF v \in fn_vals THEN [mod[v] EXCEPT !.bodies = @ + 1] ELSE mod[v]]

-----------------------------------------------------------------------------
GenProto(fun) ==
    /\ protos' = GenProtoIn(Context, fun).protos
    /\ module' = GenProtoIn(Context, fun).module
    /\ UNCHANGED <<loc_id, builds>>

\* build_function: the first loop asserts the dialect and declares the
\* functions, the second emits them; emit_fun moves loc_id on.
BuildFunction(name, arity) ==
    LET funs     == Funs(name, arity)
        declared == FoldLeft(GetFunValueIn, Context, SetToSeq(funs))
    IN  /\ builds[<<name, arity>>] < MaxBuilds
        /\ \A i \in funs : Functions[i].dialect = "CPS"
        /\ protos' = declared.protos
        /\ module' = Emit(declared.module, {declared.protos[i] : i \in funs})
        /\ loc_id' \in loc_id .. MaxLoc
        /\ builds' = [builds EXCEPT ![<<name, arity>>] = @ + 1]

Next ==
    \/ \E fun \in Idents : GenProto(fun)
    \/ \E s \in Signatures : BuildFunction(s[1], s[2])

Spec == Init /\ [][Next]_vars

-----------------------------------------------------------------------------
(***************************************************************************)
(* Properties                                                              *)
(***************************************************************************)

\* The shape of the state: the cache gives functions of the LLVM module,
\* and loc_id, which starts at 1, never is 0.
TypeOK ==
    /\ DOMAIN protos \subseteq Idents
    /\ \A i \in DOMAIN protos : protos[i] \in DOMAIN module
    /\ \A v \in DOMAIN module :
          /\ module[v].ident \in Idents
          /\ module[v].from \in {"ident", "function"}
          /\ module[v].bodies \in 0 .. MaxBuilds
    /\ loc_id \in 1 .. MaxLoc
    /\ builds \in [Signatures -> 0 .. MaxBuilds]

\* The cache and the LLVM module agree: every function that was declared
\* is the one the cache gives for its identifier.  gen_proto and
\* get_fun_value look into the cache before they generate a prototype, in
\* whatever order they are called for an identifier; a second prototype
\* would leave the first, which emitted calls may already name, without a
\* body.
DeclarationsAreCached ==
    \A v \in DOMAIN module :
        /\ module[v].ident \in DOMAIN protos
        /\ protos[module[v].ident] = v

\* build_function emits the functions of the name and arity it was called
\* with, those declared before the call and those it declares itself, and
\* no other: a function has as many bodies as there were calls for its
\* name and arity, a function that was only declared has none.
BodiesMatchBuilds ==
    /\ \A v \in DOMAIN module :
          module[v].bodies =
              IF module[v].ident \in DOMAIN Functions
              THEN builds[<<module[v].ident.name, module[v].ident.arity>>]
              ELSE 0
    /\ \A i \in DOMAIN Functions :
          builds[<<i.name, i.arity>>] > 0 => i \in DOMAIN protos

=============================================================================
