---------------------------- MODULE BodyCompiler ----------------------------
(***************************************************************************)
(* compileClause() and compileBody() of pl-comp.c: clauses become virtual  *)
(* machine code.  An instruction is a tuple, its name first; jumps are     *)
(* relative, as in the code.                                               *)
(*                                                                         *)
(* The state ci of the compiler (compileInfo): the code so far, the        *)
(* variables that are already initialised (used_var), the number of        *)
(* variables that hold choice points, and the one a cut refers to.         *)
(***************************************************************************)
EXTENDS PrologGoals

\* In the order of their places in the frame, where the arguments come first.
Parameters == <<"X", "W">>
Variables  == Parameters \o <<"Y", "Z">>

\* analyse_variables(): a variable that occurs once is void.
IndexedIn(c) ==
    LET all == AllLeaves(c.head) \o Passed(c.body)
    IN  {x \in Range(Variables) : Len(SelectSeq(all, LAMBDA a: a = x)) > 1}

Output(ci, instrs) == [ci EXCEPT !.code = @ \o instrs]

Used(ci, x) == [ci EXCEPT !.used = @ \cup ({x} \cap ci.indexed)]
IsVoid(ci, t) == IsLeaf(t) /\ t[1] \in (Range(Variables) \cup {"_"}) \ ci.indexed

\* The places of compileArgument(): arguments of the head or, with "BODY", of
\* a goal of the body, and within these with "ARG" in a term and with "RIGHT"
\* as the last argument of a term.
Op(where, name) == (IF "BODY" \in where THEN "B_" ELSE "H_") \o name
VarOp(where, first) ==
    Op(where, IF {"BODY", "ARG"} \subseteq where
              THEN IF first THEN "ARGFIRSTVAR" ELSE "ARGVAR"
              ELSE IF first THEN "FIRSTVAR" ELSE "VAR")

RECURSIVE CompileArgument(_, _, _)

\* A pair.  Voids before the end of a pair in the head need no code: the pair
\* is left with I_POPF.  Behind a pair that is last nothing is left to do.
CompilePair(t, where, ci) ==
    LET inner == (where \cup {"ARG"}) \ {"RIGHT"}
        right == "RIGHT" \in where
        empty(u) == "BODY" \notin where /\ IsVoid(ci, u)
        open  == Output(ci, << <<Op(where, IF right THEN "RLIST" ELSE "LIST")>> >>)
        first == IF empty(t[1]) /\ empty(t[2]) THEN open ELSE CompileArgument(t[1], inner, open)
        all   == IF empty(t[2]) THEN first ELSE CompileArgument(t[2], inner \cup {"RIGHT"}, first)
    IN  IF right THEN all ELSE Output(all, << <<"I_POPF">> >>)

\* compileArgument().  A parameter on its own in the head is there already.
CompileArgument(t, where, ci) ==
    IF ~IsLeaf(t) THEN CompilePair(t, where, ci)
    ELSE IF IsVoid(ci, t) THEN Output(ci, << <<Op(where, "VOID")>> >>)
    ELSE IF where = {} /\ t[1] \in Range(Parameters) \ ci.used
         THEN Output(Used(ci, t[1]), << <<"H_VOID">> >>)
    ELSE IF t[1] \in ci.indexed
         THEN Output(Used(ci, t[1]), << <<VarOp(where, t[1] \notin ci.used), t[1]>> >>)
    ELSE Output(ci, << <<Op(where, "CONST"), t[1]>> >>)

Argument(t, ci) == CompileArgument(t, {"BODY"}, ci)
Arguments(ts, ci) == FoldLeft(LAMBDA c, t: Argument(t, c), ci, ts)

\* Predicates in C that are called without a frame (INLINE_F) if their
\* argument is a variable of the clause.
Inlined == {"var", "nonvar"}

\* compileArithArgument(): push the value of e.  An expression with a variable
\* that cannot have a value is refused: the clause is not loaded.
RECURSIVE ArithArgument(_, _)
ArithArgument(e, ci) ==
    CASE e.k = "int" -> << <<"A_INTEGER", e.n>> >>
      [] e.k = "var" -> << IF e.x \in ci.used THEN <<"A_VAR", e.x>>
                           ELSE <<"A_ERROR">> >>
      [] e.k = "+"   -> ArithArgument(e.a, ci) \o ArithArgument(e.b, ci) \o << <<"A_FUNC2", "+">> >>

CompareInstr == [op \in {"<", "=<", "=:="} |->
    CASE op = "<" -> "A_LT" [] op = "=<" -> "A_LE" [] op = "=:=" -> "A_EQ"]

\* compileArith(), with optimisation on.  The left argument of is/2 is
\* compiled first, and so counts as initialised in its right argument.
CompileArith(g, ci) ==
    IF g.k = "is"
    THEN LET left == Argument(<<g.x>>, ci)
         IN  Output(left, << <<"A_ENTER">> >> \o ArithArgument(g.e, left) \o << <<"A_IS">> >>)
    ELSE Output(ci, << <<"A_ENTER">> >> \o ArithArgument(g.a, ci) \o ArithArgument(g.b, ci)
                        \o << <<CompareInstr[g.op]>> >>)

Loaded(clauses) == \A i \in DOMAIN clauses : <<"A_ERROR">> \notin Range(clauses[i].code)

\* compileSubClause(): a goal that is no control structure.
CompileSubClause(g, call, ci) ==
    CASE g.k = "!"      -> Output(ci, << IF ci.cutvar # 0 THEN <<"C_LCUT", ci.cutvar>>
                                         ELSE <<"I_CUT">> >>)
      [] g.k \in {"is", "cmp"} -> CompileArith(g, ci)
      [] g.k = "true"   -> Output(ci, << <<"I_TRUE">> >>)
      [] g.k = "fail"   -> Output(ci, << <<"I_FAIL">> >>)
      [] g.k = "$catch" -> Output(ci, << <<"I_CATCH">> >>)
      [] g.k = "$throw" -> Output(Argument(<<"X">>, ci), << <<"B_THROW">> >>)
      [] g.k = "$call"  -> Output(Argument(<<"X">>, ci), << <<"I_USERCALL0">> >>)
      [] g.k = "call"   ->
            LET x == AllLeaves(g.args)[1]
            IN  IF g.p \in Inlined /\ g.args = << <<x>> >> /\ x \in ci.indexed
                THEN Output(Used(ci, x),
                            (IF x \in ci.used THEN <<>> ELSE << <<"C_VAR", x>> >>)
                              \o << <<"I_CALL_FV1", x, g.p>> >>)
                ELSE Output(Arguments(g.args, ci), << <<call, g.p, Len(g.args)>> >>)

\* setVars(): the variables that are initialised once g has run.
SetVars(g, ci) == ci.used \cup (Range(Passed(g)) \cap ci.indexed)

\* Mutant: the branches are not balanced.
BalanceVarsNot(these, those) == <<>>

\* balanceVars(): initialise what the other branch initialises.
BalanceVars(these, those) ==
    LET missing == SelectSeq(Variables, LAMBDA x: x \in those \ these)
    IN  [i \in 1 .. Len(missing) |-> <<"C_VAR", missing[i]>>]

RECURSIVE CompileBody(_, _, _)

\* A condition, in which a cut is local to the condition.
CompileCondition(g, var, ci) ==
    [CompileBody(g, "I_CALL", [ci EXCEPT !.cutvar = var]) EXCEPT !.cutvar = ci.cutvar]

\* The two branches of a disjunction behind the instruction that makes the
\* choice point: open is that instruction without its jump, left the first
\* branch.
CompileBranches(g, call, ci, open, left) ==
    LET valt1 == SetVars(g.a, ci)
        valt2 == SetVars(g.b, ci)
        right == CompileBody(g.b, call, [left EXCEPT !.code = <<>>, !.used = ci.used])
        alt1  == left.code \o BalanceVars(valt1, valt2)
        alt2  == right.code \o BalanceVars(valt2, valt1)
    IN  [right EXCEPT
           !.code = ci.code \o << Append(open, Len(alt1) + 1) >> \o alt1
                            \o << <<"C_JMP", Len(alt2)>> >> \o alt2,
           !.used = valt1 \cup valt2]

CompileBody(g, call, ci) ==
    LET var   == ci.nvar + 1
        fresh == [ci EXCEPT !.code = <<>>, !.nvar = var]
        cond  == CompileCondition(g.a, var, fresh)
    IN
    CASE g.k = ","  -> CompileBody(g.b, call, CompileBody(g.a, "I_CALL", ci))
      [] g.k = ";" /\ g.a.k \in {"->", "*->"} ->
            LET test == CompileCondition(g.a.a, var, fresh)
                cut  == <<IF g.a.k = "->" THEN "C_CUT" ELSE "C_SOFTCUT", var>>
                left == CompileBody(g.a.b, call, Output(test, <<cut>>))
                open == <<IF g.a.k = "->" THEN "C_IFTHENELSE" ELSE "C_SOFTIF", var>>
            IN  CompileBranches(g, call, ci, open, left)
      [] g.k = ";" /\ g.a.k \notin {"->", "*->"} ->
            LET left == CompileBody(g.a, "I_CALL", [ci EXCEPT !.code = <<>>])
            IN  CompileBranches(g, call, ci, <<"C_OR">>, left)
      [] g.k = "->" ->
            LET then == CompileBody(g.b, call, Output(cond, << <<"C_CUT", var>> >>))
            IN  [then EXCEPT !.code = ci.code \o << <<"C_MARK", var>> >> \o @
                                              \o << <<"C_END">> >>]
      [] g.k = "\\+" ->
            [cond EXCEPT
               !.code = ci.code \o << <<"C_NOT", var, Len(@) + 2>> >> \o @
                                \o << <<"C_CUT", var>>, <<"C_FAIL">> >>,
               !.used = ci.used]
      [] OTHER -> CompileSubClause(g, call, ci)

\* The arguments of the head, without code for the voids behind the last other.
CompileHead(ts, ci) ==
    LET all  == FoldLeft(LAMBDA c, t: CompileArgument(t, {}, c), ci, ts)
        void == SelectLastInSeq(all.code, LAMBDA instr: instr # <<"H_VOID">>)
    IN  [all EXCEPT !.code = SubSeq(@, 1, void)]

\* compileClause().  The key is what the index on the first argument compares.
CompileClause(c) ==
    LET start == [code |-> <<>>, used |-> {}, indexed |-> IndexedIn(c), nvar |-> 0, cutvar |-> 0]
        head  == CompileHead(c.head, start)
        first == c.head[1]
        body  == CompileBody(c.body, "I_DEPART", Output(head, << <<"I_ENTER">> >>))
        ci    == IF c.body = True THEN Output(head, << <<"I_EXITFACT">> >>)
                 ELSE Output(body, << <<"I_EXIT">> >>)
    IN  [key |-> IF ~IsLeaf(first) THEN "." ELSE IF first[1] \in Range(Variables) THEN "_"
                 ELSE first[1],
         code |-> ci.code, arity |-> Len(c.head),
         slots |-> IF ci.nvar > 0 \/ ci.indexed \ Range(Parameters) # {} THEN 1 ELSE 0]

\* The source of a predicate.  catch/3, throw/1 and call/1 of boot/init.pl
\* have an instruction of their own for a body; foreign predicates have no
\* clauses.
Source(d) ==
    CASE d.kind = "clauses" -> d.clauses
      [] d.kind = "catch"   -> << Rule(<<Void>>, [k |-> "$catch"]) >>
      [] d.kind = "throw"   -> << Rule(<< <<"X">> >>, [k |-> "$throw"]) >>
      [] d.kind = "call"    -> << Rule(<< <<"X">> >>, [k |-> "$call"]) >>
      [] d.kind \in {"foreign", "test"} -> <<>>

Compiled(d) == [i \in 1 .. Len(Source(d)) |-> CompileClause(Source(d)[i])]
=============================================================================
