----------------------------- MODULE Decompiler -----------------------------
(***************************************************************************)
(* decompile() of pl-comp.c: the code of a clause becomes its source again *)
(* (clause/2, retract/1 and listing/1 show this and match against it).     *)
(*                                                                         *)
(* The code keeps the arguments and the finished subgoals on one stack.    *)
(* Here d is that stack with the position in the code, and a body that is  *)
(* decompiled within another starts with a stack of its own.  The argument *)
(* pointer is the top of that stack or, within a pair, the path to a place *)
(* in the last argument; nest is the stack of the pointers to go back to.  *)
(***************************************************************************)
EXTENDS BodyCompiler

At(pc)         == [pc |-> pc, args |-> <<>>, path |-> <<>>, nest |-> <<>>]
\* build_term(): the term t replaces its arguments, the last n on the stack.
BuildTerm(d, n, t) == [d EXCEPT !.args = Append(SubSeq(@, 1, Len(@) - n), t), !.pc = @ + 1]
Push(d, t)     == BuildTerm(d, 0, t)
\* The argument that is n below the last, and the last n.
Arg(d, n)      == d.args[Len(d.args) - n]
LastArgs(d, n) == SubSeq(d.args, Len(d.args) - n + 1, Len(d.args))
Built(d)       == Head(d.args)

RECURSIVE Filled(_, _, _)
Filled(t, path, u) ==
    IF path = <<>> THEN u ELSE [t EXCEPT ![Head(path)] = Filled(@, Tail(path), u)]

\* *ARGP = t
Fill(d, t) ==
    IF d.path = <<>> THEN Append(d.args, t)
    ELSE Append(Front(d.args), Filled(Last(d.args), d.path, t))
\* ARGP + 1
NextPath(path) == IF path = <<>> THEN path ELSE Append(Front(path), Last(path) + 1)

\* Mutant: the argument behind the pair is forgotten.
PutPairHere(d, right) ==
    [d EXCEPT !.args = Fill(d, <<Void, Void>>), !.path = Append(@, 1), !.pc = @ + 1,
              !.nest = IF right THEN @ ELSE Append(@, d.path)]

\* *ARGP++ = t, and a pair whose elements come next
PutArg(d, t) == [d EXCEPT !.args = Fill(d, t), !.path = NextPath(@), !.pc = @ + 1]
PutPair(d, right) ==
    [d EXCEPT !.args = Fill(d, <<Void, Void>>), !.path = Append(@, 1), !.pc = @ + 1,
              !.nest = IF right THEN @ ELSE Append(@, NextPath(d.path))]
PopArg(d) == [d EXCEPT !.path = Last(d.nest), !.nest = Front(@), !.pc = @ + 1]

\* The subgoals of a body are joined by commas, the last two first.
JoinGoals(goals) == FoldRight(And, Front(goals), Last(goals))

RECURSIVE DecompileBody(_, _, _, _)

\* DECOMPILETOJUMP: the code behind an instruction up to where it jumps.
DecompileToJump(code, pc) ==
    DecompileBody(code, At(pc), "none", pc + Last(code[pc - 1]))

\* One round of the loop of decompileBody().
DecompileInstr(code, d) ==
    LET instr == code[d.pc]
        op    == instr[1]
        next  == d.pc + 1
    IN
    CASE op \in {"B_CONST", "B_VAR", "B_FIRSTVAR", "B_ARGVAR", "B_ARGFIRSTVAR"} ->
            PutArg(d, <<instr[2]>>)
      [] op = "B_VOID"                  -> PutArg(d, Void)
      [] op \in {"B_LIST", "B_RLIST"}   -> PutPair(d, op = "B_RLIST")
      [] op = "I_POPF"                  -> PopArg(d)
      [] op \in {"I_CALL", "I_DEPART"}  -> BuildTerm(d, instr[3], Call(instr[2], LastArgs(d, instr[3])))
      [] op = "I_CALL_FV1"              -> Push(d, Call(instr[3], << <<instr[2]>> >>))
      [] op = "I_USERCALL0"             -> BuildTerm(d, 1, [k |-> "$call"])
      [] op = "B_THROW"                 -> BuildTerm(d, 1, [k |-> "$throw"])
      [] op = "A_INTEGER"               -> Push(d, Num(instr[2]))
      [] op = "A_VAR"                   -> Push(d, Var(instr[2]))
      [] op = "A_FUNC2"                 -> BuildTerm(d, 2, Plus(Arg(d, 1), Arg(d, 0)))
      [] op = "A_IS"                    -> BuildTerm(d, 2, Is(Arg(d, 1)[1], Arg(d, 0)))
      [] op \in Range(CompareInstr)     ->
            BuildTerm(d, 2, Compare(CHOOSE o \in DOMAIN CompareInstr : CompareInstr[o] = op,
                                    Arg(d, 1), Arg(d, 0)))
      [] op = "I_CATCH"                 -> Push(d, [k |-> "$catch"])
      [] op = "I_FAIL"                  -> Push(d, Fail)
      [] op = "I_TRUE"                  -> Push(d, True)
      [] op \in {"I_CUT", "C_LCUT"}     -> Push(d, Cut)
      [] op \in {"C_VAR", "C_JMP", "A_ENTER"} -> [d EXCEPT !.pc = next]
      [] op = "C_OR" ->
            LET left  == DecompileToJump(code, next)
                right == DecompileToJump(code, left.pc)
            IN  Push([d EXCEPT !.pc = right.pc - 1], Or(Built(left), Built(right)))
      [] op = "C_NOT" ->
            LET goal == DecompileBody(code, At(next), "C_CUT", 0)
            IN  Push([d EXCEPT !.pc = goal.pc + 1], Not(Built(goal)))
      [] op \in {"C_SOFTIF", "C_IFTHENELSE"} ->
            LET soft == op = "C_SOFTIF"
                if   == DecompileBody(code, At(next), IF soft THEN "C_SOFTCUT" ELSE "C_CUT", 0)
                then == DecompileBody(code, At(if.pc + 1), "none", next + instr[3])
                else == DecompileToJump(code, then.pc)
                test == IF soft THEN Soft(Built(if), Built(then)) ELSE Then(Built(if), Built(then))
            IN  Push([d EXCEPT !.pc = else.pc - 1], Or(test, Built(else)))
      [] op = "C_MARK" ->
            LET if   == DecompileBody(code, At(next), "C_CUT", 0)
                then == DecompileBody(code, At(if.pc + 1), "C_END", 0)
            IN  Push([d EXCEPT !.pc = then.pc], Then(Built(if), Built(then)))

\* decompileBody(): up to the instruction end or the position until.
DecompileBody(code, d, end, until) ==
    IF d.pc # until /\ code[d.pc][1] # end
    THEN DecompileBody(code, DecompileInstr(code, d), end, until)
    ELSE [d EXCEPT !.args = << JoinGoals(@) >>]

\* A parameter on its own in the head has no code but H_VOID, or none.
Parameter(n) == <<Parameters[n]>>

\* decompile_head(): up to the body.  What no instruction fills in a pair is void.
RECURSIVE DecompileHead(_, _)
DecompileHead(code, d) ==
    LET op == code[d.pc][1]
    IN  CASE op \in {"I_ENTER", "I_EXITFACT"}          -> d
          [] op \in {"H_CONST", "H_VAR", "H_FIRSTVAR"} ->
                DecompileHead(code, PutArg(d, <<code[d.pc][2]>>))
          [] op = "H_VOID" ->
                LET t == IF d.path = <<>> THEN Parameter(Len(d.args) + 1) ELSE Void
                IN  DecompileHead(code, PutArg(d, t))
          [] op \in {"H_LIST", "H_RLIST"}             ->
                DecompileHead(code, PutPair(d, op = "H_RLIST"))
          [] op = "I_POPF"                            -> DecompileHead(code, PopArg(d))

\* decompile()
Decompile(c) ==
    LET head == DecompileHead(c.code, At(1))
    IN  Rule(head.args \o [i \in 1 .. c.arity - Len(head.args) |-> Parameter(Len(head.args) + i)],
             IF Last(c.code) = <<"I_EXITFACT">> THEN True
             ELSE Built(DecompileBody(c.code, At(head.pc + 1), "I_EXIT", 0)))
-----------------------------------------------------------------------------
\* The source a clause is expected to come back as: conjunctions to the
\* right, and a variable that occurs once is anonymous.
RECURSIVE Named(_, _), Canonical(_, _)
NamedAll(ts, indexed) == [i \in DOMAIN ts |-> Named(ts[i], indexed)]
Named(t, indexed) ==
    IF ~IsLeaf(t) THEN <<Named(t[1], indexed), Named(t[2], indexed)>>
    ELSE IF t[1] \in Range(Variables) \ indexed THEN Void ELSE t
Canonical(g, indexed) ==
    CASE g.k = "," /\ g.a.k = ","  -> Canonical(And(g.a.a, And(g.a.b, g.b)), indexed)
      [] g.k = "," /\ g.a.k # ","  -> And(Canonical(g.a, indexed), Canonical(g.b, indexed))
      [] g.k \in {";", "->", "*->"} ->
            [g EXCEPT !.a = Canonical(@, indexed), !.b = Canonical(@, indexed)]
      [] g.k = "\\+"  -> Not(Canonical(g.a, indexed))
      [] g.k = "call" -> Call(g.p, NamedAll(g.args, indexed))
      [] g.k = "is"   -> Is(Named(<<g.x>>, indexed)[1], g.e)
      [] OTHER        -> g

CanonicalClause(c) ==
    LET indexed == IndexedIn(c)
        head    == NamedAll(c.head, indexed)
    IN  Rule([i \in DOMAIN head |-> IF head[i] = Void THEN Parameter(i) ELSE head[i]],
             Canonical(c.body, indexed))
=============================================================================
