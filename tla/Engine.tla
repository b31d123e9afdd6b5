------------------------------- MODULE Engine -------------------------------
(***************************************************************************)
(* The virtual machine of pl-wam.c (PL_next_solution() with debugging      *)
(* off) on code of BodyCompiler, and the host that opens a query, asks for *)
(* solutions and cuts or closes it.                                        *)
(*                                                                         *)
(* The local stack is an array of units.  A frame with its arguments takes *)
(* one unit, the other variables of its clause a second one if it has any, *)
(* a choice point one.  As in the code the order of creation is the order  *)
(* of addresses, and what is above lTop stays in memory until it is        *)
(* overwritten.  Unit 0 is NULL; the variable of the host lives there.     *)
(* The global stack is a sequence of cells, two for a pair (the functor    *)
(* takes none); it lies below the local stack.                             *)
(***************************************************************************)
EXTENDS Decompiler, Integers, FiniteSets

CONSTANTS Programs,    \* the programs to run, each with p(X) and "$call"
          StackSize,   \* bound: the units of the local stack
          MaxSignals   \* bound: the asynchronous exceptions of a query

VARIABLES program,     \* the source of the program
          code,        \* its compiled clauses
          expected,    \* what the host should see (PrologGoals)
          vm           \* the registers and stacks of the engine

vars == <<program, code, expected, vm>>

NULL == 0
QueryChoice == 1                            \* QF->choice
QueryFrame  == 2                            \* QF->frame
SignalBall  == "e"                          \* what a signal handler throws

-----------------------------------------------------------------------------
(* Terms.  A slot of memory is unbound, an atom <<c>>, a pair at a cell, a    *)
(* reference to another slot, or garbage.                                     *)
Free    == <<>>
Garbage == <<"garbage", NULL>>
Ref(addr, slot) == <<"ref", addr, slot>>
Cell(i)    == Ref(i, "G")
PairAt(i)  == <<"pair", i>>
IsRef(v)   == Len(v) = 3
IsPair(v)  == Len(v) = 2 /\ v[1] = "pair"
OnGlobal(r) == r[3] = "G"
Slot(m, r) == IF OnGlobal(r) THEN m.global[r[2]] ELSE m.stack[r[2]][r[3]]

RECURSIVE Deref(_, _), SlotOf(_, _), Reified(_, _)
Deref(m, v) == IF IsRef(v) /\ Slot(m, v) # Free THEN Deref(m, Slot(m, v)) ELSE v
\* deRef() of a pointer: the slot at the end of the references in slot r.
SlotOf(m, r) == LET v == Slot(m, r) IN IF IsRef(v) THEN SlotOf(m, v) ELSE r
\* The term v, its variables being their slots.
Reified(m, v) ==
    LET w == Deref(m, v)
    IN  IF IsPair(w) THEN <<Reified(m, Cell(w[2])), Reified(m, Cell(w[2] + 1))>> ELSE w

Assign(m, r, v) ==
    IF OnGlobal(r) THEN [m EXCEPT !.global[r[2]] = v] ELSE [m EXCEPT !.stack[r[2]][r[3]] = v]

\* The order of addresses; two places share a unit.
Adjacent == { <<"X", "W">>, <<"Y", "Z">> }
Below(r, s) ==
    \/ OnGlobal(r) /\ (OnGlobal(s) => r[2] < s[2])
    \/ ~OnGlobal(r) /\ ~OnGlobal(s) /\ (r[2] < s[2] \/
                                      (r[2] = s[2] /\ << r[3], s[3] >> \in Adjacent))

\* Mutant: it leaves out the cell just below the bar as well.
BindBelowBar(m, r, v) ==
    [Assign(m, r, v) EXCEPT !.trail = IF ~OnGlobal(r) \/ r[2] < m.bar THEN Append(@, r) ELSE @,
                            !.log = Append(@, r)]

\* Trail(): a cell that is newer than the newest mark goes by itself.
Bind(m, r, v) ==
    [Assign(m, r, v) EXCEPT !.trail = IF ~OnGlobal(r) \/ r[2] <= m.bar THEN Append(@, r) ELSE @,
                            !.log = Append(@, r)]

\* H_CONST, PL_unify_atom()
Failed(m) == [m EXCEPT !.mode = "failed"]
UnifyConst(m, v, c) ==
    LET w == Deref(m, v)
    IN  IF IsRef(w) THEN Bind(m, w, <<c>>)
        ELSE IF w = <<c>> THEN m ELSE Failed(m)

\* Mutant: the older variable is bound.
RECURSIVE UnifyUpwards(_, _, _)
UnifyUpwards(m, r1, r2) ==
    LET t1 == SlotOf(m, r1)
        t2 == SlotOf(m, r2)
        w1 == Slot(m, t1)
        w2 == Slot(m, t2)
    IN  IF w1 = Free /\ w2 = Free
        THEN IF Below(t1, t2) THEN Bind(m, t1, t2)
             ELSE IF t1 = t2 THEN m ELSE Bind(m, t2, t1)
        ELSE IF w1 = Free THEN Bind(m, t1, w2)
        ELSE IF w2 = Free THEN Bind(m, t2, w1)
        ELSE IF w1 = w2 THEN m
        ELSE IF ~IsPair(w1) \/ ~IsPair(w2) THEN Failed(m)
        ELSE LET left == UnifyUpwards(m, Cell(w1[2]), Cell(w2[2]))
             IN  IF left.mode = "failed" THEN left
                 ELSE UnifyUpwards(left, Cell(w1[2] + 1), Cell(w2[2] + 1))

\* unify() of the slots r1 and r2
RECURSIVE Unify(_, _, _)
Unify(m, r1, r2) ==
    LET t1 == SlotOf(m, r1)
        t2 == SlotOf(m, r2)
        w1 == Slot(m, t1)
        w2 == Slot(m, t2)
    IN  IF w1 = Free /\ w2 = Free
        THEN IF Below(t1, t2) THEN Bind(m, t2, t1)
             ELSE IF t1 = t2 THEN m ELSE Bind(m, t1, t2)
        ELSE IF w1 = Free THEN Bind(m, t1, w2)
        ELSE IF w2 = Free THEN Bind(m, t2, w1)
        ELSE IF w1 = w2 THEN m
        ELSE IF ~IsPair(w1) \/ ~IsPair(w2) THEN Failed(m)
        ELSE LET left == Unify(m, Cell(w1[2]), Cell(w2[2]))
             IN  IF left.mode = "failed" THEN left
                 ELSE Unify(left, Cell(w1[2] + 1), Cell(w2[2] + 1))

Exists(m, r) ==
    IF OnGlobal(r) THEN r[2] \in DOMAIN m.global ELSE r[3] \in DOMAIN m.stack[r[2]]

RECURSIVE ResetAll(_, _)
ResetAll(m, rs) ==
    IF rs = <<>> THEN m
    ELSE ResetAll(IF Exists(m, Last(rs)) THEN Assign(m, Last(rs), Free) ELSE m, Front(rs))

\* __do_undo()
Undo(m, mark) ==
    [ResetAll(m, SubSeq(m.trail, mark.t + 1, Len(m.trail)))
        EXCEPT !.trail = SubSeq(@, 1, mark.t), !.global = SubSeq(@, 1, mark.g),
               !.log = SubSeq(@, 1, mark.l)]

-----------------------------------------------------------------------------
(* Frames and choice points *)
Foreign(p)     == program[p].kind \in {"foreign", "test"}

\* A goal that call/1 has to compile is a clause of "$call" for as long as
\* it runs.
FreedClause       == [key |-> "_", code |-> <<>>, slots |-> 0]
ClauseAt(m, p, i) == IF p = "$call" THEN m.temps[i] ELSE code[p][i]
ClauseOf(m, f)    == ClauseAt(m, m.stack[f].pred, m.stack[f].clause)

\* The first address behind frame f and the variables of its clause.
Top(m, f) == f + 1 + IF Foreign(m.stack[f].pred) THEN 0 ELSE ClauseOf(m, f).slots

\* Mark(): the tops of the trail and of the global stack, and of the log, a
\* history variable: the slots that were assigned, trailed or not.
Mark(m) == [t |-> Len(m.trail), g |-> Len(m.global), l |-> Len(m.log)]

\* newChoice() with its mark and what to do on backtracking
NewChoice(m, type, f, mark, next) ==
    [m EXCEPT !.stack[m.ltop] = [k |-> "choice", type |-> type, frame |-> f,
                                 parent |-> m.bfr, mark |-> mark, next |-> next],
              !.bar = mark.g, !.bfr = m.ltop, !.ltop = @ + 1]

\* leaveDefinitionCL() for the predicate of frame f, unless it is foreign.
\* The clause of a "$call" goes with its frame, all of them with the last.
LeaveDefinition(m, f) ==
    LET p    == m.stack[f].pred
        refs == m.refs[p] - 1
    IN  IF Foreign(p) THEN m
        ELSE [m EXCEPT !.refs[p] = refs,
                       !.temps = [i \in DOMAIN @ |->
                          IF p = "$call" /\ (refs = 0 \/ i = m.stack[f].clause)
                          THEN FreedClause ELSE @[i]]]

\* Mutant: foreign predicates are not told.
DiscardFrameSilently(m, f) == [LeaveDefinition(m, f) EXCEPT !.stack[f].clause = NULL]

\* discardFrame(): a foreign predicate is told that its context is cut.
DiscardFrame(m, f) ==
    LET cutted == Foreign(m.stack[f].pred) /\ m.stack[f].clause # NULL
    IN  [LeaveDefinition(m, f) EXCEPT !.stack[f].clause = NULL,
                                      !.open = IF cutted THEN @ - 1 ELSE @]

\* Discard f and its ancestors that are newer than frame fr.
RECURSIVE DiscardFrames(_, _, _)
DiscardFrames(m, f, fr) ==
    IF f > fr /\ m.stack[f].clause # NULL
    THEN DiscardFrames(DiscardFrame(m, f), m.stack[f].parent, fr) ELSE m

\* Drop the choice points above address keep, with their frames above fr.
RECURSIVE DropChoices(_, _, _)
DropChoices(m, keep, fr) ==
    IF m.bfr > keep
    THEN DropChoices([DiscardFrames(m, m.stack[m.bfr].frame, fr)
                        EXCEPT !.bfr = m.stack[m.bfr].parent], keep, fr)
    ELSE m

DiscardChoicesAfter(m, fr) ==
    LET m1 == DropChoices(m, fr, fr) IN [m1 EXCEPT !.bar = m1.stack[m1.bfr].mark.g]

RECURSIVE ChoicesFrom(_, _)
ChoicesFrom(m, ch) == IF ch = NULL THEN {} ELSE {ch} \cup ChoicesFrom(m, m.stack[ch].parent)

RECURSIVE FramesFrom(_, _)
FramesFrom(m, f) == IF f = NULL THEN {} ELSE {f} \cup FramesFrom(m, m.stack[f].parent)

-----------------------------------------------------------------------------
(* Calls *)

\* ARGP, the argument pointer: into the frame of the clause or a pair or, as
\* NextArg(i), at argument i of the frame that is built above lTop (args).
NextArg(i) == <<"next", i>>
Second(args) == IF Len(args) = 2 THEN args[2] ELSE Free
Skip(m) == [m EXCEPT !.pc.i = @ + 1, !.mode = "run"]
Jump(pc, n) == [pc EXCEPT !.i = @ + n]

\* retry_continue: lTop is set and the flags cleared before signals are handled.
RetryContinue(m) ==
    [m EXCEPT !.mode = "call", !.ltop = m.fr + 1, !.stack[m.fr].catched = FALSE]

\* normal_call: build the frame that runs p on args and continues at pc.
NormalCall(m, p, args, pc) ==
    RetryContinue([m EXCEPT
      !.stack[m.ltop] = [k |-> "frame", X |-> args[1], W |-> Second(args), parent |-> m.fr, pred |-> p,
                         clause |-> NULL, pp |-> pc, catched |-> FALSE],
      !.fr = m.ltop])

\* The first pass of copyFrameArguments() on argument i: a variable of frame f,
\* which is used again, will be argument i itself.  It keeps a reference to
\* that place for the arguments that share it.
MoveArgument(m, f, i) ==
    LET v == m.args[i]
    IN  IF ~(IsRef(v) /\ ~OnGlobal(v) /\ v[2] >= f) THEN m
        ELSE IF Slot(m, v) = Free
             THEN [Assign(m, v, Ref(f, Parameters[i])) EXCEPT !.args[i] = Free]
             ELSE [m EXCEPT !.args[i] = Slot(m, v)]

\* Mutant: the reference is not kept.
CopyArgumentsApart(m, f) ==
    LET m1 == MoveArgument(m, f, 1)
        m2 == IF Len(m.args) = 1 THEN m1 ELSE MoveArgument([m1 EXCEPT !.stack = m.stack], f, 2)
    IN  [m2 EXCEPT !.stack[f].X = m2.args[1], !.stack[f].W = Second(m2.args)]

\* copyFrameArguments() into frame f
CopyArguments(m, f) ==
    LET m1 == MoveArgument(m, f, 1)
        m2 == IF Len(m.args) = 1 THEN m1 ELSE MoveArgument(m1, f, 2)
    IN  [m2 EXCEPT !.stack[f].X = m2.args[1], !.stack[f].W = Second(m2.args)]

\* findClause() and nextClause(): the first clause from the i-th on that the
\* index on the first argument does not exclude; 0 is none.
FindClause(m, f, i) ==
    LET key     == Deref(m, Ref(f, "X"))
        clauses == code[m.stack[f].pred]
        match   == {j \in i .. Len(clauses) :
                       IsRef(key) \/ clauses[j].key \in {"_", IF IsPair(key) THEN "." ELSE key[1]}}
    IN  IF match = {} THEN 0 ELSE CHOOSE j \in match : \A n \in match : j <= n

\* Start clause i in frame f.
StartClause(m, f, i) ==
    LET m1 == [m EXCEPT !.stack[f].clause = i, !.mode = "run", !.argp = Ref(f, "X"),
                        !.pc = [pred |-> m.stack[f].pred, clause |-> i, i |-> 1]]
    IN  [m1 EXCEPT !.ltop = Top(m1, f),
                   !.stack[f + 1] = IF Top(m1, f) = f + 1 THEN @
                      ELSE [k |-> "vars", Y |-> Garbage, Z |-> Garbage, c |-> [n \in 1 .. 3 |-> NULL]]]

\* Run clause i of frame f, with a choice point if another one matches.
RunClause(m, f, i) ==
    LET m1   == StartClause(m, f, i)
        next == FindClause(m, f, i + 1)
    IN  IF next = 0 THEN m1 ELSE NewChoice(m1, "CLAUSE", f, Mark(m1), next)

\* I_USERCALL0: call a goal of which v is the variable.  A conjunction or
\* disjunction is compiled to a clause that starts at once: there is no
\* call port and no signal is handled.
UserCall(m, goal, v, pc) ==
    LET f == m.ltop
    IN  IF goal.k \notin {",", ";"}
        THEN NormalCall(m, goal.p, [i \in DOMAIN goal.args |->
                                      IF goal.args[i] = <<"X">> THEN v ELSE goal.args[i]], pc)
        ELSE StartClause([m EXCEPT
               !.temps = Append(@, CompileClause(Rule(<< <<"X">> >>, goal))), !.refs["$call"] = @ + 1,
               !.stack[f] = [k |-> "frame", X |-> v, W |-> Free, parent |-> m.fr, pred |-> "$call",
                             clause |-> NULL, pp |-> pc, catched |-> m.stack[m.fr].catched],
               !.fr = f], f, Len(m.temps) + 1)

\* exit_builtin, I_EXIT
ExitFrame(m) ==
    LET f   == m.fr
        det == m.bfr <= f
        m1  == IF det THEN [LeaveDefinition(m, f) EXCEPT !.ltop = f] ELSE m
    IN  IF m.stack[f].parent # NULL
        THEN [m1 EXCEPT !.mode = "run", !.pc = m.stack[f].pp, !.fr = m.stack[f].parent,
                        !.argp = NextArg(1)]
        ELSE [m1 EXCEPT !.mode = "yes", !.det = (m.bfr = QueryChoice),
                        !.ltop = IF m.bfr = QueryChoice THEN f + 1 ELSE @,
                        !.answers = Append(@, Shown(Reified(m, Ref(NULL, "X"))))]

-----------------------------------------------------------------------------
(* Exceptions *)

\* Mutant: FR_CATCHED is not tested.
RECURSIVE FindCatcherAgain(_, _, _)
FindCatcherAgain(m, f, ball) ==
    IF f = NULL THEN NULL
    ELSE LET d == program[m.stack[f].pred]
         IN  IF d.kind = "catch" /\ d.catcher \in {ball, "_"}
             THEN f ELSE FindCatcherAgain(m, m.stack[f].parent, ball)

\* findCatcher(): a frame of catch/3 catches once.
RECURSIVE FindCatcher(_, _, _)
FindCatcher(m, f, ball) ==
    IF f = NULL THEN NULL
    ELSE LET d == program[m.stack[f].pred]
         IN  IF d.kind = "catch" /\ ~m.stack[f].catched /\ d.catcher \in {ball, "_"}
             THEN f ELSE FindCatcher(m, m.stack[f].parent, ball)

RECURSIVE Unwind(_, _)
Unwind(m, catchfr) ==
    IF m.fr > catchfr
    THEN Unwind([DiscardFrame(DiscardChoicesAfter(m, m.fr), m.fr)
                   EXCEPT !.fr = m.stack[m.fr].parent], catchfr)
    ELSE m

\* b_throw.  Without its choice point a frame of catch/3 fails the assertion
\* or, if it happens to find an old one in memory, goes on with that.  The Mark()
\* of unify_ptrs() raises the bar.
Throw(m, ball) ==
    LET c  == FindCatcher(m, m.fr, ball)
        m1 == DiscardChoicesAfter(Unwind(m, c), c)
        m2 == Undo(m1, m1.stack[c + 1].mark)
        d  == program[m1.stack[c].pred]
        exit == [pred |-> m1.stack[c].pred, clause |-> 1,
                 i |-> Len(code[m1.stack[c].pred][1].code)]
    IN  IF c = NULL
        THEN [Undo(Unwind(m, NULL), m.stack[QueryChoice].mark) EXCEPT
                !.mode = "exception", !.det = TRUE, !.ball = ball,
                !.fr = QueryFrame, !.ltop = QueryFrame + 1]
        ELSE IF c + 1 \notin ChoicesFrom(m, m.bfr) \/ m.stack[c + 1].type # "CATCH"
        THEN [m EXCEPT !.mode = "assert"]
        ELSE UserCall([m2 EXCEPT !.ltop = c + 1, !.stack[c].catched = TRUE, !.bar = Len(m2.global)],
                      d.recover, Deref(m2, Ref(c, "X")), exit)

-----------------------------------------------------------------------------
(* The instructions *)

Here == ClauseAt(vm, vm.pc.pred, vm.pc.clause).code[vm.pc.i]
Instr(name) == vm.mode = "run" /\ Here[1] = name
CutVar(m, n) == m.stack[m.fr + 1].c[n]
SetCutVar(m, n, ch) == [m EXCEPT !.stack[m.fr + 1].c[n] = ch]

VarRef(x) == Ref(IF x \in Range(Parameters) THEN vm.fr ELSE vm.fr + 1, x)

After(r) == IF ~IsRef(r) THEN NextArg(r[2] + 1)
            ELSE IF OnGlobal(r) THEN Cell(r[2] + 1) ELSE Ref(r[2], "W")
\* ARGP++
Advance(m) == [Skip(m) EXCEPT !.argp = After(@)]

I_ENTER == Instr("I_ENTER") /\ vm' = [Skip(vm) EXCEPT !.argp = NextArg(1)]

H_CONST == Instr("H_CONST") /\ vm' = UnifyConst(Advance(vm), vm.argp, Here[2])
H_VOID  == Instr("H_VOID") /\ vm' = Advance(vm)
H_VAR   == Instr("H_VAR") /\ vm' = Unify(Advance(vm), VarRef(Here[2]), vm.argp)
H_FIRSTVAR == Instr("H_FIRSTVAR")
    /\ LET v == Slot(vm, vm.argp)
       IN  vm' = Assign(Advance(vm), VarRef(Here[2]), IF v = Free THEN vm.argp ELSE v)

\* A new pair on the global stack, its elements set to v, with ARGP in it.
NewPair(m, v) == [m EXCEPT !.global = @ \o <<v, v>>, !.argp = Cell(Len(m.global) + 1)]
\* Push ARGP + 1 unless the pair is the last argument.
PushArgp(m, right) ==
    [Skip(m) EXCEPT !.astack = IF right THEN @ ELSE Append(@, After(m.argp))]

MatchPair(m) ==
    LET r == SlotOf(m, m.argp)
        v == Slot(m, r)
    IN  IF v = Free THEN NewPair(Bind(m, r, PairAt(Len(m.global) + 1)), Free)
        ELSE IF IsPair(v) THEN [m EXCEPT !.argp = Cell(v[2])]
        ELSE Failed(m)
H_LIST == (Instr("H_LIST") \/ Instr("H_RLIST"))
    /\ vm' = MatchPair(PushArgp(vm, Here[1] = "H_RLIST"))

I_POPF == Instr("I_POPF")
    /\ vm' = [Skip(vm) EXCEPT !.argp = Last(vm.astack), !.astack = Front(@)]

\* *ARGP = v and *ARGP++ = v
Store(m, v) ==
    IF IsRef(m.argp) THEN Assign(m, m.argp, v)
    ELSE [m EXCEPT !.args = Append(SubSeq(@, 1, m.argp[2] - 1), v)]
Put(m, v)   == Advance(Store(m, v))

\* An argument of the next frame: linkVal() for a variable of this one.
B_VAR      == Instr("B_VAR") /\ vm' = Put(vm, Deref(vm, VarRef(Here[2])))
B_CONST    == Instr("B_CONST") /\ vm' = Put(vm, <<Here[2]>>)
B_VOID     == Instr("B_VOID") /\ vm' = Put(vm, Free)
B_FIRSTVAR == Instr("B_FIRSTVAR")
    /\ vm' = Put(Assign(vm, VarRef(Here[2]), Free), VarRef(Here[2]))

\* The elements of a new pair are not initialised.
B_LIST == (Instr("B_LIST") \/ Instr("B_RLIST"))
    /\ LET m == PushArgp(vm, Here[1] = "B_RLIST")
       IN  vm' = NewPair(Store(m, PairAt(Len(m.global) + 1)), Garbage)

\* A variable in a pair: one on the local stack moves into the pair.
PutVariable(m, k) ==
    LET v == Slot(m, k)
    IN  IF v # Free THEN Put(m, v)
        ELSE IF Below(m.argp, k) THEN Bind(Put(m, Free), k, m.argp)
        ELSE Put(m, k)
B_ARGVAR == Instr("B_ARGVAR") /\ vm' = PutVariable(vm, SlotOf(vm, VarRef(Here[2])))
B_ARGFIRSTVAR == Instr("B_ARGFIRSTVAR")
    /\ vm' = Assign(Put(vm, Free), VarRef(Here[2]), vm.argp)

C_VAR == Instr("C_VAR") /\ vm' = Assign(Skip(vm), VarRef(Here[2]), Free)

CallHere(m) == NormalCall(m, Here[2], m.args, Jump(m.pc, 1))

I_CALL == Instr("I_CALL") /\ vm' = CallHere(vm)

\* Mutant: the definition of the frame is not left.
ReuseFrameEntered(m, p) ==
    RetryContinue([CopyArguments(m, m.fr) EXCEPT !.stack[m.fr].pred = p])

\* The last call uses the frame of its clause again if nothing is left to
\* come back to.
ReuseFrame(m, p) ==
    RetryContinue([CopyArguments(LeaveDefinition(m, m.fr), m.fr)
                     EXCEPT !.stack[m.fr].pred = p])

I_DEPART == Instr("I_DEPART")
    /\ vm' = IF vm.bfr <= vm.fr THEN ReuseFrame(vm, Here[2]) ELSE CallHere(vm)

I_EXIT == (Instr("I_EXIT") \/ Instr("I_EXITFACT")) /\ vm' = ExitFrame(vm)
I_TRUE == (Instr("I_TRUE") \/ Instr("C_END")) /\ vm' = Skip(vm)
I_FAIL == (Instr("I_FAIL") \/ Instr("C_FAIL")) /\ vm' = Failed(vm)

CutFrame(m) ==
    LET m1 == DiscardChoicesAfter(m, m.fr) IN [m1 EXCEPT !.ltop = Top(m1, m.fr)]
I_CUT == Instr("I_CUT") /\ vm' = CutFrame(Skip(vm))

\* Mutant: what is above what is left stays.
CutToKeepsTop(m, och) ==
    LET fr == IF m.fr > m.stack[och].frame THEN m.fr ELSE m.stack[och].frame
        m1 == DropChoices(m, och, fr)
    IN  IF m1.bfr # och THEN [m1 EXCEPT !.mode = "assert"] ELSE m1

\* Cut back to choice point och.
CutTo(m, och) ==
    LET fr == IF m.fr > m.stack[och].frame THEN m.fr ELSE m.stack[och].frame
        m1 == DropChoices(m, och, fr)
    IN  IF m1.bfr # och THEN [m1 EXCEPT !.mode = "assert"]
        ELSE [m1 EXCEPT !.ltop = IF och > fr THEN och + 1 ELSE Top(m1, fr)]

C_CUT == Instr("C_CUT") /\ vm' = CutTo(Skip(vm), CutVar(vm, Here[2]))

\* A cut in a condition keeps the first choice point made since the mark,
\* which is taken to be that of the condition itself.
LocalCut(m, och) ==
    LET since == {ch \in ChoicesFrom(m, m.bfr) : m.stack[ch].parent = och}
    IN  IF since # {} THEN CutTo(m, CHOOSE ch \in since : TRUE)
        ELSE IF m.bfr # och THEN [m EXCEPT !.mode = "assert"] ELSE m
C_LCUT == Instr("C_LCUT") /\ vm' = LocalCut(Skip(vm), CutVar(vm, Here[2]))

C_SOFTCUT == Instr("C_SOFTCUT")
    /\ vm' = [Skip(vm) EXCEPT !.stack[CutVar(vm, Here[2])].type = "NONE"]

C_JMP  == Instr("C_JMP") /\ vm' = [vm EXCEPT !.pc = Jump(@, 1 + Here[2])]
C_MARK == Instr("C_MARK") /\ vm' = SetCutVar(Skip(vm), Here[2], vm.bfr)

\* A choice point within the clause.
OrChoice(m, skip) == NewChoice(m, "JUMP", m.fr, Mark(m), Jump(m.pc, skip))

C_OR == Instr("C_OR") /\ vm' = OrChoice(Skip(vm), Here[2])
C_SOFTIF == Instr("C_SOFTIF")
    /\ vm' = OrChoice(SetCutVar(Skip(vm), Here[2], vm.ltop), Here[3])
C_IFTHENELSE == (Instr("C_IFTHENELSE") \/ Instr("C_NOT"))
    /\ vm' = OrChoice(SetCutVar(Skip(vm), Here[2], vm.bfr), Here[3])

\* Call the goal of catch/3 above a choice point to undo to.
CallGoal(m) ==
    UserCall(NewChoice(m, "CATCH", m.fr, Mark(m), NULL),
             program[m.stack[m.fr].pred].goal, Deref(m, Ref(m.fr, "X")), Jump(m.pc, 1))
I_USERCALL0 == Instr("I_USERCALL0")
    /\ vm' = UserCall(vm, program[vm.stack[vm.fr].pred].goal, vm.args[1], Jump(vm.pc, 1))
I_CATCH == Instr("I_CATCH") /\ vm' = CallGoal(vm)

B_THROW == Instr("B_THROW") /\ vm' = Throw(vm, Deref(vm, vm.args[1])[1])

\* A test in C: var/1 or nonvar/1
TestHolds(m, p, v) == program[p].free = IsRef(Deref(m, v))

\* Inline, without a frame of its own
I_CALL_FV1 == Instr("I_CALL_FV1")
    /\ vm' = [IF TestHolds(vm, Here[3], VarRef(Here[2])) THEN Skip(vm) ELSE Failed(vm)
                EXCEPT !.bar = Len(vm.global)]

\* Arithmetic.  A_ENTER makes room for numbers above the arguments of the next
\* frame; they are kept in nums.
A_ENTER   == Instr("A_ENTER") /\ vm' = Skip(vm)
PushNumber(m, n) == [Skip(m) EXCEPT !.nums = Append(@, n)]
A_INTEGER == Instr("A_INTEGER") /\ vm' = PushNumber(vm, Here[2])

\* valueExpression() of an atom, a number or a variable; an error is thrown.
EvalVar(m, v) ==
    LET error == IF IsRef(v) THEN Unbound ELSE NotANumber
    IN  IF ~IsRef(v) /\ IsNumber(v[1]) THEN PushNumber(m, v[1])
        ELSE Throw([m EXCEPT !.nums = <<>>], error)
A_VAR == Instr("A_VAR") /\ vm' = EvalVar(vm, Deref(vm, VarRef(Here[2])))

Pop(m, k) == [Skip(m) EXCEPT !.nums = SubSeq(@, 1, Len(@) - k)]
Number(m, k) == m.nums[Len(m.nums) - k]

A_FUNC2 == Instr("A_FUNC2")
    /\ vm' = [Pop(vm, 2) EXCEPT !.nums = Append(@, Sum(Number(vm, 1), Number(vm, 0)))]

\* A_LT, A_LE, A_EQ: ar_compare() of the last two numbers
A_COMPARE == \E o \in DOMAIN CompareInstr : Instr(CompareInstr[o])
    /\ vm' = IF Holds(o, Number(vm, 1), Number(vm, 0)) THEN Pop(vm, 2) ELSE Failed(Pop(vm, 2))

\* The left argument of is/2 was pushed by a B_ instruction: unify it.  A void
\* is a variable in the next frame, above lTop, and is trailed as well.
Is2(m, v, n) ==
    IF v # Free THEN UnifyConst(m, v, n)
    ELSE [m EXCEPT !.trail = Append(@, Ref(m.ltop, "X")), !.log = Append(@, Ref(m.ltop, "X"))]
A_IS == Instr("A_IS")
    /\ vm' = [Is2(Pop(vm, 1), vm.args[1], Number(vm, 0)) EXCEPT !.argp = NextArg(1)]

-----------------------------------------------------------------------------
(* The call port.  The definition is entered after the signals are handled. *)

EnterClause(m) ==
    LET f == m.fr
        m1 == [m EXCEPT !.refs[m.stack[f].pred] = @ + 1]
        i == FindClause(m, f, 1)
    IN  IF i = 0 THEN Failed([m1 EXCEPT !.stack[f].clause = NULL]) ELSE RunClause(m1, f, i)

Enter == vm.mode = "call" /\ ~Foreign(vm.stack[vm.fr].pred) /\ vm' = EnterClause(vm)

\* callForeign(): the predicate takes the i-th of its values and leaves a
\* choice point if there is another one.  The mark is older than the call.
CallForeign(m, i) ==
    LET f  == m.fr
        d  == program[m.stack[f].pred]
        m1 == [m EXCEPT !.ltop = f + 1, !.stack[f].clause = NULL, !.bar = Len(m.global)]
        v  == Deref(m, Ref(f, "X"))
        m2 == UnifyConst(m1, v, d.values[i])
    IN  IF ~IsRef(v)
        THEN IF v[1] \in Range(d.values) THEN ExitFrame(m1) ELSE Failed(m1)
        ELSE IF i = Len(d.values) THEN ExitFrame(m2)
        ELSE ExitFrame([NewChoice(m2, "FOREIGN", f, Mark(m1), i) EXCEPT
                          !.stack[f].clause = i, !.open = @ + 1])

\* A deterministic predicate
CallTest(m) ==
    LET m1 == [m EXCEPT !.ltop = m.fr + 1, !.stack[m.fr].clause = NULL, !.bar = Len(m.global)]
    IN  IF TestHolds(m, m.stack[m.fr].pred, Ref(m.fr, "X")) THEN ExitFrame(m1) ELSE Failed(m1)

EnterForeign == vm.mode = "call" /\ Foreign(vm.stack[vm.fr].pred)
    /\ vm' = IF program[vm.stack[vm.fr].pred].kind = "test" THEN CallTest(vm) ELSE CallForeign(vm, 1)

\* A signal handler throws at the call port of a goal that is not entered.
\* What is discarded all the same is counted in left and cutted.
SignalAtCall ==
    LET f == vm.fr
        p == vm.stack[f].pred
        reused == Foreign(p) /\ vm.stack[f].clause # NULL
    IN  /\ vm.mode = "call" /\ vm.signals < MaxSignals
        /\ vm' = Throw([vm EXCEPT !.signals = @ + 1, !.atcall = program[p].kind,
                                  !.left = IF Foreign(p) THEN @ ELSE [@ EXCEPT ![p] = @ + 1],
                                  !.cutted = IF reused THEN @ + 1 ELSE @], SignalBall)

-----------------------------------------------------------------------------
(* Backtracking *)

RECURSIVE LeaveFrames(_, _)
LeaveFrames(m, ch) ==
    IF m.fr > ch
    THEN LeaveFrames([LeaveDefinition(m, m.fr) EXCEPT !.fr = m.stack[m.fr].parent], ch)
    ELSE m

\* next_choice: leave the frames above the newest choice point and undo.
Resumed == LET ch == vm.stack[vm.bfr]
           IN  Undo([LeaveFrames(vm, vm.bfr) EXCEPT !.fr = ch.frame, !.astack = <<>>], ch.mark)

Choice(type) == vm.mode \in {"failed", "next"} /\ vm.stack[vm.bfr].type = type
Next1 == vm.stack[vm.bfr].next
\* Mutant: to the frame instead of to the parent.
PoppedToFrame(m) == [m EXCEPT !.bfr = m.stack[m.bfr].frame]
Popped(m) == [m EXCEPT !.bfr = m.stack[m.bfr].parent]

RedoJump == Choice("JUMP")
    /\ vm' = [Popped(Resumed) EXCEPT !.mode = "run", !.pc = Next1, !.ltop = vm.bfr,
                                !.argp = NextArg(1)]
RedoClause == Choice("CLAUSE")
    /\ vm' = RunClause(Popped(Resumed), Resumed.fr, Next1)
RedoForeign == Choice("FOREIGN")
    /\ vm' = CallForeign([Popped(Resumed) EXCEPT !.mode = "run", !.open = @ - 1], Next1 + 1)
RedoTop == Choice("TOP")
    /\ vm' = [Resumed EXCEPT !.mode = "no", !.det = TRUE]
RedoNone == (Choice("CATCH") \/ Choice("NONE"))
    /\ vm' = [Popped(Resumed) EXCEPT !.mode = "next"]

\* Signals are also handled when a goal fails and before an inline test.
Signalled == vm.signals < MaxSignals
    /\ vm' = Throw([vm EXCEPT !.signals = @ + 1], SignalBall)
SignalAtFail == vm.mode = "failed" /\ Signalled
SignalAtTest == Instr("I_CALL_FV1") /\ Signalled

-----------------------------------------------------------------------------
(* The host *)

\* PL_next_solution() after a solution
NextSolution ==
    /\ vm.mode = "yes"
    /\ vm' = IF vm.det THEN [Undo(vm, vm.stack[QueryChoice].mark) EXCEPT !.mode = "no"]
             ELSE Failed(vm)

\* discard_query(), unless the query has ended by itself
DiscardQuery(m) ==
    IF m.det THEN m ELSE DiscardFrame(DiscardChoicesAfter(m, QueryFrame), QueryFrame)

Returned == vm.mode \in {"yes", "no", "exception"}

PL_cut_query   == Returned /\ vm' = [DiscardQuery(vm) EXCEPT !.mode = "cut"]
PL_close_query == Returned
    /\ vm' = [Undo(DiscardQuery(vm), vm.stack[QueryChoice].mark) EXCEPT !.mode = "closed"]

-----------------------------------------------------------------------------
\* PL_open_query() for p(X), and the start of the first PL_next_solution()
QueryStack ==
    [a \in 0 .. StackSize |->
       CASE a = NULL        -> [k |-> "host", X |-> Free]
         [] a = QueryChoice -> [k |-> "choice", type |-> "TOP", frame |-> QueryFrame,
                                parent |-> NULL, mark |-> [t |-> 0, g |-> 0, l |-> 0], next |-> NULL]
         [] a = QueryFrame  -> [k |-> "frame", X |-> Ref(NULL, "X"), W |-> Free, parent |-> NULL,
                                pred |-> "p", clause |-> 1, pp |-> NULL, catched |-> FALSE]
         [] OTHER           -> [k |-> "junk"]]

OpenQuery(prog) ==
    [mode |-> "call", pc |-> [pred |-> "p", clause |-> 1, i |-> 1],
     args |-> <<>>, argp |-> NextArg(1), astack |-> <<>>,
     fr |-> QueryFrame, bfr |-> QueryChoice, ltop |-> QueryFrame + 1,
     stack |-> QueryStack, trail |-> <<>>, global |-> <<>>, bar |-> 0, log |-> <<>>,
     nums |-> <<>>, det |-> FALSE,
     refs |-> [q \in DOMAIN prog |-> 0], temps |-> <<>>, open |-> 0,
     answers |-> <<>>, ball |-> NoBall,
     signals |-> 0, atcall |-> "none", left |-> [q \in DOMAIN prog |-> 0], cutted |-> 0]

Init ==
    /\ program \in Programs
    /\ code = [q \in DOMAIN program |-> Compiled(program[q])]
    /\ expected = Solutions(program, "p")
    /\ vm = OpenQuery(program)

Instruction ==
    \/ H_CONST \/ H_VOID \/ H_VAR \/ H_FIRSTVAR \/ H_LIST \/ I_POPF \/ I_ENTER
    \/ B_VAR \/ B_CONST \/ B_VOID \/ B_FIRSTVAR \/ B_LIST \/ B_ARGVAR \/ B_ARGFIRSTVAR \/ C_VAR
    \/ I_CALL \/ I_DEPART \/ I_EXIT \/ I_TRUE \/ I_FAIL \/ I_CUT
    \/ C_CUT \/ C_LCUT \/ C_SOFTCUT \/ C_JMP \/ C_MARK \/ C_OR \/ C_SOFTIF \/ C_IFTHENELSE
    \/ I_USERCALL0 \/ I_CATCH \/ B_THROW \/ I_CALL_FV1
    \/ A_ENTER \/ A_INTEGER \/ A_VAR \/ A_FUNC2 \/ A_COMPARE \/ A_IS

Backtrack == RedoJump \/ RedoClause \/ RedoForeign \/ RedoTop \/ RedoNone

Host == NextSolution \/ PL_cut_query \/ PL_close_query

Step ==
    \/ Instruction \/ Enter \/ EnterForeign \/ Backtrack
    \/ SignalAtCall \/ SignalAtFail \/ SignalAtTest \/ Host

\* Where the host is done with the query, or the engine with the process.
Over == vm.mode \in {"cut", "closed", "assert"} /\ UNCHANGED vm

Next == (Step \/ Over) /\ UNCHANGED <<program, code, expected>>

Spec == Init /\ [][Next]_vars
-----------------------------------------------------------------------------
(* The local stack and the trail without the data, as Trail has them         *)

\* The engine is at work, or may be asked to go on.
Working == vm.mode \in {"run", "call", "failed", "next"}
Resumable == Working \/ (vm.mode = "yes" /\ ~vm.det)

Pending == IF Resumable THEN ChoicesFrom(vm, vm.bfr) ELSE {}

\* The frames that run or can be run again.
Running == (IF Working THEN FramesFrom(vm, vm.fr) ELSE {})
           \cup UNION {FramesFrom(vm, vm.stack[ch].frame) : ch \in Pending}

AllPreds   == UNION {DOMAIN p : p \in Programs}
AllForeign == UNION {{q \in DOMAIN p : p[q].kind \in {"foreign", "test"}} : p \in Programs}
OfAll(counts) == [q \in AllPreds |-> IF q \in DOMAIN counts THEN counts[q] ELSE 0]

\* A frame that waits at its call port has no variables.
FrameOf(f) ==
    [parent |-> vm.stack[f].parent, chain |-> FramesFrom(vm, f), pred |-> vm.stack[f].pred,
     top |-> IF vm.stack[f].clause = NULL \/ (vm.mode = "call" /\ f = vm.fr) THEN f + 1 ELSE Top(vm, f),
     clause |-> vm.stack[f].clause # NULL]
ChoiceOf(ch) == [type |-> vm.stack[ch].type, frame |-> vm.stack[ch].frame]

Stack == INSTANCE Trail WITH
    Preds <- AllPreds, ForeignPreds <- AllForeign, MetaCall <- "$call", Sizes <- {0, 1},
    mode <- CASE vm.mode \in {"failed", "next"} -> "failed"
              [] vm.mode \in {"call", "run", "assert"} -> vm.mode
              [] OTHER -> IF Resumable THEN "yes" ELSE "over",
    fr <- IF Resumable THEN vm.fr ELSE NULL,
    lTop <- IF Resumable THEN vm.ltop ELSE NULL,
    frame  <- [f \in Running |-> FrameOf(f)],
    choice <- [ch \in Pending |-> ChoiceOf(ch)],
    refs <- OfAll(vm.refs), open <- vm.open, left <- OfAll(vm.left), cutted <- vm.cutted,
    trail <- IF Resumable THEN vm.trail ELSE <<>>,
    gTop <- IF Resumable THEN Len(vm.global) ELSE 0,
    markBar <- IF Resumable THEN vm.bar ELSE 0,
    mark <- [ch \in Pending |-> vm.stack[ch].mark],
    log <- IF Resumable THEN vm.log ELSE <<>>

\* The predicates that the engine counts references of include call/1's.
ASSUME StackAssumption == Stack!WellFormed

-----------------------------------------------------------------------------
(* Properties *)

Addresses == 0 .. StackSize
Modes == {"run", "call", "failed", "next", "yes", "no", "exception", "assert", "cut", "closed"}

\* Types: the registers point into the local stack, which does not overflow,
\* at a frame and at a choice point.
TypeOK ==
    /\ vm.mode \in Modes
    /\ vm.fr \in Addresses /\ vm.stack[vm.fr].k = "frame"
    /\ vm.bfr \in Addresses /\ vm.stack[vm.bfr].k = "choice"
    /\ vm.ltop \in 0 .. StackSize - 2
    /\ vm.refs \in [DOMAIN program -> Int] /\ vm.open \in Int
    /\ vm.signals \in 0 .. MaxSignals /\ vm.bar \in Nat

\* A cut that is local to a condition without a choice point of its own.
RECURSIVE LocalCutIn(_, _)
LocalCutIn(g, marked) ==
    CASE g.k = "!"  -> marked
      [] g.k = ";" /\ g.a.k \in {"->", "*->"} ->
            LocalCutIn(g.a.a, g.a.k = "*->") \/ LocalCutIn(g.a.b, marked) \/ LocalCutIn(g.b, marked)
      [] g.k = "->" -> LocalCutIn(g.a, TRUE) \/ LocalCutIn(g.b, marked)
      [] g.k \in {",", ";"} /\ g.a.k \notin {"->", "*->"} ->
            LocalCutIn(g.a, marked) \/ LocalCutIn(g.b, marked)
      [] g.k = "," /\ g.a.k \in {"->", "*->"} -> LocalCutIn(g.a, marked) \/ LocalCutIn(g.b, marked)
      [] g.k = "\\+" -> LocalCutIn(g.a, FALSE)
      [] OTHER -> FALSE

Bodies(d) ==
    CASE d.kind = "clauses" -> {d.clauses[i].body : i \in DOMAIN d.clauses}
      [] d.kind = "call"    -> {d.goal}
      [] d.kind = "catch"   -> {d.goal, d.recover}
      [] OTHER              -> {}

LocalCutLost == \E p \in DOMAIN program : \E g \in Bodies(program[p]) : LocalCutIn(g, FALSE)

\* What the host sees is what the program means: the answers in their order,
\* no more answers once it is told "no", the right exception, and an unbound
\* variable after PL_close_query().
\* This holds of compileBody(), the cuts, if-then-else, \+, soft-cut, catch/3,
\* last-call optimisation and undo together.  It does not hold of a program
\* with a cut in the condition of *-> or of an if-then without else
\* (C_LCUT), nor of course if a signal throws.
AnswersRight ==
    vm.signals = 0 /\ ~LocalCutLost =>
      /\ IsPrefix(vm.answers, expected.values)
      /\ vm.mode = "no" => vm.answers = expected.values /\ expected.ball = NoBall
      /\ vm.mode = "exception" => vm.answers = expected.values /\ vm.ball = expected.ball
      /\ vm.mode = "closed" => vm.stack[NULL].X = Free

\* References on a definition are what its running frames hold: every frame
\* is entered once and left once, by exit, failure, a cut, a last call or an
\* exception.  Only a goal that is left at its call port by a signal is left
\* without being entered (left).  The clauses that were made for call/1 are
\* those of the frames that run them.
ReferencesExact ==
    vm.mode # "assert" =>
      /\ \A p \in {q \in DOMAIN program : ~Foreign(q)} :
           vm.refs[p] + vm.left[p] =
             Cardinality({f \in Running : vm.stack[f].pred = p /\ ~(vm.mode = "call" /\ f = vm.fr)})
      /\ {i \in DOMAIN vm.temps : vm.temps[i] # FreedClause} =
           {vm.stack[f].clause : f \in {g \in Running : vm.stack[g].pred = "$call"}}

\* A nondeterministic foreign predicate is called back exactly once, to go on
\* or to clean up, for every context it returned: contexts and choice points
\* agree.  A frame reused for such a call and left by a signal at the port
\* cleans up a context it never returned (cutted).
ContextsExact ==
    vm.mode # "assert" =>
      vm.open + vm.cutted = Cardinality({ch \in Pending : vm.stack[ch].type = "FOREIGN"})

\* The local stack: frames and choice points that are still needed lie below
\* lTop and were not overwritten, a choice point is newer than its frame, the
\* chains go down, and the choice point of a pending cut is still there.  No
\* variable is read that its clause did not set on the path that was taken:
\* what balanceVars() is for.
StackSound ==
    /\ \A ch \in Pending :
         /\ ch < vm.ltop /\ vm.stack[ch].k = "choice"
         /\ vm.stack[ch].frame < ch \/ ch = QueryChoice
         /\ vm.stack[ch].parent < ch
    /\ \A f \in Running :
         /\ vm.stack[f].k = "frame" /\ vm.stack[f].parent < f
         /\ f < vm.ltop \/ vm.mode = "yes"
         /\ ~Foreign(vm.stack[f].pred) /\ vm.stack[f].clause # NULL /\ ~(f = vm.fr /\ vm.mode = "call")
              => /\ Top(vm, f) <= vm.ltop \/ vm.mode = "yes"
                 /\ Top(vm, f) > f + 1 => vm.stack[f + 1].k = "vars"
    /\ \A name \in {"C_CUT", "C_LCUT", "C_SOFTCUT"} :
         Instr(name) => CutVar(vm, Here[2]) \in Pending
    /\ \A name \in {"H_VAR", "B_VAR", "B_ARGVAR", "I_CALL_FV1", "A_VAR"} :
         Instr(name) => Slot(vm, VarRef(Here[2])) # Garbage

\* What Trail says of the trail: Undo() to any choice point resets exactly what
\* was assigned since and is older than it, writes over nothing in use, and
\* Trail() leaves out no cell that a choice point comes back to.
TrailSafe == Stack!TrailSafe

\* The slots of running frames that hold terms.
ArgumentSlots == {Ref(f, x) : f \in Running, x \in {"X", "W"}}
Locals    == {Ref(f + 1, x) : x \in {"Y", "Z"},
                f \in {g \in Running : /\ ~Foreign(vm.stack[g].pred) /\ vm.stack[g].clause # NULL
                                       /\ ~(vm.mode = "call" /\ g = vm.fr) /\ Top(vm, g) > g + 1}}
Cells     == {Cell(i) : i \in DOMAIN vm.global}

\* A value that can be used: what it leads to is still there.
Present(v) ==
    /\ v # Garbage
    /\ IsRef(v)  => Exists(vm, v)
    /\ IsPair(v) => v[2] + 1 \in DOMAIN vm.global

\* References lead to older memory, and never from the global to the local
\* stack: a frame that goes leaves no reference to it.  Whenever a goal is
\* called, fails or is answered the pairs that were built are complete.  A
\* variable of a clause may be left with a reference to pairs that backtracking
\* took away, but is set again before it is read.
TermsSound ==
    /\ \A r \in Cells : vm.mode \in {"call", "failed", "yes", "no"} => Slot(vm, r) # Garbage
    /\ \A r \in Cells \cup ArgumentSlots : Slot(vm, r) # Garbage => Present(Slot(vm, r))
    /\ \A r \in Cells \cup ArgumentSlots \cup Locals :
         LET v == Slot(vm, r) IN IsRef(v) => Below(v, r)
    /\ \A name \in {"H_VAR", "B_VAR", "B_ARGVAR", "I_CALL_FV1", "A_VAR"} :
         Instr(name) => Present(Slot(vm, VarRef(Here[2])))

\* The assertions of B_THROW (a catch/3 that catches still has its choice
\* point), C_CUT and C_LCUT hold, unless a signal is handled at the call port
\* of that catch/3.
AssertionsHold == vm.mode = "assert" => vm.atcall = "catch"

\* clause/2, retract/1 and listing/1 show the clauses that were loaded: the
\* decompiler inverts the compiler, up to the nesting of conjunctions and
\* the names of variables.  The code does not change, so the first state of
\* a program will do.
DecompiledRight ==
    vm = OpenQuery(program) =>
      \A p \in DOMAIN program : \A i \in DOMAIN code[p] :
         Decompile(code[p][i]) = CanonicalClause(Source(program[p])[i])

\* Each step of PL_next_solution() and of the host, on the code the compiler
\* makes, does to the local stack and the trail what Trail says, or leaves
\* them alone: what is proved of them (LocalStackProofs, TrailProofs) holds of
\* every clause.
StacksHold == Stack!TrailSpec
=============================================================================
