---------------------------- MODULE PrologGoals ----------------------------
(***************************************************************************)
(* The goals of clause bodies, and what they mean.                         *)
(*                                                                         *)
(* A term is an atom or a variable <<name>>, or a pair <<t, u>> of terms:  *)
(* [t|u], a term of the functor ./2.  Predicates have one or two          *)
(* arguments.  The variables of a clause are X and W, which are its first  *)
(* and second argument, Y and Z, and the anonymous "_".  The               *)
(* operators Run and RunPred are the textbook meaning of a program: the    *)
(* answers of a goal, in order, and how it ends.  They know nothing of     *)
(* stacks and are what Engine is checked against.                          *)
(***************************************************************************)
EXTENDS Naturals, Sequences, SequencesExt

Call(p, ts) == [k |-> "call", p |-> p, args |-> ts]
Cut        == [k |-> "!"]
True       == [k |-> "true"]
Fail       == [k |-> "fail"]
And(a, b)  == [k |-> ",", a |-> a, b |-> b]
Or(a, b)   == [k |-> ";", a |-> a, b |-> b]
Then(a, b) == [k |-> "->", a |-> a, b |-> b]
Soft(a, b) == [k |-> "*->", a |-> a, b |-> b]
Not(a)     == [k |-> "\\+", a |-> a]
Is(x, e)   == [k |-> "is", x |-> x, e |-> e]
Compare(op, a, b) == [k |-> "cmp", op |-> op, a |-> a, b |-> b]
Rule(h, b) == [head |-> h, body |-> b]

Void        == <<"_">>
IsLeaf(t)   == Len(t) = 1

RECURSIVE LeavesOf(_)
LeavesOf(t) == IF IsLeaf(t) THEN t ELSE LeavesOf(t[1]) \o LeavesOf(t[2])
AllLeaves(ts) == FlattenSeq([i \in DOMAIN ts |-> LeavesOf(ts[i])])

\* Arithmetic expressions.  Integers are atoms like any other.
Num(n)     == [k |-> "int", n |-> n]
Var(x)     == [k |-> "var", x |-> x]
Plus(a, b) == [k |-> "+", a |-> a, b |-> b]

Numerals     == <<"0", "1", "2", "3", "4">>
IsNumber(c)  == c \in Range(Numerals)
ValueOf(c)   == CHOOSE n \in DOMAIN Numerals : Numerals[n] = c
Sum(c, d)    == Numerals[ValueOf(c) + ValueOf(d) - 1]
Holds(op, c, d) ==
    CASE op = "<"   -> ValueOf(c) < ValueOf(d)
      [] op = "=<"  -> ValueOf(c) <= ValueOf(d)
      [] op = "=:=" -> ValueOf(c) = ValueOf(d)

RECURSIVE VarsOf(_)
VarsOf(e) ==
    CASE e.k = "int" -> <<>>
      [] e.k = "var" -> <<e.x>>
      [] e.k = "+"   -> VarsOf(e.a) \o VarsOf(e.b)

\* The atoms and variables of a goal, from left to right.
RECURSIVE Passed(_)
Passed(g) ==
    CASE g.k = "call"                     -> AllLeaves(g.args)
      [] g.k \in {"$call", "$throw"}      -> <<"X">>
      [] g.k = "is"                       -> <<g.x>> \o VarsOf(g.e)
      [] g.k = "cmp"                      -> VarsOf(g.a) \o VarsOf(g.b)
      [] g.k \in {",", ";", "->", "*->"}  -> Passed(g.a) \o Passed(g.b)
      [] g.k = "\\+"                      -> Passed(g.a)
      [] OTHER                            -> <<>>

(***************************************************************************)
(* A store maps variables, which are numbered as they are made, to <<>>    *)
(* (unbound) or a term in which the variables are <<"var", number, "">>.   *)
(***************************************************************************)
Variable(n)   == <<"var", n, "">>
IsVariable(t) == Len(t) = 3

RECURSIVE Value(_, _)
Value(t, st) == IF IsVariable(t) /\ st[t[2]] # <<>> THEN Value(st[t[2]], st) ELSE t

\* The most general unifier, applied to the store: <<store>> or <<>>.
RECURSIVE Unified(_, _, _)
Unified(t, u, st) ==
    LET a == Value(t, st)
        b == Value(u, st)
    IN  IF a = b THEN <<st>>
        ELSE IF IsVariable(a) THEN <<[st EXCEPT ![a[2]] = b]>>
        ELSE IF IsVariable(b) THEN <<[st EXCEPT ![b[2]] = a]>>
        ELSE IF IsLeaf(a) \/ IsLeaf(b) THEN <<>>
        ELSE LET l == Unified(a[1], b[1], st)
             IN  IF l = <<>> THEN <<>> ELSE Unified(a[2], b[2], l[1])

UnifiedAll(ts, us, st) ==
    FoldLeft(LAMBDA s, i: IF s = <<>> THEN s ELSE Unified(ts[i], us[i], s[1]),
             <<st>>, [i \in DOMAIN ts |-> i])

\* The term that t stands for where env gives the variables of the clause
\* their terms, and the store with its anonymous variables.
RECURSIVE Made(_, _, _)
Made(t, env, st) ==
    IF ~IsLeaf(t)
    THEN LET l == Made(t[1], env, st)
             r == Made(t[2], env, l.st)
         IN  [t |-> <<l.t, r.t>>, st |-> r.st]
    ELSE IF t[1] \in DOMAIN env THEN [t |-> env[t[1]], st |-> st]
    ELSE IF t = Void THEN [t |-> Variable(Len(st) + 1), st |-> Append(st, <<>>)]
    ELSE [t |-> t, st |-> st]

MadeAll(ts, env, st) ==
    FoldLeft(LAMBDA acc, t: LET m == Made(t, env, acc.st)
                            IN  [ts |-> Append(acc.ts, m.t), st |-> m.st],
             [ts |-> <<>>, st |-> st], ts)

RECURSIVE VariablesOf(_), Renamed(_, _)
VariablesOf(t) ==
    IF IsVariable(t) THEN <<t>> ELSE IF IsLeaf(t) THEN <<>>
    ELSE VariablesOf(t[1]) \o VariablesOf(t[2])
Renamed(t, vs) ==
    IF IsVariable(t) THEN Variable(CHOOSE i \in DOMAIN vs : vs[i] = t /\
                                      \A j \in 1 .. i - 1 : vs[j] # t)
    ELSE IF IsLeaf(t) THEN t ELSE <<Renamed(t[1], vs), Renamed(t[2], vs)>>

\* What a host can tell of a term: its variables have no names.
Shown(t) == Renamed(t, VariablesOf(t))

RECURSIVE Resolved(_, _)
Resolved(t, st) ==
    LET v == Value(t, st)
    IN  IF IsVariable(v) \/ IsLeaf(v) THEN v ELSE <<Resolved(v[1], st), Resolved(v[2], st)>>

-----------------------------------------------------------------------------
(* An outcome: the stores of the answers, whether a cut was run, and the ball *)
(* that was thrown after them, if any.                                        *)
NoBall == "none"
Answers(ss)   == [ss |-> ss, cut |-> FALSE, ball |-> NoBall]
Stopped(r)    == r.cut \/ r.ball # NoBall
Opaque(r)     == [r EXCEPT !.cut = FALSE]
Joined(r, s)  == [s EXCEPT !.ss = r.ss \o @]

\* The outcome of r with every answer continued by Next(store).
Continued(r, Next(_)) ==
    LET all == FoldLeft(LAMBDA acc, s: IF Stopped(acc) THEN acc ELSE Joined(acc, Next(s)),
                        Answers(<<>>), r.ss)
    IN  IF Stopped(all) THEN all ELSE [r EXCEPT !.ss = all.ss]

\* The errors of arithmetic on an unbound variable and on an atom.
Unbound     == "unbound"
NotANumber  == "type"

\* The value of an expression, or the error of its first argument that has none.
RECURSIVE Evaluated(_, _, _)
Evaluated(e, env, st) ==
    CASE e.k = "int" -> e.n
      [] e.k = "var" ->
            LET v == Value(env[e.x], st)
            IN  IF IsVariable(v) THEN Unbound ELSE IF IsNumber(v[1]) THEN v[1] ELSE NotANumber
      [] e.k = "+"   ->
            LET a == Evaluated(e.a, env, st)
                b == Evaluated(e.b, env, st)
            IN  IF ~IsNumber(a) THEN a ELSE IF ~IsNumber(b) THEN b ELSE Sum(a, b)

RECURSIVE Run(_, _, _, _), RunPred(_, _, _, _)

Run(prog, g, env, st) ==
    CASE g.k = "true"  -> Answers(<<st>>)
      [] g.k = "fail"  -> Answers(<<>>)
      [] g.k = "!"     -> [Answers(<<st>>) EXCEPT !.cut = TRUE]
      [] g.k = "call"  -> LET m == MadeAll(g.args, env, st) IN RunPred(prog, g.p, m.ts, m.st)
      [] g.k = "is"    ->
            LET n == Evaluated(g.e, env, st)
            IN  IF ~IsNumber(n) THEN [Answers(<<>>) EXCEPT !.ball = n]
                ELSE IF g.x = "_" THEN Answers(<<st>>)
                ELSE Answers(Unified(env[g.x], <<n>>, st))
      [] g.k = "cmp"   ->
            LET a == Evaluated(g.a, env, st)
                b == Evaluated(g.b, env, st)
            IN  IF ~IsNumber(a) THEN [Answers(<<>>) EXCEPT !.ball = a]
                ELSE IF ~IsNumber(b) THEN [Answers(<<>>) EXCEPT !.ball = b]
                ELSE Answers(IF Holds(g.op, a, b) THEN <<st>> ELSE <<>>)
      [] g.k = ","     ->
            Continued(Run(prog, g.a, env, st), LAMBDA s: Run(prog, g.b, env, s))
      [] g.k = ";" /\ g.a.k \in {"->", "*->"} ->
            LET c == Opaque(Run(prog, g.a.a, env, st))
            IN  IF c.ss = <<>>
                THEN IF Stopped(c) THEN c ELSE Run(prog, g.b, env, st)
                ELSE Continued(IF g.a.k = "->" THEN Answers(<<Head(c.ss)>>) ELSE c,
                               LAMBDA s: Run(prog, g.a.b, env, s))
      [] g.k = ";" /\ g.a.k \notin {"->", "*->"} ->
            LET a == Run(prog, g.a, env, st)
            IN  IF Stopped(a) THEN a ELSE Joined(a, Run(prog, g.b, env, st))
      [] g.k = "->"    ->
            LET c == Opaque(Run(prog, g.a, env, st))
            IN  IF c.ss = <<>> THEN c
                ELSE Run(prog, g.b, env, Head(c.ss))
      [] g.k = "\\+"   ->
            LET c == Opaque(Run(prog, g.a, env, st))
            IN  IF c.ss # <<>> THEN Answers(<<>>)
                ELSE IF Stopped(c) THEN c ELSE Answers(<<st>>)

\* The outcome of a call of predicate p with the terms ts as its arguments.
RunPred(prog, p, ts, st) ==
    LET d     == prog[p]
        t     == ts[1]
        value == Value(t, st)
        Try(acc, c) ==
          IF Stopped(acc) THEN acc
          ELSE LET new == st \o << <<>>, <<>> >>
                   env == [X |-> t, W |-> Last(ts),
                           Y |-> Variable(Len(st) + 1), Z |-> Variable(Len(st) + 2)]
                   h   == MadeAll(c.head, env, new)
               IN  Joined(acc, Continued(Answers(UnifiedAll(ts, h.ts, h.st)),
                            LAMBDA s: Run(prog, c.body, env, s)))
    IN  CASE d.kind = "clauses" -> Opaque(FoldLeft(Try, Answers(<<>>), d.clauses))
          [] d.kind = "foreign" ->
                Answers(FlattenSeq([i \in 1 .. Len(d.values) |-> Unified(t, <<d.values[i]>>, st)]))
          [] d.kind = "throw"   -> [Answers(<<>>) EXCEPT !.ball = value[1]]
          [] d.kind = "test"    -> Answers(IF IsVariable(value) = d.free THEN <<st>> ELSE <<>>)
          [] d.kind = "call"    -> Opaque(Run(prog, d.goal, [X |-> t], st))
          [] d.kind = "catch"   ->
                LET r == Opaque(Run(prog, d.goal, [X |-> t], st))
                IN  IF r.ball # NoBall /\ d.catcher \in {r.ball, "_"}
                    THEN Joined(r, Opaque(Run(prog, d.recover, [X |-> t], st))) ELSE r

\* What a host sees of the query p(X): the values of X, and the ball.
Solutions(prog, p) ==
    LET r == RunPred(prog, p, <<Variable(1)>>, <<<<>>>>)
    IN  [values |-> [i \in 1 .. Len(r.ss) |-> Shown(Resolved(Variable(1), r.ss[i]))],
         ball |-> r.ball]
=============================================================================
