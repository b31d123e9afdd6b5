------------------------------ MODULE MCEngine ------------------------------
(***************************************************************************)
(* Programs for the engine: p(X) has one clause that is made of a context  *)
(* and a goal in it, and perhaps a second one; the rest is fixed.          *)
(***************************************************************************)
EXTENDS Engine, TLC

TX == <<"X">>
TW == <<"W">>
TY == <<"Y">>
TZ == <<"Z">>
A  == <<"a">>
B  == <<"b">>
C  == <<"c">>

Fact(t)    == Rule(<<t>>, True)
Goal(p, x) == Call(p, << <<x>> >>)
Q(x) == Goal("q", x)

Simple == {Q("X"), Q("Y"), Goal("var", "Y"), Goal("r", "Y"), Goal("alt", "X"), Cut, True, Fail}
Doubles == {And(a, b) : a \in Simple, b \in Simple \ {Fail}}
            \cup {Or(a, b) : a \in Simple \ {Cut}, b \in {Q("X"), Q("Y"), Cut}}
Goals  == Simple \cup Doubles

InContext(g) ==
    { g,
      And(g, Goal("r", "Y")),
      And(Q("Y"), g),
      Or(Then(g, Q("X")), Goal("=c", "X")),
      Or(Soft(g, Goal("r", "X")), Goal("=c", "X")),
      And(Then(g, Q("Y")), Q("X")),
      And(Not(g), Q("X")),
      Or(Then(Q("X"), g), Cut) }

Nested == UNION {InContext(h) : h \in UNION {InContext(g) : g \in Simple}}

\* Exceptions, foreign predicates and cuts in other predicates.
Other == {Goal(n, "X") : n \in {"catch", "catchf", "catchu", "catch2", "catchi",
                                "once", "alts", "t", "s"}} \cup {Goal("throw", "e")}
Behind == {Goal(n, "X") : n \in {"catchf", "catch2", "alts"}}
Caught == Other \cup {And(a, b) : a \in Other \cup {Q("X"), Q("Y"), Goal("alt", "Y")}, b \in Behind}
                \cup {And(a, Cut) : a \in Other}

\* Arithmetic on a number, an unbound variable or an atom.
X == Var("X")
Y == Var("Y")
Tests == { Is("X", Plus(Y, Num("1"))), Is("Y", Plus(X, Num("1"))), Is("Y", Y), Is("X", Plus(X, X)),
           Is("_", Plus(Y, Y)), Compare("<", X, Plus(Y, Num("1"))), Compare("=<", Y, Num("1")),
           Compare("=:=", Plus(Num("1"), Y), X) }
Firsts == { Goal("n", "Y"), Goal("n", "X"), Goal("alt", "Y"), Is("Y", Num("1")), True }
Arithmetic == {And(a, b) : a \in Firsts, b \in Tests}
                \cup {And(Goal("n", "X"), And(a, b)) : a \in Firsts, b \in Tests}

\* Pairs: built in the body, matched and built in heads, and shared.
Pair(t, u) == <<t, u>>
Pick == {"eq", "hd", "mk", "nest", "cross", "len"}
Terms == { Pair(TY, TZ), Pair(TY, TY), Pair(A, TY), Pair(Void, TY), Pair(TX, TY),
           Pair(TY, B), Pair(Pair(TY, A), TZ), Pair(A, Pair(TY, TX)),
           Pair(Pair(TY, Void), Pair(Void, TY)) }
Matches == {Call(n, <<t>>) : n \in Pick \ {"len"}, t \in Terms \cup {TX, TY}}
Lists == { Call("len", <<Pair(TY, Pair(TX, C))>>), Call("len", <<Pair(Void, Pair(A, C))>>),
           And(Call("eq", <<Pair(TX, Pair(TY, C))>>), Call("len", <<TX>>)) }
Sharing == UNION {
    {And(Call("eq", <<Pair(t, TZ)>>), g), And(Call("eq", <<Pair(TZ, t)>>), And(Q("X"), g))} :
        t \in {Pair(TY, TX), Pair(A, TY), TX},
        g \in {Q("Y"), Call("eq", <<Pair(TY, TZ)>>), Call("cross", <<TZ>>),
               And(Call("mk", <<TZ>>), Q("Y"))}}

\* Two arguments, which may share variables with each other and with frames
\* that a last call uses again.  No term becomes cyclic.
Apart == { <<TX, TY>>, <<TY, TX>>, <<A, TX>>, <<TX, Void>>, <<Void, Void>>, <<TX, Pair(TY, TZ)>>,
           <<Pair(A, TY), TX>>, <<Pair(TY, TX), Pair(A, TZ)>>, <<Pair(TY, A), Pair(TZ, TZ)>>,
           <<TY, Pair(A, Pair(TX, B))>> }
Same  == { <<TX, TX>>, <<TY, TY>> }
Two   == {Call(n, ts) : n \in {"unify", "swap", "both", "keep", "two", "pass"}, ts \in Apart \cup Same}
           \cup {Call("first", ts) : ts \in Apart}
           \cup {Call("mem", <<t, Pair(A, Pair(TY, C))>>) : t \in {TX, A, TY}}
OfPairs == Matches \cup Lists \cup Sharing \cup Two

Library ==
    "q"   :> [kind |-> "clauses", clauses |-> << Fact(A), Fact(B) >>] @@
    "r"   :> [kind |-> "clauses", clauses |-> << Fact(B) >>] @@
    "s"   :> [kind |-> "clauses", clauses |-> << Rule(<<TX>>, And(Q("X"), Cut)), Fact(C) >>] @@
    "t"   :> [kind |-> "clauses",
              clauses |-> << Rule(<<TX>>, And(Q("X"), Goal("u", "X"))) >>] @@
    "u"   :> [kind |-> "clauses", clauses |-> << Fact(A), Rule(<<B>>, Goal("throw", "e")) >>] @@
    "n"   :> [kind |-> "clauses", clauses |-> << Fact(<<"1">>), Fact(<<"2">>) >>] @@
    "sum" :> [kind |-> "clauses", clauses |-> << Rule(<<TX>>, And(Q("Y"), Is("X", Plus(X, Y)))) >>] @@
    "alt" :> [kind |-> "foreign", values |-> <<"a", "b">>] @@
    "=c"  :> [kind |-> "foreign", values |-> C] @@
    "throw" :> [kind |-> "throw"] @@
    "catch"  :> [kind |-> "catch", goal |-> Goal("t", "X"), catcher |-> "e", recover |-> Q("X")] @@
    "catchu" :> [kind |-> "catch", goal |-> Goal("t", "X"), catcher |-> "_", recover |-> Goal("u", "X")] @@
    "catchf" :> [kind |-> "catch", goal |-> Goal("catch", "X"), catcher |-> "f",
                 recover |-> Goal("s", "X")] @@
    "catch2" :> [kind |-> "catch", goal |-> And(Q("X"), Goal("u", "X")), catcher |-> "e",
                 recover |-> Or(Goal("r", "X"), Goal("=c", "X"))] @@
    "catchi" :> [kind |-> "catch", goal |-> Goal("sum", "X"), catcher |-> "unbound",
                 recover |-> Goal("n", "X")] @@
    "once"   :> [kind |-> "call", goal |-> And(Goal("alts", "X"), Cut)] @@
    "alts"   :> [kind |-> "call", goal |-> Or(Then(Goal("nonvar", "X"), True),
                                              Or(Goal("alt", "X"), Goal("throw", "e")))] @@
    "var"    :> [kind |-> "test", free |-> TRUE] @@
    "nonvar" :> [kind |-> "test", free |-> FALSE] @@
    "eq"    :> [kind |-> "clauses", clauses |-> << Fact(Pair(TY, TY)) >>] @@
    "hd"    :> [kind |-> "clauses", clauses |-> << Fact(Pair(A, Void)), Fact(Pair(Void, A)),
                                                   Fact(A) >>] @@
    "mk"    :> [kind |-> "clauses", clauses |->
                << Rule(<<Pair(TY, TZ)>>, And(Q("Y"), Goal("r", "Z"))) >>] @@
    "nest"  :> [kind |-> "clauses", clauses |->
                << Rule(<<Pair(Pair(TY, Void), Pair(Void, TZ))>>, Call("eq", <<Pair(TZ, TY)>>)),
                   Rule(<<Pair(A, Pair(TY, TZ))>>, And(Q("Y"), Cut)) >>] @@
    "cross" :> [kind |-> "clauses", clauses |->
                << Fact(Pair(TY, Pair(TY, Void))),
                   Rule(<<Pair(Pair(Void, TY), TZ)>>, Call("mk", <<Pair(TZ, TY)>>)) >>] @@
    "len"   :> [kind |-> "clauses", clauses |-> << Fact(C),
                                                   Rule(<<Pair(Void, TY)>>, Call("len", <<TY>>)) >>] @@
    "unify" :> [kind |-> "clauses", clauses |-> << Rule(<<TX, TX>>, True) >>] @@
    "first" :> [kind |-> "clauses", clauses |-> << Rule(<<Pair(TY, Void), TY>>, True) >>] @@
    "swap"  :> [kind |-> "clauses", clauses |-> << Rule(<<TX, TW>>, Call("two", <<TW, TX>>)) >>] @@
    "both"  :> [kind |-> "clauses", clauses |->
                << Rule(<<TX, TW>>, And(Q("X"), Call("unify", <<TW, TW>>))) >>] @@
    "two"   :> [kind |-> "clauses", clauses |-> << Rule(<<TX, TW>>, And(Q("X"), Goal("r", "W"))) >>] @@
    "keep"  :> [kind |-> "clauses", clauses |->
                << Rule(<<TX, TW>>, Or(Then(Goal("var", "W"), Call("swap", <<TY, TY>>)),
                                       Call("unify", <<TX, TW>>))) >>] @@
    "pass"  :> [kind |-> "clauses", clauses |->
                << Rule(<<A, TW>>, Call("unify", <<Pair(TW, TY), TY>>)),
                   Rule(<<TX, TW>>, Call("first", <<Pair(TX, TW), TW>>)) >>] @@
    "mem"   :> [kind |-> "clauses", clauses |->
                << Rule(<<TX, Pair(TX, Void)>>, True),
                   Rule(<<TX, Pair(Void, TY)>>, Call("mem", <<TX, TY>>)) >>] @@
    "$call"  :> [kind |-> "clauses", clauses |-> <<>>]

\* Bodies below a head that is a pair.
HeadBodies ==
    { Q("Y"), And(Q("Z"), Q("Y")), And(Not(Q("Z")), Q("Y")), Call("eq", <<Pair(TY, TZ)>>),
      And(Call("nest", <<TY>>), Goal("alt", "Z")), And(Q("Y"), Call("eq", <<Pair(TZ, Pair(TY, A))>>)),
      Or(Call("cross", <<Pair(TY, TZ)>>), Q("Y")),
      Or(Then(Call("mk", <<Pair(TZ, TY)>>), Goal("var", "Y")), Q("Z")),
      And(Or(Goal("once", "Y"), Q("Z")), Goal("r", "Z")) }

\* The places in the frame are in the order of the first occurrences.
InOrder(c) ==
    LET all == SelectSeq(AllLeaves(c.head) \o Passed(c.body), LAMBDA x: x \in {"Y", "Z"})
    IN  all # <<>> => Head(all) = "Y"

\* The predicates that a goal calls.
RECURSIVE CalledIn(_), Reached(_)
CalledIn(g) ==
    CASE g.k = "call"                    -> {g.p}
      [] g.k \in {",", ";", "->", "*->"} -> CalledIn(g.a) \cup CalledIn(g.b)
      [] g.k = "\\+"                     -> CalledIn(g.a)
      [] OTHER                           -> {}
Reached(preds) ==
    LET all == preds \cup UNION {UNION {CalledIn(g) : g \in Bodies(Library[q])} : q \in preds}
    IN  IF all = preds THEN preds ELSE Reached(all)

\* p with the part of the library it needs.
Programmed(clauses) ==
    LET p == [kind |-> "clauses", clauses |-> clauses]
    IN  "p" :> p @@ Restrict(Library, Reached({"$call"} \cup UNION {CalledIn(g) : g \in Bodies(p)}))

\* The first clause: one that stays alone, and one that is run with a second one too.
Alone == {Rule(<<TX>>, g) :
            g \in Nested \cup UNION {InContext(h) : h \in Caught \cup Arithmetic \cup OfPairs}}
Both  == {Rule(<<TX>>, g) : g \in UNION {InContext(h) : h \in Goals \cup Other}}
           \cup {Rule(<<h>>, g) : h \in {Pair(TY, TZ), Pair(Pair(TY, TZ), TY), Pair(Void, Pair(TY, A))},
                              g \in HeadBodies}

\* A program whose clauses the compiler refuses is not run.
mcPrograms ==
    { prog \in {Programmed(<<c>>) : c \in {d \in Alone \cup Both : InOrder(d)}}
                \cup {Programmed(<<c, Fact(C)>>) : c \in {d \in Both : InOrder(d)}} :
      Loaded(Compiled(prog["p"])) }
=============================================================================
