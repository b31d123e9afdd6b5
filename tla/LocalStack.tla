----------------------------- MODULE LocalStack -----------------------------
(***************************************************************************)
(* What PL_next_solution() does to the local stack, the references on      *)
(* definitions and the contexts of foreign predicates, for any program and *)
(* any clauses: which clause is chosen, whether a goal succeeds and where  *)
(* code jumps to are left open.  Engine implements it.                     *)
(*                                                                         *)
(* Blocks are frames and choice points at the address where they start.    *)
(* frame and choice are functions on the blocks that are in use; a frame   *)
(* has a history variable, the chain of itself and its ancestors.          *)
(***************************************************************************)
EXTENDS Integers, FiniteSets, Functions

CONSTANTS Preds,       \* predicates
          ForeignPreds,     \* those defined in C
          MetaCall,    \* "$call", whose clauses call/1 compiles
          Sizes        \* what the variables of a clause may take

VARIABLES mode,        \* "call", "run", "failed", "yes", "over" or "assert"
          fr,          \* environment_frame
          lTop,
          frame,       \* address -> [parent, chain, pred, top, clause]
          choice,      \* address -> [type, frame]
          refs,        \* references of each definition
          open,        \* foreign contexts that were returned and not given back
          left, cutted \* history: what was left at its call port (see Engine)

blocks == <<frame, choice>>
counts == <<refs, open, left, cutted>>
vars   == <<mode, fr, lTop, blocks, counts>>

NULL == 0
QueryChoice == 1
QueryFrame  == 2
Empty == [a \in {} |-> NULL]

With(fn, a, v)    == [b \in DOMAIN fn \cup {a} |-> IF b = a THEN v ELSE fn[b]]
Without(fn, gone) == Restrict(fn, DOMAIN fn \ gone)

WellFormed == MetaCall \in Preds \ ForeignPreds /\ Sizes \subseteq Nat

-----------------------------------------------------------------------------
NewFrame(parent, chain, p, top, clause) ==
    [parent |-> parent, chain |-> chain, pred |-> p, top |-> top, clause |-> clause]
NewChoice(type, f) == [type |-> type, frame |-> f]

Newer(a)  == {c \in DOMAIN choice : c > a}

\* The frames above address keep of frame f and of the choice points above
\* address after: what discarding them passes.
Above(f, after, keep) ==
    {g \in frame[f].chain \cup UNION {frame[choice[c].frame].chain : c \in Newer(after)} : g > keep}

\* leaveDefinition() of each frame that is gone
RefsWithout(gone) ==
    [p \in Preds |-> IF p \in ForeignPreds THEN refs[p]
                     ELSE refs[p] - Cardinality({g \in gone : frame[g].pred = p})]
\* the frames whose foreign predicates are told that they are cut
Contexts(gone) == {g \in gone : frame[g].pred \in ForeignPreds /\ frame[g].clause}

Become(m, f, top, frames, choices) ==
    mode' = m /\ fr' = f /\ lTop' = top /\ frame' = frames /\ choice' = choices
Stop(m) == Become(m, NULL, NULL, Empty, Empty)

-----------------------------------------------------------------------------
(* Calls *)

\* Call a goal at address a from frame f: an ordinary one has a call port, a
\* conjunction or disjunction starts at once.
CallGoal(f, a, frames, choices, rs) ==
    LET chain == frames[f].chain \cup {a}
    IN  \/ /\ mode' = "call"
           /\ \E p \in Preds :
                Become("call", a, a + 1,
                       With(frames, a, NewFrame(f, chain, p, a + 1, FALSE)), choices)
           /\ refs' = rs
        \/ /\ mode' = "run"
           /\ \E n \in Sizes :
                Become("run", a, a + 1 + n,
                       With(frames, a, NewFrame(f, chain, MetaCall, a + 1 + n, TRUE)), choices)
           /\ refs' = [rs EXCEPT ![MetaCall] = @ + 1]

\* I_CALL, I_USERCALL0
Call == mode = "run" /\ CallGoal(fr, lTop, frame, choice, refs) /\ UNCHANGED <<open, left, cutted>>

\* I_CATCH: the goal of catch/3 is called above a choice point.
Catch == mode = "run"
    /\ CallGoal(fr, lTop + 1, frame, With(choice, lTop, NewChoice("CATCH", fr)), refs)
    /\ UNCHANGED <<open, left, cutted>>

\* I_DEPART uses the frame again, with its clause until the next is found.
Depart == mode = "run" /\ mode' = "call" /\ Newer(fr) = {}
    /\ \E p \in Preds : Become("call", fr, fr + 1,
                               [frame EXCEPT ![fr] = [@ EXCEPT !.pred = p, !.top = fr + 1]], choice)
    /\ refs' = RefsWithout({fr}) /\ UNCHANGED <<open, left, cutted>>

\* Run a clause in frame f, with a choice point if there is another one.
RunClause(f, frames, choices) == mode' = "run"
    /\ \E n \in Sizes :
         LET top == f + 1 + n
             new == [frames EXCEPT ![f] = [@ EXCEPT !.top = top, !.clause = TRUE]]
         IN  \/ Become("run", f, top, new, choices)
             \/ Become("run", f, top + 1, new, With(choices, top, NewChoice("CLAUSE", f)))

NoClause == mode' = "failed"
    /\ Become("failed", fr, lTop, [frame EXCEPT ![fr] = [@ EXCEPT !.clause = FALSE]], choice)

\* enterDefinition() and the first clause
Enter == mode = "call" /\ frame[fr].pred \notin ForeignPreds
    /\ (NoClause \/ RunClause(fr, frame, choice))
    /\ refs' = [refs EXCEPT ![frame[fr].pred] = @ + 1] /\ UNCHANGED <<open, left, cutted>>

\* Leave frame f, to which nothing can return, for its parent or the host.
ExitLast(f, frames, choices) ==
    LET parent == frames[f].parent
    IN  /\ \A c \in DOMAIN choices : c < f
        /\ IF parent = NULL THEN Stop("over")
           ELSE Become("run", parent, f, Without(frames, {f}), choices)

\* Exit with a choice point to return to
ExitKept(f, top, frames, choices) ==
    LET parent == frames[f].parent
    IN  /\ \E c \in DOMAIN choices : c > f
        /\ IF parent = NULL THEN Become("yes", f, top, frames, choices)
           ELSE Become("run", parent, top, frames, choices)

\* I_EXIT
Exit == mode = "run"
    /\ \/ ExitLast(fr, frame, choice) /\ refs' = RefsWithout({fr})
       \/ ExitKept(fr, lTop, frame, choice) /\ refs' = refs
    /\ UNCHANGED <<open, left, cutted>>

\* callForeign(): fail, exit, or exit with a context to come back with.
CallForeign(f, frames, choices, opened) ==
    LET done == [frames EXCEPT ![f] = [@ EXCEPT !.top = f + 1, !.clause = FALSE]]
        kept == [frames EXCEPT ![f] = [@ EXCEPT !.top = f + 1, !.clause = TRUE]]
    IN  \/ Become("failed", f, f + 1, done, choices) /\ open' = opened
        \/ ExitLast(f, done, choices) /\ open' = opened
        \/ /\ ExitKept(f, f + 2, kept, With(choices, f + 1, NewChoice("FOREIGN", f)))
           /\ open' = opened + 1

EnterForeign == mode = "call" /\ frame[fr].pred \in ForeignPreds
    /\ CallForeign(fr, frame, choice, open) /\ UNCHANGED <<refs, left, cutted>>

-----------------------------------------------------------------------------
(* Control within a clause *)

\* Instructions that only build and match terms
Compute == mode = "run" /\ UNCHANGED vars

Fail == mode = "run" /\ mode' = "failed" /\ UNCHANGED <<fr, lTop, blocks, counts>>

\* C_OR, C_IFTHENELSE, C_NOT, C_SOFTIF
Or == mode = "run" /\ lTop' = lTop + 1
    /\ Become("run", fr, lTop + 1, frame, With(choice, lTop, NewChoice("JUMP", fr)))
    /\ UNCHANGED counts

\* C_SOFTCUT
SoftCut == mode = "run" /\ \E c \in DOMAIN choice : choice[c].type = "JUMP"
    /\ Become("run", fr, lTop, frame, [choice EXCEPT ![c].type = "NONE"])
    /\ UNCHANGED counts

\* Discard what is above address keep of the choice points above och.
Discard(gone) ==
    /\ refs' = RefsWithout(gone) /\ open' = open - Cardinality(Contexts(gone))
Prune(och, keep, top) ==
    LET gone == Above(fr, och, keep)
    IN  Become("run", fr, top, Without(frame, gone), Without(choice, Newer(och)))
          /\ Discard(gone) /\ UNCHANGED <<left, cutted>>

\* I_CUT
Cut == mode = "run" /\ Prune(fr, fr, frame[fr].top)

\* C_CUT, C_LCUT: back to choice point och, made since the clause was entered
\* or the newest before that.
CutTo == mode = "run" /\ \E och \in DOMAIN choice :
    LET keep == IF fr > choice[och].frame THEN fr ELSE choice[och].frame
    IN  /\ \A c \in Newer(och) : c > fr
        /\ Prune(och, keep, IF och > keep THEN och + 1 ELSE frame[keep].top)

-----------------------------------------------------------------------------
(* Exceptions *)

\* A goal that is left at its call port is discarded like one that was entered.
LeftAtPort ==
    LET p == frame[fr].pred
    IN  /\ left' = IF mode = "call" /\ p \notin ForeignPreds THEN [left EXCEPT ![p] = @ + 1] ELSE left
        /\ cutted' = IF mode = "call" /\ Contexts({fr}) # {} THEN cutted + 1 ELSE cutted

\* Frame c of catch/3 catches: its choice point ch is still there.
ThrowTo(c, ch) ==
    LET gone == Above(fr, c, c)
    IN  /\ ch \in Newer(c) /\ choice[ch] = NewChoice("CATCH", c)
        /\ CallGoal(c, ch, Without(frame, gone), Without(choice, Newer(c)), RefsWithout(gone))
        /\ open' = open - Cardinality(Contexts(gone))

Uncaught == Stop("over") /\ Discard(Above(fr, QueryFrame, NULL))

Throw == mode \in {"run", "failed", "call"} /\ mode' \in {"call", "run", "over"}
    /\ (Uncaught \/ \E c \in frame[fr].chain : \E ch \in DOMAIN choice : ThrowTo(c, ch))
    /\ LeftAtPort

\* A signal at the call port of catch/3: no choice point yet.
Assertion == mode = "call" /\ Stop("assert") /\ LeftAtPort /\ UNCHANGED <<refs, open>>

-----------------------------------------------------------------------------
(* Backtracking *)

\* Leave the frames above the newest choice point b.
Redo(b) ==
    LET gone == {g \in frame[fr].chain : g > b}
        back == choice[b].frame
        frames  == Without(frame, gone)
        choices == Without(choice, {b})
        type == choice[b].type
    IN  /\ Newer(b) = {}
        /\ \/ type = "JUMP" /\ Become("run", back, b, frames, choices) /\ UNCHANGED open
           \/ type = "CLAUSE" /\ RunClause(back, frames, choices) /\ UNCHANGED open
           \/ type = "FOREIGN" /\ CallForeign(back, frames, choices, open - 1)
           \/ type \in {"CATCH", "NONE"} /\ Become("failed", back, lTop, frames, choices)
                /\ UNCHANGED open
           \/ type = "TOP" /\ Stop("over") /\ UNCHANGED open
        /\ refs' = RefsWithout(gone) /\ UNCHANGED <<left, cutted>>

Backtrack == mode = "failed" /\ \E b \in DOMAIN choice : Redo(b)

-----------------------------------------------------------------------------
(* The host *)

NextSolution == mode = "yes" /\ mode' = "failed" /\ UNCHANGED <<fr, lTop, blocks, counts>>

\* discard_query()
CloseQuery == mode = "yes" /\ Stop("over") /\ Discard(Above(QueryFrame, QueryFrame, NULL))
    /\ UNCHANGED <<left, cutted>>

Init == \E p \in Preds :
    /\ mode = "call" /\ fr = QueryFrame /\ lTop = QueryFrame + 1
    /\ frame = With(Empty, QueryFrame, NewFrame(NULL, {QueryFrame}, p, QueryFrame + 1, TRUE))
    /\ choice = With(Empty, QueryChoice, NewChoice("TOP", QueryFrame))
    /\ refs = [q \in Preds |-> 0] /\ left = [q \in Preds |-> 0] /\ open = 0 /\ cutted = 0

Next ==
    \/ Compute \/ Fail \/ Call \/ Catch \/ Depart \/ Enter \/ EnterForeign \/ Exit
    \/ Or \/ SoftCut \/ Cut \/ CutTo \/ Throw \/ Assertion \/ Backtrack
    \/ NextSolution \/ CloseQuery

Spec == Init /\ [][Next]_vars
-----------------------------------------------------------------------------
(* Properties *)

\* The frame that waits at its call port is not entered yet.
Port == IF mode = "call" THEN fr ELSE NULL
Live == mode \in {"call", "run", "failed", "yes"}

Modes == {"call", "run", "failed", "yes", "over", "assert"}
ChoiceTypes == {"TOP", "CLAUSE", "JUMP", "FOREIGN", "CATCH", "NONE"}
FrameRecords == [parent : Nat, chain : SUBSET Nat, pred : Preds, top : Nat, clause : BOOLEAN]

TypeOK ==
    /\ mode \in Modes /\ fr \in Nat /\ lTop \in Nat
    /\ frame \in [DOMAIN frame -> FrameRecords] /\ DOMAIN frame \subseteq Nat
    /\ choice \in [DOMAIN choice -> [type : ChoiceTypes, frame : Nat]] /\ DOMAIN choice \subseteq Nat
    /\ refs \in [Preds -> Int] /\ open \in Int /\ left \in [Preds -> Int] /\ cutted \in Int

\* Each frame that has entered its definition holds one reference on it, but
\* for those that were left at the call port.
ReferencesExact ==
    mode # "assert" => \A p \in Preds \ ForeignPreds :
        refs[p] + left[p] = Cardinality({f \in DOMAIN frame : frame[f].pred = p /\ f # Port})

\* Each context that a foreign predicate has returned has one choice point.
ContextsExact ==
    mode # "assert" =>
        open + cutted = Cardinality({c \in DOMAIN choice : choice[c].type = "FOREIGN"})

\* What is in use is what the engine can still come to, its blocks do not
\* overlap and are below lTop, where the next one will be.
StackSound ==
    /\ DOMAIN frame \cap DOMAIN choice = {}
    /\ \A f \in DOMAIN frame : /\ f < frame[f].top /\ frame[f].top <= lTop
                               /\ \A b \in DOMAIN frame \cup DOMAIN choice : b > f => b >= frame[f].top
    /\ \A c \in DOMAIN choice : c < lTop /\ choice[c].frame \in DOMAIN frame
    /\ Live => fr \in DOMAIN frame /\ DOMAIN frame = Above(fr, NULL, NULL)
=============================================================================
