-------------------------------- MODULE Trail --------------------------------
(***************************************************************************)
(* LocalStack with the trail: what Mark(), Trail() and Undo() of pl-wam.c  *)
(* and pl-incl.h do when any program assigns any variables that it can     *)
(* reach.  Terms and values are left out.  Engine implements it.           *)
(***************************************************************************)
EXTENDS LocalStack, SequencesExt

VARIABLES trail,       \* the slots that Undo() makes variables again
          gTop,        \* cells of the global stack
          markBar,     \* LD->mark_bar: the cells above it need no trailing
          mark,        \* choice point -> [t, g, l]: the tops when it was made
          log          \* history: every slot that was assigned, in order

data == <<trail, gTop, markBar, mark, log>>

\* A slot is a place in a unit of the local stack or a cell.
Slots == {"ref"} \X Nat \X STRING
OnGlobal(r) == r[3] = "G"

MarkOf(tr, g, lg) == [t |-> Len(tr), g |-> g, l |-> Len(lg)]
Added(s, longer)  == {longer[i] : i \in Len(s) + 1 .. Len(longer)}

-----------------------------------------------------------------------------
\* Where references into these frames, or to the host, lead
Places(chain) == {NULL} \cup UNION {g .. frame[g].top - 1 : g \in chain}
Covers(f, a)  == a \in Places(frame[f].chain)

\* A clause reaches its own frame, its ancestors, and at lTop the arguments of
\* the next; a foreign predicate reaches the arguments in its frame.
OfClause     == Places(frame[fr].chain) \cup {lTop}
OfForeign(f) == Places(frame[f].chain \ {f}) \cup {f}

\* From this trail, global stack and log on, code assigns variables at these
\* places and cells.  Trail() notes them unless they are cells above the bar.
Assign(places, tr, g, lg, bar) ==
    /\ trail' \in Seq(Slots) /\ IsPrefix(tr, trail')
    /\ log' \in Seq(Slots) /\ IsPrefix(lg, log')
    /\ gTop' \in Nat /\ g <= gTop'
    /\ \A r \in Added(lg, log') : r[2] \in IF OnGlobal(r) THEN 1 .. gTop' ELSE places
    /\ Added(tr, trail') = {r \in Added(lg, log') : ~OnGlobal(r) \/ r[2] <= bar}

\* Undo(), down to mark m
TrailAt(m) == SubSeq(trail, 1, m.t)
LogAt(m)   == SubSeq(log, 1, m.l)
Undo(m)    == trail' = TrailAt(m) /\ gTop' = m.g /\ log' = LogAt(m)

\* The choice points of old keep their marks, a new one has mark m.
Marks(old, m) == mark' = [c \in DOMAIN choice' |-> IF c \in old THEN mark[c] ELSE m]

\* discardChoicesAfter() takes the bar of the choice point that is left.
BarOfNewest ==
    \E c \in DOMAIN choice' : (\A d \in DOMAIN choice' : d <= c) /\ markBar' = mark[c].g

-----------------------------------------------------------------------------
(* Instructions that unify, fail or build terms.  Mark() of a foreign frame  *)
(* raises the bar.                                                           *)
Unify == (Compute \/ Fail)
    /\ Assign(OfClause, trail, gTop, log, markBar) /\ markBar' \in {markBar, gTop} /\ mark' = mark

\* newChoice() with Mark(), or none when there is no other clause
Push == (Call \/ Catch \/ Or \/ Enter)
    /\ UNCHANGED <<trail, gTop, log>> /\ Marks(DOMAIN choice, MarkOf(trail, gTop, log))
    /\ markBar' = IF DOMAIN choice' = DOMAIN choice THEN markBar ELSE gTop

Leave == (Depart \/ Exit \/ SoftCut \/ NextSolution) /\ UNCHANGED data

\* I_CUT lowers the bar again, C_CUT and C_LCUT do not.
Commit == ((Cut /\ BarOfNewest) \/ (CutTo /\ markBar' = markBar))
    /\ UNCHANGED <<trail, gTop, log>> /\ Marks(DOMAIN choice, NULL)

\* callForeign() makes the mark before it calls.
Foreign(f, tr, g, lg, old) ==
    Assign(OfForeign(f), tr, g, lg, g) /\ markBar' = g /\ Marks(old, MarkOf(tr, g, lg))
CallC == EnterForeign /\ Foreign(fr, trail, gTop, log, DOMAIN choice)

\* B_THROW undoes to the choice point of catch/3, at whose address it calls the
\* goal of recovery.  It copies the ball back on the global stack, and unifies
\* it with the pattern in the frame of catch/3: unify_ptrs() marks first, which
\* raises the bar to the top of that copy.
Recover == Throw /\ Marks(DOMAIN choice, NULL)
    /\ LET m == mark[fr']
       IN  /\ Assign(Places(frame[frame'[fr'].parent].chain), TrailAt(m), m.g, LogAt(m), markBar')
           /\ markBar' \in m.g .. gTop'

\* next_choice undoes to the newest choice point, and may make one like it.
Retry == Backtrack /\ \E b \in DOMAIN choice : Newer(b) = {} /\
    LET m   == mark[b]
        old == DOMAIN choice \ {b}
    IN  IF choice[b].type = "FOREIGN"
        THEN Foreign(choice[b].frame, TrailAt(m), m.g, LogAt(m), old)
        ELSE /\ Undo(m) /\ Marks(old, m)
             /\ markBar' = IF DOMAIN choice' = old THEN markBar ELSE m.g

\* The end of the query.
Forget == trail' = <<>> /\ gTop' = 0 /\ markBar' = 0 /\ mark' = Empty /\ log' = <<>>

TrailInit == Init
    /\ trail = <<>> /\ gTop = 0 /\ markBar = 0 /\ log = <<>>
    /\ mark = With(Empty, QueryChoice, MarkOf(trail, gTop, log))

TrailNext ==
    \/ ~Live' /\ Next /\ Forget
    \/ Live' /\ (Unify \/ Push \/ Leave \/ Commit \/ CallC \/ Recover \/ Retry)

TrailSpec == TrailInit /\ [][TrailNext]_<<vars, data>>

-----------------------------------------------------------------------------
(* Properties *)

After(s, n) == {s[i] : i \in n + 1 .. Len(s)}
\* Slot r was there when choice point c was made, and is when it is come back to.
Older(r, c) == IF OnGlobal(r) THEN r[2] <= mark[c].g ELSE r[2] < c

TrailTypeOK ==
    /\ trail \in Seq(Slots) /\ log \in Seq(Slots) /\ gTop \in Nat /\ markBar \in Nat
    /\ mark \in [DOMAIN choice -> [t : Nat, g : Nat, l : Nat]]

\* Of the slots a choice point comes back to, Undo() resets those that were
\* assigned since, and no others.
UndoExact ==
    \A c \in DOMAIN choice :
       {r \in After(trail, mark[c].t) : Older(r, c)} = {r \in After(log, mark[c].l) : Older(r, c)}

\* Undo() writes to a cell that is there, to a frame that the choice point comes
\* back to, to the host, or to what is above the choice point and goes with it.
UndoSafe ==
    \A c \in DOMAIN choice : \A r \in After(trail, mark[c].t) :
       IF OnGlobal(r) THEN r[2] \in 1 .. gTop
       ELSE r[2] > c \/ r[2] = NULL \/ Covers(choice[c].frame, r[2])

\* Trail() leaves out no cell that a choice point comes back to.
BarSound == \A c \in DOMAIN choice : mark[c].g <= markBar

\* Backtracking takes back what it must and nothing else.
TrailSafe == UndoExact /\ UndoSafe /\ BarSound

\* A newer choice point has the higher mark, and none is above the tops.
MarksNested ==
    \A c \in DOMAIN choice :
       /\ mark[c].t <= Len(trail) /\ mark[c].g <= gTop /\ mark[c].l <= Len(log)
       /\ \A d \in DOMAIN choice : d < c =>
             mark[d].t <= mark[c].t /\ mark[d].g <= mark[c].g /\ mark[d].l <= mark[c].l
=============================================================================
