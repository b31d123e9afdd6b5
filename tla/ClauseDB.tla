------------------------------ MODULE ClauseDB ------------------------------
(* The clauses of one predicate (struct definition) and the frames that run  *)
(* it: calls by the virtual machine, clause/2, nth_clause/3, retract/1,      *)
(* retractall/1, erase/1, assert, abolish, reconsult and abort.              *)
(*                                                                           *)
(* A frame notes the database generation when it is called, then takes a     *)
(* reference on the definition, and walks the clause list seeing only the    *)
(* clauses its generation can see.  While the definition is referenced an    *)
(* erased clause stays on the list; it is unlinked and freed when the last   *)
(* reference is given up.                                                    *)
(*                                                                           *)
(* The clause list is the set of linked clauses ordered by pos.  Every       *)
(* critical section of L_PREDICATE is one action.                            *)
EXTENDS Integers, FiniteSets

CONSTANTS
    Clauses,        \* clauses that can be compiled and added, once each
    Frames,         \* frames that can run the predicate
    Keys,           \* values of the first argument that goals are called with
    NoKey,          \* unbound argument, or clause that matches any value
    KeyOf,          \* index.key of each clause, in Keys or not, or NoKey
    Sources,        \* source files
    SourceOf,       \* source_no of each clause
    Kinds,          \* operations the instance performs, a subset of AllKinds
    NULL,           \* null ClauseRef
    Preemptive,     \* another actor may run between two steps of an operation
    GCRatio,        \* 2^5: live clauses per erased clause that is tolerated
    MaxGeneration   \* bound on the database generation

AllKinds == {"call", "clause", "nth", "retract", "retractall", "erase"}

ASSUME ClauseDBAssumption ==
    /\ IsFiniteSet(Clauses) /\ IsFiniteSet(Frames)
    /\ NULL \notin Clauses
    /\ NoKey \notin Keys
    /\ SourceOf \in [Clauses -> Sources]
    /\ Kinds \subseteq AllKinds
    /\ Preemptive \in BOOLEAN
    /\ GCRatio \in Nat \ {0}
    /\ MaxGeneration \in Nat

VARIABLES
    linked,            \* clauses on definition.clauses
    freed,             \* clauses given back to the heap
    pos,               \* order of the clauses on the list
    created, erased,   \* generation.created and generation.erased
    generation,        \* GD->generation
    references, number_of_clauses, erased_clauses, flags,  \* of the definition
    frame              \* per frame: program counter and registers

list     == <<linked, freed, pos>>
lifetime == <<created, erased, generation>>
counts   == <<references, number_of_clauses, erased_clauses, flags>>
vars     == <<list, lifetime, counts, frame>>

Infinity == MaxGeneration + 1        \* ~0L: the clause is not erased

Generations == 0 .. MaxGeneration

-----------------------------------------------------------------------------
(* Frames.  "called": the generation is noted, no reference taken yet.       *)
(* "fetched": nth_clause/3 holds a clause, no reference taken yet.           *)
(* "running": at a clause.  "retracting": past the test that its clause is   *)
(* not erased.  "solved": done with its clause.  A frame that is over is     *)
(* "exhausted" when it ran out of clauses and "idle" otherwise.              *)

Gap   == {"called", "fetched"}
Inside == {"running", "retracting", "solved"}
PCs   == {"idle", "exhausted"} \cup Gap \cup Inside

FrameRecords ==
    [pc : PCs, kind : AllKinds, gen : Generations, key : Keys \cup {NoKey},
     clause : Clauses \cup {NULL}, next : Clauses \cup {NULL}]

Over(pc) == [pc |-> pc, kind |-> "call", gen |-> 0, key |-> NoKey,
             clause |-> NULL, next |-> NULL]

IsOver(f) == frame[f].pc \in {"idle", "exhausted"}

(* Frames that hold a reference; erase/1 goes by the clause, without one.    *)
Entered == {f \in Frames : frame[f].pc \in Inside /\ frame[f].kind # "erase"}

(* In the single-threaded system nothing runs between two steps of one       *)
(* operation; a signal handler or another thread does when Preemptive.       *)
Undisturbed(f) ==
    Preemptive \/ \A g \in Frames \ {f} :
                     frame[g].pc \notin Gap \cup {"retracting"}

Quiet == Preemptive \/ \A g \in Frames :
                     frame[g].pc \notin Gap \cup {"retracting"}

-----------------------------------------------------------------------------
(* Visibility and the walk along the clause list.                            *)

IsErased(c) == erased[c] # Infinity

visibleClause(c, gen) == created[c] <= gen /\ erased[c] > gen

Matches(c, k) == k = NoKey \/ KeyOf[c] \in {NoKey, k}

Candidates(S, gen, k) == {c \in S : visibleClause(c, gen) /\ Matches(c, k)}

First(S) == CHOOSE c \in S : \A d \in S : pos[c] <= pos[d]

Last(S)  == CHOOSE c \in S : \A d \in S : pos[c] >= pos[d]

FirstOrNull(S) == IF S = {} THEN NULL ELSE First(S)

From(c)  == {d \in linked : c # NULL /\ pos[d] >= pos[c]}
After(c) == {d \in linked : pos[d] > pos[c]}

(* Mutant: the alternative must match, but is not tested for visibility and  *)
(* the walk stops at the first clause that does not match. *)
NextRefStops(c, gen, k, kind) ==
    LET n == FirstOrNull(After(c))
    IN IF n # NULL /\ Matches(n, k) THEN n ELSE NULL

(* The alternative that is left after c.  Without a usable key it is just    *)
(* the next clause reference, visible or not; with a key, and for            *)
(* nth_clause/3, the list is searched for the next clause that counts.       *)
NextRef(c, gen, k, kind) ==
    IF k = NoKey /\ kind # "nth"
    THEN FirstOrNull(After(c))
    ELSE FirstOrNull(Candidates(After(c), gen, k))

(* isDefinedProcedure(): a property was set or a clause is visible.          *)
IsDefined ==
    \/ "DYNAMIC" \in flags
    \/ linked # {} /\ erased_clauses = 0
    \/ \E c \in linked : visibleClause(c, generation)

-----------------------------------------------------------------------------
(* Reference counting and clause garbage collection.                         *)

ErasedOf(S) == {c \in S : IsErased(c)}

(* gcClausesDefinition() stops when it has met erased_clauses of them.       *)
Reclaimed(E, n) == {c \in E : Cardinality({d \in E : pos[d] < pos[c]}) < n}

(* The definition has refs references, E is erased but linked, and n of      *)
(* these are accounted for: collect them if nobody is looking.               *)
Settle(refs, E, n, fl) ==
    LET due   == refs = 0 /\ "NEEDSCLAUSEGC" \in fl
        gone  == IF due THEN Reclaimed(E, n) ELSE {}
    IN /\ references' = refs
       /\ linked' = linked \ gone
       /\ freed' = freed \cup gone
       /\ erased_clauses' = n - Cardinality(gone)

Settled(refs, fl) == IF refs = 0 THEN fl \ {"NEEDSCLAUSEGC"} ELSE fl

(* Mutant: collects when a frame is left, whoever else uses the definition. *)
LeaveCollecting ==
    LET gone == IF "NEEDSCLAUSEGC" \in flags THEN ErasedOf(linked) ELSE {}
    IN
    /\ references' = references - 1
    /\ linked' = linked \ gone
    /\ freed' = freed \cup gone
    /\ erased_clauses' = erased_clauses - Cardinality(gone)
    /\ flags' = Settled(0, flags)
    /\ UNCHANGED <<pos, lifetime, number_of_clauses>>

(* Mutant: never looks at NEEDSCLAUSEGC. *)
LeaveOnly ==
    /\ references' = references - 1
    /\ UNCHANGED <<list, lifetime, number_of_clauses, erased_clauses, flags>>

LeaveDefinition ==
    /\ Settle(references - 1, ErasedOf(linked), erased_clauses, flags)
    /\ flags' = Settled(references - 1, flags)
    /\ UNCHANGED <<pos, lifetime, number_of_clauses>>

-----------------------------------------------------------------------------
Init ==
    /\ linked = {} /\ freed = {}
    /\ pos = [c \in Clauses |-> 0]
    /\ created = [c \in Clauses |-> 0]
    /\ erased = [c \in Clauses |-> Infinity]
    /\ generation = 0
    /\ references = 0 /\ number_of_clauses = 0 /\ erased_clauses = 0
    /\ flags = {}
    /\ frame = [f \in Frames |-> Over("idle")]

(* Mutant: the frame takes the generation the next update will have. *)
CallAhead(f, kind, k) ==
    /\ IsOver(f) /\ Undisturbed(f)
    /\ kind \in Kinds \ {"erase"}
    /\ kind = "nth" => k = NoKey
    /\ frame' = [frame EXCEPT ![f] = [Over("called") EXCEPT
                   !.kind = kind, !.gen = generation + 1, !.key = k]]
    /\ UNCHANGED <<list, lifetime, counts>>

(* depart_continue: the frame is built and the generation noted; what        *)
(* follows up to enterDefinition() may run signal handlers and the tracer.   *)
Call(f, kind, k) ==
    /\ IsOver(f) /\ Undisturbed(f)
    /\ kind \in Kinds \ {"erase"}
    /\ kind = "nth" => k = NoKey
    /\ frame' = [frame EXCEPT ![f] = [Over("called") EXCEPT
                   !.kind = kind, !.gen = generation, !.key = k]]
    /\ UNCHANGED <<list, lifetime, counts>>

(* A walk that starts at the clauses S either ends at its first candidate,   *)
(* remembering the alternative, or gives up the reference.                   *)
Advance(f, S) ==
    LET fr == frame[f]
        c  == First(S)
    IN frame' = [frame EXCEPT ![f].pc = "running", ![f].clause = c,
                   ![f].next = NextRef(c, fr.gen, fr.key, fr.kind)]

(* enterDefinition() and firstClause(). *)
Enter(f) ==
    LET fr    == frame[f]
        found == Candidates(linked, fr.gen, fr.key)
    IN /\ fr.pc = "called" /\ fr.kind # "nth" /\ Undisturbed(f)
       /\ fr.kind \in {"retract", "retractall"} => "DYNAMIC" \in flags
       /\ IF found = {}
          THEN /\ Settle(references, ErasedOf(linked), erased_clauses, flags)
               /\ flags' = Settled(references, flags)
               /\ frame' = [frame EXCEPT ![f] = Over("exhausted")]
               /\ UNCHANGED <<pos, lifetime, number_of_clauses>>
          ELSE /\ references' = references + 1
               /\ Advance(f, found)
               /\ UNCHANGED <<list, lifetime, number_of_clauses,
                              erased_clauses, flags>>

(* retract/1 and retractall/1 on a predicate that is not dynamic. *)
RetractStatic(f) ==
    /\ frame[f].pc = "called" /\ Undisturbed(f)
    /\ frame[f].kind \in {"retract", "retractall"} /\ "DYNAMIC" \notin flags
    /\ flags' = IF IsDefined THEN flags ELSE flags \cup {"DYNAMIC"}
    /\ frame' = [frame EXCEPT ![f] = Over("idle")]
    /\ UNCHANGED <<list, lifetime, references, number_of_clauses, erased_clauses>>

(* nth_clause/3 finds its first clause before it enters the definition. *)
NthFetch(f) ==
    LET found == Candidates(linked, frame[f].gen, NoKey)
    IN /\ frame[f].pc = "called" /\ frame[f].kind = "nth" /\ Undisturbed(f)
       /\ frame' = [frame EXCEPT ![f] =
                      IF found = {} THEN Over("exhausted")
                      ELSE [@ EXCEPT !.pc = "fetched", !.clause = First(found)]]
       /\ UNCHANGED <<list, lifetime, counts>>

NthEnter(f) ==
    LET fr == frame[f]
    IN /\ fr.pc = "fetched" /\ Undisturbed(f)
       /\ references' = references + 1
       /\ frame' = [frame EXCEPT ![f].pc = "running",
                      ![f].next = NextRef(fr.clause, fr.gen, NoKey, "nth")]
       /\ UNCHANGED <<list, lifetime, number_of_clauses, erased_clauses, flags>>

(* The clause failed, or was a solution that is backtracked into: go on at   *)
(* the alternative, with findClause(). *)
Redo(f) ==
    LET fr    == frame[f]
        found == Candidates(From(fr.next), fr.gen, fr.key)
    IN /\ fr.pc \in {"running", "solved"} /\ Undisturbed(f)
       /\ fr.next # NULL
       /\ IF found = {}
          THEN /\ LeaveDefinition
               /\ frame' = [frame EXCEPT ![f] = Over("exhausted")]
          ELSE /\ Advance(f, found)
               /\ UNCHANGED <<list, lifetime, counts>>

(* No alternative is left: the frame exits deterministically, or fails. *)
LeaveLast(f) ==
    /\ frame[f].pc \in {"running", "solved"} /\ Undisturbed(f)
    /\ frame[f].next = NULL
    /\ LeaveDefinition
    /\ frame' = [frame EXCEPT ![f] = Over("exhausted")]

(* Mutant: a discarded frame keeps its reference. *)
CutKeepsReference(f) ==
    /\ frame[f].pc \in {"running", "solved"} /\ Undisturbed(f)
    /\ frame[f].next # NULL /\ frame[f].kind # "retractall"
    /\ frame' = [frame EXCEPT ![f] = Over("idle")]
    /\ UNCHANGED <<list, lifetime, counts>>

(* A cut or an exception discards a frame that has an alternative. *)
Cut(f) ==
    /\ frame[f].pc \in {"running", "solved"} /\ Undisturbed(f)
    /\ frame[f].next # NULL /\ frame[f].kind # "retractall"
    /\ LeaveDefinition
    /\ frame' = [frame EXCEPT ![f] = Over("idle")]

-----------------------------------------------------------------------------
(* retractClauseProcedure(): the test outside the lock, then the update.     *)

(* retract/1 and retractall/1 have unified their clause; one that is erased  *)
(* already counts as retracted. *)
RetractTest(f) ==
    /\ frame[f].pc = "running" /\ Undisturbed(f)
    /\ frame[f].kind \in {"retract", "retractall"}
    /\ frame' = [frame EXCEPT ![f].pc =
                   IF IsErased(frame[f].clause) THEN "solved" ELSE "retracting"]
    /\ UNCHANGED <<list, lifetime, counts>>

(* erase/1 on a clause reference. *)
EraseTest(f, c) ==
    /\ IsOver(f) /\ Undisturbed(f) /\ "erase" \in Kinds
    /\ c \in linked /\ ~IsErased(c)
    /\ frame' = [frame EXCEPT ![f] = [Over("retracting") EXCEPT
                   !.kind = "erase", !.clause = c]]
    /\ UNCHANGED <<list, lifetime, counts>>

DueForGC(n, erasedClauses) ==
    "DYNAMIC" \notin flags \/ erasedClauses > n \div GCRatio

(* Mutant: does not count the erased clause. *)
MarkUncounted(c) ==
    /\ generation < MaxGeneration
    /\ generation' = generation + 1
    /\ erased' = [erased EXCEPT ![c] = generation + 1]
    /\ number_of_clauses' = number_of_clauses - 1
    /\ flags' = IF DueForGC(number_of_clauses - 1, erased_clauses + 1)
                THEN flags \cup {"NEEDSCLAUSEGC"} ELSE flags
    /\ UNCHANGED <<list, created, references, erased_clauses>>

(* Mutant: erases in the generation of the frames that still see the clause. *)
MarkOldGeneration(c) ==
    /\ generation < MaxGeneration
    /\ generation' = generation + 1
    /\ erased' = [erased EXCEPT ![c] = generation]
    /\ number_of_clauses' = number_of_clauses - 1
    /\ erased_clauses' = erased_clauses + 1
    /\ flags' = IF DueForGC(number_of_clauses - 1, erased_clauses + 1)
                THEN flags \cup {"NEEDSCLAUSEGC"} ELSE flags
    /\ UNCHANGED <<list, created, references>>

(* The definition is in use: only mark the clause. *)
MarkErased(c) ==
    /\ generation < MaxGeneration
    /\ generation' = generation + 1
    /\ erased' = [erased EXCEPT ![c] = generation + 1]
    /\ number_of_clauses' = number_of_clauses - 1
    /\ erased_clauses' = erased_clauses + 1
    /\ flags' = IF DueForGC(number_of_clauses - 1, erased_clauses + 1)
                THEN flags \cup {"NEEDSCLAUSEGC"} ELSE flags
    /\ UNCHANGED <<list, created, references>>

(* Nobody uses the definition: unlink the clause and free it, at once. *)
Unlink(c) ==
    /\ linked' = linked \ {c}
    /\ freed' = freed \cup ({c} \cap linked)
    /\ number_of_clauses' = number_of_clauses - Cardinality({c} \cap linked)
    /\ UNCHANGED <<pos, lifetime, references, erased_clauses, flags>>

RetractLocked(f) ==
    LET c == frame[f].clause
    IN /\ frame[f].pc = "retracting" /\ Undisturbed(f)
       /\ IF references # 0 THEN MarkErased(c) ELSE Unlink(c)
       /\ frame' = [frame EXCEPT ![f] =
                      IF @.kind = "erase" THEN Over("idle")
                      ELSE [@ EXCEPT !.pc = "solved"]]

-----------------------------------------------------------------------------
(* Adding clauses, and removing many. *)

assertProcedure(c, where) ==
    /\ Quiet /\ generation < MaxGeneration
    /\ c \notin linked \cup freed
    /\ linked' = linked \cup {c}
    /\ pos' = [pos EXCEPT ![c] =
                 IF linked = {} THEN 0
                 ELSE IF where = "CL_START" THEN pos[First(linked)] - 1
                 ELSE pos[Last(linked)] + 1]
    /\ generation' = generation + 1
    /\ created' = [created EXCEPT ![c] = generation + 1]
    /\ number_of_clauses' = number_of_clauses + 1
    /\ UNCHANGED <<freed, erased, references, erased_clauses, frame>>

(* asserta/1 and assertz/1: not on a defined static predicate. *)
AssertTerm(c, where) ==
    /\ "DYNAMIC" \in flags \/ ~IsDefined
    /\ assertProcedure(c, where)
    /\ flags' = flags \cup {"DYNAMIC"}

(* A clause read from the file whose current_procedure this is. *)
RecordClause(c) ==
    /\ assertProcedure(c, "CL_END")
    /\ UNCHANGED flags

LiveOf(S) == {c \in S : ~IsErased(c)}

(* The generation moves once; every doomed clause is marked, which leaves n; *)
(* the definition is referenced meanwhile, and collected if nobody else uses *)
(* it.  Flags outside keep are reset.                                        *)
RemoveClauses(doomed, n, keep) ==
    LET hit == LiveOf(doomed)
        fl  == IF hit = {} THEN flags ELSE flags \cup {"NEEDSCLAUSEGC"}
    IN /\ Quiet /\ generation < MaxGeneration
       /\ generation' = generation + 1
       /\ erased' = [c \in Clauses |-> IF c \in hit THEN generation + 1
                                        ELSE erased[c]]
       /\ number_of_clauses' = n
       /\ Settle(references, ErasedOf(linked) \cup hit,
                 erased_clauses + Cardinality(hit), fl)
       /\ flags' = Settled(references, fl) \cap keep
       /\ UNCHANGED <<pos, created, frame>>

AllFlags == {"DYNAMIC", "NEEDSCLAUSEGC"}

(* abolish/2: resetProcedure() zeroes the count and keeps, of these flags,   *)
(* only NEEDSCLAUSEGC. *)
Abolish == RemoveClauses(linked, 0, {"NEEDSCLAUSEGC"})

(* A file that is loaded again first loses its clauses, or the predicate all *)
(* of them if it is not multifile. *)
Reconsult(S) ==
    RemoveClauses(S, number_of_clauses - Cardinality(LiveOf(S)), AllFlags)

startConsult == Reconsult(linked)

startConsultMultifile(s) == Reconsult({c \in linked : SourceOf[c] = s})

(* abort, single-threaded: every frame is dropped and the count is forced. *)
Abort ==
    /\ ~Preemptive
    /\ Settle(0, ErasedOf(linked), erased_clauses, flags)
    /\ flags' = Settled(0, flags)
    /\ frame' = [f \in Frames |-> Over("idle")]
    /\ UNCHANGED <<pos, lifetime, number_of_clauses>>

-----------------------------------------------------------------------------
FrameStep(f) ==
    \/ \E kind \in Kinds, k \in Keys \cup {NoKey} : Call(f, kind, k)
    \/ Enter(f) \/ NthFetch(f) \/ NthEnter(f)
    \/ Redo(f) \/ LeaveLast(f) \/ Cut(f)
    \/ RetractStatic(f) \/ RetractTest(f)
    \/ \E c \in Clauses : EraseTest(f, c)
    \/ RetractLocked(f)

UpdateStep ==
    \/ \E c \in Clauses, where \in {"CL_START", "CL_END"} : AssertTerm(c, where)
    \/ \E c \in Clauses : RecordClause(c)
    \/ Abolish
    \/ startConsult
    \/ \E s \in Sources : startConsultMultifile(s)

Next == (\E f \in Frames : FrameStep(f)) \/ UpdateStep \/ Abort

Spec == Init /\ [][Next]_vars

-----------------------------------------------------------------------------
(* Ways out of the call port, before enterDefinition(). *)

(* The tracer answers fail or ignore. *)
TraceCallPort(f) ==
    /\ frame[f].pc = "called" /\ frame[f].kind = "call"
    /\ Undisturbed(f)
    /\ LeaveDefinition
    /\ frame' = [frame EXCEPT ![f] = Over("idle")]

(* The tracer answers retry at a later port of the frame. *)
TraceRetry(f) ==
    /\ frame[f].pc = "running" /\ frame[f].kind = "call"
    /\ Undisturbed(f)
    /\ frame' = [frame EXCEPT ![f] =
                   [@ EXCEPT !.pc = "called", !.clause = NULL, !.next = NULL,
                     !.gen = IF "DYNAMIC" \in flags THEN frame[f].gen
                             ELSE generation]]
    /\ UNCHANGED <<list, lifetime, counts>>

(* PL_handle_signals() leaves an exception: b_throw discards the new frame. *)
ThrowCallPort(f) ==
    /\ frame[f].pc = "called" /\ frame[f].kind = "call"
    /\ Undisturbed(f)
    /\ LeaveDefinition
    /\ frame' = [frame EXCEPT ![f] = Over("idle")]

PortStep(f) == TraceCallPort(f) \/ TraceRetry(f) \/ ThrowCallPort(f)

(* The system with a tracer, and with handlers that throw. *)
PortSpec == Init /\ [][Next \/ \E f \in Frames : PortStep(f)]_vars

-----------------------------------------------------------------------------
(* Properties *)

TypeOK ==
    /\ linked \in SUBSET Clauses /\ freed \in SUBSET Clauses
    /\ pos \in [Clauses -> Int]
    /\ created \in [Clauses -> Generations]
    /\ erased \in [Clauses -> 0 .. Infinity]
    /\ generation \in Generations
    /\ references \in Int /\ number_of_clauses \in Int /\ erased_clauses \in Int
    /\ flags \in SUBSET AllFlags
    /\ frame \in [Frames -> FrameRecords]

(* The reference count of the definition is the number of frames that use   *)
(* it (pl-incl.h, predicate reference counting). *)
ReferencesExact == references = Cardinality(Entered)

(* leaveDefinition() asserts that the count never drops below zero. *)
ReferencesNonNegative == references >= 0

(* A frame that can still look at a clause reference never sees one that    *)
(* was freed: neither its clause nor its alternative. *)
NoDangling ==
    \A f \in Frames : frame[f].pc \in Inside \cup {"fetched"} =>
        {frame[f].clause, frame[f].next} \subseteq linked \cup {NULL}

(* What pl_check_definition() checks: the counts are those of the list. *)
CountsExact ==
    /\ number_of_clauses = Cardinality({c \in linked : ~IsErased(c)})
    /\ erased_clauses = Cardinality(ErasedOf(linked))

(* Clause garbage that is due for collection never waits on a definition    *)
(* that nobody uses: only leaving it would trigger the collection. *)
NoGarbageWaits == references = 0 => "NEEDSCLAUSEGC" \notin flags

(* A clause that an entered frame can see is not reclaimed before the       *)
(* frame is over. *)
SeenClauseStays ==
    [][\A f \in Frames :
         f \in Entered /\ f \in Entered' /\ frame'[f].gen = frame[f].gen =>
           \A c \in linked : visibleClause(c, frame[f].gen) =>
             c \in linked' /\ visibleClause(c, frame[f].gen)']_vars

-----------------------------------------------------------------------------
(* Refinement of the logical update view. *)

viewOf(f) ==
    LET fr   == frame[f]
        seen == Candidates(linked, fr.gen, fr.key)
    IN IF IsOver(f) \/ fr.kind = "erase"
       THEN [status |-> IF fr.pc = "exhausted" THEN "exhausted" ELSE "idle",
             todo |-> {}, at |-> NULL]
       ELSE [status |-> "active",
             todo |-> IF fr.pc = "called" THEN seen
                      ELSE IF fr.pc = "fetched"
                           THEN {c \in seen : pos[c] >= pos[fr.clause]}
                      ELSE {c \in seen : c \in From(fr.next)},
             at |-> IF fr.pc = "fetched" THEN NULL ELSE fr.clause]

View == INSTANCE LogicalUpdate WITH
            live  <- {c \in linked : ~IsErased(c)},
            used  <- linked \cup freed,
            order <- pos,
            goal  <- [f \in Frames |-> viewOf(f)]

(* Every frame enumerates, in order, exactly the clauses that were in the   *)
(* predicate when it was called, whatever is added or removed meanwhile     *)
(* (ChangeLog:1100, "Implemented logical update-view"). *)
LogicalUpdateView == View!Spec

=============================================================================
