--------------------------- MODULE ClauseDBProofs ---------------------------
(* Theorems about ClauseDB for every value of its constants. *)
EXTENDS ClauseDB, FiniteSetTheorems, WellFoundedInduction, TLAPS

USE DEF Generations, Infinity

(* The records that frames are set to are frame records. *)
LEMMA OverIsRecord ==
    ASSUME NEW pc \in {"idle", "exhausted", "called", "retracting"}
    PROVE  Over(pc) \in FrameRecords
  BY ClauseDBAssumption DEF Over, FrameRecords, PCs, Gap, Inside, AllKinds

(* A set of clauses has a first one: of the sets of clauses up to c, for c   *)
(* in S, one that is minimal for inclusion is that of the first clause. *)
LEMMA LeastExists ==
    ASSUME NEW p \in [Clauses -> Int], NEW S \in SUBSET Clauses, S # {}
    PROVE  \E e \in S : \A d \in S : p[e] <= p[d]
  <1> DEFINE UpTo(c) == {d \in S : p[d] <= p[c]}
             T == {UpTo(c) : c \in S}
  <1>1. IsFiniteSet(S)
    BY ClauseDBAssumption, FS_Subset
  <1>2. T \subseteq FiniteSubsetsOf(S)
    <2>1. SUFFICES ASSUME NEW c \in S PROVE UpTo(c) \in FiniteSubsetsOf(S)
      OBVIOUS
    <2>2. UpTo(c) \in SUBSET S
      OBVIOUS
    <2>3. IsFiniteSet(UpTo(c))
      BY <1>1, <2>2, FS_Subset
    <2> QED  BY <2>2, <2>3 DEF FiniteSubsetsOf
  <1>3. T # {}
    OBVIOUS
  <1>4. PICK t \in T : \A u \in T : ~(<<u, t>> \in StrictSubsetOrdering(S))
    <2> HIDE DEF T
    <2> QED  BY <1>2, <1>3, FS_StrictSubsetOrderingWellFounded, WFMin
  <1>5. PICK c \in S : t = UpTo(c)
    OBVIOUS
  <1>6. ASSUME NEW d \in S PROVE p[c] <= p[d]
    <2>1. SUFFICES ASSUME p[d] < p[c] PROVE FALSE
      OBVIOUS
    <2>2. UpTo(d) \subseteq UpTo(c)
      BY <2>1
    <2>3. c \in UpTo(c) /\ c \notin UpTo(d)
      BY <2>1
    <2>4. UpTo(d) \in T /\ UpTo(d) \in SUBSET S /\ UpTo(c) \in SUBSET S
      OBVIOUS
    <2>5. <<UpTo(d), UpTo(c)>> \in StrictSubsetOrdering(S)
      BY <2>2, <2>3, <2>4 DEF StrictSubsetOrdering
    <2> QED  BY <1>4, <1>5, <2>4, <2>5
  <1> QED  BY <1>6

LEMMA FirstInSet ==
    ASSUME TypeOK, NEW S \in SUBSET Clauses, S # {}
    PROVE  First(S) \in S /\ \A d \in S : pos[First(S)] <= pos[d]
  <1>1. \E e \in S : \A d \in S : pos[e] <= pos[d]
    BY LeastExists DEF TypeOK
  <1> QED  BY <1>1 DEF First

LEMMA LastInSet ==
    ASSUME TypeOK, NEW S \in SUBSET Clauses, S # {}
    PROVE  Last(S) \in S /\ \A d \in S : pos[Last(S)] >= pos[d]
  <1> DEFINE back == [c \in Clauses |-> 0 - pos[c]]
  <1>1. back \in [Clauses -> Int]
    BY DEF TypeOK
  <1>2. PICK e \in S : \A d \in S : back[e] <= back[d]
    <2> HIDE DEF back
    <2> QED  BY <1>1, LeastExists
  <1>3. ASSUME NEW d \in S PROVE pos[e] >= pos[d]
    <2>1. e \in Clauses /\ d \in Clauses
      OBVIOUS
    <2>2. back[e] = 0 - pos[e] /\ back[d] = 0 - pos[d]
      BY <2>1
    <2>3. pos[e] \in Int /\ pos[d] \in Int
      BY <2>1 DEF TypeOK
    <2>4. back[e] <= back[d]
      BY <1>2
    <2> HIDE DEF back
    <2> QED  BY <2>2, <2>3, <2>4
  <1> QED  BY <1>3 DEF Last

(* The alternative that is remembered is a clause of the list, or NULL. *)
LEMMA NextRefType ==
    ASSUME TypeOK, NEW c, NEW gen, NEW k, NEW kind
    PROVE  NextRef(c, gen, k, kind) \in linked \cup {NULL}
  <1>1. ASSUME NEW S \in SUBSET linked PROVE FirstOrNull(S) \in linked \cup {NULL}
    BY FirstInSet DEF FirstOrNull, TypeOK
  <1>2. After(c) \in SUBSET linked /\ Candidates(After(c), gen, k) \in SUBSET linked
    BY DEF After, Candidates
  <1> QED  BY <1>1, <1>2 DEF NextRef

LEMMA SettleTypes ==
    ASSUME TypeOK, NEW refs \in Int, NEW E \in SUBSET Clauses, NEW n \in Int,
           NEW fl \in SUBSET AllFlags, Settle(refs, E, n, fl)
    PROVE  /\ linked' \in SUBSET Clauses /\ freed' \in SUBSET Clauses
           /\ references' \in Int /\ erased_clauses' \in Int
           /\ Settled(refs, fl) \in SUBSET AllFlags
  <1> DEFINE due  == refs = 0 /\ "NEEDSCLAUSEGC" \in fl
             gone == IF due THEN Reclaimed(E, n) ELSE {}
  <1>1. gone \in SUBSET Clauses
    BY DEF Reclaimed
  <1>2. Cardinality(gone) \in Nat
    BY <1>1, ClauseDBAssumption, FS_Subset, FS_CardinalityType
  <1>3. /\ linked' = linked \ gone /\ freed' = freed \cup gone
        /\ references' = refs /\ erased_clauses' = n - Cardinality(gone)
    BY DEF Settle
  <1>4. Settled(refs, fl) \in SUBSET AllFlags
    BY DEF Settled
  <1> QED  BY <1>1, <1>2, <1>3, <1>4 DEF TypeOK

-----------------------------------------------------------------------------
(* Type correctness. *)

LEMMA LeaveTypes ==
    ASSUME TypeOK, LeaveDefinition, frame' \in [Frames -> FrameRecords]
    PROVE  TypeOK'
  <1>1. ErasedOf(linked) \in SUBSET Clauses
    BY DEF ErasedOf, TypeOK
  <1>2. /\ references - 1 \in Int /\ erased_clauses \in Int
        /\ flags \in SUBSET AllFlags
    BY DEF TypeOK
  <1>3. /\ Settle(references - 1, ErasedOf(linked), erased_clauses, flags)
        /\ flags' = Settled(references - 1, flags)
        /\ UNCHANGED <<pos, lifetime, number_of_clauses>>
    BY DEF LeaveDefinition
  <1>4. /\ linked' \in SUBSET Clauses /\ freed' \in SUBSET Clauses
        /\ references' \in Int /\ erased_clauses' \in Int
        /\ flags' \in SUBSET AllFlags
    BY <1>1, <1>2, <1>3, SettleTypes
  <1> QED  BY <1>3, <1>4 DEF TypeOK, lifetime

(* Walking on to the first candidate of some clauses of the list. *)
LEMMA AdvanceType ==
    ASSUME TypeOK, NEW f \in Frames, NEW S \in SUBSET linked, S # {}, Advance(f, S)
    PROVE  frame' \in [Frames -> FrameRecords]
  <1> DEFINE c == First(S)
             n == NextRef(c, frame[f].gen, frame[f].key, frame[f].kind)
  <1>1. c \in Clauses
    BY FirstInSet DEF TypeOK
  <1>2. n \in Clauses \cup {NULL}
    BY NextRefType DEF TypeOK
  <1>3. frame' = [frame EXCEPT ![f].pc = "running", ![f].clause = c, ![f].next = n]
    BY DEF Advance
  <1>4. frame[f] \in FrameRecords
    BY DEF TypeOK
  <1> HIDE DEF c, n
  <1>5. [frame[f] EXCEPT !.pc = "running", !.clause = c, !.next = n] \in FrameRecords
    BY <1>1, <1>2, <1>4 DEF FrameRecords, PCs, Inside
  <1> QED  BY <1>3, <1>5 DEF TypeOK

LEMMA TypeInit == Init => TypeOK
  BY ClauseDBAssumption, OverIsRecord DEF Init, TypeOK, AllFlags

LEMMA TypeNext == TypeOK /\ [Next]_vars => TypeOK'
  <1> SUFFICES ASSUME TypeOK, [Next]_vars PROVE TypeOK'
    OBVIOUS
  <1> USE DEF list, lifetime, counts
  <1>a. ASSUME NEW f \in Frames, NEW pc \in {"idle", "exhausted"}
        PROVE  [frame EXCEPT ![f] = Over(pc)] \in [Frames -> FrameRecords]
    BY OverIsRecord DEF TypeOK
  <1>b. ASSUME NEW f \in Frames PROVE frame[f] \in FrameRecords
    BY DEF TypeOK
  <1>1. ASSUME NEW f \in Frames, NEW kind \in Kinds, NEW k \in Keys \cup {NoKey},
               Call(f, kind, k)
        PROVE  TypeOK'
    <2>1. [Over("called") EXCEPT !.kind = kind, !.gen = generation, !.key = k]
            \in FrameRecords
      BY ClauseDBAssumption, OverIsRecord DEF FrameRecords, TypeOK
    <2> QED  BY <1>1, <2>1 DEF Call, TypeOK
  <1>2. ASSUME NEW f \in Frames, Enter(f) PROVE TypeOK'
    <2> DEFINE found == Candidates(linked, frame[f].gen, frame[f].key)
    <2>1. found \in SUBSET linked
      BY DEF Candidates
    <2>2. CASE found = {}
      <3>1. ErasedOf(linked) \in SUBSET Clauses
        BY DEF ErasedOf, TypeOK
      <3>2. /\ Settle(references, ErasedOf(linked), erased_clauses, flags)
            /\ flags' = Settled(references, flags)
            /\ frame' = [frame EXCEPT ![f] = Over("exhausted")]
            /\ UNCHANGED <<pos, lifetime, number_of_clauses>>
        BY <1>2, <2>2 DEF Enter
      <3>3. /\ linked' \in SUBSET Clauses /\ freed' \in SUBSET Clauses
            /\ references' \in Int /\ erased_clauses' \in Int
            /\ flags' \in SUBSET AllFlags
        BY <3>1, <3>2, SettleTypes DEF TypeOK
      <3> QED  BY <3>2, <3>3, <1>a DEF TypeOK
    <2>3. CASE found # {}
      <3>1. /\ references' = references + 1
            /\ Advance(f, found)
            /\ UNCHANGED <<list, lifetime, number_of_clauses,
                           erased_clauses, flags>>
        BY <1>2, <2>3 DEF Enter
      <3>2. frame' \in [Frames -> FrameRecords]
        BY <2>1, <2>3, <3>1, AdvanceType
      <3> QED  BY <3>1, <3>2 DEF TypeOK
    <2> QED  BY <2>2, <2>3
  <1>3. ASSUME NEW f \in Frames, NthFetch(f) PROVE TypeOK'
    <2> DEFINE found == Candidates(linked, frame[f].gen, NoKey)
    <2>1. found \in SUBSET Clauses
      BY DEF Candidates, TypeOK
    <2>2. found # {} => First(found) \in Clauses
      BY <2>1, FirstInSet
    <2>3. found # {} => [frame[f] EXCEPT !.pc = "fetched", !.clause = First(found)]
                          \in FrameRecords
      BY <1>b, <2>2 DEF FrameRecords, PCs, Gap
    <2>4. /\ frame' = [frame EXCEPT ![f] =
                         IF found = {} THEN Over("exhausted")
                         ELSE [@ EXCEPT !.pc = "fetched", !.clause = First(found)]]
          /\ UNCHANGED <<list, lifetime, counts>>
      BY <1>3 DEF NthFetch
    <2> HIDE DEF found
    <2> QED  BY <2>3, <2>4, OverIsRecord DEF TypeOK
  <1>4. ASSUME NEW f \in Frames, NthEnter(f) PROVE TypeOK'
    <2> DEFINE n == NextRef(frame[f].clause, frame[f].gen, NoKey, "nth")
    <2>1. n \in Clauses \cup {NULL}
      BY NextRefType DEF TypeOK
    <2>2. /\ references' = references + 1
          /\ frame' = [frame EXCEPT ![f].pc = "running", ![f].next = n]
          /\ UNCHANGED <<list, lifetime, number_of_clauses, erased_clauses, flags>>
      BY <1>4 DEF NthEnter
    <2> HIDE DEF n
    <2>3. [frame[f] EXCEPT !.pc = "running", !.next = n] \in FrameRecords
      BY <1>b, <2>1 DEF FrameRecords, PCs, Inside
    <2> QED  BY <2>2, <2>3 DEF TypeOK
  <1>5. ASSUME NEW f \in Frames, Redo(f) PROVE TypeOK'
    <2> DEFINE found == Candidates(From(frame[f].next), frame[f].gen, frame[f].key)
    <2>1. found \in SUBSET linked
      BY DEF Candidates, From
    <2>2. CASE found = {}
      BY <1>5, <2>2, <1>a, LeaveTypes DEF Redo
    <2>3. CASE found # {}
      <3>1. Advance(f, found) /\ UNCHANGED <<list, lifetime, counts>>
        BY <1>5, <2>3 DEF Redo
      <3>2. frame' \in [Frames -> FrameRecords]
        BY <2>1, <2>3, <3>1, AdvanceType
      <3> QED  BY <3>1, <3>2 DEF TypeOK
    <2> QED  BY <2>2, <2>3
  <1>6. ASSUME NEW f \in Frames, LeaveLast(f) PROVE TypeOK'
    BY <1>6, <1>a, LeaveTypes DEF LeaveLast
  <1>7. ASSUME NEW f \in Frames, Cut(f) PROVE TypeOK'
    BY <1>7, <1>a, LeaveTypes DEF Cut
  <1>8. ASSUME NEW f \in Frames, RetractStatic(f) PROVE TypeOK'
    BY <1>8, <1>a DEF RetractStatic, TypeOK, AllFlags
  <1>9. ASSUME NEW f \in Frames, RetractTest(f) PROVE TypeOK'
    <2>1. \A pc \in {"solved", "retracting"} : [frame[f] EXCEPT !.pc = pc] \in FrameRecords
      BY <1>b DEF FrameRecords, PCs, Inside
    <2> QED  BY <1>9, <2>1 DEF RetractTest, TypeOK
  <1>10. ASSUME NEW f \in Frames, NEW c \in Clauses, EraseTest(f, c) PROVE TypeOK'
    <2>1. [Over("retracting") EXCEPT !.kind = "erase", !.clause = c] \in FrameRecords
      BY OverIsRecord DEF FrameRecords, AllKinds
    <2> QED  BY <1>10, <2>1 DEF EraseTest, TypeOK
  <1>11. ASSUME NEW f \in Frames, RetractLocked(f) PROVE TypeOK'
    <2> DEFINE c == frame[f].clause
    <2>1. frame' \in [Frames -> FrameRecords]
      <3>1. [frame[f] EXCEPT !.pc = "solved"] \in FrameRecords
        BY <1>b DEF FrameRecords, PCs, Inside
      <3> QED  BY <1>11, <3>1, OverIsRecord DEF RetractLocked, TypeOK
    <2>2. CASE references # 0
      <3>1. MarkErased(c)
        BY <1>11, <2>2 DEF RetractLocked
      <3>2. generation + 1 \in Generations /\ generation + 1 \in 0 .. Infinity
        BY <3>1, ClauseDBAssumption DEF MarkErased, TypeOK
      <3>3. flags' \in SUBSET AllFlags
        BY <3>1 DEF MarkErased, TypeOK, AllFlags
      <3> HIDE DEF c
      <3>4. erased' \in [Clauses -> 0 .. Infinity]
        BY <3>1, <3>2 DEF MarkErased, TypeOK
      <3> QED  BY <2>1, <3>1, <3>2, <3>3, <3>4 DEF MarkErased, TypeOK
    <2>3. CASE references = 0
      <3>1. Unlink(c)
        BY <1>11, <2>3 DEF RetractLocked
      <3>2. {c} \cap linked \in SUBSET Clauses /\ Cardinality({c} \cap linked) \in Int
        <4>1. IsFiniteSet({c} \cap linked)
          BY ClauseDBAssumption, FS_Subset DEF TypeOK
        <4> QED  BY <4>1, FS_CardinalityType DEF TypeOK
      <3> HIDE DEF c
      <3> QED  BY <2>1, <3>1, <3>2 DEF Unlink, TypeOK
    <2> QED  BY <2>2, <2>3
  <1>15. ASSUME NEW c \in Clauses, NEW where, assertProcedure(c, where),
                flags' \in SUBSET AllFlags
         PROVE  TypeOK'
    <2>1. generation + 1 \in Generations
      BY <1>15, ClauseDBAssumption DEF assertProcedure, TypeOK
    <2>2. linked # {} => pos[First(linked)] \in Int /\ pos[Last(linked)] \in Int
      BY FirstInSet, LastInSet DEF TypeOK
    <2>3. pos' \in [Clauses -> Int]
      BY <1>15, <2>2 DEF assertProcedure, TypeOK
    <2> QED  BY <1>15, <2>1, <2>3 DEF assertProcedure, TypeOK
  <1>16. ASSUME NEW c \in Clauses, NEW where, AssertTerm(c, where) PROVE TypeOK'
    BY <1>15, <1>16 DEF AssertTerm, TypeOK, AllFlags
  <1>17. ASSUME NEW c \in Clauses, RecordClause(c) PROVE TypeOK'
    BY <1>15, <1>17 DEF RecordClause, TypeOK
  <1>18. ASSUME NEW D \in SUBSET linked, NEW k \in Int, NEW keep,
                RemoveClauses(D, k, keep)
         PROVE  TypeOK'
    <2> DEFINE hit == LiveOf(D)
               fl  == IF hit = {} THEN flags ELSE flags \cup {"NEEDSCLAUSEGC"}
               E   == ErasedOf(linked) \cup hit
               n   == erased_clauses + Cardinality(hit)
    <2>1. hit \in SUBSET Clauses /\ E \in SUBSET Clauses
      BY DEF ErasedOf, LiveOf, TypeOK
    <2>2. Cardinality(hit) \in Nat
      BY <2>1, ClauseDBAssumption, FS_Subset, FS_CardinalityType
    <2>3. fl \in SUBSET AllFlags /\ n \in Int
      BY <2>2 DEF TypeOK, AllFlags
    <2>4. /\ generation < MaxGeneration /\ generation' = generation + 1
          /\ erased' = [c \in Clauses |-> IF c \in hit THEN generation + 1
                                           ELSE erased[c]]
          /\ number_of_clauses' = k
          /\ Settle(references, E, n, fl)
          /\ flags' = Settled(references, fl) \cap keep
          /\ UNCHANGED <<pos, created, frame>>
      BY <1>18 DEF RemoveClauses
    <2>5. generation + 1 \in Generations /\ generation + 1 \in 0 .. Infinity
      BY <2>4, ClauseDBAssumption DEF TypeOK
    <2>6. references \in Int
      BY DEF TypeOK
    <2> HIDE DEF hit, fl, E, n
    <2>7. /\ linked' \in SUBSET Clauses /\ freed' \in SUBSET Clauses
          /\ references' \in Int /\ erased_clauses' \in Int
          /\ Settled(references, fl) \in SUBSET AllFlags
      BY <2>1, <2>3, <2>4, <2>6, SettleTypes
    <2> QED  BY <2>1, <2>2, <2>4, <2>5, <2>7 DEF TypeOK
  <1>19. ASSUME UpdateStep PROVE TypeOK'
    <2>1. ASSUME NEW D \in SUBSET linked, Reconsult(D) PROVE TypeOK'
      <3>1. LiveOf(D) \in SUBSET Clauses
        BY DEF LiveOf, TypeOK
      <3>2. Cardinality(LiveOf(D)) \in Nat
        BY <3>1, ClauseDBAssumption, FS_Subset, FS_CardinalityType
      <3>3. number_of_clauses - Cardinality(LiveOf(D)) \in Int
        BY <3>2 DEF TypeOK
      <3> QED  BY <1>18, <2>1, <3>3 DEF Reconsult
    <2>2. Abolish => TypeOK'
      BY <1>18 DEF Abolish
    <2>3. \A s \in Sources : {c \in linked : SourceOf[c] = s} \in SUBSET linked
      OBVIOUS
    <2> QED  BY <1>16, <1>17, <1>19, <2>1, <2>2, <2>3
             DEF UpdateStep, startConsult, startConsultMultifile
  <1>20. ASSUME Abort PROVE TypeOK'
    <2>1. ErasedOf(linked) \in SUBSET Clauses
      BY DEF ErasedOf, TypeOK
    <2>2. /\ Settle(0, ErasedOf(linked), erased_clauses, flags)
          /\ flags' = Settled(0, flags)
          /\ frame' = [f \in Frames |-> Over("idle")]
          /\ UNCHANGED <<pos, lifetime, number_of_clauses>>
      BY <1>20 DEF Abort
    <2>3. /\ linked' \in SUBSET Clauses /\ freed' \in SUBSET Clauses
          /\ references' \in Int /\ erased_clauses' \in Int
          /\ flags' \in SUBSET AllFlags
      <3>1. 0 \in Int /\ erased_clauses \in Int /\ flags \in SUBSET AllFlags
        BY DEF TypeOK
      <3> QED  BY <2>1, <2>2, <3>1, SettleTypes
    <2> QED  BY <2>2, <2>3, OverIsRecord DEF TypeOK
  <1>21. CASE UNCHANGED vars
    BY <1>21 DEF vars, TypeOK
  <1>22. ASSUME NEW f \in Frames, FrameStep(f) PROVE TypeOK'
    BY <1>1, <1>2, <1>3, <1>4, <1>5, <1>6, <1>7, <1>8, <1>9, <1>10, <1>11,
       <1>22 DEF FrameStep
  <1> QED  BY <1>19, <1>20, <1>21, <1>22 DEF Next

(* Every reachable state is well typed; in particular no clause is given a  *)
(* generation beyond that of the database. *)
THEOREM TypeCorrect == Spec => []TypeOK
  BY TypeInit, TypeNext, PTL DEF Spec

-----------------------------------------------------------------------------
(* The reference count. *)

(* Only an operation the instance performs gives a frame its kind, and a     *)
(* frame of kind erase is only ever between its test and its update. *)
Sound(r) ==
    /\ r.kind = "erase" => r.pc = "retracting"
    /\ r.pc = "fetched" => r.kind = "nth"
    /\ r.kind \in {"nth", "erase"} => r.kind \in Kinds
    /\ r.pc \in Inside \cup {"fetched"} => r.clause # NULL
    /\ r.pc \in Gap => r.next = NULL
    /\ r.gen <= generation

KindInv == \A f \in Frames : Sound(frame[f])

CountInv == TypeOK /\ KindInv /\ ReferencesExact

LEMMA EnteredFinite ==
    TypeOK => IsFiniteSet(Entered) /\ Cardinality(Entered) \in Nat
  BY ClauseDBAssumption, FS_Subset, FS_CardinalityType DEF Entered

(* The frame that moves may enter or leave; the others stay as they are. *)
LEMMA EnteredChange ==
    ASSUME TypeOK, NEW f \in Frames, NEW r \in FrameRecords,
           frame' = [frame EXCEPT ![f] = r]
    PROVE  IF r.pc \in Inside /\ r.kind # "erase"
           THEN /\ f \in Entered'
                /\ Entered' = Entered \cup {f}
                /\ Cardinality(Entered') = IF f \in Entered THEN Cardinality(Entered)
                                           ELSE Cardinality(Entered) + 1
           ELSE /\ f \notin Entered'
                /\ Entered' = Entered \ {f}
                /\ Cardinality(Entered') = IF f \in Entered THEN Cardinality(Entered) - 1
                                           ELSE Cardinality(Entered)
  <1>1. \A g \in Frames : frame'[g] = IF g = f THEN r ELSE frame[g]
    BY DEF TypeOK
  <1>2. Entered' = {g \in Frames : frame'[g].pc \in Inside /\ frame'[g].kind # "erase"}
    BY DEF Entered
  <1>3. CASE r.pc \in Inside /\ r.kind # "erase"
    <2>1. Entered' = Entered \cup {f}
      BY <1>1, <1>2, <1>3 DEF Entered
    <2> QED  BY <1>3, <2>1, EnteredFinite, FS_AddElement
  <1>4. CASE ~(r.pc \in Inside /\ r.kind # "erase")
    <2>1. Entered' = Entered \ {f}
      BY <1>1, <1>2, <1>4 DEF Entered
    <2> QED  BY <1>4, <2>1, EnteredFinite, FS_RemoveElement
  <1> QED  BY <1>3, <1>4

(* What a step does to the frames, as far as the count is concerned. *)
LEMMA AdvanceRecord ==
    ASSUME TypeOK, NEW f \in Frames, NEW S \in SUBSET linked, S # {}, Advance(f, S)
    PROVE  \E r \in FrameRecords :
             /\ frame' = [frame EXCEPT ![f] = r]
             /\ r.pc = "running" /\ r.kind = frame[f].kind
             /\ r.gen = frame[f].gen
             /\ r.clause \in linked /\ r.next \in linked \cup {NULL}
  <1> DEFINE c == First(S)
             n == NextRef(c, frame[f].gen, frame[f].key, frame[f].kind)
             r == [frame[f] EXCEPT !.pc = "running", !.clause = c, !.next = n]
  <1>1. c \in linked
    BY FirstInSet DEF TypeOK
  <1>2. n \in linked \cup {NULL}
    BY NextRefType
  <1>3. frame' = [frame EXCEPT ![f].pc = "running", ![f].clause = c, ![f].next = n]
    BY DEF Advance
  <1>4. frame[f] \in FrameRecords
    BY DEF TypeOK
  <1> HIDE DEF c, n
  <1>5. r \in FrameRecords /\ r.pc = "running" /\ r.kind = frame[f].kind
        /\ r.gen = frame[f].gen /\ r.clause = c /\ r.next = n
    BY <1>1, <1>2, <1>4 DEF FrameRecords, PCs, Inside, TypeOK
  <1>6. frame' = [frame EXCEPT ![f] = r]
    BY <1>3, <1>4 DEF TypeOK
  <1> QED  BY <1>1, <1>2, <1>5, <1>6

LEMMA OverIsSound ==
    ASSUME TypeOK, NEW pc \in {"idle", "exhausted", "called"}
    PROVE  Sound(Over(pc))
  BY DEF Sound, Over, Inside, Gap, TypeOK

LEMMA MoveKeepsSound ==
    ASSUME TypeOK, KindInv, NEW f \in Frames, NEW r \in FrameRecords, Sound(r),
           frame' = [frame EXCEPT ![f] = r],
           generation' \in {generation, generation + 1}
    PROVE  KindInv'
  <1> SUFFICES ASSUME NEW g \in Frames PROVE Sound(frame[g])'
    BY DEF KindInv
  <1>1. frame'[g] = IF g = f THEN r ELSE frame[g]
    BY DEF TypeOK
  <1>2. Sound(frame'[g])
    BY <1>1 DEF KindInv
  <1>3. frame'[g] \in FrameRecords /\ frame'[g].gen \in Int
    BY <1>1 DEF TypeOK, FrameRecords
  <1> QED  BY <1>2, <1>3 DEF Sound, TypeOK

LEMMA CountInit == Init => CountInv
  <1> SUFFICES ASSUME Init PROVE CountInv
    OBVIOUS
  <1>1. TypeOK
    BY TypeInit
  <1>2. KindInv
    BY <1>1, OverIsSound DEF Init, KindInv
  <1>3. Entered = {}
    BY DEF Init, Entered, Over, Inside
  <1>4. ReferencesExact
    BY <1>3, FS_EmptySet DEF Init, ReferencesExact
  <1> QED  BY <1>1, <1>2, <1>4 DEF CountInv

LEMMA CountNext ==
    CountInv /\ [Next]_vars => CountInv'
  <1> SUFFICES ASSUME CountInv, [Next]_vars PROVE ReferencesExact' /\ KindInv'
    BY TypeNext DEF CountInv
  <1> USE DEF list, lifetime, counts
  <1>a. TypeOK /\ KindInv /\ references = Cardinality(Entered)
    BY DEF CountInv, ReferencesExact
  <1>b. ASSUME NEW f \in Frames
        PROVE  frame[f] \in FrameRecords /\ Sound(frame[f])
    BY <1>a DEF TypeOK, KindInv
  (* Frames that are not entered before or after. *)
  <1>c. ASSUME NEW f \in Frames, NEW r \in FrameRecords, Sound(r),
               frame' = [frame EXCEPT ![f] = r],
               generation' \in {generation, generation + 1},
               references' = references,
               f \in Entered <=> r.pc \in Inside /\ r.kind # "erase"
        PROVE  ReferencesExact' /\ KindInv'
    <2>1. Cardinality(Entered') = Cardinality(Entered)
      BY <1>a, <1>c, EnteredChange
    <2>2. ReferencesExact'
      BY <1>a, <1>c, <2>1 DEF ReferencesExact
    <2> QED  BY <1>a, <1>c, <2>2, MoveKeepsSound
  (* Frames that enter. *)
  <1>d. ASSUME NEW f \in Frames, NEW r \in FrameRecords, Sound(r),
               frame' = [frame EXCEPT ![f] = r], generation' = generation,
               references' = references + 1,
               f \notin Entered, r.pc \in Inside, r.kind # "erase"
        PROVE  ReferencesExact' /\ KindInv'
    <2>1. Cardinality(Entered') = Cardinality(Entered) + 1
      BY <1>a, <1>d, EnteredChange
    <2>2. ReferencesExact'
      BY <1>a, <1>d, <2>1 DEF ReferencesExact
    <2> QED  BY <1>a, <1>d, <2>2, MoveKeepsSound
  (* Frames that leave. *)
  <1>e. ASSUME NEW f \in Frames, NEW pc \in {"idle", "exhausted"},
               frame' = [frame EXCEPT ![f] = Over(pc)],
               LeaveDefinition, f \in Entered
        PROVE  ReferencesExact' /\ KindInv'
    <2>1. Over(pc) \in FrameRecords /\ Sound(Over(pc)) /\ Over(pc).pc \notin Inside
      BY <1>a, OverIsRecord, OverIsSound DEF Over, Inside
    <2>2. Cardinality(Entered') = Cardinality(Entered) - 1
      BY <1>a, <1>e, <2>1, EnteredChange
    <2>3. references' = references - 1 /\ generation' = generation
      BY <1>e DEF LeaveDefinition, Settle
    <2>4. ReferencesExact'
      BY <1>a, <2>2, <2>3 DEF ReferencesExact
    <2> QED  BY <1>a, <1>e, <2>1, <2>3, <2>4, MoveKeepsSound
  <1>f. ASSUME UNCHANGED frame, generation' \in {generation, generation + 1},
               references' = references
        PROVE  ReferencesExact' /\ KindInv'
    <2>1. Entered' = Entered
      BY <1>f DEF Entered
    <2>2. KindInv'
      <3> SUFFICES ASSUME NEW f \in Frames PROVE Sound(frame[f])'
        BY DEF KindInv
      <3>1. frame[f].gen \in Int /\ Sound(frame[f]) /\ generation \in Int
        BY <1>a, <1>b DEF FrameRecords, TypeOK
      <3> QED  BY <1>f, <3>1 DEF Sound
    <2> QED  BY <1>a, <1>f, <2>1, <2>2 DEF ReferencesExact
  <1>1. ASSUME NEW f \in Frames, NEW kind \in Kinds, NEW k \in Keys \cup {NoKey},
               Call(f, kind, k)
        PROVE  ReferencesExact' /\ KindInv'
    <2> DEFINE r == [Over("called") EXCEPT !.kind = kind, !.gen = generation, !.key = k]
    <2>1. r \in FrameRecords
      BY <1>a, ClauseDBAssumption, OverIsRecord DEF FrameRecords, TypeOK
    <2>2. kind # "erase" /\ f \notin Entered
      BY <1>1 DEF Call, IsOver, Entered, Inside
    <2>3. Sound(r) /\ r.pc \notin Inside
      BY <1>a, <2>2 DEF Sound, Over, Inside, Gap, TypeOK
    <2> QED  BY <1>1, <1>c, <2>1, <2>2, <2>3 DEF Call
  <1>2. ASSUME NEW f \in Frames, Enter(f) PROVE ReferencesExact' /\ KindInv'
    <2> DEFINE found == Candidates(linked, frame[f].gen, frame[f].key)
    <2>1. f \notin Entered /\ frame[f].kind # "erase"
      BY <1>2, <1>b DEF Enter, Entered, Inside, Sound
    <2>2. found \in SUBSET linked
      BY DEF Candidates
    <2>3. CASE found = {}
      <3>1. /\ frame' = [frame EXCEPT ![f] = Over("exhausted")]
            /\ references' = references /\ generation' = generation
        BY <1>2, <2>3 DEF Enter, Settle
      <3>2. Over("exhausted").pc \notin Inside
        BY DEF Over, Inside
      <3> QED  BY <1>a, <1>c, <2>1, <3>1, <3>2, OverIsRecord, OverIsSound
    <2>4. CASE found # {}
      <3>1. /\ references' = references + 1 /\ generation' = generation
            /\ Advance(f, found)
        BY <1>2, <2>4 DEF Enter
      <3>2. PICK r \in FrameRecords :
              /\ frame' = [frame EXCEPT ![f] = r]
              /\ r.pc = "running" /\ r.kind = frame[f].kind
              /\ r.gen = frame[f].gen
              /\ r.clause \in linked /\ r.next \in linked \cup {NULL}
        BY <1>a, <2>2, <2>4, <3>1, AdvanceRecord
      <3>3. Sound(r) /\ r.pc \in Inside /\ r.kind # "erase"
        BY <1>a, <1>b, <2>1, <3>2, ClauseDBAssumption DEF Sound, Inside, Gap, TypeOK
      <3> QED  BY <1>d, <2>1, <3>1, <3>2, <3>3
    <2> QED  BY <2>3, <2>4
  <1>3. ASSUME NEW f \in Frames, NthFetch(f) PROVE ReferencesExact' /\ KindInv'
    <2> DEFINE found == Candidates(linked, frame[f].gen, NoKey)
               r == IF found = {} THEN Over("exhausted")
                    ELSE [frame[f] EXCEPT !.pc = "fetched", !.clause = First(found)]
    <2>1. found \in SUBSET Clauses
      BY <1>a DEF Candidates, TypeOK
    <2>2. found # {} => First(found) \in Clauses
      BY <1>a, <2>1, FirstInSet
    <2>3. /\ frame' = [frame EXCEPT ![f] = r] /\ frame[f].kind = "nth"
          /\ frame[f].pc = "called"
          /\ references' = references /\ generation' = generation
      BY <1>3 DEF NthFetch
    <2>4. f \notin Entered
      BY <2>3 DEF Entered, Inside
    <2> HIDE DEF found
    <2>5. r \in FrameRecords /\ r.pc \notin Inside
      BY <1>b, <2>2, OverIsRecord DEF FrameRecords, PCs, Gap, Inside, Over
    <2>6. Sound(r)
      BY <1>a, <1>b, <2>2, <2>3, OverIsSound, ClauseDBAssumption DEF Sound, Gap, FrameRecords
    <2> HIDE DEF r
    <2> QED  BY <1>c, <2>3, <2>4, <2>5, <2>6
  <1>4. ASSUME NEW f \in Frames, NthEnter(f) PROVE ReferencesExact' /\ KindInv'
    <2> DEFINE n == NextRef(frame[f].clause, frame[f].gen, NoKey, "nth")
               r == [frame[f] EXCEPT !.pc = "running", !.next = n]
    <2>1. n \in Clauses \cup {NULL}
      BY <1>a, NextRefType DEF TypeOK
    <2>2. /\ references' = references + 1 /\ generation' = generation
          /\ frame[f].pc = "fetched"
          /\ frame' = [frame EXCEPT ![f].pc = "running", ![f].next = n]
      BY <1>4 DEF NthEnter
    <2>3. f \notin Entered
      BY <2>2 DEF Entered, Inside
    <2> HIDE DEF n
    <2>4. frame' = [frame EXCEPT ![f] = r]
      BY <1>a, <1>b, <2>2 DEF TypeOK
    <2>5. r \in FrameRecords /\ r.pc \in Inside
      BY <1>b, <2>1 DEF FrameRecords, PCs, Inside
    <2>6. Sound(r) /\ r.kind # "erase"
      BY <1>b, <2>2 DEF Sound, Gap, FrameRecords
    <2> HIDE DEF r
    <2> QED  BY <1>d, <2>2, <2>3, <2>4, <2>5, <2>6
  <1>5. ASSUME NEW f \in Frames, Redo(f) PROVE ReferencesExact' /\ KindInv'
    <2> DEFINE found == Candidates(From(frame[f].next), frame[f].gen, frame[f].key)
    <2>1. found \in SUBSET linked
      BY DEF Candidates, From
    <2>2. f \in Entered /\ frame[f].kind # "erase"
      BY <1>5, <1>b DEF Redo, Entered, Inside, Sound
    <2>3. CASE found = {}
      BY <1>5, <1>e, <2>2, <2>3 DEF Redo
    <2>4. CASE found # {}
      <3>1. /\ references' = references /\ generation' = generation
            /\ Advance(f, found)
        BY <1>5, <2>4 DEF Redo
      <3>2. PICK r \in FrameRecords :
              /\ frame' = [frame EXCEPT ![f] = r]
              /\ r.pc = "running" /\ r.kind = frame[f].kind
              /\ r.gen = frame[f].gen
              /\ r.clause \in linked /\ r.next \in linked \cup {NULL}
        BY <1>a, <2>1, <2>4, <3>1, AdvanceRecord
      <3>3. Sound(r) /\ r.pc \in Inside /\ r.kind # "erase"
        BY <1>a, <1>b, <2>2, <3>2, ClauseDBAssumption DEF Sound, Inside, Gap, TypeOK
      <3> QED  BY <1>c, <2>2, <3>1, <3>2, <3>3
    <2> QED  BY <2>3, <2>4
  <1>6. ASSUME NEW f \in Frames, LeaveLast(f) \/ Cut(f)
        PROVE  ReferencesExact' /\ KindInv'
    <2>1. f \in Entered
      BY <1>6, <1>b DEF LeaveLast, Cut, Entered, Inside, Sound
    <2> QED  BY <1>6, <1>e, <2>1 DEF LeaveLast, Cut
  <1>7. ASSUME NEW f \in Frames, RetractStatic(f) PROVE ReferencesExact' /\ KindInv'
    <2>1. f \notin Entered
      BY <1>7 DEF RetractStatic, Entered, Inside
    <2>2. Over("idle").pc \notin Inside
      BY DEF Over, Inside
    <2> QED  BY <1>7, <1>a, <1>c, <2>1, <2>2, OverIsRecord, OverIsSound DEF RetractStatic
  <1>8. ASSUME NEW f \in Frames, RetractTest(f) PROVE ReferencesExact' /\ KindInv'
    <2> DEFINE pc == IF IsErased(frame[f].clause) THEN "solved" ELSE "retracting"
               r == [frame[f] EXCEPT !.pc = pc]
    <2>1. pc \in {"solved", "retracting"}
      OBVIOUS
    <2>2. /\ frame' = [frame EXCEPT ![f].pc = pc] /\ frame[f].pc = "running"
          /\ frame[f].kind \in {"retract", "retractall"}
          /\ references' = references /\ generation' = generation
      BY <1>8 DEF RetractTest
    <2> HIDE DEF pc
    <2>3. frame' = [frame EXCEPT ![f] = r]
      BY <1>a, <1>b, <2>2 DEF TypeOK
    <2>4. r \in FrameRecords /\ r.pc \in Inside /\ r.kind # "erase" /\ f \in Entered
      BY <1>b, <2>1, <2>2 DEF FrameRecords, PCs, Inside, Entered
    <2>5. Sound(r)
      BY <1>b, <2>1, <2>2 DEF Sound, Inside, Gap, FrameRecords
    <2> HIDE DEF r
    <2> QED  BY <1>c, <2>2, <2>3, <2>4, <2>5
  <1>9. ASSUME NEW f \in Frames, NEW c \in Clauses, EraseTest(f, c)
        PROVE  ReferencesExact' /\ KindInv'
    <2> DEFINE r == [Over("retracting") EXCEPT !.kind = "erase", !.clause = c]
    <2>1. r \in FrameRecords
      BY OverIsRecord DEF FrameRecords, AllKinds
    <2>2. f \notin Entered
      BY <1>9 DEF EraseTest, IsOver, Entered, Inside
    <2>3. Sound(r) /\ r.kind = "erase"
      BY <1>a, <1>9, ClauseDBAssumption DEF Sound, Over, Gap, EraseTest, TypeOK
    <2> QED  BY <1>9, <1>c, <2>1, <2>2, <2>3 DEF EraseTest
  <1>10. ASSUME NEW f \in Frames, RetractLocked(f) PROVE ReferencesExact' /\ KindInv'
    <2> DEFINE r == IF frame[f].kind = "erase" THEN Over("idle")
                    ELSE [frame[f] EXCEPT !.pc = "solved"]
    <2>1. /\ frame' = [frame EXCEPT ![f] = r] /\ frame[f].pc = "retracting"
          /\ references' = references
          /\ generation' \in {generation, generation + 1}
      BY <1>10 DEF RetractLocked, MarkErased, Unlink
    <2>2. r \in FrameRecords
      BY <1>b, OverIsRecord DEF FrameRecords, PCs, Inside
    <2>3. f \in Entered <=> r.pc \in Inside /\ r.kind # "erase"
      BY <1>b, <2>1 DEF Entered, Over, Inside, FrameRecords
    <2>4. Sound(r)
      BY <1>a, <1>b, <2>1, OverIsSound DEF Sound, Inside, Gap, FrameRecords
    <2> HIDE DEF r
    <2> QED  BY <1>c, <2>1, <2>2, <2>3, <2>4
  <1>12. ASSUME NEW f \in Frames, FrameStep(f) PROVE ReferencesExact' /\ KindInv'
    BY <1>1, <1>2, <1>3, <1>4, <1>5, <1>6, <1>7, <1>8, <1>9, <1>10, <1>12
       DEF FrameStep
  <1>13. ASSUME UpdateStep PROVE ReferencesExact' /\ KindInv'
    <2>1. /\ UNCHANGED frame /\ references' = references
          /\ generation' = generation + 1
      BY <1>13 DEF UpdateStep, AssertTerm, RecordClause, assertProcedure, Abolish,
                   startConsult, startConsultMultifile, Reconsult, RemoveClauses, Settle
    <2> QED  BY <2>1, <1>f
  <1>14. ASSUME Abort PROVE ReferencesExact' /\ KindInv'
    <2>1. /\ frame' = [f \in Frames |-> Over("idle")] /\ references' = 0
          /\ generation' = generation
      BY <1>14 DEF Abort, Settle
    <2>2. Entered' = {}
      BY <2>1 DEF Entered, Over, Inside
    <2>3. Sound(Over("idle"))'
      BY <1>a, <2>1, OverIsSound DEF Sound
    <2>4. KindInv'
      BY <2>1, <2>3 DEF KindInv
    <2> QED  BY <2>1, <2>2, <2>4, FS_EmptySet DEF ReferencesExact
  <1>15. CASE UNCHANGED vars
    BY <1>15, <1>f DEF vars
  <1> QED  BY <1>12, <1>13, <1>14, <1>15 DEF Next

(* The reference count of the definition is the number of frames that are   *)
(* using it: no way out of a frame forgets to leave it, or leaves it twice. *)
THEOREM ReferencesCorrect ==
    Spec => []ReferencesExact
  <1>1. CountInv => ReferencesExact
    BY DEF CountInv
  <1> QED  BY <1>1, CountInit, CountNext, PTL DEF Spec

-----------------------------------------------------------------------------
(* No dangling clause references, and the lifetime of what a frame sees. *)

Watching(r) == r.pc \in Inside \cup {"fetched"}

(* As long as a frame is entered, nothing is taken off the list. *)
LEMMA ListGrows ==
    ASSUME CountInv, [Next]_vars,
           NEW g \in Frames, g \in Entered, g \in Entered'
    PROVE  linked \subseteq linked'
  <1> USE DEF list, lifetime, counts
  <1>1. references # 0 /\ references' # 0
    <2>1. CountInv'
      BY CountNext
    <2>2. IsFiniteSet(Entered) /\ IsFiniteSet(Entered')
      BY <2>1, ClauseDBAssumption, FS_Subset DEF Entered
    <2>3. Cardinality(Entered) # 0 /\ Cardinality(Entered') # 0
      BY <2>2, FS_EmptySet
    <2> QED  BY <2>1, <2>3 DEF CountInv, ReferencesExact
  <1>2. ASSUME NEW refs, NEW E, NEW n, NEW fl, Settle(refs, E, n, fl)
        PROVE  linked' = linked
    BY <1>1, <1>2 DEF Settle
  <1>3. ASSUME LeaveDefinition PROVE linked' = linked
    BY <1>2, <1>3 DEF LeaveDefinition
  <1>4. ASSUME NEW f \in Frames, FrameStep(f) PROVE linked' = linked
    <2>1. CASE \E kind \in Kinds, k \in Keys \cup {NoKey} : Call(f, kind, k)
      BY <2>1 DEF Call
    <2>2. CASE Enter(f)
      BY <2>2, <1>2 DEF Enter
    <2>3. CASE Redo(f)
      BY <2>3, <1>3 DEF Redo
    <2>4. CASE LeaveLast(f) \/ Cut(f)
      BY <2>4, <1>3 DEF LeaveLast, Cut
    <2>5. CASE NthFetch(f) \/ NthEnter(f) \/ RetractStatic(f) \/ RetractTest(f)
      BY <2>5 DEF NthFetch, NthEnter, RetractStatic, RetractTest
    <2>6. CASE \E c \in Clauses : EraseTest(f, c)
      BY <2>6 DEF EraseTest
    <2>7. CASE RetractLocked(f)
      BY <2>7, <1>1 DEF RetractLocked, MarkErased
    <2> QED  BY <1>4, <2>1, <2>2, <2>3, <2>4, <2>5, <2>6, <2>7 DEF FrameStep
  <1>5. ASSUME UpdateStep PROVE linked \subseteq linked'
    <2>1. ASSUME NEW D, NEW k, NEW keep, RemoveClauses(D, k, keep) PROVE linked' = linked
      BY <2>1, <1>2 DEF RemoveClauses
    <2> QED  BY <1>5, <2>1 DEF UpdateStep, AssertTerm, RecordClause, assertProcedure,
                 Abolish, startConsult, startConsultMultifile, Reconsult
  <1>6. CASE Abort
    BY <1>6, <1>2 DEF Abort
  <1>7. CASE UNCHANGED vars
    BY <1>7 DEF vars
  <1> QED  BY <1>4, <1>5, <1>6, <1>7 DEF Next

(* A clause that an entered frame can see stays on the list and visible to  *)
(* it until the frame is over: a retraction never takes it away under its   *)
(* feet, and the generations never hide it.                                 *)
THEOREM SeenClausesStay ==
    Spec => SeenClauseStays
  <1> DEFINE Stays(f) ==
        f \in Entered /\ f \in Entered' /\ frame'[f].gen = frame[f].gen =>
          \A c \in linked : visibleClause(c, frame[f].gen) =>
            c \in linked' /\ visibleClause(c, frame[f].gen)'
  <1>1. ASSUME CountInv, [Next]_vars, NEW f \in Frames PROVE Stays(f)
    <2>1. SUFFICES ASSUME f \in Entered, f \in Entered',
                          frame'[f].gen = frame[f].gen,
                          NEW c \in linked, visibleClause(c, frame[f].gen)
                   PROVE  c \in linked' /\ visibleClause(c, frame[f].gen)'
      OBVIOUS
    <2>2. c \in linked'
      BY <1>1, <2>1, ListGrows
    <2>3. /\ frame[f].gen \in Generations /\ frame[f].gen <= generation
          /\ generation \in Generations /\ c \in Clauses
          /\ created[c] \in Generations /\ erased[c] \in 0 .. Infinity
      BY <1>1 DEF CountInv, KindInv, Sound, TypeOK, FrameRecords
    <2>4. created'[c] = created[c]
      <3> USE DEF list, lifetime, counts
      <3>1. CASE UNCHANGED created
        BY <3>1
      <3>2. CASE \E d \in Clauses : d \notin linked /\
                   created' = [created EXCEPT ![d] = generation + 1]
        BY <3>2, <2>1, <1>1 DEF CountInv, TypeOK
      <3> QED
        BY <1>1, <3>1, <3>2 DEF Next, FrameStep, UpdateStep, Call, Enter, NthFetch,
           NthEnter, Redo, LeaveLast, Cut, RetractStatic, RetractTest, EraseTest,
           RetractLocked, MarkErased, Unlink,
           LeaveDefinition, AssertTerm, RecordClause,
           assertProcedure, Abolish, startConsult, startConsultMultifile, Reconsult,
           RemoveClauses, Abort, vars
    <2>5. erased'[c] = erased[c] \/ erased'[c] = generation + 1
      <3> USE DEF list, lifetime, counts
      <3>1. CASE UNCHANGED erased
        BY <3>1
      <3>2. CASE \E d : erased' = [erased EXCEPT ![d] = generation + 1]
        BY <3>2, <2>3, <1>1 DEF CountInv, TypeOK
      <3>3. CASE \E D : erased' = [d \in Clauses |-> IF d \in D THEN generation + 1
                                                    ELSE erased[d]]
        BY <3>3, <2>3
      <3> QED
        BY <1>1, <3>1, <3>2, <3>3 DEF Next, FrameStep, UpdateStep, Call, Enter,
           NthFetch, NthEnter, Redo, LeaveLast, Cut, RetractStatic, RetractTest,
           EraseTest, RetractLocked, MarkErased, Unlink,
           LeaveDefinition, AssertTerm, RecordClause,
           assertProcedure, Abolish, startConsult, startConsultMultifile, Reconsult,
           RemoveClauses, Abort, vars
    <2>6. created'[c] <= frame'[f].gen /\ erased'[c] > frame'[f].gen
      BY <2>1, <2>3, <2>4, <2>5 DEF visibleClause
    <2> QED  BY <2>1, <2>2, <2>6 DEF visibleClause
  <1>2. CountInv /\ [Next]_vars => [\A f \in Frames : Stays(f)]_vars
    BY <1>1
  <1> QED  BY <1>2, CountInit, CountNext, PTL DEF Spec, SeenClauseStays

(* Frames that hold a clause without a reference on the definition exist     *)
(* only where nothing else can run, or not at all. *)
Sheltered == Preemptive => Kinds \cap {"nth", "erase"} = {}

LEMMA WatchersEntered ==
    ASSUME Sheltered, CountInv, NEW g \in Frames, Watching(frame[g]),
           Preemptive \/ frame[g].pc \notin Gap \cup {"retracting"}
    PROVE  g \in Entered
  <1>1. Sound(frame[g])
    BY DEF CountInv, KindInv
  <1>2. CASE Preemptive
    BY <1>1, <1>2 DEF Sheltered, Sound, Watching, Entered
  <1>3. CASE frame[g].pc \notin Gap \cup {"retracting"}
    BY <1>1, <1>3 DEF Sound, Watching, Entered, Gap
  <1> QED  BY <1>2, <1>3

DangleInv == CountInv /\ NoDangling

LEMMA DangleNext ==
    ASSUME Sheltered
    PROVE  DangleInv /\ [Next]_vars => DangleInv'
  <1> SUFFICES ASSUME DangleInv, [Next]_vars
               PROVE  NoDangling'
    BY CountNext DEF DangleInv
  <1> USE DEF list, lifetime, counts
  <1>a. CountInv /\ TypeOK /\ KindInv /\ NoDangling /\ CountInv'
    BY CountNext DEF DangleInv, CountInv
  <1>b. ASSUME NEW g \in Frames, frame'[g] = frame[g], Watching(frame[g]),
               g \in Entered \/ linked' = linked
        PROVE  {frame'[g].clause, frame'[g].next} \subseteq linked' \cup {NULL}
    <2>1. {frame[g].clause, frame[g].next} \subseteq linked \cup {NULL}
      BY <1>a, <1>b DEF NoDangling, Watching
    <2>2. g \in Entered => g \in Entered'
      BY <1>b DEF Entered
    <2>3. linked \subseteq linked'
      BY <1>a, <1>b, <2>2, ListGrows
    <2> QED  BY <1>b, <2>1, <2>3
  (* A step of one frame: the others are sheltered, or unaffected. *)
  <1>c. ASSUME NEW f \in Frames, NEW r, frame' = [frame EXCEPT ![f] = r],
               Undisturbed(f),
               Watching(r) => {r.clause, r.next} \subseteq linked' \cup {NULL}
        PROVE  NoDangling'
    <2> SUFFICES ASSUME NEW g \in Frames, Watching(frame'[g])
                 PROVE  {frame'[g].clause, frame'[g].next} \subseteq linked' \cup {NULL}
      BY DEF NoDangling, Watching
    <2>1. CASE g = f
      BY <1>a, <1>c, <2>1 DEF TypeOK
    <2>2. CASE g # f
      <3>1. frame'[g] = frame[g]
        BY <1>a, <1>c, <2>2 DEF TypeOK
      <3>2. Preemptive \/ frame[g].pc \notin Gap \cup {"retracting"}
        BY <1>c, <2>2 DEF Undisturbed
      <3>3. g \in Entered
        BY <1>a, <3>1, <3>2, WatchersEntered
      <3> QED  BY <1>b, <3>1, <3>3
    <2> QED  BY <2>1, <2>2
  <1>d. \A pc \in {"idle", "exhausted", "called"} : ~Watching(Over(pc))
    BY DEF Watching, Over, Inside
  <1>e. ASSUME NEW f \in Frames
        PROVE  /\ frame[f] \in FrameRecords /\ Sound(frame[f])
               /\ Watching(frame[f]) =>
                    {frame[f].clause, frame[f].next} \subseteq linked \cup {NULL}
    BY <1>a DEF TypeOK, KindInv, NoDangling, Watching
  <1>f. ASSUME NEW f \in Frames, NEW S \in SUBSET linked, S # {}, Advance(f, S),
               Undisturbed(f), linked' = linked
        PROVE  NoDangling'
    <2>1. PICK r \in FrameRecords :
            /\ frame' = [frame EXCEPT ![f] = r]
            /\ r.clause \in linked /\ r.next \in linked \cup {NULL}
      BY <1>a, <1>f, AdvanceRecord
    <2> QED  BY <1>c, <1>f, <2>1
  <1>1. ASSUME NEW f \in Frames, NEW kind \in Kinds, NEW k \in Keys \cup {NoKey},
               Call(f, kind, k)
        PROVE  NoDangling'
    <2> DEFINE r == [Over("called") EXCEPT !.kind = kind, !.gen = generation, !.key = k]
    <2>1. ~Watching(r)
      BY DEF Watching, Over, Inside
    <2>2. frame' = [frame EXCEPT ![f] = r] /\ Undisturbed(f)
      BY <1>1 DEF Call
    <2> HIDE DEF r
    <2> QED  BY <1>c, <2>1, <2>2
  <1>2. ASSUME NEW f \in Frames, Enter(f) PROVE NoDangling'
    <2> DEFINE found == Candidates(linked, frame[f].gen, frame[f].key)
    <2>1. CASE found = {}
      BY <1>2, <2>1, <1>c, <1>d DEF Enter
    <2>2. CASE found # {}
      <3>1. found \in SUBSET linked
        BY DEF Candidates
      <3> QED  BY <1>2, <2>2, <3>1, <1>f DEF Enter
    <2> QED  BY <2>1, <2>2
  <1>3. ASSUME NEW f \in Frames, NthFetch(f) PROVE NoDangling'
    <2> DEFINE found == Candidates(linked, frame[f].gen, NoKey)
               r == IF found = {} THEN Over("exhausted")
                    ELSE [frame[f] EXCEPT !.pc = "fetched", !.clause = First(found)]
    <2>1. /\ frame' = [frame EXCEPT ![f] = r] /\ Undisturbed(f)
          /\ frame[f].pc = "called" /\ linked' = linked
      BY <1>3 DEF NthFetch
    <2>2. found \in SUBSET linked /\ found \in SUBSET Clauses
      BY <1>a DEF Candidates, TypeOK
    <2>3. found # {} => First(found) \in linked
      BY <1>a, <2>2, FirstInSet
    <2> HIDE DEF found
    <2>4. Watching(r) => {r.clause, r.next} \subseteq linked \cup {NULL}
      <3>1. frame[f].next = NULL
        BY <1>e, <2>1 DEF Sound, Gap
      <3> QED  BY <1>d, <1>e, <2>3, <3>1 DEF FrameRecords
    <2> HIDE DEF r
    <2> QED  BY <1>c, <2>1, <2>4
  <1>4. ASSUME NEW f \in Frames, NthEnter(f) PROVE NoDangling'
    <2> DEFINE n == NextRef(frame[f].clause, frame[f].gen, NoKey, "nth")
               r == [frame[f] EXCEPT !.pc = "running", !.next = n]
    <2>1. /\ frame' = [frame EXCEPT ![f].pc = "running", ![f].next = n]
          /\ Undisturbed(f) /\ frame[f].pc = "fetched" /\ linked' = linked
      BY <1>4 DEF NthEnter
    <2>2. n \in linked \cup {NULL}
      BY <1>a, NextRefType
    <2> HIDE DEF n
    <2>3. frame' = [frame EXCEPT ![f] = r]
      BY <1>a, <1>e, <2>1 DEF TypeOK
    <2>4. {r.clause, r.next} \subseteq linked \cup {NULL}
      BY <1>e, <2>1, <2>2 DEF Watching, FrameRecords
    <2> HIDE DEF r
    <2> QED  BY <1>c, <2>1, <2>3, <2>4
  <1>5. ASSUME NEW f \in Frames, Redo(f) PROVE NoDangling'
    <2> DEFINE found == Candidates(From(frame[f].next), frame[f].gen, frame[f].key)
    <2>1. CASE found = {}
      BY <1>5, <2>1, <1>c, <1>d DEF Redo
    <2>2. CASE found # {}
      <3>1. found \in SUBSET linked
        BY DEF Candidates, From
      <3> QED  BY <1>5, <2>2, <3>1, <1>f DEF Redo
    <2> QED  BY <2>1, <2>2
  <1>6. ASSUME NEW f \in Frames, LeaveLast(f) \/ Cut(f) \/ RetractStatic(f)
        PROVE  NoDangling'
    BY <1>6, <1>c, <1>d DEF LeaveLast, Cut, RetractStatic
  <1>7. ASSUME NEW f \in Frames, RetractTest(f) PROVE NoDangling'
    <2> DEFINE pc == IF IsErased(frame[f].clause) THEN "solved" ELSE "retracting"
               r == [frame[f] EXCEPT !.pc = pc]
    <2>1. /\ frame' = [frame EXCEPT ![f].pc = pc] /\ Undisturbed(f)
          /\ frame[f].pc = "running" /\ linked' = linked
      BY <1>7 DEF RetractTest
    <2> HIDE DEF pc
    <2>2. frame' = [frame EXCEPT ![f] = r]
      BY <1>a, <1>e, <2>1 DEF TypeOK
    <2>3. {r.clause, r.next} \subseteq linked \cup {NULL}
      BY <1>e, <2>1 DEF Watching, Inside, FrameRecords
    <2> HIDE DEF r
    <2> QED  BY <1>c, <2>1, <2>2, <2>3
  <1>8. ASSUME NEW f \in Frames, NEW c \in Clauses, EraseTest(f, c) PROVE NoDangling'
    <2> DEFINE r == [Over("retracting") EXCEPT !.kind = "erase", !.clause = c]
    <2>1. /\ frame' = [frame EXCEPT ![f] = r] /\ Undisturbed(f)
          /\ c \in linked /\ linked' = linked
      BY <1>8 DEF EraseTest
    <2>2. r.clause = c /\ r.next = NULL
      BY DEF Over
    <2> HIDE DEF r
    <2> QED  BY <1>c, <2>1, <2>2
  <1>9. ASSUME NEW f \in Frames, RetractLocked(f) PROVE NoDangling'
    <2> DEFINE r == IF frame[f].kind = "erase" THEN Over("idle")
                    ELSE [frame[f] EXCEPT !.pc = "solved"]
    <2>1. /\ frame' = [frame EXCEPT ![f] = r] /\ Undisturbed(f)
          /\ frame[f].pc = "retracting"
      BY <1>9 DEF RetractLocked
    <2>2. CASE frame[f].kind = "erase"
      BY <1>c, <1>d, <2>1, <2>2
    <2>3. CASE frame[f].kind # "erase"
      <3>1. f \in Entered
        BY <2>1, <2>3 DEF Entered, Inside
      <3>2. r.pc = "solved" /\ r.kind = frame[f].kind
            /\ r.clause = frame[f].clause /\ r.next = frame[f].next
        BY <1>e, <2>3 DEF FrameRecords
      <3>3. frame'[f] = r
        BY <1>a, <2>1 DEF TypeOK
      <3>4. f \in Entered'
        BY <2>3, <3>2, <3>3 DEF Entered, Inside
      <3>5. linked \subseteq linked'
        BY <1>a, <3>1, <3>4, ListGrows
      <3>6. {r.clause, r.next} \subseteq linked' \cup {NULL}
        BY <1>e, <2>1, <3>2, <3>5 DEF Watching, Inside
      <3> HIDE DEF r
      <3> QED  BY <1>c, <2>1, <3>6
    <2> QED  BY <2>2, <2>3
  <1>10. ASSUME NEW f \in Frames, FrameStep(f) PROVE NoDangling'
    BY <1>1, <1>2, <1>3, <1>4, <1>5, <1>6, <1>7, <1>8, <1>9, <1>10
       DEF FrameStep
  <1>11. ASSUME UpdateStep PROVE NoDangling'
    <2>1. UNCHANGED frame /\ Quiet
      BY <1>11 DEF UpdateStep, AssertTerm, RecordClause, assertProcedure, Abolish,
                   startConsult, startConsultMultifile, Reconsult, RemoveClauses
    <2> SUFFICES ASSUME NEW g \in Frames, Watching(frame[g])
                 PROVE  {frame'[g].clause, frame'[g].next} \subseteq linked' \cup {NULL}
      BY <2>1 DEF NoDangling, Watching
    <2>2. g \in Entered
      BY <1>a, <2>1, WatchersEntered DEF Quiet
    <2> QED  BY <1>b, <2>1, <2>2
  <1>12. ASSUME Abort PROVE NoDangling'
    BY <1>12, <1>d DEF Abort, NoDangling, Watching
  <1>13. CASE UNCHANGED vars
    BY <1>13, <1>a DEF vars, NoDangling
  <1> QED  BY <1>10, <1>11, <1>12, <1>13 DEF Next

(* No frame ever looks at a clause that was given back to the heap: while a *)
(* goal can still reach a clause, the reference on the definition keeps it. *)
(* With threads this needs that nth_clause/3 and erase/1, which hold a      *)
(* clause without a reference, are not used.                                *)
THEOREM NothingDangles ==
    ASSUME Sheltered
    PROVE  Spec => []NoDangling
  <1>1. Init => DangleInv
    <2>1. Init => NoDangling
      BY DEF Init, NoDangling, Over, Inside
    <2> QED  BY <2>1, CountInit DEF DangleInv
  <1>2. DangleInv => NoDangling
    BY DEF DangleInv
  <1> QED  BY <1>1, <1>2, DangleNext, PTL DEF Spec

-----------------------------------------------------------------------------
(* Clause garbage is collected by whoever leaves the definition last. *)

(* A frame that enters or is inside keeps the definition referenced. *)
LEMMA GarbageNext ==
    CountInv /\ NoGarbageWaits /\ [Next]_vars => NoGarbageWaits'
  <1> SUFFICES ASSUME CountInv, NoGarbageWaits, [Next]_vars PROVE NoGarbageWaits'
    OBVIOUS
  <1> USE DEF list, lifetime, counts
  <1>a. references \in Nat
    BY EnteredFinite DEF CountInv, ReferencesExact
  <1>b. ASSUME UNCHANGED <<references, flags>> PROVE NoGarbageWaits'
    BY <1>b DEF NoGarbageWaits
  <1>c. ASSUME NEW refs, NEW E, NEW n, NEW fl, NEW keep, Settle(refs, E, n, fl),
               flags' \in {Settled(refs, fl), Settled(refs, fl) \cap keep}
        PROVE  NoGarbageWaits'
    BY <1>c DEF Settle, Settled, NoGarbageWaits
  <1>d. ASSUME LeaveDefinition PROVE NoGarbageWaits'
    BY <1>d, <1>c DEF LeaveDefinition
  <1>e. references' = references + 1 => NoGarbageWaits'
    BY <1>a DEF NoGarbageWaits
  <1>1. ASSUME NEW f \in Frames, FrameStep(f) PROVE NoGarbageWaits'
    <2>1. CASE \E kind \in Kinds, k \in Keys \cup {NoKey} : Call(f, kind, k)
      BY <2>1, <1>b DEF Call
    <2>2. CASE Enter(f)
      BY <2>2, <1>c, <1>e DEF Enter
    <2>3. CASE NthFetch(f) \/ NthEnter(f)
      BY <2>3, <1>b, <1>e DEF NthFetch, NthEnter
    <2>4. CASE Redo(f)
      BY <2>4, <1>b, <1>d DEF Redo
    <2>5. CASE LeaveLast(f) \/ Cut(f)
      BY <2>5, <1>d DEF LeaveLast, Cut
    <2>6. CASE RetractStatic(f)
      BY <2>6 DEF RetractStatic, NoGarbageWaits
    <2>7. CASE RetractTest(f) \/ \E c \in Clauses : EraseTest(f, c)
      BY <2>7, <1>b DEF RetractTest, EraseTest
    <2>8. CASE RetractLocked(f)
      <3>1. CASE references # 0
        BY <2>8, <3>1 DEF RetractLocked, MarkErased, NoGarbageWaits
      <3>2. CASE references = 0
        BY <2>8, <3>2, <1>b DEF RetractLocked, Unlink
      <3> QED  BY <3>1, <3>2
    <2> QED  BY <1>1, <2>1, <2>2, <2>3, <2>4, <2>5, <2>6, <2>7, <2>8 DEF FrameStep
  <1>2. ASSUME UpdateStep PROVE NoGarbageWaits'
    <2>1. ASSUME NEW D, NEW k, NEW keep, RemoveClauses(D, k, keep) PROVE NoGarbageWaits'
      BY <2>1, <1>c DEF RemoveClauses
    <2>2. ASSUME NEW c \in Clauses, NEW where, AssertTerm(c, where) \/ RecordClause(c)
          PROVE  NoGarbageWaits'
      BY <2>2 DEF AssertTerm, RecordClause, assertProcedure, NoGarbageWaits
    <2> QED  BY <1>2, <2>1, <2>2 DEF UpdateStep, Abolish, startConsult,
                 startConsultMultifile, Reconsult
  <1>3. CASE Abort
    BY <1>3, <1>c DEF Abort
  <1>4. CASE UNCHANGED vars
    BY <1>4, <1>b DEF vars
  <1> QED  BY <1>1, <1>2, <1>3, <1>4 DEF Next

(* Clause garbage that is due never waits on a definition that nobody uses: *)
(* it becomes due only while a frame is inside, or in removeClauses-         *)
(* Procedure(), and the last to leave collects it. *)
THEOREM GarbageCollected ==
    Spec => []NoGarbageWaits
  <1>1. Init => NoGarbageWaits
    BY DEF Init, NoGarbageWaits
  <1> QED  BY <1>1, CountInit, CountNext, GarbageNext, PTL DEF Spec

-----------------------------------------------------------------------------
(* The counts of clauses, where no other actor runs within an operation.    *)

(* A clause is marked while it is on the list, and stays there or is freed;  *)
(* one that is about to be retracted is on the list and not marked yet.      *)
MarkedKnown == \A c \in Clauses : IsErased(c) => c \in linked \cup freed

DoomedIsLive ==
    \A f \in Frames : frame[f].pc = "retracting" =>
        frame[f].clause \in linked /\ ~IsErased(frame[f].clause)

ClauseCountInv == DangleInv /\ CountsExact /\ MarkedKnown /\ DoomedIsLive

(* gcClausesDefinition(), told the right count, finds all of them. *)
LEMMA ReclaimsAll ==
    ASSUME TypeOK, NEW E \in SUBSET Clauses
    PROVE  Reclaimed(E, Cardinality(E)) = E
  <1>1. IsFiniteSet(E)
    BY ClauseDBAssumption, FS_Subset
  <1>2. SUFFICES ASSUME NEW c \in E
                 PROVE  Cardinality({d \in E : pos[d] < pos[c]}) < Cardinality(E)
    BY DEF Reclaimed
  <1> DEFINE before == {d \in E : pos[d] < pos[c]}
  <1>3. before \subseteq E \ {c}
    BY DEF TypeOK
  <1>4. IsFiniteSet(E \ {c}) /\ Cardinality(E \ {c}) = Cardinality(E) - 1
    BY <1>1, FS_RemoveElement
  <1>5. Cardinality(before) <= Cardinality(E \ {c})
    BY <1>3, <1>4, FS_Subset
  <1>6. Cardinality(E) \in Nat /\ Cardinality(before) \in Nat
    BY <1>1, <1>3, <1>4, FS_Subset, FS_CardinalityType
  <1>7. Cardinality(before) < Cardinality(E)
    <2> HIDE DEF before
    <2> QED  BY <1>4, <1>5, <1>6
  <1> QED  BY <1>7

(* What holds of the list when E is marked and then settled. *)
LEMMA SettleCounts ==
    ASSUME TypeOK, MarkedKnown, NEW refs, NEW fl, NEW E \in SUBSET linked,
           Settle(refs, E, Cardinality(E), fl),
           \A c \in Clauses : erased'[c] # Infinity <=> c \in E \/ IsErased(c),
           ErasedOf(linked) \subseteq E,
           number_of_clauses' = Cardinality(linked \ E)
    PROVE  CountsExact' /\ MarkedKnown'
  <1> DEFINE gone == IF refs = 0 /\ "NEEDSCLAUSEGC" \in fl
                     THEN Reclaimed(E, Cardinality(E)) ELSE {}
  <1>1. linked \in SUBSET Clauses /\ E \in SUBSET Clauses
    BY DEF TypeOK
  <1>2. gone = {} \/ gone = E
    BY <1>1, ReclaimsAll
  <1>3. /\ linked' = linked \ gone /\ freed' = freed \cup gone
        /\ erased_clauses' = Cardinality(E) - Cardinality(gone)
    BY DEF Settle
  <1>4. Cardinality({}) = 0 /\ Cardinality(E) \in Nat
    BY <1>1, ClauseDBAssumption, FS_Subset, FS_CardinalityType, FS_EmptySet
  <1> HIDE DEF gone
  <1>5. {c \in linked' : ~(erased'[c] # Infinity)} = linked \ E
    BY <1>1, <1>2, <1>3 DEF ErasedOf
  <1>6. {c \in linked' : erased'[c] # Infinity} = E \ gone
    BY <1>1, <1>2, <1>3 DEF ErasedOf
  <1>7. erased_clauses' = Cardinality(E \ gone)
    <2>1. CASE gone = {}
      <3>1. E \ gone = E
        BY <2>1
      <3> QED  BY <2>1, <3>1, <1>3, <1>4
    <2>2. CASE gone = E
      <3>1. Cardinality(E \ gone) = 0
        BY <2>2, <1>4, SMT
      <3>2. Cardinality(gone) = Cardinality(E)
        BY <2>2
      <3> QED  BY <3>1, <3>2, <1>3, <1>4
    <2> QED  BY <1>2, <2>1, <2>2
  <1>8. CountsExact'
    BY <1>5, <1>6, <1>7 DEF CountsExact, ErasedOf, IsErased
  <1>9. MarkedKnown'
    BY <1>1, <1>2, <1>3 DEF MarkedKnown, IsErased
  <1> QED  BY <1>8, <1>9

(* Collecting without marking anything more. *)
LEMMA CollectCounts ==
    ASSUME TypeOK, CountsExact, MarkedKnown, NEW refs, NEW fl,
           Settle(refs, ErasedOf(linked), erased_clauses, fl),
           UNCHANGED <<erased, number_of_clauses>>
    PROVE  CountsExact' /\ MarkedKnown'
  <1>1. ErasedOf(linked) \in SUBSET linked
    BY DEF ErasedOf
  <1>2. linked \ ErasedOf(linked) = {c \in linked : ~IsErased(c)}
    BY DEF ErasedOf
  <1>3. /\ erased_clauses = Cardinality(ErasedOf(linked))
        /\ number_of_clauses' = Cardinality(linked \ ErasedOf(linked))
    BY <1>2 DEF CountsExact
  <1>4. \A c \in Clauses : erased'[c] # Infinity <=> c \in ErasedOf(linked) \/ IsErased(c)
    BY DEF IsErased, ErasedOf
  <1> QED  BY <1>1, <1>3, <1>4, SettleCounts

LEMMA LiveCount ==
    ASSUME TypeOK, CountsExact
    PROVE  /\ IsFiniteSet(LiveOf(linked)) /\ IsFiniteSet(ErasedOf(linked))
           /\ number_of_clauses = Cardinality(LiveOf(linked))
           /\ erased_clauses = Cardinality(ErasedOf(linked))
           /\ linked \ ErasedOf(linked) = LiveOf(linked)
           /\ number_of_clauses \in Nat /\ erased_clauses \in Nat
  <1>1. LiveOf(linked) \in SUBSET Clauses /\ ErasedOf(linked) \in SUBSET Clauses
    BY DEF LiveOf, ErasedOf, TypeOK
  <1>2. IsFiniteSet(LiveOf(linked)) /\ IsFiniteSet(ErasedOf(linked))
    BY <1>1, ClauseDBAssumption, FS_Subset
  <1>3. linked \ ErasedOf(linked) = LiveOf(linked)
    BY DEF LiveOf, ErasedOf
  <1> QED  BY <1>2, <1>3, FS_CardinalityType DEF CountsExact, LiveOf

(* Marking and unlinking one live clause of the list. *)
LEMMA MarkCounts ==
    ASSUME TypeOK, CountsExact, MarkedKnown, NEW c \in linked, ~IsErased(c),
           MarkErased(c)
    PROVE  CountsExact' /\ MarkedKnown'
  <1> USE DEF list
  <1>1. /\ linked' = linked /\ freed' = freed
        /\ erased' = [erased EXCEPT ![c] = generation + 1]
        /\ number_of_clauses' = number_of_clauses - 1
        /\ erased_clauses' = erased_clauses + 1
        /\ generation < MaxGeneration
    BY DEF MarkErased
  <1>2. \A d \in Clauses : erased'[d] # Infinity <=> d = c \/ IsErased(d)
    BY <1>1, ClauseDBAssumption DEF IsErased, TypeOK
  <1>3. ErasedOf(linked)' = ErasedOf(linked) \cup {c}
    BY <1>1, <1>2 DEF ErasedOf, IsErased, TypeOK
  <1>4. LiveOf(linked)' = LiveOf(linked) \ {c}
    BY <1>1, <1>2 DEF LiveOf, IsErased, TypeOK
  <1>5. c \in LiveOf(linked) /\ c \notin ErasedOf(linked)
    BY DEF LiveOf, ErasedOf
  <1>6. /\ Cardinality(ErasedOf(linked)') = erased_clauses'
        /\ Cardinality(LiveOf(linked)') = number_of_clauses'
    <2>1. Cardinality(ErasedOf(linked) \cup {c}) = erased_clauses + 1
      BY <1>5, LiveCount, FS_AddElement
    <2>2. Cardinality(LiveOf(linked) \ {c}) = number_of_clauses - 1
      BY <1>5, LiveCount, FS_RemoveElement
    <2> QED  BY <1>1, <1>3, <1>4, <2>1, <2>2
  <1>7. MarkedKnown'
    BY <1>1, <1>2 DEF MarkedKnown, IsErased
  <1> QED  BY <1>6, <1>7 DEF CountsExact, LiveOf

LEMMA UnlinkCounts ==
    ASSUME TypeOK, CountsExact, MarkedKnown, NEW c \in linked, ~IsErased(c),
           Unlink(c)
    PROVE  CountsExact' /\ MarkedKnown'
  <1> USE DEF lifetime
  <1>1. {c} \cap linked = {c} /\ Cardinality({c}) = 1
    BY FS_Singleton
  <1>2. /\ linked' = linked \ {c} /\ freed' = freed \cup {c}
        /\ erased' = erased /\ erased_clauses' = erased_clauses
        /\ number_of_clauses' = number_of_clauses - 1
    BY <1>1 DEF Unlink
  <1>3. ErasedOf(linked)' = ErasedOf(linked)
    BY <1>2 DEF ErasedOf, IsErased
  <1>4. LiveOf(linked)' = LiveOf(linked) \ {c}
    BY <1>2 DEF LiveOf, IsErased
  <1>5. c \in LiveOf(linked)
    BY DEF LiveOf
  <1>6. /\ Cardinality(ErasedOf(linked)') = erased_clauses'
        /\ Cardinality(LiveOf(linked)') = number_of_clauses'
    BY <1>2, <1>3, <1>4, <1>5, LiveCount, FS_RemoveElement
  <1>7. MarkedKnown'
    BY <1>2 DEF MarkedKnown, IsErased
  <1> QED  BY <1>6, <1>7 DEF CountsExact, LiveOf

(* A clause that was never on the list is added. *)
LEMMA AddCounts ==
    ASSUME TypeOK, CountsExact, MarkedKnown, NEW c \in Clauses, NEW where,
           assertProcedure(c, where)
    PROVE  CountsExact' /\ MarkedKnown'
  <1>1. /\ linked' = linked \cup {c} /\ freed' = freed /\ erased' = erased
        /\ number_of_clauses' = number_of_clauses + 1
        /\ erased_clauses' = erased_clauses
        /\ c \notin linked \cup freed
    BY DEF assertProcedure
  <1>2. ~IsErased(c)
    BY <1>1 DEF MarkedKnown
  <1>3. ErasedOf(linked)' = ErasedOf(linked)
    BY <1>1, <1>2 DEF ErasedOf, IsErased
  <1>4. LiveOf(linked)' = LiveOf(linked) \cup {c}
    BY <1>1, <1>2 DEF LiveOf, IsErased
  <1>5. c \notin LiveOf(linked)
    BY <1>1 DEF LiveOf
  <1>6. /\ Cardinality(ErasedOf(linked)') = erased_clauses'
        /\ Cardinality(LiveOf(linked)') = number_of_clauses'
    BY <1>1, <1>3, <1>4, <1>5, LiveCount, FS_AddElement
  <1>7. MarkedKnown'
    BY <1>1 DEF MarkedKnown, IsErased
  <1> QED  BY <1>6, <1>7 DEF CountsExact, LiveOf

(* Many are marked, and collected if the definition is not in use. *)
LEMMA RemoveCounts ==
    ASSUME TypeOK, CountsExact, MarkedKnown, NEW D \in SUBSET linked, NEW k, NEW keep,
           RemoveClauses(D, k, keep), k = Cardinality(LiveOf(linked) \ LiveOf(D))
    PROVE  CountsExact' /\ MarkedKnown'
  <1> DEFINE hit == LiveOf(D)
             fl  == IF hit = {} THEN flags ELSE flags \cup {"NEEDSCLAUSEGC"}
             E   == ErasedOf(linked) \cup hit
  <1>1. /\ hit \in SUBSET linked /\ E \in SUBSET linked
        /\ ErasedOf(linked) \cap hit = {}
        /\ linked \ E = LiveOf(linked) \ hit
    BY DEF LiveOf, ErasedOf
  <1>2. IsFiniteSet(hit) /\ Cardinality(hit) \in Nat
    <2>1. hit \in SUBSET Clauses
      BY <1>1 DEF TypeOK
    <2> QED  BY <2>1, ClauseDBAssumption, FS_Subset, FS_CardinalityType
  <1>3. Cardinality(E) = erased_clauses + Cardinality(hit)
    <2> HIDE DEF hit
    <2>1. Cardinality(ErasedOf(linked) \cup hit)
            = Cardinality(ErasedOf(linked)) + Cardinality(hit)
              - Cardinality(ErasedOf(linked) \cap hit)
      BY <1>2, LiveCount, FS_Union
    <2>2. Cardinality(ErasedOf(linked) \cap hit) = 0
      BY <1>1, FS_EmptySet
    <2>3. erased_clauses \in Nat /\ erased_clauses = Cardinality(ErasedOf(linked))
      BY LiveCount
    <2> QED  BY <1>2, <2>1, <2>2, <2>3
  <1>4. /\ generation < MaxGeneration
        /\ erased' = [c \in Clauses |-> IF c \in hit THEN generation + 1 ELSE erased[c]]
        /\ number_of_clauses' = Cardinality(LiveOf(linked) \ hit)
        /\ Settle(references, E, erased_clauses + Cardinality(hit), fl)
    BY DEF RemoveClauses
  <1> HIDE DEF hit, fl
  <1>5. \A c \in Clauses : erased'[c] # Infinity <=> c \in E \/ IsErased(c)
    BY <1>4, ClauseDBAssumption DEF IsErased, ErasedOf, TypeOK
  <1> HIDE DEF E
  <1>6. ErasedOf(linked) \subseteq E
    BY DEF E
  <1> QED  BY <1>1, <1>3, <1>4, <1>5, <1>6, SettleCounts

LEMMA ClauseCountNext ==
    ASSUME ~Preemptive
    PROVE  ClauseCountInv /\ [Next]_vars => ClauseCountInv'
  <1> SUFFICES ASSUME ClauseCountInv, [Next]_vars
               PROVE  CountsExact' /\ MarkedKnown' /\ DoomedIsLive'
    BY DangleNext DEF ClauseCountInv, Sheltered
  <1> USE DEF list, lifetime, counts
  <1>a. /\ TypeOK /\ KindInv /\ CountsExact /\ MarkedKnown /\ NoDangling
        /\ DoomedIsLive
    BY DEF ClauseCountInv, DangleInv, CountInv
  <1>b. ASSUME UNCHANGED <<linked, freed, erased, number_of_clauses, erased_clauses>>
        PROVE  CountsExact' /\ MarkedKnown'
    BY <1>a, <1>b DEF CountsExact, MarkedKnown, ErasedOf, IsErased
  (* While one frame is about to retract its clause, no other one moves. *)
  <1>c. ASSUME NEW f \in Frames, NEW r, frame' = [frame EXCEPT ![f] = r],
               Undisturbed(f),
               r.pc = "retracting" => r.clause \in linked' /\ erased'[r.clause] = Infinity
        PROVE  DoomedIsLive'
    <2> SUFFICES ASSUME NEW g \in Frames, frame'[g].pc = "retracting"
                 PROVE  frame'[g].clause \in linked' /\ ~IsErased(frame[g].clause)'
      BY DEF DoomedIsLive
    <2>1. g = f
      BY <1>a, <1>c DEF Undisturbed, TypeOK
    <2>2. frame'[g] = r
      BY <1>a, <1>c, <2>1 DEF TypeOK
    <2> QED  BY <1>c, <2>2 DEF IsErased
  <1>d. \A pc \in {"idle", "exhausted", "called"} : Over(pc).pc # "retracting"
    BY DEF Over
  <1>e. ASSUME NEW f \in Frames, NEW pc \in {"idle", "exhausted"}, LeaveDefinition,
               frame' = [frame EXCEPT ![f] = Over(pc)], Undisturbed(f)
        PROVE  CountsExact' /\ MarkedKnown' /\ DoomedIsLive'
    BY <1>a, <1>c, <1>d, <1>e, CollectCounts DEF LeaveDefinition
  <1>f. ASSUME NEW f \in Frames, NEW S \in SUBSET linked, S # {}, Advance(f, S),
               Undisturbed(f)
        PROVE  DoomedIsLive'
    <2>1. PICK r \in FrameRecords :
            frame' = [frame EXCEPT ![f] = r] /\ r.pc = "running"
      BY <1>a, <1>f, AdvanceRecord
    <2> QED  BY <1>c, <1>f, <2>1
  <1>g. ASSUME NEW f \in Frames PROVE frame[f] \in FrameRecords
    BY <1>a DEF TypeOK
  <1>1. ASSUME NEW f \in Frames, NEW kind \in Kinds, NEW k \in Keys \cup {NoKey},
               Call(f, kind, k)
        PROVE  CountsExact' /\ MarkedKnown' /\ DoomedIsLive'
    <2> DEFINE r == [Over("called") EXCEPT !.kind = kind, !.gen = generation, !.key = k]
    <2>1. r.pc # "retracting"
      BY DEF Over
    <2>2. frame' = [frame EXCEPT ![f] = r] /\ Undisturbed(f)
          /\ UNCHANGED <<linked, freed, erased, number_of_clauses, erased_clauses>>
      BY <1>1 DEF Call
    <2> HIDE DEF r
    <2> QED  BY <1>b, <1>c, <2>1, <2>2
  <1>2. ASSUME NEW f \in Frames, Enter(f)
        PROVE  CountsExact' /\ MarkedKnown' /\ DoomedIsLive'
    <2> DEFINE found == Candidates(linked, frame[f].gen, frame[f].key)
    <2>1. CASE found = {}
      <3>1. /\ Settle(references, ErasedOf(linked), erased_clauses, flags)
            /\ frame' = [frame EXCEPT ![f] = Over("exhausted")] /\ Undisturbed(f)
            /\ UNCHANGED <<erased, number_of_clauses>>
        BY <1>2, <2>1 DEF Enter
      <3> QED  BY <1>a, <1>c, <1>d, <3>1, CollectCounts
    <2>2. CASE found # {}
      <3>1. found \in SUBSET linked
        BY DEF Candidates
      <3> QED  BY <1>2, <2>2, <3>1, <1>b, <1>f DEF Enter
    <2> QED  BY <2>1, <2>2
  <1>3. ASSUME NEW f \in Frames, NthFetch(f)
        PROVE  CountsExact' /\ MarkedKnown' /\ DoomedIsLive'
    <2> DEFINE found == Candidates(linked, frame[f].gen, NoKey)
               r == IF found = {} THEN Over("exhausted")
                    ELSE [frame[f] EXCEPT !.pc = "fetched", !.clause = First(found)]
    <2>1. r.pc # "retracting"
      BY <1>d, <1>g DEF FrameRecords
    <2>2. frame' = [frame EXCEPT ![f] = r] /\ Undisturbed(f)
          /\ UNCHANGED <<linked, freed, erased, number_of_clauses, erased_clauses>>
      BY <1>3 DEF NthFetch
    <2> HIDE DEF r
    <2> QED  BY <1>b, <1>c, <2>1, <2>2
  <1>4. ASSUME NEW f \in Frames, NthEnter(f)
        PROVE  CountsExact' /\ MarkedKnown' /\ DoomedIsLive'
    <2> DEFINE n == NextRef(frame[f].clause, frame[f].gen, NoKey, "nth")
               r == [frame[f] EXCEPT !.pc = "running", !.next = n]
    <2>1. frame' = [frame EXCEPT ![f].pc = "running", ![f].next = n] /\ Undisturbed(f)
          /\ UNCHANGED <<linked, freed, erased, number_of_clauses, erased_clauses>>
      BY <1>4 DEF NthEnter
    <2> HIDE DEF n
    <2>2. frame' = [frame EXCEPT ![f] = r] /\ r.pc = "running"
      BY <1>a, <1>g, <2>1 DEF TypeOK, FrameRecords
    <2> HIDE DEF r
    <2> QED  BY <1>b, <1>c, <2>1, <2>2
  <1>5. ASSUME NEW f \in Frames, Redo(f)
        PROVE  CountsExact' /\ MarkedKnown' /\ DoomedIsLive'
    <2> DEFINE found == Candidates(From(frame[f].next), frame[f].gen, frame[f].key)
    <2>1. CASE found = {}
      BY <1>5, <2>1, <1>e DEF Redo
    <2>2. CASE found # {}
      <3>1. found \in SUBSET linked
        BY DEF Candidates, From
      <3> QED  BY <1>5, <2>2, <3>1, <1>b, <1>f DEF Redo
    <2> QED  BY <2>1, <2>2
  <1>6. ASSUME NEW f \in Frames, LeaveLast(f) \/ Cut(f)
        PROVE  CountsExact' /\ MarkedKnown' /\ DoomedIsLive'
    BY <1>6, <1>e DEF LeaveLast, Cut
  <1>7. ASSUME NEW f \in Frames, RetractStatic(f)
        PROVE  CountsExact' /\ MarkedKnown' /\ DoomedIsLive'
    BY <1>7, <1>b, <1>c, <1>d DEF RetractStatic
  <1>8. ASSUME NEW f \in Frames, RetractTest(f)
        PROVE  CountsExact' /\ MarkedKnown' /\ DoomedIsLive'
    <2> DEFINE pc == IF IsErased(frame[f].clause) THEN "solved" ELSE "retracting"
               r == [frame[f] EXCEPT !.pc = pc]
    <2>1. /\ frame' = [frame EXCEPT ![f].pc = pc] /\ frame[f].pc = "running"
          /\ Undisturbed(f)
          /\ UNCHANGED <<linked, freed, erased, number_of_clauses, erased_clauses>>
      BY <1>8 DEF RetractTest
    <2>2. frame[f].clause \in linked
      BY <1>a, <2>1 DEF NoDangling, KindInv, Sound, Inside
    <2>3. pc = "retracting" => erased[frame[f].clause] = Infinity
      BY DEF IsErased
    <2> HIDE DEF pc
    <2>4. frame' = [frame EXCEPT ![f] = r] /\ r.pc = pc /\ r.clause = frame[f].clause
      BY <1>a, <1>g, <2>1 DEF TypeOK, FrameRecords
    <2> HIDE DEF r
    <2> QED  BY <1>b, <1>c, <2>1, <2>2, <2>3, <2>4
  <1>9. ASSUME NEW f \in Frames, NEW c \in Clauses, EraseTest(f, c)
        PROVE  CountsExact' /\ MarkedKnown' /\ DoomedIsLive'
    <2> DEFINE r == [Over("retracting") EXCEPT !.kind = "erase", !.clause = c]
    <2>1. /\ frame' = [frame EXCEPT ![f] = r] /\ Undisturbed(f)
          /\ c \in linked /\ ~IsErased(c)
          /\ UNCHANGED <<linked, freed, erased, number_of_clauses, erased_clauses>>
      BY <1>9 DEF EraseTest
    <2>2. r.clause = c
      BY DEF Over
    <2> HIDE DEF r
    <2> QED  BY <1>b, <1>c, <2>1, <2>2 DEF IsErased
  <1>10. ASSUME NEW f \in Frames, RetractLocked(f)
         PROVE  CountsExact' /\ MarkedKnown' /\ DoomedIsLive'
    <2> DEFINE c == frame[f].clause
               r == IF frame[f].kind = "erase" THEN Over("idle")
                    ELSE [frame[f] EXCEPT !.pc = "solved"]
    <2>1. /\ frame[f].pc = "retracting" /\ Undisturbed(f)
          /\ IF references # 0 THEN MarkErased(c) ELSE Unlink(c)
          /\ frame' = [frame EXCEPT ![f] = r]
      BY <1>10 DEF RetractLocked
    <2>2. c \in linked /\ ~IsErased(c)
      BY <1>a, <2>1 DEF DoomedIsLive
    <2>3. r.pc # "retracting"
      BY <1>d, <1>g DEF FrameRecords
    <2> HIDE DEF c, r
    <2>4. CountsExact' /\ MarkedKnown'
      BY <1>a, <2>1, <2>2, MarkCounts, UnlinkCounts
    <2> QED  BY <1>c, <2>1, <2>3, <2>4
  <1>11. ASSUME NEW f \in Frames, FrameStep(f)
         PROVE  CountsExact' /\ MarkedKnown' /\ DoomedIsLive'
    BY <1>1, <1>2, <1>3, <1>4, <1>5, <1>6, <1>7, <1>8, <1>9, <1>10, <1>11 DEF FrameStep
  (* An update finds no frame between its test and its update. *)
  <1>12. ASSUME Quiet, UNCHANGED frame PROVE DoomedIsLive'
    BY <1>12 DEF Quiet, DoomedIsLive
  <1>13. ASSUME NEW c \in Clauses, NEW where, assertProcedure(c, where)
         PROVE  CountsExact' /\ MarkedKnown' /\ DoomedIsLive'
    BY <1>a, <1>12, <1>13, AddCounts DEF assertProcedure
  <1>14. ASSUME NEW D \in SUBSET linked, NEW k, NEW keep, RemoveClauses(D, k, keep),
                k = Cardinality(LiveOf(linked) \ LiveOf(D))
         PROVE  CountsExact' /\ MarkedKnown' /\ DoomedIsLive'
    <2>1. CountsExact' /\ MarkedKnown'
      BY <1>a, <1>14, RemoveCounts
    <2>2. Quiet /\ UNCHANGED frame
      BY <1>14 DEF RemoveClauses
    <2> QED  BY <2>1, <2>2, <1>12
  <1>15. ASSUME NEW D \in SUBSET linked, Reconsult(D)
         PROVE  CountsExact' /\ MarkedKnown' /\ DoomedIsLive'
    <2>1. LiveOf(linked) \cap LiveOf(D) = LiveOf(D)
      BY DEF LiveOf
    <2>2. Cardinality(LiveOf(linked) \ LiveOf(D))
            = number_of_clauses - Cardinality(LiveOf(D))
      <3>1. IsFiniteSet(LiveOf(linked))
            /\ number_of_clauses = Cardinality(LiveOf(linked))
        BY <1>a, LiveCount
      <3>2. Cardinality(LiveOf(linked) \ LiveOf(D))
              = Cardinality(LiveOf(linked)) - Cardinality(LiveOf(linked) \cap LiveOf(D))
        BY <3>1, FS_Difference
      <3> QED  BY <2>1, <3>1, <3>2
    <2> QED  BY <1>14, <1>15, <2>2 DEF Reconsult
  <1>16. ASSUME Abolish PROVE CountsExact' /\ MarkedKnown' /\ DoomedIsLive'
    <2>1. Cardinality(LiveOf(linked) \ LiveOf(linked)) = 0
      BY FS_EmptySet
    <2> QED  BY <1>14, <1>16, <2>1 DEF Abolish
  <1>17. ASSUME UpdateStep PROVE CountsExact' /\ MarkedKnown' /\ DoomedIsLive'
    <2>1. \A s \in Sources : {c \in linked : SourceOf[c] = s} \in SUBSET linked
      OBVIOUS
    <2> QED  BY <1>13, <1>15, <1>16, <1>17, <2>1 DEF UpdateStep, AssertTerm,
                 RecordClause, startConsult, startConsultMultifile
  <1>18. ASSUME Abort PROVE CountsExact' /\ MarkedKnown' /\ DoomedIsLive'
    <2>1. CountsExact' /\ MarkedKnown'
      BY <1>a, <1>18, CollectCounts DEF Abort
    <2> QED  BY <1>d, <1>18, <2>1 DEF Abort, DoomedIsLive
  <1>19. CASE UNCHANGED vars
    <2>1. DoomedIsLive'
      BY <1>a, <1>19 DEF vars, DoomedIsLive, IsErased
    <2> QED  BY <1>b, <1>19, <2>1 DEF vars
  <1> QED  BY <1>11, <1>17, <1>18, <1>19 DEF Next

(* The counts of clauses and of erased clauses are those of the list, as    *)
(* pl_check_definition() verifies, unless another actor can run between the *)
(* test of a clause in retractClauseProcedure() and its update.             *)
THEOREM CountsCorrect ==
    ASSUME ~Preemptive
    PROVE  Spec => []CountsExact
  <1>1. Init => ClauseCountInv
    <2>1. Init => NoDangling
      BY DEF Init, NoDangling, Over, Inside
    <2>2. Init => CountsExact
      BY FS_EmptySet DEF Init, CountsExact, ErasedOf
    <2>3. Init => MarkedKnown /\ DoomedIsLive
      BY DEF Init, MarkedKnown, DoomedIsLive, IsErased, Over
    <2> QED  BY <2>1, <2>2, <2>3, CountInit DEF DangleInv, ClauseCountInv
  <1>2. ClauseCountInv => CountsExact
    BY DEF ClauseCountInv
  <1> QED  BY <1>1, <1>2, ClauseCountNext, PTL DEF Spec
=============================================================================
