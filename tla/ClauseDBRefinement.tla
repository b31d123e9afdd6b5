------------------------- MODULE ClauseDBRefinement -------------------------
(* ClauseDB implements the logical update view, for every value of the       *)
(* constants, where no other actor runs within an operation.                 *)
EXTENDS ClauseDBProofs

USE DEF list, lifetime, counts, Generations, Infinity

(* Clauses have different places on the list; no clause was added or erased  *)
(* in a later generation than that of the database; a clause that            *)
(* nth_clause/3 has fetched is one that its goal sees. *)
PlacesDiffer == \A c, d \in linked : pos[c] = pos[d] => c = d

LifetimesPast ==
    \A c \in Clauses : created[c] <= generation /\ (IsErased(c) => erased[c] <= generation)

Proper(r) ==
    /\ r.kind = "nth" => r.key = NoKey
    /\ r.pc = "called" => r.clause = NULL

FramesProper == \A f \in Frames : Proper(frame[f])

FetchedSeen ==
    \A f \in Frames : frame[f].pc = "fetched" => visibleClause(frame[f].clause, frame[f].gen)

ViewInv == ClauseCountInv /\ PlacesDiffer /\ LifetimesPast /\ FramesProper /\ FetchedSeen

LEMMA ViewInvFacts ==
    ASSUME ViewInv
    PROVE  /\ TypeOK /\ CountInv /\ KindInv /\ ReferencesExact /\ DangleInv /\ NoDangling
           /\ MarkedKnown /\ DoomedIsLive
           /\ PlacesDiffer /\ LifetimesPast /\ FramesProper /\ FetchedSeen
  BY DEF ViewInv, ClauseCountInv, DangleInv, CountInv

-----------------------------------------------------------------------------
(* What a step does to clauses. *)

(* A clause is added at an end of the list, in the generation to come. *)
LEMMA AddedAtEnd ==
    ASSUME ViewInv, NEW c \in Clauses, NEW where, assertProcedure(c, where)
    PROVE  /\ pos' = [pos EXCEPT ![c] = pos'[c]] /\ pos'[c] \in Int
           /\ \/ \A d \in linked : pos'[c] < pos[d]
              \/ \A d \in linked : pos[d] < pos'[c]
  <1>1. TypeOK /\ linked \in SUBSET Clauses
    BY ViewInvFacts DEF TypeOK
  <1> DEFINE place == IF linked = {} THEN 0
                      ELSE IF where = "CL_START" THEN pos[First(linked)] - 1
                      ELSE pos[Last(linked)] + 1
  <1>2. pos' = [pos EXCEPT ![c] = place]
    BY DEF assertProcedure
  <1>3. /\ place \in Int
        /\ (\A d \in linked : place < pos[d]) \/ (\A d \in linked : pos[d] < place)
    <2>1. \A d \in linked : pos[d] \in Int
      BY <1>1 DEF TypeOK
    <2>2. CASE linked = {}
      BY <2>2
    <2>3. CASE linked # {} /\ where = "CL_START"
      BY <1>1, <2>1, <2>3, FirstInSet
    <2>4. CASE linked # {} /\ where # "CL_START"
      BY <1>1, <2>1, <2>4, LastInSet
    <2> QED  BY <2>2, <2>3, <2>4
  <1> HIDE DEF place
  <1>4. pos'[c] = place
    BY <1>1, <1>2 DEF TypeOK
  <1> QED  BY <1>2, <1>3, <1>4

(* Only assert gives clauses a place and a generation of creation. *)
Adds == \E c \in Clauses, where \in {"CL_START", "CL_END"} : assertProcedure(c, where)

LEMMA OtherwiseKept ==
    ASSUME [Next]_vars, ~Adds
    PROVE  UNCHANGED <<pos, created>> /\ linked' \subseteq linked
  <1>1. ASSUME NEW refs, NEW E, NEW n, NEW fl, Settle(refs, E, n, fl)
        PROVE  linked' \subseteq linked
    BY <1>1 DEF Settle
  <1>2. ASSUME LeaveDefinition PROVE UNCHANGED <<pos, created>> /\ linked' \subseteq linked
    BY <1>1, <1>2 DEF LeaveDefinition
  <1>3. ASSUME NEW f \in Frames, FrameStep(f)
        PROVE  UNCHANGED <<pos, created>> /\ linked' \subseteq linked
    <2>1. CASE Enter(f)
      BY <1>1, <2>1 DEF Enter
    <2>2. CASE Redo(f) \/ LeaveLast(f) \/ Cut(f)
      BY <1>2, <2>2 DEF Redo, LeaveLast, Cut
    <2>3. CASE RetractLocked(f)
      BY <2>3 DEF RetractLocked, MarkErased, Unlink
    <2> QED  BY <1>3, <2>1, <2>2, <2>3 DEF FrameStep, Call, NthFetch, NthEnter,
                 RetractStatic, RetractTest, EraseTest
  <1>4. ASSUME NEW D, NEW k, NEW keep, RemoveClauses(D, k, keep)
        PROVE  UNCHANGED <<pos, created>> /\ linked' \subseteq linked
    BY <1>1, <1>4 DEF RemoveClauses
  <1>5. ASSUME UpdateStep PROVE UNCHANGED <<pos, created>> /\ linked' \subseteq linked
    BY <1>4, <1>5 DEF UpdateStep, AssertTerm, RecordClause, Adds, Abolish, startConsult,
       startConsultMultifile, Reconsult
  <1>6. CASE Abort
    BY <1>1, <1>6 DEF Abort
  <1>7. CASE UNCHANGED vars
    BY <1>7 DEF vars
  <1> QED  BY <1>3, <1>5, <1>6, <1>7 DEF Next

(* A clause is erased once, in the generation to come. *)
LEMMA ErasedOnce ==
    ASSUME ViewInv, [Next]_vars
    PROVE  /\ generation' \in {generation, generation + 1}
           /\ \A c \in Clauses :
                \/ erased'[c] = erased[c]
                \/ /\ ~IsErased(c) /\ c \in linked
                   /\ generation' = generation + 1 /\ erased'[c] = generation + 1
  <1>1. CASE UNCHANGED <<erased, generation>>
    BY <1>1
  <1>2. CASE UNCHANGED erased /\ generation' = generation + 1
    BY <1>2
  <1>3. ASSUME NEW f \in Frames, RetractLocked(f), references # 0
        PROVE  /\ generation' = generation + 1
               /\ erased' = [erased EXCEPT ![frame[f].clause] = generation + 1]
               /\ ~IsErased(frame[f].clause) /\ frame[f].clause \in linked
    BY <1>3, ViewInvFacts DEF RetractLocked, MarkErased, DoomedIsLive
  <1>4. ASSUME NEW f \in Frames, RetractLocked(f)
        PROVE  /\ generation' \in {generation, generation + 1}
               /\ \A c \in Clauses :
                    \/ erased'[c] = erased[c]
                    \/ /\ ~IsErased(c) /\ c \in linked
                       /\ generation' = generation + 1 /\ erased'[c] = generation + 1
    <2>1. CASE references # 0
      BY <1>3, <1>4, <2>1, ViewInvFacts DEF TypeOK
    <2>2. CASE references = 0
      BY <1>4, <2>2 DEF RetractLocked, Unlink
    <2> QED  BY <2>1, <2>2
  <1>5. ASSUME NEW D \in SUBSET linked, NEW k, NEW keep, RemoveClauses(D, k, keep)
        PROVE  /\ generation' \in {generation, generation + 1}
               /\ \A c \in Clauses :
                    \/ erased'[c] = erased[c]
                    \/ /\ ~IsErased(c) /\ c \in linked
                       /\ generation' = generation + 1 /\ erased'[c] = generation + 1
    BY <1>5 DEF RemoveClauses, LiveOf
  <1>6. ASSUME UpdateStep
        PROVE  /\ generation' \in {generation, generation + 1}
               /\ \A c \in Clauses :
                    \/ erased'[c] = erased[c]
                    \/ /\ ~IsErased(c) /\ c \in linked
                       /\ generation' = generation + 1 /\ erased'[c] = generation + 1
    <2>1. \A s \in Sources : {c \in linked : SourceOf[c] = s} \in SUBSET linked
      OBVIOUS
    <2> QED  BY <1>2, <1>5, <1>6, <2>1 DEF UpdateStep, AssertTerm, RecordClause,
                 assertProcedure, Abolish, startConsult, startConsultMultifile, Reconsult
  <1>7. ASSUME NEW f \in Frames, FrameStep(f), ~RetractLocked(f)
        PROVE  UNCHANGED <<erased, generation>>
    BY <1>7 DEF FrameStep, Call, Enter, NthFetch, NthEnter, Redo, LeaveLast, Cut,
       RetractStatic, RetractTest, EraseTest, LeaveDefinition
  <1>8. Abort \/ UNCHANGED vars => UNCHANGED <<erased, generation>>
    BY DEF Abort, vars
  <1> QED  BY <1>1, <1>4, <1>6, <1>7, <1>8 DEF Next

-----------------------------------------------------------------------------
(* The invariant is kept. *)

LEMMA AdvanceTo ==
    ASSUME TypeOK, NEW f \in Frames, NEW S \in SUBSET linked, S # {}, Advance(f, S)
    PROVE  \E r \in FrameRecords :
             /\ frame' = [frame EXCEPT ![f] = r]
             /\ r.pc = "running" /\ r.kind = frame[f].kind
             /\ r.gen = frame[f].gen /\ r.key = frame[f].key
             /\ r.clause = First(S)
             /\ r.next = NextRef(First(S), r.gen, r.key, r.kind)
  <1> DEFINE c == First(S)
             n == NextRef(c, frame[f].gen, frame[f].key, frame[f].kind)
             r == [frame[f] EXCEPT !.pc = "running", !.clause = c, !.next = n]
  <1>1. c \in linked
    BY FirstInSet DEF TypeOK
  <1>2. n \in linked \cup {NULL}
    BY NextRefType
  <1>3. frame' = [frame EXCEPT ![f].pc = "running", ![f].clause = c, ![f].next = n]
    BY DEF Advance
  <1>4. frame[f] \in FrameRecords
    BY DEF TypeOK
  <1>5. r.kind = frame[f].kind /\ r.gen = frame[f].gen /\ r.key = frame[f].key
    BY <1>4 DEF FrameRecords
  <1>6. NextRef(c, r.gen, r.key, r.kind) = n
    BY <1>5
  <1> HIDE DEF c, n
  <1>7. r \in FrameRecords /\ r.pc = "running" /\ r.clause = c /\ r.next = n
    BY <1>1, <1>2, <1>4 DEF FrameRecords, PCs, Inside, TypeOK
  <1>8. frame' = [frame EXCEPT ![f] = r]
    BY <1>3, <1>4 DEF TypeOK
  <1> HIDE DEF r
  <1>9. /\ r.next = NextRef(c, r.gen, r.key, r.kind)
        /\ r.clause = c
    BY <1>6, <1>7
  <1> QED  BY <1>5, <1>7, <1>8, <1>9 DEF c

(* A step of a frame leaves the other ones alone. *)
LEMMA FrameMove ==
    ASSUME ViewInv, NEW f \in Frames, FrameStep(f)
    PROVE  /\ Undisturbed(f)
           /\ \E r : /\ frame' = [frame EXCEPT ![f] = r]
                     /\ Proper(r)
                     /\ r.pc = "fetched" => /\ visibleClause(r.clause, r.gen)
                                            /\ UNCHANGED <<created, erased>>
  <1>a. TypeOK /\ FramesProper /\ frame[f] \in FrameRecords
    BY ViewInvFacts DEF TypeOK
  <1>b. \A pc \in {"idle", "exhausted", "called", "retracting"} :
          Over(pc).pc # "fetched" /\ Proper(Over(pc))
    BY DEF Over, Proper
  <1>c. ASSUME NEW S \in SUBSET linked, S # {}, Advance(f, S)
        PROVE  \E r : /\ frame' = [frame EXCEPT ![f] = r]
                      /\ Proper(r)
                      /\ r.pc # "fetched"
    BY <1>a, <1>c, AdvanceTo DEF FramesProper, Proper
  <1>1. CASE \E kind \in Kinds, k \in Keys \cup {NoKey} : Call(f, kind, k)
    <2>1. PICK kind \in Kinds, k \in Keys \cup {NoKey} : Call(f, kind, k)
      BY <1>1
    <2> DEFINE r == [Over("called") EXCEPT !.kind = kind, !.gen = generation, !.key = k]
    <2>2. r.kind = kind /\ r.key = k /\ r.pc = "called" /\ r.clause = NULL
      BY DEF Over
    <2>3. frame' = [frame EXCEPT ![f] = r] /\ Undisturbed(f) /\ (kind = "nth" => k = NoKey)
      BY <2>1 DEF Call
    <2> HIDE DEF r
    <2> QED  BY <2>2, <2>3 DEF Proper
  <1>2. CASE Enter(f)
    <2> DEFINE found == Candidates(linked, frame[f].gen, frame[f].key)
    <2>1. found \in SUBSET linked
      BY DEF Candidates
    <2> QED  BY <1>2, <1>b, <1>c, <2>1 DEF Enter
  <1>3. CASE NthFetch(f)
    <2> DEFINE found == Candidates(linked, frame[f].gen, NoKey)
               r == IF found = {} THEN Over("exhausted")
                    ELSE [frame[f] EXCEPT !.pc = "fetched", !.clause = First(found)]
    <2>1. /\ frame' = [frame EXCEPT ![f] = r] /\ Undisturbed(f)
          /\ UNCHANGED <<created, erased>>
      BY <1>3 DEF NthFetch
    <2>2. found \in SUBSET Clauses
      BY <1>a DEF Candidates, TypeOK
    <2>3. found # {} => First(found) \in found
      BY <1>a, <2>2, FirstInSet
    <2>4. found # {} => visibleClause(First(found), frame[f].gen)
      BY <2>3 DEF Candidates
    <2> HIDE DEF found
    <2>5. Proper(r)
      BY <1>a, <1>b DEF FrameRecords, FramesProper, Proper
    <2>6. r.pc = "fetched" => visibleClause(r.clause, r.gen)
      <3>1. CASE found = {}
        BY <3>1, <1>b
      <3>2. CASE found # {}
        <4>1. r.clause = First(found) /\ r.gen = frame[f].gen
          BY <1>a, <3>2 DEF FrameRecords
        <4> QED  BY <2>4, <3>2, <4>1
      <3> QED  BY <3>1, <3>2
    <2> HIDE DEF r
    <2> QED  BY <2>1, <2>5, <2>6
  <1>4. CASE NthEnter(f)
    <2> DEFINE n == NextRef(frame[f].clause, frame[f].gen, NoKey, "nth")
               r == [frame[f] EXCEPT !.pc = "running", !.next = n]
    <2>1. frame' = [frame EXCEPT ![f].pc = "running", ![f].next = n] /\ Undisturbed(f)
      BY <1>4 DEF NthEnter
    <2> HIDE DEF n
    <2>2. frame' = [frame EXCEPT ![f] = r]
      BY <1>a, <2>1 DEF TypeOK
    <2>3. r.pc = "running" /\ Proper(r)
      BY <1>a DEF FrameRecords, FramesProper, Proper
    <2> HIDE DEF r
    <2> QED  BY <2>1, <2>2, <2>3
  <1>5. CASE Redo(f)
    <2> DEFINE found == Candidates(From(frame[f].next), frame[f].gen, frame[f].key)
    <2>1. found \in SUBSET linked
      BY DEF Candidates, From
    <2> QED  BY <1>5, <1>b, <1>c, <2>1 DEF Redo
  <1>6. CASE LeaveLast(f) \/ Cut(f) \/ RetractStatic(f)
    BY <1>6, <1>b DEF LeaveLast, Cut, RetractStatic
  <1>7. CASE RetractTest(f)
    <2> DEFINE pc == IF IsErased(frame[f].clause) THEN "solved" ELSE "retracting"
               r == [frame[f] EXCEPT !.pc = pc]
    <2>1. pc \in {"solved", "retracting"} /\ frame' = [frame EXCEPT ![f].pc = pc] /\ Undisturbed(f)
      BY <1>7 DEF RetractTest
    <2> HIDE DEF pc
    <2>2. frame' = [frame EXCEPT ![f] = r]
      BY <1>a, <2>1 DEF TypeOK
    <2>3. r.pc = pc /\ Proper(r)
      BY <1>a, <2>1 DEF FrameRecords, FramesProper, Proper
    <2> HIDE DEF r
    <2> QED  BY <2>1, <2>2, <2>3
  <1>8. CASE \E c \in Clauses : EraseTest(f, c)
    <2>1. PICK c \in Clauses : EraseTest(f, c)
      BY <1>8
    <2> DEFINE r == [Over("retracting") EXCEPT !.kind = "erase", !.clause = c]
    <2>2. r.kind = "erase" /\ r.pc = "retracting"
      BY DEF Over
    <2>3. frame' = [frame EXCEPT ![f] = r] /\ Undisturbed(f)
      BY <2>1 DEF EraseTest
    <2> HIDE DEF r
    <2> QED  BY <2>2, <2>3 DEF Proper
  <1>9. CASE RetractLocked(f)
    <2> DEFINE r == IF frame[f].kind = "erase" THEN Over("idle")
                    ELSE [frame[f] EXCEPT !.pc = "solved"]
    <2>1. frame' = [frame EXCEPT ![f] = r] /\ Undisturbed(f)
      BY <1>9 DEF RetractLocked
    <2>2. r.pc # "fetched" /\ Proper(r)
      BY <1>a, <1>b DEF FrameRecords, FramesProper, Proper
    <2> HIDE DEF r
    <2> QED  BY <2>1, <2>2
  <1> QED  BY <1>1, <1>2, <1>3, <1>4, <1>5, <1>6, <1>7, <1>8, <1>9 DEF FrameStep

LEMMA ViewNext ==
    ASSUME ~Preemptive
    PROVE  ViewInv /\ [Next]_vars => ViewInv'
  <1> SUFFICES ASSUME ViewInv, [Next]_vars
               PROVE  PlacesDiffer' /\ LifetimesPast' /\ FramesProper' /\ FetchedSeen'
    BY ClauseCountNext DEF ViewInv
  <1>a. /\ TypeOK /\ PlacesDiffer /\ LifetimesPast /\ FramesProper /\ FetchedSeen
        /\ linked \in SUBSET Clauses
    BY ViewInvFacts DEF TypeOK
  <1>1. PlacesDiffer'
    <2>1. CASE ~Adds
      BY <1>a, <2>1, OtherwiseKept DEF PlacesDiffer
    <2>2. CASE Adds
      <3>1. PICK c \in Clauses, where \in {"CL_START", "CL_END"} : assertProcedure(c, where)
        BY <2>2 DEF Adds
      <3>2. linked' = linked \cup {c} /\ c \notin linked
        BY <3>1 DEF assertProcedure
      <3>3. \A d \in linked : pos'[d] = pos[d] /\ pos'[d] # pos'[c] /\ pos[d] \in Int
        <4>1. /\ pos' = [pos EXCEPT ![c] = pos'[c]] /\ pos'[c] \in Int
              /\ \/ \A d \in linked : pos'[c] < pos[d]
                 \/ \A d \in linked : pos[d] < pos'[c]
          BY <3>1, AddedAtEnd
        <4>2. pos \in [Clauses -> Int]
          BY <1>a DEF TypeOK
        <4> QED  BY <1>a, <3>2, <4>1, <4>2
      <3> QED  BY <1>a, <3>2, <3>3 DEF PlacesDiffer
    <2> QED  BY <2>1, <2>2
  <1>2. LifetimesPast'
    <2> SUFFICES ASSUME NEW c \in Clauses
                 PROVE  /\ created'[c] <= generation'
                        /\ erased'[c] # Infinity => erased'[c] <= generation'
      BY DEF LifetimesPast, IsErased
    <2>1. /\ created[c] \in Int /\ erased[c] \in Int /\ generation \in Int
          /\ created[c] <= generation
          /\ erased[c] # Infinity => erased[c] <= generation
      <3>1. created[c] \in Int /\ erased[c] \in Int /\ generation \in Int
        BY <1>a, ClauseDBAssumption DEF TypeOK
      <3>2. created[c] <= generation /\ (erased[c] # Infinity => erased[c] <= generation)
        BY <1>a DEF LifetimesPast, IsErased
      <3> QED  BY <3>1, <3>2
    <2>2. created'[c] = created[c] \/ created'[c] = generation'
      <3>1. CASE ~Adds
        BY <3>1, OtherwiseKept
      <3>2. CASE Adds
        BY <1>a, <3>2 DEF Adds, assertProcedure, TypeOK
      <3> QED  BY <3>1, <3>2
    <2>3. /\ generation' \in {generation, generation + 1}
          /\ erased'[c] = erased[c] \/ erased'[c] = generation'
      BY ErasedOnce
    <2> QED  BY <2>1, <2>2, <2>3
  <1>3. ASSUME UNCHANGED frame, \A f \in Frames : frame[f].pc # "fetched"
        PROVE  FramesProper' /\ FetchedSeen'
    BY <1>3, <1>a DEF FramesProper, FetchedSeen, Proper
  <1>4. ASSUME NEW f \in Frames, FrameStep(f) PROVE FramesProper' /\ FetchedSeen'
    <2>1. PICK r : /\ frame' = [frame EXCEPT ![f] = r] /\ Undisturbed(f)
                   /\ Proper(r)
                   /\ r.pc = "fetched" => /\ visibleClause(r.clause, r.gen)
                                          /\ UNCHANGED <<created, erased>>
      BY <1>4, FrameMove
    <2>2. \A g \in Frames : frame'[g] = IF g = f THEN r ELSE frame[g]
      BY <1>a, <2>1 DEF TypeOK
    <2>3. FramesProper'
      BY <1>a, <2>1, <2>2 DEF FramesProper, Proper
    <2>4. ASSUME NEW g \in Frames, frame'[g].pc = "fetched"
          PROVE  visibleClause(frame[g].clause, frame[g].gen)'
      <3>1. g = f
        BY <2>1, <2>2, <2>4 DEF Undisturbed, Gap
      <3> QED  BY <2>1, <2>2, <2>4, <3>1 DEF visibleClause
    <2> QED  BY <2>3, <2>4 DEF FetchedSeen
  <1>5. ASSUME UpdateStep PROVE FramesProper' /\ FetchedSeen'
    <2>1. UNCHANGED frame /\ Quiet
      BY <1>5 DEF UpdateStep, AssertTerm, RecordClause, assertProcedure, Abolish,
                  startConsult, startConsultMultifile, Reconsult, RemoveClauses
    <2> QED  BY <1>3, <2>1 DEF Quiet, Gap
  <1>6. ASSUME Abort PROVE FramesProper' /\ FetchedSeen'
    <2>1. \A f \in Frames : Proper(frame'[f]) /\ frame'[f].pc = "idle"
      BY <1>6 DEF Abort, Over, Proper
    <2>2. FramesProper'
      BY <2>1 DEF FramesProper, Proper
    <2>3. ASSUME NEW f \in Frames, frame'[f].pc = "fetched"
          PROVE  visibleClause(frame[f].clause, frame[f].gen)'
      BY <2>1, <2>3
    <2> QED  BY <2>2, <2>3 DEF FetchedSeen
  <1>7. ASSUME UNCHANGED vars PROVE FramesProper' /\ FetchedSeen'
    <2>1. UNCHANGED <<frame, created, erased>>
      BY <1>7 DEF vars
    <2>2. FramesProper'
      BY <1>a, <2>1 DEF FramesProper, Proper
    <2>3. ASSUME NEW f \in Frames, frame'[f].pc = "fetched"
          PROVE  visibleClause(frame[f].clause, frame[f].gen)'
      BY <1>a, <2>1, <2>3 DEF FetchedSeen, visibleClause
    <2> QED  BY <2>1, <2>2, <2>3 DEF FetchedSeen
  <1> QED  BY <1>1, <1>2, <1>4, <1>5, <1>6, <1>7 DEF Next

-----------------------------------------------------------------------------
(* What a goal is still to visit. *)

(* Later updates make no difference to what a generation sees. *)
LEMMA SeenStays ==
    ASSUME ViewInv, [Next]_vars, linked \subseteq linked',
           NEW gen \in Generations, gen <= generation, NEW k
    PROVE  Candidates(linked, gen, k)' = Candidates(linked, gen, k)
  <1>a. TypeOK /\ linked \in SUBSET Clauses /\ gen \in Int /\ generation \in Int
    BY ViewInvFacts, ClauseDBAssumption DEF TypeOK
  <1>1. ASSUME NEW c \in linked PROVE visibleClause(c, gen)' <=> visibleClause(c, gen)
    <2>1. created'[c] = created[c]
      <3>1. CASE Adds
        BY <1>a, <3>1 DEF Adds, assertProcedure, TypeOK
      <3> QED  BY <3>1, OtherwiseKept
    <2>2. erased'[c] = erased[c] \/ (erased[c] = Infinity /\ erased'[c] = generation + 1)
      BY <1>a, ErasedOnce DEF IsErased
    <2>3. gen < Infinity /\ gen < generation + 1
      BY <1>a, ClauseDBAssumption
    <2> QED  BY <2>1, <2>2, <2>3 DEF visibleClause
  <1>2. ASSUME NEW c \in linked', c \notin linked PROVE ~visibleClause(c, gen)'
    <2>1. Adds
      BY <1>2, OtherwiseKept
    <2>2. created'[c] = generation + 1
      BY <1>a, <1>2, <2>1 DEF Adds, assertProcedure, TypeOK
    <2> QED  BY <1>a, <2>2 DEF visibleClause
  <1> QED  BY <1>1, <1>2 DEF Candidates, Matches

(* Nor do other goals and updates to how far a goal is. *)
LEMMA ViewStays ==
    ASSUME ViewInv, [Next]_vars, NEW g \in Frames, frame'[g] = frame[g],
           frame[g].pc \notin Gap
    PROVE  viewOf(g)' = viewOf(g)
  <1>a. TypeOK /\ CountInv /\ linked \in SUBSET Clauses /\ frame[g] \in FrameRecords
    BY ViewInvFacts DEF TypeOK
  <1>1. CASE IsOver(g) \/ frame[g].kind = "erase"
    BY <1>1 DEF viewOf, IsOver
  <1>2. CASE ~IsOver(g) /\ frame[g].kind # "erase"
    <2>1. frame[g].pc \in Inside /\ g \in Entered /\ g \in Entered'
      BY <1>a, <1>2 DEF IsOver, Entered, FrameRecords, PCs
    <2>2. linked \subseteq linked'
      BY <1>a, <2>1, ListGrows
    <2>3. frame[g].gen \in Generations /\ frame[g].gen <= generation
      BY <1>a DEF CountInv, KindInv, Sound, FrameRecords
    <2>4. Candidates(linked, frame[g].gen, frame[g].key)'
            = Candidates(linked, frame[g].gen, frame[g].key)
      BY <2>2, <2>3, SeenStays
    <2>5. {frame[g].clause, frame[g].next} \subseteq linked \cup {NULL}
      BY <2>1, ViewInvFacts DEF NoDangling
    <2>6. \A d \in linked : pos'[d] = pos[d]
      <3>1. CASE Adds
        <4>1. PICK c \in Clauses, where \in {"CL_START", "CL_END"} : assertProcedure(c, where)
          BY <3>1 DEF Adds
        <4>2. c \notin linked /\ pos' = [pos EXCEPT ![c] = pos'[c]]
          BY <4>1, AddedAtEnd DEF assertProcedure
        <4> QED  BY <1>a, <4>2 DEF TypeOK
      <3> QED  BY <3>1, OtherwiseKept
    <2>7. \A d \in linked : d \in From(frame[g].next)' <=> d \in From(frame[g].next)
      BY <2>2, <2>5, <2>6 DEF From
    <2> DEFINE seen == Candidates(linked, frame[g].gen, frame[g].key)
    <2>8. seen \subseteq linked
      BY DEF Candidates
    <2>9. viewOf(g) = [status |-> "active", todo |-> {c \in seen : c \in From(frame[g].next)},
                       at |-> frame[g].clause]
      BY <1>2, <2>1 DEF viewOf, Inside
    <2>10. viewOf(g)' = [status |-> "active",
                         todo |-> {c \in seen' : c \in From(frame[g].next)'},
                         at |-> frame'[g].clause]
      BY <1>2, <2>1 DEF viewOf, Inside, IsOver
    <2>11. {c \in seen' : c \in From(frame[g].next)'} = {c \in seen : c \in From(frame[g].next)}
      BY <2>4, <2>7, <2>8
    <2> QED  BY <2>9, <2>10, <2>11
  <1> QED  BY <1>1, <1>2

(* The first of some clauses, and those behind it. *)
LEMMA BehindFirst ==
    ASSUME TypeOK, PlacesDiffer, NEW S \in SUBSET linked, S # {}
    PROVE  /\ First(S) \in S /\ First(S) \in Clauses
           /\ \A d \in S : pos[First(S)] <= pos[d]
           /\ {d \in S : pos[d] > pos[First(S)]} = S \ {First(S)}
  <1>1. S \in SUBSET Clauses /\ \A d \in Clauses : pos[d] \in Int
    BY DEF TypeOK
  <1>2. First(S) \in S /\ \A d \in S : pos[First(S)] <= pos[d]
    BY <1>1, FirstInSet
  <1>3. \A d \in S : d # First(S) => pos[d] # pos[First(S)]
    BY <1>2 DEF PlacesDiffer
  <1> QED  BY <1>1, <1>2, <1>3

(* The alternative stands for all that the goal is to see behind its clause. *)
LEMMA AlternativeIsRest ==
    ASSUME TypeOK, NEW c \in linked, NEW gen, NEW k, NEW kind,
           kind = "nth" => k = NoKey
    PROVE  {d \in Candidates(linked, gen, k) : d \in From(NextRef(c, gen, k, kind))}
             = {d \in Candidates(linked, gen, k) : pos[d] > pos[c]}
  <1> DEFINE seen == Candidates(linked, gen, k)
             S == IF k = NoKey /\ kind # "nth" THEN After(c)
                  ELSE Candidates(After(c), gen, k)
             n == FirstOrNull(S)
  <1>1. NextRef(c, gen, k, kind) = n
    BY DEF NextRef
  <1>2. /\ linked \in SUBSET Clauses /\ NULL \notin Clauses
        /\ \A d \in linked : pos[d] \in Int
    BY ClauseDBAssumption DEF TypeOK
  <1>3. /\ S \in SUBSET linked /\ \A d \in S : pos[d] > pos[c]
        /\ \A d \in seen : pos[d] > pos[c] => d \in S
    BY DEF After, Candidates
  <1>4. seen \subseteq linked
    BY DEF Candidates
  <1> HIDE DEF S, seen
  <1>5. CASE S = {}
    BY <1>1, <1>3, <1>5 DEF FirstOrNull, From, seen
  <1>6. CASE S # {}
    <2>1. n \in S /\ \A d \in S : pos[n] <= pos[d]
      BY <1>2, <1>3, <1>6, FirstInSet DEF FirstOrNull
    <2>2. n # NULL /\ n \in linked
      BY <1>2, <1>3, <2>1
    <2> HIDE DEF n
    <2>3. \A d \in seen : d \in From(n) <=> pos[d] > pos[c]
      BY <1>2, <1>3, <1>4, <2>1, <2>2 DEF From
    <2> QED  BY <1>1, <2>3 DEF seen
  <1> QED  BY <1>5, <1>6

(* A goal that has entered its definition, and one that is over. *)
LEMMA ViewInside ==
    ASSUME NEW f \in Frames, frame[f].pc \in Inside, frame[f].kind # "erase"
    PROVE  viewOf(f) =
             [status |-> "active",
              todo |-> {c \in Candidates(linked, frame[f].gen, frame[f].key) :
                          c \in From(frame[f].next)},
              at |-> frame[f].clause]
  BY DEF viewOf, Inside, IsOver

LEMMA ViewOver ==
    ASSUME NEW f \in Frames, IsOver(f) \/ frame[f].kind = "erase"
    PROVE  viewOf(f) = View!Rest(IF frame[f].pc = "exhausted" THEN "exhausted" ELSE "idle")
  BY DEF viewOf, View!Rest

-----------------------------------------------------------------------------
(* Every step is a step of the view, or none. *)

(* The view of the list, and of the goals but f, is the same. *)
ListSame ==
    /\ {c \in linked : ~IsErased(c)}' = {c \in linked : ~IsErased(c)}
    /\ (linked \cup freed)' = linked \cup freed
    /\ pos' = pos

OthersSame(f) == \A g \in Frames \ {f} : viewOf(g)' = viewOf(g)

LEMMA OthersStay ==
    ASSUME ~Preemptive, ViewInv, [Next]_vars, NEW f \in Frames, NEW r,
           frame' = [frame EXCEPT ![f] = r], Undisturbed(f)
    PROVE  OthersSame(f) /\ frame'[f] = r
  <1>1. TypeOK
    BY ViewInvFacts
  <1>2. ASSUME NEW g \in Frames \ {f} PROVE viewOf(g)' = viewOf(g)
    <2>1. frame'[g] = frame[g]
      BY <1>1 DEF TypeOK
    <2>2. frame[g].pc \notin Gap
      BY DEF Undisturbed
    <2> QED  BY <2>1, <2>2, ViewStays
  <1> QED  BY <1>1, <1>2 DEF OthersSame, TypeOK

LEMMA AllStay ==
    ASSUME ~Preemptive, ViewInv, [Next]_vars, UNCHANGED frame, Quiet
    PROVE  \A g \in Frames : viewOf(g)' = viewOf(g)
  BY ViewStays DEF Quiet

(* Collecting erased clauses is not seen. *)
LEMMA CollectUnseen ==
    ASSUME NEW refs, NEW n, NEW fl, Settle(refs, ErasedOf(linked), n, fl),
           UNCHANGED <<erased, pos>>
    PROVE  ListSame
  <1> DEFINE gone == IF refs = 0 /\ "NEEDSCLAUSEGC" \in fl
                     THEN Reclaimed(ErasedOf(linked), n) ELSE {}
  <1>1. linked' = linked \ gone /\ freed' = freed \cup gone
    BY DEF Settle
  <1>2. gone \subseteq linked /\ \A c \in gone : IsErased(c)
    BY DEF Reclaimed, ErasedOf
  <1> HIDE DEF gone
  <1> QED  BY <1>1, <1>2 DEF ListSame, IsErased

LEMMA VisitStep ==
    ASSUME NEW f \in Frames, NEW c \in Clauses, NEW T, NEW at, c \in T,
           \A d \in T : pos[c] <= pos[d],
           viewOf(f) = [status |-> "active", todo |-> T, at |-> at],
           viewOf(f)' = [status |-> "active", todo |-> T \ {c}, at |-> c],
           OthersSame(f), ListSame
    PROVE  View!Next
  <1> DEFINE goal == [g \in Frames |-> viewOf(g)]
  <1>1. goal[f] = [status |-> "active", todo |-> T, at |-> at]
    OBVIOUS
  <1>2. goal[f].todo = T
    BY <1>1
  <1>3. /\ c \in goal[f].todo /\ \A d \in goal[f].todo : pos[c] <= pos[d]
        /\ goal' = [goal EXCEPT ![f] =
                      [status |-> "active", at |-> c, todo |-> goal[f].todo \ {c}]]
    BY <1>2 DEF OthersSame
  <1>4. View!Visit(f, c)
    BY <1>3 DEF View!Visit, ListSame
  <1> QED  BY <1>4 DEF View!Next

LEMMA ExhaustStep ==
    ASSUME NEW f \in Frames, NEW at,
           viewOf(f) = [status |-> "active", todo |-> {}, at |-> at],
           frame'[f] = Over("exhausted"), OthersSame(f), ListSame
    PROVE  View!Next
  <1>1. viewOf(f)' = View!Rest("exhausted")
    BY DEF viewOf, IsOver, Over, View!Rest
  <1> DEFINE goal == [g \in Frames |-> viewOf(g)]
  <1>2. /\ goal[f].status = "active" /\ goal[f].todo = {}
        /\ goal' = [goal EXCEPT ![f] = View!Rest("exhausted")]
    <2>1. goal[f] = [status |-> "active", todo |-> {}, at |-> at]
      OBVIOUS
    <2>2. goal' = [goal EXCEPT ![f] = View!Rest("exhausted")]
      BY <1>1 DEF OthersSame
    <2> QED  BY <2>1, <2>2
  <1>3. View!Exhaust(f)
    BY <1>2 DEF View!Exhaust, ListSame
  <1> QED  BY <1>3 DEF View!Next

LEMMA AbandonStep ==
    ASSUME NEW f \in Frames, viewOf(f)' = View!Rest("idle"), OthersSame(f), ListSame
    PROVE  View!Next
  <1>1. View!Abandon({f})
    BY DEF View!Abandon, OthersSame, ListSame
  <1> QED  BY <1>1 DEF View!Next

LEMMA HiddenStep ==
    ASSUME NEW f \in Frames, viewOf(f)' = viewOf(f), OthersSame(f), ListSame
    PROVE  UNCHANGED View!abstractVars
  BY DEF View!abstractVars, OthersSame, ListSame

LEMMA RemoveStep ==
    ASSUME NEW S \in SUBSET linked, \A c \in S : ~IsErased(c),
           {c \in linked : ~IsErased(c)}' = {c \in linked : ~IsErased(c)} \ S,
           (linked \cup freed)' = linked \cup freed, pos' = pos,
           \A g \in Frames : viewOf(g)' = viewOf(g)
    PROVE  View!Next
  <1>1. S \in SUBSET {c \in linked : ~IsErased(c)}
    OBVIOUS
  <1>2. View!Remove(S)
    BY DEF View!Remove
  <1> QED  BY <1>1, <1>2 DEF View!Next

-----------------------------------------------------------------------------
LEMMA CallRefines ==
    ASSUME ~Preemptive, ViewInv, [Next]_vars, NEW f \in Frames,
           NEW kind \in Kinds, NEW k \in Keys \cup {NoKey}, Call(f, kind, k)
    PROVE  View!Next
  <1> DEFINE r == [Over("called") EXCEPT !.kind = kind, !.gen = generation, !.key = k]
  <1>a. TypeOK /\ LifetimesPast /\ linked \in SUBSET Clauses
    BY ViewInvFacts DEF TypeOK
  <1>1. /\ frame' = [frame EXCEPT ![f] = r] /\ Undisturbed(f) /\ IsOver(f)
        /\ kind # "erase" /\ UNCHANGED <<list, lifetime>>
    BY DEF Call
  <1>2. /\ r.pc = "called" /\ r.kind = kind /\ r.gen = generation /\ r.key = k
        /\ r.clause = NULL
    BY DEF Over
  <1> HIDE DEF r
  <1>3. OthersSame(f) /\ frame'[f] = r
    BY <1>1, OthersStay
  <1>4. ListSame
    BY <1>1 DEF ListSame, IsErased
  <1>5. \A c \in linked : visibleClause(c, generation) <=> ~IsErased(c)
    <2> SUFFICES ASSUME NEW c \in linked
                 PROVE  visibleClause(c, generation) <=> ~IsErased(c)
      OBVIOUS
    <2>1. /\ created[c] <= generation /\ (IsErased(c) => erased[c] <= generation)
          /\ generation \in Generations /\ erased[c] \in 0 .. Infinity
      BY <1>a DEF LifetimesPast, TypeOK
    <2> QED  BY <2>1, ClauseDBAssumption DEF visibleClause, IsErased
  <1>6. Candidates(linked, generation, k)'
          = {c \in {d \in linked : ~IsErased(d)} : View!Matching(c, k)}
    <2>1. Candidates(linked, generation, k)' = Candidates(linked, generation, k)
      BY <1>1 DEF Candidates, visibleClause, Matches
    <2> QED  BY <1>5, <2>1 DEF Candidates, Matches, View!Matching
  <1>7. viewOf(f)' = [status |-> "active", at |-> NULL,
                      todo |-> Candidates(linked, generation, k)']
    <2>1. ~IsOver(f)' /\ frame'[f].kind # "erase" /\ frame'[f].pc = "called"
          /\ frame'[f].clause = NULL /\ frame'[f].gen = generation' /\ frame'[f].key = k
      BY <1>1, <1>2, <1>3 DEF IsOver
    <2> QED  BY <2>1 DEF viewOf
  <1>8. viewOf(f).status # "active"
    BY <1>1, ViewOver DEF View!Rest
  <1>9. View!Start(f, k)
    BY <1>3, <1>4, <1>6, <1>7, <1>8 DEF View!Start, OthersSame, ListSame
  <1> QED  BY <1>9 DEF View!Next

(* A goal enters, and visits the first clause, if there is one. *)
LEMMA EnterRefines ==
    ASSUME ~Preemptive, ViewInv, [Next]_vars, NEW f \in Frames, Enter(f)
    PROVE  View!Next
  <1> DEFINE found == Candidates(linked, frame[f].gen, frame[f].key)
  <1>a. TypeOK /\ PlacesDiffer /\ FramesProper /\ KindInv /\ frame[f].pc = "called"
        /\ frame[f].kind # "erase" /\ Undisturbed(f)
    BY ViewInvFacts DEF Enter, KindInv, Sound
  <1>1. viewOf(f) = [status |-> "active", todo |-> found, at |-> frame[f].clause]
    BY <1>a DEF viewOf, IsOver
  <1>2. CASE found = {}
    <2>1. /\ Settle(references, ErasedOf(linked), erased_clauses, flags)
          /\ frame' = [frame EXCEPT ![f] = Over("exhausted")]
          /\ UNCHANGED <<erased, pos>>
      BY <1>2 DEF Enter
    <2>2. ListSame
      BY <2>1, CollectUnseen
    <2>3. OthersSame(f) /\ frame'[f] = Over("exhausted")
      BY <1>a, <2>1, OthersStay
    <2> QED  BY <1>1, <1>2, <2>2, <2>3, ExhaustStep
  <1>3. CASE found # {}
    <2> DEFINE c == First(found)
    <2>1. Advance(f, found) /\ UNCHANGED <<list, lifetime>>
      BY <1>3 DEF Enter
    <2>2. found \in SUBSET linked
      BY DEF Candidates
    <2>3. /\ c \in found /\ c \in Clauses /\ \A d \in found : pos[c] <= pos[d]
          /\ {d \in found : pos[d] > pos[c]} = found \ {c}
      BY <1>a, <1>3, <2>2, BehindFirst
    <2>4. PICK r \in FrameRecords :
             /\ frame' = [frame EXCEPT ![f] = r]
             /\ r.pc = "running" /\ r.kind = frame[f].kind
             /\ r.gen = frame[f].gen /\ r.key = frame[f].key
             /\ r.clause = First(found)
             /\ r.next = NextRef(First(found), r.gen, r.key, r.kind)
      BY <1>a, <1>3, <2>1, <2>2, AdvanceTo
    <2>5. {d \in found : d \in From(r.next)} = {d \in found : pos[d] > pos[c]}
      BY <1>a, <2>2, <2>3, <2>4, AlternativeIsRest DEF FramesProper, Proper
    <2>6. OthersSame(f) /\ frame'[f] = r
      BY <1>a, <2>4, OthersStay
    <2> HIDE DEF found
    <2>7. viewOf(f)' = [status |-> "active", todo |-> found \ {c}, at |-> c]
      <3>1. viewOf(f)' = [status |-> "active",
                          todo |-> {d \in Candidates(linked, r.gen, r.key) : d \in From(r.next)},
                          at |-> c]
        BY <1>a, <2>1, <2>4, <2>6 DEF viewOf, IsOver, Candidates, visibleClause, Matches, From
      <3> QED  BY <2>3, <2>4, <2>5, <3>1 DEF found
    <2>8. ListSame
      BY <2>1 DEF ListSame, IsErased
    <2> QED  BY <1>1, <2>3, <2>6, <2>7, <2>8, VisitStep
  <1> QED  BY <1>2, <1>3

(* nth_clause/3 looks for its first clause, which is not a visit yet, ... *)
LEMMA FetchRefines ==
    ASSUME ~Preemptive, ViewInv, [Next]_vars, NEW f \in Frames, NthFetch(f)
    PROVE  [View!Next]_View!abstractVars
  <1> DEFINE found == Candidates(linked, frame[f].gen, NoKey)
  <1>a. /\ TypeOK /\ frame[f] \in FrameRecords /\ frame[f].pc = "called"
        /\ frame[f].kind = "nth" /\ frame[f].key = NoKey /\ Undisturbed(f)
        /\ UNCHANGED <<list, lifetime>>
    BY ViewInvFacts DEF NthFetch, TypeOK, FramesProper, Proper
  <1>b. ListSame
    BY <1>a DEF ListSame, IsErased
  <1>1. viewOf(f) = [status |-> "active", todo |-> found, at |-> frame[f].clause]
    BY <1>a DEF viewOf, IsOver
  <1>2. CASE found = {}
    <2>1. frame' = [frame EXCEPT ![f] = Over("exhausted")]
      BY <1>2 DEF NthFetch
    <2>2. OthersSame(f) /\ frame'[f] = Over("exhausted")
      BY <1>a, <2>1, OthersStay
    <2> QED  BY <1>1, <1>2, <1>b, <2>2, ExhaustStep
  <1>3. CASE found # {}
    <2> DEFINE r == [frame[f] EXCEPT !.pc = "fetched", !.clause = First(found)]
    <2>1. frame' = [frame EXCEPT ![f] = r]
      BY <1>3 DEF NthFetch
    <2>2. found \in SUBSET linked /\ found \in SUBSET Clauses
      BY <1>a DEF Candidates, TypeOK
    <2>3. First(found) \in found /\ \A d \in found : pos[First(found)] <= pos[d]
      BY <1>a, <1>3, <2>2, FirstInSet
    <2>4. \A d \in found : pos[d] >= pos[First(found)]
      BY <1>a, <2>2, <2>3 DEF TypeOK
    <2>5. /\ r.pc = "fetched" /\ r.kind = frame[f].kind /\ r.gen = frame[f].gen
          /\ r.key = NoKey /\ r.clause = First(found)
      BY <1>a DEF FrameRecords
    <2>6. frame[f].clause = NULL
      BY <1>a, ViewInvFacts DEF FramesProper, Proper
    <2> HIDE DEF r, found
    <2>7. OthersSame(f) /\ frame'[f] = r
      BY <1>a, <2>1, OthersStay
    <2>8. viewOf(f)' = [status |-> "active",
                        todo |-> {d \in Candidates(linked, r.gen, NoKey) : pos[d] >= pos[r.clause]},
                        at |-> NULL]
      BY <1>a, <2>5, <2>7 DEF viewOf, IsOver, Candidates, visibleClause, Matches
    <2>9. viewOf(f)' = viewOf(f)
      BY <1>1, <2>4, <2>5, <2>6, <2>8 DEF found
    <2> QED  BY <1>b, <2>7, <2>9, HiddenStep
  <1> QED  BY <1>2, <1>3

(* ... and visits it when it enters the definition. *)
LEMMA NthEnterRefines ==
    ASSUME ~Preemptive, ViewInv, [Next]_vars, NEW f \in Frames, NthEnter(f)
    PROVE  View!Next
  <1> DEFINE fr == frame[f]
             c == fr.clause
             n == NextRef(c, fr.gen, NoKey, "nth")
             r == [fr EXCEPT !.pc = "running", !.next = n]
             seen == Candidates(linked, fr.gen, NoKey)
             T == {d \in seen : pos[d] >= pos[c]}
  <1>a. /\ TypeOK /\ PlacesDiffer /\ linked \in SUBSET Clauses
        /\ fr \in FrameRecords /\ fr.pc = "fetched"
        /\ Undisturbed(f) /\ UNCHANGED <<list, lifetime>>
        /\ frame' = [frame EXCEPT ![f].pc = "running", ![f].next = n]
    BY ViewInvFacts DEF NthEnter, TypeOK
  <1>b. fr.kind = "nth" /\ fr.key = NoKey /\ c # NULL
    BY <1>a, ViewInvFacts DEF KindInv, Sound, FramesProper, Proper
  <1>1. c \in linked /\ c \in seen
    <2>1. c \in linked
      BY <1>a, <1>b, ViewInvFacts DEF NoDangling
    <2>2. visibleClause(c, fr.gen)
      BY <1>a, ViewInvFacts DEF FetchedSeen
    <2> QED  BY <2>1, <2>2 DEF Candidates, Matches
  <1>2. viewOf(f) = [status |-> "active", todo |-> T, at |-> NULL]
    BY <1>a, <1>b DEF viewOf, IsOver
  <1>3. /\ c \in T /\ c \in Clauses /\ \A d \in T : pos[c] <= pos[d]
        /\ {d \in seen : pos[d] > pos[c]} = T \ {c}
    <2>1. seen \subseteq linked
      BY DEF Candidates
    <2>2. \A d \in linked : pos[d] \in Int
      BY <1>a DEF TypeOK
    <2> HIDE DEF seen
    <2> QED  BY <1>a, <1>1, <2>1, <2>2 DEF PlacesDiffer
  <1>4. {d \in seen : d \in From(n)} = {d \in seen : pos[d] > pos[c]}
    BY <1>a, <1>1, AlternativeIsRest
  <1> HIDE DEF n
  <1>5. frame' = [frame EXCEPT ![f] = r]
    BY <1>a DEF TypeOK
  <1>6. r.pc = "running" /\ r.kind = "nth" /\ r.gen = fr.gen /\ r.key = NoKey
        /\ r.clause = c /\ r.next = n
    BY <1>a, <1>b DEF FrameRecords
  <1> HIDE DEF r
  <1>7. OthersSame(f) /\ frame'[f] = r
    BY <1>a, <1>5, OthersStay
  <1>8. ListSame
    BY <1>a DEF ListSame, IsErased
  <1>9. viewOf(f)' = [status |-> "active", todo |-> {d \in seen : d \in From(n)}, at |-> c]
    BY <1>a, <1>6, <1>7 DEF viewOf, IsOver, Candidates, visibleClause, Matches, From
  <1> HIDE DEF T, c, seen
  <1> QED  BY <1>2, <1>3, <1>4, <1>7, <1>8, <1>9, VisitStep

(* Backtracking: on to the next clause, or out of clauses. *)
LEMMA RedoRefines ==
    ASSUME ~Preemptive, ViewInv, [Next]_vars, NEW f \in Frames, Redo(f)
    PROVE  View!Next
  <1> DEFINE fr == frame[f]
             found == Candidates(From(fr.next), fr.gen, fr.key)
             seen == Candidates(linked, fr.gen, fr.key)
  <1>a. /\ TypeOK /\ PlacesDiffer /\ FramesProper /\ linked \in SUBSET Clauses
        /\ fr.pc \in Inside /\ fr.kind # "erase" /\ Undisturbed(f) /\ fr.next # NULL
    BY ViewInvFacts DEF Redo, KindInv, Sound, Inside, TypeOK
  <1>1. found = {d \in seen : d \in From(fr.next)} /\ found \in SUBSET linked
    BY DEF Candidates, From
  <1>2. viewOf(f) = [status |-> "active", todo |-> found, at |-> fr.clause]
    BY <1>a, <1>1, ViewInside
  <1>3. CASE found = {}
    <2>1. LeaveDefinition /\ frame' = [frame EXCEPT ![f] = Over("exhausted")]
      BY <1>3 DEF Redo
    <2>2. ListSame
      BY <2>1, CollectUnseen DEF LeaveDefinition
    <2>3. OthersSame(f) /\ frame'[f] = Over("exhausted")
      BY <1>a, <2>1, OthersStay
    <2> QED  BY <1>2, <1>3, <2>2, <2>3, ExhaustStep
  <1>4. CASE found # {}
    <2> DEFINE c == First(found)
    <2>1. Advance(f, found) /\ UNCHANGED <<list, lifetime>>
      BY <1>4 DEF Redo
    <2>2. /\ c \in found /\ c \in Clauses /\ \A d \in found : pos[c] <= pos[d]
          /\ {d \in found : pos[d] > pos[c]} = found \ {c}
      BY <1>a, <1>1, <1>4, BehindFirst
    <2>3. PICK r \in FrameRecords :
             /\ frame' = [frame EXCEPT ![f] = r]
             /\ r.pc = "running" /\ r.kind = frame[f].kind
             /\ r.gen = frame[f].gen /\ r.key = frame[f].key
             /\ r.clause = First(found)
             /\ r.next = NextRef(First(found), r.gen, r.key, r.kind)
      BY <1>a, <1>1, <1>4, <2>1, AdvanceTo
    <2>4. {d \in seen : d \in From(r.next)} = {d \in seen : pos[d] > pos[c]}
      <3>1. c \in linked /\ (r.kind = "nth" => r.key = NoKey)
        BY <1>a, <1>1, <2>2, <2>3 DEF FramesProper, Proper
      <3> HIDE DEF c
      <3>2. {d \in Candidates(linked, r.gen, r.key) : d \in From(NextRef(c, r.gen, r.key, r.kind))}
              = {d \in Candidates(linked, r.gen, r.key) : pos[d] > pos[c]}
        BY <1>a, <3>1, AlternativeIsRest
      <3> QED  BY <2>3, <3>2 DEF c
    <2>5. {d \in seen : pos[d] > pos[c]} = {d \in found : pos[d] > pos[c]}
      <3>1. seen \subseteq linked /\ \A d \in linked : pos[d] \in Int
        BY <1>a DEF Candidates, TypeOK
      <3>2. fr.next \in linked
        BY <1>a, ViewInvFacts DEF NoDangling
      <3>3. pos[fr.next] <= pos[c] /\ c \in linked
        BY <1>1, <2>2, <3>1, <3>2 DEF From
      <3> HIDE DEF found, seen, c
      <3> QED  BY <1>a, <1>1, <3>1, <3>2, <3>3 DEF From
    <2>6. OthersSame(f) /\ frame'[f] = r
      BY <1>a, <2>3, OthersStay
    <2>7. viewOf(f)' = [status |-> "active",
                        todo |-> {d \in Candidates(linked, r.gen, r.key) : d \in From(r.next)},
                        at |-> r.clause]
      BY <1>a, <2>1, <2>3, <2>6 DEF viewOf, IsOver, Candidates, visibleClause, Matches, From
    <2>8. viewOf(f)' = [status |-> "active", todo |-> found \ {c}, at |-> c]
      BY <2>2, <2>3, <2>4, <2>5, <2>7
    <2>9. ListSame
      BY <2>1 DEF ListSame, IsErased
    <2> HIDE DEF found, c
    <2> QED  BY <1>2, <2>2, <2>6, <2>8, <2>9, VisitStep
  <1> QED  BY <1>3, <1>4

(* Out of clauses, or out by a cut or an exception. *)
LEMMA LeaveRefines ==
    ASSUME ~Preemptive, ViewInv, [Next]_vars, NEW f \in Frames, LeaveLast(f) \/ Cut(f)
    PROVE  View!Next
  <1>a. /\ frame[f].pc \in Inside /\ frame[f].kind # "erase" /\ Undisturbed(f)
        /\ LeaveDefinition
    BY ViewInvFacts DEF LeaveLast, Cut, KindInv, Sound, Inside
  <1>1. ListSame
    BY <1>a, CollectUnseen DEF LeaveDefinition
  <1>2. CASE LeaveLast(f)
    <2>1. frame[f].next = NULL /\ frame' = [frame EXCEPT ![f] = Over("exhausted")]
      BY <1>2 DEF LeaveLast
    <2>2. viewOf(f) = [status |-> "active", todo |-> {}, at |-> frame[f].clause]
      <3>1. From(frame[f].next) = {}
        BY <2>1 DEF From
      <3> QED  BY <1>a, <3>1, ViewInside
    <2>3. OthersSame(f) /\ frame'[f] = Over("exhausted")
      BY <1>a, <2>1, OthersStay
    <2> QED  BY <1>1, <2>2, <2>3, ExhaustStep
  <1>3. CASE Cut(f)
    <2>1. frame' = [frame EXCEPT ![f] = Over("idle")]
      BY <1>3 DEF Cut
    <2>2. OthersSame(f) /\ frame'[f] = Over("idle")
      BY <1>a, <2>1, OthersStay
    <2>3. viewOf(f)' = View!Rest("idle")
      BY <2>2 DEF viewOf, IsOver, Over, View!Rest
    <2> QED  BY <1>1, <2>2, <2>3, AbandonStep
  <1> QED  BY <1>2, <1>3

(* retract/1 and retractall/1: refused, and the test of a clause. *)
LEMMA RetractTestRefines ==
    ASSUME ~Preemptive, ViewInv, [Next]_vars, NEW f \in Frames,
           RetractStatic(f) \/ RetractTest(f)
    PROVE  [View!Next]_View!abstractVars
  <1>a. TypeOK /\ frame[f] \in FrameRecords
    BY ViewInvFacts DEF TypeOK
  <1>b. ListSame /\ Undisturbed(f) /\ UNCHANGED <<list, lifetime>>
    BY DEF RetractStatic, RetractTest, ListSame, IsErased
  <1>1. CASE RetractStatic(f)
    <2>1. frame' = [frame EXCEPT ![f] = Over("idle")]
      BY <1>1 DEF RetractStatic
    <2>2. OthersSame(f) /\ frame'[f] = Over("idle")
      BY <1>b, <2>1, OthersStay
    <2>3. viewOf(f)' = View!Rest("idle")
      BY <2>2 DEF viewOf, IsOver, Over, View!Rest
    <2> QED  BY <1>b, <2>2, <2>3, AbandonStep
  <1>2. CASE RetractTest(f)
    <2> DEFINE pc == IF IsErased(frame[f].clause) THEN "solved" ELSE "retracting"
               r == [frame[f] EXCEPT !.pc = pc]
    <2>1. /\ frame' = [frame EXCEPT ![f].pc = pc] /\ frame[f].pc = "running"
          /\ frame[f].kind # "erase" /\ pc \in {"solved", "retracting"}
      BY <1>2 DEF RetractTest
    <2> HIDE DEF pc
    <2>2. frame' = [frame EXCEPT ![f] = r]
      BY <1>a, <2>1 DEF TypeOK
    <2>3. /\ r.pc = pc /\ r.kind = frame[f].kind /\ r.gen = frame[f].gen
          /\ r.key = frame[f].key /\ r.clause = frame[f].clause /\ r.next = frame[f].next
      BY <1>a DEF FrameRecords
    <2> HIDE DEF r
    <2>4. OthersSame(f) /\ frame'[f] = r
      BY <1>b, <2>2, OthersStay
    <2>5. viewOf(f)' = viewOf(f)
      BY <1>b, <2>1, <2>3, <2>4 DEF viewOf, IsOver, Candidates, visibleClause, Matches, From
    <2> QED  BY <1>b, <2>4, <2>5, HiddenStep
  <1> QED  BY <1>1, <1>2

LEMMA EraseTestRefines ==
    ASSUME ~Preemptive, ViewInv, [Next]_vars, NEW f \in Frames, NEW c \in Clauses,
           EraseTest(f, c)
    PROVE  View!Next
  <1> DEFINE r == [Over("retracting") EXCEPT !.kind = "erase", !.clause = c]
  <1>1. /\ frame' = [frame EXCEPT ![f] = r] /\ Undisturbed(f)
        /\ UNCHANGED <<list, lifetime>>
    BY DEF EraseTest
  <1>2. r.pc = "retracting" /\ r.kind = "erase"
    BY DEF Over
  <1> HIDE DEF r
  <1>3. OthersSame(f) /\ frame'[f] = r
    BY <1>1, OthersStay
  <1>4. ListSame
    BY <1>1 DEF ListSame, IsErased
  <1>5. viewOf(f)' = View!Rest("idle")
    BY <1>2, <1>3 DEF viewOf, View!Rest
  <1> QED  BY <1>3, <1>4, <1>5, AbandonStep

LEMMA RetractLockedRefines ==
    ASSUME ~Preemptive, ViewInv, [Next]_vars, NEW f \in Frames, RetractLocked(f)
    PROVE  View!Next
  <1> DEFINE c == frame[f].clause
             r == IF frame[f].kind = "erase" THEN Over("idle")
                  ELSE [frame[f] EXCEPT !.pc = "solved"]
  <1>a. /\ TypeOK /\ linked \in SUBSET Clauses /\ frame[f] \in FrameRecords
        /\ frame[f].pc = "retracting"
        /\ frame' = [frame EXCEPT ![f] = r] /\ Undisturbed(f)
        /\ IF references # 0 THEN MarkErased(c) ELSE Unlink(c)
        /\ c \in linked /\ ~IsErased(c)
    BY ViewInvFacts DEF RetractLocked, TypeOK, DoomedIsLive
  <1>1. /\ {d \in linked : ~IsErased(d)}' = {d \in linked : ~IsErased(d)} \ {c}
        /\ (linked \cup freed)' = linked \cup freed /\ pos' = pos
    <2>1. CASE references # 0
      <3>1. /\ erased' = [erased EXCEPT ![c] = generation + 1]
            /\ generation + 1 # Infinity /\ UNCHANGED <<linked, freed, pos>>
        BY <1>a, <2>1, ClauseDBAssumption DEF MarkErased, TypeOK
      <3>2. \A d \in linked : erased'[d] # Infinity <=> d = c \/ IsErased(d)
        BY <1>a, <3>1 DEF TypeOK, IsErased
      <3> HIDE DEF c
      <3> QED  BY <3>1, <3>2 DEF IsErased
    <2>2. CASE references = 0
      <3>1. linked' = linked \ {c} /\ freed' = freed \cup {c} /\ UNCHANGED <<erased, pos>>
        BY <1>a, <2>2 DEF Unlink
      <3> QED  BY <1>a, <3>1 DEF IsErased
    <2> QED  BY <2>1, <2>2
  <1>2. OthersSame(f) /\ frame'[f] = r
    BY <1>a, OthersStay
  <1>3. viewOf(f)' = viewOf(f)
    <2>1. CASE frame[f].kind = "erase"
      <3>1. viewOf(f) = View!Rest("idle")
        BY <1>a, <2>1, ViewOver
      <3>2. viewOf(f)' = View!Rest("idle")
        BY <1>2, <2>1 DEF viewOf, IsOver, Over, View!Rest
      <3> QED  BY <3>1, <3>2
    <2>2. CASE frame[f].kind # "erase"
      <3>1. f \in Entered
        BY <1>a, <2>2 DEF Entered, Inside
      <3>2. /\ r.pc = "solved" /\ r.kind = frame[f].kind /\ r.gen = frame[f].gen
            /\ r.key = frame[f].key /\ r.clause = c /\ r.next = frame[f].next
        BY <1>a, <2>2 DEF FrameRecords
      <3>3. references # 0
        <4>1. IsFiniteSet(Entered)
          BY <1>a, EnteredFinite
        <4>2. Cardinality(Entered) # 0
          BY <3>1, <4>1, FS_EmptySet
        <4> QED  BY <4>2, ViewInvFacts DEF ReferencesExact
      <3>4. UNCHANGED list
        BY <1>a, <3>3 DEF MarkErased
      <3>5. frame[f].gen \in Generations /\ frame[f].gen <= generation
        BY <1>a, ViewInvFacts DEF KindInv, Sound, FrameRecords
      <3>6. Candidates(linked, frame[f].gen, frame[f].key)'
              = Candidates(linked, r.gen, r.key)
        <4>1. frame'[f].gen = frame[f].gen /\ frame'[f].key = frame[f].key
          BY <1>2, <3>2
        <4> QED  BY <3>2, <3>4, <3>5, <4>1, SeenStays
      <3> HIDE DEF r, c
      <3>7. viewOf(f)' = [status |-> "active",
                todo |-> {d \in Candidates(linked, frame[f].gen, frame[f].key)' :
                            d \in From(frame[f].next)},
                at |-> c]
        BY <1>a, <1>2, <2>2, <3>2, <3>4 DEF viewOf, IsOver, From
      <3>8. viewOf(f) = [status |-> "active",
                todo |-> {d \in Candidates(linked, frame[f].gen, frame[f].key) :
                            d \in From(frame[f].next)},
                at |-> c]
        BY <1>a, <2>2, ViewInside DEF Inside, c
      <3> QED  BY <3>2, <3>6, <3>7, <3>8
    <2> QED  BY <2>1, <2>2
  <1> HIDE DEF c, r
  <1>4. \A g \in Frames : viewOf(g)' = viewOf(g)
    BY <1>2, <1>3 DEF OthersSame
  <1>5. {c} \in SUBSET linked /\ \A d \in {c} : ~IsErased(d)
    BY <1>a
  <1> QED  BY <1>1, <1>4, <1>5, RemoveStep

-----------------------------------------------------------------------------
LEMMA FrameRefines ==
    ASSUME ~Preemptive, ViewInv, [Next]_vars, NEW f \in Frames, FrameStep(f)
    PROVE  [View!Next]_View!abstractVars
  BY CallRefines, EnterRefines, FetchRefines, NthEnterRefines, RedoRefines, LeaveRefines,
     RetractTestRefines, EraseTestRefines, RetractLockedRefines DEF FrameStep

LEMMA AddRefines ==
    ASSUME ~Preemptive, ViewInv, [Next]_vars, NEW c \in Clauses,
           NEW where \in {"CL_START", "CL_END"}, assertProcedure(c, where)
    PROVE  View!Next
  <1>1. /\ linked' = linked \cup {c} /\ c \notin linked \cup freed /\ Quiet
        /\ UNCHANGED <<freed, erased, frame>>
    BY DEF assertProcedure
  <1>2. ~IsErased(c)
    BY <1>1, ViewInvFacts DEF MarkedKnown
  <1>3. {d \in linked : ~IsErased(d)}' = {d \in linked : ~IsErased(d)} \cup {c}
    BY <1>1, <1>2 DEF IsErased
  <1>4. (linked \cup freed)' = (linked \cup freed) \cup {c}
    BY <1>1
  <1>5. /\ pos' = [pos EXCEPT ![c] = pos'[c]] /\ pos'[c] \in Int
        /\ \/ \A d \in linked : pos'[c] < pos[d]
           \/ \A d \in linked : pos[d] < pos'[c]
    BY AddedAtEnd
  <1>6. \A g \in Frames : viewOf(g)' = viewOf(g)
    BY <1>1, AllStay
  <1>7. View!Add(c)
    BY <1>1, <1>3, <1>4, <1>5, <1>6 DEF View!Add
  <1> QED  BY <1>7 DEF View!Next

LEMMA RemoveRefines ==
    ASSUME ~Preemptive, ViewInv, [Next]_vars, NEW D \in SUBSET linked, NEW k, NEW keep,
           RemoveClauses(D, k, keep)
    PROVE  View!Next
  <1> DEFINE hit == LiveOf(D)
             fl  == IF hit = {} THEN flags ELSE flags \cup {"NEEDSCLAUSEGC"}
             E   == ErasedOf(linked) \cup hit
             n   == erased_clauses + Cardinality(hit)
             gone == IF references = 0 /\ "NEEDSCLAUSEGC" \in fl THEN Reclaimed(E, n) ELSE {}
  <1>a. TypeOK /\ linked \in SUBSET Clauses
    BY ViewInvFacts DEF TypeOK
  <1>1. /\ Quiet /\ generation < MaxGeneration
        /\ erased' = [c \in Clauses |-> IF c \in hit THEN generation + 1 ELSE erased[c]]
        /\ Settle(references, E, n, fl) /\ UNCHANGED <<pos, frame>>
    BY DEF RemoveClauses
  <1>2. linked' = linked \ gone /\ freed' = freed \cup gone
    BY <1>1 DEF Settle
  <1>3. hit \in SUBSET linked /\ \A c \in hit : ~IsErased(c)
    BY DEF LiveOf
  <1>4. gone \subseteq E /\ E \subseteq linked
    BY <1>3 DEF Reclaimed, ErasedOf
  <1> HIDE DEF hit, fl, n, gone
  <1>5. \A c \in linked : erased'[c] # Infinity <=> c \in E
    BY <1>1, <1>a, ClauseDBAssumption DEF TypeOK, ErasedOf, IsErased
  <1>6. {c \in linked : ~IsErased(c)}' = {c \in linked : ~IsErased(c)} \ hit
    BY <1>2, <1>3, <1>4, <1>5 DEF IsErased, ErasedOf
  <1>7. (linked \cup freed)' = linked \cup freed
    BY <1>2, <1>4
  <1>8. \A g \in Frames : viewOf(g)' = viewOf(g)
    BY <1>1, AllStay
  <1> QED  BY <1>1, <1>3, <1>6, <1>7, <1>8, RemoveStep

LEMMA AbortRefines ==
    ASSUME ViewInv, Abort
    PROVE  View!Next
  <1>1. /\ Settle(0, ErasedOf(linked), erased_clauses, flags)
        /\ frame' = [f \in Frames |-> Over("idle")] /\ UNCHANGED <<erased, pos>>
    BY DEF Abort
  <1>2. ListSame
    BY <1>1, CollectUnseen
  <1>3. \A f \in Frames : viewOf(f)' = View!Rest("idle")
    BY <1>1 DEF viewOf, IsOver, Over, View!Rest
  <1>4. View!Abandon(Frames)
    BY <1>2, <1>3 DEF View!Abandon, ListSame
  <1> QED  BY <1>4 DEF View!Next

(* Every goal visits, in order, exactly the clauses that were in the         *)
(* predicate when it was called, whatever is added or removed meanwhile,     *)
(* where no other actor runs within an operation (ChangeLog:1100,            *)
(* "Implemented logical update-view"). *)
THEOREM LogicalUpdateViewHolds ==
    ASSUME ~Preemptive
    PROVE  Spec => LogicalUpdateView
  <1>1. Init => ViewInv
    <2>1. Init => NoDangling /\ CountInv
      BY CountInit DEF Init, NoDangling, Over, Inside
    <2>2. Init => CountsExact
      BY FS_EmptySet DEF Init, CountsExact, ErasedOf
    <2>3. Init => MarkedKnown /\ DoomedIsLive
      BY DEF Init, MarkedKnown, DoomedIsLive, IsErased, Over
    <2>4. Init => PlacesDiffer /\ LifetimesPast
      BY DEF Init, PlacesDiffer, LifetimesPast, IsErased
    <2>5. Init => FramesProper /\ FetchedSeen
      BY DEF Init, FramesProper, Proper, FetchedSeen, Over
    <2> QED  BY <2>1, <2>2, <2>3, <2>4, <2>5 DEF ViewInv, ClauseCountInv, DangleInv
  <1>2. Init => View!Init
    <2> SUFFICES ASSUME Init PROVE View!Init
      OBVIOUS
    <2>1. \A f \in Frames : viewOf(f) = View!Rest("idle")
      BY DEF Init, viewOf, IsOver, Over, View!Rest
    <2> QED  BY <2>1 DEF Init, View!Init
  <1>3. ViewInv /\ [Next]_vars => [View!Next]_View!abstractVars
    <2> SUFFICES ASSUME ViewInv, [Next]_vars PROVE [View!Next]_View!abstractVars
      OBVIOUS
    <2>1. ASSUME NEW f \in Frames, FrameStep(f) PROVE [View!Next]_View!abstractVars
      BY <2>1, FrameRefines
    <2>2. ASSUME UpdateStep PROVE View!Next
      <3>1. \A s \in Sources : {c \in linked : SourceOf[c] = s} \in SUBSET linked
        OBVIOUS
      <3> QED  BY <2>2, <3>1, AddRefines, RemoveRefines DEF UpdateStep, AssertTerm,
                   RecordClause, Abolish, startConsult, startConsultMultifile, Reconsult
    <2>3. CASE Abort
      BY <2>3, AbortRefines
    <2>4. CASE UNCHANGED vars
      <3>1. UNCHANGED <<linked, freed, pos, erased, created, frame>>
        BY <2>4 DEF vars
      <3>2. \A f \in Frames : viewOf(f)' = viewOf(f)
        BY <3>1 DEF viewOf, IsOver, Candidates, visibleClause, Matches, From
      <3> QED  BY <3>1, <3>2 DEF View!abstractVars, IsErased
    <2> QED  BY <2>1, <2>2, <2>3, <2>4 DEF Next
  <1> QED  BY <1>1, <1>2, <1>3, ViewNext, PTL DEF Spec, LogicalUpdateView, View!Spec
=============================================================================
