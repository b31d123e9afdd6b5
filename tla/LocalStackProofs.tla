-------------------------- MODULE LocalStackProofs --------------------------
(***************************************************************************)
(* Theorems about LocalStack, for any predicates and sizes of clauses.     *)
(*                                                                         *)
(* The counts come out right because the stack has a shape: a choice point *)
(* lies above the frame it comes back to, what a newer one or the current  *)
(* frame comes from is, below an older one, what that one comes from, and  *)
(* so a cut or an exception passes exactly the frames that nothing else    *)
(* comes back to.  Shape says so of any frames and choice points; lemmas   *)
(* say what pushing, popping and cutting back keep of it, then what they   *)
(* do to the counts; each step is made of those.                           *)
(***************************************************************************)
EXTENDS LocalStack, FiniteSetTheorems, TLAPS

-----------------------------------------------------------------------------
(* The invariant is about the frames F in use, the choice points C, the      *)
(* current frame f and the frame w that waits at its call port, if any.      *)

Records(F, C) ==
    /\ F \in [DOMAIN F -> FrameRecords] /\ DOMAIN F \subseteq Nat /\ IsFiniteSet(DOMAIN F)
    /\ C \in [DOMAIN C -> [type : ChoiceTypes, frame : Nat]] /\ DOMAIN C \subseteq Nat
    /\ IsFiniteSet(DOMAIN C)

\* A chain goes down through frames in use to the frame of the query, and a
\* frame of a foreign predicate is the last of its chain.
Linked(F) ==
    \A x \in DOMAIN F :
        /\ x \in F[x].chain /\ QueryFrame \in F[x].chain
        /\ \A y \in F[x].chain : y \in DOMAIN F /\ y <= x
        /\ \A y \in F[x].chain : \A z \in DOMAIN F : z \in F[y].chain <=> z \in F[x].chain /\ z <= y
        /\ F[x].parent = NULL => \A z \in F[x].chain : z = x
        /\ F[x].parent # NULL =>
              /\ F[x].parent \in F[x].chain /\ F[x].parent < x
              /\ \A z \in F[x].chain : z = x \/ z \in F[F[x].parent].chain
        /\ F[x].pred \in ForeignPreds => \A y \in DOMAIN F : x \in F[y].chain => y = x

\* Blocks do not overlap.
Apart(F, C) ==
    /\ \A x \in DOMAIN F : x \notin DOMAIN C /\ x < F[x].top
    /\ \A x \in DOMAIN F : \A y \in DOMAIN F \cup DOMAIN C : y > x => y >= F[x].top

\* A choice point is above its frame, and has the type that the predicate
\* of the frame asks for.
Owned(F, C) ==
    /\ \A c \in DOMAIN C :
          /\ C[c].frame \in DOMAIN F
          /\ c # QueryChoice => C[c].frame < c
          /\ C[c].type = "TOP" <=> c = QueryChoice
          /\ C[c].type = "FOREIGN" => F[C[c].frame].pred \in ForeignPreds /\ F[C[c].frame].clause
          /\ C[c].type \notin {"FOREIGN", "TOP"} => F[C[c].frame].pred \notin ForeignPreds
          /\ C[c].type \in {"CLAUSE", "FOREIGN"} =>
                \A y \in DOMAIN F \cup DOMAIN C : y <= C[c].frame \/ c <= y
    /\ QueryChoice \in DOMAIN C /\ C[QueryChoice].frame = QueryFrame

\* What frame f comes from is, below address d, what choice point d comes from.
Nests(F, C, f, d) == \A g \in F[f].chain : g < d => g \in F[C[d].frame].chain
Nested(F, C, f) ==
    /\ \A d \in DOMAIN C : Nests(F, C, f, d)
    /\ \A c, d \in DOMAIN C : d < c => Nests(F, C, C[c].frame, d)

\* Every frame in use can be come to.
InUse(F, C, f, x) == x \in F[f].chain \/ \E c \in DOMAIN C : x \in F[C[c].frame].chain
Whole(F, C, f) == \A x \in DOMAIN F : InUse(F, C, f, x)

\* Every context has its choice point.
Called(F, C, w) ==
    \A x \in DOMAIN F : F[x].pred \in ForeignPreds /\ F[x].clause /\ x # w =>
        \E c \in DOMAIN C : C[c].type = "FOREIGN" /\ C[c].frame = x

Shape(F, C, f, w) ==
    /\ Records(F, C) /\ Linked(F) /\ Apart(F, C) /\ Owned(F, C)
    /\ f \in DOMAIN F /\ Nested(F, C, f) /\ Whole(F, C, f) /\ Called(F, C, w)

\* All of it lies below address t.
Under(F, C, t) ==
    /\ \A x \in DOMAIN F : F[x].top <= t
    /\ \A c \in DOMAIN C : c < t

-----------------------------------------------------------------------------
(* Frames and choice points that nothing needs any more can be taken away.   *)
LEMMA Trimmed ==
    ASSUME NEW F, NEW C, NEW f, NEW w, Shape(F, C, f, w),
           NEW gone, NEW K \in SUBSET DOMAIN C, NEW f1 \in DOMAIN F \ gone, NEW w1,
           QueryChoice \in K,
           \A x \in DOMAIN F \ gone : x \in F[f1].chain \/ \E c \in K : x \in F[C[c].frame].chain,
           \A x \in gone : x \notin F[f1].chain /\ \A c \in K : x \notin F[C[c].frame].chain,
           \A d \in K : Nests(F, C, f1, d),
           \A c \in DOMAIN C \ K : C[c].type = "FOREIGN" => C[c].frame \in gone \/ C[c].frame = w1,
           w \in gone \/ w = w1 \/ w \notin DOMAIN F
    PROVE  Shape(Without(F, gone), Restrict(C, K), f1, w1)
  <1> DEFINE G == Without(F, gone)
             D == Restrict(C, K)
  <1>1. /\ DOMAIN G = DOMAIN F \ gone /\ \A x \in DOMAIN G : G[x] = F[x] /\ x \in DOMAIN F
        /\ DOMAIN D = K /\ \A c \in DOMAIN D : D[c] = C[c] /\ c \in DOMAIN C
        /\ G = [x \in DOMAIN F \ gone |-> F[x]] /\ D = [c \in K |-> C[c]]
    BY DEF Without, Restrict
  <1>2. Records(F, C) /\ Linked(F) /\ Apart(F, C) /\ Owned(F, C)
        /\ Nested(F, C, f) /\ Whole(F, C, f) /\ Called(F, C, w)
    BY DEF Shape
  <1>3. \A c \in K : C[c].frame \in DOMAIN G
    <2> SUFFICES ASSUME NEW c \in K PROVE C[c].frame \in DOMAIN G
      OBVIOUS
    <2>1. C[c].frame \in DOMAIN F /\ C[c].frame \in F[C[c].frame].chain
      BY <1>2 DEF Owned, Linked
    <2> QED  BY <2>1, <1>1
  <1>4. Records(G, D)
    <2>1. G \in [DOMAIN G -> FrameRecords] /\ D \in [DOMAIN D -> [type : ChoiceTypes, frame : Nat]]
      BY <1>1, <1>2 DEF Records
    <2>2. IsFiniteSet(DOMAIN G) /\ IsFiniteSet(DOMAIN D)
      BY <1>1, <1>2, FS_Subset, FS_Difference DEF Records
    <2> QED  BY <2>1, <2>2, <1>1, <1>2 DEF Records
  <1>5. \A x \in DOMAIN G : \A y \in F[x].chain : y \in DOMAIN G
    <2> SUFFICES ASSUME NEW x \in DOMAIN G, NEW y \in F[x].chain PROVE y \in DOMAIN G
      OBVIOUS
    <2>1. y \in DOMAIN F /\ y \in F[y].chain
      BY <1>1, <1>2 DEF Linked
    <2>2. CASE x \in F[f1].chain
      <3>1. y \in F[f1].chain
        BY <2>1, <2>2, <1>2 DEF Linked
      <3> QED  BY <3>1, <2>1, <1>1
    <2>3. ASSUME NEW c \in K, x \in F[C[c].frame].chain PROVE y \in DOMAIN G
      <3>1. y \in F[C[c].frame].chain
        BY <2>1, <2>3, <1>2, <1>3, <1>1 DEF Linked
      <3> QED  BY <3>1, <2>1, <1>1
    <2> QED  BY <2>2, <2>3, <1>1
  <1> HIDE DEF G, D
  <1>6. Linked(G)
    <2> SUFFICES ASSUME NEW x \in DOMAIN G
                 PROVE  /\ x \in F[x].chain /\ QueryFrame \in F[x].chain
                        /\ \A y \in F[x].chain : y \in DOMAIN G /\ y <= x
                        /\ \A y \in F[x].chain : \A z \in DOMAIN G :
                              z \in F[y].chain <=> z \in F[x].chain /\ z <= y
                        /\ F[x].parent = NULL => \A z \in F[x].chain : z = x
                        /\ F[x].parent # NULL =>
                              /\ F[x].parent \in F[x].chain /\ F[x].parent < x
                              /\ \A z \in F[x].chain : z = x \/ z \in F[F[x].parent].chain
                        /\ F[x].pred \in ForeignPreds => \A y \in DOMAIN G : x \in F[y].chain => y = x
      BY <1>1, <1>5 DEF Linked
    <2> QED  BY <1>1, <1>2, <1>5 DEF Linked
  <1>7. Apart(G, D)
    BY <1>1, <1>2 DEF Apart
  <1>8. Owned(G, D)
    BY <1>1, <1>2, <1>3 DEF Owned
  <1>9. Nested(G, D, f1)
    BY <1>1, <1>2, <1>3 DEF Nested, Nests
  <1>10. Whole(G, D, f1)
    BY <1>1, <1>3 DEF Whole, InUse
  <1>11. Called(G, D, w1)
    <2> SUFFICES ASSUME NEW x \in DOMAIN G, F[x].pred \in ForeignPreds, F[x].clause, x # w1
                 PROVE  \E c \in K : C[c].type = "FOREIGN" /\ C[c].frame = x
      BY <1>1 DEF Called
    <2>1. PICK c \in DOMAIN C : C[c].type = "FOREIGN" /\ C[c].frame = x
      BY <1>1, <1>2 DEF Called
    <2> QED  BY <2>1, <1>1
  <1> QED  BY <1>1, <1>4, <1>6, <1>7, <1>8, <1>9, <1>10, <1>11 DEF Shape, G, D

(* A frame is put on top.                                                    *)
LEMMA FramePushed ==
    ASSUME NEW F, NEW C, NEW f, NEW a \in Nat, Shape(F, C, f, NULL), Under(F, C, a),
           F[f].pred \notin ForeignPreds,
           NEW r \in FrameRecords, r.parent = f, r.chain = F[f].chain \cup {a}, r.top > a,
           NEW w, r.pred \in ForeignPreds => ~r.clause
    PROVE  /\ Shape(With(F, a, r), C, a, w) /\ Under(With(F, a, r), C, r.top)
           /\ a \notin DOMAIN F
  <1> DEFINE G == With(F, a, r)
  <1>1. Records(F, C) /\ Linked(F) /\ Apart(F, C) /\ Owned(F, C) /\ f \in DOMAIN F
        /\ Nested(F, C, f) /\ Whole(F, C, f) /\ Called(F, C, NULL)
    BY DEF Shape
  <1>2. /\ \A x \in DOMAIN F : x \in Nat /\ F[x] \in FrameRecords /\ x < a /\ F[x].top \in Nat
        /\ \A c \in DOMAIN C : c \in Nat /\ c < a
    BY <1>1 DEF Records, Under, Apart, FrameRecords
  <1>3. a \notin DOMAIN F /\ a \notin DOMAIN C /\ NULL \notin DOMAIN F /\ f < a /\ r.top \in Nat
        /\ r.chain \subseteq Nat
    BY <1>1, <1>2 DEF Linked, FrameRecords, NULL, QueryFrame
  <1>4. /\ DOMAIN G = DOMAIN F \cup {a} /\ G[a] = r /\ \A x \in DOMAIN F : G[x] = F[x]
        /\ G = [x \in DOMAIN F \cup {a} |-> IF x = a THEN r ELSE F[x]]
    BY <1>3 DEF With
  <1>5. \A x \in DOMAIN F : a \notin F[x].chain
    BY <1>1, <1>3 DEF Linked
  <1>6. \A c \in DOMAIN C : C[c].frame \in DOMAIN F /\ G[C[c].frame] = F[C[c].frame]
    BY <1>1, <1>4 DEF Owned
  <1>7. Records(G, C)
    <2>1. G \in [DOMAIN G -> FrameRecords]
      BY <1>2, <1>4
    <2>2. IsFiniteSet(DOMAIN G)
      BY <1>1, <1>4, FS_AddElement DEF Records
    <2> QED  BY <2>1, <2>2, <1>1, <1>4 DEF Records
  <1> HIDE DEF G
  <1>8. Linked(G)
    <2>1. ASSUME NEW x \in DOMAIN F
          PROVE  /\ x \in F[x].chain /\ QueryFrame \in F[x].chain
                 /\ \A y \in F[x].chain : y \in DOMAIN F /\ y <= x
                 /\ \A y \in F[x].chain : \A z \in DOMAIN G :
                        z \in F[y].chain <=> z \in F[x].chain /\ z <= y
                 /\ F[x].parent = NULL => \A z \in F[x].chain : z = x
                 /\ F[x].parent # NULL =>
                        /\ F[x].parent \in F[x].chain /\ F[x].parent < x
                        /\ \A z \in F[x].chain : z = x \/ z \in F[F[x].parent].chain
      <3>1. \A y \in F[x].chain : y \in DOMAIN F
        BY <1>1 DEF Linked
      <3> QED  BY <3>1, <1>1, <1>4, <1>5 DEF Linked
    <2>2. /\ a \in r.chain /\ QueryFrame \in r.chain
          /\ \A y \in r.chain : y \in DOMAIN G /\ y <= a
          /\ f \in r.chain /\ f < a /\ f # NULL
          /\ \A z \in r.chain : z = a \/ z \in F[f].chain
      BY <1>1, <1>2, <1>3, <1>4 DEF Linked
    <2>3. ASSUME NEW y \in r.chain, NEW z \in DOMAIN G
          PROVE  z \in G[y].chain <=> z \in r.chain /\ z <= y
      <3>1. CASE y = a
        BY <3>1, <2>2, <1>4
      <3>2. CASE y # a
        <4>1. y \in F[f].chain /\ y \in DOMAIN F /\ y < a
          BY <3>2, <1>1, <1>2 DEF Linked
        <4>2. z = a => z \notin G[y].chain /\ ~(z <= y)
          BY <4>1, <1>2, <1>4, <1>5
        <4>3. z # a => z \in DOMAIN F /\ (z \in r.chain <=> z \in F[f].chain)
          BY <1>4
        <4> QED  BY <4>1, <4>2, <4>3, <1>1, <1>4 DEF Linked
      <3> QED  BY <3>1, <3>2
    <2>4. ASSUME NEW x \in DOMAIN G, G[x].pred \in ForeignPreds, NEW y \in DOMAIN G, x \in G[y].chain
          PROVE  y = x
      <3>1. CASE y = a
        <4>1. CASE x \in F[f].chain
          BY <4>1, <3>1, <2>4, <1>1, <1>4, <1>3 DEF Linked
        <4> QED  BY <4>1, <3>1, <2>4, <1>4
      <3>2. CASE y # a
        BY <3>2, <2>4, <1>1, <1>4, <1>5 DEF Linked
      <3> QED  BY <3>1, <3>2
    <2>5. \A x \in DOMAIN F : F[x].parent # NULL => F[x].parent \in DOMAIN F
      BY <2>1
    <2>6. ASSUME NEW x \in DOMAIN G, x = a
          PROVE  /\ x \in G[x].chain /\ QueryFrame \in G[x].chain
                 /\ \A y \in G[x].chain : y \in DOMAIN G /\ y <= x
                 /\ \A y \in G[x].chain : \A z \in DOMAIN G :
                        z \in G[y].chain <=> z \in G[x].chain /\ z <= y
                 /\ G[x].parent # NULL /\ G[x].parent \in G[x].chain /\ G[x].parent < x
                 /\ \A z \in G[x].chain : z = x \/ z \in G[G[x].parent].chain
      BY <2>2, <2>3, <2>6, <1>1, <1>4
    <2>7. ASSUME NEW x \in DOMAIN F
          PROVE  /\ x \in G[x].chain /\ QueryFrame \in G[x].chain
                 /\ \A y \in G[x].chain : y \in DOMAIN G /\ y <= x
                 /\ \A y \in G[x].chain : \A z \in DOMAIN G :
                        z \in G[y].chain <=> z \in G[x].chain /\ z <= y
                 /\ G[x].parent = NULL => \A z \in G[x].chain : z = x
                 /\ G[x].parent # NULL =>
                        /\ G[x].parent \in G[x].chain /\ G[x].parent < x
                        /\ \A z \in G[x].chain : z = x \/ z \in G[G[x].parent].chain
      <3>1. G[x] = F[x]
        BY <1>4
      <3>2. \A y \in F[x].chain : y \in DOMAIN F /\ y \in DOMAIN G /\ G[y] = F[y]
        BY <2>1, <1>4
      <3> QED  BY <2>1, <3>1, <3>2
    <2> QED  BY <2>4, <2>6, <2>7, <1>4 DEF Linked
  <1>9. Apart(G, C)
    BY <1>1, <1>2, <1>3, <1>4 DEF Apart, Under
  <1>10. Owned(G, C)
    <2>1. \A c \in DOMAIN C : \A y \in DOMAIN G \cup DOMAIN C : y = a => c <= y
      BY <1>2
    <2> QED  BY <2>1, <1>1, <1>4, <1>6 DEF Owned
  <1>11. Nested(G, C, a)
    <2>1. ASSUME NEW d \in DOMAIN C, NEW g \in r.chain, g < d
          PROVE  g \in F[C[d].frame].chain
      <3>1. g \in F[f].chain
        BY <2>1, <1>2
      <3> QED  BY <2>1, <3>1, <1>1 DEF Nested, Nests
    <2>2. \A c, d \in DOMAIN C : d < c => Nests(G, C, C[c].frame, d)
      BY <1>1, <1>4, <1>6 DEF Nested, Nests
    <2> QED  BY <2>1, <2>2, <1>4, <1>6 DEF Nested, Nests
  <1>12. Whole(G, C, a)
    BY <1>1, <1>4, <1>6 DEF Whole, InUse
  <1>13. Called(G, C, w)
    BY <1>1, <1>3, <1>4 DEF Called
  <1>14. Under(G, C, r.top)
    BY <1>2, <1>3, <1>4 DEF Under
  <1> QED  BY <1>3, <1>4, <1>7, <1>8, <1>9, <1>10, <1>11, <1>12, <1>13, <1>14 DEF Shape, G

(* A choice point of the current frame is put on top.                        *)
LEMMA ChoicePushed ==
    ASSUME NEW F, NEW C, NEW f, NEW w, NEW a \in Nat, Shape(F, C, f, w), Under(F, C, a),
           NEW type \in ChoiceTypes \ {"TOP"},
           type = "FOREIGN" => F[f].pred \in ForeignPreds /\ F[f].clause,
           type # "FOREIGN" => F[f].pred \notin ForeignPreds,
           type \in {"CLAUSE", "FOREIGN"} => \A y \in DOMAIN F \cup DOMAIN C : y <= f,
           NEW w1, w1 = w \/ (w = f /\ type = "FOREIGN")
    PROVE  /\ Shape(F, With(C, a, NewChoice(type, f)), f, w1)
           /\ Under(F, With(C, a, NewChoice(type, f)), a + 1)
           /\ a \notin DOMAIN C
  <1> DEFINE r == NewChoice(type, f)
             D == With(C, a, r)
  <1>1. Records(F, C) /\ Linked(F) /\ Apart(F, C) /\ Owned(F, C) /\ f \in DOMAIN F
        /\ Nested(F, C, f) /\ Whole(F, C, f) /\ Called(F, C, w)
    BY DEF Shape
  <1>2. /\ \A x \in DOMAIN F : x \in Nat /\ F[x] \in FrameRecords /\ x < a /\ F[x].top \in Nat
        /\ \A c \in DOMAIN C : c \in Nat /\ c < a
    BY <1>1 DEF Records, Under, Apart, FrameRecords
  <1>3. a \notin DOMAIN F /\ a \notin DOMAIN C /\ QueryChoice # a
        /\ r.type = type /\ r.frame = f /\ r \in [type : ChoiceTypes, frame : Nat]
    BY <1>1, <1>2 DEF Owned, NewChoice
  <1>4. /\ DOMAIN D = DOMAIN C \cup {a} /\ D[a] = r /\ \A c \in DOMAIN C : D[c] = C[c]
        /\ D = [c \in DOMAIN C \cup {a} |-> IF c = a THEN r ELSE C[c]]
    BY <1>3 DEF With
  <1> HIDE DEF r
  <1>5. Records(F, D)
    <2>1. D \in [DOMAIN D -> [type : ChoiceTypes, frame : Nat]]
      BY <1>1, <1>3, <1>4 DEF Records
    <2>2. IsFiniteSet(DOMAIN D)
      BY <1>1, <1>4, FS_AddElement DEF Records
    <2> QED  BY <2>1, <2>2, <1>1, <1>4 DEF Records
  <1> HIDE DEF D
  <1>6. Apart(F, D)
    BY <1>1, <1>2, <1>3, <1>4 DEF Apart, Under
  <1>7. Owned(F, D)
    <2>1. \A c \in DOMAIN C :
             /\ C[c].frame \in DOMAIN F
             /\ c # QueryChoice => C[c].frame < c
             /\ C[c].type = "TOP" <=> c = QueryChoice
             /\ C[c].type = "FOREIGN" => F[C[c].frame].pred \in ForeignPreds /\ F[C[c].frame].clause
             /\ C[c].type \notin {"FOREIGN", "TOP"} => F[C[c].frame].pred \notin ForeignPreds
             /\ C[c].type \in {"CLAUSE", "FOREIGN"} =>
                   \A y \in DOMAIN F \cup DOMAIN D : y <= C[c].frame \/ c <= y
      BY <1>1, <1>2, <1>4 DEF Owned
    <2>2. /\ f \in DOMAIN F /\ f < a /\ type # "TOP"
          /\ type \in {"CLAUSE", "FOREIGN"} => \A y \in DOMAIN F \cup DOMAIN D : y <= f \/ a <= y
      BY <1>1, <1>2, <1>4
    <2> QED  BY <2>1, <2>2, <1>1, <1>3, <1>4 DEF Owned
  <1>8. Nested(F, D, f)
    <2>1. \A d \in DOMAIN D : Nests(F, D, f, d)
      BY <1>1, <1>3, <1>4 DEF Nested, Nests
    <2>2. \A c, d \in DOMAIN D : d < c => Nests(F, D, D[c].frame, d)
      <3> SUFFICES ASSUME NEW c \in DOMAIN D, NEW d \in DOMAIN D, d < c
                   PROVE  Nests(F, D, D[c].frame, d)
        OBVIOUS
      <3>1. d \in DOMAIN C /\ d # a
        BY <1>2, <1>4
      <3>2. CASE c = a
        BY <3>1, <3>2, <2>1, <1>3, <1>4
      <3>3. CASE c # a
        BY <3>1, <3>3, <1>1, <1>4 DEF Nested, Nests
      <3> QED  BY <3>2, <3>3
    <2> QED  BY <2>1, <2>2 DEF Nested
  <1>9. Whole(F, D, f)
    BY <1>1, <1>4 DEF Whole, InUse
  <1>10. Called(F, D, w1)
    BY <1>1, <1>3, <1>4 DEF Called
  <1>11. Under(F, D, a + 1)
    BY <1>1, <1>2, <1>4 DEF Under
  <1> QED  BY <1>1, <1>3, <1>5, <1>6, <1>7, <1>8, <1>9, <1>10, <1>11 DEF Shape, D, r

(* The newest frame gets another predicate, clause or size.                  *)
LEMMA FrameChanged ==
    ASSUME NEW F, NEW C, NEW f, NEW w, Shape(F, C, f, w),
           \A y \in DOMAIN F \cup DOMAIN C : y <= f,
           NEW r \in FrameRecords, r.parent = F[f].parent, r.chain = F[f].chain, r.top > f,
           NEW w1, w \in {f, w1} \/ w \notin DOMAIN F,
           r.pred \in ForeignPreds /\ r.clause => w1 = f
    PROVE  /\ Shape([F EXCEPT ![f] = r], C, f, w1) /\ Under([F EXCEPT ![f] = r], C, r.top)
           /\ \A c \in DOMAIN C : c < f
  <1> DEFINE G == [F EXCEPT ![f] = r]
  <1>1. Records(F, C) /\ Linked(F) /\ Apart(F, C) /\ Owned(F, C) /\ f \in DOMAIN F
        /\ Nested(F, C, f) /\ Whole(F, C, f) /\ Called(F, C, w)
    BY DEF Shape
  <1>2. /\ \A x \in DOMAIN F : x \in Nat /\ F[x] \in FrameRecords /\ F[x].top \in Nat /\ x <= f
        /\ \A c \in DOMAIN C : c \in Nat /\ c < f
        /\ r.top \in Nat /\ f \in Nat
    <2>1. /\ \A x \in DOMAIN F : x \in Nat /\ F[x] \in FrameRecords
          /\ \A c \in DOMAIN C : c \in Nat /\ c # f
      BY <1>1 DEF Records, Apart
    <2> QED  BY <2>1, <1>1 DEF FrameRecords
  <1>3. /\ DOMAIN G = DOMAIN F /\ G[f] = r /\ \A x \in DOMAIN F : x # f => G[x] = F[x]
        /\ \A x \in DOMAIN F : G[x].chain = F[x].chain /\ G[x].parent = F[x].parent
        /\ G \in [DOMAIN G -> FrameRecords]
    BY <1>1, <1>2
  <1>4. \A c \in DOMAIN C :
            /\ C[c].frame \in DOMAIN F /\ (C[c].frame = f => c = QueryChoice)
            /\ G[C[c].frame].chain = F[C[c].frame].chain
    BY <1>1, <1>2, <1>3 DEF Owned
  <1> HIDE DEF G
  <1>5. Records(G, C)
    BY <1>1, <1>3 DEF Records
  <1>6. Linked(G)
    <2>1. \A x \in DOMAIN F :
            /\ x \in F[x].chain /\ QueryFrame \in F[x].chain
            /\ \A y \in F[x].chain : y \in DOMAIN F /\ y <= x
            /\ \A y \in F[x].chain : \A z \in DOMAIN F : z \in F[y].chain <=> z \in F[x].chain /\ z <= y
            /\ F[x].parent = NULL => \A z \in F[x].chain : z = x
            /\ F[x].parent # NULL =>
                  /\ F[x].parent \in F[x].chain /\ F[x].parent < x
                  /\ \A z \in F[x].chain : z = x \/ z \in F[F[x].parent].chain
      BY <1>1 DEF Linked
    <2>2. ASSUME NEW x \in DOMAIN G, G[x].pred \in ForeignPreds, NEW y \in DOMAIN G, x \in G[y].chain
          PROVE  y = x
      <3>1. CASE x = f
        <4>1. x <= y /\ y <= f
          BY <3>1, <2>1, <2>2, <1>2, <1>3
        <4> QED  BY <4>1, <3>1, <1>2, <1>3
      <3>2. CASE x # f
        BY <3>2, <2>2, <1>1, <1>3 DEF Linked
      <3> QED  BY <3>1, <3>2
    <2>3. \A x \in DOMAIN F : F[x].parent # NULL => F[x].parent \in DOMAIN F
      BY <2>1
    <2> QED  BY <2>1, <2>2, <2>3, <1>3 DEF Linked
  <1>7. Apart(G, C)
    BY <1>1, <1>2, <1>3 DEF Apart
  <1>8. Owned(G, C)
    BY <1>1, <1>2, <1>3, <1>4 DEF Owned
  <1>9. Nested(G, C, f)
    BY <1>1, <1>3, <1>4 DEF Nested, Nests
  <1>10. Whole(G, C, f)
    BY <1>1, <1>3, <1>4 DEF Whole, InUse
  <1>11. Called(G, C, w1)
    <2> SUFFICES ASSUME NEW x \in DOMAIN F, G[x].pred \in ForeignPreds, G[x].clause, x # w1
                 PROVE  \E c \in DOMAIN C : C[c].type = "FOREIGN" /\ C[c].frame = x
      BY <1>3 DEF Called
    <2>1. x # f
      BY <1>3
    <2>2. x # w
      BY <2>1
    <2> QED  BY <2>1, <2>2, <1>1, <1>3 DEF Called
  <1>12. Under(G, C, r.top)
    <2>1. \A x \in DOMAIN F : x # f => F[x].top <= f
      BY <1>1, <1>2 DEF Apart
    <2>2. \A x \in DOMAIN F : x # f => F[x].top <= r.top
      BY <2>1, <1>2
    <2>3. \A c \in DOMAIN C : c < r.top
      BY <1>2
    <2> QED  BY <2>2, <2>3, <1>2, <1>3 DEF Under
  <1> QED  BY <1>1, <1>2, <1>3, <1>5, <1>6, <1>7, <1>8, <1>9, <1>10, <1>11, <1>12 DEF Shape, G

-----------------------------------------------------------------------------
(* Addresses, and the current frame and choice points in terms of them.      *)
Addressed(F, C) ==
    /\ \A x \in DOMAIN F :
           /\ x \in Nat /\ x >= 2 /\ F[x] \in FrameRecords
           /\ F[x].top \in Nat /\ x < F[x].top
           /\ x \in F[x].chain /\ F[x].chain \subseteq DOMAIN F
           /\ \A y \in F[x].chain : y <= x
    /\ \A c \in DOMAIN C :
           /\ c \in Nat /\ c \notin DOMAIN F /\ C[c].frame \in DOMAIN F
           /\ c # 1 => C[c].frame < c
           /\ c > 2 \/ c = 1
    /\ 2 \in DOMAIN F /\ 1 \in DOMAIN C /\ C[1].frame = 2 /\ 0 \notin DOMAIN F
    /\ C = [c \in DOMAIN C |-> C[c]] /\ F = [x \in DOMAIN F |-> F[x]]

(* A sound stack has the addresses it should.                                *)
LEMMA Addresses ==
    ASSUME NEW F, NEW C, NEW f, NEW w, Shape(F, C, f, w)
    PROVE  Addressed(F, C) /\ f \in DOMAIN F
  <1> USE DEF QueryFrame, QueryChoice, NULL
  <1>1. Records(F, C) /\ Linked(F) /\ Apart(F, C) /\ Owned(F, C) /\ f \in DOMAIN F
    BY DEF Shape
  <1>2. \A x \in DOMAIN F :
            /\ x \in Nat /\ F[x] \in FrameRecords /\ x < F[x].top
            /\ x \in F[x].chain /\ F[x].chain \subseteq DOMAIN F
            /\ QueryFrame \in DOMAIN F /\ x >= 2
            /\ \A y \in F[x].chain : y <= x
    BY <1>1 DEF Records, Linked, Apart
  <1>3. \A x \in DOMAIN F : F[x].top \in Nat /\ x # 0
    BY <1>2 DEF FrameRecords
  <1>4. \A c \in DOMAIN C :
            /\ c \in Nat /\ c \notin DOMAIN F /\ C[c].frame \in DOMAIN F
            /\ c # 1 => C[c].frame < c
    BY <1>1 DEF Records, Apart, Owned
  <1>5. \A c \in DOMAIN C : c > 2 \/ c = 1
    <2> SUFFICES ASSUME NEW c \in DOMAIN C, c # 1 PROVE c > 2
      OBVIOUS
    <2>1. C[c].frame \in DOMAIN F /\ C[c].frame < c /\ c \in Nat
      BY <1>4
    <2>2. C[c].frame \in Nat /\ C[c].frame >= 2
      BY <2>1, <1>2
    <2> QED  BY <2>1, <2>2
  <1>6. 1 \in DOMAIN C /\ C = [c \in DOMAIN C |-> C[c]] /\ F = [x \in DOMAIN F |-> F[x]] /\ C[1].frame = 2
    BY <1>1 DEF Records, Owned
  <1> QED  BY <1>1, <1>2, <1>3, <1>4, <1>5, <1>6 DEF Addressed

(* Frame f is left for its parent when no choice point is above it.          *)
LEMMA Left ==
    ASSUME NEW F, NEW C, NEW f, NEW w, Shape(F, C, f, w), w \in {f, NULL},
           \A c \in DOMAIN C : c < f, F[f].parent # NULL
    PROVE  /\ Shape(Without(F, {f}), C, F[f].parent, NULL) /\ Under(Without(F, {f}), C, f)
           /\ F[f].parent \in DOMAIN F \ {f} /\ F[F[f].parent].pred \notin ForeignPreds
  <1> DEFINE p == F[f].parent
  <1>a. Addressed(F, C)
    BY Addresses
  <1> USE DEF QueryFrame, QueryChoice, NULL
  <1>1. Linked(F) /\ Apart(F, C) /\ Owned(F, C) /\ f \in DOMAIN F /\ Nested(F, C, f) /\ Whole(F, C, f)
    BY DEF Shape
  <1>2. /\ p \in F[f].chain /\ p < f /\ p \in DOMAIN F /\ p # f
        /\ \A z \in F[f].chain : z = f \/ z \in F[p].chain
        /\ f \notin F[p].chain /\ F[p].pred \notin ForeignPreds
    BY <1>1, <1>a DEF Addressed, Linked
  <1>3. \A c \in DOMAIN C : f \notin F[C[c].frame].chain
    <2>1. \A c \in DOMAIN C : C[c].frame < f
      BY <1>1, <1>2, <1>a DEF Addressed, Owned
    <2> QED  BY <2>1, <1>1, <1>a DEF Addressed, Linked
  <1>4. \A x \in DOMAIN F \ {f} :
           x \in F[p].chain \/ \E c \in DOMAIN C : x \in F[C[c].frame].chain
    BY <1>1, <1>2 DEF Whole, InUse
  <1>5. \A d \in DOMAIN C : Nests(F, C, p, d)
    <2>1. \A z \in F[p].chain : z \in F[f].chain
      BY <1>1, <1>2, <1>a DEF Addressed, Linked
    <2> QED  BY <2>1, <1>1 DEF Nested, Nests
  <1>6. Shape(Without(F, {f}), Restrict(C, DOMAIN C), p, NULL)
    <2>1. w \in {f} \/ w = NULL
      OBVIOUS
    <2>2. QueryChoice \in DOMAIN C
      BY <1>a DEF Addressed
    <2> HIDE DEF p
    <2> QED  BY <2>1, <2>2, <1>2, <1>3, <1>4, <1>5, Trimmed
  <1>7. Restrict(C, DOMAIN C) = C
    BY <1>a DEF Addressed, Restrict
  <1>8. Under(Without(F, {f}), C, f)
    <2>1. \A x \in DOMAIN F \ {f} : x < f
      <3> SUFFICES ASSUME NEW x \in DOMAIN F, x # f PROVE x < f
        OBVIOUS
      <3>1. CASE x \in F[f].chain
        BY <3>1, <1>a, <1>1 DEF Addressed
      <3>2. ASSUME NEW c \in DOMAIN C, x \in F[C[c].frame].chain PROVE x < f
        <4>1. C[c].frame < f /\ C[c].frame \in DOMAIN F
          BY <1>1, <1>2, <1>a DEF Addressed, Owned
        <4> QED  BY <4>1, <3>2, <1>1, <1>a DEF Addressed
      <3> QED  BY <3>1, <3>2, <1>1 DEF Whole, InUse
    <2>2. \A x \in DOMAIN F \ {f} : F[x].top <= f
      BY <2>1, <1>1 DEF Apart
    <2> QED  BY <2>2 DEF Under, Without, Restrict
  <1> QED  BY <1>2, <1>6, <1>7, <1>8

(* Frame f is kept for a choice point above it.                              *)
LEMMA Kept ==
    ASSUME NEW F, NEW C, NEW f, Shape(F, C, f, NULL),
           \E c \in DOMAIN C : c > f, F[f].parent # NULL
    PROVE  /\ Shape(F, C, F[f].parent, NULL)
           /\ F[f].parent \in DOMAIN F /\ F[F[f].parent].pred \notin ForeignPreds
  <1> DEFINE p == F[f].parent
  <1>a. Addressed(F, C)
    BY Addresses
  <1> USE DEF QueryFrame, QueryChoice, NULL
  <1>1. Linked(F) /\ Owned(F, C) /\ f \in DOMAIN F /\ Nested(F, C, f) /\ Whole(F, C, f)
    BY DEF Shape
  <1>2. /\ p \in F[f].chain /\ p < f /\ p \in DOMAIN F /\ p # f
        /\ \A z \in F[f].chain : z = f \/ z \in F[p].chain
        /\ F[p].pred \notin ForeignPreds
    BY <1>1, <1>a DEF Addressed, Linked
  <1>3. PICK c \in DOMAIN C : c > f
    OBVIOUS
  <1>4. f \in F[C[c].frame].chain
    BY <1>1, <1>3, <1>a DEF Addressed, Nested, Nests
  <1>5. Whole(F, C, p)
    BY <1>1, <1>2, <1>4 DEF Whole, InUse
  <1>6. \A z \in F[p].chain : z \in F[f].chain
    BY <1>1, <1>2, <1>a DEF Addressed, Linked
  <1>7. Nested(F, C, p)
    BY <1>1, <1>6 DEF Nested, Nests
  <1> QED  BY <1>2, <1>5, <1>7 DEF Shape

\* gone are the frames above keep that discarding f and the choice points cut
\* above address after passes
Passed(F, C, f, after, keep, gone, cut) ==
    /\ \A g : g \in gone <=> /\ g > keep
                             /\ \/ g \in F[f].chain
                                \/ \E c \in DOMAIN C : c > after /\ g \in F[C[c].frame].chain
    /\ cut = {c \in DOMAIN C : c > after}
\* gone are the frames above b that backtracking to choice point b passes
PassedBack(F, f, b, gone) == \A g : g \in gone <=> g \in F[f].chain /\ g > b
Newest(C, b) == \A c \in DOMAIN C : ~(c > b)

(* The frames above the newest choice point are left, and it is taken.       *)
LEMMA Resumed ==
    ASSUME NEW F, NEW C, NEW f, Shape(F, C, f, NULL),
           NEW b \in DOMAIN C, b # QueryChoice, Newest(C, b),
           NEW gone, PassedBack(F, f, b, gone),
           NEW w, C[b].type = "FOREIGN" => w = C[b].frame, C[b].type # "FOREIGN" => w = NULL
    PROVE  /\ Shape(Without(F, gone), Without(C, {b}), C[b].frame, w)
           /\ Under(Without(F, gone), Without(C, {b}), b)
           /\ C[b].frame \in DOMAIN F \ gone
           /\ C[b].type \in {"CLAUSE", "FOREIGN"} =>
                 \A y \in DOMAIN Without(F, gone) \cup DOMAIN Without(C, {b}) : y <= C[b].frame
  <1> USE DEF PassedBack, Newest
  <1> DEFINE e == C[b].frame
             K == DOMAIN C \ {b}
  <1>a. Addressed(F, C)
    BY Addresses
  <1> USE DEF QueryFrame, QueryChoice, NULL
  <1>1. Records(F, C) /\ Linked(F) /\ Apart(F, C) /\ Owned(F, C) /\ f \in DOMAIN F
        /\ Nested(F, C, f) /\ Whole(F, C, f)
    BY DEF Shape
  <1>2. e \in DOMAIN F /\ e < b /\ b \in Nat /\ e \in Nat /\ e \notin gone
        /\ QueryChoice \in K
    BY <1>a DEF Addressed
  <1>3. \A c \in DOMAIN C : \A x \in F[C[c].frame].chain : x < b
    <2> SUFFICES ASSUME NEW c \in DOMAIN C, NEW x \in F[C[c].frame].chain PROVE x < b
      OBVIOUS
    <2>1. C[c].frame <= b /\ C[c].frame \in DOMAIN F /\ C[c].frame # b
      <3>1. c <= b /\ c \in Nat
        BY <1>a DEF Addressed
      <3>2. CASE c = QueryChoice
        <4>1. C[c].frame = QueryFrame /\ b > QueryFrame
          BY <3>2, <1>1, <1>a DEF Addressed, Owned
        <4> QED  BY <4>1, <1>2, <1>a DEF Addressed
      <3>3. CASE c # QueryChoice
        BY <3>1, <3>3, <1>a DEF Addressed
      <3> QED  BY <3>2, <3>3
    <2>2. x <= C[c].frame /\ x \in Nat /\ C[c].frame \in Nat
      BY <2>1, <1>a DEF Addressed
    <2> QED  BY <2>1, <2>2, <1>2
  <1>4. \A x \in DOMAIN F \ gone : x < b /\
           (x \in F[e].chain \/ \E c \in K : x \in F[C[c].frame].chain)
    <2> SUFFICES ASSUME NEW x \in DOMAIN F \ gone
                 PROVE  x < b /\ (x \in F[e].chain \/ \E c \in K : x \in F[C[c].frame].chain)
      OBVIOUS
    <2>1. CASE x \in F[f].chain
      <3>1. x < b
        BY <2>1, <1>2, <1>a DEF Addressed
      <3> QED  BY <2>1, <3>1, <1>1 DEF Nested, Nests
    <2>2. ASSUME NEW c \in DOMAIN C, x \in F[C[c].frame].chain
          PROVE  x \in F[e].chain \/ \E d \in K : x \in F[C[d].frame].chain
      BY <2>2
    <2> QED  BY <2>1, <2>2, <1>1, <1>3 DEF Whole, InUse
  <1>5. \A x \in gone : x \notin F[e].chain /\ \A c \in K : x \notin F[C[c].frame].chain
    <2> SUFFICES ASSUME NEW x \in gone, NEW c \in DOMAIN C, x \in F[C[c].frame].chain PROVE FALSE
      OBVIOUS
    <2>1. x < b /\ x > b /\ x \in Nat
      BY <1>1, <1>3, <1>a DEF Addressed
    <2> QED  BY <2>1, <1>2
  <1>6. \A d \in K : Nests(F, C, e, d)
    <2>1. \A d \in K : d < b
      BY <1>2, <1>a DEF Addressed
    <2> QED  BY <2>1, <1>1 DEF Nested
  <1>7. Shape(Without(F, gone), Restrict(C, K), e, w)
    <2>1. \A c \in DOMAIN C \ K : C[c].type = "FOREIGN" => C[c].frame \in gone \/ C[c].frame = w
      OBVIOUS
    <2>2. NULL \notin DOMAIN F
      BY <1>a DEF Addressed
    <2> HIDE DEF e, K
    <2>3. K \in SUBSET DOMAIN C
      BY DEF K
    <2> QED  BY <2>1, <2>2, <2>3, <1>2, <1>4, <1>5, <1>6, Trimmed
  <1>8. Restrict(C, K) = Without(C, {b})
    BY DEF Without
  <1>9. Under(Without(F, gone), Without(C, {b}), b)
    <2>1. \A x \in DOMAIN F \ gone : F[x].top <= b
      BY <1>1, <1>4, <1>2, <1>a DEF Addressed, Apart
    <2>2. \A d \in K : d < b
      BY <1>2, <1>a DEF Addressed
    <2> QED  BY <2>1, <2>2 DEF Under, Without, Restrict
  <1>10. ASSUME C[b].type \in {"CLAUSE", "FOREIGN"}, NEW y \in DOMAIN F \cup DOMAIN C, y < b
         PROVE  y <= e
    <2>1. y <= e \/ b <= y
      BY <1>1, <1>10 DEF Owned
    <2> QED  BY <2>1, <1>10, <1>2, <1>a DEF Addressed
  <1>11. ASSUME C[b].type \in {"CLAUSE", "FOREIGN"},
                NEW y \in DOMAIN Without(F, gone) \cup DOMAIN Without(C, {b})
         PROVE  y <= e
    <2>1. y \in DOMAIN F \cup DOMAIN C /\ y < b
      <3>1. CASE y \in DOMAIN F \ gone
        BY <3>1, <1>4
      <3>2. CASE y \in DOMAIN C \ {b}
        BY <3>2, <1>2, <1>a DEF Addressed
      <3> QED  BY <3>1, <3>2 DEF Without, Restrict
    <2> QED  BY <2>1, <1>10, <1>11
  <1> QED  BY <1>2, <1>7, <1>8, <1>9, <1>11

(* What is above frame k of the chain is cut: k becomes the current frame.    *)
LEMMA Unwound ==
    ASSUME NEW F, NEW C, NEW f, NEW w, Shape(F, C, f, w),
           NEW k \in F[f].chain, F[k].pred \notin ForeignPreds,
           NEW gone, NEW cut, Passed(F, C, f, k, k, gone, cut),
           w = NULL \/ w \in gone
    PROVE  /\ Shape(Without(F, gone), Without(C, cut), k, NULL)
           /\ Under(Without(F, gone), Without(C, cut), F[k].top)
           /\ k \in DOMAIN F \ gone
           /\ \A y \in DOMAIN Without(F, gone) \cup DOMAIN Without(C, cut) : y <= k
           /\ gone \subseteq DOMAIN F
           /\ \A c \in DOMAIN C : C[c].type = "FOREIGN" => (c \in cut <=> C[c].frame \in gone)
  <1> USE DEF Passed
  <1> DEFINE K == DOMAIN C \ cut
  <1>a. Addressed(F, C)
    BY Addresses
  <1> USE DEF QueryFrame, QueryChoice, NULL
  <1>1. Linked(F) /\ Apart(F, C) /\ Owned(F, C) /\ f \in DOMAIN F
        /\ Nested(F, C, f) /\ Whole(F, C, f)
    BY DEF Shape
  <1>2. k \in DOMAIN F /\ k \in Nat /\ k >= 2 /\ k \notin gone /\ 1 \in K /\ k \notin DOMAIN C
    BY <1>1, <1>a DEF Addressed
  <1>3. gone \subseteq DOMAIN F
    BY <1>1, <1>a DEF Addressed
  <1>4. \A c \in K : c < k /\ \A x \in F[C[c].frame].chain : x <= k /\ x \in DOMAIN F
    <2> SUFFICES ASSUME NEW c \in K PROVE c < k /\ \A x \in F[C[c].frame].chain : x <= k /\ x \in DOMAIN F
      OBVIOUS
    <2>1. c < k /\ c \in Nat /\ C[c].frame \in DOMAIN F
      BY <1>2, <1>a DEF Addressed
    <2>2. C[c].frame <= k
      BY <2>1, <1>2, <1>a DEF Addressed
    <2> QED  BY <2>1, <2>2, <1>2, <1>a DEF Addressed
  <1>5. ASSUME NEW x \in DOMAIN F \ gone
        PROVE  x <= k /\ (x \in F[k].chain \/ \E c \in K : x \in F[C[c].frame].chain)
    <2>1. x \in Nat
      BY <1>a DEF Addressed
    <2>2. CASE x \in F[f].chain
      <3>1. x <= k
        BY <2>1, <2>2, <1>2
      <3> QED  BY <2>2, <3>1, <1>1 DEF Linked
    <2>3. ASSUME NEW c \in DOMAIN C, x \in F[C[c].frame].chain
          PROVE  x <= k /\ (x \in F[k].chain \/ \E d \in K : x \in F[C[d].frame].chain)
      <3>1. CASE c \in K
        BY <2>3, <3>1, <1>4
      <3>2. CASE c > k
        <4>1. x <= k
          BY <2>1, <2>3, <3>2, <1>2
        <4>2. k \in F[C[c].frame].chain /\ C[c].frame \in DOMAIN F
          BY <3>2, <1>1, <1>a DEF Nested, Nests, Addressed
        <4> QED  BY <4>1, <4>2, <2>3, <1>1 DEF Linked
      <3> QED  BY <3>1, <3>2
    <2> QED  BY <2>2, <2>3, <1>1 DEF Whole, InUse
  <1>6. \A x \in gone : x \notin F[k].chain /\ \A c \in K : x \notin F[C[c].frame].chain
    <2> SUFFICES ASSUME NEW x \in gone
                 PROVE  x \notin F[k].chain /\ \A c \in K : x \notin F[C[c].frame].chain
      OBVIOUS
    <2>1. x > k /\ x \in Nat /\ ~(x <= k)
      BY <1>2, <1>3, <1>a DEF Addressed
    <2> QED  BY <2>1, <1>2, <1>4, <1>a DEF Addressed
  <1>7. \A d \in K : Nests(F, C, k, d)
    <2>1. \A z \in F[k].chain : z \in F[f].chain
      BY <1>1, <1>2, <1>a DEF Linked, Addressed
    <2> QED  BY <2>1, <1>1 DEF Nested, Nests
  <1>8. ASSUME NEW c \in DOMAIN C, C[c].type = "FOREIGN"
        PROVE  c \in cut <=> C[c].frame \in gone
    <2>1. /\ c # 1 /\ C[c].frame \in DOMAIN F /\ C[c].frame < c /\ c \in Nat /\ C[c].frame \in Nat
          /\ C[c].frame \in F[C[c].frame].chain /\ C[c].frame # k
      BY <1>1, <1>8, <1>a DEF Owned, Addressed
    <2>2. k <= C[c].frame \/ c <= k
      BY <1>1, <1>2, <1>8 DEF Owned
    <2>3. CASE c > k
      BY <2>1, <2>2, <2>3, <1>2
    <2>4. CASE ~(c > k)
      BY <2>1, <2>4, <1>2
    <2> QED  BY <2>3, <2>4
  <1>9. Shape(Without(F, gone), Restrict(C, K), k, NULL)
    <2>1. \A c \in DOMAIN C \ K : C[c].type = "FOREIGN" => C[c].frame \in gone \/ C[c].frame = NULL
      BY <1>8
    <2>2. K \in SUBSET DOMAIN C
      OBVIOUS
    <2> HIDE DEF K, NULL
    <2> QED  BY <2>1, <2>2, <1>2, <1>5, <1>6, <1>7, Trimmed
  <1>10. Restrict(C, K) = Without(C, cut)
    BY DEF Without
  <1>11. \A y \in (DOMAIN F \ gone) \cup K : y <= k
    BY <1>4, <1>5, <1>2, <1>a DEF Addressed
  <1>12. Under(Without(F, gone), Without(C, cut), F[k].top)
    <2>1. \A x \in DOMAIN F \ gone : F[x].top <= F[k].top
      <3> SUFFICES ASSUME NEW x \in DOMAIN F \ gone PROVE F[x].top <= F[k].top
        OBVIOUS
      <3>1. x <= k /\ x \in Nat /\ F[x].top \in Nat /\ F[k].top \in Nat /\ k < F[k].top
        BY <1>5, <1>2, <1>a DEF Addressed
      <3>2. x # k => F[x].top <= k
        BY <3>1, <1>1, <1>2 DEF Apart
      <3> QED  BY <3>1, <3>2, <1>2
    <2>2. \A c \in K : c < F[k].top
      BY <1>2, <1>4, <1>a DEF Addressed
    <2> QED  BY <2>1, <2>2 DEF Under, Without, Restrict
  <1>13. DOMAIN Without(F, gone) = DOMAIN F \ gone /\ DOMAIN Without(C, cut) = K
    BY DEF Without, Restrict
  <1> QED  BY <1>2, <1>3, <1>8, <1>9, <1>10, <1>11, <1>12, <1>13

\* The choice points above och are above frame f.
Since(C, och, f) == \A c \in DOMAIN C : c > och => c > f

(* What is above choice point och is cut.                                    *)
LEMMA CutBack ==
    ASSUME NEW F, NEW C, NEW f, Shape(F, C, f, NULL), F[f].pred \notin ForeignPreds,
           NEW och \in DOMAIN C, Since(C, och, f),
           NEW keep, f > C[och].frame => keep = f, ~(f > C[och].frame) => keep = C[och].frame,
           NEW gone, NEW cut, Passed(F, C, f, och, keep, gone, cut)
    PROVE  /\ Shape(Without(F, gone), Without(C, cut), f, NULL)
           /\ Under(Without(F, gone), Without(C, cut), IF och > keep THEN och + 1 ELSE F[keep].top)
           /\ keep \in DOMAIN F /\ f \in DOMAIN F \ gone
           /\ gone \subseteq DOMAIN F
           /\ \A c \in DOMAIN C : C[c].type = "FOREIGN" => (c \in cut <=> C[c].frame \in gone)
  <1> USE DEF Passed, Since
  <1> DEFINE K == DOMAIN C \ cut
             e == C[och].frame
  <1>a. Addressed(F, C)
    BY Addresses
  <1> USE DEF QueryFrame, QueryChoice, NULL
  <1>1. Linked(F) /\ Apart(F, C) /\ Owned(F, C) /\ f \in DOMAIN F
        /\ Nested(F, C, f) /\ Whole(F, C, f)
    BY DEF Shape
  <1>2. /\ e \in DOMAIN F /\ e \in Nat /\ f \in Nat /\ och \in Nat /\ f \in F[f].chain
        /\ keep \in DOMAIN F /\ keep \in Nat /\ f <= keep /\ e <= keep /\ (keep = f \/ keep = e)
        /\ f # och
    BY <1>1, <1>a DEF Addressed
  <1>3. gone \subseteq DOMAIN F
    BY <1>1, <1>a DEF Addressed
  <1>4. f \notin gone /\ 1 \in K /\ och \in K /\ \A x \in F[f].chain : x <= f
    BY <1>1, <1>2, <1>a DEF Addressed
  <1>5. ASSUME NEW c \in DOMAIN C, c > och, NEW x \in F[C[c].frame].chain, x <= keep
        PROVE  x \in F[f].chain \/ x \in F[e].chain
    <2>1. c > f /\ f \in F[C[c].frame].chain /\ C[c].frame \in DOMAIN F /\ x \in DOMAIN F /\ x \in Nat
      BY <1>1, <1>2, <1>5, <1>a DEF Nested, Nests, Addressed
    <2>2. CASE keep = f
      BY <2>1, <2>2, <1>1, <1>5 DEF Linked
    <2>3. CASE keep = e /\ och # 1
      <3>1. e < och
        BY <2>3, <1>a DEF Addressed
      <3>2. x < och
        BY <2>1, <2>3, <3>1, <1>2, <1>5
      <3> QED  BY <3>2, <1>1, <1>5 DEF Nested, Nests
    <2>4. CASE keep = e /\ och = 1
      <3>1. e = 2 /\ f = e
        BY <2>4, <1>1, <1>2, <1>a DEF Addressed
      <3> QED  BY <2>2, <2>4, <3>1
    <2> QED  BY <2>2, <2>3, <2>4, <1>2
  <1>6. ASSUME NEW c \in K, NEW x \in F[C[c].frame].chain
        PROVE  /\ x \notin gone
               /\ och # 1 => x < och
               /\ och = 1 => x = 2
    <2>1. /\ c \in Nat /\ c <= och /\ C[c].frame \in DOMAIN F /\ C[c].frame \in Nat
          /\ x <= C[c].frame /\ x \in DOMAIN F /\ x \in Nat /\ x >= 2
      BY <1>2, <1>6, <1>a DEF Addressed
    <2>2. och # 1 => x < och
      BY <2>1, <1>2, <1>a DEF Addressed
    <2>3. och = 1 => x = 2
      BY <2>1, <1>2, <1>a DEF Addressed
    <2>4. ASSUME x \in gone PROVE FALSE
      <3>1. PICK d \in DOMAIN C : d > och /\ x \in F[C[d].frame].chain
        BY <2>1, <2>4, <1>2, <1>4
      <3>2. och # 1
        BY <2>3, <2>4, <1>1, <1>2, <1>a DEF Addressed
      <3>3. x \in F[e].chain
        BY <3>1, <3>2, <2>2, <1>1 DEF Nested, Nests
      <3>4. x <= e
        BY <3>3, <1>2, <1>a DEF Addressed
      <3> QED  BY <3>4, <2>1, <2>4, <1>2
    <2> QED  BY <2>2, <2>3, <2>4
  <1>7. ASSUME NEW x \in DOMAIN F \ gone
        PROVE  x \in F[f].chain \/ \E c \in K : x \in F[C[c].frame].chain
    <2>1. x \in Nat
      BY <1>a DEF Addressed
    <2>2. ASSUME NEW c \in DOMAIN C, c > och, x \in F[C[c].frame].chain
          PROVE  x \in F[f].chain \/ x \in F[e].chain
      <3>1. x <= keep
        BY <2>1, <2>2, <1>2
      <3> QED  BY <3>1, <2>2, <1>5
    <2> QED  BY <2>2, <1>1, <1>4 DEF Whole, InUse
  <1>8. \A x \in gone : x \notin F[f].chain /\ \A c \in K : x \notin F[C[c].frame].chain
    BY <1>2, <1>3, <1>4, <1>6, <1>a DEF Addressed
  <1>9. \A d \in K : Nests(F, C, f, d)
    BY <1>1 DEF Nested
  <1>10. ASSUME NEW c \in DOMAIN C, C[c].type = "FOREIGN"
         PROVE  c \in cut <=> C[c].frame \in gone
    <2>1. /\ c # 1 /\ C[c].frame \in DOMAIN F /\ C[c].frame < c /\ c \in Nat /\ C[c].frame \in Nat
          /\ C[c].frame \in F[C[c].frame].chain /\ C[c].frame # f /\ C[c].frame # och
      BY <1>1, <1>2, <1>10, <1>a DEF Owned, Addressed
    <2>2. CASE c > och
      <3>1. c > f
        BY <2>2
      <3>2. f <= C[c].frame /\ och <= C[c].frame
        BY <3>1, <2>1, <2>2, <1>1, <1>2, <1>10 DEF Owned
      <3>3. C[c].frame > keep
        <4>1. CASE keep = f
          BY <4>1, <3>2, <2>1, <1>2
        <4>2. CASE keep = e /\ och # 1
          BY <4>2, <3>2, <2>1, <1>2, <1>a DEF Addressed
        <4>3. CASE keep = e /\ och = 1
          <5>1. e = 2 /\ f = e
            BY <4>3, <1>1, <1>2, <1>a DEF Addressed
          <5> QED  BY <5>1, <4>1, <4>3
        <4> QED  BY <4>1, <4>2, <4>3, <1>2
      <3> QED  BY <3>3, <2>1, <2>2
    <2>3. CASE ~(c > och)
      BY <2>1, <2>3, <1>6
    <2> QED  BY <2>2, <2>3
  <1>11. Shape(Without(F, gone), Restrict(C, K), f, NULL)
    <2>1. \A c \in DOMAIN C \ K : C[c].type = "FOREIGN" => C[c].frame \in gone \/ C[c].frame = NULL
      BY <1>10
    <2>2. K \in SUBSET DOMAIN C
      OBVIOUS
    <2> HIDE DEF K, NULL
    <2> QED  BY <2>1, <2>2, <1>1, <1>4, <1>7, <1>8, <1>9, Trimmed
  <1>12. Restrict(C, K) = Without(C, cut)
    BY DEF Without
  <1>13. Under(Without(F, gone), Without(C, cut), IF och > keep THEN och + 1 ELSE F[keep].top)
    <2>1. CASE och > keep
      <3>1. och # 1
        BY <2>1, <1>2, <1>a DEF Addressed
      <3>2. \A x \in DOMAIN F \ gone : x < och /\ x \in DOMAIN F /\ x \in Nat
        BY <3>1, <2>1, <1>2, <1>4, <1>6, <1>7, <1>a DEF Addressed
      <3>3. \A x \in DOMAIN F \ gone : F[x].top <= och + 1
        <4>1. \A x \in DOMAIN F \ gone : F[x].top <= och /\ F[x].top \in Nat
          BY <3>2, <1>1, <1>a DEF Apart, Addressed
        <4> QED  BY <4>1, <1>2
      <3>4. \A c \in K : c < och + 1
        BY <1>2, <1>a DEF Addressed
      <3> QED  BY <3>3, <3>4, <2>1 DEF Under, Without, Restrict
    <2>2. CASE ~(och > keep)
      <3>1. keep = f /\ och < f
        BY <2>2, <1>1, <1>2, <1>a DEF Addressed
      <3>2. \A x \in DOMAIN F \ gone : x <= f /\ x \in Nat
        BY <3>1, <1>2, <1>4, <1>6, <1>7, <1>a DEF Addressed
      <3>3. \A x \in DOMAIN F \ gone : F[x].top <= F[f].top
        <4> SUFFICES ASSUME NEW x \in DOMAIN F \ gone PROVE F[x].top <= F[f].top
          OBVIOUS
        <4>1. x # f => F[x].top <= f
          BY <3>2, <1>1, <1>2 DEF Apart
        <4> QED  BY <4>1, <1>1, <1>2, <1>a DEF Addressed
      <3>4. \A c \in K : c < F[f].top
        BY <3>1, <1>1, <1>2, <1>a DEF Addressed
      <3> QED  BY <3>1, <3>3, <3>4, <2>2 DEF Under, Without, Restrict
    <2> QED  BY <2>1, <2>2
  <1> QED  BY <1>1, <1>2, <1>3, <1>4, <1>10, <1>11, <1>12, <1>13

(* All frames above NULL of the frame and the choice points are all of them. *)
LEMMA AllPassed ==
    ASSUME NEW F, NEW C, NEW f, NEW w, Shape(F, C, f, w),
           NEW k, k \in {QueryFrame, NULL},
           NEW gone, NEW cut, Passed(F, C, f, k, NULL, gone, cut)
    PROVE  gone = DOMAIN F
  <1> USE DEF Passed
  <1> USE DEF QueryFrame, QueryChoice, NULL
  <1>a. Addressed(F, C)
    BY Addresses
  <1>1. Linked(F) /\ f \in DOMAIN F /\ Whole(F, C, f)
    BY DEF Shape
  <1>2. \A g \in gone : g \in DOMAIN F
    BY <1>1, <1>a DEF Addressed
  <1>3. ASSUME NEW x \in DOMAIN F PROVE x \in gone
    <2>1. x \in Nat /\ x > 0
      BY <1>a DEF Addressed
    <2>2. ASSUME NEW c \in DOMAIN C, x \in F[C[c].frame].chain PROVE x \in gone
      <3>1. CASE c = 1
        <4>1. x = 2
          BY <2>1, <2>2, <3>1, <1>a DEF Addressed
        <4>2. 2 \in F[f].chain
          BY <1>1 DEF Linked
        <4> QED  BY <4>1, <4>2, <2>1
      <3>2. CASE c > 2
        BY <2>1, <2>2, <3>2, <1>a DEF Addressed
      <3> QED  BY <3>1, <3>2, <1>a DEF Addressed
    <2> QED  BY <2>1, <2>2, <1>1 DEF Whole, InUse
  <1> QED  BY <1>2, <1>3

-----------------------------------------------------------------------------
(* The counts                                                                *)

\* the frames of predicate p but for w
FramesOf(F, p, w) == {x \in DOMAIN F : F[x].pred = p /\ x # w}
\* the choice points of foreign predicates
Calls(C) == {c \in DOMAIN C : C[c].type = "FOREIGN"}

RefsRight(F, w, rs, l) ==
    /\ rs \in [Preds -> Int] /\ l \in [Preds -> Int]
    /\ \A p \in Preds \ ForeignPreds : rs[p] + l[p] = Cardinality(FramesOf(F, p, w))
OpenRight(C, o, k) == o \in Int /\ k \in Int /\ o + k = Cardinality(Calls(C))

(* What the counts count is finite.                                          *)
LEMMA FinitelyMany ==
    ASSUME NEW F, NEW C, Records(F, C)
    PROVE  /\ \A p, w : /\ IsFiniteSet(FramesOf(F, p, w))
                        /\ Cardinality(FramesOf(F, p, w)) \in Nat
           /\ IsFiniteSet(Calls(C)) /\ Cardinality(Calls(C)) \in Nat
  <1>1. IsFiniteSet(DOMAIN F) /\ IsFiniteSet(DOMAIN C)
    BY DEF Records
  <1>2. \A p, w : FramesOf(F, p, w) \in SUBSET DOMAIN F
    BY DEF FramesOf
  <1>3. Calls(C) \in SUBSET DOMAIN C
    BY DEF Calls
  <1> QED  BY <1>1, <1>2, <1>3, FS_Subset, FS_CardinalityType

(* Leaving the definitions of the frames that go keeps the references right. *)
LEMMA RefsLeft ==
    ASSUME NEW F, NEW C, Records(F, C), NEW rs, NEW l, RefsRight(F, NULL, rs, l),
           NEW gone \in SUBSET DOMAIN F, NULL \notin DOMAIN F,
           NEW r1, r1 = [p \in Preds |-> IF p \in ForeignPreds THEN rs[p]
                                 ELSE rs[p] - Cardinality({g \in gone : F[g].pred = p})]
    PROVE  RefsRight(Without(F, gone), NULL, r1, l)
  <1>1. ASSUME NEW p \in Preds \ ForeignPreds
        PROVE  /\ Cardinality({g \in gone : F[g].pred = p}) \in Nat
               /\ Cardinality(FramesOf(Without(F, gone), p, NULL)) =
                    Cardinality(FramesOf(F, p, NULL)) - Cardinality({g \in gone : F[g].pred = p})
    <2> DEFINE S == FramesOf(F, p, NULL)
               T == {g \in gone : F[g].pred = p}
    <2>1. IsFiniteSet(S) /\ Cardinality(S) \in Nat
      BY FinitelyMany
    <2>2. S \cap T = T /\ T \in SUBSET S
      BY DEF FramesOf
    <2>3. FramesOf(Without(F, gone), p, NULL) = S \ T
      BY DEF FramesOf, Without, Restrict
    <2>4. IsFiniteSet(T) /\ Cardinality(T) \in Nat
      BY <2>1, <2>2, FS_Subset, FS_CardinalityType
    <2> HIDE DEF S, T
    <2>5. Cardinality(S \ T) = Cardinality(S) - Cardinality(T)
      BY <2>1, <2>2, FS_Difference
    <2> QED  BY <2>3, <2>4, <2>5 DEF S, T
  <1>2. \A p \in Preds \ ForeignPreds :
          r1[p] = rs[p] - Cardinality({g \in gone : F[g].pred = p}) /\ r1[p] \in Int
    BY <1>1 DEF RefsRight
  <1>3. r1 \in [Preds -> Int]
    BY <1>2 DEF RefsRight
  <1>4. ASSUME NEW p \in Preds \ ForeignPreds
        PROVE  r1[p] + l[p] = Cardinality(FramesOf(Without(F, gone), p, NULL))
    <2>1. rs[p] \in Int /\ l[p] \in Int /\ rs[p] + l[p] = Cardinality(FramesOf(F, p, NULL))
      BY DEF RefsRight
    <2>2. r1[p] = rs[p] - Cardinality({g \in gone : F[g].pred = p})
      BY <1>2
    <2>3. Cardinality(FramesOf(F, p, NULL)) \in Nat
      BY FinitelyMany
    <2> QED  BY <2>1, <2>2, <2>3, <1>1
  <1> QED  BY <1>3, <1>4 DEF RefsRight

(* A frame that is put on top is counted if it is entered.                   *)
LEMMA RefsPushed ==
    ASSUME NEW F, NEW C, Records(F, C), NEW rs, NEW l, RefsRight(F, NULL, rs, l),
           NULL \notin DOMAIN F, NEW a \in Nat \ {NULL}, a \notin DOMAIN F, NEW r
    PROVE  /\ RefsRight(With(F, a, r), a, rs, l)
           /\ r.pred \in Preds =>
                RefsRight(With(F, a, r), NULL, [rs EXCEPT ![r.pred] = @ + 1], l)
  <1> DEFINE G == With(F, a, r)
  <1>1. \A p : FramesOf(G, p, a) = FramesOf(F, p, NULL)
    BY DEF FramesOf, With
  <1>2. RefsRight(G, a, rs, l)
    BY <1>1 DEF RefsRight
  <1>3. ASSUME r.pred \in Preds
        PROVE  RefsRight(G, NULL, [rs EXCEPT ![r.pred] = @ + 1], l)
    <2> DEFINE r1 == [rs EXCEPT ![r.pred] = @ + 1]
    <2>1. r1 \in [Preds -> Int] /\ l \in [Preds -> Int] /\ rs \in [Preds -> Int]
      BY <1>3 DEF RefsRight
    <2>2. ASSUME NEW p \in Preds \ ForeignPreds
          PROVE  r1[p] + l[p] = Cardinality(FramesOf(G, p, NULL))
      <3>1. rs[p] \in Int /\ l[p] \in Int /\ rs[p] + l[p] = Cardinality(FramesOf(F, p, NULL))
        BY DEF RefsRight
      <3>2. CASE p = r.pred
        <4>1. FramesOf(G, p, NULL) = FramesOf(F, p, NULL) \cup {a} /\ a \notin FramesOf(F, p, NULL)
          BY <3>2 DEF FramesOf, With
        <4>2. Cardinality(FramesOf(G, p, NULL)) = Cardinality(FramesOf(F, p, NULL)) + 1
          BY <4>1, FinitelyMany, FS_AddElement
        <4>3. r1[p] = rs[p] + 1
          BY <3>2, <2>1
        <4> QED  BY <3>1, <4>2, <4>3
      <3>3. CASE p # r.pred
        <4>1. FramesOf(G, p, NULL) = FramesOf(F, p, NULL)
          BY <3>3 DEF FramesOf, With
        <4>2. r1[p] = rs[p]
          BY <3>3, <2>1
        <4> QED  BY <3>1, <4>1, <4>2
      <3> QED  BY <3>2, <3>3
    <2> HIDE DEF r1, G
    <2>3. RefsRight(G, NULL, r1, l)
      BY <2>1, <2>2 DEF RefsRight
    <2> QED  BY <2>3 DEF r1
  <1> QED  BY <1>2, <1>3

(* The references depend on the frames of each predicate only.               *)
LEMMA RefsSame ==
    ASSUME NEW F, NEW w, NEW G, NEW v, NEW rs, NEW l, RefsRight(F, w, rs, l),
           \A p \in Preds \ ForeignPreds : FramesOf(G, p, v) = FramesOf(F, p, w)
    PROVE  RefsRight(G, v, rs, l)
  BY DEF RefsRight

(* The frame that waits at its call port is entered, or is counted as left.  *)
LEMMA RefsEntered ==
    ASSUME NEW F, NEW C, Records(F, C), NEW f \in DOMAIN F, NULL \notin DOMAIN F,
           NEW rs, NEW l, RefsRight(F, f, rs, l), NEW q, q = F[f].pred
    PROVE  /\ q \in ForeignPreds => RefsRight(F, NULL, rs, l)
           /\ q \in Preds \ ForeignPreds =>
                /\ RefsRight(F, NULL, [rs EXCEPT ![q] = @ + 1], l)
                /\ RefsRight(F, NULL, rs, [l EXCEPT ![q] = @ + 1])
  <1>1. \A p : p # q => FramesOf(F, p, NULL) = FramesOf(F, p, f)
    BY DEF FramesOf
  <1>2. FramesOf(F, q, NULL) = FramesOf(F, q, f) \cup {f} /\ f \notin FramesOf(F, q, f)
    BY DEF FramesOf
  <1>3. Cardinality(FramesOf(F, q, NULL)) = Cardinality(FramesOf(F, q, f)) + 1
    BY <1>2, FinitelyMany, FS_AddElement
  <1>4. ASSUME q \in Preds \ ForeignPreds, NEW p \in Preds \ ForeignPreds
        PROVE  /\ [rs EXCEPT ![q] = @ + 1][p] + l[p] = Cardinality(FramesOf(F, p, NULL))
               /\ rs[p] + [l EXCEPT ![q] = @ + 1][p] = Cardinality(FramesOf(F, p, NULL))
    <2>1. /\ rs[p] \in Int /\ l[p] \in Int /\ rs[p] + l[p] = Cardinality(FramesOf(F, p, f))
          /\ rs \in [Preds -> Int] /\ l \in [Preds -> Int]
      BY DEF RefsRight
    <2>2. CASE p = q
      <3>1. [rs EXCEPT ![q] = @ + 1][p] = rs[p] + 1 /\ [l EXCEPT ![q] = @ + 1][p] = l[p] + 1
        BY <2>1, <2>2
      <3> QED  BY <3>1, <2>1, <2>2, <1>3
    <2>3. CASE p # q
      <3>1. [rs EXCEPT ![q] = @ + 1][p] = rs[p] /\ [l EXCEPT ![q] = @ + 1][p] = l[p]
        BY <2>1, <2>3
      <3> QED  BY <3>1, <2>1, <2>3, <1>1
    <2> QED  BY <2>2, <2>3
  <1>5. q \in Preds => /\ [rs EXCEPT ![q] = @ + 1] \in [Preds -> Int]
                      /\ [l EXCEPT ![q] = @ + 1] \in [Preds -> Int]
    BY DEF RefsRight
  <1> QED  BY <1>1, <1>4, <1>5 DEF RefsRight

(* A choice point that is put on top is counted if it is a context's.        *)
LEMMA CallsPushed ==
    ASSUME NEW F, NEW C, Records(F, C), NEW o, NEW k, OpenRight(C, o, k),
           NEW a, a \notin DOMAIN C, NEW type, NEW f
    PROVE  OpenRight(With(C, a, NewChoice(type, f)), IF type = "FOREIGN" THEN o + 1 ELSE o, k)
  <1> DEFINE D == With(C, a, NewChoice(type, f))
  <1>1. /\ type = "FOREIGN" => Calls(D) = Calls(C) \cup {a} /\ a \notin Calls(C)
        /\ type # "FOREIGN" => Calls(D) = Calls(C)
    BY DEF Calls, With, NewChoice
  <1>2. IsFiniteSet(Calls(C)) /\ Cardinality(Calls(C)) \in Nat
    BY FinitelyMany
  <1>3. type = "FOREIGN" => Cardinality(Calls(D)) = Cardinality(Calls(C)) + 1
    BY <1>1, <1>2, FS_AddElement
  <1> HIDE DEF D
  <1>4. OpenRight(D, IF type = "FOREIGN" THEN o + 1 ELSE o, k)
    <2>1. CASE type = "FOREIGN"
      BY <2>1, <1>2, <1>3 DEF OpenRight
    <2>2. CASE type # "FOREIGN"
      BY <2>2, <1>1 DEF OpenRight
    <2> QED  BY <2>1, <2>2
  <1> QED  BY <1>4 DEF D

(* A choice point that is taken is counted if it is a context's.             *)
LEMMA CallsTaken ==
    ASSUME NEW F, NEW C, Records(F, C), NEW o, NEW k, OpenRight(C, o, k), NEW b \in DOMAIN C
    PROVE  OpenRight(Without(C, {b}), IF C[b].type = "FOREIGN" THEN o - 1 ELSE o, k)
  <1> DEFINE D == Without(C, {b})
  <1>1. /\ C[b].type = "FOREIGN" => Calls(D) = Calls(C) \ {b} /\ b \in Calls(C)
        /\ C[b].type # "FOREIGN" => Calls(D) = Calls(C)
    BY DEF Calls, Without, Restrict
  <1>2. IsFiniteSet(Calls(C)) /\ Cardinality(Calls(C)) \in Nat
    BY FinitelyMany
  <1>3. C[b].type = "FOREIGN" => Cardinality(Calls(D)) = Cardinality(Calls(C)) - 1
    BY <1>1, <1>2, FS_RemoveElement
  <1> HIDE DEF D
  <1>4. OpenRight(D, IF C[b].type = "FOREIGN" THEN o - 1 ELSE o, k)
    <2>1. CASE C[b].type = "FOREIGN"
      BY <2>1, <1>2, <1>3 DEF OpenRight
    <2>2. CASE C[b].type # "FOREIGN"
      BY <2>2, <1>1 DEF OpenRight
    <2> QED  BY <2>1, <2>2
  <1> QED  BY <1>4 DEF D

\* the frames in gone that have a context
ContextsIn(F, gone) == {g \in gone : F[g].pred \in ForeignPreds /\ F[g].clause}

\* Choice points of foreign predicates go with their frames, which is not w.
Together(F, C, gone, cut, w) ==
    /\ gone \subseteq DOMAIN F
    /\ \A c \in DOMAIN C : C[c].type = "FOREIGN" =>
            C[c].frame # w /\ (c \in cut <=> C[c].frame \in gone)

(* The contexts that go are those of the choice points that go, and perhaps  *)
(* that of a frame that waits at its call port and never returned it.        *)
LEMMA ContextsGone ==
    ASSUME NEW F, NEW C, NEW f, NEW w, Shape(F, C, f, w),
           NEW gone, NEW cut, Together(F, C, gone, cut, w)
    PROVE  /\ IsFiniteSet(ContextsIn(F, gone) \ {w})
           /\ Cardinality(ContextsIn(F, gone) \ {w}) = Cardinality(Calls(C) \cap cut)
  <1> DEFINE S == Calls(C) \cap cut
             T == ContextsIn(F, gone) \ {w}
             h == [c \in S |-> C[c].frame]
  <1>1. Records(F, C) /\ Owned(F, C) /\ Called(F, C, w)
    BY DEF Shape
  <1> USE DEF Together
  <1>a. Addressed(F, C)
    BY Addresses
  <1>2. \A c \in S : h[c] \in T
    BY <1>1, <1>a DEF Calls, ContextsIn, Owned
  <1>3. \A c, d \in S : h[c] = h[d] => c = d
    <2> SUFFICES ASSUME NEW c \in S, NEW d \in S, C[c].frame = C[d].frame, c # d PROVE FALSE
      OBVIOUS
    <2>1. /\ c \in Nat /\ d \in Nat /\ c # 1 /\ d # 1
          /\ C[c].frame < c /\ C[d].frame < d /\ C[c].frame \in Nat
          /\ C[c].type = "FOREIGN" /\ C[d].type = "FOREIGN" /\ c \in DOMAIN C /\ d \in DOMAIN C
      BY <1>1, <1>a DEF Calls, Owned, Addressed, QueryChoice
    <2>2. (c <= C[d].frame \/ d <= c) /\ (d <= C[c].frame \/ c <= d)
      BY <2>1, <1>1 DEF Owned
    <2> QED  BY <2>1, <2>2
  <1>4. \A t \in T : \E c \in S : h[c] = t
    <2> SUFFICES ASSUME NEW t \in T PROVE \E c \in S : C[c].frame = t
      OBVIOUS
    <2>1. PICK c \in DOMAIN C : C[c].type = "FOREIGN" /\ C[c].frame = t
      BY <1>1 DEF Called, ContextsIn
    <2> QED  BY <2>1 DEF Calls, ContextsIn
  <1>5. IsFiniteSet(S)
    BY <1>1, FinitelyMany, FS_Intersection
  <1> HIDE DEF S, T
  <1>6. h \in Bijection(S, T)
    BY <1>2, <1>3, <1>4 DEF Bijection, Injection, Surjection, IsInjective
  <1> HIDE DEF h
  <1>7. ExistsBijection(S, T)
    BY <1>6 DEF ExistsBijection
  <1> QED  BY <1>5, <1>7, FS_Bijection DEF S, T

(* Telling the predicates of the contexts that go keeps the count right.     *)
LEMMA CallsCut ==
    ASSUME NEW F, NEW C, NEW f, NEW w, Shape(F, C, f, w),
           NEW gone, NEW cut, Together(F, C, gone, cut, w),
           NEW o, NEW k, OpenRight(C, o, k)
    PROVE  OpenRight(Without(C, cut), o - Cardinality(ContextsIn(F, gone)),
                     IF w \in ContextsIn(F, gone) THEN k + 1 ELSE k)
  <1>1. /\ IsFiniteSet(ContextsIn(F, gone) \ {w})
        /\ Cardinality(ContextsIn(F, gone) \ {w}) = Cardinality(Calls(C) \cap cut)
    BY ContextsGone
  <1>2. IsFiniteSet(Calls(C)) /\ Cardinality(Calls(C)) \in Nat
    BY FinitelyMany DEF Shape
  <1>3. Calls(Without(C, cut)) = Calls(C) \ cut
    BY DEF Calls, Without, Restrict
  <1> DEFINE X == ContextsIn(F, gone)
             D == Without(C, cut)
             n == Cardinality(X \ {w})
  <1>4. Cardinality(Calls(D)) = Cardinality(Calls(C)) - n
    <2>1. Cardinality(Calls(C) \ cut) = Cardinality(Calls(C)) - Cardinality(Calls(C) \cap cut)
      BY <1>2, FS_Difference
    <2> QED  BY <2>1, <1>1, <1>3
  <1>5. n \in Nat /\ Cardinality(Calls(C)) \in Nat
    BY <1>1, <1>2, FS_CardinalityType
  <1>6. Cardinality(X) = IF w \in X THEN n + 1 ELSE n
    <2>1. CASE w \in X
      <3>1. X = (X \ {w}) \cup {w}
        BY <2>1
      <3>2. Cardinality((X \ {w}) \cup {w}) = n + 1
        BY <1>1, FS_AddElement
      <3> QED  BY <3>1, <3>2, <2>1
    <2>2. CASE w \notin X
      <3>1. X \ {w} = X
        BY <2>2
      <3> QED  BY <3>1, <2>2
    <2> QED  BY <2>1, <2>2
  <1>7. o \in Int /\ k \in Int /\ o + k = Cardinality(Calls(C))
    BY DEF OpenRight
  <1> HIDE DEF X, D, n
  <1>8. OpenRight(D, o - Cardinality(X), IF w \in X THEN k + 1 ELSE k)
    BY <1>4, <1>5, <1>6, <1>7 DEF OpenRight
  <1> QED  BY <1>8 DEF X, D

-----------------------------------------------------------------------------
(* The invariant                                                             *)

\* The frames and choice points F and C in mode m, with frame f and t on top
Consistent(m, f, t, F, C) ==
    /\ m \in Modes /\ t \in Nat
    /\ m \in {"over", "assert"} => F = Empty /\ C = Empty /\ f = NULL
    /\ m \notin {"over", "assert"} =>
          /\ Shape(F, C, f, IF m = "call" THEN f ELSE NULL) /\ Under(F, C, t)
          /\ m = "call" => t = f + 1
          /\ m = "run" => F[f].pred \notin ForeignPreds
          /\ m = "yes" => f = QueryFrame

Counted(m, f, F, C, rs, o, l, k) ==
    /\ rs \in [Preds -> Int] /\ o \in Int /\ l \in [Preds -> Int] /\ k \in Int
    /\ m # "assert" => /\ RefsRight(F, IF m = "call" THEN f ELSE NULL, rs, l)
                       /\ OpenRight(C, o, k)

Inv == /\ Consistent(mode, fr, lTop, frame, choice)
       /\ Counted(mode, fr, frame, choice, refs, open, left, cutted)

-----------------------------------------------------------------------------
(* What a step is made of                                                    *)

(* CallGoal() puts a frame on top that waits at its call port or runs.       *)
LEMMA GoalCalled ==
    ASSUME WellFormed, NEW F, NEW C, NEW f, NEW a \in Nat, Shape(F, C, f, NULL), Under(F, C, a),
           F[f].pred \notin ForeignPreds,
           NEW rs, NEW l, RefsRight(F, NULL, rs, l), CallGoal(f, a, F, C, rs)
    PROVE  /\ Consistent(mode', fr', lTop', frame', choice') /\ choice' = C
           /\ mode' \in {"call", "run"}
           /\ RefsRight(frame', IF mode' = "call" THEN fr' ELSE NULL, refs', l)
  <1> DEFINE chain == F[f].chain \cup {a}
  <1>a. Addressed(F, C) /\ f \in DOMAIN F
    BY Addresses
  <1>1. /\ Records(F, C) /\ a # NULL /\ a \notin DOMAIN F /\ NULL \notin DOMAIN F
        /\ chain \in SUBSET Nat /\ f \in Nat
    <2>1. f < a
      BY <1>a DEF Under, Addressed
    <2>2. a \notin DOMAIN F
      BY <1>a DEF Under, Addressed
    <2> QED  BY <1>a, <2>1, <2>2 DEF Shape, Addressed, NULL
  <1>2. ASSUME NEW p \in Preds, mode' = "call",
               Become("call", a, a + 1, With(F, a, NewFrame(f, chain, p, a + 1, FALSE)), C), refs' = rs
        PROVE  /\ Consistent(mode', fr', lTop', frame', choice') /\ choice' = C
               /\ RefsRight(frame', IF mode' = "call" THEN fr' ELSE NULL, refs', l)
    <2> DEFINE r == NewFrame(f, chain, p, a + 1, FALSE)
    <2>1. /\ r \in FrameRecords /\ r.parent = f /\ r.chain = chain /\ r.top = a + 1 /\ r.top > a
          /\ r.pred = p /\ ~r.clause
      BY <1>1 DEF NewFrame, FrameRecords
    <2>2. mode' = "call" /\ fr' = a /\ lTop' = a + 1 /\ frame' = With(F, a, r) /\ choice' = C
      BY <1>2 DEF Become
    <2> HIDE DEF r
    <2>3. Shape(With(F, a, r), C, a, a) /\ Under(With(F, a, r), C, r.top)
      BY <2>1, FramePushed
    <2>4. RefsRight(With(F, a, r), a, rs, l)
      BY <1>1, RefsPushed
    <2> QED  BY <1>2, <2>1, <2>2, <2>3, <2>4 DEF Consistent, Modes
  <1>3. ASSUME NEW n \in Sizes, mode' = "run",
               Become("run", a, a + 1 + n, With(F, a, NewFrame(f, chain, MetaCall, a + 1 + n, TRUE)), C),
               refs' = [rs EXCEPT ![MetaCall] = @ + 1]
        PROVE  /\ Consistent(mode', fr', lTop', frame', choice') /\ choice' = C
               /\ RefsRight(frame', IF mode' = "call" THEN fr' ELSE NULL, refs', l)
    <2> DEFINE r == NewFrame(f, chain, MetaCall, a + 1 + n, TRUE)
    <2>1. /\ r \in FrameRecords /\ r.parent = f /\ r.chain = chain /\ r.top = a + 1 + n /\ r.top > a
          /\ r.pred = MetaCall /\ r.pred \notin ForeignPreds /\ r.pred \in Preds /\ r.top \in Nat
      BY <1>1 DEF NewFrame, FrameRecords, WellFormed
    <2>2. mode' = "run" /\ fr' = a /\ lTop' = r.top /\ frame' = With(F, a, r) /\ choice' = C
      BY <1>3, <2>1 DEF Become
    <2> HIDE DEF r
    <2>3. Shape(With(F, a, r), C, a, NULL) /\ Under(With(F, a, r), C, r.top)
      BY <2>1, FramePushed
    <2>4. RefsRight(With(F, a, r), NULL, refs', l)
      BY <1>1, <1>3, <2>1, RefsPushed
    <2>5. With(F, a, r)[a] = r
      BY DEF With
    <2> QED  BY <2>1, <2>2, <2>3, <2>4, <2>5 DEF Consistent, Modes
  <1> QED  BY <1>2, <1>3 DEF CallGoal

(* The frame on top changes but for its place, and may be entered.           *)
LEMMA TopChanged ==
    ASSUME NEW F, NEW C, NEW f, NEW w, Shape(F, C, f, w), w \in {f, NULL},
           \A y \in DOMAIN F \cup DOMAIN C : y <= f,
           NEW r \in FrameRecords, r.parent = F[f].parent, r.chain = F[f].chain,
           r.pred = F[f].pred, r.top > f,
           NEW w1, w1 = IF r.clause /\ r.pred \in ForeignPreds THEN f ELSE NULL,
           NEW rs, NEW l, RefsRight(F, NULL, rs, l)
    PROVE  /\ Shape([F EXCEPT ![f] = r], C, f, w1) /\ Under([F EXCEPT ![f] = r], C, r.top)
           /\ \A c \in DOMAIN C : c < f
           /\ RefsRight([F EXCEPT ![f] = r], NULL, rs, l)
           /\ [F EXCEPT ![f] = r][f] = r
  <1> DEFINE G == [F EXCEPT ![f] = r]
  <1>a. Addressed(F, C) /\ f \in DOMAIN F
    BY Addresses
  <1>1. /\ DOMAIN G = DOMAIN F /\ G[f] = r /\ \A x \in DOMAIN F : x # f => G[x] = F[x]
    BY <1>a
  <1>2. Shape(G, C, f, w1) /\ Under(G, C, r.top) /\ \A c \in DOMAIN C : c < f
    <2>1. w \in {f, w1} \/ w \notin DOMAIN F
      BY <1>a DEF Addressed, NULL
    <2>2. r.pred \in ForeignPreds /\ r.clause => w1 = f
      OBVIOUS
    <2> QED  BY <2>1, <2>2, FrameChanged
  <1> HIDE DEF G
  <1>3. \A p \in Preds \ ForeignPreds : FramesOf(G, p, NULL) = FramesOf(F, p, NULL)
    BY <1>1 DEF FramesOf
  <1>4. RefsRight(G, NULL, rs, l)
    BY <1>3, RefsSame
  <1> QED  BY <1>1, <1>2, <1>4 DEF G

(* A clause runs in the frame on top.                                        *)
LEMMA ClauseRuns ==
    ASSUME WellFormed, NEW F, NEW C, NEW f, NEW w, Shape(F, C, f, w), w \in {f, NULL},
           \A y \in DOMAIN F \cup DOMAIN C : y <= f, F[f].pred \notin ForeignPreds,
           NEW rs, NEW l, RefsRight(F, NULL, rs, l), NEW o, NEW k, OpenRight(C, o, k),
           RunClause(f, F, C)
    PROVE  /\ Consistent(mode', fr', lTop', frame', choice') /\ mode' = "run"
           /\ RefsRight(frame', NULL, rs, l) /\ OpenRight(choice', o, k)
  <1>a. Addressed(F, C) /\ f \in DOMAIN F
    BY Addresses
  <1>1. PICK n \in Sizes :
           LET top == f + 1 + n
               new == [F EXCEPT ![f] = [@ EXCEPT !.top = top, !.clause = TRUE]]
           IN  \/ Become("run", f, top, new, C)
               \/ Become("run", f, top + 1, new, With(C, top, NewChoice("CLAUSE", f)))
    BY DEF RunClause
  <1> DEFINE top == f + 1 + n
  <1>2. PICK r : r = [F[f] EXCEPT !.top = top, !.clause = TRUE]
    OBVIOUS
  <1>3. f \in Nat /\ top \in Nat /\ top > f /\ top + 1 \in Nat
    BY <1>a DEF WellFormed, Addressed
  <1> HIDE DEF top
  <1>4. /\ r \in FrameRecords /\ r.parent = F[f].parent /\ r.chain = F[f].chain /\ r.pred = F[f].pred
        /\ r.top = top
    <2>1. F[f] \in FrameRecords
      BY <1>a DEF Addressed
    <2> QED  BY <2>1, <1>2, <1>3 DEF FrameRecords
  <1> DEFINE G == [F EXCEPT ![f] = r]
  <1>5. /\ Shape(G, C, f, NULL) /\ Under(G, C, top) /\ \A c \in DOMAIN C : c < f
        /\ RefsRight(G, NULL, rs, l) /\ G[f] = r
    BY <1>3, <1>4, TopChanged
  <1>6. /\ mode' = "run" /\ fr' = f /\ frame' = G
        /\ \/ lTop' = top /\ choice' = C
           \/ lTop' = top + 1 /\ choice' = With(C, top, NewChoice("CLAUSE", f))
    BY <1>1, <1>2 DEF Become, top
  <1>7. DOMAIN G = DOMAIN F
    OBVIOUS
  <1> HIDE DEF G
  <1>8. CASE lTop' = top /\ choice' = C
    BY <1>3, <1>4, <1>5, <1>6, <1>8 DEF Consistent, Modes
  <1>9. CASE lTop' = top + 1 /\ choice' = With(C, top, NewChoice("CLAUSE", f))
    <2>1. \A y \in DOMAIN G \cup DOMAIN C : y <= f
      BY <1>7
    <2>2. /\ Shape(G, With(C, top, NewChoice("CLAUSE", f)), f, NULL)
          /\ Under(G, With(C, top, NewChoice("CLAUSE", f)), top + 1)
          /\ top \notin DOMAIN C
      BY <2>1, <1>3, <1>4, <1>5, ChoicePushed DEF ChoiceTypes
    <2>3. OpenRight(With(C, top, NewChoice("CLAUSE", f)), o, k)
      BY <2>2, <1>5, CallsPushed DEF Shape
    <2> QED  BY <2>2, <2>3, <1>3, <1>4, <1>5, <1>6, <1>9 DEF Consistent, Modes
  <1> QED  BY <1>6, <1>8, <1>9

(* The frame is left for good.                                               *)
LEMMA LeftForGood ==
    ASSUME NEW F, NEW C, NEW f, NEW w, Shape(F, C, f, w), w \in {f, NULL},
           NEW rs, NEW l, RefsRight(Without(F, {f}), NULL, rs, l), NEW o, NEW k, OpenRight(C, o, k),
           ExitLast(f, F, C)
    PROVE  /\ Consistent(mode', fr', lTop', frame', choice') /\ mode' \in {"run", "over"}
           /\ RefsRight(frame', NULL, rs, l) /\ OpenRight(choice', o, k)
  <1>a. Addressed(F, C) /\ f \in DOMAIN F
    BY Addresses
  <1>0. \A c \in DOMAIN C : c < f
    BY DEF ExitLast
  <1>1. CASE F[f].parent = NULL
    <2>1. Linked(F) /\ Owned(F, C) /\ Whole(F, C, f)
      BY DEF Shape
    <2>2. f = 2 /\ \A z \in F[f].chain : z = f
      BY <2>1, <1>1, <1>a DEF Linked, QueryFrame
    <2>3. \A c \in DOMAIN C : c = 1
      BY <2>2, <1>0, <1>a DEF Addressed
    <2>4. \A x \in DOMAIN F : x = f
      BY <2>1, <2>2, <2>3, <1>a DEF Whole, InUse, Addressed
    <2>5. Without(F, {f}) = Empty
      BY <2>4, <1>a DEF Without, Restrict, Empty
    <2>6. Calls(C) = {} /\ Calls(Empty) = {}
      BY <2>1, <2>3 DEF Owned, Calls, QueryChoice, Empty
    <2>7. mode' = "over" /\ fr' = NULL /\ lTop' = NULL /\ frame' = Empty /\ choice' = Empty
      BY <1>1 DEF ExitLast, Stop, Become
    <2> QED  BY <2>5, <2>6, <2>7 DEF Consistent, OpenRight, Modes, NULL
  <1>2. CASE F[f].parent # NULL
    <2>1. /\ Shape(Without(F, {f}), C, F[f].parent, NULL) /\ Under(Without(F, {f}), C, f)
          /\ F[f].parent \in DOMAIN F \ {f} /\ F[F[f].parent].pred \notin ForeignPreds
      BY <1>0, <1>2, Left
    <2>2. /\ mode' = "run" /\ fr' = F[f].parent /\ lTop' = f /\ frame' = Without(F, {f})
          /\ choice' = C
      BY <1>2 DEF ExitLast, Become
    <2>3. Without(F, {f})[F[f].parent] = F[F[f].parent]
      BY <2>1 DEF Without, Restrict
    <2>4. f \in Nat
      BY <1>a DEF Addressed
    <2> QED  BY <2>1, <2>2, <2>3, <2>4 DEF Consistent, Modes
  <1> QED  BY <1>1, <1>2

(* The frame is left with a choice point to come back to it.                 *)
LEMMA LeftForNow ==
    ASSUME NEW F, NEW C, NEW f, Shape(F, C, f, NULL), NEW t \in Nat, Under(F, C, t),
           ExitKept(f, t, F, C)
    PROVE  /\ Consistent(mode', fr', lTop', frame', choice') /\ mode' \in {"run", "yes"}
           /\ frame' = F /\ choice' = C
  <1>a. Addressed(F, C) /\ f \in DOMAIN F
    BY Addresses
  <1>0. \E c \in DOMAIN C : c > f
    BY DEF ExitKept
  <1>1. CASE F[f].parent = NULL
    <2>1. f = QueryFrame
      BY <1>1, <1>a DEF Shape, Linked
    <2>2. mode' = "yes" /\ fr' = f /\ lTop' = t /\ frame' = F /\ choice' = C
      BY <1>1 DEF ExitKept, Become
    <2> QED  BY <2>1, <2>2 DEF Consistent, Modes
  <1>2. CASE F[f].parent # NULL
    <2>1. Shape(F, C, F[f].parent, NULL) /\ F[F[f].parent].pred \notin ForeignPreds
      BY <1>0, <1>2, Kept
    <2>2. mode' = "run" /\ fr' = F[f].parent /\ lTop' = t /\ frame' = F /\ choice' = C
      BY <1>2 DEF ExitKept, Become
    <2> QED  BY <2>1, <2>2 DEF Consistent, Modes
  <1> QED  BY <1>1, <1>2

(* A foreign predicate is called in the frame on top.                        *)
LEMMA ForeignCalled ==
    ASSUME NEW F, NEW C, NEW f, Shape(F, C, f, f),
           \A y \in DOMAIN F \cup DOMAIN C : y <= f, F[f].pred \in ForeignPreds,
           NEW rs, NEW l, RefsRight(F, NULL, rs, l), NEW o, NEW k, OpenRight(C, o, k),
           CallForeign(f, F, C, o)
    PROVE  /\ Consistent(mode', fr', lTop', frame', choice')
           /\ mode' \in {"run", "yes", "over", "failed"}
           /\ RefsRight(frame', NULL, rs, l) /\ OpenRight(choice', open', k)
  <1>a. Addressed(F, C) /\ f \in DOMAIN F
    BY Addresses
  <1>1. PICK r : r = [F[f] EXCEPT !.top = f + 1, !.clause = FALSE]
    OBVIOUS
  <1>2. PICK s : s = [F[f] EXCEPT !.top = f + 1, !.clause = TRUE]
    OBVIOUS
  <1>3. /\ F[f] \in FrameRecords /\ f \in Nat /\ f + 1 \in Nat /\ f + 1 > f
        /\ f + 2 \in Nat /\ f + 2 = (f + 1) + 1
    BY <1>a DEF Addressed
  <1>4. /\ r \in FrameRecords /\ r.parent = F[f].parent /\ r.chain = F[f].chain
        /\ r.pred = F[f].pred /\ r.top = f + 1 /\ ~r.clause
    BY <1>1, <1>3 DEF FrameRecords
  <1>5. /\ s \in FrameRecords /\ s.parent = F[f].parent /\ s.chain = F[f].chain
        /\ s.pred = F[f].pred /\ s.top = f + 1 /\ s.clause
    BY <1>2, <1>3 DEF FrameRecords
  <1> DEFINE done == [F EXCEPT ![f] = r]
             kept == [F EXCEPT ![f] = s]
             D == With(C, f + 1, NewChoice("FOREIGN", f))
  <1>6. /\ Shape(done, C, f, NULL) /\ Under(done, C, f + 1)
        /\ RefsRight(done, NULL, rs, l) /\ done[f] = r
    BY <1>3, <1>4, TopChanged
  <1>7. /\ Shape(kept, C, f, f) /\ Under(kept, C, f + 1) /\ \A c \in DOMAIN C : c < f
        /\ RefsRight(kept, NULL, rs, l) /\ kept[f] = s
    BY <1>3, <1>5, TopChanged
  <1>8. \/ Become("failed", f, f + 1, done, C) /\ open' = o
        \/ ExitLast(f, done, C) /\ open' = o
        \/ ExitKept(f, f + 2, kept, D) /\ open' = o + 1
    BY <1>1, <1>2 DEF CallForeign
  <1>9. DOMAIN kept = DOMAIN F /\ f \in DOMAIN done
    BY <1>a
  <1> HIDE DEF done, kept, D
  <1>10. CASE Become("failed", f, f + 1, done, C) /\ open' = o
    <2>1. mode' = "failed" /\ fr' = f /\ lTop' = f + 1 /\ frame' = done /\ choice' = C
      BY <1>10 DEF Become
    <2> QED  BY <2>1, <1>3, <1>6, <1>10 DEF Consistent, Modes
  <1>11. CASE ExitLast(f, done, C) /\ open' = o
    <2>1. \A p \in Preds \ ForeignPreds : FramesOf(Without(done, {f}), p, NULL) = FramesOf(done, p, NULL)
      BY <1>4, <1>6 DEF FramesOf, Without, Restrict
    <2>2. RefsRight(Without(done, {f}), NULL, rs, l)
      BY <2>1, <1>6, RefsSame
    <2> QED  BY <2>2, <1>6, <1>11, LeftForGood
  <1>12. CASE ExitKept(f, f + 2, kept, D) /\ open' = o + 1
    <2>1. \A y \in DOMAIN kept \cup DOMAIN C : y <= f
      BY <1>9
    <2>2. Shape(kept, D, f, NULL) /\ Under(kept, D, f + 2) /\ f + 1 \notin DOMAIN C
      BY <2>1, <1>3, <1>5, <1>7, ChoicePushed DEF ChoiceTypes, D
    <2>3. OpenRight(D, o + 1, k)
      BY <2>2, <1>7, CallsPushed DEF Shape, D
    <2> QED  BY <2>2, <2>3, <1>3, <1>7, <1>12, LeftForNow
  <1> QED  BY <1>8, <1>10, <1>11, <1>12

(* Discarding what is above a frame or a choice point.                       *)
LEMMA AboveIs ==
    ASSUME NEW f, NEW after, NEW keep
    PROVE  Passed(frame, choice, f, after, keep, Above(f, after, keep), Newer(after))
  BY DEF Passed, Above, Newer

(* discardFrame() of the frames that go, none of which waits at its port.    *)
LEMMA Discarded ==
    ASSUME NEW f, Shape(frame, choice, f, NULL), RefsRight(frame, NULL, refs, left),
           OpenRight(choice, open, cutted),
           NEW gone, NEW cut, Together(frame, choice, gone, cut, NULL)
    PROVE  /\ RefsRight(Without(frame, gone), NULL, RefsWithout(gone), left)
           /\ OpenRight(Without(choice, cut), open - Cardinality(Contexts(gone)), cutted)
  <1>a. Addressed(frame, choice)
    BY Addresses
  <1>1. gone \subseteq DOMAIN frame /\ NULL \notin gone /\ NULL \notin DOMAIN frame
    BY <1>a DEF Together, Addressed, NULL
  <1>2. Contexts(gone) = ContextsIn(frame, gone) /\ NULL \notin ContextsIn(frame, gone)
    BY <1>1 DEF Contexts, ContextsIn
  <1>3. RefsRight(Without(frame, gone), NULL, RefsWithout(gone), left)
    BY <1>1, RefsLeft DEF RefsWithout, Shape
  <1>4. OpenRight(Without(choice, cut), open - Cardinality(ContextsIn(frame, gone)),
                  IF NULL \in ContextsIn(frame, gone) THEN cutted + 1 ELSE cutted)
    BY CallsCut
  <1> QED  BY <1>2, <1>3, <1>4


-----------------------------------------------------------------------------
(* The steps                                                                 *)

(* What the invariant says while a clause runs.                              *)
LEMMA Running ==
    ASSUME Inv, mode \in {"run", "failed"}
    PROVE  /\ Shape(frame, choice, fr, NULL) /\ Under(frame, choice, lTop) /\ lTop \in Nat
           /\ mode = "run" => frame[fr].pred \notin ForeignPreds
           /\ RefsRight(frame, NULL, refs, left) /\ OpenRight(choice, open, cutted)
  BY DEF Inv, Consistent, Counted

(* What it takes for the invariant to hold after a step.                     *)
LEMMA Holds ==
    ASSUME Consistent(mode', fr', lTop', frame', choice'), mode' # "assert",
           RefsRight(frame', IF mode' = "call" THEN fr' ELSE NULL, refs', left'),
           OpenRight(choice', open', cutted')
    PROVE  Inv'
  BY DEF Inv, Counted, RefsRight, OpenRight

(* I_CALL and I_USERCALL0: a frame on top.                                   *)
LEMMA CallStep ==
    ASSUME WellFormed, Inv, Call
    PROVE  Inv'
  <1>1. CallGoal(fr, lTop, frame, choice, refs) /\ open' = open /\ left' = left /\ cutted' = cutted
        /\ mode = "run"
    BY DEF Call
  <1>2. /\ Consistent(mode', fr', lTop', frame', choice') /\ choice' = choice /\ mode' \in {"call", "run"}
        /\ RefsRight(frame', IF mode' = "call" THEN fr' ELSE NULL, refs', left)
    BY <1>1, Running, GoalCalled
  <1> QED  BY <1>1, <1>2, Running, Holds

(* I_CATCH: a choice point on top, and a frame on that.                      *)
LEMMA CatchStep ==
    ASSUME WellFormed, Inv, Catch
    PROVE  Inv'
  <1> DEFINE D == With(choice, lTop, NewChoice("CATCH", fr))
  <1>1. CallGoal(fr, lTop + 1, frame, D, refs) /\ open' = open /\ left' = left /\ cutted' = cutted
        /\ mode = "run"
    BY DEF Catch
  <1>2. /\ Shape(frame, choice, fr, NULL) /\ Under(frame, choice, lTop) /\ lTop \in Nat /\ lTop + 1 \in Nat
        /\ frame[fr].pred \notin ForeignPreds
        /\ RefsRight(frame, NULL, refs, left) /\ OpenRight(choice, open, cutted)
    BY <1>1, Running
  <1>3. Shape(frame, D, fr, NULL) /\ Under(frame, D, lTop + 1) /\ lTop \notin DOMAIN choice
    BY <1>2, ChoicePushed DEF ChoiceTypes
  <1>4. OpenRight(D, open, cutted)
    BY <1>2, <1>3, CallsPushed DEF Shape
  <1> HIDE DEF D
  <1>5. /\ Consistent(mode', fr', lTop', frame', choice') /\ choice' = D /\ mode' \in {"call", "run"}
        /\ RefsRight(frame', IF mode' = "call" THEN fr' ELSE NULL, refs', left)
    BY <1>1, <1>2, <1>3, GoalCalled
  <1> QED  BY <1>1, <1>4, <1>5, Holds

(* C_OR and the like: a choice point of the clause on top.                   *)
LEMMA OrStep ==
    ASSUME WellFormed, Inv, Or
    PROVE  Inv'
  <1> DEFINE D == With(choice, lTop, NewChoice("JUMP", fr))
  <1>1. /\ mode = "run" /\ mode' = "run" /\ fr' = fr /\ lTop' = lTop + 1 /\ frame' = frame /\ choice' = D
        /\ refs' = refs /\ open' = open /\ left' = left /\ cutted' = cutted
    BY DEF Or, Become, counts
  <1>2. /\ Shape(frame, choice, fr, NULL) /\ Under(frame, choice, lTop) /\ lTop \in Nat /\ lTop + 1 \in Nat
        /\ frame[fr].pred \notin ForeignPreds
        /\ RefsRight(frame, NULL, refs, left) /\ OpenRight(choice, open, cutted)
    BY <1>1, Running
  <1>3. Shape(frame, D, fr, NULL) /\ Under(frame, D, lTop + 1) /\ lTop \notin DOMAIN choice
    BY <1>2, ChoicePushed DEF ChoiceTypes
  <1>4. OpenRight(D, open, cutted)
    BY <1>2, <1>3, CallsPushed DEF Shape
  <1> HIDE DEF D
  <1>5. Consistent(mode', fr', lTop', frame', choice')
    BY <1>1, <1>2, <1>3 DEF Consistent, Modes
  <1> QED  BY <1>1, <1>2, <1>4, <1>5, Holds

(* I_EXIT: the frame goes, or stays for a choice point above it.             *)
LEMMA ExitStep ==
    ASSUME WellFormed, Inv, Exit
    PROVE  Inv'
  <1>1. /\ mode = "run" /\ open' = open /\ left' = left /\ cutted' = cutted
        /\ \/ ExitLast(fr, frame, choice) /\ refs' = RefsWithout({fr})
           \/ ExitKept(fr, lTop, frame, choice) /\ refs' = refs
    BY DEF Exit
  <1>2. /\ Shape(frame, choice, fr, NULL) /\ Under(frame, choice, lTop) /\ lTop \in Nat
        /\ RefsRight(frame, NULL, refs, left) /\ OpenRight(choice, open, cutted)
        /\ Records(frame, choice)
    BY <1>1, Running DEF Shape
  <1>a. Addressed(frame, choice) /\ fr \in DOMAIN frame
    BY <1>2, Addresses
  <1>3. CASE ExitLast(fr, frame, choice) /\ refs' = RefsWithout({fr})
    <2>1. {fr} \in SUBSET DOMAIN frame /\ NULL \notin DOMAIN frame
      BY <1>a DEF Addressed, NULL
    <2>2. RefsRight(Without(frame, {fr}), NULL, refs', left)
      BY <2>1, <1>2, <1>3, RefsLeft DEF RefsWithout
    <2>3. /\ Consistent(mode', fr', lTop', frame', choice') /\ mode' \in {"run", "over"}
          /\ RefsRight(frame', NULL, refs', left) /\ OpenRight(choice', open, cutted)
      BY <2>2, <1>2, <1>3, LeftForGood
    <2> QED  BY <2>3, <1>1, Holds
  <1>4. CASE ExitKept(fr, lTop, frame, choice) /\ refs' = refs
    <2>1. /\ Consistent(mode', fr', lTop', frame', choice') /\ mode' \in {"run", "yes"}
          /\ frame' = frame /\ choice' = choice
      BY <1>2, <1>4, LeftForNow
    <2> QED  BY <2>1, <1>1, <1>2, <1>4, Holds
  <1> QED  BY <1>1, <1>3, <1>4

(* What the invariant says of a goal at its call port: it is on top.         *)
LEMMA AtPort ==
    ASSUME Inv, mode = "call"
    PROVE  /\ Shape(frame, choice, fr, fr) /\ Under(frame, choice, fr + 1) /\ fr \in Nat
           /\ \A y \in DOMAIN frame \cup DOMAIN choice : y <= fr
           /\ \A c \in DOMAIN choice : c < fr
           /\ RefsRight(frame, fr, refs, left) /\ OpenRight(choice, open, cutted)
  <1>1. Shape(frame, choice, fr, fr) /\ Under(frame, choice, fr + 1)
        /\ RefsRight(frame, fr, refs, left) /\ OpenRight(choice, open, cutted)
    BY DEF Inv, Consistent, Counted
  <1>a. Addressed(frame, choice) /\ fr \in DOMAIN frame
    BY <1>1, Addresses
  <1>2. fr \in Nat
    BY <1>a DEF Addressed
  <1>3. \A x \in DOMAIN frame : x <= fr
    <2> SUFFICES ASSUME NEW x \in DOMAIN frame PROVE x <= fr
      OBVIOUS
    <2>1. x \in Nat /\ frame[x].top \in Nat /\ x < frame[x].top /\ frame[x].top <= fr + 1
      BY <1>1, <1>a DEF Under, Addressed
    <2> QED  BY <2>1, <1>2
  <1>4. \A c \in DOMAIN choice : c < fr
    <2> SUFFICES ASSUME NEW c \in DOMAIN choice PROVE c < fr
      OBVIOUS
    <2>1. c \in Nat /\ c # fr /\ c < fr + 1
      BY <1>1, <1>a DEF Under, Addressed
    <2> QED  BY <2>1, <1>2
  <1>5. \A c \in DOMAIN choice : c <= fr
    BY <1>a, <1>4, <1>2 DEF Addressed
  <1> QED  BY <1>1, <1>2, <1>3, <1>4, <1>5

(* A foreign predicate is called, and has no reference.                      *)
LEMMA EnterForeignStep ==
    ASSUME WellFormed, Inv, EnterForeign
    PROVE  Inv'
  <1>1. /\ mode = "call" /\ frame[fr].pred \in ForeignPreds
        /\ CallForeign(fr, frame, choice, open) /\ refs' = refs /\ left' = left /\ cutted' = cutted
    BY DEF EnterForeign
  <1>2. /\ Shape(frame, choice, fr, fr) /\ \A y \in DOMAIN frame \cup DOMAIN choice : y <= fr
        /\ RefsRight(frame, fr, refs, left) /\ OpenRight(choice, open, cutted) /\ Records(frame, choice)
    BY <1>1, AtPort DEF Shape
  <1>a. Addressed(frame, choice) /\ fr \in DOMAIN frame
    BY <1>2, Addresses
  <1>3. RefsRight(frame, NULL, refs, left)
    BY <1>1, <1>2, <1>a, RefsEntered DEF Addressed, NULL
  <1>4. /\ Consistent(mode', fr', lTop', frame', choice')
        /\ mode' \in {"run", "yes", "over", "failed"}
        /\ RefsRight(frame', NULL, refs, left) /\ OpenRight(choice', open', cutted)
    BY <1>1, <1>2, <1>3, ForeignCalled
  <1> QED  BY <1>1, <1>4, Holds

(* The definition is entered, and a clause is found or not.                  *)
LEMMA EnterStep ==
    ASSUME WellFormed, Inv, Enter
    PROVE  Inv'
  <1> DEFINE q == frame[fr].pred
  <1>1. /\ mode = "call" /\ q \notin ForeignPreds /\ (NoClause \/ RunClause(fr, frame, choice))
        /\ refs' = [refs EXCEPT ![q] = @ + 1] /\ open' = open /\ left' = left /\ cutted' = cutted
    BY DEF Enter
  <1>2. /\ Shape(frame, choice, fr, fr) /\ \A y \in DOMAIN frame \cup DOMAIN choice : y <= fr
        /\ RefsRight(frame, fr, refs, left) /\ OpenRight(choice, open, cutted) /\ Records(frame, choice)
    BY <1>1, AtPort DEF Shape
  <1>a. Addressed(frame, choice) /\ fr \in DOMAIN frame /\ NULL \notin DOMAIN frame
    BY <1>2, Addresses DEF Addressed, NULL
  <1>3. frame[fr] \in FrameRecords /\ q \in Preds /\ fr \in Nat
    BY <1>a DEF Addressed, FrameRecords
  <1>4. RefsRight(frame, NULL, refs', left)
    <2> HIDE DEF q
    <2>1. q = frame[fr].pred
      BY DEF q
    <2>2. RefsRight(frame, NULL, [refs EXCEPT ![q] = @ + 1], left)
      BY <2>1, <1>1, <1>2, <1>3, <1>a, RefsEntered
    <2> QED  BY <2>2, <1>1
  <1>5. CASE RunClause(fr, frame, choice)
    <2>1. /\ Consistent(mode', fr', lTop', frame', choice') /\ mode' = "run"
          /\ RefsRight(frame', NULL, refs', left) /\ OpenRight(choice', open, cutted)
      BY <1>1, <1>2, <1>4, <1>5, ClauseRuns
    <2> QED  BY <2>1, <1>1, Holds
  <1>6. CASE NoClause
    <2>1. PICK r : r = [frame[fr] EXCEPT !.clause = FALSE]
      OBVIOUS
    <2>2. /\ r \in FrameRecords /\ r.parent = frame[fr].parent /\ r.chain = frame[fr].chain
          /\ r.pred = frame[fr].pred /\ r.top = frame[fr].top /\ ~r.clause
      BY <2>1, <1>3 DEF FrameRecords
    <2>3. r.top > fr /\ r.top \in Nat /\ lTop = fr + 1
      BY <2>2, <1>1, <1>a DEF Addressed, Inv, Consistent
    <2> DEFINE G == [frame EXCEPT ![fr] = r]
    <2>4. /\ Shape(G, choice, fr, NULL) /\ Under(G, choice, r.top) /\ RefsRight(G, NULL, refs', left)
      BY <2>2, <2>3, <1>2, <1>4, TopChanged
    <2>5. mode' = "failed" /\ fr' = fr /\ lTop' = lTop /\ frame' = G /\ choice' = choice
      BY <2>1, <1>6 DEF NoClause, Become
    <2> HIDE DEF G
    <2>6. r.top <= fr + 1
      BY <2>2, <1>1, <1>a, AtPort DEF Under
    <2>7. r.top = lTop
      BY <2>3, <2>6, <1>3
    <2>8. Consistent(mode', fr', lTop', frame', choice')
      BY <2>3, <2>4, <2>5, <2>7 DEF Consistent, Modes
    <2> QED  BY <2>4, <2>5, <2>8, <1>1, <1>2, Holds
  <1> QED  BY <1>1, <1>5, <1>6

(* I_DEPART: the reference of the old predicate goes, the frame stays.       *)
LEMMA DepartStep ==
    ASSUME WellFormed, Inv, Depart
    PROVE  Inv'
  <1>1. /\ mode = "run" /\ mode' = "call" /\ Newer(fr) = {} /\ refs' = RefsWithout({fr})
        /\ open' = open /\ left' = left /\ cutted' = cutted
    BY DEF Depart
  <1>2. PICK p \in Preds : Become("call", fr, fr + 1,
                               [frame EXCEPT ![fr] = [@ EXCEPT !.pred = p, !.top = fr + 1]], choice)
    BY DEF Depart
  <1>3. /\ Shape(frame, choice, fr, NULL) /\ frame[fr].pred \notin ForeignPreds
        /\ RefsRight(frame, NULL, refs, left) /\ OpenRight(choice, open, cutted) /\ Records(frame, choice)
    BY <1>1, Running DEF Shape
  <1>a. Addressed(frame, choice) /\ fr \in DOMAIN frame /\ NULL \notin DOMAIN frame
    BY <1>3, Addresses DEF Addressed, NULL
  <1>4. \A c \in DOMAIN choice : c <= fr
    BY <1>1, <1>a DEF Newer, Addressed
  <1>5. \A x \in DOMAIN frame : x <= fr
    <2> SUFFICES ASSUME NEW x \in DOMAIN frame PROVE x <= fr
      OBVIOUS
    <2>1. fr \in Nat /\ fr >= 2 /\ x \in Nat
      BY <1>a DEF Addressed
    <2>2. ASSUME NEW c \in DOMAIN choice, x \in frame[choice[c].frame].chain PROVE x <= fr
      <3>1. choice[c].frame \in DOMAIN frame /\ choice[c].frame \in Nat /\ x <= choice[c].frame
            /\ (c = 1 => choice[c].frame = 2) /\ (c # 1 => choice[c].frame < c) /\ c \in Nat
        BY <2>2, <1>a DEF Addressed
      <3> QED  BY <3>1, <2>1, <1>4
    <2>3. x \in frame[fr].chain => x <= fr
      BY <1>a DEF Addressed
    <2> QED  BY <2>2, <2>3, <1>3 DEF Shape, Whole, InUse
  <1>6. PICK r : r = [frame[fr] EXCEPT !.pred = p, !.top = fr + 1]
    OBVIOUS
  <1>7. frame[fr] \in FrameRecords /\ fr \in Nat /\ fr + 1 \in Nat /\ fr + 1 > fr
    BY <1>a DEF Addressed
  <1>8. /\ r \in FrameRecords /\ r.parent = frame[fr].parent /\ r.chain = frame[fr].chain
        /\ r.pred = p /\ r.top = fr + 1
    BY <1>6, <1>7 DEF FrameRecords
  <1> DEFINE G == [frame EXCEPT ![fr] = r]
  <1>9. Shape(G, choice, fr, fr) /\ Under(G, choice, fr + 1)
    <2>1. \A y \in DOMAIN frame \cup DOMAIN choice : y <= fr
      BY <1>4, <1>5
    <2> QED  BY <2>1, <1>3, <1>7, <1>8, <1>a, FrameChanged
  <1>10. mode' = "call" /\ fr' = fr /\ lTop' = fr + 1 /\ frame' = G /\ choice' = choice
    BY <1>2, <1>6 DEF Become
  <1>11. /\ DOMAIN G = DOMAIN frame /\ \A x \in DOMAIN frame : x # fr => G[x] = frame[x]
    BY <1>a
  <1> HIDE DEF G
  <1>12. RefsRight(Without(frame, {fr}), NULL, refs', left)
    BY <1>1, <1>3, <1>a, RefsLeft DEF RefsWithout
  <1>13. RefsRight(G, fr, refs', left)
    <2>1. \A x \in Preds \ ForeignPreds : FramesOf(G, x, fr) = FramesOf(Without(frame, {fr}), x, NULL)
      BY <1>11, <1>a DEF FramesOf, Without, Restrict
    <2> QED  BY <2>1, <1>12, RefsSame
  <1>14. Consistent(mode', fr', lTop', frame', choice')
    BY <1>7, <1>9, <1>10 DEF Consistent, Modes
  <1> QED  BY <1>1, <1>3, <1>10, <1>13, <1>14, Holds

Softer(C, b, D) == D = [C EXCEPT ![b].type = "NONE"]

(* A choice point of a disjunction may be made one that only fails.          *)
LEMMA Softened ==
    ASSUME NEW F, NEW C, NEW f, NEW w, Shape(F, C, f, w), NEW b \in DOMAIN C, C[b].type = "JUMP",
           NEW D, Softer(C, b, D), NEW t, Under(F, C, t)
    PROVE  Shape(F, D, f, w) /\ Under(F, D, t) /\ Calls(D) = Calls(C)
  <1>1. Records(F, C) /\ Linked(F) /\ Apart(F, C) /\ Owned(F, C) /\ f \in DOMAIN F
        /\ Nested(F, C, f) /\ Whole(F, C, f) /\ Called(F, C, w)
    BY DEF Shape
  <1>2. C \in [DOMAIN C -> [type : ChoiceTypes, frame : Nat]]
    BY <1>1 DEF Records
  <1>3. /\ DOMAIN D = DOMAIN C /\ D \in [DOMAIN C -> [type : ChoiceTypes, frame : Nat]]
        /\ \A c \in DOMAIN C : D[c].frame = C[c].frame
        /\ \A c \in DOMAIN C : c # b => D[c] = C[c]
        /\ D[b].type = "NONE"
    BY <1>2 DEF ChoiceTypes, Softer
  <1>4. \A c \in DOMAIN C : \A e \in {"TOP", "CLAUSE", "FOREIGN"} : D[c].type = e <=> C[c].type = e
    BY <1>3
  <1>5. Records(F, D)
    BY <1>1, <1>3 DEF Records
  <1>6. Apart(F, D)
    BY <1>1, <1>3 DEF Apart
  <1>7. Owned(F, D)
    BY <1>1, <1>3, <1>4 DEF Owned
  <1>8. Nested(F, D, f)
    BY <1>1, <1>3 DEF Nested, Nests
  <1>9. Whole(F, D, f)
    BY <1>1, <1>3 DEF Whole, InUse
  <1>10. Called(F, D, w)
    BY <1>1, <1>3, <1>4 DEF Called
  <1>11. Under(F, D, t)
    BY <1>3 DEF Under
  <1>12. Calls(D) = Calls(C)
    BY <1>3, <1>4 DEF Calls
  <1> QED  BY <1>1, <1>5, <1>6, <1>7, <1>8, <1>9, <1>10, <1>11, <1>12 DEF Shape

(* C_SOFTCUT: the choice point of the condition only fails from now on.      *)
LEMMA SoftCutStep ==
    ASSUME WellFormed, Inv, SoftCut
    PROVE  Inv'
  <1>1. PICK b \in DOMAIN choice : choice[b].type = "JUMP"
           /\ Become("run", fr, lTop, frame, [choice EXCEPT ![b].type = "NONE"])
    BY DEF SoftCut
  <1>2. /\ mode = "run" /\ mode' = "run" /\ fr' = fr /\ lTop' = lTop /\ frame' = frame
        /\ choice' = [choice EXCEPT ![b].type = "NONE"]
        /\ refs' = refs /\ open' = open /\ left' = left /\ cutted' = cutted
    BY <1>1 DEF SoftCut, Become, counts
  <1>3. /\ Shape(frame, choice, fr, NULL) /\ Under(frame, choice, lTop) /\ lTop \in Nat
        /\ frame[fr].pred \notin ForeignPreds
        /\ RefsRight(frame, NULL, refs, left) /\ OpenRight(choice, open, cutted)
    BY <1>2, Running
  <1>4. Shape(frame, choice', fr, NULL) /\ Under(frame, choice', lTop) /\ Calls(choice') = Calls(choice)
    <2>1. Softer(choice, b, choice')
      BY <1>2 DEF Softer
    <2> QED  BY <2>1, <1>1, <1>3, Softened
  <1>5. Consistent(mode', fr', lTop', frame', choice')
    BY <1>2, <1>3, <1>4 DEF Consistent, Modes
  <1>6. OpenRight(choice', open', cutted')
    BY <1>2, <1>3, <1>4 DEF OpenRight
  <1> QED  BY <1>2, <1>3, <1>5, <1>6, Holds

(* Prune() when what is left is as it should be.                             *)
LEMMA Pruned ==
    ASSUME Inv, mode = "run", NEW och, NEW keep, NEW top \in Nat, Prune(och, keep, top),
           NEW gone, gone = Above(fr, och, keep), NEW cut, cut = Newer(och),
           Shape(Without(frame, gone), Without(choice, cut), fr, NULL),
           Under(Without(frame, gone), Without(choice, cut), top), fr \in DOMAIN frame \ gone,
           Together(frame, choice, gone, cut, NULL)
    PROVE  Inv'
  <1>1. /\ mode' = "run" /\ fr' = fr /\ lTop' = top /\ frame' = Without(frame, gone)
        /\ choice' = Without(choice, cut) /\ refs' = RefsWithout(gone)
        /\ open' = open - Cardinality(Contexts(gone)) /\ left' = left /\ cutted' = cutted
    BY DEF Prune, Become, Discard
  <1>2. /\ Shape(frame, choice, fr, NULL) /\ frame[fr].pred \notin ForeignPreds
        /\ RefsRight(frame, NULL, refs, left) /\ OpenRight(choice, open, cutted)
    BY Running
  <1>3. RefsRight(frame', NULL, refs', left') /\ OpenRight(choice', open', cutted')
    BY <1>1, <1>2, Discarded
  <1>4. frame'[fr] = frame[fr]
    BY <1>1 DEF Without, Restrict
  <1>5. Consistent(mode', fr', lTop', frame', choice')
    BY <1>1, <1>2, <1>4 DEF Consistent, Modes
  <1> QED  BY <1>1, <1>3, <1>5, Holds

(* I_CUT: what is above the frame goes.                                      *)
LEMMA CutStep ==
    ASSUME WellFormed, Inv, Cut
    PROVE  Inv'
  <1> DEFINE gone == Above(fr, fr, fr)
             cut == Newer(fr)
  <1>1. mode = "run" /\ Prune(fr, fr, frame[fr].top)
    BY DEF Cut
  <1>2. Shape(frame, choice, fr, NULL) /\ frame[fr].pred \notin ForeignPreds
    BY <1>1, Running
  <1>a. Addressed(frame, choice) /\ fr \in DOMAIN frame
    BY <1>2, Addresses
  <1>3. fr \in frame[fr].chain /\ frame[fr].top \in Nat
    BY <1>a DEF Addressed
  <1>4. Passed(frame, choice, fr, fr, fr, gone, cut)
    BY AboveIs
  <1> HIDE DEF gone, cut
  <1>6. /\ Shape(Without(frame, gone), Without(choice, cut), fr, NULL)
        /\ Under(Without(frame, gone), Without(choice, cut), frame[fr].top)
        /\ fr \in DOMAIN frame \ gone /\ gone \subseteq DOMAIN frame
        /\ \A c \in DOMAIN choice : choice[c].type = "FOREIGN" => (c \in cut <=> choice[c].frame \in gone)
    BY <1>2, <1>3, <1>4, Unwound
  <1>7. Together(frame, choice, gone, cut, NULL)
    BY <1>6, <1>a DEF Together, Addressed, NULL
  <1> QED  BY <1>1, <1>3, <1>6, <1>7, Pruned DEF gone, cut

(* C_CUT and C_LCUT: what is above a choice point or the frame goes.         *)
LEMMA CutToStep ==
    ASSUME WellFormed, Inv, CutTo
    PROVE  Inv'
  <1>1. mode = "run"
    BY DEF CutTo
  <1>2. PICK och \in DOMAIN choice :
           LET keep == IF fr > choice[och].frame THEN fr ELSE choice[och].frame
           IN  /\ \A c \in Newer(och) : c > fr
               /\ Prune(och, keep, IF och > keep THEN och + 1 ELSE frame[keep].top)
    BY DEF CutTo
  <1> DEFINE keep == IF fr > choice[och].frame THEN fr ELSE choice[och].frame
             top == IF och > keep THEN och + 1 ELSE frame[keep].top
             gone == Above(fr, och, keep)
             cut == Newer(och)
  <1>3. Prune(och, keep, top) /\ Since(choice, och, fr)
    BY <1>2 DEF Newer, Since
  <1>4. Shape(frame, choice, fr, NULL) /\ frame[fr].pred \notin ForeignPreds
    BY <1>1, Running
  <1>a. Addressed(frame, choice) /\ fr \in DOMAIN frame
    BY <1>4, Addresses
  <1>5. Passed(frame, choice, fr, och, keep, gone, cut)
    <2> HIDE DEF keep
    <2> QED  BY AboveIs
  <1>7. (fr > choice[och].frame => keep = fr) /\ (~(fr > choice[och].frame) => keep = choice[och].frame)
    OBVIOUS
  <1>8. top = IF och > keep THEN och + 1 ELSE frame[keep].top
    OBVIOUS
  <1> HIDE DEF keep, top, gone, cut
  <1>9. /\ Shape(Without(frame, gone), Without(choice, cut), fr, NULL)
        /\ Under(Without(frame, gone), Without(choice, cut),
                 IF och > keep THEN och + 1 ELSE frame[keep].top)
        /\ keep \in DOMAIN frame /\ fr \in DOMAIN frame \ gone /\ gone \subseteq DOMAIN frame
        /\ \A c \in DOMAIN choice : choice[c].type = "FOREIGN" => (c \in cut <=> choice[c].frame \in gone)
    BY <1>3, <1>4, <1>5, <1>7, CutBack
  <1>10. top \in Nat
    BY <1>8, <1>9, <1>a DEF Addressed
  <1>11. Together(frame, choice, gone, cut, NULL)
    BY <1>9, <1>a DEF Together, Addressed, NULL
  <1>12. gone = Above(fr, och, keep) /\ cut = Newer(och)
    BY DEF gone, cut
  <1> QED  BY <1>1, <1>3, <1>8, <1>9, <1>10, <1>11, <1>12, Pruned

(* next_choice: the frames above the newest choice point go.                 *)
LEMMA BacktrackStep ==
    ASSUME WellFormed, Inv, Backtrack
    PROVE  Inv'
  <1>1. PICK b \in DOMAIN choice : Redo(b)
    BY DEF Backtrack
  <1> DEFINE gone == {g \in frame[fr].chain : g > b}
             back == choice[b].frame
             F == Without(frame, gone)
             C == Without(choice, {b})
             type == choice[b].type
  <1>2. /\ Newest(choice, b) /\ refs' = RefsWithout(gone) /\ left' = left /\ cutted' = cutted
        /\ \/ type = "JUMP" /\ Become("run", back, b, F, C) /\ UNCHANGED open
           \/ type = "CLAUSE" /\ RunClause(back, F, C) /\ UNCHANGED open
           \/ type = "FOREIGN" /\ CallForeign(back, F, C, open - 1)
           \/ type \in {"CATCH", "NONE"} /\ Become("failed", back, lTop, F, C) /\ UNCHANGED open
           \/ type = "TOP" /\ Stop("over") /\ UNCHANGED open
    BY <1>1 DEF Redo, Newer, Newest
  <1>3. /\ Shape(frame, choice, fr, NULL) /\ Under(frame, choice, lTop) /\ lTop \in Nat
        /\ RefsRight(frame, NULL, refs, left) /\ OpenRight(choice, open, cutted)
        /\ Records(frame, choice) /\ Owned(frame, choice) /\ Whole(frame, choice, fr)
    BY Running DEF Shape, Backtrack
  <1>a. Addressed(frame, choice) /\ fr \in DOMAIN frame /\ NULL \notin DOMAIN frame
    BY <1>3, Addresses DEF Addressed, NULL
  <1>4. gone \subseteq DOMAIN frame /\ PassedBack(frame, fr, b, gone)
    BY <1>a DEF Addressed, PassedBack
  <1>5. back \in DOMAIN frame /\ b \in Nat
    BY <1>a DEF Addressed
  <1>6. /\ type = "TOP" <=> b = QueryChoice
        /\ type = "FOREIGN" => frame[back].pred \in ForeignPreds
        /\ type \notin {"FOREIGN", "TOP"} => frame[back].pred \notin ForeignPreds
    BY <1>3 DEF Owned
  <1> DEFINE w == IF type = "FOREIGN" THEN back ELSE NULL
  <1>7. (type = "FOREIGN" => w = choice[b].frame) /\ (type # "FOREIGN" => w = NULL)
    OBVIOUS
  <1>8. /\ F = Without(frame, gone) /\ C = Without(choice, {b})
        /\ back = choice[b].frame /\ type = choice[b].type
    OBVIOUS
  <1> HIDE DEF gone, back, F, C, type, w
  <1>9. RefsRight(F, NULL, refs', left) /\ OpenRight(C, IF type = "FOREIGN" THEN open - 1 ELSE open, cutted)
    <2>1. RefsRight(F, NULL, refs', left)
      BY <1>2, <1>3, <1>4, <1>8, <1>a, RefsLeft DEF RefsWithout
    <2>2. OpenRight(C, IF type = "FOREIGN" THEN open - 1 ELSE open, cutted)
      BY <1>3, <1>8, CallsTaken
    <2> QED  BY <2>1, <2>2
  <1>10. type # "TOP" =>
           /\ Shape(F, C, back, w) /\ Under(F, C, b) /\ back \in DOMAIN frame \ gone
           /\ F[back] = frame[back]
           /\ type \in {"CLAUSE", "FOREIGN"} => \A y \in DOMAIN F \cup DOMAIN C : y <= back
    <2> SUFFICES ASSUME type # "TOP"
                 PROVE  /\ Shape(F, C, back, w) /\ Under(F, C, b) /\ back \in DOMAIN frame \ gone
                        /\ F[back] = frame[back]
                        /\ type \in {"CLAUSE", "FOREIGN"} => \A y \in DOMAIN F \cup DOMAIN C : y <= back
      OBVIOUS
    <2>1. b # QueryChoice
      BY <1>6
    <2>2. /\ Shape(Without(frame, gone), Without(choice, {b}), choice[b].frame, w)
          /\ Under(Without(frame, gone), Without(choice, {b}), b)
          /\ choice[b].frame \in DOMAIN frame \ gone
          /\ choice[b].type \in {"CLAUSE", "FOREIGN"} =>
                \A y \in DOMAIN Without(frame, gone) \cup DOMAIN Without(choice, {b}) : y <= choice[b].frame
      BY <2>1, <1>2, <1>3, <1>4, <1>7, <1>8, Resumed
    <2>3. Without(frame, gone)[choice[b].frame] = frame[choice[b].frame]
      BY <2>2 DEF Without, Restrict
    <2> QED  BY <2>2, <2>3, <1>8
  <1>11. CASE type = "JUMP" /\ Become("run", back, b, F, C) /\ UNCHANGED open
    <2>1. mode' = "run" /\ fr' = back /\ lTop' = b /\ frame' = F /\ choice' = C /\ open' = open /\ w = NULL
      BY <1>7, <1>11 DEF Become
    <2>2. Consistent(mode', fr', lTop', frame', choice')
      BY <2>1, <1>5, <1>6, <1>10, <1>11 DEF Consistent, Modes
    <2> QED  BY <2>1, <2>2, <1>2, <1>9, <1>11, Holds
  <1>12. CASE type = "CLAUSE" /\ RunClause(back, F, C) /\ UNCHANGED open
    <2>1. w = NULL /\ open' = open /\ \A y \in DOMAIN F \cup DOMAIN C : y <= back
      BY <1>7, <1>10, <1>12
    <2>2. /\ Consistent(mode', fr', lTop', frame', choice') /\ mode' = "run"
          /\ RefsRight(frame', NULL, refs', left) /\ OpenRight(choice', open, cutted)
      BY <2>1, <1>6, <1>9, <1>10, <1>12, ClauseRuns
    <2> QED  BY <2>1, <2>2, <1>2, Holds
  <1>13. CASE type = "FOREIGN" /\ CallForeign(back, F, C, open - 1)
    <2>1. w = back /\ \A y \in DOMAIN F \cup DOMAIN C : y <= back
      BY <1>7, <1>8, <1>10, <1>13
    <2>2. /\ Consistent(mode', fr', lTop', frame', choice')
          /\ mode' \in {"run", "yes", "over", "failed"}
          /\ RefsRight(frame', NULL, refs', left) /\ OpenRight(choice', open', cutted)
      BY <2>1, <1>6, <1>9, <1>10, <1>13, ForeignCalled
    <2> QED  BY <2>2, <1>2, Holds
  <1>14. CASE type \in {"CATCH", "NONE"} /\ Become("failed", back, lTop, F, C) /\ UNCHANGED open
    <2>1. /\ mode' = "failed" /\ fr' = back /\ lTop' = lTop /\ frame' = F /\ choice' = C
          /\ open' = open /\ w = NULL
      BY <1>7, <1>14 DEF Become
    <2>2. Under(F, C, lTop)
      BY <1>3, <1>8 DEF Under, Without, Restrict
    <2>3. Consistent(mode', fr', lTop', frame', choice')
      BY <2>1, <2>2, <1>3, <1>10, <1>14 DEF Consistent, Modes
    <2> QED  BY <2>1, <2>3, <1>2, <1>9, <1>14, Holds
  <1>15. CASE type = "TOP" /\ Stop("over") /\ UNCHANGED open
    <2>1. b = 1 /\ \A c \in DOMAIN choice : c = 1
      BY <1>2, <1>6, <1>15, <1>a DEF Newest, QueryChoice, Addressed
    <2>2. \A x \in DOMAIN frame : x \in gone
      <3> SUFFICES ASSUME NEW x \in DOMAIN frame PROVE x \in gone
        OBVIOUS
      <3>1. x \in Nat /\ x > 1
        BY <1>a DEF Addressed
      <3>2. x \in frame[2].chain => x = 2
        BY <1>a, <3>1 DEF Addressed
      <3>3. 2 \in frame[fr].chain
        BY <1>3, <1>a DEF Shape, Linked, QueryFrame
      <3>4. x \in frame[fr].chain
        BY <2>1, <3>2, <3>3, <1>3, <1>a DEF Whole, InUse, Addressed
      <3> QED  BY <3>1, <3>4, <2>1, <1>4 DEF PassedBack
    <2>3. F = Empty /\ C = Empty
      BY <2>1, <2>2, <1>8, <1>a DEF Without, Restrict, Empty
    <2>4. /\ mode' = "over" /\ fr' = NULL /\ lTop' = NULL /\ frame' = Empty /\ choice' = Empty
          /\ open' = open
      BY <1>15 DEF Stop, Become
    <2>5. Consistent(mode', fr', lTop', frame', choice')
      BY <2>4 DEF Consistent, Modes, NULL
    <2> QED  BY <2>3, <2>4, <2>5, <1>2, <1>9, <1>15, Holds
  <1> QED  BY <1>2, <1>11, <1>12, <1>13, <1>14, <1>15

(* What goes when a goal at its call port may be among it.                   *)
LEMMA LeftBehind ==
    ASSUME Inv, Live, LeftAtPort, NEW gone, NEW cut, Together(frame, choice, gone, cut, Port),
           Port = NULL \/ Port \in gone
    PROVE  /\ RefsRight(Without(frame, gone), NULL, RefsWithout(gone), left')
           /\ OpenRight(Without(choice, cut), open - Cardinality(Contexts(gone)), cutted')
  <1> DEFINE p == frame[fr].pred
  <1>1. /\ Shape(frame, choice, fr, Port) /\ RefsRight(frame, Port, refs, left)
        /\ OpenRight(choice, open, cutted) /\ Records(frame, choice)
    BY DEF Inv, Consistent, Counted, Live, Port, Shape
  <1>a. Addressed(frame, choice) /\ fr \in DOMAIN frame /\ NULL \notin DOMAIN frame
    BY <1>1, Addresses DEF Addressed, NULL
  <1>2. gone \subseteq DOMAIN frame /\ NULL \notin gone
    BY <1>a DEF Together
  <1>3. /\ left' = IF mode = "call" /\ p \notin ForeignPreds THEN [left EXCEPT ![p] = @ + 1] ELSE left
        /\ cutted' = IF mode = "call" /\ Contexts({fr}) # {} THEN cutted + 1 ELSE cutted
    BY DEF LeftAtPort
  <1>4. p \in Preds
    BY <1>a DEF Addressed, FrameRecords
  <1>5. RefsRight(frame, NULL, refs, left')
    <2>0. p = frame[fr].pred
      OBVIOUS
    <2> HIDE DEF p
    <2>1. CASE mode = "call"
      <3>1. RefsRight(frame, fr, refs, left)
        BY <2>1, <1>1 DEF Port
      <3>2. p \in ForeignPreds => RefsRight(frame, NULL, refs, left)
        BY <2>0, <3>1, <1>1, <1>a, RefsEntered
      <3>3. p \notin ForeignPreds => RefsRight(frame, NULL, refs, [left EXCEPT ![p] = @ + 1])
        BY <2>0, <3>1, <1>1, <1>4, <1>a, RefsEntered
      <3> QED  BY <2>1, <3>2, <3>3, <1>3
    <2>2. CASE mode # "call"
      BY <2>2, <1>1, <1>3 DEF Port
    <2> QED  BY <2>1, <2>2
  <1>6. RefsRight(Without(frame, gone), NULL, RefsWithout(gone), left')
    BY <1>1, <1>2, <1>5, <1>a, RefsLeft DEF RefsWithout
  <1>7. Contexts(gone) = ContextsIn(frame, gone)
    BY DEF Contexts, ContextsIn
  <1>8. OpenRight(Without(choice, cut), open - Cardinality(ContextsIn(frame, gone)),
                  IF Port \in ContextsIn(frame, gone) THEN cutted + 1 ELSE cutted)
    BY <1>1, CallsCut
  <1>9. cutted' = IF Port \in ContextsIn(frame, gone) THEN cutted + 1 ELSE cutted
    <2>1. CASE mode = "call"
      <3>1. Port = fr /\ fr \in gone
        BY <2>1, <1>2, <1>a DEF Port
      <3>2. Contexts({fr}) # {} <=> fr \in ContextsIn(frame, gone)
        BY <3>1 DEF Contexts, ContextsIn
      <3> QED  BY <2>1, <3>1, <3>2, <1>3
    <2>2. CASE mode # "call"
      <3>1. Port = NULL /\ Port \notin ContextsIn(frame, gone)
        BY <2>2, <1>2 DEF Port, ContextsIn
      <3> QED  BY <2>2, <3>1, <1>3
    <2> QED  BY <2>1, <2>2
  <1> QED  BY <1>6, <1>7, <1>8, <1>9

(* No context was returned yet by the goal that waits at its call port.      *)
LEMMA NoneAtPort ==
    ASSUME Inv, Live
    PROVE  \A c \in DOMAIN choice : choice[c].type = "FOREIGN" => choice[c].frame # Port
  <1>1. Shape(frame, choice, fr, Port)
    BY DEF Inv, Consistent, Live, Port
  <1>a. Addressed(frame, choice) /\ fr \in DOMAIN frame
    BY <1>1, Addresses
  <1> SUFFICES ASSUME NEW c \in DOMAIN choice, choice[c].type = "FOREIGN", choice[c].frame = Port
               PROVE  FALSE
    OBVIOUS
  <1>2. choice[c].frame \in DOMAIN frame /\ choice[c].frame < c /\ c \in Nat /\ choice[c].frame \in Nat
    BY <1>1, <1>a DEF Shape, Owned, Addressed, QueryChoice
  <1>3. mode = "call" /\ choice[c].frame = fr
    BY <1>2, <1>a DEF Port, Addressed, NULL
  <1>4. c < fr
    BY <1>3, AtPort
  <1> QED  BY <1>2, <1>3, <1>4

(* Everything goes when the query ends.                                      *)
LEMMA AllGone ==
    ASSUME NEW f, NEW w, Shape(frame, choice, f, w),
           \A c \in DOMAIN choice : choice[c].type = "FOREIGN" => choice[c].frame # w
    PROVE  /\ Above(f, QueryFrame, NULL) = DOMAIN frame
           /\ Above(f, NULL, NULL) = DOMAIN frame
           /\ Together(frame, choice, DOMAIN frame, DOMAIN choice, w)
           /\ Without(frame, DOMAIN frame) = Empty /\ Without(choice, DOMAIN choice) = Empty
  <1>a. Addressed(frame, choice)
    BY Addresses
  <1>1. Above(f, QueryFrame, NULL) = DOMAIN frame
    <2> DEFINE gone == Above(f, QueryFrame, NULL)
               cut == Newer(QueryFrame)
    <2>1. Passed(frame, choice, f, QueryFrame, NULL, gone, cut)
      BY AboveIs
    <2> HIDE DEF gone, cut
    <2> QED  BY <2>1, AllPassed DEF gone
  <1>2. Above(f, NULL, NULL) = DOMAIN frame
    <2> DEFINE gone == Above(f, NULL, NULL)
               cut == Newer(NULL)
    <2>1. Passed(frame, choice, f, NULL, NULL, gone, cut)
      BY AboveIs
    <2> HIDE DEF gone, cut
    <2> QED  BY <2>1, AllPassed DEF gone
  <1>3. Together(frame, choice, DOMAIN frame, DOMAIN choice, w)
    BY <1>a DEF Together, Addressed
  <1>4. Without(frame, DOMAIN frame) = Empty /\ Without(choice, DOMAIN choice) = Empty
    BY DEF Without, Restrict, Empty
  <1> QED  BY <1>1, <1>2, <1>3, <1>4

(* B_THROW: what is above the catching frame goes, or everything.            *)
LEMMA ThrowStep ==
    ASSUME WellFormed, Inv, Throw
    PROVE  Inv'
  <1>1. /\ mode \in {"run", "failed", "call"} /\ mode' \in {"call", "run", "over"} /\ LeftAtPort
        /\ Uncaught \/ \E c \in frame[fr].chain : \E ch \in DOMAIN choice : ThrowTo(c, ch)
    BY DEF Throw
  <1>2. /\ Live /\ Shape(frame, choice, fr, Port) /\ Linked(frame) /\ Apart(frame, choice)
        /\ Owned(frame, choice) /\ Under(frame, choice, lTop) /\ lTop \in Nat
        /\ Port = NULL \/ (mode = "call" /\ Port = fr)
    BY <1>1 DEF Live, Inv, Consistent, Port, Shape
  <1>a. Addressed(frame, choice) /\ fr \in DOMAIN frame
    BY <1>2, Addresses
  <1>3. \A c \in DOMAIN choice : choice[c].type = "FOREIGN" => choice[c].frame # Port
    BY <1>2, NoneAtPort
  <1>4. CASE Uncaught
    <2>1. Together(frame, choice, DOMAIN frame, DOMAIN choice, Port)
          /\ Above(fr, QueryFrame, NULL) = DOMAIN frame
          /\ Without(frame, DOMAIN frame) = Empty /\ Without(choice, DOMAIN choice) = Empty
      BY <1>2, <1>3, AllGone
    <2>2. /\ mode' = "over" /\ fr' = NULL /\ lTop' = NULL /\ frame' = Empty /\ choice' = Empty
          /\ refs' = RefsWithout(DOMAIN frame) /\ open' = open - Cardinality(Contexts(DOMAIN frame))
      BY <2>1, <1>4 DEF Uncaught, Stop, Become, Discard
    <2>3. RefsRight(Empty, NULL, refs', left') /\ OpenRight(Empty, open', cutted')
      BY <2>1, <2>2, <1>1, <1>2, <1>a, LeftBehind
    <2>4. Consistent(mode', fr', lTop', frame', choice')
      BY <2>2 DEF Consistent, Modes, NULL
    <2> QED  BY <2>2, <2>3, <2>4, Holds
  <1>5. ASSUME NEW c \in frame[fr].chain, NEW ch \in DOMAIN choice, ThrowTo(c, ch)
        PROVE  Inv'
    <2> DEFINE gone == Above(fr, c, c)
               cut == Newer(c)
               F == Without(frame, gone)
               C == Without(choice, cut)
    <2>1. /\ ch > c /\ choice[ch] = NewChoice("CATCH", c) /\ open' = open - Cardinality(Contexts(gone))
          /\ CallGoal(c, ch, F, C, RefsWithout(gone))
      BY <1>5 DEF ThrowTo, Newer
    <2>2. Passed(frame, choice, fr, c, c, gone, cut)
      BY AboveIs
    <2> HIDE DEF gone, cut
    <2>3. c \in DOMAIN frame /\ c \in Nat /\ ch \in Nat /\ c <= fr /\ fr \in Nat
          /\ fr \in frame[fr].chain /\ frame[c].top \in Nat
      BY <1>a DEF Addressed
    <2>4. choice[ch].type = "CATCH" /\ choice[ch].frame = c
      BY <2>1 DEF NewChoice
    <2>5. frame[c].pred \notin ForeignPreds
      BY <2>4, <1>2 DEF Owned
    <2>6. Port = NULL \/ Port \in gone
      <3>1. mode = "call" => fr > c
        <4>1. mode = "call" => ch < fr
          BY <1>2, AtPort
        <4> QED  BY <4>1, <2>1, <2>3
      <3> QED  BY <3>1, <2>2, <2>3, <1>2 DEF Passed
    <2>7. /\ Shape(F, C, c, NULL) /\ Under(F, C, frame[c].top) /\ c \in DOMAIN frame \ gone
          /\ gone \subseteq DOMAIN frame
          /\ \A d \in DOMAIN choice : choice[d].type = "FOREIGN" => (d \in cut <=> choice[d].frame \in gone)
      BY <2>2, <2>5, <2>6, <1>2, Unwound
    <2>8. Together(frame, choice, gone, cut, Port)
      BY <2>7, <1>3 DEF Together
    <2>9. RefsRight(F, NULL, RefsWithout(gone), left') /\ OpenRight(C, open', cutted')
      BY <2>1, <2>6, <2>8, <1>1, <1>2, LeftBehind
    <2>10. F[c] = frame[c]
      BY <2>7 DEF Without, Restrict
    <2> HIDE DEF F, C
    <2>11. Under(F, C, ch)
      <3>1. frame[c].top <= ch
        BY <2>1, <2>3, <1>2 DEF Apart
      <3>2. Addressed(F, C)
        BY <2>7, Addresses
      <3> QED  BY <3>1, <3>2, <2>3, <2>7 DEF Under, Addressed
    <2>12. /\ Consistent(mode', fr', lTop', frame', choice') /\ choice' = C /\ mode' \in {"call", "run"}
           /\ RefsRight(frame', IF mode' = "call" THEN fr' ELSE NULL, refs', left')
      BY <2>1, <2>3, <2>5, <2>7, <2>9, <2>10, <2>11, GoalCalled
    <2> QED  BY <2>9, <2>12, Holds
  <1> QED  BY <1>1, <1>4, <1>5

(* discard_query(): everything goes.                                         *)
LEMMA CloseQueryStep ==
    ASSUME WellFormed, Inv, CloseQuery
    PROVE  Inv'
  <1>1. /\ Shape(frame, choice, QueryFrame, NULL) /\ RefsRight(frame, NULL, refs, left)
        /\ OpenRight(choice, open, cutted)
    BY DEF CloseQuery, Inv, Consistent, Counted
  <1>a. Addressed(frame, choice)
    BY <1>1, Addresses
  <1>2. Together(frame, choice, DOMAIN frame, DOMAIN choice, NULL)
        /\ Above(QueryFrame, QueryFrame, NULL) = DOMAIN frame
        /\ Without(frame, DOMAIN frame) = Empty /\ Without(choice, DOMAIN choice) = Empty
    <2>1. \A c \in DOMAIN choice : choice[c].type = "FOREIGN" => choice[c].frame # NULL
      BY <1>a DEF Addressed, NULL
    <2> QED  BY <2>1, <1>1, AllGone
  <1>3. /\ mode' = "over" /\ fr' = NULL /\ lTop' = NULL /\ frame' = Empty /\ choice' = Empty
        /\ refs' = RefsWithout(DOMAIN frame) /\ open' = open - Cardinality(Contexts(DOMAIN frame))
        /\ left' = left /\ cutted' = cutted
    BY <1>2 DEF CloseQuery, Stop, Become, Discard
  <1>4. RefsRight(Empty, NULL, refs', left') /\ OpenRight(Empty, open', cutted')
    BY <1>1, <1>2, <1>3, Discarded
  <1>5. Consistent(mode', fr', lTop', frame', choice')
    BY <1>3 DEF Consistent, Modes, NULL
  <1> QED  BY <1>3, <1>4, <1>5, Holds

(* An assertion that fails stops the engine.                                 *)
LEMMA AssertionStep ==
    ASSUME WellFormed, Inv, Assertion
    PROVE  Inv'
  <1> DEFINE p == frame[fr].pred
  <1>1. /\ mode = "call" /\ mode' = "assert" /\ fr' = NULL /\ lTop' = NULL
        /\ frame' = Empty /\ choice' = Empty
        /\ refs' = refs /\ open' = open
        /\ left' = IF p \notin ForeignPreds THEN [left EXCEPT ![p] = @ + 1] ELSE left
        /\ cutted' = IF Contexts({fr}) # {} THEN cutted + 1 ELSE cutted
    BY DEF Assertion, Stop, Become, LeftAtPort
  <1>2. refs \in [Preds -> Int] /\ open \in Int /\ left \in [Preds -> Int] /\ cutted \in Int
    BY DEF Inv, Counted
  <1>3. Consistent(mode', fr', lTop', frame', choice')
    BY <1>1 DEF Consistent, Modes, NULL
  <1>4. left' \in [Preds -> Int] /\ cutted' \in Int
    <2>1. [left EXCEPT ![p] = @ + 1] \in [Preds -> Int]
      <3> HIDE DEF p
      <3>1. \A q \in Preds : left[q] + 1 \in Int
        BY <1>2
      <3> QED  BY <3>1, <1>2
    <2>2. left' \in [Preds -> Int]
      BY <2>1, <1>1, <1>2, Zenon
    <2>3. cutted' \in Int
      BY <1>1, <1>2
    <2> QED  BY <2>2, <2>3
  <1> QED  BY <1>1, <1>2, <1>3, <1>4 DEF Inv, Counted

(* Steps that leave the stack as it is.                                      *)
LEMMA FailStep ==
    ASSUME WellFormed, Inv, Fail \/ NextSolution \/ Compute \/ UNCHANGED vars
    PROVE  Inv'
  <1>1. CASE Fail \/ NextSolution
    <2>1. /\ mode \in {"run", "yes"} /\ mode' = "failed" /\ fr' = fr /\ lTop' = lTop /\ frame' = frame
          /\ choice' = choice /\ refs' = refs /\ open' = open /\ left' = left /\ cutted' = cutted
      BY <1>1 DEF Fail, NextSolution, blocks, counts
    <2> QED  BY <2>1 DEF Inv, Consistent, Counted, Modes
  <1>2. CASE UNCHANGED vars
    BY <1>2 DEF vars, blocks, counts, Inv
  <1> QED  BY <1>1, <1>2 DEF Compute

(* PL_open_query() makes a sound stack.                                      *)
LEMMA InitHolds ==
    ASSUME WellFormed, Init
    PROVE  Inv
  <1> USE DEF NULL, QueryChoice, QueryFrame
  <1>1. PICK p \in Preds :
           /\ mode = "call" /\ fr = QueryFrame /\ lTop = QueryFrame + 1
           /\ frame = With(Empty, QueryFrame, NewFrame(NULL, {QueryFrame}, p, QueryFrame + 1, TRUE))
           /\ choice = With(Empty, QueryChoice, NewChoice("TOP", QueryFrame))
           /\ refs = [q \in Preds |-> 0] /\ left = [q \in Preds |-> 0] /\ open = 0 /\ cutted = 0
    BY DEF Init
  <1>2. /\ DOMAIN frame = {2} /\ frame \in [DOMAIN frame -> FrameRecords]
        /\ frame[2].parent = 0 /\ frame[2].chain = {2} /\ frame[2].pred = p /\ frame[2].top = 3
    BY <1>1 DEF With, Empty, NewFrame, FrameRecords
  <1>3. /\ DOMAIN choice = {1} /\ choice \in [DOMAIN choice -> [type : ChoiceTypes, frame : Nat]]
        /\ choice[1].type = "TOP" /\ choice[1].frame = 2
    BY <1>1 DEF With, Empty, NewChoice, ChoiceTypes
  <1>4. IsFiniteSet({1}) /\ IsFiniteSet({2})
    BY FS_Singleton
  <1>5. Records(frame, choice)
    BY <1>2, <1>3, <1>4 DEF Records
  <1>6. Linked(frame)
    BY <1>2 DEF Linked
  <1>7. Apart(frame, choice)
    BY <1>2, <1>3 DEF Apart
  <1>8. Owned(frame, choice)
    BY <1>2, <1>3 DEF Owned
  <1>9. Nested(frame, choice, 2) /\ Whole(frame, choice, 2) /\ Called(frame, choice, 2)
    BY <1>2, <1>3 DEF Nested, Nests, Whole, InUse, Called
  <1>10. Shape(frame, choice, 2, 2) /\ Under(frame, choice, 3)
    BY <1>2, <1>3, <1>5, <1>6, <1>7, <1>8, <1>9 DEF Shape, Under
  <1>11. Consistent(mode, fr, lTop, frame, choice)
    <2>1. mode = "call" /\ fr = 2 /\ lTop = 3
      BY <1>1
    <2> QED  BY <2>1, <1>10 DEF Consistent, Modes
  <1>12. RefsRight(frame, 2, refs, left)
    <2>1. \A q : FramesOf(frame, q, 2) = {}
      BY <1>2 DEF FramesOf
    <2>2. refs \in [Preds -> Int] /\ left \in [Preds -> Int] /\ \A q \in Preds : refs[q] + left[q] = 0
      BY <1>1
    <2>3. \A q \in Preds \ ForeignPreds : refs[q] + left[q] = Cardinality(FramesOf(frame, q, 2))
      BY <2>1, <2>2, FS_EmptySet
    <2> QED  BY <2>2, <2>3 DEF RefsRight
  <1>13. OpenRight(choice, open, cutted)
    <2>1. Calls(choice) = {}
      BY <1>3 DEF Calls
    <2> QED  BY <2>1, <1>1, FS_EmptySet DEF OpenRight
  <1>14. refs \in [Preds -> Int] /\ open \in Int /\ left \in [Preds -> Int] /\ cutted \in Int
    BY <1>1
  <1> QED  BY <1>1, <1>11, <1>12, <1>13, <1>14 DEF Inv, Counted

(* The invariant holds in every state.                                       *)
LEMMA InvHolds == ASSUME WellFormed PROVE Spec => []Inv
  <1>1. Init => Inv
    BY InitHolds
  <1>2. Inv /\ [Next]_vars => Inv'
    <2> SUFFICES ASSUME Inv, [Next]_vars PROVE Inv'
      OBVIOUS
    <2>1. CASE Call
      BY <2>1, CallStep
    <2>2. CASE Catch
      BY <2>2, CatchStep
    <2>3. CASE Depart
      BY <2>3, DepartStep
    <2>4. CASE Enter
      BY <2>4, EnterStep
    <2>5. CASE EnterForeign
      BY <2>5, EnterForeignStep
    <2>6. CASE Exit
      BY <2>6, ExitStep
    <2>7. CASE Or
      BY <2>7, OrStep
    <2>8. CASE SoftCut
      BY <2>8, SoftCutStep
    <2>9. CASE Cut
      BY <2>9, CutStep
    <2>10. CASE CutTo
      BY <2>10, CutToStep
    <2>11. CASE Throw
      BY <2>11, ThrowStep
    <2>12. CASE Assertion
      BY <2>12, AssertionStep
    <2>13. CASE Backtrack
      BY <2>13, BacktrackStep
    <2>14. CASE CloseQuery
      BY <2>14, CloseQueryStep
    <2>15. CASE Fail \/ NextSolution \/ Compute \/ UNCHANGED vars
      BY <2>15, FailStep
    <2> QED  BY <2>1, <2>2, <2>3, <2>4, <2>5, <2>6, <2>7, <2>8, <2>9, <2>10, <2>11, <2>12,
                <2>13, <2>14, <2>15 DEF Next
  <1> QED  BY <1>1, <1>2, PTL DEF Spec

-----------------------------------------------------------------------------
(* The theorems                                                              *)

(* Every variable has its type, whatever clauses run.                        *)
THEOREM TypeCorrect == ASSUME WellFormed PROVE Spec => []TypeOK
  <1>1. Inv => TypeOK
    <2> SUFFICES ASSUME Inv PROVE TypeOK
      OBVIOUS
    <2>1. mode \in Modes /\ lTop \in Nat /\ refs \in [Preds -> Int] /\ open \in Int
          /\ left \in [Preds -> Int] /\ cutted \in Int
      BY DEF Inv, Consistent, Counted
    <2>2. CASE mode \in {"over", "assert"}
      <3>1. frame = Empty /\ choice = Empty /\ fr = NULL
        BY <2>2 DEF Inv, Consistent
      <3> QED  BY <2>1, <3>1 DEF TypeOK, Empty, NULL
    <2>3. CASE mode \notin {"over", "assert"}
      <3>1. Shape(frame, choice, fr, Port)
        BY <2>3 DEF Inv, Consistent, Port
      <3>2. fr \in Nat /\ Records(frame, choice)
        BY <3>1, Addresses DEF Addressed, Shape
      <3> QED  BY <2>1, <3>2 DEF TypeOK, Records
    <2> QED  BY <2>2, <2>3
  <1> QED  BY <1>1, InvHolds, PTL

(* enterDefinition() and leaveDefinition() stay in balance through calls,    *)
(* last calls, exits, cuts, backtracking and exceptions: each frame in use   *)
(* holds one reference on its definition.                                    *)
THEOREM ReferencesAreExact == ASSUME WellFormed PROVE Spec => []ReferencesExact
  <1>1. Inv => ReferencesExact
    <2> SUFFICES ASSUME Inv, mode # "assert", NEW p \in Preds \ ForeignPreds
                 PROVE  refs[p] + left[p] =
                          Cardinality({f \in DOMAIN frame : frame[f].pred = p /\ f # Port})
      BY DEF ReferencesExact
    <2>1. RefsRight(frame, Port, refs, left)
      BY DEF Inv, Counted, Port
    <2> QED  BY <2>1 DEF RefsRight, FramesOf
  <1> QED  BY <1>1, InvHolds, PTL

(* A foreign predicate that asked to come back is told once that it will     *)
(* not: each context that is open has one choice point.                      *)
THEOREM ContextsAreExact == ASSUME WellFormed PROVE Spec => []ContextsExact
  <1>1. Inv => ContextsExact
    BY DEF Inv, Counted, OpenRight, Calls, ContextsExact
  <1> QED  BY <1>1, InvHolds, PTL

(* Frames and choice points never overlap, none is above lTop, and all that  *)
(* are kept can still be come to.                                            *)
THEOREM StackIsSound == ASSUME WellFormed PROVE Spec => []StackSound
  <1>1. Inv => StackSound
    <2> SUFFICES ASSUME Inv PROVE StackSound
      OBVIOUS
    <2>1. CASE mode \in {"over", "assert"}
      <3>1. frame = Empty /\ choice = Empty /\ ~Live
        BY <2>1 DEF Inv, Consistent, Live
      <3> QED  BY <3>1 DEF StackSound, Empty
    <2>2. CASE mode \notin {"over", "assert"}
      <3>1. Shape(frame, choice, fr, Port) /\ Under(frame, choice, lTop) /\ Apart(frame, choice) /\ Live
        BY <2>2 DEF Inv, Consistent, Port, Live, Modes, Shape
      <3>a. Addressed(frame, choice) /\ fr \in DOMAIN frame
        BY <3>1, Addresses
      <3>2. DOMAIN frame = Above(fr, NULL, NULL)
        BY <3>1, NoneAtPort, AllGone
      <3>3. DOMAIN frame \cap DOMAIN choice = {}
        BY <3>1 DEF Apart
      <3>4. \A f \in DOMAIN frame :
               /\ f < frame[f].top /\ frame[f].top <= lTop
               /\ \A b \in DOMAIN frame \cup DOMAIN choice : b > f => b >= frame[f].top
        BY <3>1 DEF Apart, Under
      <3>5. \A c \in DOMAIN choice : c < lTop /\ choice[c].frame \in DOMAIN frame
        BY <3>1, <3>a DEF Under, Addressed
      <3> QED  BY <3>a, <3>2, <3>3, <3>4, <3>5 DEF StackSound
    <2> QED  BY <2>1, <2>2
  <1> QED  BY <1>1, InvHolds, PTL
=============================================================================
