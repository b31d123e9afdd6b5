----------------------------- MODULE TrailProofs -----------------------------
(***************************************************************************)
(* Theorems about Trail, for any predicates and sizes of clauses.          *)
(*                                                                         *)
(* That Undo() is exact needs more than a look at one choice point: when a *)
(* newer one is undone to, an older one must find the trail and the log in *)
(* agreement as they were at the mark of the newer one.  Noted says so of  *)
(* every two marks; lemmas say what assigning, undoing and new marks keep  *)
(* of it.  Within says where the trailed slots lie; it stands because the  *)
(* frames that a choice point comes back to do not change (Steady), which  *)
(* follows from the shape of the stack in LocalStackProofs.                *)
(***************************************************************************)
EXTENDS Trail, LocalStackProofs

-----------------------------------------------------------------------------
(* The invariant is about a trail T, G cells, a log L and the marks M.       *)

\* Mark m is not above mark n.
UpTo(m, n) == m.t <= n.t /\ m.g <= n.g /\ m.l <= n.l

\* Slot r was there when choice point c was made with mark m (Older).
Seen(r, c, m) == IF OnGlobal(r) THEN r[2] <= m.g ELSE r[2] < c

\* Between marks m and n the trail has what the log has, but for what c has not
\* seen.
Agree(T, L, c, m, n) ==
    /\ \A j \in m.l + 1 .. n.l : Seen(L[j], c, m) => \E i \in m.t + 1 .. n.t : T[i] = L[j]
    /\ \A i \in m.t + 1 .. n.t : \E j \in m.l + 1 .. n.l : L[j] = T[i]

\* The trail below mark n has cells below mark n.
Cells(T, n) == \A i \in 1 .. n.t : OnGlobal(T[i]) => T[i][2] \in 1 .. n.g

Typed(T, G, L, M) ==
    /\ T \in Seq(Slots) /\ L \in Seq(Slots) /\ G \in Nat
    /\ M \in [DOMAIN M -> [t : Nat, g : Nat, l : Nat]] /\ DOMAIN M \subseteq Nat

Noted(T, G, L, M) ==
    LET top == MarkOf(T, G, L)
    IN  /\ Typed(T, G, L, M) /\ Cells(T, top)
        /\ \A c \in DOMAIN M : UpTo(M[c], top) /\ Agree(T, L, c, M[c], top) /\ Cells(T, M[c])
        /\ \A c, d \in DOMAIN M : d < c => UpTo(M[d], M[c]) /\ Agree(T, L, d, M[d], M[c])

\* Code assigns (Assign): from trail T, G cells and log L on to U, H and K.
Assigns(T, G, L, U, H, K, places, bar) ==
    /\ U \in Seq(Slots) /\ IsPrefix(T, U) /\ K \in Seq(Slots) /\ IsPrefix(L, K) /\ H \in Nat /\ G <= H
    /\ \A r \in Added(L, K) : r[2] \in IF OnGlobal(r) THEN 1 .. H ELSE places
    /\ Added(T, U) = {r \in Added(L, K) : ~OnGlobal(r) \/ r[2] <= bar}

\* Places in the frames F
Spots(F, chain) == {NULL} \cup UNION {g .. F[g].top - 1 : g \in chain}

\* What was trailed since choice point c, and is not above it, is in a frame
\* that it comes back to.
Within(T, M, F, C) ==
    \A c \in DOMAIN M : \A i \in M[c].t + 1 .. Len(T) :
        ~OnGlobal(T[i]) /\ T[i][2] <= c => T[i][2] \in Spots(F, F[C[c].frame].chain)

\* No choice point has a mark above the bar.
Barred(M, bar) == bar \in Nat /\ \A c \in DOMAIN M : M[c].g <= bar

TrailInv ==
    /\ Noted(trail, gTop, log, mark) /\ Within(trail, mark, frame, choice)
    /\ Barred(mark, markBar) /\ DOMAIN mark = DOMAIN choice

-----------------------------------------------------------------------------
(* Marks                                                                     *)

(* What the parts of a mark are.                                             *)
LEMMA MarkParts ==
    ASSUME NEW T, NEW G, NEW L, NEW M, Typed(T, G, L, M)
    PROVE  LET top == MarkOf(T, G, L)
           IN  /\ top.t = Len(T) /\ top.g = G /\ top.l = Len(L)
               /\ top.t \in Nat /\ top.g \in Nat /\ top.l \in Nat
               /\ top \in [t : Nat, g : Nat, l : Nat]
               /\ \A c \in DOMAIN M : M[c].t \in Nat /\ M[c].g \in Nat /\ M[c].l \in Nat
               /\ \A c \in DOMAIN M : M[c] \in [t : Nat, g : Nat, l : Nat]
  BY DEF Typed, MarkOf

(* A slot in the trail or the log has an address.                            *)
LEMMA SlotAt ==
    ASSUME NEW T \in Seq(Slots), NEW i \in 1 .. Len(T)
    PROVE  T[i] \in Slots /\ T[i][2] \in Nat
  BY DEF Slots

(* A longer sequence begins with what it had.                                *)
LEMMA Begins ==
    ASSUME NEW S, NEW s \in Seq(S), NEW t \in Seq(S), IsPrefix(s, t)
    PROVE  /\ Len(s) \in Nat /\ Len(t) \in Nat /\ Len(s) <= Len(t)
           /\ \A i \in 1 .. Len(s) : t[i] = s[i]
  <1>1. Len(s) \in Nat /\ Len(t) \in Nat /\ Len(s) <= Len(t)
    BY DEF IsPrefix
  <1> SUFFICES ASSUME NEW i \in 1 .. Len(s) PROVE t[i] = s[i]
    BY <1>1
  <1>2. SubSeq(s, 1, Len(s))[i] = s[i] /\ SubSeq(t, 1, Len(s))[i] = t[i]
    BY <1>1
  <1> QED  BY <1>2 DEF IsPrefix

(* Choice points of O keep their marks, others come above with the tops.     *)
LEMMA Marked ==
    ASSUME NEW T, NEW G, NEW L, NEW M, Noted(T, G, L, M), NEW K \in SUBSET Nat, NEW O,
           \A c \in K : c \in O => c \in DOMAIN M,
           \A c, d \in K : c \notin O /\ d \in O => d < c,
           NEW N, N = [c \in K |-> IF c \in O THEN M[c] ELSE MarkOf(T, G, L)]
    PROVE  Noted(T, G, L, N)
  <1>1. PICK top : top = MarkOf(T, G, L)
    OBVIOUS
  <1>2. /\ Typed(T, G, L, M) /\ Cells(T, top)
        /\ \A c \in DOMAIN M : UpTo(M[c], top) /\ Agree(T, L, c, M[c], top) /\ Cells(T, M[c])
        /\ \A c, d \in DOMAIN M : d < c => UpTo(M[d], M[c]) /\ Agree(T, L, d, M[d], M[c])
    BY <1>1 DEF Noted
  <1>3. /\ top.t \in Nat /\ top.g \in Nat /\ top.l \in Nat /\ top \in [t : Nat, g : Nat, l : Nat]
        /\ \A c \in DOMAIN M : M[c] \in [t : Nat, g : Nat, l : Nat]
    BY <1>1, <1>2, MarkParts
  <1>4. DOMAIN N = K /\ \A c \in K : N[c] = IF c \in O THEN M[c] ELSE top
    BY <1>1
  <1>5. Typed(T, G, L, N)
    <2>1. \A c \in K : N[c] \in [t : Nat, g : Nat, l : Nat]
      BY <1>3, <1>4
    <2>2. N = [c \in DOMAIN N |-> N[c]]
      BY <1>4
    <2>3. N \in [DOMAIN N -> [t : Nat, g : Nat, l : Nat]]
      BY <2>1, <2>2, <1>4
    <2> QED  BY <2>3, <1>2, <1>4 DEF Typed
  <1>6. \A c : UpTo(top, top) /\ Agree(T, L, c, top, top)
    BY <1>3 DEF UpTo, Agree
  <1>7. \A c \in K : UpTo(N[c], top) /\ Agree(T, L, c, N[c], top) /\ Cells(T, N[c])
    BY <1>2, <1>4, <1>6
  <1>8. ASSUME NEW c \in K, NEW d \in K, d < c PROVE UpTo(N[d], N[c]) /\ Agree(T, L, d, N[d], N[c])
    <2>1. CASE c \notin O
      BY <2>1, <1>4, <1>7
    <2>2. CASE c \in O /\ d \in O
      BY <2>2, <1>2, <1>4, <1>8
    <2>3. CASE c \in O /\ d \notin O
      BY <2>3, <1>8
    <2> QED  BY <2>1, <2>2, <2>3
  <1> QED  BY <1>1, <1>2, <1>4, <1>5, <1>7, <1>8 DEF Noted

(* Trail() notes what each choice point will find assigned.                  *)
LEMMA Assigned ==
    ASSUME NEW T, NEW G, NEW L, NEW M, Noted(T, G, L, M), NEW bar, Barred(M, bar),
           NEW U, NEW H, NEW K, NEW places, Assigns(T, G, L, U, H, K, places, bar)
    PROVE  Noted(U, H, K, M)
  <1>0. /\ U \in Seq(Slots) /\ IsPrefix(T, U) /\ K \in Seq(Slots) /\ IsPrefix(L, K) /\ H \in Nat /\ G <= H
        /\ \A r \in Added(L, K) : r[2] \in IF OnGlobal(r) THEN 1 .. H ELSE places
        /\ Added(T, U) = {r \in Added(L, K) : ~OnGlobal(r) \/ r[2] <= bar}
    BY DEF Assigns
  <1>1. PICK top : top = MarkOf(T, G, L)
    OBVIOUS
  <1>2. PICK now : now = MarkOf(U, H, K)
    OBVIOUS
  <1>3. /\ Typed(T, G, L, M) /\ Cells(T, top)
        /\ \A c \in DOMAIN M : UpTo(M[c], top) /\ Agree(T, L, c, M[c], top) /\ Cells(T, M[c])
        /\ \A c, d \in DOMAIN M : d < c => UpTo(M[d], M[c]) /\ Agree(T, L, d, M[d], M[c])
    BY <1>1 DEF Noted
  <1>4. Typed(U, H, K, M)
    BY <1>0, <1>3 DEF Typed
  <1>5. /\ top.t = Len(T) /\ top.g = G /\ top.l = Len(L) /\ G \in Nat
        /\ top.t \in Nat /\ top.l \in Nat
        /\ \A c \in DOMAIN M : M[c].t \in Nat /\ M[c].g \in Nat /\ M[c].l \in Nat
    BY <1>1, <1>3, MarkParts
  <1>6. /\ now.t = Len(U) /\ now.g = H /\ now.l = Len(K) /\ now.t \in Nat /\ now.l \in Nat
    BY <1>2, <1>4, MarkParts
  <1>7. top.t <= now.t /\ \A i \in 1 .. top.t : U[i] = T[i]
    BY <1>0, <1>3, <1>5, <1>6, Begins DEF Typed
  <1>8. top.l <= now.l /\ \A j \in 1 .. top.l : K[j] = L[j]
    BY <1>0, <1>3, <1>5, <1>6, Begins DEF Typed
  <1>9. /\ \A i \in top.t + 1 .. now.t : U[i] \in Added(T, U)
        /\ \A r \in Added(T, U) : \E i \in top.t + 1 .. now.t : U[i] = r
        /\ \A j \in top.l + 1 .. now.l : K[j] \in Added(L, K)
        /\ \A r \in Added(L, K) : \E j \in top.l + 1 .. now.l : K[j] = r
    BY <1>5, <1>6 DEF Added
  <1>10. ASSUME NEW n, n.t \in Nat, n.t <= top.t, n.g \in Nat, Cells(T, n)
         PROVE  Cells(U, n)
    BY <1>5, <1>7, <1>10 DEF Cells
  <1>11. Cells(U, now)
    <2> SUFFICES ASSUME NEW i \in 1 .. now.t, OnGlobal(U[i]) PROVE U[i][2] \in 1 .. now.g
      BY DEF Cells
    <2>1. CASE i <= top.t
      <3>1. i \in 1 .. top.t /\ U[i] = T[i]
        BY <2>1, <1>5, <1>7
      <3> QED  BY <3>1, <1>0, <1>3, <1>5, <1>6 DEF Cells
    <2>2. CASE i > top.t
      <3>1. i \in top.t + 1 .. now.t
        BY <2>2, <1>5, <1>6
      <3>2. U[i] \in Added(L, K)
        BY <3>1, <1>0, <1>9
      <3> QED  BY <3>2, <1>0, <1>6
    <2> QED  BY <2>1, <2>2, <1>5
  <1>12. ASSUME NEW c \in DOMAIN M PROVE UpTo(M[c], now) /\ Agree(U, K, c, M[c], now) /\ Cells(U, M[c])
    <2> DEFINE m == M[c]
    <2>1. /\ m.t \in Nat /\ m.g \in Nat /\ m.l \in Nat /\ m.t <= top.t /\ m.g <= G /\ m.l <= top.l
          /\ m.g <= bar /\ Agree(T, L, c, m, top) /\ Cells(T, m) /\ bar \in Nat
      BY <1>3, <1>5 DEF UpTo, Barred
    <2> HIDE DEF m
    <2>2. UpTo(m, now)
      BY <2>1, <1>0, <1>5, <1>6, <1>7, <1>8 DEF UpTo
    <2>3. Cells(U, m)
      BY <2>1, <1>10
    <2>4. ASSUME NEW j \in m.l + 1 .. now.l, Seen(K[j], c, m)
          PROVE  \E i \in m.t + 1 .. now.t : U[i] = K[j]
      <3>1. CASE j <= top.l
        <4>1. j \in m.l + 1 .. top.l /\ K[j] = L[j]
          BY <3>1, <2>1, <1>5, <1>8
        <4>2. PICK i \in m.t + 1 .. top.t : T[i] = L[j]
          BY <4>1, <2>1, <2>4 DEF Agree
        <4> QED  BY <4>1, <4>2, <2>1, <1>5, <1>6, <1>7
      <3>2. CASE j > top.l
        <4>1. j \in top.l + 1 .. now.l
          BY <3>2, <2>1, <1>5, <1>6
        <4>2. K[j] \in Added(L, K) /\ (OnGlobal(K[j]) => K[j][2] \in 1 .. H)
          BY <4>1, <1>0, <1>9
        <4>3. OnGlobal(K[j]) => K[j][2] <= bar
          BY <4>2, <2>4, <2>1 DEF Seen
        <4>4. K[j] \in Added(T, U)
          BY <4>2, <4>3, <1>0
        <4>5. PICK i \in top.t + 1 .. now.t : U[i] = K[j]
          BY <4>4, <1>9
        <4> QED  BY <4>5, <2>1, <1>5, <1>6
      <3> QED  BY <3>1, <3>2, <2>1, <1>5
    <2>5. ASSUME NEW i \in m.t + 1 .. now.t PROVE \E j \in m.l + 1 .. now.l : K[j] = U[i]
      <3>1. CASE i <= top.t
        <4>1. i \in m.t + 1 .. top.t /\ U[i] = T[i]
          BY <3>1, <2>1, <1>5, <1>7
        <4>2. PICK j \in m.l + 1 .. top.l : L[j] = T[i]
          BY <4>1, <2>1 DEF Agree
        <4> QED  BY <4>1, <4>2, <2>1, <1>5, <1>6, <1>8
      <3>2. CASE i > top.t
        <4>1. i \in top.t + 1 .. now.t
          BY <3>2, <2>1, <1>5, <1>6
        <4>2. U[i] \in Added(L, K)
          BY <4>1, <1>0, <1>9
        <4>3. PICK j \in top.l + 1 .. now.l : K[j] = U[i]
          BY <4>2, <1>9
        <4> QED  BY <4>3, <2>1, <1>5, <1>6
      <3> QED  BY <3>1, <3>2, <2>1, <1>5
    <2>6. Agree(U, K, c, m, now)
      BY <2>4, <2>5 DEF Agree
    <2> QED  BY <2>2, <2>3, <2>6 DEF m
  <1>13. ASSUME NEW c \in DOMAIN M, NEW d \in DOMAIN M, d < c
         PROVE  UpTo(M[d], M[c]) /\ Agree(U, K, d, M[d], M[c])
    <2>1. UpTo(M[d], M[c]) /\ Agree(T, L, d, M[d], M[c]) /\ UpTo(M[c], top)
      BY <1>3, <1>13
    <2>2. /\ \A i \in M[d].t + 1 .. M[c].t : i \in 1 .. top.t
          /\ \A j \in M[d].l + 1 .. M[c].l : j \in 1 .. top.l
      <3>1. /\ M[d].t \in Nat /\ M[c].t \in Nat /\ M[c].t <= top.t
            /\ M[d].l \in Nat /\ M[c].l \in Nat /\ M[c].l <= top.l
        BY <2>1, <1>5 DEF UpTo
      <3> QED  BY <3>1, <1>5
    <2> QED  BY <2>1, <2>2, <1>7, <1>8 DEF Agree
  <1> QED  BY <1>2, <1>4, <1>11, <1>12, <1>13 DEF Noted

(* Undo() to choice point b leaves the older ones what they had.             *)
LEMMA Undone ==
    ASSUME NEW T, NEW G, NEW L, NEW M, Noted(T, G, L, M), NEW b \in DOMAIN M,
           NEW O \in SUBSET DOMAIN M, \A d \in O : d < b,
           NEW N, N = [c \in O |-> M[c]]
    PROVE  /\ Noted(SubSeq(T, 1, M[b].t), M[b].g, SubSeq(L, 1, M[b].l), N)
           /\ MarkOf(SubSeq(T, 1, M[b].t), M[b].g, SubSeq(L, 1, M[b].l)) = M[b]
           /\ M[b].t \in Nat /\ M[b].t <= Len(T)
           /\ \A i \in 1 .. M[b].t : SubSeq(T, 1, M[b].t)[i] = T[i]
           /\ \A d \in O : M[d].g <= M[b].g
  <1>1. PICK top : top = MarkOf(T, G, L)
    OBVIOUS
  <1>2. PICK m : m = M[b]
    OBVIOUS
  <1>3. PICK U : U = SubSeq(T, 1, m.t)
    OBVIOUS
  <1>4. PICK K : K = SubSeq(L, 1, m.l)
    OBVIOUS
  <1>5. /\ Typed(T, G, L, M) /\ Cells(T, top)
        /\ \A c \in DOMAIN M : UpTo(M[c], top) /\ Agree(T, L, c, M[c], top) /\ Cells(T, M[c])
        /\ \A c, d \in DOMAIN M : d < c => UpTo(M[d], M[c]) /\ Agree(T, L, d, M[d], M[c])
    BY <1>1 DEF Noted
  <1>6. /\ top.t = Len(T) /\ top.l = Len(L) /\ top.t \in Nat /\ top.l \in Nat
        /\ m \in [t : Nat, g : Nat, l : Nat]
        /\ m.t \in Nat /\ m.g \in Nat /\ m.l \in Nat /\ m.t <= top.t /\ m.l <= top.l
        /\ \A c \in DOMAIN M : M[c].t \in Nat /\ M[c].g \in Nat /\ M[c].l \in Nat
    <2>1. UpTo(m, top)
      BY <1>2, <1>5
    <2> QED  BY <2>1, <1>1, <1>2, <1>5, MarkParts DEF UpTo
  <1>7. U \in Seq(Slots) /\ Len(U) = m.t /\ \A i \in 1 .. m.t : U[i] = T[i]
    <2>1. T \in Seq(Slots)
      BY <1>5 DEF Typed
    <2>2. \A i \in 1 .. m.t : i \in 1 .. Len(T)
      BY <1>6
    <2>3. m.t \in 0 .. Len(T)
      BY <1>6
    <2> QED  BY <2>1, <2>2, <2>3, <1>3, <1>6
  <1>8. K \in Seq(Slots) /\ Len(K) = m.l /\ \A j \in 1 .. m.l : K[j] = L[j]
    <2>1. L \in Seq(Slots)
      BY <1>5 DEF Typed
    <2>2. \A j \in 1 .. m.l : j \in 1 .. Len(L)
      BY <1>6
    <2>3. m.l \in 0 .. Len(L)
      BY <1>6
    <2> QED  BY <2>1, <2>2, <2>3, <1>4, <1>6
  <1>9. MarkOf(U, m.g, K) = m
    BY <1>6, <1>7, <1>8 DEF MarkOf
  <1>10. DOMAIN N = O /\ \A c \in O : N[c] = M[c]
    OBVIOUS
  <1>11. Typed(U, m.g, K, N)
    <2>1. \A c \in O : N[c] \in [t : Nat, g : Nat, l : Nat]
      BY <1>5, <1>10, MarkParts
    <2>2. N \in [DOMAIN N -> [t : Nat, g : Nat, l : Nat]]
      BY <2>1, <1>10
    <2>3. O \subseteq Nat
      BY <1>5 DEF Typed
    <2> QED  BY <2>2, <2>3, <1>6, <1>7, <1>8, <1>10 DEF Typed
  <1>12. ASSUME NEW n, n.t \in Nat, n.t <= m.t, Cells(T, n) PROVE Cells(U, n)
    BY <1>6, <1>7, <1>12 DEF Cells
  <1>13. ASSUME NEW c, NEW k, NEW n, k.t \in Nat, k.l \in Nat, n.t \in Nat, n.l \in Nat,
                n.t <= m.t, n.l <= m.l, Agree(T, L, c, k, n)
         PROVE  Agree(U, K, c, k, n)
    <2>1. /\ \A i \in k.t + 1 .. n.t : U[i] = T[i]
          /\ \A j \in k.l + 1 .. n.l : K[j] = L[j]
      <3>1. \A i \in k.t + 1 .. n.t : i \in 1 .. m.t
        BY <1>6, <1>13
      <3>2. \A j \in k.l + 1 .. n.l : j \in 1 .. m.l
        BY <1>6, <1>13
      <3> QED  BY <3>1, <3>2, <1>7, <1>8
    <2> QED  BY <2>1, <1>13 DEF Agree
  <1>14. Cells(U, m)
    BY <1>2, <1>5, <1>6, <1>12
  <1>15. ASSUME NEW c \in O PROVE UpTo(N[c], m) /\ Agree(U, K, c, N[c], m) /\ Cells(U, N[c])
    <2>1. UpTo(M[c], m) /\ Agree(T, L, c, M[c], m) /\ Cells(T, M[c])
      BY <1>2, <1>5
    <2>2. M[c].t \in Nat /\ M[c].l \in Nat /\ M[c].t <= m.t
      BY <2>1, <1>6 DEF UpTo
    <2>3. Agree(U, K, c, M[c], m)
      BY <2>1, <2>2, <1>6, <1>13
    <2>4. Cells(U, M[c])
      BY <2>1, <2>2, <1>12
    <2> QED  BY <2>1, <2>3, <2>4, <1>10
  <1>16. ASSUME NEW c \in O, NEW d \in O, d < c
         PROVE  UpTo(N[d], N[c]) /\ Agree(U, K, d, N[d], N[c])
    <2>1. UpTo(M[d], M[c]) /\ Agree(T, L, d, M[d], M[c])
      BY <1>5, <1>16
    <2>2. M[c].t \in Nat /\ M[c].l \in Nat /\ M[d].t \in Nat /\ M[d].l \in Nat
      BY <1>6
    <2>3. M[c].t <= m.t /\ M[c].l <= m.l
      BY <1>10, <1>15 DEF UpTo
    <2>4. Agree(U, K, d, M[d], M[c])
      BY <2>1, <2>2, <2>3, <1>13
    <2> QED  BY <2>1, <2>4, <1>10
  <1>17. Noted(U, m.g, K, N)
    BY <1>9, <1>10, <1>11, <1>14, <1>15, <1>16 DEF Noted
  <1>18. \A d \in O : M[d].g <= m.g
    BY <1>10, <1>15 DEF UpTo
  <1> QED  BY <1>2, <1>3, <1>4, <1>6, <1>7, <1>9, <1>17, <1>18

-----------------------------------------------------------------------------
(* Places                                                                    *)

\* From frames F and choice points C to H and D, the choice points of O that
\* are left come back to the frame they did, and nothing below them changed.
Steady(F, C, H, D, O) ==
    \A c \in DOMAIN D : c \in O =>
       /\ c \in DOMAIN C /\ D[c].frame = C[c].frame
       /\ \A x \in DOMAIN H : x < c => H[x].chain = F[x].chain /\ H[x].top = F[x].top

\* Choice points that are not of O are above those that are.
Atop(D, O) == \A c, d \in DOMAIN D : c \notin O /\ d \in O => d < c

(* A place in use is no choice point, and not below the frame of the query.  *)
LEMMA Spotted ==
    ASSUME NEW F, NEW C, Addressed(F, C), NEW chain, chain \subseteq DOMAIN F,
           NEW a, a \in Spots(F, chain), a # NULL
    PROVE  \E g \in chain : /\ g \in DOMAIN F /\ g \in Nat /\ g >= 2 /\ F[g].top \in Nat
                            /\ a \in g .. F[g].top - 1 /\ a \in Nat
  BY DEF Spots, Addressed

(* A place that was in a frame which a choice point comes back to still is.  *)
LEMMA StillThere ==
    ASSUME NEW F, NEW C, Addressed(F, C), NEW H, NEW D, Addressed(H, D),
           NEW O, Steady(F, C, H, D, O), NEW c \in DOMAIN D, c \in O,
           NEW a, a <= c, a \in Spots(F, F[C[c].frame].chain)
    PROVE  a \in Spots(H, H[D[c].frame].chain)
  <1> DEFINE e == C[c].frame
  <1>1. /\ c \in DOMAIN C /\ c \in Nat /\ D[c].frame = e /\ e \in DOMAIN F /\ e \in DOMAIN H
        /\ F[e].chain \subseteq DOMAIN F /\ H[e].chain \subseteq DOMAIN H /\ e \in Nat
        /\ \A x \in DOMAIN H : x < c => H[x].chain = F[x].chain /\ H[x].top = F[x].top
    BY DEF Steady, Addressed
  <1>2. CASE a = NULL
    BY <1>2 DEF Spots
  <1>3. CASE a # NULL
    <2>1. PICK g \in F[e].chain : /\ g \in DOMAIN F /\ g \in Nat /\ g >= 2 /\ F[g].top \in Nat
                                  /\ a \in g .. F[g].top - 1 /\ a \in Nat
      BY <1>1, <1>3, Spotted
    <2>2. c # 1
      BY <2>1, <1>1
    <2>3. e < c /\ H[e].chain = F[e].chain
      BY <2>2, <1>1 DEF Addressed
    <2>4. g \in DOMAIN H /\ g <= e
      BY <2>1, <2>3, <1>1 DEF Addressed
    <2>5. H[g].top = F[g].top
      BY <2>1, <2>3, <2>4, <1>1
    <2> QED  BY <2>1, <2>3, <2>5, <1>1 DEF Spots
  <1> QED  BY <1>2, <1>3

(* What a frame reaches and is not above a choice point, that reaches too.   *)
LEMMA Reaches ==
    ASSUME NEW F, NEW C, Addressed(F, C), NEW f \in DOMAIN F, NEW c \in DOMAIN C, Nests(F, C, f, c),
           NEW a, a <= c, NEW chain, chain \subseteq F[f].chain, a \in Spots(F, chain)
    PROVE  a \in Spots(F, F[C[c].frame].chain)
  <1>1. CASE a = NULL
    BY <1>1 DEF Spots
  <1>2. CASE a # NULL
    <2>1. chain \subseteq DOMAIN F
      BY DEF Addressed
    <2>2. PICK g \in chain : /\ g \in DOMAIN F /\ g \in Nat /\ F[g].top \in Nat
                             /\ a \in g .. F[g].top - 1 /\ a \in Nat
      BY <2>1, <1>2, Spotted
    <2>3. g < c
      BY <2>2 DEF Addressed
    <2> QED  BY <2>2, <2>3 DEF Nests, Spots
  <1> QED  BY <1>1, <1>2

(* What a foreign predicate of frame f reaches, the choice points that stay  *)
(* and the one that it may leave reach when they are not below it.           *)
LEMMA ForeignReaches ==
    ASSUME NEW F, NEW C, Addressed(F, C), NEW H, NEW D, Addressed(H, D), NEW f \in DOMAIN F,
           NEW O, Steady(F, C, H, D, O), \A c \in DOMAIN D : c \in O => c < f /\ Nests(F, C, f, c),
           \A c \in DOMAIN D : c \notin O =>
              /\ D[c].frame = f /\ H[f].chain = F[f].chain /\ H[f].top = f + 1
              /\ \A g \in F[f].chain \ {f} : H[g].top = F[g].top,
           NEW c \in DOMAIN D, NEW a, a <= c, a \in Spots(F, F[f].chain \ {f}) \cup {f}
    PROVE  a \in Spots(H, H[D[c].frame].chain)
  <1>1. f \in Nat /\ f \in F[f].chain /\ c \in Nat
    BY DEF Addressed
  <1>2. CASE c \in O
    <2>1. a # f /\ c \in DOMAIN C /\ Nests(F, C, f, c)
      BY <1>1, <1>2 DEF Steady
    <2>2. a \in Spots(F, F[C[c].frame].chain)
      BY <2>1, Reaches
    <2> QED  BY <2>2, <1>2, StillThere
  <1>3. CASE c \notin O
    <2>1. /\ D[c].frame = f /\ H[f].chain = F[f].chain /\ H[f].top = f + 1
          /\ \A g \in F[f].chain \ {f} : H[g].top = F[g].top
      BY <1>3
    <2>2. CASE a = f
      <3>1. a \in f .. H[f].top - 1
        BY <2>1, <2>2, <1>1
      <3> QED  BY <3>1, <2>1, <1>1 DEF Spots
    <2>3. CASE a # f
      BY <2>1, <2>3 DEF Spots
    <2> QED  BY <2>2, <2>3
  <1> QED  BY <1>2, <1>3

(* Choice points of O keep their marks and come back to what they did.       *)
LEMMA WithinMarked ==
    ASSUME NEW T \in Seq(Slots), NEW M, \A c \in DOMAIN M : M[c].t \in Nat, NEW m, m.t = Len(T),
           NEW F, NEW C, Addressed(F, C), NEW H, NEW D, Addressed(H, D), Within(T, M, F, C),
           NEW O, Steady(F, C, H, D, O), \A c \in DOMAIN D : c \in O => c \in DOMAIN M,
           NEW N, N = [c \in DOMAIN D |-> IF c \in O THEN M[c] ELSE m]
    PROVE  Within(T, N, H, D)
  <1> SUFFICES ASSUME NEW c \in DOMAIN D, NEW i \in N[c].t + 1 .. Len(T),
                      ~OnGlobal(T[i]), T[i][2] <= c
               PROVE  T[i][2] \in Spots(H, H[D[c].frame].chain)
    BY DEF Within
  <1>1. CASE c \in O
    <2>1. T[i][2] \in Spots(F, F[C[c].frame].chain)
      BY <1>1 DEF Within
    <2> QED  BY <2>1, <1>1, StillThere
  <1>2. CASE c \notin O
    <2>1. N[c].t = Len(T) /\ Len(T) \in Nat
      BY <1>2
    <2> QED  BY <2>1
  <1> QED  BY <1>1, <1>2

(* Trail() notes places that every choice point reaches.                     *)
LEMMA WithinAssigned ==
    ASSUME NEW T \in Seq(Slots), NEW M, \A c \in DOMAIN M : M[c].t \in Nat,
           NEW F, NEW C, Within(T, M, F, C),
           NEW U \in Seq(Slots), IsPrefix(T, U), NEW more, Added(T, U) \subseteq more, NEW places,
           \A r \in more : ~OnGlobal(r) => r[2] \in places,
           \A c \in DOMAIN M : \A a \in places : a <= c => a \in Spots(F, F[C[c].frame].chain)
    PROVE  Within(U, M, F, C)
  <1> SUFFICES ASSUME NEW c \in DOMAIN M, NEW i \in M[c].t + 1 .. Len(U),
                      ~OnGlobal(U[i]), U[i][2] <= c
               PROVE  U[i][2] \in Spots(F, F[C[c].frame].chain)
    BY DEF Within
  <1>1. /\ Len(T) \in Nat /\ Len(U) \in Nat /\ Len(T) <= Len(U) /\ M[c].t \in Nat
        /\ \A k \in 1 .. Len(T) : U[k] = T[k]
    BY Begins
  <1>2. CASE i <= Len(T)
    <2>1. i \in M[c].t + 1 .. Len(T) /\ i \in 1 .. Len(T)
      BY <1>1, <1>2
    <2> QED  BY <2>1, <1>1 DEF Within
  <1>3. CASE i > Len(T)
    <2>1. i \in Len(T) + 1 .. Len(U)
      BY <1>1, <1>3
    <2>2. U[i] \in more
      BY <2>1 DEF Added
    <2> QED  BY <2>2
  <1> QED  BY <1>1, <1>2, <1>3

(* Undo() leaves a part of the trail.                                        *)
LEMMA WithinUndone ==
    ASSUME NEW T \in Seq(Slots), NEW M, \A c \in DOMAIN M : M[c].t \in Nat,
           NEW F, NEW C, Within(T, M, F, C), NEW n \in Nat, n <= Len(T),
           NEW O \in SUBSET DOMAIN M, NEW N, N = [c \in O |-> M[c]]
    PROVE  Within(SubSeq(T, 1, n), N, F, C)
  <1> SUFFICES ASSUME NEW c \in O, NEW i \in M[c].t + 1 .. Len(SubSeq(T, 1, n)),
                      ~OnGlobal(SubSeq(T, 1, n)[i]), SubSeq(T, 1, n)[i][2] <= c
               PROVE  SubSeq(T, 1, n)[i][2] \in Spots(F, F[C[c].frame].chain)
    BY DEF Within
  <1>1. Len(SubSeq(T, 1, n)) = n /\ Len(T) \in Nat
    OBVIOUS
  <1>2. M[c].t \in Nat /\ c \in DOMAIN M
    OBVIOUS
  <1>3. i \in 1 .. n /\ i \in M[c].t + 1 .. Len(T)
    BY <1>1, <1>2
  <1>4. SubSeq(T, 1, n)[i] = T[i]
    BY <1>3, <1>1
  <1> QED  BY <1>2, <1>3, <1>4 DEF Within

-----------------------------------------------------------------------------
(* What the steps of LocalStack leave alone                                  *)

Kind(O) == Steady(frame, choice, frame', choice', O) /\ Atop(choice', O)

(* The stack is sound before a step, and after it when the query goes on.    *)
LEMMA Stands ==
    ASSUME Inv, Live
    PROVE  /\ Shape(frame, choice, fr, Port) /\ Addressed(frame, choice) /\ fr \in DOMAIN frame
           /\ Under(frame, choice, lTop) /\ lTop \in Nat
  <1>1. Shape(frame, choice, fr, Port) /\ Under(frame, choice, lTop) /\ lTop \in Nat
    BY DEF Inv, Consistent, Live, Port
  <1> QED  BY <1>1, Addresses

(* The same of the next state.                                               *)
LEMMA WillStand ==
    ASSUME Inv', Live'
    PROVE  Addressed(frame', choice') /\ fr' \in DOMAIN frame'
  <1>1. PICK w : Shape(frame', choice', fr', w)
    BY DEF Inv, Consistent, Live
  <1> QED  BY <1>1, Addresses

(* CallGoal() adds a frame.                                                  *)
LEMMA GoalPushed ==
    ASSUME NEW F, NEW C, NEW f, NEW a, NEW rs, CallGoal(f, a, F, C, rs)
    PROVE  /\ choice' = C /\ fr' = a /\ DOMAIN frame' = DOMAIN F \cup {a}
           /\ \A x \in DOMAIN F : x # a => frame'[x] = F[x]
  BY DEF CallGoal, Become, With

(* A clause changes the frame that it runs in, and may add a choice point.   *)
LEMMA ClauseChanges ==
    ASSUME WellFormed, NEW F, NEW C, NEW f \in Nat, RunClause(f, F, C), F[f] \in FrameRecords
    PROVE  /\ DOMAIN frame' = DOMAIN F /\ \A x \in DOMAIN F : x # f => frame'[x] = F[x]
           /\ \/ choice' = C
              \/ \E top \in Nat : top > f /\ choice' = With(C, top, NewChoice("CLAUSE", f))
  <1>1. PICK n \in Sizes :
         LET top == f + 1 + n
             new == [F EXCEPT ![f] = [@ EXCEPT !.top = top, !.clause = TRUE]]
         IN  \/ Become("run", f, top, new, C)
             \/ Become("run", f, top + 1, new, With(C, top, NewChoice("CLAUSE", f)))
    BY DEF RunClause
  <1>2. f + 1 + n \in Nat /\ f + 1 + n > f
    BY DEF WellFormed
  <1>3. PICK top : top = f + 1 + n
    OBVIOUS
  <1>4. PICK r : r = [F[f] EXCEPT !.top = top, !.clause = TRUE]
    OBVIOUS
  <1>5. /\ frame' = [F EXCEPT ![f] = r]
        /\ choice' = C \/ choice' = With(C, top, NewChoice("CLAUSE", f))
    BY <1>1, <1>3, <1>4 DEF Become
  <1> QED  BY <1>2, <1>3, <1>5

(* A foreign predicate keeps its frame as it is, takes it away, or adds a    *)
(* choice point to it.                                                       *)
LEMMA ForeignChanges ==
    ASSUME NEW F, NEW C, NEW f \in DOMAIN F, NEW o, CallForeign(f, F, C, o), Live',
           F[f] \in FrameRecords
    PROVE  /\ DOMAIN frame' \subseteq DOMAIN F /\ \A x \in DOMAIN frame' : x # f => frame'[x] = F[x]
           /\ \A x \in DOMAIN F : x # f => x \in DOMAIN frame'
           /\ \/ choice' = C
              \/ /\ choice' = With(C, f + 1, NewChoice("FOREIGN", f)) /\ DOMAIN frame' = DOMAIN F
                 /\ frame'[f].chain = F[f].chain /\ frame'[f].top = f + 1
  <1>1. PICK r : r = [F[f] EXCEPT !.top = f + 1, !.clause = FALSE]
    OBVIOUS
  <1>2. PICK s : s = [F[f] EXCEPT !.top = f + 1, !.clause = TRUE]
    OBVIOUS
  <1> DEFINE done == [F EXCEPT ![f] = r]
             kept == [F EXCEPT ![f] = s]
  <1>3. \/ Become("failed", f, f + 1, done, C)
        \/ ExitLast(f, done, C)
        \/ ExitKept(f, f + 2, kept, With(C, f + 1, NewChoice("FOREIGN", f)))
    BY <1>1, <1>2 DEF CallForeign
  <1>4. s.chain = F[f].chain /\ s.top = f + 1
    BY <1>2 DEF FrameRecords
  <1>5. CASE Become("failed", f, f + 1, done, C)
    BY <1>5 DEF Become
  <1>6. CASE ExitLast(f, done, C)
    <2>1. ~Stop("over")
      BY DEF Stop, Become, Live
    <2>2. frame' = Without(done, {f}) /\ choice' = C
      BY <2>1, <1>6 DEF ExitLast, Become
    <2> QED  BY <2>2 DEF Without, Restrict
  <1>7. CASE ExitKept(f, f + 2, kept, With(C, f + 1, NewChoice("FOREIGN", f)))
    <2>1. frame' = kept /\ choice' = With(C, f + 1, NewChoice("FOREIGN", f))
      BY <1>7 DEF ExitKept, Become
    <2> QED  BY <2>1, <1>4
  <1> QED  BY <1>3, <1>5, <1>6, <1>7

(* newChoice() and calls put things on top.                                  *)
LEMMA PushKeeps ==
    ASSUME WellFormed, Inv, Call \/ Catch \/ Or \/ Enter
    PROVE  Kind(DOMAIN choice) /\ Live
  <1>1. Live
    BY DEF Live, Call, Catch, Or, Enter
  <1>2. /\ Addressed(frame, choice) /\ fr \in DOMAIN frame /\ lTop \in Nat
        /\ \A c \in DOMAIN choice : c < lTop /\ c \in Nat
    BY <1>1, Stands DEF Under, Addressed
  <1>3. CASE Call
    <2>1. /\ choice' = choice /\ DOMAIN frame' = DOMAIN frame \cup {lTop}
          /\ \A x \in DOMAIN frame : x # lTop => frame'[x] = frame[x]
      BY <1>3, GoalPushed DEF Call
    <2> QED  BY <2>1, <1>1, <1>2 DEF Kind, Steady, Atop
  <1>4. CASE Catch
    <2>1. /\ choice' = With(choice, lTop, NewChoice("CATCH", fr))
          /\ DOMAIN frame' = DOMAIN frame \cup {lTop + 1}
          /\ \A x \in DOMAIN frame : x # lTop + 1 => frame'[x] = frame[x]
      BY <1>4, GoalPushed DEF Catch
    <2>2. /\ DOMAIN choice' = DOMAIN choice \cup {lTop}
          /\ \A c \in DOMAIN choice : choice'[c] = choice[c]
      BY <2>1, <1>2 DEF With
    <2> QED  BY <2>1, <2>2, <1>1, <1>2 DEF Kind, Steady, Atop
  <1>5. CASE Or
    <2>1. /\ choice' = With(choice, lTop, NewChoice("JUMP", fr)) /\ frame' = frame
      BY <1>5 DEF Or, Become
    <2>2. /\ DOMAIN choice' = DOMAIN choice \cup {lTop}
          /\ \A c \in DOMAIN choice : choice'[c] = choice[c]
      BY <2>1, <1>2 DEF With
    <2> QED  BY <2>1, <2>2, <1>1, <1>2 DEF Kind, Steady, Atop
  <1>6. CASE Enter
    <2>1. mode = "call" /\ (NoClause \/ RunClause(fr, frame, choice))
      BY <1>6 DEF Enter
    <2>2. fr \in Nat /\ \A c \in DOMAIN choice : c < fr
      BY <2>1, AtPort
    <2>3. frame[fr] \in FrameRecords
      BY <1>2 DEF Addressed
    <2>4. CASE NoClause
      <3>1. PICK r : r = [frame[fr] EXCEPT !.clause = FALSE]
        OBVIOUS
      <3>2. choice' = choice /\ frame' = [frame EXCEPT ![fr] = r]
        BY <2>4, <3>1 DEF NoClause, Become
      <3>3. r.chain = frame[fr].chain /\ r.top = frame[fr].top
        BY <3>1, <2>3 DEF FrameRecords
      <3> QED  BY <3>2, <3>3, <1>1 DEF Kind, Steady, Atop
    <2>5. CASE RunClause(fr, frame, choice)
      <3>1. /\ DOMAIN frame' = DOMAIN frame /\ \A x \in DOMAIN frame : x # fr => frame'[x] = frame[x]
            /\ \/ choice' = choice
               \/ \E top \in Nat : top > fr /\ choice' = With(choice, top, NewChoice("CLAUSE", fr))
        BY <2>2, <2>3, <2>5, ClauseChanges
      <3>2. \A c \in DOMAIN choice : \A x \in DOMAIN frame : x < c => frame'[x] = frame[x]
        BY <3>1, <2>2, <1>2
      <3>3. CASE choice' = choice
        BY <3>1, <3>2, <3>3, <1>1 DEF Kind, Steady, Atop
      <3>4. ASSUME NEW top \in Nat, top > fr, choice' = With(choice, top, NewChoice("CLAUSE", fr))
            PROVE  Kind(DOMAIN choice)
        <4>1. \A c \in DOMAIN choice : c < top
          BY <3>4, <2>2, <1>2
        <4>2. /\ DOMAIN choice' = DOMAIN choice \cup {top}
              /\ \A c \in DOMAIN choice : choice'[c] = choice[c]
          BY <4>1, <3>4, <1>2 DEF With
        <4> QED  BY <4>1, <4>2, <3>1, <3>2, <1>2 DEF Kind, Steady, Atop
      <3> QED  BY <3>1, <3>3, <3>4, <1>1
    <2> QED  BY <2>1, <2>4, <2>5
  <1> QED  BY <1>3, <1>4, <1>5, <1>6

(* Exits and last calls leave the choice points where they are.              *)
LEMMA LeaveKeeps ==
    ASSUME WellFormed, Inv, Depart \/ Exit \/ SoftCut \/ NextSolution, Live'
    PROVE  Kind(DOMAIN choice) /\ DOMAIN choice' = DOMAIN choice /\ Live
  <1>1. Live
    BY DEF Live, Depart, Exit, SoftCut, NextSolution
  <1>2. /\ Addressed(frame, choice) /\ fr \in DOMAIN frame /\ fr \in Nat /\ lTop \in Nat
        /\ \A c \in DOMAIN choice : c < lTop /\ c \in Nat
    BY <1>1, Stands DEF Under, Addressed
  <1>3. CASE Depart
    <2>1. PICK p \in Preds : Become("call", fr, fr + 1,
                               [frame EXCEPT ![fr] = [@ EXCEPT !.pred = p, !.top = fr + 1]], choice)
      BY <1>3 DEF Depart
    <2>2. Newer(fr) = {}
      BY <1>3 DEF Depart
    <2>3. /\ choice' = choice /\ DOMAIN frame' = DOMAIN frame
          /\ \A x \in DOMAIN frame : x # fr => frame'[x] = frame[x]
      BY <2>1 DEF Become
    <2>4. \A c \in DOMAIN choice : c <= fr
      BY <2>2, <1>2 DEF Newer
    <2> QED  BY <2>3, <2>4, <1>1, <1>2 DEF Kind, Steady, Atop
  <1>4. CASE Exit
    <2>1. ~Stop("over")
      BY DEF Stop, Become, Live
    <2>2. choice' = choice /\ (frame' = frame \/ frame' = Without(frame, {fr}))
      BY <2>1, <1>4 DEF Exit, ExitLast, ExitKept, Become
    <2>3. DOMAIN frame' \subseteq DOMAIN frame /\ \A x \in DOMAIN frame' : frame'[x] = frame[x]
      BY <2>2 DEF Without, Restrict
    <2> QED  BY <2>2, <2>3, <1>1 DEF Kind, Steady, Atop
  <1>5. CASE SoftCut
    <2>1. PICK b \in DOMAIN choice : Become("run", fr, lTop, frame, [choice EXCEPT ![b].type = "NONE"])
      BY <1>5 DEF SoftCut
    <2>2. PICK r : r = [choice[b] EXCEPT !.type = "NONE"]
      OBVIOUS
    <2>3. frame' = frame /\ choice' = [choice EXCEPT ![b] = r]
      BY <2>1, <2>2 DEF Become
    <2>4. choice[b] \in [type : ChoiceTypes, frame : Nat]
      BY <1>1, Stands DEF Shape, Records
    <2>5. r.frame = choice[b].frame
      BY <2>2, <2>4
    <2> QED  BY <2>3, <2>5, <1>1 DEF Kind, Steady, Atop
  <1>6. CASE NextSolution
    BY <1>1, <1>6 DEF NextSolution, blocks, Kind, Steady, Atop
  <1> QED  BY <1>3, <1>4, <1>5, <1>6

(* Cuts take away choice points and what only they come back to.             *)
LEMMA CommitKeeps ==
    ASSUME Cut \/ CutTo
    PROVE  /\ Kind(DOMAIN choice) /\ DOMAIN choice' \subseteq DOMAIN choice /\ Live
  <1>1. Live
    BY DEF Live, Cut, CutTo
  <1>2. \E gone, cut : frame' = Without(frame, gone) /\ choice' = Without(choice, cut)
    BY DEF Cut, CutTo, Prune, Become
  <1>3. /\ DOMAIN frame' \subseteq DOMAIN frame /\ \A x \in DOMAIN frame' : frame'[x] = frame[x]
        /\ DOMAIN choice' \subseteq DOMAIN choice /\ \A c \in DOMAIN choice' : choice'[c] = choice[c]
    BY <1>2 DEF Without, Restrict
  <1> QED  BY <1>1, <1>3 DEF Kind, Steady, Atop

(* A foreign predicate is called on top.                                     *)
LEMMA CallCKeeps ==
    ASSUME WellFormed, Inv, EnterForeign, Inv', Live'
    PROVE  /\ Kind(DOMAIN choice) /\ Live /\ fr \in DOMAIN frame
           /\ \A c \in DOMAIN choice' : c \in DOMAIN choice => c < fr /\ Nests(frame, choice, fr, c)
           /\ \A c \in DOMAIN choice' : c \notin DOMAIN choice =>
                 /\ choice'[c].frame = fr
                 /\ frame'[fr].chain = frame[fr].chain /\ frame'[fr].top = fr + 1
                 /\ \A g \in frame[fr].chain \ {fr} : frame'[g].top = frame[g].top
  <1>1. Live /\ mode = "call" /\ CallForeign(fr, frame, choice, open)
    BY DEF Live, EnterForeign
  <1>2. /\ Shape(frame, choice, fr, Port) /\ Addressed(frame, choice) /\ fr \in DOMAIN frame
        /\ fr \in Nat /\ \A c \in DOMAIN choice : c < fr /\ c \in Nat
    BY <1>1, Stands, AtPort DEF Addressed
  <1>3. frame[fr] \in FrameRecords /\ frame[fr].chain \subseteq DOMAIN frame
    BY <1>2 DEF Addressed
  <1>4. /\ DOMAIN frame' \subseteq DOMAIN frame
        /\ \A x \in DOMAIN frame' : x # fr => frame'[x] = frame[x]
        /\ \A x \in DOMAIN frame : x # fr => x \in DOMAIN frame'
        /\ \/ choice' = choice
           \/ /\ choice' = With(choice, fr + 1, NewChoice("FOREIGN", fr)) /\ DOMAIN frame' = DOMAIN frame
              /\ frame'[fr].chain = frame[fr].chain /\ frame'[fr].top = fr + 1
    BY <1>1, <1>2, <1>3, ForeignChanges
  <1>5. \A c \in DOMAIN choice : \A x \in DOMAIN frame' : x < c => frame'[x] = frame[x]
    BY <1>2, <1>4
  <1>6. \A c \in DOMAIN choice : Nests(frame, choice, fr, c)
    BY <1>2 DEF Shape, Nested
  <1>7. CASE choice' = choice
    BY <1>1, <1>2, <1>5, <1>6, <1>7 DEF Kind, Steady, Atop
  <1>8. CASE /\ choice' = With(choice, fr + 1, NewChoice("FOREIGN", fr)) /\ DOMAIN frame' = DOMAIN frame
             /\ frame'[fr].chain = frame[fr].chain /\ frame'[fr].top = fr + 1
    <2>1. /\ DOMAIN choice' = DOMAIN choice \cup {fr + 1} /\ fr + 1 \notin DOMAIN choice
          /\ \A c \in DOMAIN choice : choice'[c] = choice[c]
          /\ choice'[fr + 1].frame = fr
      BY <1>8, <1>2 DEF With, NewChoice
    <2>2. Kind(DOMAIN choice)
      BY <2>1, <1>2, <1>5 DEF Kind, Steady, Atop
    <2> QED  BY <2>1, <2>2, <1>1, <1>2, <1>3, <1>4, <1>6, <1>8
  <1> QED  BY <1>4, <1>7, <1>8

(* An exception takes away what is above catch/3, and calls the goal of      *)
(* recovery there.                                                           *)
LEMMA RecoverKeeps ==
    ASSUME Inv, Throw, Live'
    PROVE  /\ Kind(DOMAIN choice) /\ Live /\ fr' \in DOMAIN choice
           /\ DOMAIN choice' \subseteq DOMAIN choice /\ \A c \in DOMAIN choice' : c < fr'
           /\ \E c \in DOMAIN frame :
                 frame'[fr'].parent = c /\ \A d \in DOMAIN choice' : Nests(frame, choice, c, d)
  <1>1. Live /\ ~Uncaught
    BY DEF Live, Throw, Uncaught, Stop, Become
  <1>2. PICK c \in frame[fr].chain, ch \in DOMAIN choice : ThrowTo(c, ch)
    BY <1>1 DEF Throw
  <1>3. /\ Shape(frame, choice, fr, Port) /\ Addressed(frame, choice) /\ fr \in DOMAIN frame
    BY <1>1, Stands
  <1>4. PICK gone : gone = Above(fr, c, c)
    OBVIOUS
  <1>5. /\ ch \in Newer(c)
        /\ CallGoal(c, ch, Without(frame, gone), Without(choice, Newer(c)), RefsWithout(gone))
    BY <1>2, <1>4 DEF ThrowTo
  <1>6. /\ choice' = Without(choice, Newer(c)) /\ fr' = ch
        /\ DOMAIN frame' = DOMAIN Without(frame, gone) \cup {ch}
        /\ \A x \in DOMAIN Without(frame, gone) : x # ch => frame'[x] = Without(frame, gone)[x]
    BY <1>5, GoalPushed
  <1>7. /\ DOMAIN choice' = DOMAIN choice \ Newer(c) /\ \A d \in DOMAIN choice' : choice'[d] = choice[d]
        /\ \A x \in DOMAIN frame' : x # ch => x \in DOMAIN frame /\ frame'[x] = frame[x]
    BY <1>6 DEF Without, Restrict
  <1>8. \A d \in DOMAIN choice' : d < ch /\ d \in Nat /\ ch \in Nat
    BY <1>3, <1>5, <1>7 DEF Newer, Addressed
  <1>9. \A d \in DOMAIN choice' : \A x \in DOMAIN frame' : x < d => x # ch
    BY <1>8
  <1>10. Kind(DOMAIN choice) /\ fr' \in DOMAIN choice
    BY <1>6, <1>7, <1>8, <1>9 DEF Kind, Steady, Atop
  <1>11. c \in DOMAIN frame /\ \A g \in frame[c].chain : g \in frame[fr].chain
    BY <1>3 DEF Shape, Linked
  <1>12. \A d \in DOMAIN choice' : Nests(frame, choice, c, d)
    <2>1. \A d \in DOMAIN choice' : Nests(frame, choice, fr, d)
      BY <1>3, <1>7 DEF Shape, Nested
    <2> QED  BY <2>1, <1>11 DEF Nests
  <1>13. frame'[fr'].parent = c
    BY <1>5 DEF CallGoal, Become, With, NewFrame
  <1> QED  BY <1>1, <1>6, <1>7, <1>8, <1>10, <1>11, <1>12, <1>13

(* Backtracking takes away the newest choice point and what is above it; the *)
(* frame that it comes back to is on top, and may get a new choice point.    *)
LEMMA RetryKeeps ==
    ASSUME WellFormed, Inv, Backtrack, Inv', Live', NEW b \in DOMAIN choice, Newer(b) = {},
           NEW O, O = DOMAIN choice \ {b}, NEW f, f = choice[b].frame
    PROVE  /\ Kind(O) /\ Live /\ f \in DOMAIN frame /\ \A c \in O : c < b
           /\ choice[b].type = "FOREIGN" =>
                /\ \A c \in DOMAIN choice' : c \in O => c < f /\ Nests(frame, choice, f, c)
                /\ \A c \in DOMAIN choice' : c \notin O =>
                     /\ choice'[c].frame = f
                     /\ frame'[f].chain = frame[f].chain /\ frame'[f].top = f + 1
                     /\ \A g \in frame[f].chain \ {f} : frame'[g].top = frame[g].top
  <1>1. Live /\ mode = "failed"
    BY DEF Live, Backtrack
  <1>2. /\ Shape(frame, choice, fr, NULL) /\ Addressed(frame, choice) /\ fr \in DOMAIN frame
    BY <1>1, Stands DEF Port
  <1>3. \A c \in O : c < b /\ c \in Nat /\ b \in Nat
    BY <1>2 DEF Newer, Addressed
  <1>4. Redo(b)
    <2>1. PICK d \in DOMAIN choice : Redo(d)
      BY DEF Backtrack
    <2>2. Newer(d) = {}
      BY <2>1 DEF Redo
    <2>3. d \in Nat /\ b \in Nat
      BY <1>2 DEF Addressed
    <2>4. d = b
      BY <2>2, <2>3 DEF Newer
    <2> QED  BY <2>1, <2>4
  <1> DEFINE gone == {g \in frame[fr].chain : g > b}
             F == Without(frame, gone)
             C == Without(choice, {b})
             type == choice[b].type
  <1>5. /\ \/ type = "JUMP" /\ Become("run", f, b, F, C)
           \/ type = "CLAUSE" /\ RunClause(f, F, C)
           \/ type = "FOREIGN" /\ CallForeign(f, F, C, open - 1)
           \/ type \in {"CATCH", "NONE"} /\ Become("failed", f, lTop, F, C)
           \/ type = "TOP" /\ Stop("over")
    BY <1>4 DEF Redo
  <1>6. ~Stop("over")
    BY DEF Stop, Become, Live
  <1>7. b # QueryChoice
    BY <1>2, <1>5, <1>6 DEF Shape, Owned
  <1>8. Newest(choice, b) /\ PassedBack(frame, fr, b, gone)
    BY DEF Newest, Newer, PassedBack
  <1>9. /\ f \in DOMAIN frame /\ f \in Nat /\ f < b /\ frame[f].chain \subseteq DOMAIN frame
        /\ frame[f] \in FrameRecords /\ f \in frame[f].chain
        /\ \A g \in frame[f].chain : g <= f /\ g \in Nat /\ b \in Nat
    BY <1>2, <1>7 DEF Addressed, QueryChoice
  <1>10. /\ f \in DOMAIN F
         /\ type \in {"CLAUSE", "FOREIGN"} => \A y \in DOMAIN F \cup DOMAIN C : y <= f
    <2> DEFINE w == IF type = "FOREIGN" THEN choice[b].frame ELSE NULL
    <2>1. (type = "FOREIGN" => w = choice[b].frame) /\ (type # "FOREIGN" => w = NULL)
      OBVIOUS
    <2> HIDE DEF w, gone
    <2>2. /\ choice[b].frame \in DOMAIN frame \ gone
          /\ choice[b].type \in {"CLAUSE", "FOREIGN"} =>
                \A y \in DOMAIN Without(frame, gone) \cup DOMAIN Without(choice, {b}) :
                   y <= choice[b].frame
      BY <2>1, <1>2, <1>7, <1>8, Resumed
    <2> QED  BY <2>2 DEF Without, Restrict
  <1>11. /\ DOMAIN C = O /\ \A c \in O : C[c] = choice[c]
         /\ DOMAIN F \subseteq DOMAIN frame /\ \A x \in DOMAIN F : F[x] = frame[x]
         /\ \A x \in DOMAIN frame : ~(x > b) => x \in DOMAIN F
    BY DEF Without, Restrict
  <1> HIDE DEF F, C, gone
  <1>12. CASE type = "JUMP" \/ type \in {"CATCH", "NONE"}
    <2>1. frame' = F /\ choice' = C
      BY <1>5, <1>12 DEF Become
    <2> QED  BY <2>1, <1>1, <1>3, <1>9, <1>11, <1>12 DEF Kind, Steady, Atop
  <1>13. ASSUME type \in {"CLAUSE", "FOREIGN"} PROVE \A c \in O : c < f
    <2>1. \A c \in O : c <= f /\ c \notin DOMAIN frame
      BY <1>2, <1>10, <1>11, <1>13 DEF Addressed
    <2> QED  BY <2>1, <1>3, <1>9
  <1>14. CASE type = "CLAUSE"
    <2>1. /\ DOMAIN frame' = DOMAIN F /\ \A x \in DOMAIN F : x # f => frame'[x] = F[x]
          /\ \/ choice' = C
             \/ \E top \in Nat : top > f /\ choice' = With(C, top, NewChoice("CLAUSE", f))
      <3>1. F[f] \in FrameRecords /\ RunClause(f, F, C)
        BY <1>5, <1>9, <1>10, <1>11, <1>14
      <3> QED  BY <3>1, <1>9, ClauseChanges
    <2>2. \A c \in O : \A x \in DOMAIN frame' : x < c => frame'[x] = frame[x]
      BY <2>1, <1>3, <1>9, <1>11, <1>13, <1>14
    <2>3. ASSUME choice' = C PROVE Kind(O)
      BY <2>2, <2>3, <1>11 DEF Kind, Steady, Atop
    <2>4. ASSUME NEW top \in Nat, top > f, choice' = With(C, top, NewChoice("CLAUSE", f))
          PROVE  Kind(O)
      <3>1. \A c \in O : c < top
        BY <2>4, <1>3, <1>9, <1>13, <1>14
      <3>2. /\ DOMAIN choice' = O \cup {top} /\ top \notin O
            /\ \A c \in O : choice'[c] = choice[c]
        BY <3>1, <2>4, <1>3, <1>11 DEF With
      <3> QED  BY <3>1, <3>2, <2>2, <1>11 DEF Kind, Steady, Atop
    <2> QED  BY <2>1, <2>3, <2>4, <1>1, <1>3, <1>9, <1>14
  <1>15. CASE type = "FOREIGN"
    <2>1. PICK o : F[f] \in FrameRecords /\ CallForeign(f, F, C, o)
      BY <1>5, <1>9, <1>10, <1>11, <1>15
    <2>2. /\ DOMAIN frame' \subseteq DOMAIN F /\ \A x \in DOMAIN frame' : x # f => frame'[x] = F[x]
          /\ \A x \in DOMAIN F : x # f => x \in DOMAIN frame'
          /\ \/ choice' = C
             \/ /\ choice' = With(C, f + 1, NewChoice("FOREIGN", f)) /\ DOMAIN frame' = DOMAIN F
                /\ frame'[f].chain = F[f].chain /\ frame'[f].top = f + 1
      <3>1. PICK E : E = F
        OBVIOUS
      <3>2. PICK D : D = C
        OBVIOUS
      <3>3. f \in DOMAIN E /\ E[f] \in FrameRecords /\ CallForeign(f, E, D, o)
        BY <2>1, <3>1, <3>2, <1>10
      <3>4. /\ DOMAIN frame' \subseteq DOMAIN E /\ \A x \in DOMAIN frame' : x # f => frame'[x] = E[x]
            /\ \A x \in DOMAIN E : x # f => x \in DOMAIN frame'
            /\ \/ choice' = D
               \/ /\ choice' = With(D, f + 1, NewChoice("FOREIGN", f)) /\ DOMAIN frame' = DOMAIN E
                  /\ frame'[f].chain = E[f].chain /\ frame'[f].top = f + 1
        BY <3>3, ForeignChanges, Z3
      <3> QED  BY <3>1, <3>2, <3>4
    <2>3. \A c \in O : \A x \in DOMAIN frame' : x < c => frame'[x] = frame[x]
      BY <2>2, <1>3, <1>9, <1>11, <1>13, <1>15
    <2>4. \A c \in O : c < f /\ Nests(frame, choice, f, c)
      BY <1>2, <1>3, <1>13, <1>15 DEF Shape, Nested
    <2>5. CASE choice' = C
      <3>1. Kind(O)
        BY <2>3, <2>5, <1>11 DEF Kind, Steady, Atop
      <3> QED  BY <3>1, <2>4, <2>5, <1>1, <1>3, <1>9, <1>11
    <2>6. CASE /\ choice' = With(C, f + 1, NewChoice("FOREIGN", f)) /\ DOMAIN frame' = DOMAIN F
               /\ frame'[f].chain = F[f].chain /\ frame'[f].top = f + 1
      <3>1. /\ DOMAIN choice' = O \cup {f + 1} /\ f + 1 \notin O
            /\ \A c \in O : choice'[c] = choice[c]
            /\ choice'[f + 1].frame = f
        BY <2>4, <2>6, <1>3, <1>9, <1>11 DEF With, NewChoice
      <3>2. Kind(O)
        BY <3>1, <2>3, <2>4, <1>3, <1>9, <1>11 DEF Kind, Steady, Atop
      <3>3. \A g \in frame[f].chain \ {f} : frame'[g].top = frame[g].top
        <4>1. \A g \in frame[f].chain : g \in DOMAIN F
          BY <1>9, <1>11
        <4> QED  BY <4>1, <2>2, <1>11, <2>6
      <3>4. frame'[f].chain = frame[f].chain /\ frame'[f].top = f + 1
        BY <2>6, <1>10, <1>11
      <3> QED  BY <3>1, <3>2, <3>3, <3>4, <2>4, <1>1, <1>3, <1>9
    <2> QED  BY <2>2, <2>5, <2>6
  <1> QED  BY <1>5, <1>6, <1>12, <1>14, <1>15

-----------------------------------------------------------------------------
(* The steps                                                                 *)

(* Choice points of O keep their marks, new ones are marked with the tops.   *)
LEMMA MarksKept ==
    ASSUME NEW T, NEW G, NEW L, NEW M, Noted(T, G, L, M), Within(T, M, frame, choice),
           Addressed(frame, choice), Addressed(frame', choice'), NEW O, Kind(O),
           \A c \in DOMAIN choice' : c \in O => c \in DOMAIN M,
           NEW N, N = [c \in DOMAIN choice' |-> IF c \in O THEN M[c] ELSE MarkOf(T, G, L)]
    PROVE  /\ Noted(T, G, L, N) /\ Within(T, N, frame', choice') /\ DOMAIN N = DOMAIN choice'
           /\ Barred(N, G)
           /\ \A bar : Barred(M, bar) /\ DOMAIN choice' \subseteq O => Barred(N, bar)
  <1>1. DOMAIN choice' \in SUBSET Nat
    BY DEF Addressed
  <1>2. Noted(T, G, L, N)
    BY <1>1, Marked DEF Kind, Atop
  <1>3. Typed(T, G, L, M) /\ T \in Seq(Slots)
    BY DEF Noted, Typed
  <1>4. /\ MarkOf(T, G, L).t = Len(T) /\ MarkOf(T, G, L).g = G /\ G \in Nat
        /\ \A c \in DOMAIN M : M[c].t \in Nat
    BY <1>3, MarkParts
  <1>5. Within(T, N, frame', choice')
    BY <1>3, <1>4, WithinMarked DEF Kind
  <1>6. Barred(N, G)
    BY <1>2, <1>4 DEF Noted, UpTo, Barred
  <1>7. \A bar : Barred(M, bar) /\ DOMAIN choice' \subseteq O => Barred(N, bar)
    BY DEF Barred
  <1> QED  BY <1>2, <1>5, <1>6, <1>7

(* A foreign predicate assigns above its mark.                               *)
LEMMA ForeignNotes ==
    ASSUME NEW T, NEW G, NEW L, NEW M, Noted(T, G, L, M), Within(T, M, frame, choice),
           Addressed(frame, choice), Addressed(frame', choice'), NEW O, Kind(O),
           \A c \in DOMAIN choice' : c \in O => c \in DOMAIN M /\ M[c] = mark[c],
           NEW f \in DOMAIN frame, Foreign(f, T, G, L, O),
           \A c \in DOMAIN choice' : c \in O => c < f /\ Nests(frame, choice, f, c),
           \A c \in DOMAIN choice' : c \notin O =>
              /\ choice'[c].frame = f /\ frame'[f].chain = frame[f].chain /\ frame'[f].top = f + 1
              /\ \A g \in frame[f].chain \ {f} : frame'[g].top = frame[g].top
    PROVE  TrailInv'
  <1>1. /\ Assign(OfForeign(f), T, G, L, G) /\ markBar' = G
        /\ mark' = [c \in DOMAIN choice' |-> IF c \in O THEN mark[c] ELSE MarkOf(T, G, L)]
    BY DEF Foreign, Marks
  <1>2. PICK N : N = mark'
    OBVIOUS
  <1>3. N = [c \in DOMAIN choice' |-> IF c \in O THEN M[c] ELSE MarkOf(T, G, L)]
    BY <1>1, <1>2
  <1>4. Noted(T, G, L, N) /\ Within(T, N, frame', choice') /\ DOMAIN N = DOMAIN choice' /\ Barred(N, G)
    BY <1>3, MarksKept
  <1>5. PICK places : places = OfForeign(f)
    OBVIOUS
  <1>6. /\ trail' \in Seq(Slots) /\ IsPrefix(T, trail') /\ log' \in Seq(Slots) /\ IsPrefix(L, log')
        /\ gTop' \in Nat /\ G <= gTop'
        /\ \A r \in Added(L, log') : r[2] \in IF OnGlobal(r) THEN 1 .. gTop' ELSE places
        /\ Added(T, trail') = {r \in Added(L, log') : ~OnGlobal(r) \/ r[2] <= G}
    BY <1>1, <1>5 DEF Assign
  <1>7. Noted(trail', gTop', log', N)
    <2>1. Assigns(T, G, L, trail', gTop', log', places, G)
      BY <1>6 DEF Assigns
    <2> QED  BY <2>1, <1>4, Assigned
  <1>8. \A c \in DOMAIN choice' : \A a \in places :
           a <= c => a \in Spots(frame', frame'[choice'[c].frame].chain)
    <2>1. places = Spots(frame, frame[f].chain \ {f}) \cup {f}
      BY <1>5 DEF OfForeign, Places, Spots
    <2> QED  BY <2>1, ForeignReaches DEF Kind
  <1>9. Within(trail', N, frame', choice')
    <2>1. T \in Seq(Slots) /\ \A c \in DOMAIN N : N[c].t \in Nat
      BY <1>4, MarkParts DEF Noted, Typed
    <2>2. /\ Added(T, trail') \subseteq Added(L, log')
          /\ \A r \in Added(L, log') : ~OnGlobal(r) => r[2] \in places
      BY <1>6
    <2>3. \A c \in DOMAIN N : \A a \in places :
             a <= c => a \in Spots(frame', frame'[choice'[c].frame].chain)
      BY <1>4, <1>8
    <2> QED  BY <2>1, <2>2, <2>3, <1>4, <1>6, WithinAssigned
  <1> QED  BY <1>1, <1>2, <1>4, <1>7, <1>9 DEF TrailInv

(* Terms are unified in the frame that runs.                                 *)
LEMMA UnifyStep ==
    ASSUME Inv, TrailInv, Unify
    PROVE  TrailInv'
  <1>1. /\ Live /\ frame' = frame /\ choice' = choice
        /\ Assign(OfClause, trail, gTop, log, markBar) /\ markBar' \in {markBar, gTop} /\ mark' = mark
    BY DEF Unify, Compute, Fail, vars, blocks, Live
  <1>2. /\ Shape(frame, choice, fr, Port) /\ Addressed(frame, choice) /\ fr \in DOMAIN frame
        /\ lTop \in Nat /\ \A c \in DOMAIN choice : c < lTop /\ c \in Nat
    BY <1>1, Stands DEF Under, Addressed
  <1>3. /\ Noted(trail, gTop, log, mark) /\ Within(trail, mark, frame, choice)
        /\ Barred(mark, markBar) /\ DOMAIN mark = DOMAIN choice
    BY DEF TrailInv
  <1>4. PICK places : places = OfClause
    OBVIOUS
  <1>5. /\ trail' \in Seq(Slots) /\ IsPrefix(trail, trail') /\ log' \in Seq(Slots) /\ IsPrefix(log, log')
        /\ gTop' \in Nat /\ gTop <= gTop'
        /\ \A r \in Added(log, log') : r[2] \in IF OnGlobal(r) THEN 1 .. gTop' ELSE places
        /\ Added(trail, trail') = {r \in Added(log, log') : ~OnGlobal(r) \/ r[2] <= markBar}
    BY <1>1, <1>4 DEF Assign
  <1>6. Noted(trail', gTop', log', mark)
    <2>1. Assigns(trail, gTop, log, trail', gTop', log', places, markBar)
      BY <1>5 DEF Assigns
    <2> QED  BY <2>1, <1>3, Assigned
  <1>7. \A c \in DOMAIN mark : \A a \in places :
           a <= c => a \in Spots(frame, frame[choice[c].frame].chain)
    <2> SUFFICES ASSUME NEW c \in DOMAIN choice, NEW a \in places, a <= c
                 PROVE  a \in Spots(frame, frame[choice[c].frame].chain)
      BY <1>3
    <2>1. a # lTop /\ Nests(frame, choice, fr, c)
      BY <1>2 DEF Shape, Nested
    <2>2. a \in Spots(frame, frame[fr].chain)
      BY <2>1, <1>4 DEF OfClause, Places, Spots
    <2> QED  BY <2>1, <2>2, <1>2, Reaches
  <1>8. Within(trail', mark, frame, choice)
    <2>1. trail \in Seq(Slots) /\ \A c \in DOMAIN mark : mark[c].t \in Nat
      BY <1>3, MarkParts DEF Noted, Typed
    <2>2. /\ Added(trail, trail') \subseteq Added(log, log')
          /\ \A r \in Added(log, log') : ~OnGlobal(r) => r[2] \in places
      BY <1>5
    <2> QED  BY <2>1, <2>2, <1>3, <1>5, <1>7, WithinAssigned
  <1>9. Barred(mark, markBar')
    <2>1. Barred(mark, gTop)
      BY <1>3, MarkParts DEF Noted, Typed, MarkOf, UpTo, Barred
    <2> QED  BY <2>1, <1>1, <1>3
  <1> QED  BY <1>1, <1>3, <1>6, <1>8, <1>9 DEF TrailInv

(* What the invariant says when the next state is part of the query too.     *)
LEMMA Before ==
    ASSUME Inv, TrailInv, Live, Inv', Live'
    PROVE  /\ Noted(trail, gTop, log, mark) /\ Within(trail, mark, frame, choice)
           /\ Barred(mark, markBar) /\ DOMAIN mark = DOMAIN choice /\ gTop \in Nat
           /\ Addressed(frame, choice) /\ Addressed(frame', choice')
           /\ \A c \in DOMAIN mark : mark[c].t \in Nat /\ mark[c].g \in Nat
           /\ DOMAIN choice \subseteq Nat /\ trail \in Seq(Slots)
  <1>1. Addressed(frame, choice) /\ Addressed(frame', choice')
    BY Stands, WillStand
  <1>2. Noted(trail, gTop, log, mark) /\ Typed(trail, gTop, log, mark)
    BY DEF TrailInv, Noted
  <1> QED  BY <1>1, <1>2, MarkParts DEF TrailInv, Addressed, Typed

(* newChoice() marks a choice point with the tops.                           *)
LEMMA PushStep ==
    ASSUME WellFormed, Inv, TrailInv, Push, Inv', Live'
    PROVE  TrailInv'
  <1>1. /\ Call \/ Catch \/ Or \/ Enter
        /\ trail' = trail /\ gTop' = gTop /\ log' = log
        /\ mark' = [c \in DOMAIN choice' |->
                      IF c \in DOMAIN choice THEN mark[c] ELSE MarkOf(trail, gTop, log)]
        /\ markBar' = IF DOMAIN choice' = DOMAIN choice THEN markBar ELSE gTop
    BY DEF Push, Marks
  <1>2. Kind(DOMAIN choice) /\ Live
    BY <1>1, PushKeeps
  <1>3. PICK N : N = mark'
    OBVIOUS
  <1>4. /\ Noted(trail, gTop, log, N) /\ Within(trail, N, frame', choice') /\ DOMAIN N = DOMAIN choice'
        /\ Barred(N, gTop)
        /\ \A bar : Barred(mark, bar) /\ DOMAIN choice' \subseteq DOMAIN choice => Barred(N, bar)
    <2>1. \A c \in DOMAIN choice' : c \in DOMAIN choice => c \in DOMAIN mark
      BY <1>2, Before
    <2> QED  BY <2>1, <1>1, <1>2, <1>3, Before, MarksKept
  <1>5. Barred(N, markBar')
    BY <1>1, <1>2, <1>4, Before
  <1> QED  BY <1>1, <1>3, <1>4, <1>5 DEF TrailInv

(* Without an assignment or a mark nothing changes.                          *)
LEMMA LeaveStep ==
    ASSUME WellFormed, Inv, TrailInv, Leave, Inv', Live'
    PROVE  TrailInv'
  <1>1. /\ Depart \/ Exit \/ SoftCut \/ NextSolution
        /\ trail' = trail /\ gTop' = gTop /\ log' = log /\ mark' = mark /\ markBar' = markBar
    BY DEF Leave, data
  <1>2. Kind(DOMAIN choice) /\ DOMAIN choice' = DOMAIN choice /\ Live
    BY <1>1, LeaveKeeps
  <1>3. mark = [c \in DOMAIN choice' |->
                  IF c \in DOMAIN choice THEN mark[c] ELSE MarkOf(trail, gTop, log)]
    BY <1>2, Before DEF Noted, Typed
  <1>4. /\ Noted(trail, gTop, log, mark) /\ Within(trail, mark, frame', choice')
        /\ DOMAIN mark = DOMAIN choice'
    BY <1>2, <1>3, Before, MarksKept
  <1> QED  BY <1>1, <1>2, <1>4, Before DEF TrailInv

(* The bar of the newest choice point is above what is left.                 *)
LEMMA NewestBars ==
    ASSUME NEW K, NEW c \in K, \A d \in K : d <= c, NEW T, NEW G, NEW L, NEW M, Noted(T, G, L, M),
           K \subseteq DOMAIN M, NEW N, N = [d \in K |-> M[d]]
    PROVE  Barred(N, M[c].g)
  <1>1. c \in Nat /\ M[c].g \in Nat /\ \A d \in K : d \in Nat
    BY MarkParts DEF Noted, Typed
  <1>2. ASSUME NEW d \in K PROVE M[d].g <= M[c].g
    <2>1. CASE d = c
      BY <2>1, <1>1
    <2>2. CASE d # c
      <3>1. d < c
        BY <2>2, <1>1
      <3> QED  BY <3>1 DEF Noted, UpTo
    <2> QED  BY <2>1, <2>2
  <1> QED  BY <1>1, <1>2 DEF Barred

(* Cuts take marks away.                                                     *)
LEMMA CommitStep ==
    ASSUME WellFormed, Inv, TrailInv, Commit, Inv', Live'
    PROVE  TrailInv'
  <1>1. /\ (Cut /\ BarOfNewest) \/ (CutTo /\ markBar' = markBar)
        /\ trail' = trail /\ gTop' = gTop /\ log' = log
        /\ mark' = [c \in DOMAIN choice' |-> IF c \in DOMAIN choice THEN mark[c] ELSE NULL]
    BY DEF Commit, Marks
  <1>2. Kind(DOMAIN choice) /\ DOMAIN choice' \subseteq DOMAIN choice /\ Live
    BY <1>1, CommitKeeps
  <1>3. PICK N : N = mark'
    OBVIOUS
  <1>4. /\ N = [c \in DOMAIN choice' |-> mark[c]]
        /\ N = [c \in DOMAIN choice' |->
                  IF c \in DOMAIN choice THEN mark[c] ELSE MarkOf(trail, gTop, log)]
    BY <1>1, <1>2, <1>3
  <1>5. /\ Noted(trail, gTop, log, N) /\ Within(trail, N, frame', choice') /\ DOMAIN N = DOMAIN choice'
        /\ \A bar : Barred(mark, bar) /\ DOMAIN choice' \subseteq DOMAIN choice => Barred(N, bar)
    BY <1>2, <1>4, Before, MarksKept
  <1>6. Barred(N, markBar')
    <2>1. CASE markBar' = markBar
      BY <2>1, <1>2, <1>5, Before
    <2>2. CASE BarOfNewest
      <3>1. PICK c \in DOMAIN choice' : (\A d \in DOMAIN choice' : d <= c) /\ markBar' = mark[c].g
        BY <2>2 DEF BarOfNewest
      <3> QED  BY <3>1, <1>2, <1>4, Before, NewestBars
    <2> QED  BY <2>1, <2>2, <1>1
  <1> QED  BY <1>1, <1>3, <1>5, <1>6 DEF TrailInv

(* A foreign predicate is called.                                            *)
LEMMA CallCStep ==
    ASSUME WellFormed, Inv, TrailInv, CallC, Inv', Live'
    PROVE  TrailInv'
  <1>1. EnterForeign /\ Foreign(fr, trail, gTop, log, DOMAIN choice)
    BY DEF CallC
  <1>2. /\ Kind(DOMAIN choice) /\ Live /\ fr \in DOMAIN frame
        /\ \A c \in DOMAIN choice' : c \in DOMAIN choice => c < fr /\ Nests(frame, choice, fr, c)
        /\ \A c \in DOMAIN choice' : c \notin DOMAIN choice =>
              /\ choice'[c].frame = fr
              /\ frame'[fr].chain = frame[fr].chain /\ frame'[fr].top = fr + 1
              /\ \A g \in frame[fr].chain \ {fr} : frame'[g].top = frame[g].top
    BY <1>1, CallCKeeps
  <1> QED  BY <1>1, <1>2, Before, ForeignNotes

(* What Undo() to choice point b leaves to the older ones of O.              *)
LEMMA UndoKeeps ==
    ASSUME Noted(trail, gTop, log, mark), Within(trail, mark, frame, choice),
           NEW b \in DOMAIN mark, NEW O \in SUBSET DOMAIN mark, \A d \in O : d < b,
           NEW m, m = mark[b], NEW M, M = [c \in O |-> mark[c]]
    PROVE  /\ Noted(TrailAt(m), m.g, LogAt(m), M) /\ Within(TrailAt(m), M, frame, choice)
           /\ MarkOf(TrailAt(m), m.g, LogAt(m)) = m /\ DOMAIN M = O /\ \A c \in O : M[c] = mark[c]
  <1>1. /\ Noted(TrailAt(m), m.g, LogAt(m), M) /\ MarkOf(TrailAt(m), m.g, LogAt(m)) = m
        /\ m.t \in Nat /\ m.t <= Len(trail)
    BY Undone DEF TrailAt, LogAt
  <1>2. trail \in Seq(Slots) /\ \A c \in DOMAIN mark : mark[c].t \in Nat
    BY MarkParts DEF Noted, Typed
  <1>3. Within(TrailAt(m), M, frame, choice)
    BY <1>1, <1>2, WithinUndone DEF TrailAt
  <1> QED  BY <1>1, <1>3

(* An exception undoes to the choice point of catch/3, and unifies the ball  *)
(* in its frame.                                                             *)
LEMMA RecoverStep ==
    ASSUME WellFormed, Inv, TrailInv, Recover, Inv', Live'
    PROVE  TrailInv'
  <1>1. PICK m : m = mark[fr']
    OBVIOUS
  <1>2. PICK f : f = frame'[fr'].parent
    OBVIOUS
  <1>3. /\ Throw /\ markBar' \in m.g .. gTop'
        /\ mark' = [c \in DOMAIN choice' |-> IF c \in DOMAIN choice THEN mark[c] ELSE NULL]
        /\ Assign(Places(frame[f].chain), TrailAt(m), m.g, LogAt(m), markBar')
    BY <1>1, <1>2 DEF Recover, Marks
  <1>4. /\ Kind(DOMAIN choice) /\ Live /\ fr' \in DOMAIN choice
        /\ DOMAIN choice' \subseteq DOMAIN choice /\ \A c \in DOMAIN choice' : c < fr'
        /\ f \in DOMAIN frame /\ \A c \in DOMAIN choice' : Nests(frame, choice, f, c)
    <2>1. PICK c \in DOMAIN frame :
            frame'[fr'].parent = c /\ \A d \in DOMAIN choice' : Nests(frame, choice, c, d)
      BY <1>3, RecoverKeeps
    <2>2. f = c
      BY <2>1, <1>2
    <2> QED  BY <2>1, <2>2, <1>3, RecoverKeeps
  <1>5. PICK O : O = DOMAIN choice'
    OBVIOUS
  <1>6. PICK M : M = [c \in O |-> mark[c]]
    OBVIOUS
  <1>7. PICK tr, g, lg : tr = TrailAt(m) /\ g = m.g /\ lg = LogAt(m)
    OBVIOUS
  <1>8. /\ Noted(tr, g, lg, M) /\ Within(tr, M, frame, choice) /\ DOMAIN M = O
    <2>1. PICK b \in DOMAIN mark : b = fr'
      BY <1>4, Before
    <2>2. O \in SUBSET DOMAIN mark /\ (\A d \in O : d < b) /\ m = mark[b]
      BY <2>1, <1>1, <1>4, <1>5, Before
    <2> QED  BY <2>2, <1>4, <1>6, <1>7, Before, UndoKeeps
  <1>9. mark' = M /\ M = [c \in DOMAIN choice' |-> IF c \in DOMAIN choice THEN M[c]
                                                   ELSE MarkOf(tr, g, lg)]
    BY <1>3, <1>4, <1>5, <1>6
  <1>10. Noted(tr, g, lg, M) /\ Within(tr, M, frame', choice') /\ DOMAIN M = DOMAIN choice'
    <2>1. \A c \in DOMAIN choice' : c \in DOMAIN choice => c \in DOMAIN M
      BY <1>5, <1>8
    <2> QED  BY <2>1, <1>4, <1>8, <1>9, Before, MarksKept
  <1>11. Barred(M, markBar')
    <2>1. /\ MarkOf(tr, g, lg).g = g /\ g \in Nat /\ \A c \in DOMAIN M : M[c].g \in Nat
      BY <1>8, MarkParts DEF Noted
    <2>2. \A c \in DOMAIN M : M[c].g <= g
      BY <1>8, <2>1 DEF Noted, UpTo
    <2>3. markBar' \in Nat /\ g <= markBar'
      <3>1. gTop' \in Nat /\ markBar' \in g .. gTop'
        BY <1>3, <1>7 DEF Assign
      <3> QED  BY <3>1, <2>1
    <2> QED  BY <2>1, <2>2, <2>3 DEF Barred
  <1>12. PICK places : places = Places(frame[f].chain)
    OBVIOUS
  <1>13. /\ trail' \in Seq(Slots) /\ IsPrefix(tr, trail') /\ log' \in Seq(Slots) /\ IsPrefix(lg, log')
         /\ gTop' \in Nat /\ g <= gTop'
         /\ \A r \in Added(lg, log') : r[2] \in IF OnGlobal(r) THEN 1 .. gTop' ELSE places
         /\ Added(tr, trail') = {r \in Added(lg, log') : ~OnGlobal(r) \/ r[2] <= markBar'}
    BY <1>3, <1>7, <1>12 DEF Assign
  <1>14. Noted(trail', gTop', log', M)
    <2>1. Assigns(tr, g, lg, trail', gTop', log', places, markBar')
      BY <1>13 DEF Assigns
    <2> QED  BY <2>1, <1>10, <1>11, Assigned
  <1>15. \A c \in DOMAIN M : \A a \in places :
            a <= c => a \in Spots(frame', frame'[choice'[c].frame].chain)
    <2> SUFFICES ASSUME NEW c \in DOMAIN choice', NEW a \in places, a <= c
                 PROVE  a \in Spots(frame', frame'[choice'[c].frame].chain)
      BY <1>10
    <2>1. c \in DOMAIN choice /\ Nests(frame, choice, f, c) /\ a \in Spots(frame, frame[f].chain)
      BY <1>4, <1>12 DEF Places, Spots
    <2>2. a \in Spots(frame, frame[choice[c].frame].chain)
      BY <2>1, <1>4, Before, Reaches
    <2> QED  BY <2>1, <2>2, <1>4, Before, StillThere DEF Kind
  <1>16. Within(trail', M, frame', choice')
    <2>1. tr \in Seq(Slots) /\ \A c \in DOMAIN M : M[c].t \in Nat
      BY <1>10, MarkParts DEF Noted, Typed
    <2>2. /\ Added(tr, trail') \subseteq Added(lg, log')
          /\ \A r \in Added(lg, log') : ~OnGlobal(r) => r[2] \in places
      BY <1>13
    <2> QED  BY <2>1, <2>2, <1>10, <1>13, <1>15, WithinAssigned
  <1> QED  BY <1>9, <1>10, <1>11, <1>14, <1>16 DEF TrailInv

(* Backtracking undoes to the newest choice point.                           *)
LEMMA RetryStep ==
    ASSUME WellFormed, Inv, TrailInv, Retry, Inv', Live'
    PROVE  TrailInv'
  <1>1. PICK b \in DOMAIN choice : Newer(b) = {} /\
           LET m   == mark[b]
               old == DOMAIN choice \ {b}
           IN  IF choice[b].type = "FOREIGN"
               THEN Foreign(choice[b].frame, TrailAt(m), m.g, LogAt(m), old)
               ELSE /\ Undo(m) /\ Marks(old, m)
                    /\ markBar' = IF DOMAIN choice' = old THEN markBar ELSE m.g
    BY DEF Retry
  <1>2. PICK m : m = mark[b]
    OBVIOUS
  <1>3. PICK O : O = DOMAIN choice \ {b}
    OBVIOUS
  <1>4. PICK f : f = choice[b].frame
    OBVIOUS
  <1>5. PICK M : M = [c \in O |-> mark[c]]
    OBVIOUS
  <1>6. /\ Kind(O) /\ Live /\ f \in DOMAIN frame /\ \A c \in O : c < b
        /\ choice[b].type = "FOREIGN" =>
             /\ \A c \in DOMAIN choice' : c \in O => c < f /\ Nests(frame, choice, f, c)
             /\ \A c \in DOMAIN choice' : c \notin O =>
                  /\ choice'[c].frame = f
                  /\ frame'[f].chain = frame[f].chain /\ frame'[f].top = f + 1
                  /\ \A g \in frame[f].chain \ {f} : frame'[g].top = frame[g].top
    BY <1>1, <1>3, <1>4, RetryKeeps DEF Retry
  <1>7. /\ Noted(TrailAt(m), m.g, LogAt(m), M) /\ Within(TrailAt(m), M, frame, choice)
        /\ MarkOf(TrailAt(m), m.g, LogAt(m)) = m /\ DOMAIN M = O /\ \A c \in O : M[c] = mark[c]
    <2>1. b \in DOMAIN mark /\ O \in SUBSET DOMAIN mark
      BY <1>3, <1>6, Before
    <2> QED  BY <2>1, <1>2, <1>5, <1>6, Before, UndoKeeps
  <1>8. CASE choice[b].type = "FOREIGN"
    <2>1. Foreign(f, TrailAt(m), m.g, LogAt(m), O)
      BY <1>1, <1>2, <1>3, <1>4, <1>8
    <2>2. \A c \in DOMAIN choice' : c \in O => c \in DOMAIN M /\ M[c] = mark[c]
      BY <1>7
    <2> QED  BY <2>1, <2>2, <1>6, <1>7, <1>8, Before, ForeignNotes
  <1>9. CASE choice[b].type # "FOREIGN"
    <2>1. /\ trail' = TrailAt(m) /\ gTop' = m.g /\ log' = LogAt(m)
          /\ mark' = [c \in DOMAIN choice' |-> IF c \in O THEN mark[c] ELSE m]
          /\ markBar' = IF DOMAIN choice' = O THEN markBar ELSE m.g
      BY <1>1, <1>2, <1>3, <1>9 DEF Undo, Marks
    <2>2. PICK N : N = mark'
      OBVIOUS
    <2>3. N = [c \in DOMAIN choice' |-> IF c \in O THEN M[c] ELSE MarkOf(TrailAt(m), m.g, LogAt(m))]
      BY <2>1, <2>2, <1>7
    <2>4. /\ Noted(TrailAt(m), m.g, LogAt(m), N) /\ Within(TrailAt(m), N, frame', choice')
          /\ DOMAIN N = DOMAIN choice' /\ Barred(N, m.g)
          /\ \A bar : Barred(M, bar) /\ DOMAIN choice' \subseteq O => Barred(N, bar)
      <3>1. \A c \in DOMAIN choice' : c \in O => c \in DOMAIN M
        BY <1>7
      <3> QED  BY <3>1, <2>3, <1>6, <1>7, Before, MarksKept
    <2>5. Barred(M, markBar)
      BY <1>3, <1>5, <1>6, Before DEF Barred
    <2>6. Barred(N, markBar')
      BY <2>1, <2>4, <2>5
    <2> QED  BY <2>1, <2>2, <2>4, <2>6 DEF TrailInv
  <1> QED  BY <1>8, <1>9

(* Nothing is left when the query is over.                                   *)
LEMMA ForgetStep ==
    ASSUME Forget, Inv', ~Live'
    PROVE  TrailInv'
  <1>1. trail' = <<>> /\ gTop' = 0 /\ markBar' = 0 /\ mark' = Empty /\ log' = <<>>
    BY DEF Forget
  <1>2. choice' = Empty
    BY DEF Inv, Consistent, Live, Modes
  <1>3. DOMAIN Empty = {} /\ Empty = [c \in {} |-> Empty[c]]
    BY DEF Empty
  <1>4. Empty \in [DOMAIN Empty -> [t : Nat, g : Nat, l : Nat]]
    BY <1>3
  <1>5. Noted(<<>>, 0, <<>>, Empty)
    BY <1>3, <1>4 DEF Noted, Typed, Cells, MarkOf
  <1>6. Within(<<>>, Empty, frame', choice') /\ Barred(Empty, 0)
    BY <1>3 DEF Within, Barred
  <1> QED  BY <1>1, <1>2, <1>5, <1>6 DEF TrailInv

(* The query begins with nothing assigned.                                   *)
LEMMA TrailBegins ==
    ASSUME TrailInit
    PROVE  TrailInv
  <1>1. trail = <<>> /\ gTop = 0 /\ log = <<>> /\ markBar = 0 /\ DOMAIN choice = {QueryChoice}
    BY DEF TrailInit, Init, With, Empty
  <1>2. PICK m : m = MarkOf(trail, gTop, log)
    OBVIOUS
  <1>3. /\ m.t = 0 /\ m.g = 0 /\ m.l = 0 /\ m \in [t : Nat, g : Nat, l : Nat]
    BY <1>1, <1>2 DEF MarkOf
  <1>4. mark = [c \in {QueryChoice} |-> m]
    BY <1>2 DEF TrailInit, With, Empty
  <1>5. mark \in [DOMAIN mark -> [t : Nat, g : Nat, l : Nat]] /\ DOMAIN mark \subseteq Nat
    BY <1>3, <1>4 DEF QueryChoice
  <1>6. \A c \in DOMAIN mark : mark[c] = m /\ c = QueryChoice
    BY <1>4
  <1>7. Typed(trail, gTop, log, mark)
    BY <1>1, <1>5 DEF Typed
  <1>8. Cells(trail, m) /\ UpTo(m, m) /\ \A c : Agree(trail, log, c, m, m)
    BY <1>3 DEF Cells, UpTo, Agree
  <1>9. Noted(trail, gTop, log, mark)
    BY <1>2, <1>6, <1>7, <1>8 DEF Noted
  <1>10. Within(trail, mark, frame, choice)
    BY <1>1, <1>3, <1>6 DEF Within
  <1>11. Barred(mark, markBar)
    BY <1>1, <1>3, <1>6 DEF Barred
  <1> QED  BY <1>1, <1>4, <1>9, <1>10, <1>11 DEF TrailInv

-----------------------------------------------------------------------------
(* Theorems                                                                  *)

(* With the trail a step is a step of LocalStack, so that its theorems hold  *)
(* of Trail: the assignments do not change what is on the stack.             *)
THEOREM TrailIsLocalStack == TrailSpec => Spec
  <1>1. TrailInit => Init
    BY DEF TrailInit
  <1>2. [TrailNext]_<<vars, data>> => [Next]_vars
    BY DEF TrailNext, Unify, Push, Leave, Commit, CallC, Recover, Retry, Next
  <1> QED  BY <1>1, <1>2, PTL DEF TrailSpec, Spec

(* The invariant.                                                            *)
LEMMA TrailInvHolds == ASSUME WellFormed PROVE TrailSpec => []TrailInv
  <1>1. TrailInit => TrailInv
    BY TrailBegins
  <1>2. Inv /\ Inv' /\ TrailInv /\ [TrailNext]_<<vars, data>> => TrailInv'
    <2> SUFFICES ASSUME Inv, Inv', TrailInv, [TrailNext]_<<vars, data>> PROVE TrailInv'
      OBVIOUS
    <2>1. CASE ~Live' /\ Next /\ Forget
      BY <2>1, ForgetStep
    <2>2. CASE Live' /\ Unify
      BY <2>2, UnifyStep
    <2>3. CASE Live' /\ Push
      BY <2>3, PushStep
    <2>4. CASE Live' /\ Leave
      BY <2>4, LeaveStep
    <2>5. CASE Live' /\ Commit
      BY <2>5, CommitStep
    <2>6. CASE Live' /\ CallC
      BY <2>6, CallCStep
    <2>7. CASE Live' /\ Recover
      BY <2>7, RecoverStep
    <2>8. CASE Live' /\ Retry
      BY <2>8, RetryStep
    <2>9. CASE UNCHANGED <<vars, data>>
      BY <2>9 DEF vars, data, blocks, TrailInv
    <2> QED  BY <2>1, <2>2, <2>3, <2>4, <2>5, <2>6, <2>7, <2>8, <2>9 DEF TrailNext
  <1>3. TrailSpec => []Inv
    BY TrailIsLocalStack, InvHolds, PTL
  <1> QED  BY <1>1, <1>2, <1>3, PTL DEF TrailSpec

(* The trail, the marks and the bar have their types, and every choice point *)
(* in use has its mark and no other has one.                                 *)
THEOREM TrailTypeCorrect == ASSUME WellFormed PROVE TrailSpec => []TrailTypeOK
  <1>1. TrailInv => TrailTypeOK
    BY DEF TrailInv, Noted, Typed, Barred, TrailTypeOK
  <1> QED  BY <1>1, TrailInvHolds, PTL

(* Undo() to any choice point, not the newest alone, resets the slots that   *)
(* it comes back to and that were assigned since, and no others: Trail() may *)
(* leave out what is above the mark bar, and cuts may leave the bar high.    *)
THEOREM UndoIsExact == ASSUME WellFormed PROVE TrailSpec => []UndoExact
  <1>1. TrailInv => UndoExact
    <2> SUFFICES ASSUME TrailInv, NEW c \in DOMAIN choice
                 PROVE  {r \in After(trail, mark[c].t) : Older(r, c)}
                          = {r \in After(log, mark[c].l) : Older(r, c)}
      BY DEF UndoExact
    <2>1. PICK top : top = MarkOf(trail, gTop, log)
      OBVIOUS
    <2>2. top.t = Len(trail) /\ top.l = Len(log)
      BY <2>1 DEF MarkOf
    <2>3. Agree(trail, log, c, mark[c], top)
      BY <2>1 DEF TrailInv, Noted
    <2>4. \A r : Older(r, c) <=> Seen(r, c, mark[c])
      BY DEF Older, Seen
    <2> QED  BY <2>2, <2>3, <2>4 DEF Agree, After
  <1> QED  BY <1>1, TrailInvHolds, PTL

(* Undo() writes to no cell that is gone, and to no frame that is gone but   *)
(* above the choice point: where the next frame will be.                     *)
THEOREM UndoIsSafe == ASSUME WellFormed PROVE TrailSpec => []UndoSafe
  <1>1. TrailInv => UndoSafe
    <2> SUFFICES ASSUME TrailInv, NEW c \in DOMAIN choice, NEW r \in After(trail, mark[c].t)
                 PROVE  IF OnGlobal(r) THEN r[2] \in 1 .. gTop
                        ELSE r[2] > c \/ r[2] = NULL \/ Covers(choice[c].frame, r[2])
      BY DEF UndoSafe
    <2>1. /\ Typed(trail, gTop, log, mark) /\ DOMAIN mark = DOMAIN choice
          /\ Cells(trail, MarkOf(trail, gTop, log)) /\ Within(trail, mark, frame, choice)
      BY DEF TrailInv, Noted
    <2>2. /\ mark[c].t \in Nat /\ trail \in Seq(Slots) /\ c \in Nat
          /\ MarkOf(trail, gTop, log).t = Len(trail) /\ MarkOf(trail, gTop, log).g = gTop
      BY <2>1, MarkParts DEF Typed
    <2>3. PICK i \in mark[c].t + 1 .. Len(trail) : trail[i] = r
      BY DEF After
    <2>4. i \in 1 .. Len(trail) /\ r[2] \in Nat
      <3>1. i \in 1 .. Len(trail)
        BY <2>2, <2>3
      <3> QED  BY <3>1, <2>2, <2>3, SlotAt
    <2>5. CASE OnGlobal(r)
      BY <2>1, <2>2, <2>3, <2>4, <2>5 DEF Cells
    <2>6. CASE ~OnGlobal(r)
      <3>1. r[2] <= c => r[2] \in Spots(frame, frame[choice[c].frame].chain)
        BY <2>1, <2>3, <2>6 DEF Within
      <3>2. r[2] > c \/ r[2] <= c
        BY <2>2, <2>4
      <3> QED  BY <3>1, <3>2, <2>6 DEF Covers, Places, Spots
    <2> QED  BY <2>5, <2>6
  <1> QED  BY <1>1, TrailInvHolds, PTL

(* The mark bar is never below the mark of a choice point in use, although   *)
(* backtracking leaves it and only some cuts lower it.                       *)
THEOREM BarIsSound == ASSUME WellFormed PROVE TrailSpec => []BarSound
  <1>1. TrailInv => BarSound
    BY DEF TrailInv, Barred, BarSound
  <1> QED  BY <1>1, TrailInvHolds, PTL

(* The three together, which the runs of Engine check: pl-wam.c takes back   *)
(* all that it must on backtracking, and writes over nothing in use.         *)
THEOREM TrailIsSafe == ASSUME WellFormed PROVE TrailSpec => []TrailSafe
  <1>1. UndoExact /\ UndoSafe /\ BarSound => TrailSafe
    BY DEF TrailSafe
  <1> QED  BY <1>1, UndoIsExact, UndoIsSafe, BarIsSound, PTL

(* The marks are ordered like the choice points.                             *)
THEOREM MarksAreNested == ASSUME WellFormed PROVE TrailSpec => []MarksNested
  <1>1. TrailInv => MarksNested
    <2> SUFFICES ASSUME TrailInv, NEW c \in DOMAIN choice
                 PROVE  /\ mark[c].t <= Len(trail) /\ mark[c].g <= gTop /\ mark[c].l <= Len(log)
                        /\ \A d \in DOMAIN choice : d < c =>
                              mark[d].t <= mark[c].t /\ mark[d].g <= mark[c].g /\ mark[d].l <= mark[c].l
      BY DEF MarksNested
    <2> QED  BY DEF TrailInv, Noted, MarkOf, UpTo
  <1> QED  BY <1>1, TrailInvHolds, PTL

=============================================================================
