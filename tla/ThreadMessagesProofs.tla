------------------------ MODULE ThreadMessagesProofs ------------------------
(* What a thread that waits for a message may rely on, for any number of    *)
(* threads, messages and goals.                                             *)
EXTENDS ThreadMessages, TLAPS

(* A thread that will wait, or does, has no message for it unless a signal  *)
(* was missed.                                                              *)
ParkedInVainIfMissed ==
    \A t \in Threads :
        pc[t] \in {"parking", "waiting"} /\ Ready(t) => missed[t]

Inv == TypeOK /\ TriedInVain /\ ParkedInVainIfMissed

(* Taking an element out of a sequence leaves a sequence. *)
LEMMA RemoveAtType ==
    ASSUME NEW S, NEW s \in Seq(S), NEW i \in 1 .. Len(s)
    PROVE  RemoveAt(s, i) \in Seq(S)
  <1> DEFINE before == SubSeq(s, 1, i - 1)
             behind == SubSeq(s, i + 1, Len(s))
  <1>1. before \in Seq(S) /\ behind \in Seq(S)
    OBVIOUS
  <1>2. RemoveAt(s, i) = before \o behind
    BY DEF RemoveAt
  <1> HIDE DEF before, behind
  <1> QED  BY <1>1, <1>2

LEMMA InvInit == Init => Inv
  <1> SUFFICES ASSUME Init PROVE Inv
    OBVIOUS
  <1>1. TypeOK
    BY DEF Init, TypeOK, PCs
  <1> QED  BY <1>1 DEF Init, Inv, TriedInVain, ParkedInVainIfMissed

(* A thread that is getting a message has tried those up to prev, in vain.  *)
LEMMA TriedBefore ==
    ASSUME Inv, NEW t \in Threads, pc[t] # "running"
    PROVE  \A i \in 1 .. prev[t] :
             i <= Len(queue[t]) /\ queue[t][i] \notin Unifies[goal[t]]
  <1>1. prev[t] \in Nat /\ Len(queue[t]) \in Nat
    BY DEF Inv, TypeOK
  <1>2. /\ prev[t] <= Len(queue[t])
        /\ \A i \in 1 .. prev[t] : queue[t][i] \notin Unifies[goal[t]]
    BY DEF Inv, TriedInVain
  <1> QED  BY <1>1, <1>2

(* What one thread's step leaves of the others. *)
Others(t) ==
    \A u \in Threads \ {t} :
        /\ queue'[u] = queue[u] /\ pc'[u] = pc[u] /\ goal'[u] = goal[u]
        /\ prev'[u] = prev[u] /\ missed'[u] = missed[u]

(* A scan that goes on where all before failed keeps the invariant, and if  *)
(* it takes a message, that is the first that unifies.                      *)
LEMMA ScanInv ==
    ASSUME Inv, NEW t \in Threads, NEW g \in Goals, NEW tried \in Nat,
           \A i \in 1 .. tried : i <= Len(queue[t]) /\ queue[t][i] \notin Unifies[g],
           Scan(t, g, tried), sent' = sent,
           goal' \in [Threads -> Goals], goal'[t] = g,
           \A u \in Threads \ {t} : goal'[u] = goal[u]
    PROVE  /\ Inv' /\ Others(t)
           /\ \/ Len(queue'[t]) >= Len(queue[t])
              \/ \E i \in DOMAIN queue[t] :
                    /\ queue'[t] = RemoveAt(queue[t], i)
                    /\ queue[t][i] \in Unifies[g]
                    /\ \A j \in 1 .. i - 1 : queue[t][j] \notin Unifies[g]
  <1> DEFINE found == Found(t, g, tried)
  <1>a. TypeOK /\ queue[t] \in Seq(Messages) /\ Len(queue[t]) \in Nat
    BY DEF Inv, TypeOK
  <1>b. missed' = [missed EXCEPT ![t] = FALSE]
    BY DEF Scan
  <1>1. ASSUME NEW i \in found, \A j \in found : i <= j, Take(t, i)
        PROVE  /\ TypeOK' /\ Others(t) /\ pc'[t] = "running"
               /\ i \in DOMAIN queue[t]
               /\ queue'[t] = RemoveAt(queue[t], i)
               /\ queue[t][i] \in Unifies[g]
               /\ \A j \in 1 .. i - 1 : queue[t][j] \notin Unifies[g]
    <2>1. i \in 1 .. Len(queue[t]) /\ queue[t][i] \in Unifies[g]
      BY <1>a DEF Found
    <2>2. RemoveAt(queue[t], i) \in Seq(Messages)
      BY <2>1, <1>a, RemoveAtType
    <2>3. ASSUME NEW j \in 1 .. i - 1 PROVE queue[t][j] \notin Unifies[g]
      <3>1. j \notin found
        BY <1>1, <2>1, <1>a
      <3> QED  BY <3>1, <2>1, <1>a DEF Found
    <2>4. TypeOK'
      BY <1>1, <2>2, <1>a, <1>b DEF Take, TypeOK, PCs
    <2>5. Others(t) /\ pc'[t] = "running" /\ queue'[t] = RemoveAt(queue[t], i)
      BY <1>1, <1>a, <1>b DEF Take, TypeOK, Others
    <2> QED  BY <2>1, <2>3, <2>4, <2>5
  <1>2. ASSUME found = {}, Park(t)
        PROVE  /\ TypeOK' /\ Others(t) /\ queue' = queue
               /\ pc'[t] = "parking" /\ prev'[t] = Len(queue[t])
               /\ \A i \in 1 .. Len(queue[t]) : queue[t][i] \notin Unifies[g]
    <2>1. \A i \in 1 .. Len(queue[t]) : queue[t][i] \notin Unifies[g]
      BY <1>2, <1>a DEF Found
    <2>2. TypeOK'
      BY <1>2, <1>a, <1>b DEF Park, TypeOK, PCs
    <2> QED  BY <1>2, <1>a, <1>b, <2>1, <2>2 DEF Park, TypeOK, Others
  <1>3. CASE \E i \in found : (\A j \in found : i <= j) /\ Take(t, i)
    <2>1. PICK i \in found : (\A j \in found : i <= j) /\ Take(t, i)
      BY <1>3
    <2>2. TriedInVain' /\ ParkedInVainIfMissed'
      BY <2>1, <1>1 DEF Inv, TriedInVain, ParkedInVainIfMissed, Ready, Others
    <2> QED  BY <2>1, <2>2, <1>1 DEF Inv
  <1>4. CASE found = {} /\ Park(t)
    <2>1. TriedInVain'
      BY <1>4, <1>2, <1>a DEF Inv, TriedInVain, Others
    <2>2. ParkedInVainIfMissed'
      BY <1>4, <1>2, <1>a DEF Inv, ParkedInVainIfMissed, Ready, Others
    <2> QED  BY <1>4, <1>2, <1>a, <2>1, <2>2 DEF Inv
  <1> QED  BY <1>3, <1>4 DEF Scan

LEMMA InvNext == Inv /\ [Next]_vars => Inv'
  <1> SUFFICES ASSUME Inv, [Next]_vars PROVE Inv'
    OBVIOUS
  <1>a. TypeOK
    BY DEF Inv
  <1>1. ASSUME NEW t \in Threads, NEW u \in Threads, NEW m \in Messages,
               Send(t, u, m)
        PROVE  Inv'
    <2>1. TypeOK'
      BY <1>1, <1>a DEF Send, TypeOK, PCs
    <2>2. \A v \in Threads :
            /\ Len(queue[v]) <= Len(queue'[v])
            /\ \A i \in 1 .. Len(queue[v]) : queue'[v][i] = queue[v][i]
            /\ v # u => queue'[v] = queue[v] /\ pc'[v] = pc[v] /\ missed'[v] = missed[v]
            /\ pc'[v] = "running" <=> pc[v] = "running"
      BY <1>1, <1>a DEF Send, TypeOK
    <2>3. UNCHANGED <<goal, prev>>
      BY <1>1 DEF Send
    <2>4. TriedInVain'
      <3> SUFFICES ASSUME NEW v \in Threads, pc'[v] # "running"
                   PROVE  /\ prev[v] <= Len(queue'[v])
                          /\ \A i \in 1 .. prev[v] :
                               queue'[v][i] \notin Unifies[goal[v]]
        BY <2>3 DEF TriedInVain
      <3>1. prev[v] <= Len(queue[v]) /\ prev[v] \in Nat /\ Len(queue[v]) \in Nat
            /\ Len(queue'[v]) \in Nat
        BY <2>1, <2>2, <1>a DEF Inv, TriedInVain, TypeOK
      <3> QED  BY <2>2, <3>1 DEF Inv, TriedInVain
    <2>5. ParkedInVainIfMissed'
      <3>1. pc'[u] \in {"parking", "waiting"} => missed'[u]
        BY <1>1, <1>a DEF Send, TypeOK
      <3> QED  BY <2>2, <2>3, <3>1 DEF Inv, ParkedInVainIfMissed, Ready
    <2> QED  BY <2>1, <2>4, <2>5 DEF Inv
  <1>2. ASSUME NEW t \in Threads, NEW g \in Goals, Get(t, g)
        PROVE  Inv'
    <2>1. /\ goal' \in [Threads -> Goals] /\ goal'[t] = g
          /\ \A u \in Threads \ {t} : goal'[u] = goal[u]
      BY <1>2, <1>a DEF Get, TypeOK
    <2> QED  BY <1>2, <2>1, ScanInv DEF Get
  <1>3. ASSUME NEW t \in Threads, Wait(t) \/ WakeSpuriously(t)
        PROVE  Inv'
    <2>1. TypeOK'
      BY <1>3, <1>a DEF Wait, WakeSpuriously, TypeOK, PCs
    <2>2. \A u \in Threads :
            /\ pc'[u] # "running" => pc[u] # "running"
            /\ pc'[u] \in {"parking", "waiting"} => pc[u] \in {"parking", "waiting"}
      BY <1>3, <1>a DEF Wait, WakeSpuriously, TypeOK
    <2>3. UNCHANGED <<queue, goal, prev, missed>>
      BY <1>3 DEF Wait, WakeSpuriously
    <2> QED  BY <2>1, <2>2, <2>3 DEF Inv, TriedInVain, ParkedInVainIfMissed, Ready
  <1>4. ASSUME NEW t \in Threads, Resume(t)
        PROVE  Inv'
    <2>1. /\ goal' = goal /\ goal[t] \in Goals /\ prev[t] \in Nat
          /\ goal' \in [Threads -> Goals]
      BY <1>4, <1>a DEF Resume, TypeOK
    <2>2. \A i \in 1 .. prev[t] :
            i <= Len(queue[t]) /\ queue[t][i] \notin Unifies[goal[t]]
      BY <1>4, TriedBefore DEF Resume
    <2> QED  BY <1>4, <2>1, <2>2, ScanInv DEF Resume
  <1>5. CASE UNCHANGED vars
    BY <1>5 DEF vars, Inv, TypeOK, TriedInVain, ParkedInVainIfMissed, Ready
  <1> QED  BY <1>1, <1>2, <1>3, <1>4, <1>5 DEF Next

(* All variables of the message queues keep their types. *)
THEOREM TypeCorrect == Spec => []TypeOK
  <1>1. Inv => TypeOK
    BY DEF Inv
  <1> QED  BY <1>1, InvInit, InvNext, PTL DEF Spec

(* Going on behind the last message that was tried is as good as trying all *)
(* again: none before it unifies with the goal of the thread.               *)
THEOREM TriedIsInVain == Spec => []TriedInVain
  <1>1. Inv => TriedInVain
    BY DEF Inv
  <1> QED  BY <1>1, InvInit, InvNext, PTL DEF Spec

(* A thread that waits although there is a message for it has missed the    *)
(* signal between releasing L_THREAD and starting to wait: there is no      *)
(* other way to wait in vain.                                               *)
THEOREM OnlyMissedWaits == Spec => []WaitsInVainIfMissed
  <1>1. Inv => WaitsInVainIfMissed
    BY DEF Inv, ParkedInVainIfMissed, WaitsInVainIfMissed
  <1> QED  BY <1>1, InvInit, InvNext, PTL DEF Spec

(* Messages are taken in the order of the queue: one that is taken is the   *)
(* first that unifies, although the queue is not searched from its start    *)
(* again after waiting.                                                     *)
THEOREM FirstTaken == Spec => TakesFirst
  <1> DEFINE Takes(t) ==
        Len(queue'[t]) < Len(queue[t]) =>
          \E i \in DOMAIN queue[t] :
            /\ queue'[t] = RemoveAt(queue[t], i)
            /\ queue[t][i] \in Unifies[goal'[t]]
            /\ \A j \in 1 .. i - 1 : queue[t][j] \notin Unifies[goal'[t]]
  <1>1. ASSUME Inv, Next, NEW u \in Threads PROVE Takes(u)
    <2>a. TypeOK /\ \A v \in Threads : Len(queue[v]) \in Nat
      BY <1>1 DEF Inv, TypeOK
    <2>1. ASSUME NEW t \in Threads, NEW v \in Threads, NEW m \in Messages,
                 Send(t, v, m)
          PROVE  Takes(u)
      BY <2>1, <2>a DEF Send, TypeOK
    <2>2. ASSUME NEW t \in Threads, NEW g \in Goals, Get(t, g)
          PROVE  Takes(u)
      <3>1. /\ goal' \in [Threads -> Goals] /\ goal'[t] = g
            /\ \A v \in Threads \ {t} : goal'[v] = goal[v]
        BY <2>2, <2>a DEF Get, TypeOK
      <3>2. CASE u = t
        <4>1. Inv'
          BY <1>1, InvNext
        <4>2. Len(queue'[t]) \in Nat
          BY <4>1 DEF Inv, TypeOK
        <4> QED  BY <1>1, <2>2, <2>a, <3>1, <3>2, <4>2, ScanInv DEF Get
      <3>3. CASE u # t
        BY <1>1, <2>2, <2>a, <3>1, <3>3, ScanInv DEF Get, Others
      <3> QED  BY <3>2, <3>3
    <2>3. ASSUME NEW t \in Threads, Wait(t) \/ WakeSpuriously(t)
          PROVE  Takes(u)
      BY <2>3, <2>a DEF Wait, WakeSpuriously
    <2>4. ASSUME NEW t \in Threads, Resume(t)
          PROVE  Takes(u)
      <3>1. /\ goal' = goal /\ goal[t] \in Goals /\ prev[t] \in Nat
            /\ goal' \in [Threads -> Goals]
        BY <2>4, <2>a DEF Resume, TypeOK
      <3>2. \A i \in 1 .. prev[t] :
              i <= Len(queue[t]) /\ queue[t][i] \notin Unifies[goal[t]]
        BY <1>1, <2>4, TriedBefore DEF Resume
      <3>3. Inv'
        BY <1>1, InvNext
      <3>4. Len(queue'[t]) \in Nat
        BY <3>3 DEF Inv, TypeOK
      <3>5. CASE u = t
        BY <1>1, <2>4, <2>a, <3>1, <3>2, <3>4, <3>5, ScanInv DEF Resume
      <3>6. CASE u # t
        BY <1>1, <2>4, <2>a, <3>1, <3>2, <3>6, ScanInv DEF Resume, Others
      <3> QED  BY <3>5, <3>6
    <2> QED  BY <1>1, <2>1, <2>2, <2>3, <2>4 DEF Next
  <1>2. Inv /\ [Next]_vars => [\A t \in Threads : Takes(t)]_vars
    BY <1>1
  <1> QED  BY <1>2, InvInit, InvNext, PTL DEF Spec, TakesFirst

=============================================================================
