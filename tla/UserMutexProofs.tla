-------------------------- MODULE UserMutexProofs --------------------------
(* Mutual exclusion of user mutexes, for any number of threads, mutexes and *)
(* nested locks.                                                            *)
EXTENDS UserMutex, TLAPS

(* While a thread has the pthread mutex the count is that of its locks.     *)
CountExact ==
    \A m \in Mutexes, t \in Threads :
        held[m] = t => count[m] = depth[t][m] + (IF Claiming(t, m) THEN 1 ELSE 0)

Inv == TypeOK /\ OwnerHolds /\ HeldExactly /\ CountExact

LEMMA InvInit == Init => Inv
  <1> SUFFICES ASSUME Init PROVE Inv
    OBVIOUS
  <1>1. TypeOK
    BY DEF Init, TypeOK, PCs
  <1>2. \A m \in Mutexes, t \in Threads : held[m] # t /\ owner[m] # t
    BY UserMutexAssumption DEF Init
  <1>3. \A m \in Mutexes, t \in Threads : depth[t][m] = 0 /\ ~Claiming(t, m)
    BY DEF Init, Claiming
  <1> QED  BY <1>1, <1>2, <1>3 DEF Inv, OwnerHolds, HeldExactly, CountExact

(* A running thread that finds its own name in a mutex has locked it.       *)
LEMMA OwnerHasLocked ==
    ASSUME Inv, NEW t \in Threads, NEW m \in Mutexes,
           pc[t] = "running", owner[m] = t
    PROVE  held[m] = t /\ depth[t][m] > 0 /\ count[m] = depth[t][m]
  <1>1. held[m] = t
    BY DEF Inv, OwnerHolds, Disowning
  <1>2. ~Claiming(t, m)
    BY DEF Claiming
  <1> QED  BY <1>1, <1>2 DEF Inv, HeldExactly, CountExact, TypeOK

(* The steps of a thread that take the pthread mutex. *)
Takes(t, m) ==
    /\ held[m] = Nobody
    /\ held' = [held EXCEPT ![m] = t]
    /\ count' = [count EXCEPT ![m] = 1]
    /\ pc' = [pc EXCEPT ![t] = "locked"]
    /\ at' = [at EXCEPT ![t] = m]
    /\ UNCHANGED <<owner, depth>>

LEMMA TakesInv ==
    ASSUME Inv, NEW t \in Threads, NEW m \in Mutexes,
           pc[t] \in {"running", "waiting"}, Takes(t, m)
    PROVE  Inv'
  <1>1. TypeOK'
    BY DEF Inv, TypeOK, Takes, PCs
  <1>2. \A n \in Mutexes, u \in Threads :
          Claiming(u, n)' <=> Claiming(u, n) \/ (u = t /\ n = m)
    BY DEF Inv, TypeOK, Takes, Claiming
  <1>3. \A n \in Mutexes, u \in Threads : Disowning(u, n)' <=> Disowning(u, n)
    BY DEF Inv, TypeOK, Takes, Disowning
  <1>4. \A n \in Mutexes : held'[n] = IF n = m THEN t ELSE held[n]
    BY DEF Inv, TypeOK, Takes
  <1>5. \A u \in Threads : held[m] # u
    BY UserMutexAssumption DEF Takes
  <1>6. OwnerHolds'
    BY <1>3, <1>4, <1>5 DEF Inv, OwnerHolds, Takes
  <1>7. HeldExactly'
    BY <1>2, <1>4, <1>5 DEF Inv, HeldExactly, Takes
  <1>8. CountExact'
    <2>1. depth[t][m] = 0
      BY <1>5 DEF Inv, HeldExactly, TypeOK
    <2>2. \A n \in Mutexes : count'[n] = IF n = m THEN 1 ELSE count[n]
      BY DEF Inv, TypeOK, Takes
    <2> QED  BY <1>2, <1>4, <2>1, <2>2, UserMutexAssumption
               DEF Inv, CountExact, Takes
  <1> QED  BY <1>1, <1>6, <1>7, <1>8 DEF Inv

LEMMA InvNext == Inv /\ [Next]_vars => Inv'
  <1> SUFFICES ASSUME Inv, [Next]_vars PROVE Inv'
    OBVIOUS
  <1>1. ASSUME NEW t \in Threads, NEW m \in Mutexes, LockAgain(t, m)
        PROVE  Inv'
    <2>1. held[m] = t /\ depth[t][m] > 0 /\ count[m] = depth[t][m]
      BY <1>1, OwnerHasLocked DEF LockAgain
    <2>2. /\ \A n \in Mutexes : count'[n] = IF n = m THEN count[n] + 1 ELSE count[n]
          /\ \A n \in Mutexes, u \in Threads :
               depth'[u][n] = IF u = t /\ n = m THEN depth[u][n] + 1 ELSE depth[u][n]
      BY <1>1 DEF Inv, TypeOK, LockAgain
    <2>3. TypeOK'
      BY <1>1 DEF Inv, TypeOK, LockAgain
    <2>4. UNCHANGED <<held, owner, pc, at>>
      BY <1>1 DEF LockAgain
    <2>5. OwnerHolds'
      BY <2>4 DEF Inv, OwnerHolds, Disowning
    <2>6. HeldExactly'
      BY <2>1, <2>2, <2>4 DEF Inv, HeldExactly, Claiming, TypeOK
    <2>7. CountExact'
      BY <2>1, <2>2, <2>4, <1>1 DEF Inv, CountExact, Claiming, TypeOK, LockAgain
    <2> QED  BY <2>3, <2>5, <2>6, <2>7 DEF Inv
  <1>2. ASSUME NEW t \in Threads, NEW m \in Mutexes, Lock(t, m)
        PROVE  Inv'
    <2>1. TypeOK'
      BY <1>2 DEF Inv, TypeOK, Lock, PCs
    <2>2. \A n \in Mutexes, u \in Threads :
            /\ Claiming(u, n)' <=> Claiming(u, n)
            /\ Disowning(u, n)' <=> Disowning(u, n)
      BY <1>2 DEF Inv, TypeOK, Lock, Claiming, Disowning
    <2>3. UNCHANGED <<held, owner, count, depth>>
      BY <1>2 DEF Lock
    <2> QED  BY <2>1, <2>2, <2>3 DEF Inv, OwnerHolds, HeldExactly, CountExact
  <1>3. ASSUME NEW t \in Threads, NEW m \in Mutexes, Trylock(t, m)
        PROVE  Inv'
    BY <1>3, TakesInv DEF Trylock, Takes
  <1>4. ASSUME NEW t \in Threads, Acquire(t)
        PROVE  Inv'
    <2>1. at[t] \in Mutexes /\ at = [at EXCEPT ![t] = at[t]]
      BY DEF Inv, TypeOK
    <2>2. Takes(t, at[t])
      BY <1>4, <2>1 DEF Acquire, Takes
    <2> QED  BY <1>4, <2>1, <2>2, TakesInv DEF Acquire
  <1>5. ASSUME NEW t \in Threads, Own(t)
        PROVE  Inv'
    <2> DEFINE m == at[t]
    <2>1. m \in Mutexes /\ Claiming(t, m)
      BY <1>5 DEF Inv, TypeOK, Own, Claiming
    <2>2. held[m] = t /\ count[m] = depth[t][m] + 1
      BY <2>1 DEF Inv, HeldExactly, CountExact
    <2>3. TypeOK'
      BY <1>5 DEF Inv, TypeOK, Own, PCs
    <2>4. \A n \in Mutexes, u \in Threads :
            /\ Claiming(u, n)' <=> Claiming(u, n) /\ u # t
            /\ Disowning(u, n)' <=> Disowning(u, n)
            /\ depth'[u][n] = IF u = t /\ n = m THEN depth[u][n] + 1 ELSE depth[u][n]
            /\ owner'[n] = IF n = m THEN t ELSE owner[n]
            /\ Claiming(t, n) => n = m
      BY <1>5 DEF Inv, TypeOK, Own, Claiming, Disowning
    <2>5. UNCHANGED <<held, count>>
      BY <1>5 DEF Own
    <2> HIDE DEF m
    <2>6. OwnerHolds'
      BY <2>2, <2>4, <2>5 DEF Inv, OwnerHolds
    <2>7. HeldExactly'
      BY <2>1, <2>2, <2>4, <2>5 DEF Inv, HeldExactly, TypeOK
    <2>8. CountExact'
      BY <2>1, <2>2, <2>4, <2>5 DEF Inv, CountExact, TypeOK
    <2> QED  BY <2>3, <2>6, <2>7, <2>8 DEF Inv
  <1>6. ASSUME NEW t \in Threads, NEW m \in Mutexes, UnlockNested(t, m)
        PROVE  Inv'
    <2>1. held[m] = t /\ depth[t][m] > 1 /\ count[m] = depth[t][m]
      BY <1>6, OwnerHasLocked DEF UnlockNested, Inv, TypeOK
    <2>2. /\ \A n \in Mutexes : count'[n] = IF n = m THEN count[n] - 1 ELSE count[n]
          /\ \A n \in Mutexes, u \in Threads :
               depth'[u][n] = IF u = t /\ n = m THEN depth[u][n] - 1 ELSE depth[u][n]
      BY <1>6 DEF Inv, TypeOK, UnlockNested
    <2>3. UNCHANGED <<held, owner, pc, at>>
      BY <1>6 DEF UnlockNested
    <2>4. count[m] - 1 \in Nat /\ depth[t][m] - 1 \in Nat
      BY <2>1 DEF Inv, TypeOK
    <2>5. TypeOK'
      BY <1>6, <2>4 DEF Inv, TypeOK, UnlockNested
    <2>6. OwnerHolds'
      BY <2>3 DEF Inv, OwnerHolds, Disowning
    <2>7. HeldExactly'
      BY <2>1, <2>2, <2>3 DEF Inv, HeldExactly, Claiming, TypeOK
    <2>8. CountExact'
      BY <2>1, <2>2, <2>3, <1>6 DEF Inv, CountExact, Claiming, TypeOK, UnlockNested
    <2> QED  BY <2>5, <2>6, <2>7, <2>8 DEF Inv
  <1>7. ASSUME NEW t \in Threads, NEW m \in Mutexes, Unlock(t, m)
        PROVE  Inv'
    <2>1. held[m] = t /\ depth[t][m] = 1 /\ pc[t] = "running"
      BY <1>7, OwnerHasLocked DEF Unlock
    <2>2. TypeOK'
      BY <1>7, <2>1 DEF Inv, TypeOK, Unlock, PCs
    <2>3. \A n \in Mutexes, u \in Threads :
            /\ Claiming(u, n)' <=> Claiming(u, n)
            /\ Disowning(u, n)' <=> Disowning(u, n) \/ (u = t /\ n = m)
            /\ depth'[u][n] = IF u = t /\ n = m THEN 0 ELSE depth[u][n]
            /\ held'[n] = IF n = m THEN Nobody ELSE held[n]
            /\ n # m => count'[n] = count[n]
      BY <1>7, <2>1 DEF Inv, TypeOK, Unlock, Claiming, Disowning
    <2>4. owner' = owner /\ ~Claiming(t, m) /\ owner[m] = t
      BY <1>7 DEF Unlock, Claiming
    <2>5. OwnerHolds'
      BY <2>3, <2>4 DEF Inv, OwnerHolds
    <2>6. HeldExactly'
      BY <2>1, <2>3, <2>4, UserMutexAssumption DEF Inv, HeldExactly
    <2>7. CountExact'
      BY <2>1, <2>3, UserMutexAssumption DEF Inv, CountExact
    <2> QED  BY <2>2, <2>5, <2>6, <2>7 DEF Inv
  <1>8. ASSUME NEW t \in Threads, Disown(t)
        PROVE  Inv'
    <2>1. TypeOK'
      BY <1>8 DEF Inv, TypeOK, Disown, PCs
    <2>2. \A n \in Mutexes, u \in Threads :
            /\ Claiming(u, n)' <=> Claiming(u, n)
            /\ Disowning(u, n) => Disowning(u, n)' \/ (u = t /\ n = at[t])
            /\ owner'[n] = IF n = at[t] THEN Nobody ELSE owner[n]
      BY <1>8 DEF Inv, TypeOK, Disown, Claiming, Disowning
    <2>3. UNCHANGED <<held, count, depth>>
      BY <1>8 DEF Disown
    <2>4. OwnerHolds'
      BY <2>2, <2>3, UserMutexAssumption DEF Inv, OwnerHolds
    <2> QED  BY <2>1, <2>2, <2>3, <2>4 DEF Inv, HeldExactly, CountExact
  <1>9. CASE UNCHANGED vars
    BY <1>9 DEF vars, Inv, TypeOK, OwnerHolds, HeldExactly, CountExact,
                Claiming, Disowning
  <1> QED  BY <1>1, <1>2, <1>3, <1>4, <1>5, <1>6, <1>7, <1>8, <1>9
             DEF Next, ThreadStep

(* A thread that goes on because it finds its own name in the mutex has the *)
(* pthread mutex, although owner is written after locking and cleared after *)
(* unlocking, outside any critical section.                                 *)
THEOREM OwnersHold == Spec => []OwnerHolds
  <1>1. Inv => OwnerHolds
    BY DEF Inv
  <1> QED  BY <1>1, InvInit, InvNext, PTL DEF Spec

(* The pthread mutex is given up exactly when the last lock is undone.      *)
THEOREM HeldWhileLocked == Spec => []HeldExactly
  <1>1. Inv => HeldExactly
    BY DEF Inv
  <1> QED  BY <1>1, InvInit, InvNext, PTL DEF Spec

(* At most one thread holds a mutex, for threads that unlock one by one:    *)
(* two that had locked it would both have the pthread mutex.                *)
THEOREM MutexExcludes == Spec => []MutualExclusion
  <1>1. Inv => MutualExclusion
    BY DEF Inv, HeldExactly, MutualExclusion
  <1> QED  BY <1>1, InvInit, InvNext, PTL DEF Spec

(* All variables of the mutexes keep their types. *)
THEOREM TypeCorrect == Spec => []TypeOK
  <1>1. Inv => TypeOK
    BY DEF Inv
  <1> QED  BY <1>1, InvInit, InvNext, PTL DEF Spec

=============================================================================
