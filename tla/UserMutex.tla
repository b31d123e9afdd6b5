----------------------------- MODULE UserMutex -----------------------------
(* The mutexes of the Prolog programmer: mutex_lock/1, mutex_trylock/1,     *)
(* mutex_unlock/1 and mutex_unlock_all/0.  A pl_mutex makes a recursive     *)
(* lock out of a plain pthread mutex with an owner and a count, which it    *)
(* reads and writes without any other lock.                                 *)
EXTENDS Integers

CONSTANTS
    Threads,        \* Prolog threads
    Mutexes,        \* mutexes, created by the first use of their name
    Nobody,         \* no thread
    MaxDepth        \* bound on how often a thread locks the same mutex

ASSUME UserMutexAssumption ==
    /\ Nobody \notin Threads
    /\ MaxDepth \in Nat

VARIABLES
    held,           \* thread that has the pthread mutex
    owner, count,   \* fields of struct _pl_mutex
    pc, at,         \* per thread: where it is in an operation, on which mutex
    depth           \* per thread and mutex: locks it took and did not undo

vars == <<held, owner, count, pc, at, depth>>

(* "waiting": in pthread_mutex_lock().  "locked": the pthread mutex is its  *)
(* own, the owner not yet written.  "unlocked": the pthread mutex is given  *)
(* up, the owner not yet cleared.                                           *)
PCs == {"running", "waiting", "locked", "unlocked"}

-----------------------------------------------------------------------------
Init ==
    /\ held = [m \in Mutexes |-> Nobody]
    /\ owner = [m \in Mutexes |-> Nobody]
    /\ count = [m \in Mutexes |-> 0]
    /\ pc = [t \in Threads |-> "running"]
    /\ at \in [Threads -> Mutexes]
    /\ depth = [t \in Threads |-> [m \in Mutexes |-> 0]]

(* Mutant: counts a nested lock as the first one. *)
AgainRestarts(t, m) ==
    /\ pc[t] = "running" /\ owner[m] = t /\ depth[t][m] < MaxDepth
    /\ count' = [count EXCEPT ![m] = 1]
    /\ depth' = [depth EXCEPT ![t][m] = @ + 1]
    /\ UNCHANGED <<held, owner, pc, at>>

(* mutex_lock/1 or mutex_trylock/1 by the thread that is the owner. *)
LockAgain(t, m) ==
    /\ pc[t] = "running" /\ owner[m] = t /\ depth[t][m] < MaxDepth
    /\ count' = [count EXCEPT ![m] = @ + 1]
    /\ depth' = [depth EXCEPT ![t][m] = @ + 1]
    /\ UNCHANGED <<held, owner, pc, at>>

(* mutex_lock/1 by any other thread: pthread_mutex_lock(), ... *)
Lock(t, m) ==
    /\ pc[t] = "running" /\ owner[m] # t /\ depth[t][m] < MaxDepth
    /\ pc' = [pc EXCEPT ![t] = "waiting"]
    /\ at' = [at EXCEPT ![t] = m]
    /\ UNCHANGED <<held, owner, count, depth>>

(* ... that returns when the pthread mutex is free. *)
Acquire(t) ==
    /\ pc[t] = "waiting" /\ held[at[t]] = Nobody
    /\ held' = [held EXCEPT ![at[t]] = t]
    /\ count' = [count EXCEPT ![at[t]] = 1]
    /\ pc' = [pc EXCEPT ![t] = "locked"]
    /\ UNCHANGED <<owner, at, depth>>

(* mutex_trylock/1 takes a free mutex; one that is busy changes nothing. *)
Trylock(t, m) ==
    /\ pc[t] = "running" /\ owner[m] # t /\ depth[t][m] < MaxDepth
    /\ held[m] = Nobody
    /\ held' = [held EXCEPT ![m] = t]
    /\ count' = [count EXCEPT ![m] = 1]
    /\ pc' = [pc EXCEPT ![t] = "locked"]
    /\ at' = [at EXCEPT ![t] = m]
    /\ UNCHANGED <<owner, depth>>

(* Mutant: the owner is written by a thread that only asks for the mutex. *)
LockOwnsEarly(t, m) ==
    /\ pc[t] = "running" /\ owner[m] # t /\ depth[t][m] < MaxDepth
    /\ pc' = [pc EXCEPT ![t] = "waiting"]
    /\ at' = [at EXCEPT ![t] = m]
    /\ owner' = [owner EXCEPT ![m] = t]
    /\ UNCHANGED <<held, count, depth>>

(* The new holder writes its name, and the lock operation succeeds. *)
Own(t) ==
    /\ pc[t] = "locked"
    /\ owner' = [owner EXCEPT ![at[t]] = t]
    /\ depth' = [depth EXCEPT ![t][at[t]] = @ + 1]
    /\ pc' = [pc EXCEPT ![t] = "running"]
    /\ UNCHANGED <<held, count, at>>

(* mutex_unlock/1 of a lock that is not the last one.  The count goes down, *)
(* although the operation then ends in a permission error.                  *)
UnlockNested(t, m) ==
    /\ pc[t] = "running" /\ owner[m] = t /\ count[m] # 1
    /\ count' = [count EXCEPT ![m] = @ - 1]
    /\ depth' = [depth EXCEPT ![t][m] = @ - 1]
    /\ UNCHANGED <<held, owner, pc, at>>

(* Mutant: does not ask who the owner is. *)
UnlockUnowned(t, m) ==
    /\ pc[t] = "running" /\ count[m] = 1
    /\ count' = [count EXCEPT ![m] = 0]
    /\ depth' = [depth EXCEPT ![t][m] = @ - 1]
    /\ held' = [held EXCEPT ![m] = Nobody]
    /\ pc' = [pc EXCEPT ![t] = "unlocked"]
    /\ at' = [at EXCEPT ![t] = m]
    /\ UNCHANGED owner

(* Mutant: does not clear the owner. *)
UnlockKeepsOwner(t, m) ==
    /\ pc[t] = "running" /\ owner[m] = t /\ count[m] = 1
    /\ count' = [count EXCEPT ![m] = 0]
    /\ depth' = [depth EXCEPT ![t][m] = @ - 1]
    /\ held' = [held EXCEPT ![m] = Nobody]
    /\ UNCHANGED <<pc, at, owner>>

(* The last one: the pthread mutex is given up first. *)
Unlock(t, m) ==
    /\ pc[t] = "running" /\ owner[m] = t /\ count[m] = 1
    /\ count' = [count EXCEPT ![m] = 0]
    /\ depth' = [depth EXCEPT ![t][m] = @ - 1]
    /\ held' = [held EXCEPT ![m] = Nobody]
    /\ pc' = [pc EXCEPT ![t] = "unlocked"]
    /\ at' = [at EXCEPT ![t] = m]
    /\ UNCHANGED owner

(* Then the owner is cleared, whoever that is by now. *)
Disown(t) ==
    /\ pc[t] = "unlocked"
    /\ owner' = [owner EXCEPT ![at[t]] = Nobody]
    /\ pc' = [pc EXCEPT ![t] = "running"]
    /\ UNCHANGED <<held, count, at, depth>>

(* mutex_unlock_all/0 gives up the pthread mutex once per nested lock, not  *)
(* for the last one, and leaves the owner.                                  *)
UnlockAll(t) ==
    LET mine == {m \in Mutexes : owner[m] = t}
    IN /\ pc[t] = "running"
       /\ \E m \in mine : depth[t][m] > 0
       /\ held' = [m \in Mutexes |-> IF m \in mine /\ count[m] > 1 THEN Nobody
                                     ELSE held[m]]
       /\ count' = [m \in Mutexes |-> IF m \notin mine THEN count[m]
                                      ELSE IF count[m] > 1 THEN 0 ELSE count[m] - 1]
       /\ depth' = [depth EXCEPT ![t] = [m \in Mutexes |->
                                           IF m \in mine THEN 0 ELSE @[m]]]
       /\ UNCHANGED <<owner, pc, at>>

-----------------------------------------------------------------------------
ThreadStep(t) ==
    \/ \E m \in Mutexes :
          \/ LockAgain(t, m) \/ Lock(t, m) \/ Trylock(t, m)
          \/ UnlockNested(t, m) \/ Unlock(t, m)
    \/ Acquire(t) \/ Own(t) \/ Disown(t)

Next == \E t \in Threads : ThreadStep(t)

(* Threads that unlock what they locked, one by one. *)
Spec == Init /\ [][Next]_vars

(* Threads that may also unlock all they hold at once. *)
UnlockAllSpec ==
    Init /\ [][Next \/ \E t \in Threads : UnlockAll(t)]_vars

-----------------------------------------------------------------------------
(* Properties *)

TypeOK ==
    /\ held \in [Mutexes -> Threads \cup {Nobody}]
    /\ owner \in [Mutexes -> Threads \cup {Nobody}]
    /\ count \in [Mutexes -> Nat]
    /\ pc \in [Threads -> PCs]
    /\ at \in [Threads -> Mutexes]
    /\ depth \in [Threads -> [Mutexes -> Nat]]

(* The thread is between taking the pthread mutex and writing its name. *)
Claiming(t, m)  == pc[t] = "locked" /\ at[t] = m

(* The thread is between giving the mutex up and clearing the owner. *)
Disowning(t, m) == pc[t] = "unlocked" /\ at[t] = m

(* At most one thread holds a mutex (library/MANUAL:6698). *)
MutualExclusion ==
    \A m \in Mutexes, t, u \in Threads :
        depth[t][m] > 0 /\ depth[u][m] > 0 => t = u

(* A thread that finds its own name in a mutex and goes on without the      *)
(* pthread mutex really has it, however late owner is written and cleared.  *)
OwnerHolds ==
    \A m \in Mutexes, t \in Threads :
        owner[m] = t => held[m] = t \/ Disowning(t, m)

(* The pthread mutex is given up exactly when the last lock is undone: not  *)
(* earlier, with locks outstanding, nor left behind when none are.          *)
HeldExactly ==
    \A m \in Mutexes, t \in Threads :
        held[m] = t <=> depth[t][m] > 0 \/ Claiming(t, m)

(* Mutexes are recursive (library/MANUAL:6734): a thread never waits for a  *)
(* mutex that it holds itself.                                              *)
NoSelfWait ==
    \A t \in Threads : pc[t] = "waiting" => held[at[t]] # t

=============================================================================
