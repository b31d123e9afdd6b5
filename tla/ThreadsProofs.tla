--------------------------- MODULE ThreadsProofs ---------------------------
(* A slot of threads[] belongs to one thread, for any number of threads,    *)
(* slots, alias names and goals.                                            *)
EXTENDS Threads, TLAPS

(* The table refers to threads that refer back, and a thread has its slot   *)
(* until its data are freed. *)
TableInv ==
    /\ \A i \in Slots :
          /\ data[i] # NULL => info[data[i]] = i
          /\ tid[i] \in {data[i], NULL}
    /\ \A t \in Threads \ freed : info[t] # NULL => data[info[t]] = t
    /\ \A t \in Threads \ freed : pc[t] # "none" => info[t] # NULL /\ tid[info[t]] = t
    /\ \A t \in freed : pc[t] \in {"wiping", "over"}

(* What has not been created has no name, no identifier and no history.     *)
NewInv ==
    \A t \in Threads :
        /\ info[t] = NULL =>
              pc[t] = "none" /\ name[t] = NULL /\ \A u \in Threads : child[u] # t
        /\ pc[t] = "none" => id[t] = NULL
        /\ id[t] # NULL /\ t \notin freed => id[t] = info[t]

(* An operation works on a thread that its caller created.                  *)
WorksRight(t) ==
    /\ child[t] # NULL /\ parent[child[t]] = t /\ work[t] = info[child[t]]
    /\ work[t] # NULL
    /\ pc[t] \in {"configuring", "spawning"} =>
          pc[child[t]] = "none" /\ tid[work[t]] = NULL
    /\ pc[t] = "configuring" => name[child[t]] = NULL
    /\ pc[t] = "naming" => pc[child[t]] # "none" /\ id[child[t]] = NULL
    /\ pc[t] \in Joining =>
          /\ pc[child[t]] # "none" /\ ~detached[work[t]]
          /\ data[work[t]] = child[t]
    /\ pc[t] \in {"joining", "dropping"} => child[t] \notin freed
    /\ pc[t] \in {"dropping", "erasing"} => pc[child[t]] = "over"
    /\ pc[t] = "erasing" => child[t] \in freed

WorkInv == \A t \in Threads : pc[t] \in Creating \cup Joining => WorksRight(t)

(* Only a detached thread frees its own info, and it has its slot until it  *)
(* has cleared it.                                                          *)
LeaveInv ==
    \A t \in Threads :
        /\ pc[t] \in {"releasing", "leaving", "wiping"} => detached[info[t]]
        /\ pc[t] = "wiping" => t \in freed /\ data[info[t]] = t /\ tid[info[t]] = t

(* The window of free_thread_info(): a slot with data that were freed is    *)
(* about to be cleared by the detached thread itself, or by its creator.    *)
WindowInv ==
    \A i \in Slots : data[i] \in freed =>
        \/ pc[data[i]] = "wiping"
        \/ \E t \in Threads : pc[t] = "erasing" /\ child[t] = data[i]

(* A slot that is about to be cleared has no alias.                         *)
NoAlias(i) == \A n \in Names : aliases[n] # i
AliasInv ==
    /\ AliasesRight
    /\ \A t \in Threads : pc[t] \in {"leaving", "wiping"} => NoAlias(info[t])
    /\ \A t \in Threads : pc[t] \in {"dropping", "erasing"} => NoAlias(work[t])

(* The status of a thread that has ended stays until its slot is cleared.   *)
EndInv ==
    \A t \in Threads :
        /\ ended[t] # NULL <=> pc[t] \in Ending \cup {"over"}
        /\ ended[t] # NULL /\ data[info[t]] = t => status[info[t]] = ended[t]
        /\ got[t] # NULL => got[t] = ended[t] /\ pc[t] = "over"

(* Nobody signals a thread that has not started.                            *)
QueueInv ==
    /\ \A t \in Threads : pc[t] = "none" => sigs[t] = 0
    /\ QueuedIsPending

StructInv == TableInv /\ NewInv /\ WorkInv /\ LeaveInv /\ WindowInv

(* The types of what the invariant of the table is about. *)
SlotTypes ==
    /\ data \in [Slots -> Threads \cup {NULL}] /\ tid \in [Slots -> Threads \cup {NULL}]
    /\ detached \in [Slots -> BOOLEAN] /\ aliases \in [Names -> Slots \cup {NULL}]
    /\ info \in [Threads -> Slots \cup {NULL}] /\ name \in [Threads -> Names \cup {NULL}]
    /\ freed \in SUBSET Threads /\ pc \in [Threads -> PCs]
    /\ parent \in [Threads -> Threads \cup {NULL}]
    /\ child \in [Threads -> Threads \cup {NULL}] /\ work \in [Threads -> Slots \cup {NULL}]
    /\ id \in [Threads -> Slots \cup {0, NULL}]

Sound == SlotTypes /\ StructInv /\ AliasInv

LEMMA Nulls ==
    /\ NULL \notin Slots /\ NULL \notin Threads /\ NULL \notin Names
    /\ NULL # 0 /\ 0 \notin Slots
  BY ThreadsAssumption DEF Slots

(* Who is about to clear a slot does not leave that to others.              *)
LEMMA WindowFrame ==
    ASSUME SlotTypes, WindowInv, freed' = freed,
           \A i \in Slots : data'[i] \in freed => data'[i] = data[i],
           \A t \in Threads : pc[t] = "wiping" => pc'[t] = "wiping",
           \A t \in Threads : pc[t] = "erasing" => pc'[t] = "erasing" /\ child'[t] = child[t]
    PROVE  WindowInv'
  BY DEF WindowInv, SlotTypes

(* Every operation keeps the table sound.  Per operation: where the thread   *)
(* is, what the invariants say of its slot and its child (<1>w), what the   *)
(* step changes and leaves (<1>2, <1>3), and each part of the invariant.    *)

LEMMA BadOptionsSound ==
    ASSUME Sound, NEW t \in Threads, BadOptions(t)
    PROVE  Sound'
  <1> USE Nulls
  <1>a. SlotTypes /\ TableInv /\ NewInv /\ WorkInv /\ LeaveInv /\ WindowInv /\ AliasInv
    BY DEF Sound, StructInv
  <1>1. pc[t] = "configuring"
    BY DEF BadOptions, Go, Forget
  <1>w. /\ child[t] \in Threads /\ work[t] \in Slots /\ child[t] # t
        /\ parent[child[t]] = t /\ work[t] = info[child[t]] /\ data[work[t]] = child[t]
    BY <1>a, <1>1
       DEF SlotTypes, TableInv, WorkInv, WorksRight, NewInv, LeaveInv, Creating, Joining
  <1>2. /\ \A x \in Threads : child'[x] = IF x = t THEN NULL ELSE child[x]
        /\ \A x \in Threads : work'[x] = IF x = t THEN NULL ELSE work[x]
        /\ \A x \in Threads : pc'[x] = IF x = t THEN "running" ELSE pc[x]
    BY <1>a, <1>1, <1>w DEF SlotTypes, BadOptions, Go, Forget
  <1>3. /\ data' = data /\ tid' = tid /\ detached' = detached /\ aliases' = aliases
        /\ info' = info /\ name' = name /\ freed' = freed /\ parent' = parent
        /\ id' = id
    BY DEF BadOptions, Go, Forget, slots, locals
  <1>4. SlotTypes'
    BY <1>a, <1>w
       DEF SlotTypes, PCs, Creating, Joining, slots, locals, BadOptions, Go, Forget
  <1>5. TableInv'
    BY <1>a, <1>1, <1>w, <1>2, <1>3
       DEF SlotTypes, Creating, Joining, PCs, TableInv, WorkInv, WorksRight, NewInv
  <1>6. NewInv'
    BY <1>a, <1>1, <1>w, <1>2, <1>3
       DEF SlotTypes, Creating, Joining, PCs, NewInv, TableInv, WorkInv, WorksRight
  <1>7. WorkInv'
    BY <1>a, <1>1, <1>w, <1>2, <1>3
       DEF SlotTypes, Creating, Joining, PCs, WorkInv, TableInv, WorksRight, NewInv
  <1>8. LeaveInv'
    BY <1>a, <1>1, <1>w, <1>2, <1>3
       DEF SlotTypes, Creating, Joining, PCs, LeaveInv, TableInv, WorkInv, WorksRight,
           NewInv
  <1>9. AliasInv'
    BY <1>a, <1>1, <1>w, <1>2, <1>3
       DEF SlotTypes, Creating, Joining, PCs, AliasInv, AliasesRight, NoAlias, TableInv,
           WorkInv, WorksRight, NewInv
  <1>10. WindowInv'
    BY <1>a, <1>1, <1>w, <1>2, <1>3, WindowFrame
  <1> QED  BY <1>4, <1>5, <1>6, <1>7, <1>8, <1>9, <1>10 DEF Sound, StructInv

LEMMA SpawnFailsSound ==
    ASSUME Sound, NEW t \in Threads, SpawnFails(t)
    PROVE  Sound'
  <1> USE Nulls
  <1>a. SlotTypes /\ TableInv /\ NewInv /\ WorkInv /\ LeaveInv /\ WindowInv /\ AliasInv
    BY DEF Sound, StructInv
  <1>1. pc[t] = "spawning"
    BY DEF SpawnFails, Go, Forget
  <1>w. /\ child[t] \in Threads /\ work[t] \in Slots /\ child[t] # t
        /\ parent[child[t]] = t /\ work[t] = info[child[t]] /\ data[work[t]] = child[t]
    BY <1>a, <1>1
       DEF SlotTypes, TableInv, WorkInv, WorksRight, NewInv, LeaveInv, Creating, Joining
  <1>2. /\ \A x \in Threads : child'[x] = IF x = t THEN NULL ELSE child[x]
        /\ \A x \in Threads : work'[x] = IF x = t THEN NULL ELSE work[x]
        /\ \A x \in Threads : pc'[x] = IF x = t THEN "running" ELSE pc[x]
    BY <1>a, <1>1, <1>w DEF SlotTypes, SpawnFails, Go, Forget
  <1>3. /\ data' = data /\ tid' = tid /\ detached' = detached /\ aliases' = aliases
        /\ info' = info /\ name' = name /\ freed' = freed /\ parent' = parent
        /\ id' = id
    BY DEF SpawnFails, Go, Forget, slots, locals
  <1>4. SlotTypes'
    BY <1>a, <1>w
       DEF SlotTypes, PCs, Creating, Joining, slots, locals, SpawnFails, Go, Forget
  <1>5. TableInv'
    BY <1>a, <1>1, <1>w, <1>2, <1>3
       DEF SlotTypes, Creating, Joining, PCs, TableInv, WorkInv, WorksRight, NewInv
  <1>6. NewInv'
    BY <1>a, <1>1, <1>w, <1>2, <1>3
       DEF SlotTypes, Creating, Joining, PCs, NewInv, TableInv, WorkInv, WorksRight
  <1>7. WorkInv'
    BY <1>a, <1>1, <1>w, <1>2, <1>3
       DEF SlotTypes, Creating, Joining, PCs, WorkInv, TableInv, WorksRight, NewInv
  <1>8. LeaveInv'
    BY <1>a, <1>1, <1>w, <1>2, <1>3
       DEF SlotTypes, Creating, Joining, PCs, LeaveInv, TableInv, WorkInv, WorksRight,
           NewInv
  <1>9. AliasInv'
    BY <1>a, <1>1, <1>w, <1>2, <1>3
       DEF SlotTypes, Creating, Joining, PCs, AliasInv, AliasesRight, NoAlias, TableInv,
           WorkInv, WorksRight, NewInv
  <1>10. WindowInv'
    BY <1>a, <1>1, <1>w, <1>2, <1>3, WindowFrame
  <1> QED  BY <1>4, <1>5, <1>6, <1>7, <1>8, <1>9, <1>10 DEF Sound, StructInv

LEMMA SpawnSound ==
    ASSUME Sound, NEW t \in Threads, Spawn(t)
    PROVE  Sound'
  <1> USE Nulls
  <1>a. SlotTypes /\ TableInv /\ NewInv /\ WorkInv /\ LeaveInv /\ WindowInv /\ AliasInv
    BY DEF Sound, StructInv
  <1>1. pc[t] = "spawning"
    BY DEF Spawn
  <1>w. /\ child[t] \in Threads /\ work[t] \in Slots /\ child[t] # t
        /\ parent[child[t]] = t /\ work[t] = info[child[t]] /\ data[work[t]] = child[t]
    BY <1>a, <1>1
       DEF SlotTypes, TableInv, WorkInv, WorksRight, NewInv, LeaveInv, Creating, Joining
  <1>2. /\ \A x \in Slots : tid'[x] = IF x = work[t] THEN child[t] ELSE tid[x]
        /\ \A x \in Threads : pc'[x] = IF x = child[t] THEN "starting"
                                       ELSE IF x = t THEN "naming" ELSE pc[x]
    BY <1>a, <1>1, <1>w DEF SlotTypes, Spawn
  <1>3. /\ data' = data /\ detached' = detached /\ aliases' = aliases /\ info' = info
        /\ name' = name /\ freed' = freed /\ parent' = parent /\ id' = id
        /\ child' = child /\ work' = work
    BY DEF Spawn, slots, locals
  <1>4. SlotTypes'
    BY <1>a, <1>w DEF SlotTypes, PCs, Creating, Joining, slots, locals, Spawn
  <1>5. TableInv'
    BY <1>a, <1>1, <1>w, <1>2, <1>3
       DEF SlotTypes, Creating, Joining, PCs, TableInv, WorkInv, WorksRight, NewInv
  <1>6. NewInv'
    BY <1>a, <1>1, <1>w, <1>2, <1>3
       DEF SlotTypes, Creating, Joining, PCs, NewInv, TableInv, WorkInv, WorksRight
  <1>7. WorkInv'
    BY <1>a, <1>1, <1>w, <1>2, <1>3
       DEF SlotTypes, Creating, Joining, PCs, WorkInv, TableInv, WorksRight, NewInv
  <1>8. LeaveInv'
    BY <1>a, <1>1, <1>w, <1>2, <1>3
       DEF SlotTypes, Creating, Joining, PCs, LeaveInv, TableInv, WorkInv, WorksRight,
           NewInv
  <1>9. AliasInv'
    <2>1. pc[child[t]] = "none"
      BY <1>a, <1>1 DEF WorkInv, WorksRight, Creating
    <2>3. ASSUME NEW x \in Threads
          PROVE  \A w \in {"leaving", "wiping", "dropping", "erasing"} :
                    pc'[x] = w <=> pc[x] = w
      BY <2>1, <1>1, <1>2, <1>w
    <2>4. AliasesRight'
      BY <2>3, <1>a, <1>3 DEF AliasInv, AliasesRight
    <2> QED  BY <2>3, <2>4, <1>a, <1>3 DEF AliasInv, NoAlias
  <1>10. WindowInv'
    <2>1. pc[child[t]] = "none"
      BY <1>a, <1>1 DEF WorkInv, WorksRight, Creating
    <2> QED  BY <2>1, <1>a, <1>1, <1>2, <1>3, WindowFrame
  <1> QED  BY <1>4, <1>5, <1>6, <1>7, <1>8, <1>9, <1>10 DEF Sound, StructInv

LEMMA ReturnSound ==
    ASSUME Sound, NEW t \in Threads, Return(t)
    PROVE  Sound'
  <1> USE Nulls
  <1>a. SlotTypes /\ TableInv /\ NewInv /\ WorkInv /\ LeaveInv /\ WindowInv /\ AliasInv
    BY DEF Sound, StructInv
  <1>1. pc[t] = "naming"
    BY DEF Return, IsFree, Go, Forget
  <1>w. child[t] \in Threads /\ work[t] \in Slots
    BY <1>a, <1>1
       DEF SlotTypes, TableInv, WorkInv, WorksRight, NewInv, LeaveInv, Creating, Joining
  <1>2. /\ \A x \in Threads : child'[x] = IF x = t THEN NULL ELSE child[x]
        /\ \A x \in Threads : work'[x] = IF x = t THEN NULL ELSE work[x]
        /\ \A x \in Threads : pc'[x] = IF x = t THEN "running" ELSE pc[x]
        /\ \A x \in Threads : id'[x] = IF x = child[t]
                THEN IF data[work[t]] = NULL THEN 0 ELSE work[t] ELSE id[x]
    BY <1>a, <1>1, <1>w DEF SlotTypes, Return, IsFree, Go, Forget
  <1>3. /\ data' = data /\ tid' = tid /\ detached' = detached /\ aliases' = aliases
        /\ info' = info /\ name' = name /\ freed' = freed /\ parent' = parent
    BY DEF Return, IsFree, Go, Forget, slots, locals
  <1>4. SlotTypes'
    BY <1>a, <1>w
       DEF SlotTypes, PCs, Creating, Joining, slots, locals, Return, IsFree, Go, Forget
  <1>5. TableInv'
    BY <1>a, <1>1, <1>w, <1>2, <1>3
       DEF SlotTypes, Creating, Joining, PCs, TableInv, WorkInv, WorksRight, NewInv
  <1>6. NewInv'
    BY <1>a, <1>1, <1>w, <1>2, <1>3
       DEF SlotTypes, Creating, Joining, PCs, NewInv, TableInv, WorkInv, WorksRight
  <1>7. WorkInv'
    BY <1>a, <1>1, <1>w, <1>2, <1>3
       DEF SlotTypes, Creating, Joining, PCs, WorkInv, TableInv, WorksRight, NewInv
  <1>8. LeaveInv'
    BY <1>a, <1>1, <1>w, <1>2, <1>3
       DEF SlotTypes, Creating, Joining, PCs, LeaveInv, TableInv, WorkInv, WorksRight,
           NewInv
  <1>9. AliasInv'
    BY <1>a, <1>1, <1>w, <1>2, <1>3
       DEF SlotTypes, Creating, Joining, PCs, AliasInv, AliasesRight, NoAlias, TableInv,
           WorkInv, WorksRight, NewInv
  <1>10. WindowInv'
    BY <1>a, <1>1, <1>w, <1>2, <1>3, WindowFrame
  <1> QED  BY <1>4, <1>5, <1>6, <1>7, <1>8, <1>9, <1>10 DEF Sound, StructInv

LEMMA ReleaseSound ==
    ASSUME Sound, NEW t \in Threads, Release(t)
    PROVE  Sound'
  <1> USE Nulls
  <1>a. SlotTypes /\ TableInv /\ NewInv /\ WorkInv /\ LeaveInv /\ WindowInv /\ AliasInv
    BY DEF Sound, StructInv
  <1>1. pc[t] = "releasing"
    BY DEF Release, Unalias, Go
  <1>w. /\ info[t] \in Slots /\ data[info[t]] = t /\ tid[info[t]] = t /\ t \notin freed
        /\ detached[info[t]]
    BY <1>a, <1>1
       DEF SlotTypes, TableInv, WorkInv, WorksRight, NewInv, LeaveInv, Creating, Joining
  <1>2. /\ \A x \in Threads : pc'[x] = IF x = t THEN "leaving" ELSE pc[x]
        /\ \A n \in Names : aliases'[n] = IF n = name[data[info[t]]] THEN NULL ELSE aliases[n]
    BY <1>a, <1>1, <1>w DEF SlotTypes, Release, Unalias, Go
  <1>3. /\ data' = data /\ tid' = tid /\ detached' = detached /\ info' = info
        /\ name' = name /\ freed' = freed /\ parent' = parent /\ id' = id
        /\ child' = child /\ work' = work
    BY DEF Release, Unalias, Go, slots, locals
  <1>4. SlotTypes'
    <2>1. aliases' \in [Names -> Slots \cup {NULL}]
      BY <1>a DEF SlotTypes, Release, Unalias
    <2> QED  BY <2>1, <1>a, <1>w, <1>2, <1>3 DEF SlotTypes, PCs, Ending, Release, Go
  <1>5. TableInv'
    BY <1>a, <1>1, <1>w, <1>2, <1>3
       DEF SlotTypes, Creating, Joining, PCs, TableInv, WorkInv, WorksRight, NewInv,
           LeaveInv
  <1>6. NewInv'
    BY <1>a, <1>1, <1>w, <1>2, <1>3
       DEF SlotTypes, Creating, Joining, PCs, NewInv, TableInv, WorkInv, WorksRight,
           LeaveInv
  <1>7. WorkInv'
    BY <1>a, <1>1, <1>w, <1>2, <1>3
       DEF SlotTypes, Creating, Joining, PCs, WorkInv, TableInv, WorksRight, NewInv,
           LeaveInv
  <1>8. LeaveInv'
    BY <1>a, <1>1, <1>w, <1>2, <1>3
       DEF SlotTypes, Creating, Joining, PCs, LeaveInv, TableInv, WorkInv, WorksRight,
           NewInv
  <1>9. AliasInv'
    BY <1>a, <1>1, <1>w, <1>2, <1>3
       DEF SlotTypes, Creating, Joining, PCs, AliasInv, AliasesRight, NoAlias, TableInv,
           WorkInv, WorksRight, NewInv, LeaveInv
  <1>10. WindowInv'
    BY <1>a, <1>1, <1>w, <1>2, <1>3, WindowFrame
  <1> QED  BY <1>4, <1>5, <1>6, <1>7, <1>8, <1>9, <1>10 DEF Sound, StructInv

LEMMA LeaveSound ==
    ASSUME Sound, NEW t \in Threads, Leave(t)
    PROVE  Sound'
  <1> USE Nulls
  <1>a. SlotTypes /\ TableInv /\ NewInv /\ WorkInv /\ LeaveInv /\ WindowInv /\ AliasInv
    BY DEF Sound, StructInv
  <1>1. pc[t] = "leaving"
    BY DEF Leave
  <1>w. /\ info[t] \in Slots /\ data[info[t]] = t /\ tid[info[t]] = t /\ t \notin freed
        /\ detached[info[t]]
    BY <1>a, <1>1 DEF SlotTypes, TableInv, LeaveInv
  <1>2. /\ freed' = freed \cup {t}
        /\ \A x \in Threads : pc'[x] = IF x = t THEN "wiping" ELSE pc[x]
    BY <1>a, <1>w DEF SlotTypes, Leave, FreeData, Go
  <1>3. /\ data' = data /\ tid' = tid /\ detached' = detached /\ aliases' = aliases
        /\ info' = info /\ name' = name /\ parent' = parent /\ id' = id
        /\ child' = child /\ work' = work
    BY DEF Leave, slots
  <1>4. SlotTypes'
    BY <1>a, <1>2, <1>3 DEF SlotTypes, PCs, Ending, Leave, Go
  <1>5. TableInv'
    BY <1>a, <1>1, <1>w, <1>2, <1>3 DEF SlotTypes, TableInv
  <1>6. NewInv'
    BY <1>a, <1>1, <1>w, <1>2, <1>3 DEF SlotTypes, NewInv
  <1>7. WorkInv'
    <2>1. SUFFICES ASSUME NEW x \in Threads, x # t, pc[x] \in Creating \cup Joining
                   PROVE  WorksRight(x)'
      BY <1>2 DEF WorkInv, Creating, Joining
    <2>2. WorksRight(x) /\ pc'[x] = pc[x] /\ child[x] \in Threads /\ work[x] \in Slots
      BY <2>1, <1>a, <1>2 DEF SlotTypes, WorkInv, WorksRight
    <2>3. pc[x] \in Joining => child[x] # t
      BY <2>2, <1>w DEF WorksRight
    <2> QED  BY <2>2, <2>3, <1>1, <1>2, <1>3 DEF WorksRight, Joining
  <1>8. LeaveInv'
    BY <1>a, <1>1, <1>w, <1>2, <1>3 DEF LeaveInv
  <1>9. AliasInv'
    BY <1>a, <1>1, <1>w, <1>2, <1>3
       DEF SlotTypes, AliasInv, AliasesRight, NoAlias
  <1>10. WindowInv'
    BY <1>a, <1>1, <1>w, <1>2, <1>3 DEF SlotTypes, WindowInv
  <1> QED  BY <1>4, <1>5, <1>6, <1>7, <1>8, <1>9, <1>10 DEF Sound, StructInv

LEMMA WipeSound ==
    ASSUME Sound, NEW t \in Threads, Wipe(t)
    PROVE  Sound'
  <1> USE Nulls
  <1>a. SlotTypes /\ TableInv /\ NewInv /\ WorkInv /\ LeaveInv /\ WindowInv /\ AliasInv
    BY DEF Sound, StructInv
  <1>1. pc[t] = "wiping"
    BY DEF Wipe, Clear, Go
  <1>w. /\ info[t] \in Slots /\ data[info[t]] = t /\ tid[info[t]] = t /\ t \in freed
        /\ detached[info[t]]
    BY <1>a, <1>1
       DEF SlotTypes, TableInv, WorkInv, WorksRight, NewInv, LeaveInv, Creating, Joining
  <1>2. /\ \A x \in Slots : data'[x] = IF x = info[t] THEN NULL ELSE data[x]
        /\ \A x \in Slots : tid'[x] = IF x = info[t] THEN NULL ELSE tid[x]
        /\ \A x \in Slots : detached'[x] = IF x = info[t] THEN FALSE ELSE detached[x]
        /\ \A x \in Threads : pc'[x] = IF x = t THEN "over" ELSE pc[x]
    BY <1>a, <1>1, <1>w DEF SlotTypes, Wipe, Clear, Go
  <1>3. /\ aliases' = aliases /\ info' = info /\ name' = name /\ freed' = freed
        /\ parent' = parent /\ id' = id /\ child' = child /\ work' = work
    BY DEF Wipe, Clear, Go, slots, locals
  <1>4. SlotTypes'
    BY <1>a, <1>w DEF SlotTypes, PCs, Creating, Joining, slots, locals, Wipe, Clear, Go
  <1>5. TableInv'
    BY <1>a, <1>1, <1>w, <1>2, <1>3
       DEF SlotTypes, Creating, Joining, PCs, TableInv, WorkInv, WorksRight, NewInv,
           LeaveInv
  <1>6. NewInv'
    BY <1>a, <1>1, <1>w, <1>2, <1>3
       DEF SlotTypes, Creating, Joining, PCs, NewInv, TableInv, WorkInv, WorksRight,
           LeaveInv
  <1>7. WorkInv'
    <2>1. SUFFICES ASSUME NEW x \in Threads, x # t, pc[x] \in Creating \cup Joining
                   PROVE  WorksRight(x)'
      BY <1>a, <1>1, <1>2 DEF SlotTypes, WorkInv, Creating, Joining
    <2>2. WorksRight(x) /\ pc'[x] = pc[x] /\ child[x] \in Threads /\ work[x] \in Slots
      BY <2>1, <1>a, <1>2 DEF SlotTypes, WorkInv, WorksRight
    <2>3. pc[x] \in Joining => child[x] # data[info[t]] /\ work[x] # info[t]
      BY <2>1, <2>2, <1>a, <1>1, <1>w DEF WorksRight, WorkInv, Joining, Creating
    <2>4. pc[child[x]] = "none" \/ pc[x] \in {"dropping", "erasing"} => pc'[child[x]] = pc[child[x]]
      BY <2>1, <2>2, <2>3, <1>a, <1>1, <1>w, <1>2 DEF Joining, SlotTypes, WorksRight
    <2>5. pc[child[x]] # "none" => pc'[child[x]] # "none"
      BY <2>2, <1>2
    <2>6. tid[work[x]] = NULL => tid'[work[x]] = NULL
      BY <2>2, <1>2
    <2>7. pc[x] \in Joining => detached'[work[x]] = detached[work[x]] /\ data'[work[x]] = data[work[x]]
      BY <2>2, <2>3, <1>2
    <2> QED  BY <2>1, <2>2, <2>4, <2>5, <2>6, <2>7, <1>2, <1>3 DEF WorksRight, Joining, Creating
  <1>8. LeaveInv'
    <2>1. SUFFICES ASSUME NEW x \in Threads, x # t, pc[x] \in {"releasing", "leaving", "wiping"}
                   PROVE  /\ detached'[info[x]] = detached[info[x]]
                          /\ data'[info[x]] = data[info[x]] /\ tid'[info[x]] = tid[info[x]]
      BY <1>1, <1>a, <1>2, <1>3 DEF LeaveInv
    <2>2. info[x] \in Slots /\ data[info[x]] = x /\ detached[info[x]]
      BY <2>1, <1>a DEF SlotTypes, TableInv, NewInv, LeaveInv
    <2>3. info[x] # info[t]
      BY <2>1, <2>2, <1>1, <1>w, <1>a
    <2> QED  BY <2>2, <2>3, <1>2
  <1>9. AliasInv'
    BY <1>a, <1>1, <1>w, <1>2, <1>3
       DEF SlotTypes, Creating, Joining, PCs, AliasInv, AliasesRight, NoAlias, TableInv,
           WorkInv, WorksRight, NewInv, LeaveInv
  <1>10. WindowInv'
    <2> SUFFICES ASSUME NEW i \in Slots, i # info[t], data[i] \in freed
                 PROVE  \/ pc'[data[i]] = "wiping"
                        \/ \E x \in Threads : pc'[x] = "erasing" /\ child[x] = data[i]
      BY <1>2, <1>3, <1>a DEF WindowInv, SlotTypes
    <2>1. data[i] \in Threads /\ data[i] # t
      BY <1>a DEF SlotTypes, TableInv
    <2> QED  BY <2>1, <1>a, <1>1, <1>2 DEF WindowInv
  <1> QED  BY <1>4, <1>5, <1>6, <1>7, <1>8, <1>9, <1>10 DEF Sound, StructInv

LEMMA JoinSound ==
    ASSUME Sound, NEW t \in Threads, NEW u \in Threads, Join(t, u)
    PROVE  Sound'
  <1> USE Nulls
  <1>a. SlotTypes /\ TableInv /\ NewInv /\ WorkInv /\ LeaveInv /\ WindowInv /\ AliasInv
    BY DEF Sound, StructInv
  <1>1. /\ pc[t] = "running" /\ parent[u] = t /\ id[u] # NULL /\ u \notin freed
        /\ ~detached[info[u]] /\ tid[id[u]] # NULL
    BY DEF Join, Joinable, Go
  <1>w. /\ info[u] \in Slots /\ id[u] = info[u] /\ data[info[u]] = u /\ pc[u] # "none"
        /\ tid[info[u]] = u
    BY <1>a, <1>1
       DEF SlotTypes, TableInv, WorkInv, WorksRight, NewInv, LeaveInv, Creating, Joining
  <1>2. /\ \A x \in Threads : pc'[x] = IF x = t THEN "joining" ELSE pc[x]
        /\ \A x \in Threads : child'[x] = IF x = t THEN u ELSE child[x]
        /\ \A x \in Threads : work'[x] = IF x = t THEN id[u] ELSE work[x]
    BY <1>a, <1>1, <1>w DEF SlotTypes, Join, Joinable, Go
  <1>3. /\ data' = data /\ tid' = tid /\ detached' = detached /\ aliases' = aliases
        /\ info' = info /\ name' = name /\ freed' = freed /\ parent' = parent
        /\ id' = id
    BY DEF Join, Joinable, Go, slots, locals
  <1>4. SlotTypes'
    BY <1>a, <1>w DEF SlotTypes, PCs, Creating, Joining, slots, locals, Join, Joinable, Go
  <1>5. TableInv'
    BY <1>a, <1>1, <1>w, <1>2, <1>3
       DEF SlotTypes, Creating, Joining, PCs, TableInv, WorkInv, WorksRight, NewInv
  <1>6. NewInv'
    BY <1>a, <1>1, <1>w, <1>2, <1>3
       DEF SlotTypes, Creating, Joining, PCs, NewInv, TableInv, WorkInv, WorksRight
  <1>7. WorkInv'
    BY <1>a, <1>1, <1>w, <1>2, <1>3
       DEF SlotTypes, Creating, Joining, PCs, WorkInv, TableInv, WorksRight, NewInv
  <1>8. LeaveInv'
    BY <1>a, <1>1, <1>w, <1>2, <1>3
       DEF SlotTypes, Creating, Joining, PCs, LeaveInv, TableInv, WorkInv, WorksRight,
           NewInv
  <1>9. AliasInv'
    BY <1>a, <1>1, <1>w, <1>2, <1>3
       DEF SlotTypes, Creating, Joining, PCs, AliasInv, AliasesRight, NoAlias, TableInv,
           WorkInv, WorksRight, NewInv
  <1>10. WindowInv'
    BY <1>a, <1>1, <1>w, <1>2, <1>3, WindowFrame
  <1> QED  BY <1>4, <1>5, <1>6, <1>7, <1>8, <1>9, <1>10 DEF Sound, StructInv

LEMMA JoinReturnsSound ==
    ASSUME Sound, NEW t \in Threads, JoinReturns(t)
    PROVE  Sound'
  <1> USE Nulls
  <1>a. SlotTypes /\ TableInv /\ NewInv /\ WorkInv /\ LeaveInv /\ WindowInv /\ AliasInv
    BY DEF Sound, StructInv
  <1>1. pc[t] = "joining" /\ pc[tid[work[t]]] = "over"
    BY DEF JoinReturns, Unalias, Go
  <1>w. /\ child[t] \in Threads /\ work[t] \in Slots /\ child[t] # t
        /\ parent[child[t]] = t /\ work[t] = info[child[t]] /\ data[work[t]] = child[t]
    BY <1>a, <1>1
       DEF SlotTypes, TableInv, WorkInv, WorksRight, NewInv, LeaveInv, Creating, Joining
  <1>2. /\ \A x \in Threads : pc'[x] = IF x = t THEN "dropping" ELSE pc[x]
        /\ \A n \in Names : aliases'[n] = IF n = name[data[work[t]]] THEN NULL ELSE aliases[n]
    BY <1>a, <1>1, <1>w DEF SlotTypes, JoinReturns, Unalias, Go
  <1>3. /\ data' = data /\ tid' = tid /\ detached' = detached /\ info' = info
        /\ name' = name /\ freed' = freed /\ parent' = parent /\ id' = id
        /\ child' = child /\ work' = work
    BY DEF JoinReturns, Unalias, Go, slots, locals
  <1>4. SlotTypes'
    BY <1>a, <1>w
       DEF SlotTypes, PCs, Creating, Joining, slots, locals, JoinReturns, Unalias, Go
  <1>5. TableInv'
    BY <1>a, <1>1, <1>w, <1>2, <1>3
       DEF SlotTypes, Creating, Joining, PCs, TableInv, WorkInv, WorksRight, NewInv,
           LeaveInv
  <1>6. NewInv'
    BY <1>a, <1>1, <1>w, <1>2, <1>3
       DEF SlotTypes, Creating, Joining, PCs, NewInv, TableInv, WorkInv, WorksRight,
           LeaveInv
  <1>7. WorkInv'
    BY <1>a, <1>1, <1>w, <1>2, <1>3
       DEF SlotTypes, Creating, Joining, PCs, WorkInv, TableInv, WorksRight, NewInv,
           LeaveInv
  <1>8. LeaveInv'
    BY <1>a, <1>1, <1>w, <1>2, <1>3
       DEF SlotTypes, Creating, Joining, PCs, LeaveInv, TableInv, WorkInv, WorksRight,
           NewInv
  <1>9. AliasInv'
    BY <1>a, <1>1, <1>w, <1>2, <1>3
       DEF SlotTypes, Creating, Joining, PCs, AliasInv, AliasesRight, NoAlias, TableInv,
           WorkInv, WorksRight, NewInv, LeaveInv
  <1>10. WindowInv'
    BY <1>a, <1>1, <1>w, <1>2, <1>3, WindowFrame
  <1> QED  BY <1>4, <1>5, <1>6, <1>7, <1>8, <1>9, <1>10 DEF Sound, StructInv

LEMMA JoinFreesSound ==
    ASSUME Sound, NEW t \in Threads, JoinFrees(t)
    PROVE  Sound'
  <1> USE Nulls
  <1>a. SlotTypes /\ TableInv /\ NewInv /\ WorkInv /\ LeaveInv /\ WindowInv /\ AliasInv
    BY DEF Sound, StructInv
  <1>1. pc[t] = "dropping"
    BY DEF JoinFrees
  <1>w. /\ child[t] \in Threads /\ work[t] \in Slots /\ child[t] # t
        /\ parent[child[t]] = t /\ work[t] = info[child[t]] /\ data[work[t]] = child[t]
        /\ pc[child[t]] = "over" /\ child[t] \notin freed
    BY <1>a, <1>1 DEF SlotTypes, WorkInv, WorksRight, Joining
  <1>2. /\ freed' = freed \cup {child[t]}
        /\ \A x \in Threads : pc'[x] = IF x = t THEN "erasing" ELSE pc[x]
    BY <1>a, <1>w DEF SlotTypes, JoinFrees, FreeData, Go
  <1>3. /\ data' = data /\ tid' = tid /\ detached' = detached /\ aliases' = aliases
        /\ info' = info /\ name' = name /\ parent' = parent /\ id' = id
        /\ child' = child /\ work' = work
    BY DEF JoinFrees, slots
  <1>4. SlotTypes'
    BY <1>a, <1>w, <1>2, <1>3 DEF SlotTypes, PCs, Joining, JoinFrees, Go
  <1>5. TableInv'
    BY <1>a, <1>1, <1>w, <1>2, <1>3 DEF SlotTypes, TableInv
  <1>6. NewInv'
    BY <1>a, <1>1, <1>w, <1>2, <1>3 DEF SlotTypes, NewInv
  <1>7. WorkInv'
    <2>1. WorksRight(t)'
      BY <1>a, <1>1, <1>w, <1>2, <1>3 DEF WorkInv, WorksRight, Joining
    <2>2. ASSUME NEW x \in Threads, x # t, pc[x] \in Creating \cup Joining
          PROVE  WorksRight(x)'
      <3>1. WorksRight(x) /\ pc'[x] = pc[x] /\ child[x] \in Threads /\ child[x] # child[t]
        BY <2>2, <1>a, <1>w, <1>2 DEF SlotTypes, WorkInv, WorksRight
      <3> QED  BY <3>1, <1>1, <1>2, <1>3 DEF WorksRight
    <2> QED  BY <2>1, <2>2, <1>2 DEF WorkInv
  <1>8. LeaveInv'
    BY <1>a, <1>1, <1>w, <1>2, <1>3 DEF LeaveInv
  <1>9. AliasInv'
    BY <1>a, <1>1, <1>w, <1>2, <1>3
       DEF SlotTypes, AliasInv, AliasesRight, NoAlias
  <1>10. WindowInv'
    BY <1>a, <1>1, <1>w, <1>2, <1>3 DEF SlotTypes, WindowInv
  <1> QED  BY <1>4, <1>5, <1>6, <1>7, <1>8, <1>9, <1>10 DEF Sound, StructInv

LEMMA JoinDoneSound ==
    ASSUME Sound, NEW t \in Threads, JoinDone(t)
    PROVE  Sound'
  <1> USE Nulls
  <1>a. SlotTypes /\ TableInv /\ NewInv /\ WorkInv /\ LeaveInv /\ WindowInv /\ AliasInv
    BY DEF Sound, StructInv
  <1>1. pc[t] = "erasing"
    BY DEF JoinDone, Clear, Go, Forget
  <1>w. /\ child[t] \in Threads /\ work[t] \in Slots /\ child[t] # t
        /\ parent[child[t]] = t /\ work[t] = info[child[t]] /\ data[work[t]] = child[t]
    BY <1>a, <1>1
       DEF SlotTypes, TableInv, WorkInv, WorksRight, NewInv, LeaveInv, Creating, Joining
  <1>2. /\ \A x \in Slots : data'[x] = IF x = work[t] THEN NULL ELSE data[x]
        /\ \A x \in Slots : tid'[x] = IF x = work[t] THEN NULL ELSE tid[x]
        /\ \A x \in Slots : detached'[x] = IF x = work[t] THEN FALSE ELSE detached[x]
        /\ \A x \in Threads : child'[x] = IF x = t THEN NULL ELSE child[x]
        /\ \A x \in Threads : work'[x] = IF x = t THEN NULL ELSE work[x]
        /\ \A x \in Threads : pc'[x] = IF x = t THEN "running" ELSE pc[x]
    BY <1>a, <1>1, <1>w DEF SlotTypes, JoinDone, Clear, Go, Forget
  <1>3. /\ aliases' = aliases /\ info' = info /\ name' = name /\ freed' = freed
        /\ parent' = parent /\ id' = id
    BY DEF JoinDone, Clear, Go, Forget, slots, locals
  <1>4. SlotTypes'
    BY <1>a, <1>w
       DEF SlotTypes, PCs, Creating, Joining, slots, locals, JoinDone, Clear, Go, Forget
  <1>5. TableInv'
    BY <1>a, <1>1, <1>w, <1>2, <1>3
       DEF SlotTypes, Creating, Joining, PCs, TableInv, WorkInv, WorksRight, NewInv,
           LeaveInv
  <1>6. NewInv'
    BY <1>a, <1>1, <1>w, <1>2, <1>3
       DEF SlotTypes, Creating, Joining, PCs, NewInv, TableInv, WorkInv, WorksRight,
           LeaveInv
  <1>7. WorkInv'
    <2>1. SUFFICES ASSUME NEW x \in Threads, x # t, pc[x] \in Creating \cup Joining
                   PROVE  WorksRight(x)'
      BY <1>a, <1>1, <1>2 DEF SlotTypes, WorkInv, Creating, Joining
    <2>2. WorksRight(x) /\ pc'[x] = pc[x] /\ child[x] \in Threads /\ work[x] \in Slots
      BY <2>1, <1>a, <1>2 DEF SlotTypes, WorkInv, WorksRight
    <2>3. pc[x] \in Joining => child[x] # data[work[t]] /\ work[x] # work[t]
      BY <2>1, <2>2, <1>a, <1>1, <1>w DEF WorksRight, WorkInv, Joining, Creating
    <2>4. pc[child[x]] = "none" \/ pc[x] \in {"dropping", "erasing"} => pc'[child[x]] = pc[child[x]]
      BY <2>1, <2>2, <2>3, <1>a, <1>1, <1>w, <1>2 DEF Joining, SlotTypes, WorksRight
    <2>5. pc[child[x]] # "none" => pc'[child[x]] # "none"
      BY <2>2, <1>2
    <2>6. tid[work[x]] = NULL => tid'[work[x]] = NULL
      BY <2>2, <1>2
    <2>7. pc[x] \in Joining => detached'[work[x]] = detached[work[x]] /\ data'[work[x]] = data[work[x]]
      BY <2>2, <2>3, <1>2
    <2> QED  BY <2>1, <2>2, <2>4, <2>5, <2>6, <2>7, <1>2, <1>3 DEF WorksRight, Joining, Creating
  <1>8. LeaveInv'
    <2>1. SUFFICES ASSUME NEW x \in Threads, x # t, pc[x] \in {"releasing", "leaving", "wiping"}
                   PROVE  /\ detached'[info[x]]
                          /\ data'[info[x]] = data[info[x]] /\ tid'[info[x]] = tid[info[x]]
      BY <1>1, <1>a, <1>2, <1>3 DEF LeaveInv
    <2>2. info[x] \in Slots /\ data[info[x]] = x /\ detached[info[x]]
      BY <2>1, <1>a DEF SlotTypes, TableInv, NewInv, LeaveInv
    <2>3. info[x] # work[t]
      BY <2>1, <2>2, <1>1, <1>w, <1>a DEF WorkInv, WorksRight, Joining, Creating
    <2>4. ASSUME NEW s \in Slots, s # work[t]
          PROVE  data'[s] = data[s] /\ tid'[s] = tid[s] /\ detached'[s] = detached[s]
      BY <2>4, <1>2
    <2> QED  BY <2>2, <2>3, <2>4
  <1>9. AliasInv'
    BY <1>a, <1>1, <1>w, <1>2, <1>3
       DEF SlotTypes, Creating, Joining, PCs, AliasInv, AliasesRight, NoAlias, TableInv,
           WorkInv, WorksRight, NewInv, LeaveInv
  <1>10. WindowInv'
    <2> SUFFICES ASSUME NEW i \in Slots, i # work[t], data[i] \in freed
                 PROVE  \/ pc'[data[i]] = "wiping"
                        \/ \E x \in Threads : pc'[x] = "erasing" /\ child'[x] = data[i]
      BY <1>2, <1>3, <1>a DEF WindowInv, SlotTypes
    <2>1. data[i] \in Threads /\ data[i] # child[t]
      BY <1>a, <1>w DEF SlotTypes, TableInv
    <2> QED  BY <2>1, <1>a, <1>1, <1>2 DEF WindowInv
  <1> QED  BY <1>4, <1>5, <1>6, <1>7, <1>8, <1>9, <1>10 DEF Sound, StructInv

LEMMA AllocThreadSound ==
    ASSUME Sound, NEW t \in Threads, NEW u \in Threads, AllocThread(t, u)
    PROVE  Sound'
  <1> USE Nulls
  <1>a. SlotTypes /\ TableInv /\ NewInv /\ WorkInv /\ LeaveInv /\ WindowInv /\ AliasInv
    BY DEF Sound, StructInv
  <1>b. PICK i \in Slots : FirstFree(i) /\ info' = [info EXCEPT ![u] = i]
                            /\ data' = [data EXCEPT ![i] = u]
                            /\ work' = [work EXCEPT ![t] = i]
    BY DEF AllocThread
  <1>1. pc[t] = "running" /\ info[u] = NULL /\ data[i] = NULL /\ tid[i] = NULL
    BY <1>a, <1>b DEF AllocThread, FirstFree, IsFree, TableInv
  <1>w. /\ pc[u] = "none" /\ name[u] = NULL /\ id[u] = NULL /\ u \notin freed /\ u # t
        /\ \A x \in Threads : child[x] # u
    BY <1>a, <1>1 DEF NewInv, TableInv
  <1>2. /\ \A x \in Slots : data'[x] = IF x = i THEN u ELSE data[x]
        /\ \A x \in Threads : info'[x] = IF x = u THEN i ELSE info[x]
        /\ \A x \in Threads : work'[x] = IF x = t THEN i ELSE work[x]
        /\ \A x \in Threads : child'[x] = IF x = t THEN u ELSE child[x]
        /\ \A x \in Threads : parent'[x] = IF x = u THEN t ELSE parent[x]
        /\ \A x \in Threads : pc'[x] = IF x = t THEN "configuring" ELSE pc[x]
    BY <1>a, <1>b DEF SlotTypes, AllocThread, Go
  <1>3. /\ tid' = tid /\ detached' = detached /\ aliases' = aliases /\ name' = name
        /\ freed' = freed /\ id' = id
    BY DEF AllocThread
  <1>4. SlotTypes'
    BY <1>a, <1>b, <1>3 DEF SlotTypes, PCs, Creating, AllocThread, Go
  <1>5. TableInv'
    BY <1>a, <1>1, <1>w, <1>2, <1>3 DEF SlotTypes, TableInv
  <1>6. NewInv'
    BY <1>a, <1>1, <1>w, <1>2, <1>3 DEF SlotTypes, NewInv
  <1>7. WorkInv'
    <2>1. WorksRight(t)'
      BY <1>a, <1>1, <1>w, <1>2, <1>3 DEF WorksRight, Joining
    <2>2. ASSUME NEW x \in Threads, x # t, pc[x] \in Creating \cup Joining
          PROVE  WorksRight(x)'
      <3>1. WorksRight(x) /\ child[x] \in Threads /\ child[x] # u
        BY <2>2, <1>a, <1>w DEF WorkInv, WorksRight, SlotTypes
      <3> QED  BY <3>1, <2>2, <1>a, <1>1, <1>2, <1>3 DEF WorksRight, Joining, Creating, SlotTypes
    <2> QED  BY <2>1, <2>2, <1>2 DEF WorkInv, Creating, Joining
  <1>8. LeaveInv'
    <2>1. ASSUME NEW x \in Threads, pc[x] \in {"releasing", "leaving", "wiping"}
          PROVE  x # t /\ x # u /\ info[x] \in Slots /\ info[x] # i
      BY <2>1, <1>a, <1>1, <1>w DEF SlotTypes, NewInv, TableInv, LeaveInv
    <2> QED  BY <2>1, <1>a, <1>2, <1>3 DEF LeaveInv
  <1>9. AliasInv'
    <2>1. AliasesRight'
      BY <1>a, <1>1, <1>w, <1>2, <1>3 DEF AliasInv, AliasesRight, SlotTypes, TableInv
    <2> QED  BY <2>1, <1>a, <1>1, <1>w, <1>2, <1>3 DEF AliasInv, NoAlias, SlotTypes
  <1>10. WindowInv'
    BY <1>a, <1>1, <1>w, <1>2, <1>3, WindowFrame
  <1> QED  BY <1>4, <1>5, <1>6, <1>7, <1>8, <1>9, <1>10 DEF Sound, StructInv

LEMMA ConfigureSound ==
    ASSUME Sound, NEW t \in Threads, NEW d \in BOOLEAN, NEW n \in Names \cup {NULL},
           Configure(t, d, n)
    PROVE  Sound'
  <1> USE Nulls
  <1> DEFINE i == work[t]  u == child[t]  new == n # NULL /\ aliases[n] = NULL
  <1>a. SlotTypes /\ TableInv /\ NewInv /\ WorkInv /\ LeaveInv /\ WindowInv /\ AliasInv
    BY DEF Sound, StructInv
  <1>1. pc[t] = "configuring"
    BY DEF Configure
  <1>w. /\ u \in Threads /\ i \in Slots /\ parent[u] = t /\ i = info[u] /\ data[i] = u
        /\ pc[u] = "none" /\ u \notin freed /\ name[u] = NULL /\ tid[i] = NULL
    BY <1>a, <1>1 DEF SlotTypes, TableInv, WorkInv, WorksRight, Creating, Joining
  <1>2. /\ \A x \in Slots : detached'[x] = IF x = i THEN d ELSE detached[x]
        /\ \A x \in Threads : pc'[x] = IF x = t THEN "spawning" ELSE pc[x]
        /\ \A m \in Names : aliases'[m] = IF new /\ m = n THEN i ELSE aliases[m]
        /\ \A x \in Threads : name'[x] = IF new /\ x = u THEN n ELSE name[x]
    BY <1>a, <1>w DEF SlotTypes, Configure, Go
  <1>3. /\ data' = data /\ tid' = tid /\ info' = info /\ freed' = freed /\ parent' = parent
        /\ id' = id /\ child' = child /\ work' = work
    BY DEF Configure
  <1>4. SlotTypes'
    BY <1>a, <1>w DEF SlotTypes, PCs, Creating, Configure, Go
  <1>5. TableInv'
    BY <1>a, <1>1, <1>2, <1>3 DEF SlotTypes, TableInv
  <1>6. NewInv'
    BY <1>a, <1>1, <1>w, <1>2, <1>3 DEF SlotTypes, NewInv
  <1>7. WorkInv'
    <2>1. WorksRight(t)'
      BY <1>a, <1>1, <1>w, <1>2, <1>3 DEF WorkInv, WorksRight, Joining, Creating
    <2>2. ASSUME NEW x \in Threads, x # t, pc[x] \in Creating \cup Joining
          PROVE  WorksRight(x)'
      <3>1. WorksRight(x) /\ child[x] \in Threads /\ child[x] # u /\ work[x] \in Slots
        BY <2>2, <1>a, <1>w DEF WorkInv, WorksRight, SlotTypes
      <3>2. pc[x] \in Joining => work[x] # i
        BY <3>1, <1>a, <1>w DEF WorksRight, TableInv, SlotTypes
      <3> QED  BY <3>1, <3>2, <2>2, <1>a, <1>1, <1>2, <1>3 DEF WorksRight, Joining, Creating
    <2> QED  BY <2>1, <2>2, <1>2 DEF WorkInv, Creating, Joining
  <1>8. LeaveInv'
    <2>1. ASSUME NEW x \in Threads, pc[x] \in {"releasing", "leaving", "wiping"}
          PROVE  x # t /\ info[x] \in Slots /\ info[x] # i
      BY <2>1, <1>a, <1>1, <1>w DEF SlotTypes, NewInv, TableInv, LeaveInv
    <2> QED  BY <2>1, <1>a, <1>2, <1>3 DEF LeaveInv
  <1>9. AliasInv'
    <2>1. \A x \in Threads : pc[x] \in {"leaving", "wiping"} => info[x] # i
      BY <1>a, <1>w DEF TableInv, LeaveInv, SlotTypes
    <2>2. \A x \in Threads : pc[x] \in {"dropping", "erasing"} => work[x] # i
      BY <1>a, <1>w DEF TableInv, SlotTypes, WorkInv, WorksRight, Joining
    <2>a. AliasesRight
      BY <1>a DEF AliasInv
    <2>b. ASSUME NEW m \in Names, aliases'[m] # NULL
          PROVE  data'[aliases'[m]] # NULL /\ name'[data'[aliases'[m]]] = m
      <3>1. CASE new /\ m = n
        BY <3>1, <1>w, <1>2, <1>3
      <3>2. CASE ~(new /\ m = n)
        <4>1. aliases[m] # NULL /\ data[aliases[m]] # NULL /\ name[data[aliases[m]]] = m
          BY <3>2, <2>a, <2>b, <1>2 DEF AliasesRight
        <4>2. data[aliases[m]] \in Threads /\ data[aliases[m]] # u
          BY <4>1, <1>a, <1>w DEF SlotTypes
        <4> QED  BY <4>1, <4>2, <3>2, <1>2, <1>3
      <3> QED  BY <3>1, <3>2
    <2>c. ASSUME NEW x \in Threads, name'[x] # NULL, x \notin freed', pc'[x] # "leaving",
                 \A v \in Threads : pc'[v] = "dropping" => child'[v] # x
          PROVE  aliases'[name'[x]] = info'[x]
      <3>1. CASE x = u
        BY <3>1, <2>c, <1>w, <1>2, <1>3
      <3>2. CASE x # u
        <4>1. name'[x] = name[x] /\ name[x] \in Names /\ pc[x] # "leaving"
          BY <3>2, <2>c, <1>a, <1>1, <1>2 DEF SlotTypes
        <4>2. aliases[name[x]] = info[x]
          BY <4>1, <2>a, <2>c, <1>1, <1>2, <1>3 DEF AliasesRight
        <4>3. info[x] # NULL
          BY <4>1, <1>a DEF NewInv
        <4> QED  BY <4>1, <4>2, <4>3, <1>2, <1>3
      <3> QED  BY <3>1, <3>2
    <2>3. AliasesRight'
      BY <2>b, <2>c DEF AliasesRight
    <2> QED  BY <2>1, <2>2, <2>3, <1>a, <1>1, <1>w, <1>2, <1>3 DEF AliasInv, NoAlias, SlotTypes
  <1>10. WindowInv'
    BY <1>a, <1>1, <1>w, <1>2, <1>3, WindowFrame
  <1> QED  BY <1>4, <1>5, <1>6, <1>7, <1>8, <1>9, <1>10 DEF Sound, StructInv

(* A step in which a thread works on nothing but itself.                    *)
Alone == {"starting", "running", "hooks", "destructor", "freeing"} \cup Handling

LEMMA AloneSound ==
    ASSUME Sound, NEW t \in Threads, NEW w \in Alone \cup {"releasing", "over"},
           pc[t] \in Alone, pc' = [pc EXCEPT ![t] = w],
           w = "releasing" => detached[info[t]],
           UNCHANGED <<data, tid, detached, aliases, locals>>
    PROVE  Sound'
  <1> USE Nulls
  <1>a. SlotTypes /\ TableInv /\ NewInv /\ WorkInv /\ LeaveInv /\ WindowInv /\ AliasInv
    BY DEF Sound, StructInv
  <1>2. \A x \in Threads : pc'[x] = IF x = t THEN w ELSE pc[x]
    BY <1>a DEF SlotTypes
  <1>3. /\ data' = data /\ tid' = tid /\ detached' = detached /\ aliases' = aliases
        /\ info' = info /\ name' = name /\ freed' = freed /\ parent' = parent
        /\ child' = child /\ work' = work /\ id' = id
    BY DEF locals
  <1>w. /\ pc[t] \notin Creating \cup Joining
        /\ pc[t] \notin {"none", "over", "releasing", "leaving", "wiping"}
        /\ w \notin Creating \cup Joining \cup {"none", "leaving", "wiping"}
    BY DEF Alone, Handling, Creating, Joining
  <1>4. SlotTypes'
    BY <1>a, <1>3 DEF SlotTypes, PCs, Alone, Ending
  <1>5. TableInv'
    BY <1>a, <1>w, <1>2, <1>3 DEF TableInv
  <1>6. NewInv'
    BY <1>a, <1>w, <1>2, <1>3 DEF NewInv
  <1>7. WorkInv'
    <2>1. SUFFICES ASSUME NEW x \in Threads, x # t, pc[x] \in Creating \cup Joining
                   PROVE  WorksRight(x)'
      BY <1>w, <1>2 DEF WorkInv
    <2>2. WorksRight(x) /\ child[x] \in Threads
      BY <2>1, <1>a DEF WorkInv, WorksRight, SlotTypes
    <2> QED  BY <2>1, <2>2, <1>w, <1>2, <1>3 DEF WorksRight
  <1>8. LeaveInv'
    BY <1>a, <1>2, <1>3, <1>w DEF LeaveInv
  <1>9. AliasInv'
    BY <1>a, <1>w, <1>2, <1>3 DEF AliasInv, AliasesRight, NoAlias, Joining
  <1>10. WindowInv'
    BY <1>a, <1>w, <1>2, <1>3, WindowFrame DEF Joining
  <1> QED  BY <1>4, <1>5, <1>6, <1>7, <1>8, <1>9, <1>10 DEF Sound, StructInv

LEMMA SoundInit == Init => Sound
  <1> SUFFICES ASSUME Init PROVE Sound
    OBVIOUS
  <1> USE Nulls, ThreadsAssumption DEF Init
  <1>1. 1 \in Slots
    BY DEF Slots
  <1>2. SlotTypes
    BY <1>1 DEF SlotTypes, PCs
  <1>3. TableInv /\ NewInv /\ WindowInv
    BY <1>1 DEF TableInv, NewInv, WindowInv
  <1>4. WorkInv /\ LeaveInv /\ AliasInv
    BY <1>1 DEF WorkInv, LeaveInv, AliasInv, AliasesRight, NoAlias, Creating, Joining
  <1> QED  BY <1>2, <1>3, <1>4 DEF Sound, StructInv

LEMMA SoundNext == Sound /\ [Next]_vars => Sound'
  <1> SUFFICES ASSUME Sound, [Next]_vars PROVE Sound'
    OBVIOUS
  <1>1. CASE UNCHANGED vars
    BY <1>1 DEF vars, slots, locals, Sound, SlotTypes, StructInv, TableInv, NewInv, WorkInv,
                WorksRight, LeaveInv, WindowInv, AliasInv, AliasesRight, NoAlias
  <1>2. ASSUME NEW t \in Threads,
               Progress(t) \/ Call(t) \/ \E sig \in Signals : Handle(t, sig)
        PROVE  Sound'
    <2> USE DEF Alone, Handling, Go, slots
    <2>a. pc[t] \in PCs /\ pc = [pc EXCEPT ![t] = pc[t]]
      BY DEF Sound, SlotTypes
    <2>1. CASE Progress(t)
      <3>1. CASE Start(t)
        BY <3>1, AloneSound DEF Start
      <3>2. CASE TakeHooks(t)
        BY <3>2, <2>a, AloneSound DEF TakeHooks
      <3>3. CASE RunHook(t)
        BY <3>3, <2>a, AloneSound DEF RunHook
      <3>4. CASE ExitInHook(t)
        BY <3>4, AloneSound DEF ExitInHook
      <3>5. CASE HooksDone(t)
        BY <3>5, AloneSound DEF HooksDone
      <3>6. CASE FreeQueues(t)
        BY <3>6, AloneSound DEF FreeQueues
      <3>7. CASE StoreSignals(t) \/ TakeSignals(t)
        BY <3>7, AloneSound DEF StoreSignals, TakeSignals
      <3> QED
        BY <2>1, <3>1, <3>2, <3>3, <3>4, <3>5, <3>6, <3>7, BadOptionsSound, SpawnSound,
           SpawnFailsSound, ReturnSound, ConfigureSound, ReleaseSound, LeaveSound,
           WipeSound, JoinReturnsSound, JoinFreesSound, JoinDoneSound DEF Progress
    <2>2. CASE Call(t)
      <3>1. CASE AtExit(t) \/ Raise(t)
        BY <3>1, <2>a, AloneSound DEF AtExit, Raise
      <3>2. CASE ThreadExit(t) \/ \E st \in Outcomes : GoalEnds(t, st)
        BY <3>2, AloneSound DEF ThreadExit, GoalEnds
      <3>3. CASE \E u \in Threads : Signal(t, u)
        BY <3>3, <2>a, AloneSound DEF Signal
      <3> QED  BY <2>2, <3>1, <3>2, <3>3, AllocThreadSound, JoinSound DEF Call
    <2>3. CASE \E sig \in Signals : Handle(t, sig)
      BY <2>3, AloneSound DEF Handle
    <2> QED  BY <1>2, <2>1, <2>2, <2>3
  <1> QED  BY <1>1, <1>2 DEF Next

LEMMA Soundness == Spec => []Sound
  BY SoundInit, SoundNext, PTL DEF Spec

(* A slot is used by one thread at a time, however often it is freed and    *)
(* given to another; it refers to data that were freed exactly while one     *)
(* thread is about to clear it (free_thread_info()), and nobody is left who  *)
(* will use those data or free them again.                                  *)
THEOREM SlotsHeld == Spec => []SlotsExclusive
  <1>1. Sound => SlotsExclusive
    <2> SUFFICES ASSUME Sound PROVE SlotsExclusive
      OBVIOUS
    <2> USE Nulls
    <2>a. SlotTypes /\ TableInv /\ NewInv /\ WorkInv /\ LeaveInv /\ WindowInv
      BY DEF Sound, StructInv
    <2>b. \A t \in Threads : pc[t] \in Creating \cup Joining =>
             WorksRight(t) /\ child[t] \in Threads /\ work[t] \in Slots
      BY <2>a DEF WorkInv, WorksRight, SlotTypes
    <2>1. ASSUME NEW i \in Slots, NEW t \in Threads, Clears(t, i)
          PROVE  /\ data[i] \in freed
                 /\ \/ pc[t] = "wiping" /\ t = data[i]
                    \/ pc[t] = "erasing" /\ t = parent[data[i]] /\ pc[data[i]] = "over"
      <3>1. CASE pc[t] = "wiping" /\ info[t] = i
        BY <3>1, <2>a DEF LeaveInv
      <3>2. CASE pc[t] = "erasing" /\ work[t] = i
        BY <3>2, <2>b DEF WorksRight, Joining
      <3> QED  BY <2>1, <3>1, <3>2 DEF Clears
    <2>2. ASSUME NEW i \in Slots, data[i] \in freed
          PROVE  \E t \in Threads : Clears(t, i)
      <3>1. data[i] \in Threads /\ info[data[i]] = i
        BY <2>2, <2>a DEF SlotTypes, TableInv
      <3>2. CASE pc[data[i]] = "wiping"
        BY <3>1, <3>2 DEF Clears
      <3>3. ASSUME NEW t \in Threads, pc[t] = "erasing", child[t] = data[i]
            PROVE  Clears(t, i)
        BY <3>1, <3>3, <2>b DEF Clears, WorksRight, Joining
      <3> QED  BY <2>2, <3>2, <3>3, <2>a DEF WindowInv
    <2>3. \A i \in Slots, t, u \in Threads : Clears(t, i) /\ Clears(u, i) => t = u
      BY <2>1
    <2>4. \A i \in Slots : data[i] # NULL => info[data[i]] = i /\ tid[i] \in {data[i], NULL}
      BY <2>a DEF TableInv
    <2>5. ASSUME NEW t \in Threads, Alive(t)
          PROVE  info[t] # NULL /\ data[info[t]] = t /\ tid[info[t]] = t
      BY <2>5, <2>a DEF Alive, TableInv, NewInv, LeaveInv
    <2>6. ASSUME NEW t \in Threads
          PROVE  /\ t \in freed => pc[t] \in {"wiping", "over"}
                 /\ pc[t] \in {"configuring", "spawning", "joining", "dropping"} =>
                       child[t] \notin freed
      BY <2>a, <2>b DEF TableInv, WorksRight, Creating, Joining
    <2> QED  BY <2>1, <2>2, <2>3, <2>4, <2>5, <2>6 DEF SlotsExclusive
  <1> QED  BY <1>1, Soundness, PTL

(* Whoever creates or joins a thread has the slot of that thread.           *)
THEOREM OwnSlotHeld == Spec => []OwnSlot
  <1>1. Sound => OwnSlot
    <2> SUFFICES ASSUME Sound, NEW t \in Threads,
                        pc[t] \in Joining \cup {"configuring", "spawning"}
                 PROVE  data[work[t]] = child[t]
      BY DEF OwnSlot
    <2>1. WorksRight(t) /\ child[t] \in Threads
      BY DEF Sound, StructInv, WorkInv, WorksRight, Creating, SlotTypes
    <2> QED  BY <2>1 DEF Sound, StructInv, TableInv, WorksRight, Joining
  <1> QED  BY <1>1, Soundness, PTL

(* An alias denotes the thread of that name.                                *)
THEOREM AliasesHold == Spec => []AliasesRight
  <1>1. Sound => AliasesRight
    BY DEF Sound, AliasInv
  <1> QED  BY <1>1, Soundness, PTL

-----------------------------------------------------------------------------
(* How threads end *)

Over == Ending \cup {"over"}

EndTypes ==
    /\ status \in [Slots -> Status]
    /\ ended \in [Threads -> Ends \cup {NULL}] /\ got \in [Threads -> Ends \cup {NULL}]

EndSound == EndTypes /\ EndInv

LEMMA EndKinds ==
    /\ NULL \notin Ends /\ "running" \notin Ends
    /\ Ends \subseteq Status /\ {NULL, "running"} \subseteq Status
  BY ThreadsAssumption DEF Ends, Status

(* Most steps leave alone whether and how threads have ended.               *)
LEMMA EndFrame ==
    ASSUME EndSound, UNCHANGED <<status, ended, got, info, data>>,
           \A x \in Threads : (pc[x] \in Over => pc'[x] \in Over)
                            /\ (pc'[x] \in Over => pc[x] \in Over)
                            /\ (pc[x] = "over" => pc'[x] = "over")
    PROVE  EndSound'
  BY DEF EndSound, EndTypes, EndInv, Over

LEMMA EndAsSound ==
    ASSUME Sound, EndSound, NEW t \in Threads, NEW st \in Ends, NEW w \in Ending,
           EndAs(t, st), pc[t] \in Alone, pc' = [pc EXCEPT ![t] = w],
           got' = got, info' = info, data' = data
    PROVE  EndSound'
  <1> USE EndKinds
  <1>1. info[t] \in Slots /\ pc[t] \notin {"none", "over"} /\ got[t] = NULL
    BY DEF Sound, StructInv, TableInv, SlotTypes, Alone, Handling, EndSound, EndInv
  <1>2. /\ \A x \in Slots : status'[x] = IF x = info[t] THEN st ELSE status[x]
        /\ \A x \in Threads : ended'[x] = IF x = t THEN st ELSE ended[x]
        /\ \A x \in Threads : pc'[x] = IF x = t THEN w ELSE pc[x]
    BY DEF EndSound, EndTypes, EndAs, Sound, SlotTypes
  <1>3. EndTypes'
    BY DEF EndSound, EndTypes, EndAs
  <1>4. \A x \in Threads : x # t /\ ended[x] # NULL /\ data[info[x]] = x =>
            info[x] \in Slots /\ info[x] # info[t]
    <2>1. \A x \in Threads : ended[x] # NULL => pc[x] # "none"
      BY DEF EndSound, EndInv, Ending
    <2>2. data[info[t]] = t
      BY <1>1 DEF Sound, StructInv, TableInv, Alone, Handling
    <2> QED  BY <2>1, <2>2 DEF Sound, StructInv, NewInv, SlotTypes
  <1>5. EndInv'
    BY <1>1, <1>2, <1>4 DEF EndSound, EndInv
  <1> QED  BY <1>3, <1>5 DEF EndSound

(* Clearing the slot of a thread leaves the status of the others.           *)
LEMMA ClearEndSound ==
    ASSUME Sound, EndSound, NEW i \in Slots, Clear(i),
           UNCHANGED <<ended, got, info>>,
           \A x \in Threads : (pc[x] \in Over => pc'[x] \in Over)
                            /\ (pc'[x] \in Over => pc[x] \in Over)
                            /\ (pc[x] = "over" => pc'[x] = "over")
    PROVE  EndSound'
  <1> USE EndKinds, Nulls
  <1>1. /\ \A x \in Slots : status'[x] = IF x = i THEN NULL ELSE status[x]
        /\ \A x \in Slots : data'[x] = IF x = i THEN NULL ELSE data[x]
    BY DEF Clear, EndSound, EndTypes, Sound, SlotTypes
  <1>2. EndTypes'
    BY DEF Clear, EndSound, EndTypes
  <1>3. ASSUME NEW x \in Threads, ended[x] # NULL, data'[info[x]] = x
        PROVE  status'[info[x]] = ended[x]
    <2>1. pc[x] # "none"
      BY <1>3 DEF EndSound, EndInv, Ending
    <2>2. info[x] \in Slots
      BY <2>1 DEF Sound, SlotTypes, StructInv, NewInv
    <2> QED  BY <2>2, <1>1, <1>3 DEF EndSound, EndInv
  <1>4. EndInv'
    BY <1>3 DEF EndSound, EndInv, Over
  <1> QED  BY <1>2, <1>4 DEF EndSound

LEMMA EndInit == Init => EndSound
  BY ThreadsAssumption, EndKinds DEF Init, EndSound, EndTypes, EndInv, Ending, Slots

LEMMA EndNext == Sound /\ EndSound /\ [Next]_vars => EndSound'
  <1> SUFFICES ASSUME Sound, EndSound, [Next]_vars PROVE EndSound'
    OBVIOUS
  <1> USE EndKinds
  <1>a. SlotTypes /\ TableInv /\ NewInv /\ WorkInv /\ LeaveInv
    BY DEF Sound, StructInv
  <1>1. CASE UNCHANGED vars
    BY <1>1 DEF vars, slots, locals, history, EndSound, EndTypes, EndInv
  <1>2. ASSUME NEW t \in Threads,
               Progress(t) \/ Call(t) \/ \E sig \in Signals : Handle(t, sig)
        PROVE  EndSound'
    <2> USE DEF Go, slots, locals, history, Over, Ending
    <2>a. \A w : pc' = [pc EXCEPT ![t] = w] => \A x \in Threads : pc'[x] = IF x = t THEN w ELSE pc[x]
      BY <1>a DEF SlotTypes
    <2>1. CASE BadOptions(t) \/ SpawnFails(t) \/ Return(t) \/ Start(t)
      BY <2>1, <2>a, EndFrame DEF BadOptions, SpawnFails, Return, Start
    <2>2. CASE \E d \in BOOLEAN, n \in Names \cup {NULL} : Configure(t, d, n)
      BY <2>2, <2>a, EndFrame DEF Configure
    <2>3. CASE Spawn(t)
      <3>1. pc[t] = "spawning" /\ child[t] \in Threads /\ pc[child[t]] = "none"
        BY <2>3, <1>a DEF Spawn, SlotTypes, WorkInv, WorksRight, Creating
      <3>2. \A x \in Threads : pc'[x] = IF x = child[t] THEN "starting"
                                            ELSE IF x = t THEN "naming" ELSE pc[x]
        BY <2>3, <3>1, <1>a DEF Spawn, SlotTypes
      <3>3. \A x \in Threads : (pc[x] \in Over => pc'[x] \in Over)
                            /\ (pc'[x] \in Over => pc[x] \in Over)
                            /\ (pc[x] = "over" => pc'[x] = "over")
        BY <3>1, <3>2
      <3>4. UNCHANGED <<status, ended, got, info, data>>
        BY <2>3 DEF Spawn
      <3> QED  BY <3>3, <3>4, EndFrame
    <2>4. CASE TakeHooks(t) \/ RunHook(t) \/ AtExit(t)
      BY <2>4, EndFrame DEF TakeHooks, RunHook, AtExit
    <2>5. CASE HooksDone(t)
      BY <2>5, <2>a, EndFrame DEF HooksDone
    <2>6. CASE FreeQueues(t)
      BY <2>6, <2>a, EndFrame DEF FreeQueues
    <2>7. CASE Release(t) \/ Leave(t) \/ JoinFrees(t)
      BY <2>7, <2>a, EndFrame DEF Release, Leave, JoinFrees
    <2>8. CASE \E u \in Threads : Join(t, u)
      BY <2>8, <2>a, EndFrame DEF Join
    <2>9. CASE \E u \in Threads : Signal(t, u)
      BY <2>9, EndFrame DEF Signal
    <2>10. CASE Raise(t) \/ TakeSignals(t)
      BY <2>10, <2>a, EndFrame DEF Raise, TakeSignals
    <2>11. CASE \E sig \in Signals : Handle(t, sig)
      BY <2>11, <2>a, EndFrame DEF Handle
    <2>12. CASE StoreSignals(t)
      BY <2>12, <2>a, EndFrame DEF StoreSignals
    <2>13. CASE ExitInHook(t)
      BY <2>13, EndAsSound DEF ExitInHook, Alone, Ends
    <2>14. CASE ThreadExit(t)
      BY <2>14, EndAsSound DEF ThreadExit, Alone, Ends
    <2>15. CASE \E st \in Outcomes : GoalEnds(t, st)
      BY <2>15, EndAsSound DEF GoalEnds, Alone, Ends
    <2>16. CASE Wipe(t)
      <3>1. info[t] \in Slots
        BY <2>16, <1>a DEF Wipe, SlotTypes, NewInv
      <3> QED  BY <2>16, <3>1, <2>a, ClearEndSound DEF Wipe
    <2>17. CASE JoinDone(t)
      <3>1. work[t] \in Slots
        BY <2>17, <1>a DEF JoinDone, SlotTypes, WorkInv, WorksRight, Joining
      <3> QED  BY <2>17, <3>1, <2>a, ClearEndSound DEF JoinDone
    <2>18. CASE JoinReturns(t)
      <3> DEFINE u == child[t]
      <3>1. pc[t] = "joining" /\ pc[tid[work[t]]] = "over"
        BY <2>18 DEF JoinReturns
      <3>2. /\ u \in Threads /\ work[t] = info[u] /\ tid[work[t]] = u /\ u \notin freed
            /\ data[info[u]] = u
        BY <3>1, <1>a DEF WorkInv, WorksRight, Joining, SlotTypes, TableInv
      <3>3. ended[u] # NULL /\ status[work[t]] = ended[u]
        BY <3>1, <3>2 DEF EndSound, EndInv
      <3>4. \A x \in Threads : got'[x] = IF x = u THEN ended[u] ELSE got[x]
        BY <2>18, <3>2, <3>3 DEF JoinReturns, EndSound, EndTypes
      <3>5. EndTypes'
        BY <2>18, <3>3, <3>2 DEF JoinReturns, EndSound, EndTypes
      <3>6. status' = status /\ ended' = ended /\ info' = info /\ data' = data
        BY <2>18 DEF JoinReturns
      <3>7. \A x \in Threads : pc'[x] = IF x = t THEN "dropping" ELSE pc[x]
        BY <2>18, <2>a DEF JoinReturns
      <3>8. EndInv'
        BY <3>1, <3>2, <3>4, <3>6, <3>7 DEF EndSound, EndInv
      <3> QED  BY <3>5, <3>8 DEF EndSound
    <2>19. ASSUME NEW u \in Threads, AllocThread(t, u) PROVE EndSound'
      <3>1. PICK i \in Slots : FirstFree(i) /\ status' = [status EXCEPT ![i] = "running"]
                               /\ info' = [info EXCEPT ![u] = i]
                               /\ data' = [data EXCEPT ![i] = u]
        BY <2>19 DEF AllocThread
      <3>2. /\ \A x \in Slots : status'[x] = IF x = i THEN "running" ELSE status[x]
            /\ \A x \in Threads : info'[x] = IF x = u THEN i ELSE info[x]
            /\ \A x \in Threads : pc'[x] = IF x = t THEN "configuring" ELSE pc[x]
            /\ \A x \in Slots : data'[x] = IF x = i THEN u ELSE data[x]
            /\ ended' = ended /\ got' = got
        BY <2>19, <3>1, <1>a, <2>a DEF AllocThread, SlotTypes, EndSound, EndTypes
      <3>3. pc[t] = "running" /\ pc[u] = "none" /\ ended[u] = NULL
        BY <2>19, <1>a DEF AllocThread, NewInv, EndSound, EndInv
      <3>4. EndTypes'
        BY <3>1, <3>2 DEF EndSound, EndTypes
      <3>5. ASSUME NEW x \in Threads, ended[x] # NULL, data'[info'[x]] = x
            PROVE  status'[info'[x]] = ended[x]
        <4>1. pc[x] # "none" /\ x # u
          BY <3>3, <3>5 DEF EndSound, EndInv
        <4>2. info[x] \in Slots /\ info'[x] = info[x]
          BY <4>1, <3>2, <1>a DEF SlotTypes, NewInv
        <4>3. info[x] # i /\ data[info[x]] = x
          BY <4>1, <4>2, <3>2, <3>5
        <4> QED  BY <4>2, <4>3, <3>2, <3>5 DEF EndSound, EndInv
      <3>6. EndInv'
        BY <3>2, <3>3, <3>5 DEF EndSound, EndInv
      <3> QED  BY <3>4, <3>6 DEF EndSound
    <2> QED
      BY <1>2, <2>1, <2>2, <2>3, <2>4, <2>5, <2>6, <2>7, <2>8, <2>9, <2>10, <2>11, <2>12, <2>13,
         <2>14, <2>15, <2>16, <2>17, <2>18, <2>19 DEF Progress, Call
  <1> QED  BY <1>1, <1>2 DEF Next

LEMMA EndSoundness == Spec => []EndSound
  <1>1. Init => EndSound
    BY EndInit
  <1>2. Sound /\ EndSound /\ [Next]_vars => EndSound'
    BY EndNext
  <1> QED  BY <1>1, <1>2, Soundness, PTL DEF Spec

(* thread_join/2 returns how the thread ended, and the status of a thread   *)
(* is right while its exit hooks run.                                       *)
THEOREM StatusHolds == Spec => []StatusReturned
  <1>1. Sound /\ EndSound => StatusReturned
    BY DEF Sound, StructInv, TableInv, LeaveInv, EndSound, EndInv, StatusReturned, Alive
  <1> QED  BY <1>1, Soundness, EndSoundness, PTL

-----------------------------------------------------------------------------
(* Exit hooks and signals *)

HookTypes ==
    /\ exit_goals \in [Threads -> Seq(Nat)] /\ eg \in [Threads -> Seq(Nat)]
    /\ born \in [Threads -> Seq(Nat)] /\ ran \in [Threads -> Seq(Nat)]
    /\ dropped \in [Threads -> SUBSET Nat] /\ round \in [Threads -> Nat]

SignalTypes ==
    /\ pending \in [Threads -> SUBSET Signals] /\ word \in [Threads -> SUBSET Signals]
    /\ sigs \in [Threads -> Nat] /\ sent \in [Threads -> Nat]
    /\ lost \in [Threads -> BOOLEAN]

LEMMA RegisterTypes ==
    ASSUME HookTypes, NEW t \in Threads, Register(t)
    PROVE  exit_goals' \in [Threads -> Seq(Nat)] /\ born' \in [Threads -> Seq(Nat)]
  <1>1. exit_goals[t] \in Seq(Nat) /\ born[t] \in Seq(Nat) /\ round[t] \in Nat
    BY DEF HookTypes
  <1>2. Len(born[t]) + 1 \in Nat
    BY <1>1
  <1>3. <<Len(born[t]) + 1>> \in Seq(Nat)
    BY <1>2
  <1>4. /\ <<Len(born[t]) + 1>> \o exit_goals[t] \in Seq(Nat)
        /\ Append(born[t], round[t]) \in Seq(Nat)
    BY <1>1, <1>3
  <1> QED  BY <1>4 DEF Register, HookTypes

LEMMA HeadTail ==
    ASSUME NEW s \in Seq(Nat), s # <<>>
    PROVE  Head(s) \in Nat /\ Tail(s) \in Seq(Nat) /\ ToSet(Tail(s)) \subseteq Nat
  <1>1. Head(s) \in Nat /\ Tail(s) \in Seq(Nat)
    OBVIOUS
  <1> QED  BY <1>1 DEF ToSet

LEMMA HookTypesNext == HookTypes /\ [Next]_vars => HookTypes'
  <1> SUFFICES ASSUME HookTypes, [Next]_vars PROVE HookTypes'
    OBVIOUS
  <1>1. CASE UNCHANGED vars
    BY <1>1 DEF vars, hooks, HookTypes
  <1>2. ASSUME NEW t \in Threads,
               Progress(t) \/ Call(t) \/ \E sig \in Signals : Handle(t, sig)
        PROVE  HookTypes'
    <2>1. CASE UNCHANGED hooks
      BY <2>1 DEF hooks, HookTypes
    <2>2. CASE AtExit(t)
      BY <2>2, RegisterTypes DEF AtExit, HookTypes
    <2>3. CASE TakeHooks(t)
      BY <2>3 DEF TakeHooks, HookTypes
    <2>4. CASE RunHook(t)
      <3>1. Head(eg[t]) \in Nat /\ Tail(eg[t]) \in Seq(Nat)
        BY <2>4, HeadTail DEF RunHook, HookTypes
      <3>2. ran' \in [Threads -> Seq(Nat)] /\ eg' \in [Threads -> Seq(Nat)]
        BY <2>4, <3>1 DEF RunHook, HookTypes
      <3>3. exit_goals' \in [Threads -> Seq(Nat)] /\ born' \in [Threads -> Seq(Nat)]
        BY <2>4, RegisterTypes DEF RunHook, HookTypes
      <3> QED  BY <2>4, <3>2, <3>3 DEF RunHook, HookTypes
    <2>5. CASE ExitInHook(t)
      <3>1. Head(eg[t]) \in Nat /\ ToSet(Tail(eg[t])) \subseteq Nat
        BY <2>5, HeadTail DEF ExitInHook, HookTypes
      <3> QED  BY <2>5, <3>1 DEF ExitInHook, HookTypes
    <2>6. CASE FreeQueues(t)
      BY <2>6 DEF FreeQueues, HookTypes
    <2> QED
      BY <1>2, <2>1, <2>2, <2>3, <2>4, <2>5, <2>6
         DEF Progress, Call, BadOptions, Spawn, SpawnFails, Return, Start, Configure, HooksDone,
             Release, Leave, Wipe, JoinReturns, JoinFrees, JoinDone,
             StoreSignals, TakeSignals, AllocThread, Join,
             Signal, ThreadExit, Raise, GoalEnds, Handle
  <1> QED  BY <1>1, <1>2 DEF Next

LEMMA SignalTypesNext == SignalTypes /\ [Next]_vars => SignalTypes'
  <1> SUFFICES ASSUME SignalTypes, [Next]_vars PROVE SignalTypes'
    OBVIOUS
  <1> USE DEF Signals
  <1>1. CASE UNCHANGED vars
    BY <1>1 DEF vars, signals, SignalTypes
  <1>2. ASSUME NEW t \in Threads,
               Progress(t) \/ Call(t) \/ \E sig \in Signals : Handle(t, sig)
        PROVE  SignalTypes'
    <2>1. CASE UNCHANGED signals
      BY <2>1 DEF signals, SignalTypes
    <2>2. CASE FreeQueues(t)
      BY <2>2 DEF FreeQueues, SignalTypes
    <2>3. CASE StoreSignals(t)
      <3>1. /\ pending' \in [Threads -> SUBSET Signals]
            /\ word' \in [Threads -> SUBSET Signals]
        BY <2>3 DEF StoreSignals, SignalTypes
      <3>2. lost' \in [Threads -> BOOLEAN]
        <4> DEFINE wiped == lost[t] \/ (pc[t] # "clearing" /\ "thread" \in pending[t] \ word[t])
        <4>1. wiped \in BOOLEAN
          BY DEF SignalTypes
        <4>2. lost' = [lost EXCEPT ![t] = wiped]
          BY <2>3 DEF StoreSignals
        <4> QED  BY <4>1, <4>2 DEF SignalTypes
      <3> QED  BY <2>3, <3>1, <3>2 DEF StoreSignals, SignalTypes
    <2>4. CASE TakeSignals(t)
      BY <2>4 DEF TakeSignals, SignalTypes
    <2>5. CASE Raise(t)
      BY <2>5 DEF Raise, SignalTypes
    <2>6. CASE \E sig \in Signals : Handle(t, sig)
      BY <2>6 DEF Handle, SignalTypes
    <2>7. CASE \E u \in Threads : Signal(t, u)
      BY <2>7 DEF Signal, SignalTypes
    <2> QED
      BY <1>2, <2>1, <2>2, <2>3, <2>4, <2>5, <2>6, <2>7
         DEF Progress, Call, BadOptions, Spawn, SpawnFails, Return, Start, Configure, HooksDone,
             Release, Leave, Wipe, JoinReturns, JoinFrees, JoinDone,
             AllocThread, Join, ThreadExit, GoalEnds,
             AtExit, TakeHooks, RunHook, ExitInHook
  <1> QED  BY <1>1, <1>2 DEF Next

LEMMA OwnTypesInit == Init => HookTypes /\ SignalTypes
  BY DEF Init, HookTypes, SignalTypes, Signals

(* All variables of the thread table keep their types. *)
THEOREM TypeCorrect == Spec => []TypeOK
  <1>1. Init => HookTypes /\ SignalTypes
    BY OwnTypesInit
  <1>2. HookTypes /\ SignalTypes /\ [Next]_vars => (HookTypes /\ SignalTypes)'
    BY HookTypesNext, SignalTypesNext
  <1>3. Sound /\ EndSound /\ HookTypes /\ SignalTypes => TypeOK
    BY DEF Sound, SlotTypes, EndSound, EndTypes, HookTypes, SignalTypes, TypeOK
  <1> QED  BY <1>1, <1>2, <1>3, Soundness, EndSoundness, PTL DEF Spec

LEMMA QueueNext == Sound /\ SignalTypes /\ QueueInv /\ [Next]_vars => QueueInv'
  <1> SUFFICES ASSUME Sound, SignalTypes, QueueInv, [Next]_vars PROVE QueueInv'
    OBVIOUS
  <1> USE DEF QueueInv, QueuedIsPending, Alive
  <1>a. SlotTypes /\ TableInv /\ NewInv /\ WorkInv
    BY DEF Sound, StructInv
  <1>1. CASE UNCHANGED vars
    BY <1>1 DEF vars, signals
  <1>2. ASSUME NEW t \in Threads,
               Progress(t) \/ Call(t) \/ \E sig \in Signals : Handle(t, sig)
        PROVE  QueueInv'
    <2> USE DEF Go
    <2>a. \A w : pc' = [pc EXCEPT ![t] = w] => \A x \in Threads : pc'[x] = IF x = t THEN w ELSE pc[x]
      BY <1>a DEF SlotTypes
    (* Steps that leave the signals alone. *)
    <2>1. ASSUME UNCHANGED signals, NEW w, pc' = [pc EXCEPT ![t] = w], pc[t] # "taking",
                 pc[t] = "over" => w = "over", pc[t] # "none", w # "none"
          PROVE  QueueInv'
      <3>1. \A x \in Threads : pc'[x] = IF x = t THEN w ELSE pc[x]
        BY <2>1, <2>a
      <3>2. sigs' = sigs /\ pending' = pending /\ lost' = lost
        BY <2>1 DEF signals
      <3> QED  BY <2>1, <3>1, <3>2
    <2>2. CASE \/ BadOptions(t) \/ SpawnFails(t) \/ Return(t) \/ Start(t) \/ HooksDone(t)
               \/ Release(t) \/ Leave(t) \/ Wipe(t) \/ JoinReturns(t) \/ JoinFrees(t)
               \/ JoinDone(t) \/ ThreadExit(t) \/ ExitInHook(t)
      BY <2>2, <2>1 DEF BadOptions, SpawnFails, Return, Start, HooksDone, Release, Leave,
                        Wipe, JoinReturns, JoinFrees, JoinDone, ThreadExit, ExitInHook
    <2>3. CASE (\E d \in BOOLEAN, n \in Names \cup {NULL} : Configure(t, d, n))
               \/ (\E u \in Threads : AllocThread(t, u) \/ Join(t, u))
               \/ (\E st \in Outcomes : GoalEnds(t, st))
      BY <2>3, <2>1 DEF Configure, AllocThread, Join, GoalEnds
    <2>4. CASE TakeHooks(t) \/ RunHook(t) \/ AtExit(t)
      BY <2>4 DEF TakeHooks, RunHook, AtExit, signals
    <2>5. CASE Spawn(t)
      <3>1. pc[t] = "spawning" /\ child[t] \in Threads /\ pc[child[t]] = "none"
        BY <2>5, <1>a DEF Spawn, SlotTypes, WorkInv, WorksRight, Creating
      <3>2. \A x \in Threads : pc'[x] = IF x = child[t] THEN "starting"
                                            ELSE IF x = t THEN "naming" ELSE pc[x]
        BY <2>5, <3>1, <1>a DEF Spawn, SlotTypes
      <3>3. sigs' = sigs /\ pending' = pending /\ lost' = lost
        BY <2>5 DEF Spawn, signals
      <3> QED  BY <3>1, <3>2, <3>3
    <2>6. CASE FreeQueues(t)
      BY <2>6, <2>a DEF FreeQueues, SignalTypes
    <2>7. CASE TakeSignals(t)
      BY <2>7, <2>a DEF TakeSignals, SignalTypes
    <2>8. CASE Raise(t) \/ \E sig \in Signals : Handle(t, sig)
      BY <2>8, <2>a DEF Raise, Handle
    <2>9. CASE StoreSignals(t)
      <3>1. sigs' = sigs /\ pc[t] \in {"raising", "resetting", "clearing"}
        BY <2>9 DEF StoreSignals
      <3>2. \A x \in Threads : pc'[x] = IF x # t THEN pc[x]
                                        ELSE IF pc[t] = "clearing" THEN "taking" ELSE "running"
        BY <2>9, <1>a DEF StoreSignals, SlotTypes
      <3>3. /\ \A x \in Threads : pending'[x] = IF x = t THEN word[t] ELSE pending[x]
            /\ \A x \in Threads : x # t => lost'[x] = lost[x]
        BY <2>9 DEF StoreSignals, SignalTypes
      <3>4. lost[t] \/ (pc[t] # "clearing" /\ "thread" \in pending[t] \ word[t]) => lost'[t]
        BY <2>9 DEF StoreSignals, SignalTypes
      <3> QED  BY <3>1, <3>2, <3>3, <3>4
    <2>10. ASSUME NEW u \in Threads, Signal(t, u) PROVE QueueInv'
      <3>1. /\ pc' = pc /\ lost' = lost /\ pc[u] # "none"
            /\ \A x \in Threads : x # u => sigs'[x] = sigs[x] /\ pending'[x] = pending[x]
            /\ "thread" \in pending'[u]
        BY <2>10 DEF Signal, MayName, SignalTypes
      <3> QED  BY <3>1
    <2> QED
      BY <1>2, <2>2, <2>3, <2>4, <2>5, <2>6, <2>7, <2>8, <2>9, <2>10 DEF Progress, Call
  <1> QED  BY <1>1, <1>2 DEF Next

(* A goal that was signalled is announced, unless the announcement was      *)
(* wiped out by a store to pending_signals.                                 *)
THEOREM QueuedHolds == Spec => []QueuedIsPending
  <1>1. Init => SignalTypes /\ QueueInv
    BY OwnTypesInit DEF Init, QueueInv, QueuedIsPending
  <1>2. SignalTypes /\ [Next]_vars => SignalTypes'
    BY SignalTypesNext
  <1>3. Sound /\ SignalTypes /\ QueueInv /\ [Next]_vars => QueueInv'
    BY QueueNext
  <1>4. QueueInv => QueuedIsPending
    BY DEF QueueInv
  <1> QED  BY <1>1, <1>2, <1>3, <1>4, Soundness, PTL DEF Spec

-----------------------------------------------------------------------------
(* The order of exit hooks.  The operators below are about one thread: b is *)
(* its born, r what it ran, e its eg, x its exit_goals, d what was dropped, *)
(* and n the round.                                                         *)

(* Hook h comes before hook k. *)
Before(b, h, k) == b[h] < b[k] \/ (b[h] = b[k] /\ h > k)

LatestFirst(s) == \A i, j \in DOMAIN s : i < j => s[i] > s[j]

(* Each hook that was registered is in one place: run, about to be run in   *)
(* this round, waiting for the next round, or dropped.  Hooks of the round   *)
(* come behind all that were run, in the order of the stack.                *)
HooksSound(b, r, e, x, d, n) ==
    /\ \A i \in DOMAIN r : r[i] \in DOMAIN b /\ b[r[i]] < n
    /\ \A i \in DOMAIN e : e[i] \in DOMAIN b /\ b[e[i]] = n - 1
    /\ \A i \in DOMAIN x : x[i] \in DOMAIN b /\ b[x[i]] = n
    /\ \A h \in d : h \in DOMAIN b /\ b[h] < n
    /\ \A h \in DOMAIN b :
          h \in d \/ (\E i \in DOMAIN r : r[i] = h) \/ (\E i \in DOMAIN e : e[i] = h)
                  \/ (\E i \in DOMAIN x : x[i] = h)
    /\ \A i \in DOMAIN r : r[i] \notin d
    /\ \A i \in DOMAIN e : e[i] \notin d
    /\ LatestFirst(e) /\ LatestFirst(x)
    /\ \A i, j \in DOMAIN r : i < j => Before(b, r[i], r[j])
    /\ \A i \in DOMAIN r, j \in DOMAIN e : Before(b, r[i], e[j])

(* No hook is dropped unless a hook that start_thread() ran called          *)
(* thread_exit/1, and none is left when the queues are freed.               *)
HookInv ==
    \A t \in Threads :
        /\ HooksSound(born[t], ran[t], eg[t], exit_goals[t], dropped[t], round[t])
        /\ dropped[t] # {} => pc[t] \in {"destructor", "freeing"}
        /\ pc[t] = "freeing" => eg[t] = <<>> /\ exit_goals[t] = <<>>

(* What a registration, a round and a hook do to the sequences.             *)
LEMMA Appended ==
    ASSUME NEW s \in Seq(Nat), NEW v \in Nat
    PROVE  /\ DOMAIN Append(s, v) = 1 .. Len(s) + 1 /\ DOMAIN s = 1 .. Len(s)
           /\ Len(s) \in Nat
           /\ \A i \in DOMAIN s : Append(s, v)[i] = s[i] /\ s[i] \in Nat
           /\ Append(s, v)[Len(s) + 1] = v
  OBVIOUS

LEMMA Prepended ==
    ASSUME NEW s \in Seq(Nat), NEW v \in Nat
    PROVE  /\ DOMAIN (<<v>> \o s) = 1 .. Len(s) + 1 /\ DOMAIN s = 1 .. Len(s)
           /\ Len(s) \in Nat
           /\ (<<v>> \o s)[1] = v
           /\ \A i \in DOMAIN s : (<<v>> \o s)[i + 1] = s[i] /\ s[i] \in Nat
           /\ \A i \in 2 .. Len(s) + 1 : (<<v>> \o s)[i] = s[i - 1] /\ i - 1 \in DOMAIN s
  OBVIOUS

LEMMA Shortened ==
    ASSUME NEW s \in Seq(Nat), s # <<>>
    PROVE  /\ DOMAIN Tail(s) = 1 .. Len(s) - 1 /\ DOMAIN s = 1 .. Len(s)
           /\ Len(s) \in Nat \ {0} /\ Head(s) = s[1]
           /\ \A i \in DOMAIN Tail(s) : Tail(s)[i] = s[i + 1] /\ i + 1 \in DOMAIN s
           /\ \A i \in DOMAIN s : s[i] \in Nat
           /\ \A i \in DOMAIN s : i # 1 => i - 1 \in DOMAIN Tail(s) /\ Tail(s)[i - 1] = s[i]
  OBVIOUS

LEMMA RegisteredSound ==
    ASSUME NEW b \in Seq(Nat), NEW r \in Seq(Nat), NEW e \in Seq(Nat), NEW x \in Seq(Nat),
           NEW d \in SUBSET Nat, NEW n \in Nat, HooksSound(b, r, e, x, d, n)
    PROVE  HooksSound(Append(b, n), r, e, <<Len(b) + 1>> \o x, d, n)
  <1> DEFINE k == Len(b) + 1
             b1 == Append(b, n)
             x1 == <<k>> \o x
  <1>1. /\ k \in DOMAIN b1 /\ \A i \in DOMAIN b1 : i \in DOMAIN b \/ i = k
        /\ k \in Nat /\ b1[k] = n /\ \A i \in DOMAIN b : i \in Nat /\ i < k
        /\ \A i \in DOMAIN b : b1[i] = b[i] /\ b[i] \in Nat /\ i # k /\ i \in DOMAIN b1
    BY Appended
  <1>2. /\ x1[1] = k /\ 1 \in DOMAIN x1
        /\ \A i \in DOMAIN x : x1[i + 1] = x[i] /\ x[i] \in Nat /\ i + 1 \in DOMAIN x1
        /\ \A i \in DOMAIN x1 : i # 1 => x1[i] = x[i - 1] /\ i - 1 \in DOMAIN x
        /\ \A i \in DOMAIN x1 : i \in Nat /\ i >= 1
    <2>1. k \in Nat
      OBVIOUS
    <2> HIDE DEF k
    <2> QED  BY <2>1, Prepended
  <1>3. DOMAIN r \subseteq Nat /\ DOMAIN e \subseteq Nat
    OBVIOUS
  <1> HIDE DEF k, b1, x1
  <1>4. /\ \A i \in DOMAIN r : r[i] \in DOMAIN b1 /\ b1[r[i]] < n
        /\ \A i \in DOMAIN e : e[i] \in DOMAIN b1 /\ b1[e[i]] = n - 1
        /\ \A h \in d : h \in DOMAIN b1 /\ b1[h] < n
    BY <1>1 DEF HooksSound
  <1>5. \A i \in DOMAIN x1 : x1[i] \in DOMAIN b1 /\ b1[x1[i]] = n
    <2>1. \A i \in DOMAIN x : x[i] \in DOMAIN b /\ b[x[i]] = n
      BY DEF HooksSound
    <2> SUFFICES ASSUME NEW i \in DOMAIN x1 PROVE x1[i] \in DOMAIN b1 /\ b1[x1[i]] = n
      OBVIOUS
    <2>2. CASE i = 1
      BY <2>2, <1>1, <1>2
    <2>3. CASE i # 1
      BY <2>1, <2>3, <1>1, <1>2
    <2> QED  BY <2>2, <2>3
  <1>6. \A h \in DOMAIN b1 :
          h \in d \/ (\E i \in DOMAIN r : r[i] = h) \/ (\E i \in DOMAIN e : e[i] = h)
                  \/ (\E i \in DOMAIN x1 : x1[i] = h)
    <2>1. \A h \in DOMAIN b :
             h \in d \/ (\E i \in DOMAIN r : r[i] = h) \/ (\E i \in DOMAIN e : e[i] = h)
                     \/ (\E i \in DOMAIN x : x[i] = h)
      BY DEF HooksSound
    <2>2. \A h : (\E i \in DOMAIN x : x[i] = h) => (\E i \in DOMAIN x1 : x1[i] = h)
      BY <1>2
    <2>3. \E i \in DOMAIN x1 : x1[i] = k
      BY <1>2
    <2> QED  BY <2>1, <2>2, <2>3, <1>1
  <1>7. LatestFirst(x1)
    <2> SUFFICES ASSUME NEW i \in DOMAIN x1, NEW j \in DOMAIN x1, i < j PROVE x1[i] > x1[j]
      BY DEF LatestFirst
    <2>1. j # 1 /\ x1[j] = x[j - 1] /\ j - 1 \in DOMAIN x
      BY <1>2
    <2>2. CASE i = 1
      BY <2>1, <2>2, <1>1, <1>2 DEF HooksSound
    <2>3. CASE i # 1
      <3>1. x1[i] = x[i - 1] /\ i - 1 \in DOMAIN x /\ i - 1 < j - 1
        BY <2>3, <1>2
      <3> QED  BY <2>1, <3>1 DEF HooksSound, LatestFirst
    <2> QED  BY <2>2, <2>3
  <1>8. \A h, l \in DOMAIN b : Before(b, h, l) => Before(b1, h, l)
    BY <1>1 DEF Before
  <1>9. /\ \A i, j \in DOMAIN r : i < j => Before(b1, r[i], r[j])
        /\ \A i \in DOMAIN r, j \in DOMAIN e : Before(b1, r[i], e[j])
    BY <1>8 DEF HooksSound
  <1> QED
    <2>1. HooksSound(b1, r, e, x1, d, n)
      BY <1>4, <1>5, <1>6, <1>7, <1>9 DEF HooksSound
    <2> QED  BY <2>1 DEF b1, x1, k

LEMMA TakenSound ==
    ASSUME NEW b \in Seq(Nat), NEW r \in Seq(Nat), NEW x \in Seq(Nat), NEW d \in SUBSET Nat,
           NEW n \in Nat, HooksSound(b, r, <<>>, x, d, n)
    PROVE  HooksSound(b, r, x, <<>>, d, n + 1)
  <1>1. \A i \in DOMAIN b : b[i] \in Nat
    OBVIOUS
  <1>2. DOMAIN <<>> = {}
    OBVIOUS
  <1>3. \A i \in DOMAIN r, j \in DOMAIN x : Before(b, r[i], x[j])
    BY <1>1 DEF HooksSound, Before
  <1>4. \A i \in DOMAIN x : x[i] \notin d
    BY DEF HooksSound
  <1> QED  BY <1>1, <1>2, <1>3, <1>4 DEF HooksSound, LatestFirst

LEMMA RunSound ==
    ASSUME NEW b \in Seq(Nat), NEW r \in Seq(Nat), NEW e \in Seq(Nat), NEW x \in Seq(Nat),
           NEW d \in SUBSET Nat, NEW n \in Nat, HooksSound(b, r, e, x, d, n), e # <<>>
    PROVE  HooksSound(b, Append(r, Head(e)), Tail(e), x, d, n)
  <1> DEFINE r1 == Append(r, Head(e))
             e1 == Tail(e)
             m == Len(r) + 1
  <1>1. /\ DOMAIN e1 \subseteq Nat /\ 1 \in DOMAIN e /\ e[1] \in Nat /\ Head(e) = e[1]
        /\ \A i \in DOMAIN e1 : e1[i] = e[i + 1] /\ i + 1 \in DOMAIN e /\ 1 < i + 1
        /\ \A i \in DOMAIN e : i # 1 => i - 1 \in DOMAIN e1 /\ e1[i - 1] = e[i]
        /\ \A i \in DOMAIN e : e[i] \in Nat
    BY Shortened
  <1>2. /\ m \in DOMAIN r1 /\ r1[m] = e[1] /\ DOMAIN r1 \subseteq Nat /\ m \in Nat
        /\ \A i \in DOMAIN r : r1[i] = r[i] /\ i \in DOMAIN r1 /\ i < m
        /\ \A i \in DOMAIN r1 : i \in DOMAIN r \/ i = m
    BY <1>1, Appended
  <1>3. \A i \in DOMAIN b : b[i] \in Nat
    OBVIOUS
  <1> HIDE DEF r1, e1, m
  <1>4. /\ \A i \in DOMAIN r1 : r1[i] \in DOMAIN b /\ b[r1[i]] < n
        /\ \A i \in DOMAIN e1 : e1[i] \in DOMAIN b /\ b[e1[i]] = n - 1
        /\ \A i \in DOMAIN r1 : r1[i] \notin d
        /\ \A i \in DOMAIN e1 : e1[i] \notin d
    <2>1. e[1] \in DOMAIN b /\ b[e[1]] = n - 1 /\ b[e[1]] < n /\ e[1] \notin d
      BY <1>1, <1>3 DEF HooksSound
    <2>2. \A i \in DOMAIN r : r[i] \in DOMAIN b /\ b[r[i]] < n /\ r[i] \notin d
      BY DEF HooksSound
    <2>3. \A i \in DOMAIN e : e[i] \in DOMAIN b /\ b[e[i]] = n - 1 /\ e[i] \notin d
      BY DEF HooksSound
    <2>4. \A i \in DOMAIN r1 : r1[i] \in DOMAIN b /\ b[r1[i]] < n /\ r1[i] \notin d
      BY <2>1, <2>2, <1>2
    <2> QED  BY <2>3, <2>4, <1>1
  <1>5. \A h \in DOMAIN b :
          h \in d \/ (\E i \in DOMAIN r1 : r1[i] = h) \/ (\E i \in DOMAIN e1 : e1[i] = h)
                  \/ (\E i \in DOMAIN x : x[i] = h)
    <2>1. \A h : (\E i \in DOMAIN r : r[i] = h) => \E i \in DOMAIN r1 : r1[i] = h
      BY <1>2
    <2>2. \A h : (\E i \in DOMAIN e : e[i] = h)
                    => (\E i \in DOMAIN e1 : e1[i] = h) \/ (\E i \in DOMAIN r1 : r1[i] = h)
      BY <1>1, <1>2
    <2> QED  BY <2>1, <2>2 DEF HooksSound
  <1>6. LatestFirst(e1)
    BY <1>1 DEF HooksSound, LatestFirst
  <1>7. \A i, j \in DOMAIN r1 : i < j => Before(b, r1[i], r1[j])
    <2> SUFFICES ASSUME NEW i \in DOMAIN r1, NEW j \in DOMAIN r1, i < j
                 PROVE  Before(b, r1[i], r1[j])
      OBVIOUS
    <2>1. i \in DOMAIN r /\ r1[i] = r[i]
      BY <1>2
    <2>2. CASE j \in DOMAIN r
      BY <2>1, <2>2, <1>2 DEF HooksSound
    <2>3. CASE j = m
      BY <2>1, <2>3, <1>1, <1>2 DEF HooksSound
    <2> QED  BY <2>2, <2>3, <1>2
  <1>8. \A i \in DOMAIN r1, j \in DOMAIN e1 : Before(b, r1[i], e1[j])
    <2> SUFFICES ASSUME NEW i \in DOMAIN r1, NEW j \in DOMAIN e1 PROVE Before(b, r1[i], e1[j])
      OBVIOUS
    <2>1. CASE i \in DOMAIN r
      BY <2>1, <1>1, <1>2 DEF HooksSound
    <2>2. CASE i = m
      BY <2>2, <1>1, <1>2, <1>3 DEF HooksSound, LatestFirst, Before
    <2> QED  BY <2>1, <2>2, <1>2
  <1> QED
    <2>1. HooksSound(b, r1, e1, x, d, n)
      BY <1>4, <1>5, <1>6, <1>7, <1>8 DEF HooksSound
    <2> QED  BY <2>1 DEF r1, e1

(* thread_exit/1 in a hook: those that were left of the round are dropped.  *)
LEMMA DroppedSound ==
    ASSUME NEW b \in Seq(Nat), NEW r \in Seq(Nat), NEW e \in Seq(Nat), NEW x \in Seq(Nat),
           NEW n \in Nat, HooksSound(b, r, e, x, {}, n)
    PROVE  HooksSound(b, r, <<>>, x, ToSet(e), n)
  <1>1. \A i \in DOMAIN b : b[i] \in Nat
    OBVIOUS
  <1>2. \A h : h \in ToSet(e) <=> \E i \in DOMAIN e : e[i] = h
    BY DEF ToSet
  <1>3. DOMAIN <<>> = {}
    OBVIOUS
  <1>4. \A i \in DOMAIN r : r[i] \notin ToSet(e)
    <2> SUFFICES ASSUME NEW i \in DOMAIN r, NEW j \in DOMAIN e, e[j] = r[i] PROVE FALSE
      BY <1>2
    <2>1. Before(b, r[i], r[i]) /\ b[r[i]] \in Nat /\ r[i] \in Nat
      BY <1>1 DEF HooksSound
    <2> QED  BY <2>1 DEF Before
  <1>5. \A h \in ToSet(e) : h \in DOMAIN b /\ b[h] < n
    BY <1>1, <1>2 DEF HooksSound
  <1>6. \A h \in DOMAIN b :
          h \in ToSet(e) \/ (\E i \in DOMAIN r : r[i] = h) \/ (\E i \in DOMAIN x : x[i] = h)
    BY <1>2 DEF HooksSound
  <1>7. /\ \A i \in DOMAIN r : r[i] \in DOMAIN b /\ b[r[i]] < n
        /\ \A i \in DOMAIN x : x[i] \in DOMAIN b /\ b[x[i]] = n
        /\ LatestFirst(x)
        /\ \A i, j \in DOMAIN r : i < j => Before(b, r[i], r[j])
    BY DEF HooksSound
  <1> QED  BY <1>3, <1>4, <1>5, <1>6, <1>7 DEF HooksSound, LatestFirst

LEMMA HookInit == Init => HookInv
  BY DEF Init, HookInv, HooksSound, LatestFirst

LEMMA HookNext == Sound /\ HookTypes /\ HookInv /\ [Next]_vars => HookInv'
  <1> SUFFICES ASSUME Sound, HookTypes, HookInv, [Next]_vars PROVE HookInv'
    OBVIOUS
  <1> USE DEF HookInv
  <1>a. SlotTypes /\ WorkInv
    BY DEF Sound, StructInv
  <1>b. \A t \in Threads :
           /\ born[t] \in Seq(Nat) /\ ran[t] \in Seq(Nat) /\ eg[t] \in Seq(Nat)
           /\ exit_goals[t] \in Seq(Nat) /\ dropped[t] \in SUBSET Nat /\ round[t] \in Nat
    BY DEF HookTypes
  <1>1. CASE UNCHANGED vars
    BY <1>1 DEF vars, hooks
  <1>2. ASSUME NEW t \in Threads,
               Progress(t) \/ Call(t) \/ \E sig \in Signals : Handle(t, sig)
        PROVE  HookInv'
    <2>h. HooksSound(born[t], ran[t], eg[t], exit_goals[t], dropped[t], round[t])
      OBVIOUS
    <2>a. \A w : pc' = [pc EXCEPT ![t] = w] => \A x \in Threads : pc'[x] = IF x = t THEN w ELSE pc[x]
      BY <1>a DEF SlotTypes
    <2> USE DEF Go
    (* Steps that leave the hooks alone. *)
    <2>1. ASSUME UNCHANGED hooks, NEW w, pc' = [pc EXCEPT ![t] = w],
                 pc[t] \notin {"destructor", "freeing"}, w # "freeing"
          PROVE  HookInv'
      <3>1. \A x \in Threads : pc'[x] = IF x = t THEN w ELSE pc[x]
        BY <2>1, <2>a
      <3> QED  BY <2>1, <3>1 DEF hooks
    <2>2. CASE \/ BadOptions(t) \/ SpawnFails(t) \/ Return(t) \/ Start(t)
               \/ Release(t) \/ Leave(t) \/ Wipe(t) \/ JoinReturns(t) \/ JoinFrees(t)
               \/ JoinDone(t) \/ ThreadExit(t) \/ TakeSignals(t) \/ Raise(t)
      BY <2>2, <2>1 DEF BadOptions, SpawnFails, Return, Start, Release, Leave, Wipe,
                        JoinReturns, JoinFrees, JoinDone, ThreadExit, TakeSignals, Raise
    <2>3. CASE (\E d \in BOOLEAN, n \in Names \cup {NULL} : Configure(t, d, n))
               \/ (\E u \in Threads : AllocThread(t, u) \/ Join(t, u))
               \/ (\E st \in Outcomes : GoalEnds(t, st))
      BY <2>3, <2>1 DEF Configure, AllocThread, Join, GoalEnds
    <2>4. CASE StoreSignals(t) \/ \E sig \in Signals : Handle(t, sig)
      <3>1. CASE StoreSignals(t)
        BY <3>1, <2>1 DEF StoreSignals
      <3>2. ASSUME NEW sig \in Signals, Handle(t, sig) PROVE HookInv'
        BY <3>2, <2>1 DEF Handle
      <3> QED  BY <2>4, <3>1, <3>2
    <2>5. CASE \E u \in Threads : Signal(t, u)
      BY <2>5 DEF Signal, hooks
    <2>6. CASE Spawn(t)
      <3>1. pc[t] = "spawning" /\ child[t] \in Threads /\ pc[child[t]] = "none"
        BY <2>6, <1>a DEF Spawn, SlotTypes, WorkInv, WorksRight, Creating
      <3>2. \A x \in Threads : pc'[x] = IF x = child[t] THEN "starting"
                                        ELSE IF x = t THEN "naming" ELSE pc[x]
        BY <2>6, <3>1, <1>a DEF Spawn, SlotTypes
      <3>3. /\ born' = born /\ ran' = ran /\ eg' = eg /\ exit_goals' = exit_goals
            /\ dropped' = dropped /\ round' = round
        BY <2>6 DEF Spawn, hooks
      <3> QED  BY <3>1, <3>2, <3>3
    (* Steps that change the hooks of t, and of no other thread. *)
    <2> DEFINE Others == \A x \in Threads \ {t} :
                            /\ born'[x] = born[x] /\ ran'[x] = ran[x] /\ eg'[x] = eg[x]
                            /\ exit_goals'[x] = exit_goals[x] /\ dropped'[x] = dropped[x]
                            /\ round'[x] = round[x] /\ pc'[x] = pc[x]
               Mine == /\ HooksSound(born[t], ran[t], eg[t], exit_goals[t], dropped[t], round[t])'
                       /\ dropped'[t] # {} => pc'[t] \in {"destructor", "freeing"}
                       /\ pc'[t] = "freeing" => eg'[t] = <<>> /\ exit_goals'[t] = <<>>
    <2>7. Others /\ Mine => HookInv'
      OBVIOUS
    <2>8. CASE AtExit(t)
      <3>1. /\ born'[t] = Append(born[t], round[t])
            /\ exit_goals'[t] = <<Len(born[t]) + 1>> \o exit_goals[t]
            /\ ran' = ran /\ eg' = eg /\ dropped' = dropped /\ round' = round /\ pc' = pc
            /\ pc[t] = "running"
        BY <2>8 DEF AtExit, Register, HookTypes
      <3>2. Others
        BY <2>8, <3>1 DEF AtExit, Register, HookTypes
      <3>3. HooksSound(Append(born[t], round[t]), ran[t], eg[t],
                       <<Len(born[t]) + 1>> \o exit_goals[t], dropped[t], round[t])
        BY <1>b, <2>h, RegisteredSound
      <3>4. Mine
        BY <3>1, <3>3
      <3> QED  BY <2>7, <3>2, <3>4
    <2>9. CASE TakeHooks(t)
      <3>1. /\ eg[t] = <<>> /\ eg'[t] = exit_goals[t] /\ exit_goals'[t] = <<>>
            /\ round'[t] = round[t] + 1 /\ born' = born /\ ran' = ran /\ dropped' = dropped
            /\ pc' = pc /\ pc[t] # "freeing"
        BY <2>9 DEF TakeHooks, HookTypes
      <3>2. Others
        BY <2>9, <3>1 DEF TakeHooks, HookTypes
      <3>3. Mine
        BY <1>b, <3>1, TakenSound
      <3> QED  BY <2>7, <3>2, <3>3
    <2>10. CASE RunHook(t)
      <3>1. /\ eg[t] # <<>> /\ ran'[t] = Append(ran[t], Head(eg[t])) /\ eg'[t] = Tail(eg[t])
            /\ dropped' = dropped /\ round' = round /\ pc' = pc /\ pc[t] # "freeing"
        BY <2>10 DEF RunHook, HookTypes
      <3>2. HooksSound(born[t], ran'[t], eg'[t], exit_goals[t], dropped[t], round[t])
        BY <1>b, <3>1, RunSound
      <3>3. ran'[t] \in Seq(Nat) /\ eg'[t] \in Seq(Nat)
        BY <1>b, <3>1, HeadTail
      <3>4. CASE Register(t)
        <4>1. /\ born'[t] = Append(born[t], round[t])
              /\ exit_goals'[t] = <<Len(born[t]) + 1>> \o exit_goals[t]
          BY <3>4 DEF Register, HookTypes
        <4>2. Others
          BY <2>10, <3>1, <3>4 DEF RunHook, Register, HookTypes
        <4>3. HooksSound(Append(born[t], round[t]), ran'[t], eg'[t],
                         <<Len(born[t]) + 1>> \o exit_goals[t], dropped[t], round[t])
          BY <1>b, <3>2, <3>3, RegisteredSound
        <4>4. Mine
          BY <3>1, <4>1, <4>3
        <4> QED  BY <2>7, <4>2, <4>4
      <3>5. CASE UNCHANGED <<exit_goals, born>>
        <4>1. Others
          BY <2>10, <3>1, <3>5 DEF RunHook, HookTypes
        <4>2. Mine
          BY <3>1, <3>2, <3>5
        <4> QED  BY <2>7, <4>1, <4>2
      <3> QED  BY <2>10, <3>4, <3>5 DEF RunHook
    <2>11. CASE ExitInHook(t)
      <3>1. /\ pc[t] = "hooks" /\ eg[t] # <<>> /\ ran'[t] = Append(ran[t], Head(eg[t]))
            /\ eg'[t] = <<>> /\ dropped'[t] = ToSet(Tail(eg[t]))
            /\ born' = born /\ exit_goals' = exit_goals /\ round' = round
            /\ pc'[t] = "destructor"
        BY <2>11, <1>a DEF ExitInHook, HookTypes, SlotTypes
      <3>2. dropped[t] = {}
        BY <3>1
      <3>3. HooksSound(born[t], ran'[t], Tail(eg[t]), exit_goals[t], dropped[t], round[t])
        <4>1. eg[t] # <<>>
          BY <3>1
        <4>2. HooksSound(born[t], Append(ran[t], Head(eg[t])), Tail(eg[t]), exit_goals[t],
                         dropped[t], round[t])
          BY <1>b, <2>h, <4>1, RunSound
        <4> QED  BY <3>1, <4>2
      <3>4. ran'[t] \in Seq(Nat) /\ Tail(eg[t]) \in Seq(Nat)
        BY <1>b, <3>1, HeadTail
      <3>5. HooksSound(born[t], ran'[t], <<>>, exit_goals[t], ToSet(Tail(eg[t])), round[t])
        BY <1>b, <3>2, <3>3, <3>4, DroppedSound
      <3>6. Others
        BY <2>11, <2>a, <3>1 DEF ExitInHook, HookTypes
      <3>7. Mine
        BY <3>1, <3>5
      <3> QED  BY <2>7, <3>6, <3>7
    <2>12. CASE HooksDone(t)
      <3>1. eg[t] = <<>> /\ exit_goals[t] = <<>> /\ UNCHANGED hooks
        BY <2>12 DEF HooksDone
      <3>2. /\ \/ pc[t] = "hooks" /\ pc'[t] = "destructor"
               \/ pc[t] = "destructor" /\ pc'[t] = "freeing"
            /\ \A x \in Threads \ {t} : pc'[x] = pc[x]
        BY <2>12, <1>a DEF HooksDone, SlotTypes
      <3>3. /\ born' = born /\ ran' = ran /\ eg' = eg /\ exit_goals' = exit_goals
            /\ dropped' = dropped /\ round' = round
        BY <3>1 DEF hooks
      <3> QED  BY <3>1, <3>2, <3>3
    <2>13. CASE FreeQueues(t)
      <3>1. /\ pc[t] = "freeing" /\ pc'[t] \in {"releasing", "over"}
            /\ born'[t] = <<>> /\ ran'[t] = <<>> /\ dropped'[t] = {} /\ round'[t] = 0
            /\ eg' = eg /\ exit_goals' = exit_goals
        BY <2>13, <2>a DEF FreeQueues, HookTypes
      <3>2. Others
        BY <2>13, <2>a, <3>1 DEF FreeQueues, HookTypes
      <3>3. Mine
        BY <3>1 DEF HooksSound, LatestFirst
      <3> QED  BY <2>7, <3>2, <3>3
    <2> QED
      BY <1>2, <2>2, <2>3, <2>4, <2>5, <2>6, <2>8, <2>9, <2>10, <2>11, <2>12, <2>13
         DEF Progress, Call
  <1> QED  BY <1>1, <1>2 DEF Next

LEMMA HookSoundness == Spec => [](HookTypes /\ HookInv)
  <1>1. Init => HookTypes /\ HookInv
    BY OwnTypesInit, HookInit
  <1>2. Sound /\ HookTypes /\ HookInv /\ [Next]_vars => HookTypes' /\ HookInv'
    BY HookTypesNext, HookNext
  <1> QED  BY <1>1, <1>2, Soundness, PTL DEF Spec

(* Hooks run latest first; hooks that were registered by hooks come after   *)
(* all that were registered when the round began (run_thread_exit_hooks()). *)
THEOREM HooksAreInOrder == Spec => []HooksInOrder
  <1>1. HookInv => HooksInOrder
    BY DEF HookInv, HooksSound, Before, HooksInOrder
  <1> QED  BY <1>1, HookSoundness, PTL

(* A hook runs at most once, and each hook that was not dropped by           *)
(* thread_exit/1 has been run when the data of the thread are freed.         *)
THEOREM HooksAreRun == Spec => []HooksRun
  <1>1. HookTypes /\ HookInv => HooksRun
    <2> SUFFICES ASSUME HookTypes, HookInv, NEW t \in Threads
                 PROVE  /\ IsInjective(ran[t])
                        /\ pc[t] = "freeing" => ToSet(ran[t]) = DOMAIN born[t] \ dropped[t]
      BY DEF HooksRun
    <2> DEFINE b == born[t]
               r == ran[t]
    <2>1. /\ b \in Seq(Nat) /\ r \in Seq(Nat)
          /\ HooksSound(b, r, eg[t], exit_goals[t], dropped[t], round[t])
          /\ pc[t] = "freeing" => eg[t] = <<>> /\ exit_goals[t] = <<>>
      BY DEF HookTypes, HookInv
    <2> HIDE DEF b, r
    <2>2. /\ \A i \in DOMAIN r : i \in Nat /\ r[i] \in Nat /\ r[i] \in DOMAIN b /\ r[i] \notin dropped[t]
          /\ \A h \in DOMAIN b : b[h] \in Nat
          /\ \A i, j \in DOMAIN r : i < j => Before(b, r[i], r[j])
      BY <2>1 DEF HooksSound
    <2>3. IsInjective(r)
      <3> SUFFICES ASSUME NEW i \in DOMAIN r, NEW j \in DOMAIN r, r[i] = r[j], i < j PROVE FALSE
        BY <2>2 DEF IsInjective
      <3> QED  BY <2>2 DEF Before
    <2>4. ASSUME pc[t] = "freeing" PROVE ToSet(r) = DOMAIN b \ dropped[t]
      <3>1. \A h \in DOMAIN b : h \in dropped[t] \/ \E i \in DOMAIN r : r[i] = h
        <4>1. HooksSound(b, r, <<>>, <<>>, dropped[t], round[t])
          BY <2>1, <2>4
        <4>2. DOMAIN <<>> = {}
          OBVIOUS
        <4> QED  BY <4>1, <4>2 DEF HooksSound
      <3> QED  BY <2>2, <3>1 DEF ToSet
    <2> QED  BY <2>3, <2>4 DEF b, r
  <1> QED  BY <1>1, HookSoundness, PTL

=============================================================================
