------------------------------ MODULE Threads ------------------------------
(* The life of Prolog threads: the table threads[], creation, the exit hooks *)
(* and the end of a thread, join, alias names, and the queue of goals that   *)
(* thread_signal/2 fills.                                                    *)
(*                                                                           *)
(* A thread stands for its pthread and for its PL_local_data_t.  Programs    *)
(* are assumed to use identifiers as documented: only its creator joins a    *)
(* thread that is not detached, when no other thread names it any more; a    *)
(* detached thread is named by itself only, because it may go at any time.   *)
EXTENDS Integers, Sequences, SequencesExt

CONSTANTS
    Threads,        \* pthreads, numbered as they are created
    Main,           \* the first of them
    MaxThreads,     \* slots 1 .. MaxThreads of threads[]
    Names,          \* alias names
    Outcomes,       \* how goals may end, other than by thread_exit/1
    MaxGoals,       \* bound, per thread: goals of thread_at_exit/1 and
                    \* thread_signal/2 together
    NULL

ASSUME ThreadsAssumption ==
    /\ Threads \subseteq Nat /\ Main \in Threads
    /\ MaxThreads \in Nat \ {0}
    /\ MaxGoals \in [Threads -> Nat]
    /\ NULL \notin Threads \cup Names \cup Nat \cup Outcomes
    /\ {"exited", "running"} \cap Outcomes = {} /\ NULL \notin {"exited", "running"}

Slots  == 1 .. MaxThreads
Ends   == {"exited"} \cup Outcomes
Status == Ends \cup {NULL, "running"}

(* Bits of pending_signals: SIG_THREAD_SIGNAL, and one for all the others.  *)
Signals == {"thread", "other"}

(* Where a thread is.  In pl_thread_create(): "configuring", "spawning" and  *)
(* "naming"; in pl_thread_join(): "joining", and "dropping" and "erasing" in  *)
(* free_thread_info(); in PL_raise(): "raising"; in PL_handle_signals():     *)
(* "resetting", "clearing" and "taking"; at its end: "hooks" in              *)
(* start_thread(), "destructor" and "freeing" in free_prolog_thread(), and   *)
(* "releasing", "leaving" and "wiping" in free_thread_info().                *)
Creating == {"configuring", "spawning", "naming"}
Joining  == {"joining", "dropping", "erasing"}
Handling == {"raising", "resetting", "clearing", "taking"}
Ending   == {"hooks", "destructor", "freeing", "releasing", "leaving", "wiping"}
PCs == {"none", "starting", "running", "over"}
          \cup Creating \cup Joining \cup Handling \cup Ending

VARIABLES
    data, tid, status, detached,    \* fields of threads[i]
    aliases,        \* threadAliases: the slot of each name, or NULL
    info, name,     \* per thread: thread.info and thread.name in its data
    freed,          \* threads whose data were given back to the heap
    pc,
    parent,         \* history: per thread, who created it
    child, work,    \* per thread: whom it creates or joins, and its info
    id,             \* per thread: what thread_create/3 returned for it
    ended, got,     \* history: how it ended, and what thread_join/2 returned
    exit_goals, eg, \* thread_at_exit/1 goals, and those that are being run
    born, ran,      \* history: the round each hook was registered in; hooks run
    dropped,        \* history: hooks dropped by thread_exit/1 in a hook
    round,          \* history: how often hooks were taken from exit_goals
    pending, word,  \* pending_signals, and the value to be stored there next
    sigs,           \* number of goals from sig_head to sig_tail
    sent,           \* number of goals signalled to each thread
    lost            \* history: a store to pending_signals wiped out a new bit

slots   == <<data, tid, status, detached, aliases>>
locals  == <<info, name, freed, parent, child, work, id>>
history == <<ended, got>>
hooks   == <<exit_goals, eg, born, ran, dropped, round>>
signals == <<pending, word, sigs, sent, lost>>
vars    == <<slots, locals, history, hooks, signals, pc>>

-----------------------------------------------------------------------------
Go(t, where) == pc' = [pc EXCEPT ![t] = where]

(* The local variables of an operation are gone when it returns. *)
Forget(t) ==
    /\ child' = [child EXCEPT ![t] = NULL]
    /\ work' = [work EXCEPT ![t] = NULL]

(* The bound on the goals of t.  PL_raise() is of interest while another     *)
(* goal may come. *)
MayTake(t) == Len(born[t]) + sent[t] < MaxGoals[t]

(* alloc_thread() takes the first slot without data. *)
IsFree(i)    == data[i] = NULL
FirstFree(i) == IsFree(i) /\ \A j \in Slots : IsFree(j) => i <= j

Init ==
    /\ data = [i \in Slots |-> IF i = 1 THEN Main ELSE NULL]
    /\ tid = data
    /\ status = [i \in Slots |-> IF i = 1 THEN "running" ELSE NULL]
    /\ detached = [i \in Slots |-> FALSE]
    /\ aliases = [n \in Names |-> NULL]
    /\ info = [t \in Threads |-> IF t = Main THEN 1 ELSE NULL]
    /\ name = [t \in Threads |-> NULL]
    /\ freed = {}
    /\ pc = [t \in Threads |-> IF t = Main THEN "running" ELSE "none"]
    /\ parent = [t \in Threads |-> NULL]
    /\ child = [t \in Threads |-> NULL]
    /\ work = [t \in Threads |-> NULL]
    /\ id = [t \in Threads |-> NULL]
    /\ ended = [t \in Threads |-> NULL]
    /\ got = [t \in Threads |-> NULL]
    /\ exit_goals = [t \in Threads |-> <<>>]
    /\ eg = [t \in Threads |-> <<>>]
    /\ born = [t \in Threads |-> <<>>]
    /\ ran = [t \in Threads |-> <<>>]
    /\ dropped = [t \in Threads |-> {}]
    /\ round = [t \in Threads |-> 0]
    /\ pending = [t \in Threads |-> {}]
    /\ word = [t \in Threads |-> {}]
    /\ sigs = [t \in Threads |-> 0]
    /\ sent = [t \in Threads |-> 0]
    /\ lost = [t \in Threads |-> FALSE]

-----------------------------------------------------------------------------
(* thread_create/3 *)

(* alloc_thread(), for the pthread u that is to be created, the next number. *)
AllocThread(t, u) ==
    /\ pc[t] = "running" /\ info[u] = NULL
    /\ \A v \in Threads : info[v] = NULL => u <= v
    /\ \E i \in Slots :
          /\ FirstFree(i)
          /\ data' = [data EXCEPT ![i] = u]
          /\ status' = [status EXCEPT ![i] = "running"]
          /\ info' = [info EXCEPT ![u] = i]
          /\ work' = [work EXCEPT ![t] = i]
    /\ child' = [child EXCEPT ![t] = u]
    /\ parent' = [parent EXCEPT ![u] = t]
    /\ Go(t, "configuring")
    /\ UNCHANGED <<tid, detached, aliases, name, freed, id, history, hooks, signals>>

(* scan_options() fails: the slot remains taken. *)
BadOptions(t) ==
    /\ pc[t] = "configuring"
    /\ Go(t, "running") /\ Forget(t)
    /\ UNCHANGED <<slots, info, name, freed, parent, id, history, hooks, signals>>

(* The options are stored, and aliasThread() enters a name that is new.  If *)
(* it is in use already the thread is created without a name. *)
Configure(t, d, n) ==
    /\ pc[t] = "configuring"
    /\ detached' = [detached EXCEPT ![work[t]] = d]
    /\ IF n # NULL /\ aliases[n] = NULL
       THEN /\ aliases' = [aliases EXCEPT ![n] = work[t]]
            /\ name' = [name EXCEPT ![child[t]] = n]
       ELSE UNCHANGED <<aliases, name>>
    /\ Go(t, "spawning")
    /\ UNCHANGED <<data, tid, status, info, freed, parent, child, work, id, history, hooks, signals>>

(* pthread_create(), which stores the pthread_t before the thread runs. *)
Spawn(t) ==
    /\ pc[t] = "spawning"
    /\ tid' = [tid EXCEPT ![work[t]] = child[t]]
    /\ pc' = [pc EXCEPT ![t] = "naming", ![child[t]] = "starting"]
    /\ UNCHANGED <<data, status, detached, aliases, locals, history, hooks, signals>>

(* pthread_create() fails: slot and alias remain. *)
SpawnFails(t) ==
    /\ pc[t] = "spawning"
    /\ Go(t, "running") /\ Forget(t)
    /\ UNCHANGED <<slots, info, name, freed, parent, id, history, hooks, signals>>

(* The identifier is read from the slot, which a detached thread may have   *)
(* cleared by now. *)
Return(t) ==
    /\ pc[t] = "naming"
    /\ id' = [id EXCEPT ![child[t]] = IF IsFree(work[t]) THEN 0 ELSE work[t]]
    /\ Go(t, "running") /\ Forget(t)
    /\ UNCHANGED <<slots, info, name, freed, parent, history, hooks, signals>>

-----------------------------------------------------------------------------
(* start_thread() and the end of a thread *)

Start(t) ==
    /\ pc[t] = "starting"
    /\ Go(t, "running")
    /\ UNCHANGED <<slots, locals, history, hooks, signals>>

(* Mutant: thread_exit/1 leaves the status as it is. *)
EndAsOther(t, st) ==
    /\ status' = [status EXCEPT ![info[t]] = IF st = "exited" THEN @ ELSE st]
    /\ ended' = [ended EXCEPT ![t] = st]

EndAs(t, st) ==
    /\ status' = [status EXCEPT ![info[t]] = st]
    /\ ended' = [ended EXCEPT ![t] = st]

GoalEnds(t, st) ==
    /\ pc[t] = "running" /\ t # Main
    /\ EndAs(t, st)
    /\ Go(t, "hooks")
    /\ UNCHANGED <<data, tid, detached, aliases, locals, got, hooks, signals>>

(* thread_exit/1 in the goal of the thread. *)
ThreadExit(t) ==
    /\ pc[t] = "running" /\ t # Main
    /\ EndAs(t, "exited")
    /\ Go(t, "destructor")
    /\ UNCHANGED <<data, tid, detached, aliases, locals, got, hooks, signals>>

(* Mutant: the hook is put behind those that are registered. *)
RegisterBehind(t) ==
    /\ MayTake(t)
    /\ exit_goals' = [exit_goals EXCEPT ![t] = Append(@, Len(born[t]) + 1)]
    /\ born' = [born EXCEPT ![t] = Append(@, round[t])]

(* thread_at_exit/1 pushes a goal; here the number of the registration. *)
Register(t) ==
    /\ MayTake(t)
    /\ exit_goals' = [exit_goals EXCEPT ![t] = <<Len(born[t]) + 1>> \o @]
    /\ born' = [born EXCEPT ![t] = Append(@, round[t])]

AtExit(t) ==
    /\ pc[t] = "running" /\ t # Main
    /\ Register(t)
    /\ UNCHANGED <<slots, locals, history, eg, ran, dropped, round, signals, pc>>

(* run_thread_exit_hooks() takes all goals that are registered. *)
TakeHooks(t) ==
    /\ pc[t] \in {"hooks", "destructor"} /\ eg[t] = <<>> /\ exit_goals[t] # <<>>
    /\ eg' = [eg EXCEPT ![t] = exit_goals[t]]
    /\ exit_goals' = [exit_goals EXCEPT ![t] = <<>>]
    /\ round' = [round EXCEPT ![t] = @ + 1]
    /\ UNCHANGED <<slots, locals, history, born, ran, dropped, signals, pc>>

(* It runs the next of them, which may register another one. *)
RunHook(t) ==
    /\ pc[t] \in {"hooks", "destructor"} /\ eg[t] # <<>>
    /\ ran' = [ran EXCEPT ![t] = Append(@, Head(eg[t]))]
    /\ eg' = [eg EXCEPT ![t] = Tail(@)]
    /\ \/ Register(t)
       \/ UNCHANGED <<exit_goals, born>>
    /\ UNCHANGED <<slots, locals, history, dropped, round, signals, pc>>

(* A hook that start_thread() runs calls thread_exit/1: the rest of the list *)
(* is gone with the stack of start_thread(), and the status is replaced. *)
ExitInHook(t) ==
    /\ pc[t] = "hooks" /\ eg[t] # <<>>
    /\ ran' = [ran EXCEPT ![t] = Append(@, Head(eg[t]))]
    /\ dropped' = [dropped EXCEPT ![t] = ToSet(Tail(eg[t]))]
    /\ eg' = [eg EXCEPT ![t] = <<>>]
    /\ EndAs(t, "exited")
    /\ Go(t, "destructor")
    /\ UNCHANGED <<data, tid, detached, aliases, locals, got, exit_goals, born, round, signals>>

(* Mutant: hooks that hooks registered are not looked for. *)
HooksDoneOnce(t) ==
    /\ pc[t] \in {"hooks", "destructor"} /\ eg[t] = <<>>
    /\ pc[t] = "destructor" \/ exit_goals[t] = <<>>
    /\ Go(t, IF pc[t] = "hooks" THEN "destructor" ELSE "freeing")
    /\ UNCHANGED <<slots, locals, history, hooks, signals>>

HooksDone(t) ==
    /\ pc[t] \in {"hooks", "destructor"} /\ eg[t] = <<>> /\ exit_goals[t] = <<>>
    /\ Go(t, IF pc[t] = "hooks" THEN "destructor" ELSE "freeing")
    /\ UNCHANGED <<slots, locals, history, hooks, signals>>

(* Mutant: every thread frees its info. *)
FreeQueuesAndInfo(t) ==
    /\ pc[t] = "freeing"
    /\ sigs' = [sigs EXCEPT ![t] = 0]
    /\ pending' = [pending EXCEPT ![t] = {}] /\ lost' = [lost EXCEPT ![t] = FALSE]
    /\ born' = [born EXCEPT ![t] = <<>>] /\ ran' = [ran EXCEPT ![t] = <<>>]
    /\ dropped' = [dropped EXCEPT ![t] = {}] /\ round' = [round EXCEPT ![t] = 0]
    /\ sent' = [sent EXCEPT ![t] = 0]
    /\ Go(t, "releasing")
    /\ UNCHANGED <<slots, locals, history, exit_goals, eg, word>>

(* Mutant: a detached thread leaves its info behind. *)
FreeQueuesOnly(t) ==
    /\ pc[t] = "freeing"
    /\ sigs' = [sigs EXCEPT ![t] = 0]
    /\ pending' = [pending EXCEPT ![t] = {}] /\ lost' = [lost EXCEPT ![t] = FALSE]
    /\ born' = [born EXCEPT ![t] = <<>>] /\ ran' = [ran EXCEPT ![t] = <<>>]
    /\ dropped' = [dropped EXCEPT ![t] = {}] /\ round' = [round EXCEPT ![t] = 0]
    /\ sent' = [sent EXCEPT ![t] = 0]
    /\ Go(t, "over")
    /\ UNCHANGED <<slots, locals, history, exit_goals, eg, word>>

(* The end of free_prolog_thread(): freeThreadMessages(), freeThreadSignals, *)
(* and a detached thread goes on to free its info.  The history of a thread, *)
(* and the signals nobody handles any more, are forgotten.                   *)
FreeQueues(t) ==
    /\ pc[t] = "freeing"
    /\ sigs' = [sigs EXCEPT ![t] = 0]
    /\ pending' = [pending EXCEPT ![t] = {}] /\ lost' = [lost EXCEPT ![t] = FALSE]
    /\ born' = [born EXCEPT ![t] = <<>>] /\ ran' = [ran EXCEPT ![t] = <<>>]
    /\ dropped' = [dropped EXCEPT ![t] = {}] /\ round' = [round EXCEPT ![t] = 0]
    /\ sent' = [sent EXCEPT ![t] = 0]
    /\ Go(t, IF detached[info[t]] THEN "releasing" ELSE "over")
    /\ UNCHANGED <<slots, locals, history, exit_goals, eg, word>>

-----------------------------------------------------------------------------
(* Mutant: the alias is left in the table. *)
UnaliasNot(i) == UNCHANGED aliases

(* free_thread_info() of slot i: the alias is removed under L_THREAD, then   *)
(* the data are given back to the heap, and then the slot is cleared, both   *)
(* without a lock: in between the slot refers to data that are no more.      *)
Unalias(i) ==
    aliases' = [n \in Names |-> IF n = name[data[i]] THEN NULL ELSE aliases[n]]

FreeData(i) == freed' = freed \cup {data[i]}

(* Mutant: the slot goes on to refer to the data. *)
ClearNot(i) == UNCHANGED <<data, tid, status, detached>>

Clear(i) ==
    /\ data' = [data EXCEPT ![i] = NULL]
    /\ tid' = [tid EXCEPT ![i] = NULL]
    /\ status' = [status EXCEPT ![i] = NULL]
    /\ detached' = [detached EXCEPT ![i] = FALSE]

Release(t) ==
    /\ pc[t] = "releasing"
    /\ Unalias(info[t])
    /\ Go(t, "leaving")
    /\ UNCHANGED <<data, tid, status, detached, locals, history, hooks, signals>>

Leave(t) ==
    /\ pc[t] = "leaving"
    /\ FreeData(info[t])
    /\ Go(t, "wiping")
    /\ UNCHANGED <<slots, info, name, parent, child, work, id, history, hooks, signals>>

Wipe(t) ==
    /\ pc[t] = "wiping"
    /\ Clear(info[t])
    /\ Go(t, "over")
    /\ UNCHANGED <<aliases, locals, history, hooks, signals>>

(* thread_join/2: the creator joins a thread it has the identifier of.       *)
Joinable(t, u) ==
    parent[u] = t /\ id[u] # NULL /\ u \notin freed /\ ~detached[info[u]]

Join(t, u) ==
    /\ pc[t] = "running" /\ Joinable(t, u)
    /\ tid[id[u]] # NULL
    /\ child' = [child EXCEPT ![t] = u]
    /\ work' = [work EXCEPT ![t] = id[u]]
    /\ Go(t, "joining")
    /\ UNCHANGED <<slots, info, name, freed, parent, id, history, hooks, signals>>

(* Mutant: does not wait for the thread. *)
JoinReturnsEarly(t) ==
    /\ pc[t] = "joining"
    /\ got' = [got EXCEPT ![child[t]] = status[work[t]]]
    /\ Unalias(work[t])
    /\ Go(t, "dropping")
    /\ UNCHANGED <<data, tid, status, detached, locals, ended, hooks, signals>>

(* pthread_join() returns, and the status is read before the slot is freed. *)
JoinReturns(t) ==
    /\ pc[t] = "joining" /\ pc[tid[work[t]]] = "over"
    /\ got' = [got EXCEPT ![child[t]] = status[work[t]]]
    /\ Unalias(work[t])
    /\ Go(t, "dropping")
    /\ UNCHANGED <<data, tid, status, detached, locals, ended, hooks, signals>>

JoinFrees(t) ==
    /\ pc[t] = "dropping"
    /\ FreeData(work[t])
    /\ Go(t, "erasing")
    /\ UNCHANGED <<slots, info, name, parent, child, work, id, history, hooks, signals>>

JoinDone(t) ==
    /\ pc[t] = "erasing"
    /\ Clear(work[t])
    /\ Go(t, "running") /\ Forget(t)
    /\ UNCHANGED <<aliases, info, name, freed, parent, id, history, hooks, signals>>

-----------------------------------------------------------------------------
(* thread_signal/2 and the signals of a thread *)

BeingJoined(u) == \E t \in Threads : pc[t] \in Joining /\ child[t] = u

(* t may name u, and u has not come to the end of its hooks. *)
MayName(t, u) ==
    /\ t = u \/ (id[u] # NULL /\ u \notin freed /\ ~detached[info[u]] /\ ~BeingJoined(u))
    /\ pc[u] \notin {"none", "freeing", "releasing", "leaving", "wiping", "over"}

(* The goal is queued and the bit set under L_THREAD. *)
Signal(t, u) ==
    /\ pc[t] = "running" /\ MayName(t, u) /\ MayTake(u)
    /\ sent' = [sent EXCEPT ![u] = @ + 1]
    /\ sigs' = [sigs EXCEPT ![u] = @ + 1]
    /\ pending' = [pending EXCEPT ![u] = @ \cup {"thread"}]
    /\ UNCHANGED <<slots, locals, history, hooks, word, lost, pc>>

(* The thread itself changes pending_signals without a lock: it loads the   *)
(* word here and stores it in StoreSignals.  PL_raise() sets a bit ...      *)
Raise(t) ==
    /\ pc[t] = "running" /\ MayTake(t)
    /\ word' = [word EXCEPT ![t] = pending[t] \cup {"other"}]
    /\ Go(t, "raising")
    /\ UNCHANGED <<slots, locals, history, hooks, pending, sigs, sent, lost>>

(* ... and PL_handle_signals() resets the bit of the signal it handles. *)
Handle(t, sig) ==
    /\ pc[t] = "running" /\ sig \in pending[t]
    /\ word' = [word EXCEPT ![t] = pending[t] \ {sig}]
    /\ Go(t, IF sig = "thread" THEN "clearing" ELSE "resetting")
    /\ UNCHANGED <<slots, locals, history, hooks, pending, sigs, sent, lost>>

StoreSignals(t) ==
    /\ pc[t] \in {"raising", "resetting", "clearing"}
    /\ pending' = [pending EXCEPT ![t] = word[t]]
    /\ word' = [word EXCEPT ![t] = {}]
    /\ lost' = [lost EXCEPT ![t] =
                  @ \/ (pc[t] # "clearing" /\ "thread" \in pending[t] \ word[t])]
    /\ Go(t, IF pc[t] = "clearing" THEN "taking" ELSE "running")
    /\ UNCHANGED <<slots, locals, history, hooks, sigs, sent>>

(* Mutant: takes the first goal only. *)
TakeSignal(t) ==
    /\ pc[t] = "taking"
    /\ sigs' = [sigs EXCEPT ![t] = IF @ = 0 THEN 0 ELSE @ - 1]
    /\ lost' = [lost EXCEPT ![t] = FALSE]
    /\ Go(t, "running")
    /\ UNCHANGED <<slots, locals, history, hooks, pending, word, sent>>

(* executeThreadSignals() takes all goals under L_THREAD and runs them, or   *)
(* drops those behind one that raises an exception. *)
TakeSignals(t) ==
    /\ pc[t] = "taking"
    /\ sigs' = [sigs EXCEPT ![t] = 0]
    /\ lost' = [lost EXCEPT ![t] = FALSE]
    /\ Go(t, "running")
    /\ UNCHANGED <<slots, locals, history, hooks, pending, word, sent>>

-----------------------------------------------------------------------------
(* What a thread does by itself once it has begun. *)
Progress(t) ==
    \/ BadOptions(t) \/ Spawn(t) \/ SpawnFails(t) \/ Return(t) \/ Start(t)
    \/ \E d \in BOOLEAN, n \in Names \cup {NULL} : Configure(t, d, n)
    \/ TakeHooks(t) \/ RunHook(t) \/ ExitInHook(t) \/ HooksDone(t)
    \/ FreeQueues(t) \/ Release(t) \/ Leave(t) \/ Wipe(t)
    \/ JoinReturns(t) \/ JoinFrees(t) \/ JoinDone(t)
    \/ StoreSignals(t) \/ TakeSignals(t)

(* What its goal does, if and when it does it. *)
Call(t) ==
    \/ \E u \in Threads : AllocThread(t, u) \/ Join(t, u) \/ Signal(t, u)
    \/ AtExit(t) \/ ThreadExit(t) \/ Raise(t)
    \/ \E st \in Outcomes : GoalEnds(t, st)

Next ==
    \E t \in Threads :
        Progress(t) \/ Call(t) \/ \E sig \in Signals : Handle(t, sig)

Spec == Init /\ [][Next]_vars

(* The threads other than the main one that goals may be signalled to *)
Signalled == {t \in Threads \ {Main} : MaxGoals[t] # 0}

(* A thread goes on when it can, except that its goal may run for ever; a    *)
(* goal that does passes the call port, where all signals are handled.       *)
FairSpec ==
    /\ Spec
    /\ \A t \in Threads : WF_vars(Progress(t))
    /\ \A t \in Signalled : SF_vars(Handle(t, "thread"))

-----------------------------------------------------------------------------
(* Properties *)

TypeOK ==
    /\ data \in [Slots -> Threads \cup {NULL}] /\ tid \in [Slots -> Threads \cup {NULL}]
    /\ status \in [Slots -> Status] /\ detached \in [Slots -> BOOLEAN]
    /\ aliases \in [Names -> Slots \cup {NULL}]
    /\ info \in [Threads -> Slots \cup {NULL}] /\ name \in [Threads -> Names \cup {NULL}]
    /\ freed \in SUBSET Threads /\ pc \in [Threads -> PCs]
    /\ parent \in [Threads -> Threads \cup {NULL}]
    /\ child \in [Threads -> Threads \cup {NULL}] /\ work \in [Threads -> Slots \cup {NULL}]
    /\ id \in [Threads -> Slots \cup {0, NULL}]
    /\ ended \in [Threads -> Ends \cup {NULL}] /\ got \in [Threads -> Ends \cup {NULL}]
    /\ exit_goals \in [Threads -> Seq(Nat)] /\ eg \in [Threads -> Seq(Nat)]
    /\ born \in [Threads -> Seq(Nat)] /\ ran \in [Threads -> Seq(Nat)]
    /\ dropped \in [Threads -> SUBSET Nat] /\ round \in [Threads -> Nat]
    /\ pending \in [Threads -> SUBSET Signals] /\ word \in [Threads -> SUBSET Signals]
    /\ sigs \in [Threads -> Nat] /\ sent \in [Threads -> Nat] /\ lost \in [Threads -> BOOLEAN]

Alive(t) == pc[t] \notin {"none", "over"}

(* t is between freeing the data of slot i and clearing the slot.            *)
Clears(t, i) ==
    \/ pc[t] = "wiping" /\ info[t] = i
    \/ pc[t] = "erasing" /\ work[t] = i

(* A slot is used by one thread at a time.  A thread that runs has the slot  *)
(* it was created with, and what a slot refers to refers back.  A slot       *)
(* refers to data that were freed exactly while one thread is about to clear *)
(* it: nobody clears a slot that was taken again, or one that another frees. *)
(* Meanwhile nobody is left who will use or free the data again: not their   *)
(* thread, nor one that creates or joins it.                                 *)
SlotsExclusive ==
    /\ \A i \in Slots :
          /\ data[i] # NULL => info[data[i]] = i /\ tid[i] \in {data[i], NULL}
          /\ data[i] \in freed <=> \E t \in Threads : Clears(t, i)
          /\ \A t, u \in Threads : Clears(t, i) /\ Clears(u, i) => t = u
    /\ \A t \in Threads :
          /\ Alive(t) => info[t] # NULL /\ data[info[t]] = t /\ tid[info[t]] = t
          /\ t \in freed => pc[t] \in {"wiping", "over"}
          /\ pc[t] \in {"configuring", "spawning", "joining", "dropping"} =>
                child[t] \notin freed

(* Whoever joins a thread, or is in the way of creating one, has the slot of *)
(* that thread, even if it waited for long while slots were freed and reused.*)
OwnSlot ==
    \A t \in Threads :
        pc[t] \in Joining \cup {"configuring", "spawning"} => data[work[t]] = child[t]

(* An alias denotes a thread that has that name, and the name of a thread    *)
(* denotes it until the thread is joined or gone (library/MANUAL:6551).      *)
AliasesRight ==
    /\ \A n \in Names : aliases[n] # NULL =>
          data[aliases[n]] # NULL /\ name[data[aliases[n]]] = n
    /\ \A t \in Threads :
          /\ name[t] # NULL /\ t \notin freed /\ pc[t] # "leaving"
          /\ \A u \in Threads : pc[u] = "dropping" => child[u] # t
          => aliases[name[t]] = info[t]

(* thread_join/2 returns how the thread ended, whoever used its slot before, *)
(* and that status is visible while the exit hooks run (library/MANUAL:6626).*)
StatusReturned ==
    \A t \in Threads :
        /\ got[t] # NULL => got[t] = ended[t]
        /\ Alive(t) /\ ended[t] # NULL => status[info[t]] = ended[t]

(* When the data of a thread are freed each of its exit hooks has been run   *)
(* once, except those that a hook dropped by thread_exit/1.                  *)
HooksRun ==
    \A t \in Threads :
        /\ IsInjective(ran[t])
        /\ pc[t] = "freeing" =>
              ToSet(ran[t]) = DOMAIN born[t] \ dropped[t]

(* Hooks run latest first, but those that are registered by hooks after all  *)
(* that were registered when the run began. *)
HooksInOrder ==
    \A t \in Threads : \A i, j \in DOMAIN ran[t] : i < j =>
        LET h == ran[t][i]  k == ran[t][j]
        IN born[t][h] < born[t][k] \/ (born[t][h] = born[t][k] /\ h > k)

(* A goal in the signal queue has its bit in pending_signals, or is about to *)
(* be taken, unless a store without lock wiped the bit out.                  *)
QueuedIsPending ==
    \A t \in Threads : Alive(t) /\ sigs[t] # 0 =>
        "thread" \in pending[t] \/ lost[t] \/ pc[t] = "taking"

(* A thread that has ended is freed, and its slot given up, if it is         *)
(* detached or another thread is waiting for it: neither waits for ever.     *)
EndedIsFreed ==
    \A t \in Threads \ {Main} :
        ended[t] # NULL /\ t \notin freed /\ (detached[info[t]] \/ BeingJoined(t))
            ~> t \in freed /\ data[info[t]] # t

(* A thread executes the goals it is signalled, unless the bit was lost, the *)
(* thread ends or it waits for another thread. *)
SignalsRun ==
    \A t \in Signalled :
        sigs[t] # 0 ~> sigs[t] = 0 \/ lost[t] \/ ended[t] # NULL \/ pc[t] = "joining"
=============================================================================
