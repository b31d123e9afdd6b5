--------------------------- MODULE ThreadMessages ---------------------------
(* The message queues of threads: thread_send_message/2 appends a message to *)
(* the queue of a thread, thread_get_message/1 takes the first message that  *)
(* unifies with its argument from the own queue and waits if there is none.  *)
(*                                                                           *)
(* The queues are guarded by L_THREAD, and each critical section of L_THREAD *)
(* is one action.  A receiver waits on its condition variable with another   *)
(* mutex, queue_mutex, which senders do not take.                            *)
EXTENDS Integers, Sequences, SequencesExt

CONSTANTS
    Threads,        \* Prolog threads
    Messages,       \* messages, each sent at most once
    Goals,          \* arguments of thread_get_message/1
    Unifies         \* for each of these the messages it unifies with

ASSUME ThreadMessagesAssumption ==
    Unifies \in [Goals -> SUBSET Messages]

VARIABLES
    queue,          \* per thread: thread.msg_head up to thread.msg_tail
    sent,           \* messages that were sent
    pc,             \* per thread: where it is in thread_get_message/1
    goal,           \* per thread: the argument of its thread_get_message/1
    prev,           \* per thread: how many messages of its queue it tried
    missed          \* history: a signal came between UNLOCK() and the wait

vars == <<queue, sent, pc, goal, prev, missed>>

(* "parking": L_THREAD is released, the wait not yet begun.  "waiting": in  *)
(* pthread_cond_wait().  "woken": about to take L_THREAD again.             *)
PCs == {"running", "parking", "waiting", "woken"}

-----------------------------------------------------------------------------
(* Positions of the messages of t that unify, among those not tried yet. *)
Found(t, g, tried) ==
    {i \in tried + 1 .. Len(queue[t]) : queue[t][i] \in Unifies[g]}

Init ==
    /\ queue = [t \in Threads |-> <<>>]
    /\ sent = {}
    /\ pc = [t \in Threads |-> "running"]
    /\ goal \in [Threads -> Goals]
    /\ prev = [t \in Threads |-> 0]
    /\ missed = [t \in Threads |-> FALSE]

(* Mutant: signals only for the first message of the queue. *)
SendSignalsFirst(t, u, m) ==
    /\ pc[t] = "running" /\ m \notin sent
    /\ queue' = [queue EXCEPT ![u] = Append(@, m)]
    /\ sent' = sent \cup {m}
    /\ pc' = [pc EXCEPT ![u] =
                IF @ = "waiting" /\ queue[u] = <<>> THEN "woken" ELSE @]
    /\ missed' = [missed EXCEPT ![u] = @ \/ pc[u] = "parking"]
    /\ UNCHANGED <<goal, prev>>

(* Append to the queue of u and signal its condition variable, which wakes  *)
(* u up only if it is waiting.                                              *)
Send(t, u, m) ==
    /\ pc[t] = "running" /\ m \notin sent
    /\ queue' = [queue EXCEPT ![u] = Append(@, m)]
    /\ sent' = sent \cup {m}
    /\ pc' = [pc EXCEPT ![u] = IF @ = "waiting" THEN "woken" ELSE @]
    /\ missed' = [missed EXCEPT ![u] = @ \/ pc[u] = "parking"]
    /\ UNCHANGED <<goal, prev>>

(* Mutant: steps back over the message that is gone, also from the first. *)
TakeStepsBack(t, i) ==
    /\ queue' = [queue EXCEPT ![t] = RemoveAt(@, i)]
    /\ pc' = [pc EXCEPT ![t] = "running"]
    /\ prev' = [prev EXCEPT ![t] = @ - 1]

Take(t, i) ==
    /\ queue' = [queue EXCEPT ![t] = RemoveAt(@, i)]
    /\ pc' = [pc EXCEPT ![t] = "running"]
    /\ prev' = [prev EXCEPT ![t] = 0]

Park(t) ==
    /\ pc' = [pc EXCEPT ![t] = "parking"]
    /\ prev' = [prev EXCEPT ![t] = Len(queue[t])]
    /\ UNCHANGED queue

(* Mutant: takes the last message that unifies. *)
ScanTakesLast(t, g, tried) ==
    LET found == Found(t, g, tried)
    IN /\ \/ \E i \in found : (\A j \in found : j <= i) /\ Take(t, i)
          \/ found = {} /\ Park(t)
       /\ missed' = [missed EXCEPT ![t] = FALSE]

(* The loop over the messages that were not tried: take out the first that  *)
(* unifies, or release L_THREAD to wait. *)
Scan(t, g, tried) ==
    LET found == Found(t, g, tried)
    IN /\ \/ \E i \in found : (\A j \in found : i <= j) /\ Take(t, i)
          \/ found = {} /\ Park(t)
       /\ missed' = [missed EXCEPT ![t] = FALSE]

(* thread_get_message/1 is called: all messages are tried. *)
Get(t, g) ==
    /\ pc[t] = "running"
    /\ goal' = [goal EXCEPT ![t] = g]
    /\ Scan(t, g, 0)
    /\ UNCHANGED sent

(* pthread_cond_wait() puts the thread among those that a signal wakes up.  *)
Wait(t) ==
    /\ pc[t] = "parking"
    /\ pc' = [pc EXCEPT ![t] = "waiting"]
    /\ UNCHANGED <<queue, sent, goal, prev, missed>>

(* pthread_cond_wait() may return without a signal. *)
WakeSpuriously(t) ==
    /\ pc[t] = "waiting"
    /\ pc' = [pc EXCEPT ![t] = "woken"]
    /\ UNCHANGED <<queue, sent, goal, prev, missed>>

(* Mutant: one message too many counts as tried. *)
ResumeTooFar(t) ==
    /\ pc[t] = "woken"
    /\ Scan(t, goal[t], prev[t] + 1)
    /\ UNCHANGED <<sent, goal>>

(* Awake and with L_THREAD: go on behind the last message that was tried. *)
Resume(t) ==
    /\ pc[t] = "woken"
    /\ Scan(t, goal[t], prev[t])
    /\ UNCHANGED <<sent, goal>>

-----------------------------------------------------------------------------
Next ==
    \E t \in Threads :
        \/ \E u \in Threads, m \in Messages : Send(t, u, m)
        \/ \E g \in Goals : Get(t, g)
        \/ Wait(t) \/ WakeSpuriously(t) \/ Resume(t)

Spec == Init /\ [][Next]_vars

(* Threads that can run do run, and get L_THREAD in the end: it is only     *)
(* ever held for a bounded number of steps. *)
FairSpec == Spec /\ \A t \in Threads : WF_vars(Wait(t)) /\ WF_vars(Resume(t))

-----------------------------------------------------------------------------
(* Properties *)

TypeOK ==
    /\ queue \in [Threads -> Seq(Messages)]
    /\ sent \in SUBSET Messages
    /\ pc \in [Threads -> PCs]
    /\ goal \in [Threads -> Goals]
    /\ prev \in [Threads -> Nat]
    /\ missed \in [Threads -> BOOLEAN]

(* The queue of t has a message for the goal that t is waiting with. *)
Ready(t) == \E i \in DOMAIN queue[t] : queue[t][i] \in Unifies[goal[t]]

(* What was tried never has to be tried again: going on behind prev, while  *)
(* senders append, skips no message that unifies.                           *)
TriedInVain ==
    \A t \in Threads : pc[t] # "running" =>
        /\ prev[t] <= Len(queue[t])
        /\ \A i \in 1 .. prev[t] : queue[t][i] \notin Unifies[goal[t]]

(* A message is taken in order: no message before it in the queue unifies   *)
(* with the goal, also if the thread waited in between, and all others stay *)
(* in the queue (library/MANUAL:6653).                                      *)
TakesFirst ==
    [][\A t \in Threads : Len(queue'[t]) < Len(queue[t]) =>
         \E i \in DOMAIN queue[t] :
            /\ queue'[t] = RemoveAt(queue[t], i)
            /\ queue[t][i] \in Unifies[goal'[t]]
            /\ \A j \in 1 .. i - 1 : queue[t][j] \notin Unifies[goal'[t]]]_vars

(* A thread waits although its queue has a message for it only if the       *)
(* signal was sent before the wait began.                                   *)
WaitsInVainIfMissed ==
    \A t \in Threads : pc[t] = "waiting" /\ Ready(t) => missed[t]

(* thread_get_message/1 returns once there is a message for it, unless a    *)
(* signal was missed. *)
ReturnsUnlessMissed ==
    \A t \in Threads :
        pc[t] # "running" /\ Ready(t) ~> pc[t] = "running" \/ missed[t]

(* thread_get_message/1 blocks until a term that unifies arrives in the     *)
(* queue (library/MANUAL:6649).                                             *)
GetReturns ==
    \A t \in Threads : pc[t] # "running" /\ Ready(t) ~> pc[t] = "running"

=============================================================================
