------------------------------ MODULE SCRQueue ------------------------------
(***************************************************************************)
(* c++/SCRQueue.hpp over c++/EventCount.hpp and c++/Futex.cpp.  The word   *)
(* of the event count and the system calls on it are those of the C        *)
(* version, module EventCount; what differs is the bounded patience of     *)
(* dequeue, which lets it return nullptr, and waitUntil.  enqueue and      *)
(* dequeue of LCRQueue are one step on the number of items: LCRQueue shows *)
(* that no item is lost and that nullptr is an honest answer.              *)
(***************************************************************************)
EXTENDS EventCount

CONSTANTS MAX_PATIENCE,
          Timed         \* threads that wait with waitUntil instead of wait

ASSUME SCRQueueAssumption == MAX_PATIENCE \in Nat /\ Timed \subseteq Threads

VARIABLES items,      \* items[q]: number of items in queue q
          patience,   \* patience[p]: of dequeue and spinDequeue
          temp,       \* temp[p]: p's last dequeue did not return nullptr
          expired     \* expired[p]: the deadline of p's waitUntil has passed

scrqVars == <<val_, pc, on, key, items, patience, temp, expired>>

SCRQueueInit ==
  /\ val_ = initEventCount
  /\ items = [q \in Queues |-> 0]
  /\ pc = [p \in Threads |-> "idle"]
  /\ on = [p \in Threads |-> CHOOSE q \in Queues : TRUE]
  /\ key = [p \in Threads |-> 0] /\ patience = key
  /\ temp = [p \in Threads |-> TRUE] /\ expired = [p \in Threads |-> FALSE]

\* Thread p calls an operation on q.
Begin(p, q, point) ==
  /\ pc[p] = "idle"
  /\ Goto(p, point) /\ on' = [on EXCEPT ![p] = q]
  /\ UNCHANGED <<val_, key, patience, expired>>
-----------------------------------------------------------------------------
(* EventCount and Futex *)

notify(p) == doNotify(p)
futexWake(p) == Wake(p)

\* AWOKEN later, or VALUE_CHANGED at once: wait looks at the word in any case
futexWait(p) == p \notin Timed /\ AwaitFutex(p)

\* the same with a deadline; once it has passed the answer is TIMEDOUT
futexWaitUntil(p) ==
  /\ p \in Timed /\ pc[p] = "futex"
  /\ IF expired[p] THEN Goto(p, "await") ELSE nativeFutexWait(p)
  /\ UNCHANGED <<val_, on, key>>

\* The deadline of p's wait passes; a sleeper gets TIMEDOUT.
Deadline(p) ==
  /\ p \in Timed /\ ~expired[p] /\ pc[p] \in {"await", "futex", "asleep"}
  /\ expired' = [expired EXCEPT ![p] = TRUE]
  /\ pc' = IF pc[p] = "asleep" THEN [pc EXCEPT ![p] = "await"] ELSE pc
  /\ UNCHANGED <<val_, on, key, items, patience, temp>>

\* Mutant: the wait is over when the deadline has passed.
LeaveOnTimeout(p) ==
  /\ pc[p] = "await"
  /\ Goto(p, IF Epoch(val_[on[p]]) = key[p] /\ ~expired[p] THEN "futex" ELSE "leave")
  /\ UNCHANGED <<val_, on, key>>

\* the loop of wait and of waitUntil, which drops the result of the futex
waitLoop(p) == AwaitLoad(p)

wait(p) == waitLoop(p) \/ futexWait(p) \/ AwaitLeave(p)
waitUntil(p) == waitLoop(p) \/ futexWaitUntil(p) \/ AwaitLeave(p)

ev(p) ==
  /\ \/ notify(p) \/ futexWake(p) \/ prepareWait(p) \/ cancelWait(p)
     \/ IF p \in Timed THEN waitUntil(p) ELSE wait(p)
  /\ UNCHANGED <<items, patience, temp, expired>>
-----------------------------------------------------------------------------
(* SCRQueue *)

\* queue->enqueue(item): nullptr is what a free cell holds, so it adds nothing
Put(q, item) == items' = [items EXCEPT ![q] = IF item THEN @ + 1 ELSE @]

enqueue(p, q, item) == Begin(p, q, "notify") /\ Put(q, item) /\ UNCHANGED temp

spinEnqueue(p, q, item) == Begin(p, q, "idle") /\ Put(q, item) /\ UNCHANGED temp

\* Mutant: takes an item without testing that there is one.
TakeUntested(p, found, notFound) ==
  /\ items' = [items EXCEPT ![on[p]] = @ - 1]
  /\ temp' = [temp EXCEPT ![p] = TRUE]
  /\ Goto(p, found)

\* temp = queue->dequeue(tid), and on with what depends on it
Take(p, found, notFound) ==
  LET there == items[on[p]] > 0
  IN  /\ items' = [items EXCEPT ![on[p]] = IF there THEN @ - 1 ELSE @]
      /\ temp' = [temp EXCEPT ![p] = there]
      /\ Goto(p, IF there THEN found ELSE notFound)

dequeue(p, q) == Begin(p, q, "deq") /\ UNCHANGED <<items, temp>>

DequeueFirst(p) ==
  /\ pc[p] = "deq"
  /\ Take(p, "idle", "prepare")
  /\ UNCHANGED <<val_, on, key, patience, expired>>

\* ... == nullptr && patience++ < MAX_PATIENCE; at the end of the loop
\* patience and the deadline are dead
TakePatiently(p, again, end) ==
  LET goOn == items[on[p]] = 0 /\ patience[p] < MAX_PATIENCE
  IN  /\ Take(p, end, IF goOn THEN again ELSE end)
      /\ patience' = [patience EXCEPT ![p] = IF goOn THEN @ + 1 ELSE 0]
      /\ expired' = [expired EXCEPT ![p] = goOn /\ @]
      /\ UNCHANGED <<val_, on, key>>

DequeueAgain(p) == pc[p] = "recheck" /\ TakePatiently(p, "await", "cancel")

spinDequeue(p, q) == Begin(p, q, "spin") /\ UNCHANGED <<items, temp>>

SpinDequeueTry(p) == pc[p] = "spin" /\ TakePatiently(p, "spin", "idle")

\* What thread p does once it has called an operation.
Step(p) == DequeueFirst(p) \/ DequeueAgain(p) \/ SpinDequeueTry(p) \/ ev(p)

Signal(p) == Interrupt(p) /\ UNCHANGED <<items, patience, temp, expired>>
=============================================================================
