------------------------------- MODULE ELCRQ -------------------------------
(***************************************************************************)
(* The operations c/ELCRQ.h offers: enqueue and dequeue, which block on    *)
(* the event count of the queue, and spinEnqueue and spinDequeue, which do *)
(* not.  A call of enq or deq is one step here, on the number of items in  *)
(* the queue: ELCRQRings shows that no item is lost and that EMPTY is      *)
(* answered only when there was none; the order does not matter to who     *)
(* sleeps and who is woken.  It also shows that a deq on a queue that was  *)
(* never used does not answer at all (DeqPoll).                            *)
(***************************************************************************)
EXTENDS EventCount

CONSTANTS MAX_PATIENCE,
          Spinning,     \* the queues that are used with spinEnqueue
          MaxSent       \* bound: enqueues on a queue

ASSUME ELCRQAssumption ==
  /\ MAX_PATIENCE \in Nat /\ MaxSent \in Nat
  /\ Queues # {} /\ Spinning \subseteq Queues
  /\ MaxSent < EPOCHS

VARIABLES items,      \* items[q]: number of items in queue q
          sent,       \* sent[q]: number of enqueues on queue q so far
          patience    \* patience[p]: of spinDequeue

vars == <<val_, pc, on, key, items, sent, patience>>
queue == <<items, sent, patience>>

WaitPoints == {"deq", "prepare", "recheck", "await", "futex", "asleep", "leave"}
Points == WaitPoints \cup {"idle", "notify", "wake", "cancel", "spin"}

TypeOK ==
  /\ val_ \in [Queues -> 0..(Word - 1)]
  /\ pc \in [Threads -> Points]
  /\ on \in [Threads -> Queues]
  /\ key \in [Threads -> 0..(EPOCHS - 1)]
  /\ items \in [Queues -> 0..MaxSent] /\ sent \in [Queues -> 0..MaxSent]
  /\ patience \in [Threads -> 0..MAX_PATIENCE]

\* init_queue of every queue
Init ==
  /\ val_ = initEventCount
  /\ items = [q \in Queues |-> 0] /\ sent = items
  /\ pc = [p \in Threads |-> "idle"]
  /\ on = [p \in Threads |-> CHOOSE q \in Queues : TRUE]
  /\ key = [p \in Threads |-> 0]
  /\ patience = [p \in Threads |-> 0]
-----------------------------------------------------------------------------
enq(q) ==
  /\ sent[q] < MaxSent
  /\ items' = [items EXCEPT ![q] = @ + 1]
  /\ sent' = [sent EXCEPT ![q] = @ + 1]

\* Mutant: takes an item without testing that there is one.
DeqUntested(q) ==
  /\ items' = [items EXCEPT ![q] = @ - 1]
  /\ UNCHANGED sent

deq(q) ==
  /\ items[q] > 0
  /\ items' = [items EXCEPT ![q] = @ - 1]
  /\ UNCHANGED sent

\* on a queue that nobody has used, deq does not answer
deqEmpty(q) == items[q] = 0 /\ sent[q] > 0 /\ UNCHANGED <<items, sent>>

Call(p, q, point) ==
  /\ pc[p] = "idle"
  /\ Goto(p, point)
  /\ on' = [on EXCEPT ![p] = q]
  /\ UNCHANGED <<val_, key>>

enqueue(p, q) == Call(p, q, "notify") /\ enq(q) /\ UNCHANGED patience

spinEnqueue(p, q) == Call(p, q, "idle") /\ enq(q) /\ UNCHANGED patience

dequeue(p, q) == Call(p, q, "deq") /\ UNCHANGED queue

DequeueFirst(p) ==
  /\ pc[p] = "deq"
  /\ \/ deq(on[p]) /\ Goto(p, "idle")
     \/ deqEmpty(on[p]) /\ Goto(p, "prepare")
  /\ UNCHANGED <<val_, on, key, patience>>

\* Mutant: sleeps without looking again.
DequeueOnce(p) ==
  /\ pc[p] = "recheck"
  /\ Goto(p, "await")
  /\ UNCHANGED <<val_, on, key, queue>>

DequeueAgain(p) ==
  /\ pc[p] = "recheck"
  /\ \/ deq(on[p]) /\ Goto(p, "cancel")
     \/ deqEmpty(on[p]) /\ Goto(p, "await")
  /\ UNCHANGED <<val_, on, key, patience>>

spinDequeue(p, q) == Call(p, q, "spin") /\ UNCHANGED queue

\* Mutant: does not count its patience.
SpinForever(p) ==
  /\ pc[p] = "spin"
  /\ \/ deq(on[p]) /\ Goto(p, "idle")
     \/ deqEmpty(on[p]) /\ UNCHANGED pc
  /\ UNCHANGED <<val_, on, key, patience>>

SpinDequeueTry(p) ==
  /\ pc[p] = "spin"
  /\ \/ /\ deq(on[p]) /\ Goto(p, "idle")
        /\ patience' = [patience EXCEPT ![p] = 0]
     \/ /\ deqEmpty(on[p]) /\ patience[p] < MAX_PATIENCE
        /\ patience' = [patience EXCEPT ![p] = @ + 1]
        /\ UNCHANGED pc
     \/ /\ deqEmpty(on[p]) /\ patience[p] = MAX_PATIENCE
        /\ Goto(p, "idle") /\ patience' = [patience EXCEPT ![p] = 0]
  /\ UNCHANGED <<val_, on, key>>

\* deq on a queue that nobody has used: with the tail at 0 the comparisons of
\* lines 286 and 295 wrap around, so it draws one ticket after the other
DeqPoll(p) ==
  /\ pc[p] \in {"deq", "spin"} /\ sent[on[p]] = 0
  /\ UNCHANGED vars
-----------------------------------------------------------------------------
\* What thread p does once it has called an operation.
Step(p) ==
  \/ DequeueFirst(p) \/ DequeueAgain(p) \/ SpinDequeueTry(p) \/ DeqPoll(p)
  \/ eventCount(p) /\ UNCHANGED queue

\* dequeue, which sleeps, is for the queues that enqueue, which wakes, fills
Calls(p) ==
  \/ \E q \in Queues \ Spinning : enqueue(p, q) \/ dequeue(p, q)
  \/ \E q \in Spinning : spinEnqueue(p, q)
  \/ \E q \in Queues : spinDequeue(p, q)

Next == \E p \in Threads :
          Step(p) \/ Calls(p) \/ (Interrupt(p) /\ UNCHANGED queue)

\* A thread that can run is scheduled; nobody has to call, no signal has to come.
Fairness == \A p \in Threads : WF_vars(Step(p))

Spec == Init /\ [][Next]_vars /\ Fairness
-----------------------------------------------------------------------------
\* Threads that will look at queue q again, or make another thread look.
Helpers(q) ==
  {p \in Threads : /\ on[p] = q
                   /\ \/ pc[p] \in {"notify", "wake", "leave", "prepare", "recheck"}
                      \/ /\ pc[p] \in {"await", "futex"}
                         /\ key[p] # Epoch(val_[q])}

(***************************************************************************)
(* No lost wake-up: when a queue holds an item and a dequeue on it sleeps, *)
(* an enqueue is about to notify or to wake, or a dequeue that is not      *)
(* about to sleep is on its way to the item.  A notify that comes between  *)
(* the failed deq of line 316 and the futex call must be seen by the       *)
(* comparison of the epochs, and one wake per enqueue (count 1) must be    *)
(* enough however wakes, signals and new dequeues meet.                    *)
(***************************************************************************)
NoLostWakeup ==
  \A q \in Queues : items[q] > 0 /\ Asleep(q) # {} => Helpers(q) # {}

(***************************************************************************)
(* enqueue, dequeue and spinDequeue do what a block-when-necessary queue   *)
(* promises: dequeue returns with an item only, and items and dequeues     *)
(* never wait for each other for ever.                                     *)
(***************************************************************************)
Promise == INSTANCE BlockingQueue WITH
  used <- [q \in Queues |-> sent[q] > 0],
  doing <- [p \in Threads |->
              CASE pc[p] = "idle" -> <<"idle">>
                [] pc[p] \in {"notify", "wake", "cancel"} -> <<"leaving", on[p]>>
                [] pc[p] = "spin" -> <<"spinDequeue", on[p]>>
                [] OTHER -> <<"dequeue", on[p]>>]

IsBlockingQueue == Promise!Spec
=============================================================================
