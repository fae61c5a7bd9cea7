---------------------------- MODULE BlockingQueue ----------------------------
(***************************************************************************)
(* What a block-when-necessary queue promises: an enqueue adds an item; a  *)
(* dequeue stays in progress until it has taken one; a spinDequeue takes   *)
(* one or gives up, the latter only on a queue that has been used; and as  *)
(* long as there is an item and a dequeue in progress, a dequeue gets one. *)
(***************************************************************************)
EXTENDS Naturals

CONSTANTS Threads, Queues
VARIABLES items,     \* items[q]: number of items in queue q
          used,      \* used[q]: something has been enqueued on q
          doing      \* doing[p]: the operation of thread p, and on which queue

vars == <<items, used, doing>>

Idle == <<"idle">>

Init == /\ items = [q \in Queues |-> 0]
        /\ used = [q \in Queues |-> FALSE]
        /\ doing = [p \in Threads |-> Idle]

\* The item is in the queue before the enqueue returns.
Enqueue(p, q) ==
  /\ doing[p] = Idle
  /\ items' = [items EXCEPT ![q] = @ + 1]
  /\ used' = [used EXCEPT ![q] = TRUE]
  /\ doing' \in {doing, [doing EXCEPT ![p] = <<"leaving", q>>]}

Dequeue(p, q) ==
  /\ doing[p] = Idle
  /\ doing' \in {[doing EXCEPT ![p] = <<o, q>>] : o \in {"dequeue", "spinDequeue"}}
  /\ UNCHANGED <<items, used>>

Take(p, q) ==
  /\ doing[p] \in {<<"dequeue", q>>, <<"spinDequeue", q>>} /\ items[q] > 0
  /\ items' = [items EXCEPT ![q] = @ - 1]
  /\ doing' \in {[doing EXCEPT ![p] = d] : d \in {Idle, <<"leaving", q>>}}
  /\ UNCHANGED used

GiveUp(p, q) ==
  /\ doing[p] = <<"spinDequeue", q>> /\ used[q]
  /\ doing' = [doing EXCEPT ![p] = Idle]
  /\ UNCHANGED <<items, used>>

Leave(p, q) ==
  /\ doing[p] = <<"leaving", q>>
  /\ doing' = [doing EXCEPT ![p] = Idle]
  /\ UNCHANGED <<items, used>>

Next == \E p \in Threads, q \in Queues :
          \/ Enqueue(p, q) \/ Dequeue(p, q) \/ Take(p, q)
          \/ GiveUp(p, q) \/ Leave(p, q)

Fairness ==
  \A q \in Queues :
    /\ WF_vars(\E p \in Threads : Take(p, q))
    /\ \A p \in Threads : WF_vars(Leave(p, q)) /\ WF_vars(Take(p, q) \/ GiveUp(p, q))

Spec == Init /\ [][Next]_vars /\ Fairness
=============================================================================
