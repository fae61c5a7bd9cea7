---------------------------- MODULE QueueHistory ----------------------------
(***************************************************************************)
(* What a concurrent FIFO queue promises its callers, as an observer of    *)
(* calls and returns.  The two list-of-rings queues of the repository      *)
(* (c/ELCRQ.h and c++/LCRQueue.hpp) extend this module: their operations   *)
(* record their calls and returns here and never read what is recorded.    *)
(*                                                                         *)
(* A history of distinct items is that of a FIFO queue when no item is     *)
(* returned that was not sent, none is returned twice, an item is never    *)
(* returned by a call that began after an item sent later was returned,    *)
(* and never after an EMPTY answer that should have returned it.           *)
(***************************************************************************)
EXTENDS Naturals

CONSTANTS Items,      \* the values enqueued, each by one call at most
          Threads,
          EMPTY       \* what a dequeue answers when it finds nothing

VARIABLES hist,       \* what has happened so far
          call        \* what every dequeue in progress knew when it began

history == <<hist, call>>

NoCall == [sent |-> {}, late |-> {}, gone |-> {}]

HistoryInit ==
  /\ hist = [sent       |-> {},     \* items whose enqueue was called
             returned   |-> {},     \* items whose enqueue has returned
             before     |-> [v \in Items |-> {}],
                                    \* items returned when v was sent
             delivered  |-> {},     \* items a dequeue has returned
             twice      |-> {},     \* items returned again
             emptied    |-> {},     \* items an EMPTY answer says are gone
             overtaken  |-> {},     \* items returned out of order
             resurfaced |-> {},     \* items returned after such an answer
             calls      |-> 0]      \* dequeues begun
  /\ call = [t \in Threads |-> NoCall]

HistoryType ==
  /\ hist \in [sent : SUBSET Items, returned : SUBSET Items,
               before : [Items -> SUBSET Items], delivered : SUBSET Items,
               twice : SUBSET Items, emptied : SUBSET Items,
               overtaken : SUBSET Items, resurfaced : SUBSET Items, calls : Nat]
  /\ call \in [Threads -> [sent : SUBSET Items, late : SUBSET Items,
                           gone : SUBSET Items]]
-----------------------------------------------------------------------------
EnqueueCalled(v) ==
  /\ hist' = [hist EXCEPT !.sent = @ \cup {v},
                          !.before[v] = hist.returned \ hist.delivered]
  /\ UNCHANGED call

EnqueueReturned(v) ==
  /\ hist' = [hist EXCEPT !.returned = @ \cup {v}]
  /\ UNCHANGED call

\* Items that must have come out already: sent before one that has.
Late == UNION {hist.before[v] : v \in hist.delivered} \ hist.delivered

DequeueCalled(t) ==
  /\ hist' = [hist EXCEPT !.calls = @ + 1]
  /\ call' = [call EXCEPT ![t] =
                [sent |-> hist.returned \ hist.delivered,
                 late |-> Late,
                 gone |-> hist.emptied \ hist.delivered]]

DequeueReturned(t, v) ==
  /\ hist' = [hist EXCEPT !.delivered  = @ \cup {v},
                          !.twice      = @ \cup (hist.delivered \cap {v}),
                          !.overtaken  = @ \cup (call[t].late \cap {v}),
                          !.resurfaced = @ \cup (call[t].gone \cap {v})]
  /\ call' = [call EXCEPT ![t] = NoCall]

DequeueReturnedEmpty(t) ==
  /\ hist' = [hist EXCEPT !.emptied = @ \cup call[t].sent]
  /\ call' = [call EXCEPT ![t] = NoCall]
-----------------------------------------------------------------------------
(***************************************************************************)
(* First in, first out: when the enqueue of a returned before the enqueue  *)
(* of b was called, and b has been dequeued, no dequeue that begins later  *)
(* returns a.  This is the promise of enqueue and dequeue of               *)
(* c++/LCRQueue.hpp ("Consistency: Linearizable").                         *)
(***************************************************************************)
FifoOrder == hist.overtaken = {}

(***************************************************************************)
(* An EMPTY answer is honest: an item whose enqueue had returned when the  *)
(* dequeue that answered EMPTY began is never returned by a dequeue that   *)
(* begins after that answer.  The blocking wrappers go to sleep on this    *)
(* answer.                                                                 *)
(***************************************************************************)
EmptyIsHonest == hist.resurfaced = {}
=============================================================================
