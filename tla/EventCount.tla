----------------------------- MODULE EventCount -----------------------------
(***************************************************************************)
(* c/EventCount.h: the event count on which dequeuers of an empty queue    *)
(* sleep, one for every queue.  Its 64-bit word val_ holds the epoch in    *)
(* the high half and the number of waiters in the low half; the futex is   *)
(* the high half.  The modules that extend this one give the operations of *)
(* the queue: what a thread does before "prepare" and "notify", at         *)
(* "recheck" and at "idle", where the operation has returned.              *)
(***************************************************************************)
EXTENDS Integers, FiniteSets

CONSTANTS Threads, Queues,
          EPOCHS,     \* 2^32: values of the high half of val_
          WAITERS     \* 2^32: values of the low half of val_

ASSUME EventCountAssumption ==
  /\ EPOCHS \in Nat \ {0} /\ WAITERS \in Nat
  /\ IsFiniteSet(Threads) /\ Cardinality(Threads) < WAITERS

VARIABLES val_,       \* val_[q]: the word of queue q
          pc,         \* control point of every thread
          on,         \* on[p]: the queue p's operation is about
          key         \* key[p]: the epoch p's prepareWait returned

Word == EPOCHS * WAITERS
kAddWaiter == 1
kSubWaiter == Word - 1                \* (uint64_t) -1
kAddEpoch  == WAITERS
Epoch(v)   == v \div WAITERS          \* v >> kEpochShift
Waiters(v) == v % WAITERS             \* v & kWaiterMask

initEventCount == [q \in Queues |-> 0]

Goto(p, point) == pc' = [pc EXCEPT ![p] = point]
FAA(q, x) == val_' = [val_ EXCEPT ![q] = (@ + x) % Word]

Asleep(q) == {p \in Threads : pc[p] = "asleep" /\ on[p] = q}
-----------------------------------------------------------------------------
(* The futex of the kernel. *)

\* FUTEX_WAKE_BITSET with count 1: p goes on, and one sleeper if there is one
nativeFutexWake(p) ==
  \/ Asleep(on[p]) = {} /\ Goto(p, "idle")
  \/ \E o \in Asleep(on[p]) :
       pc' = [pc EXCEPT ![p] = "idle", ![o] = "await"]

\* FUTEX_WAIT_BITSET: sleeps if the futex still holds the epoch of the key
nativeFutexWait(p) ==
  Goto(p, IF Epoch(val_[on[p]]) = key[p] THEN "asleep" ELSE "await")

\* A signal ends the wait of a sleeper.
Interrupt(p) ==
  /\ pc[p] = "asleep"
  /\ Goto(p, "await")
  /\ UNCHANGED <<val_, on, key>>
-----------------------------------------------------------------------------
(* doNotify(ec, 1) *)

\* Mutant: counts the epoch and wakes nobody.
NotifyEpochOnly(p) ==
  /\ pc[p] = "notify"
  /\ FAA(on[p], kAddEpoch)
  /\ Goto(p, "idle")
  /\ UNCHANGED <<on, key>>

doNotify(p) ==
  /\ pc[p] = "notify"
  /\ FAA(on[p], kAddEpoch)
  /\ Goto(p, IF Waiters(val_[on[p]]) # 0 THEN "wake" ELSE "idle")
  /\ UNCHANGED <<on, key>>

Wake(p) ==
  /\ pc[p] = "wake"
  /\ nativeFutexWake(p)
  /\ UNCHANGED <<val_, on, key>>

(* prepareWait(ec) and cancelWait(ec) *)

prepareWait(p) ==
  /\ pc[p] = "prepare"
  /\ FAA(on[p], kAddWaiter)
  /\ key' = [key EXCEPT ![p] = Epoch(val_[on[p]])]
  /\ Goto(p, "recheck")
  /\ UNCHANGED on

\* the end of a wait; the key is dead
EndWait(p, point) ==
  /\ FAA(on[p], kSubWaiter)
  /\ key' = [key EXCEPT ![p] = 0]
  /\ Goto(p, point)
  /\ UNCHANGED on

\* Mutant: forgets to take the waiter back.
CancelUncounted(p) ==
  /\ pc[p] = "cancel"
  /\ Goto(p, "idle")
  /\ UNCHANGED <<val_, on, key>>

cancelWait(p) == pc[p] = "cancel" /\ EndWait(p, "idle")

(* await(ec, key): the load, the system call, the end *)

AwaitLoad(p) ==
  /\ pc[p] = "await"
  /\ Goto(p, IF Epoch(val_[on[p]]) = key[p] THEN "futex" ELSE "leave")
  /\ UNCHANGED <<val_, on, key>>

AwaitFutex(p) ==
  /\ pc[p] = "futex"
  /\ nativeFutexWait(p)
  /\ UNCHANGED <<val_, on, key>>

\* the caller's loop goes on with prepareWait
AwaitLeave(p) == pc[p] = "leave" /\ EndWait(p, "prepare")

eventCount(p) ==
  \/ doNotify(p) \/ Wake(p) \/ prepareWait(p) \/ cancelWait(p)
  \/ AwaitLoad(p) \/ AwaitFutex(p) \/ AwaitLeave(p)
-----------------------------------------------------------------------------
\* Threads between their prepareWait and the subtraction that undoes it.
Registered(q) ==
  {p \in Threads : on[p] = q /\ pc[p] \in {"recheck", "await", "futex",
                                          "asleep", "leave", "cancel"}}

(***************************************************************************)
(* The low half of val_ counts the threads between prepareWait and the     *)
(* subtraction of await or cancelWait, whatever notifies and signals come  *)
(* in between.  A subtraction too many would borrow from the epoch, one    *)
(* too few would make every later notify pay for a system call (line 89).  *)
(***************************************************************************)
WaitersCounted == \A q \in Queues : Waiters(val_[q]) = Cardinality(Registered(q))
=============================================================================
