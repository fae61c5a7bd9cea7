---------------------------- MODULE ELCRQProofs ----------------------------
(***************************************************************************)
(* The waiters of ELCRQ are counted, no wake-up is lost, and ELCRQ         *)
(* implements the safety part of BlockingQueue.                            *)
(*                                                                         *)
(* NoLostWakeup is not inductive: that there is one helper says nothing of *)
(* the state in which it has helped.  IInv counts instead.  While a thread *)
(* sleeps on a queue it has as many helpers as items (SleepInv); this      *)
(* needs that a thread about to sleep with a current key has seen the      *)
(* queue without an item that will not be announced (AwaitInv), which in   *)
(* turn needs that a notify makes every key stale (KeyInv): the epoch goes *)
(* up and does not wrap around (EpochInv, MaxSent < EPOCHS).               *)
(***************************************************************************)
EXTENDS ELCRQ, TLAPS, FiniteSetTheorems

\* Points at which a thread is counted in the low half of val_ and has a key.
Waiting == {"recheck", "await", "futex", "asleep", "leave", "cancel"}

\* Enqueues whose item is in queue q and whose notify has not begun.
Notifying(q) == {p \in Threads : pc[p] = "notify" /\ on[p] = q}

\* The epoch counts notifies, and there are no more of them than enqueues; so
\* it does not wrap around.
EpochInv ==
  \A q \in Queues : /\ Epoch(val_[q]) + Cardinality(Notifying(q)) <= sent[q]
                    /\ items[q] <= sent[q]

\* Keys are epochs of the past, and nobody waits on a queue that is spun on.
KeyInv ==
  \A p \in Threads : /\ pc[p] \in Waiting => key[p] <= Epoch(val_[on[p]])
                     /\ pc[p] \in WaitPoints => on[p] \notin Spinning

\* When the key of a thread in await is current, every item of its queue will
\* still be announced by the notify of an enqueue.
AwaitInv ==
  \A p \in Threads, q \in Queues :
    pc[p] \in {"await", "futex", "asleep"} /\ on[p] = q /\ key[p] = Epoch(val_[q])
      => items[q] <= Cardinality(Notifying(q))

\* While a thread sleeps there is a helper for every item.
SleepInv ==
  \A q \in Queues : Asleep(q) # {} => items[q] <= Cardinality(Helpers(q))

\* The inductive invariant.
IInv == TypeOK /\ WaitersCounted /\ EpochInv /\ KeyInv /\ AwaitInv /\ SleepInv

\* What the assumptions on the constants come to.
LEMMA Constants ==
  /\ EPOCHS \in Nat /\ EPOCHS > 0 /\ WAITERS \in Nat /\ WAITERS > 0
  /\ IsFiniteSet(Threads) /\ Cardinality(Threads) < WAITERS
  /\ Cardinality(Threads) \in Nat
  /\ MaxSent \in Nat /\ MaxSent < EPOCHS
BY EventCountAssumption, ELCRQAssumption, FS_CardinalityType

\* A word put together from two halves comes apart into the same halves.
LEMMA Division ==
  ASSUME NEW e \in Nat, NEW w \in Nat, NEW W \in Nat, w < W
  PROVE  (e * W + w) \div W = e /\ (e * W + w) % W = w
<1> DEFINE d == (e * W + w) \div W
           r == (e * W + w) % W
<1>1. d \in Int /\ r \in 0..(W - 1) /\ e * W + w = W * d + r
  OBVIOUS
<1> HIDE DEF d, r
<1>2. CASE d > e
  <2>1. W * d >= W * (e + 1)
    BY <1>1, <1>2
  <2> QED  BY <1>1, <2>1
<1>3. CASE d < e
  <2>1. W * e >= W * (d + 1)
    BY <1>1, <1>3
  <2> QED  BY <1>1, <2>1
<1>4. d = e
  BY <1>1, <1>2, <1>3
<1> QED  BY <1>1, <1>4 DEF d, r

\* val_ >> kEpochShift and val_ & kWaiterMask lie in their halves, and give
\* the word back.
LEMMA Halves ==
  ASSUME NEW v \in 0..(Word - 1)
  PROVE  /\ Epoch(v) \in 0..(EPOCHS - 1) /\ Waiters(v) \in 0..(WAITERS - 1)
         /\ v = Epoch(v) * WAITERS + Waiters(v)
<1>1. Word \in Nat
  BY Constants DEF Word
<1>2. Epoch(v) \in Int /\ Waiters(v) \in 0..(WAITERS - 1)
      /\ v = Epoch(v) * WAITERS + Waiters(v)
  BY Constants, <1>1 DEF Epoch, Waiters
<1>3. Epoch(v) >= 0
  BY Constants, <1>1 DEF Epoch
<1>4. Epoch(v) < EPOCHS
  <2>1. SUFFICES ASSUME Epoch(v) >= EPOCHS PROVE FALSE
    BY <1>2, Constants
  <2>2. Epoch(v) * WAITERS >= EPOCHS * WAITERS
    BY <1>2, <2>1, Constants
  <2>3. v >= Word
    <3> DEFINE a == Epoch(v) * WAITERS
    <3>1. a \in Int /\ a >= Word /\ v = a + Waiters(v)
      BY <1>2, <2>2, Constants DEF Word
    <3> HIDE DEF a
    <3> QED  BY <1>1, <1>2, <3>1
  <2> QED  BY <1>1, <2>3
<1> QED  BY <1>2, <1>3, <1>4, Constants

\* Adding kAddWaiter leaves the epoch alone as long as the low half has room.
LEMMA AddWaiter ==
  ASSUME NEW v \in 0..(Word - 1), Waiters(v) + 1 < WAITERS
  PROVE  LET n == (v + kAddWaiter) % Word
         IN  n \in 0..(Word - 1) /\ Epoch(n) = Epoch(v) /\ Waiters(n) = Waiters(v) + 1
<1>1. Word \in Nat /\ Epoch(v) \in Nat /\ Epoch(v) <= EPOCHS - 1 /\ Waiters(v) \in Nat
      /\ v = Epoch(v) * WAITERS + Waiters(v)
  BY Halves, Constants DEF Word
<1>2. v + 1 < Word
  <2> DEFINE a == Epoch(v) * WAITERS
  <2>1. a \in Nat /\ a <= (EPOCHS - 1) * WAITERS
    BY <1>1, Constants
  <2>2. (EPOCHS - 1) * WAITERS = Word - WAITERS
    BY Constants DEF Word
  <2>3. v = a + Waiters(v)
    BY <1>1
  <2> HIDE DEF a
  <2> QED  BY <1>1, <2>1, <2>2, <2>3, Constants
<1>3. (v + kAddWaiter) % Word = v + 1
  BY <1>1, <1>2 DEF kAddWaiter
<1>4. v + 1 = Epoch(v) * WAITERS + (Waiters(v) + 1)
  BY <1>1, Constants
<1>5. Epoch(v + 1) = Epoch(v) /\ Waiters(v + 1) = Waiters(v) + 1
  BY <1>1, <1>4, Constants, Division DEF Epoch, Waiters
<1> QED  BY <1>1, <1>2, <1>3, <1>5

\* Adding (uint64_t) -1 takes one waiter and borrows nothing from the epoch,
\* provided that there is one.
LEMMA SubWaiter ==
  ASSUME NEW v \in 0..(Word - 1), Waiters(v) > 0
  PROVE  LET n == (v + kSubWaiter) % Word
         IN  n \in 0..(Word - 1) /\ Epoch(n) = Epoch(v) /\ Waiters(n) = Waiters(v) - 1
<1>1. Word \in Nat /\ Epoch(v) \in Nat /\ Waiters(v) \in Nat /\ Waiters(v) < WAITERS
      /\ v = Epoch(v) * WAITERS + Waiters(v)
  BY Halves, Constants DEF Word
<1>2. v >= 1
  <2> DEFINE a == Epoch(v) * WAITERS
  <2>1. a \in Nat /\ v = a + Waiters(v)
    BY <1>1, Constants
  <2> HIDE DEF a
  <2> QED  BY <1>1, <2>1
<1>3. (v + kSubWaiter) % Word = v - 1
  <2>1. \A one \in Nat : one = 1 => v + kSubWaiter = one * Word + (v - 1)
    BY <1>1 DEF kSubWaiter
  <2>2. v - 1 \in Nat /\ v - 1 < Word
    BY <1>1, <1>2
  <2>3. PICK one \in Nat : one = 1
    OBVIOUS
  <2>4. (one * Word + (v - 1)) % Word = v - 1
    BY <1>1, <2>2, Division
  <2> QED  BY <2>1, <2>3, <2>4
<1>4. v - 1 = Epoch(v) * WAITERS + (Waiters(v) - 1)
  BY <1>1, Constants
<1>5. Epoch(v - 1) = Epoch(v) /\ Waiters(v - 1) = Waiters(v) - 1
  BY <1>1, <1>4, Constants, Division DEF Epoch, Waiters
<1> QED  BY <1>1, <1>2, <1>3, <1>5

\* Adding kAddEpoch leaves the waiters alone, and the epoch does not wrap
\* around while the high half has room.
LEMMA AddEpoch ==
  ASSUME NEW v \in 0..(Word - 1), Epoch(v) + 1 < EPOCHS
  PROVE  LET n == (v + kAddEpoch) % Word
         IN  n \in 0..(Word - 1) /\ Epoch(n) = Epoch(v) + 1 /\ Waiters(n) = Waiters(v)
<1>1. Word \in Nat /\ Epoch(v) \in Nat /\ Waiters(v) \in Nat /\ Waiters(v) < WAITERS
      /\ v = Epoch(v) * WAITERS + Waiters(v)
  BY Halves, Constants DEF Word
<1>2. v + WAITERS = (Epoch(v) + 1) * WAITERS + Waiters(v)
  <2>1. \A e \in Nat : (e + 1) * WAITERS = e * WAITERS + WAITERS
    BY Constants
  <2> DEFINE a == Epoch(v) * WAITERS
             b == (Epoch(v) + 1) * WAITERS
  <2>2. /\ a \in Nat /\ v = a + Waiters(v) /\ b = a + WAITERS
        /\ Waiters(v) \in Nat /\ WAITERS \in Nat
    BY <1>1, <2>1, Constants
  <2>3. v + WAITERS = b + Waiters(v)
    <3> HIDE DEF a, b
    <3> QED  BY <2>2
  <2> QED  BY <2>3
<1>3. v + WAITERS < Word
  <2> DEFINE a == (Epoch(v) + 1) * WAITERS
  <2>1. a \in Nat /\ a <= (EPOCHS - 1) * WAITERS
    BY <1>1, Constants
  <2>2. (EPOCHS - 1) * WAITERS = Word - WAITERS
    BY Constants DEF Word
  <2>3. v + WAITERS = a + Waiters(v)
    BY <1>2
  <2> HIDE DEF a
  <2> QED  BY <1>1, <2>1, <2>2, <2>3, Constants
<1>4. (v + kAddEpoch) % Word = v + WAITERS
  BY <1>1, <1>3, Constants DEF kAddEpoch
<1>5. Epoch(v + WAITERS) = Epoch(v) + 1 /\ Waiters(v + WAITERS) = Waiters(v)
  <2>1. Epoch(v) + 1 \in Nat
    BY <1>1
  <2> QED  BY <1>1, <1>2, <2>1, Constants, Division DEF Epoch, Waiters
<1> QED  BY <1>1, <1>3, <1>4, <1>5, Constants
-----------------------------------------------------------------------------
\* What the move of one thread does to the size of a set of threads.
LEMMA OneMember ==
  ASSUME NEW S \in SUBSET Threads, NEW T \in SUBSET Threads, NEW p \in Threads,
         S \ {p} = T \ {p}
  PROVE  /\ Cardinality(S) \in Nat /\ Cardinality(T) \in Nat
         /\ (p \in S <=> p \in T) => Cardinality(T) = Cardinality(S)
         /\ p \notin S /\ p \in T => Cardinality(T) = Cardinality(S) + 1
         /\ p \in S /\ p \notin T => Cardinality(T) = Cardinality(S) - 1
<1>1. IsFiniteSet(S) /\ IsFiniteSet(T)
  BY Constants, FS_Subset
<1>2. Cardinality(S) \in Nat /\ Cardinality(T) \in Nat
  BY <1>1, FS_CardinalityType
<1>3. ASSUME p \in S <=> p \in T PROVE Cardinality(T) = Cardinality(S)
  <2>1. S = T
    BY <1>3
  <2> QED  BY <2>1
<1>4. ASSUME p \notin S, p \in T PROVE Cardinality(T) = Cardinality(S) + 1
  <2>1. T = S \cup {p}
    BY <1>4
  <2> QED  BY <1>1, <1>4, <2>1, FS_AddElement
<1>5. ASSUME p \in S, p \notin T PROVE Cardinality(T) = Cardinality(S) - 1
  <2>1. S = T \cup {p}
    BY <1>5
  <2>2. Cardinality(S) = Cardinality(T) + 1
    BY <1>1, <1>5, <2>1, FS_AddElement
  <2> QED  BY <1>2, <2>2
<1> QED  BY <1>2, <1>3, <1>4, <1>5

\* Sizes of sets of threads and of their subsets.
LEMMA Members ==
  ASSUME NEW S \in SUBSET Threads, NEW T \in SUBSET S
  PROVE  /\ Cardinality(S) \in Nat /\ Cardinality(T) \in Nat
         /\ Cardinality(T) <= Cardinality(S)
         /\ Cardinality(S) <= Cardinality(Threads)
         /\ \A p \in S : Cardinality(S) >= 1
<1>1. IsFiniteSet(S) /\ IsFiniteSet(T) /\ IsFiniteSet(Threads)
  BY Constants, FS_Subset
<1>2. Cardinality(S) \in Nat /\ Cardinality(T) \in Nat
  BY <1>1, FS_CardinalityType
<1>3. Cardinality(T) <= Cardinality(S) /\ Cardinality(S) <= Cardinality(Threads)
  BY <1>1, FS_Subset
<1>4. \A p \in S : Cardinality(S) >= 1
  <2>1. S # {} => Cardinality(S) # 0
    BY <1>1, FS_EmptySet
  <2> QED  BY <1>2, <2>1
<1> QED  BY <1>2, <1>3, <1>4

\* A step of thread p, or of a signal to it.
Acts(p) == Step(p) \/ Calls(p) \/ (Interrupt(p) /\ UNCHANGED queue)

\* doNotify counts the epoch of its queue and nothing else: the epochs are
\* not used up, because every notify belongs to an enqueue.
LEMMA NotifyEffect ==
  ASSUME TypeOK, EpochInv, NEW p \in Threads, doNotify(p)
  PROVE  /\ val_' \in [Queues -> 0..(Word - 1)]
         /\ \A q \in Queues :
              /\ Waiters(val_'[q]) = Waiters(val_[q])
              /\ Epoch(val_'[q]) = IF q = on[p] THEN Epoch(val_[q]) + 1 ELSE Epoch(val_[q])
<1> DEFINE v == val_[on[p]]
           n == (v + kAddEpoch) % Word
<1>1. v \in 0..(Word - 1) /\ on[p] \in Queues /\ val_' = [val_ EXCEPT ![on[p]] = n]
  BY DEF TypeOK, doNotify, FAA
<1>2. Epoch(v) \in Nat
  BY <1>1, Halves
<1>3. Epoch(v) + 1 < EPOCHS
  <2>1. p \in Notifying(on[p]) /\ Notifying(on[p]) \in SUBSET Threads
    BY DEF Notifying, doNotify
  <2>2. Cardinality(Notifying(on[p])) \in Nat /\ Cardinality(Notifying(on[p])) >= 1
    BY <2>1, Members
  <2>3. Epoch(v) + Cardinality(Notifying(on[p])) <= sent[on[p]]
    BY <1>1 DEF EpochInv
  <2>4. sent[on[p]] \in Nat /\ sent[on[p]] <= MaxSent
    BY <1>1, Constants DEF TypeOK
  <2> QED  BY <1>2, <2>2, <2>3, <2>4, Constants
<1>4. n \in 0..(Word - 1) /\ Epoch(n) = Epoch(v) + 1 /\ Waiters(n) = Waiters(v)
  BY <1>1, <1>3, AddEpoch
<1> HIDE DEF n
<1> QED  BY <1>1, <1>4 DEF TypeOK

\* prepareWait counts one waiter on its queue: there is room for all threads.
LEMMA PrepareEffect ==
  ASSUME TypeOK, WaitersCounted, NEW p \in Threads, prepareWait(p)
  PROVE  /\ val_' \in [Queues -> 0..(Word - 1)]
         /\ \A q \in Queues :
              /\ Waiters(val_'[q]) = IF q = on[p] THEN Waiters(val_[q]) + 1 ELSE Waiters(val_[q])
              /\ Epoch(val_'[q]) = Epoch(val_[q])
<1> DEFINE v == val_[on[p]]
           n == (v + kAddWaiter) % Word
           R == Registered(on[p])
<1>1. v \in 0..(Word - 1) /\ on[p] \in Queues /\ val_' = [val_ EXCEPT ![on[p]] = n]
  BY DEF TypeOK, prepareWait, FAA
<1>2. Waiters(v) = Cardinality(R)
  BY <1>1 DEF WaitersCounted
<1>3. Waiters(v) + 1 < WAITERS
  <2>1. R \cup {p} \in SUBSET Threads /\ R \in SUBSET Threads /\ p \notin R
        /\ R \ {p} = (R \cup {p}) \ {p}
    BY DEF Registered, prepareWait
  <2>2. Cardinality(R) \in Nat /\ Cardinality(R \cup {p}) = Cardinality(R) + 1
    BY <2>1, OneMember
  <2>3. Cardinality(R \cup {p}) <= Cardinality(Threads)
    BY <2>1, Members
  <2> QED  BY <1>2, <2>2, <2>3, Constants
<1>4. n \in 0..(Word - 1) /\ Epoch(n) = Epoch(v) /\ Waiters(n) = Waiters(v) + 1
  BY <1>1, <1>3, AddWaiter
<1> HIDE DEF n
<1> QED  BY <1>1, <1>4 DEF TypeOK

\* cancelWait and the end of await take back one waiter: p is still counted.
LEMMA EndWaitEffect ==
  ASSUME TypeOK, WaitersCounted, NEW p \in Threads, cancelWait(p) \/ AwaitLeave(p)
  PROVE  /\ val_' \in [Queues -> 0..(Word - 1)]
         /\ \A q \in Queues :
              /\ Waiters(val_'[q]) = IF q = on[p] THEN Waiters(val_[q]) - 1 ELSE Waiters(val_[q])
              /\ Epoch(val_'[q]) = Epoch(val_[q])
<1> DEFINE v == val_[on[p]]
           n == (v + kSubWaiter) % Word
           R == Registered(on[p])
<1>1. v \in 0..(Word - 1) /\ on[p] \in Queues /\ val_' = [val_ EXCEPT ![on[p]] = n]
  BY DEF TypeOK, cancelWait, AwaitLeave, EndWait, FAA
<1>2. Waiters(v) = Cardinality(R)
  BY <1>1 DEF WaitersCounted
<1>3. Waiters(v) > 0
  <2>1. p \in R /\ R \in SUBSET Threads
    BY DEF Registered, cancelWait, AwaitLeave
  <2>2. Cardinality(R) \in Nat /\ Cardinality(R) >= 1
    BY <2>1, Members
  <2> QED  BY <1>2, <2>2
<1>4. n \in 0..(Word - 1) /\ Epoch(n) = Epoch(v) /\ Waiters(n) = Waiters(v) - 1
  BY <1>1, <1>3, SubWaiter
<1> HIDE DEF n
<1>5. /\ val_' \in [Queues -> 0..(Word - 1)] /\ val_'[on[p]] = n
      /\ \A q \in Queues \ {on[p]} : val_'[q] = val_[q]
  BY <1>1, <1>4 DEF TypeOK
<1> QED  BY <1>4, <1>5
-----------------------------------------------------------------------------
\* What a step of thread p does to the two halves of every word.
LEMMA StepEffect ==
  ASSUME TypeOK, WaitersCounted, EpochInv, NEW p \in Threads, Acts(p)
  PROVE  /\ val_' \in [Queues -> 0..(Word - 1)]
         /\ \A q \in Queues :
              /\ Waiters(val_'[q]) =
                   IF pc[p] = "prepare" /\ q = on[p] THEN Waiters(val_[q]) + 1
                   ELSE IF pc[p] \in {"cancel", "leave"} /\ q = on[p]
                   THEN Waiters(val_[q]) - 1 ELSE Waiters(val_[q])
              /\ Epoch(val_'[q]) =
                   IF pc[p] = "notify" /\ q = on[p] THEN Epoch(val_[q]) + 1
                   ELSE Epoch(val_[q])
<1>1. CASE doNotify(p)
  <2>1. pc[p] = "notify"
    BY <1>1 DEF doNotify
  <2> QED  BY <1>1, <2>1, NotifyEffect
<1>2. CASE prepareWait(p)
  <2>1. pc[p] = "prepare"
    BY <1>2 DEF prepareWait
  <2> QED  BY <1>2, <2>1, PrepareEffect
<1>3. CASE cancelWait(p) \/ AwaitLeave(p)
  <2>1. pc[p] \in {"cancel", "leave"}
    BY <1>3 DEF cancelWait, AwaitLeave
  <2> QED  BY <1>3, <2>1, EndWaitEffect
<1>4. CASE /\ UNCHANGED val_
           /\ pc[p] \notin {"notify", "prepare", "cancel", "leave"}
  BY <1>4 DEF TypeOK
<1> QED
  BY <1>1, <1>2, <1>3, <1>4
     DEF Acts, Step, Calls, eventCount, enqueue, spinEnqueue, dequeue, spinDequeue,
         Call, DequeueFirst, DequeueAgain, SpinDequeueTry, DeqPoll, vars, Wake,
         AwaitLoad, AwaitFutex, Interrupt

\* A step keeps the types.
LEMMA StepType ==
  ASSUME IInv, NEW p \in Threads, Acts(p)
  PROVE  TypeOK'
<1>1. TypeOK /\ val_' \in [Queues -> 0..(Word - 1)]
  BY StepEffect DEF IInv
<1>2. pc[p] \in Points /\ on[p] \in Queues /\ key[p] \in 0..(EPOCHS - 1)
  BY <1>1 DEF TypeOK
<1>3. on' \in [Threads -> Queues]
  BY <1>1, ELCRQAssumption
     DEF TypeOK, Acts, Step, Calls, eventCount, enqueue, spinEnqueue, dequeue,
         spinDequeue, Call, DequeueFirst, DequeueAgain, SpinDequeueTry, DeqPoll, vars,
         Wake, AwaitLoad, AwaitFutex, Interrupt, doNotify, prepareWait, cancelWait,
         AwaitLeave, EndWait
<1>4. pc' \in [Threads -> Points]
  <2>1. CASE Wake(p)
    BY <1>1, <2>1 DEF TypeOK, Wake, nativeFutexWake, Goto, Points, WaitPoints, Asleep
  <2>2. CASE UNCHANGED pc \/ \E c \in Points : Goto(p, c)
    BY <1>1, <2>2 DEF TypeOK, Goto
  <2> QED
    BY <2>1, <2>2
       DEF Acts, Step, Calls, eventCount, enqueue, spinEnqueue, dequeue, spinDequeue,
           Call, DequeueFirst, DequeueAgain, SpinDequeueTry, DeqPoll, vars, AwaitLoad,
           AwaitFutex, nativeFutexWait, Interrupt, doNotify, prepareWait, cancelWait,
           AwaitLeave, EndWait, Points, WaitPoints
<1>5. key' \in [Threads -> 0..(EPOCHS - 1)]
  <2>1. CASE prepareWait(p)
    <3>1. Epoch(val_[on[p]]) \in 0..(EPOCHS - 1)
      BY <1>1, <1>2, Halves DEF TypeOK
    <3> QED  BY <1>1, <2>1, <3>1 DEF TypeOK, prepareWait
  <2>2. CASE UNCHANGED key \/ key' = [key EXCEPT ![p] = 0]
    BY <1>1, <2>2, Constants DEF TypeOK
  <2> QED
    BY <2>1, <2>2
       DEF Acts, Step, Calls, eventCount, enqueue, spinEnqueue, dequeue, spinDequeue,
           Call, DequeueFirst, DequeueAgain, SpinDequeueTry, DeqPoll, vars, Wake,
           AwaitLoad, AwaitFutex, Interrupt, doNotify, cancelWait, AwaitLeave, EndWait
<1>6. patience' \in [Threads -> 0..MAX_PATIENCE]
  <2>1. CASE SpinDequeueTry(p)
    BY <1>1, <2>1, ELCRQAssumption DEF TypeOK, SpinDequeueTry
  <2>2. CASE UNCHANGED patience
    BY <1>1, <2>2 DEF TypeOK
  <2> QED
    BY <2>1, <2>2
       DEF Acts, Step, Calls, enqueue, spinEnqueue, dequeue, spinDequeue, queue,
           DequeueFirst, DequeueAgain, DeqPoll, vars
<1>7. items' \in [Queues -> 0..MaxSent] /\ sent' \in [Queues -> 0..MaxSent]
  <2>1. CASE \E q \in Queues : enq(q)
    <3>1. PICK q \in Queues : enq(q)
      BY <2>1
    <3>2. items[q] <= sent[q]
      BY <3>1 DEF IInv, EpochInv
    <3> QED  BY <1>1, <3>1, <3>2, Constants DEF TypeOK, enq
  <2>2. CASE deq(on[p])
    BY <1>1, <1>2, <2>2, Constants DEF TypeOK, deq
  <2>3. CASE UNCHANGED <<items, sent>>
    BY <1>1, <2>3 DEF TypeOK
  <2> QED
    BY <2>1, <2>2, <2>3, ELCRQAssumption
       DEF Acts, Step, Calls, enqueue, spinEnqueue, dequeue, spinDequeue, queue,
           DequeueFirst, DequeueAgain, SpinDequeueTry, DeqPoll, deqEmpty, vars
<1> QED  BY <1>1, <1>3, <1>4, <1>5, <1>6, <1>7 DEF TypeOK
-----------------------------------------------------------------------------
\* Only a wake moves another thread than the one that takes the step.
LEMMA OthersStay ==
  ASSUME TypeOK, NEW p \in Threads, Acts(p), pc[p] # "wake"
  PROVE  /\ \A t \in Threads \ {p} : pc'[t] = pc[t] /\ on'[t] = on[t] /\ key'[t] = key[t]
         /\ \A q \in Queues : /\ Registered(q)' \ {p} = Registered(q) \ {p}
                              /\ Notifying(q)' \ {p} = Notifying(q) \ {p}
                              /\ Asleep(q)' \ {p} = Asleep(q) \ {p}
<1>1. \A t \in Threads \ {p} : pc'[t] = pc[t]
  BY DEF TypeOK, Acts, Step, Calls, eventCount, enqueue, spinEnqueue, dequeue,
         spinDequeue, Call, DequeueFirst, DequeueAgain, SpinDequeueTry, DeqPoll, vars,
         Wake, AwaitLoad, AwaitFutex, nativeFutexWait, Interrupt, doNotify, prepareWait,
         cancelWait, AwaitLeave, EndWait, Goto
<1>2. \A t \in Threads \ {p} : on'[t] = on[t] /\ key'[t] = key[t]
  BY DEF TypeOK, Acts, Step, Calls, eventCount, enqueue, spinEnqueue, dequeue,
         spinDequeue, Call, DequeueFirst, DequeueAgain, SpinDequeueTry, DeqPoll, vars,
         Wake, AwaitLoad, AwaitFutex, Interrupt, doNotify, prepareWait,
         cancelWait, AwaitLeave, EndWait
<1> QED  BY <1>1, <1>2 DEF Registered, Notifying, Asleep

\* FUTEX_WAKE sends its caller home and at most sleepers of the same queue
\* back to the load of await.
LEMMA WakeMoves ==
  ASSUME TypeOK, NEW p \in Threads, Wake(p)
  PROVE  /\ UNCHANGED <<val_, on, key>>
         /\ pc'[p] = "idle"
         /\ \A t \in Threads \ {p} :
              pc'[t] = pc[t] \/ (pc[t] = "asleep" /\ on[t] = on[p] /\ pc'[t] = "await")
<1>1. CASE Goto(p, "idle")
  BY <1>1 DEF TypeOK, Wake, Goto
<1>2. ASSUME NEW o \in Asleep(on[p]), pc' = [pc EXCEPT ![p] = "idle", ![o] = "await"]
      PROVE  /\ pc'[p] = "idle"
             /\ \A t \in Threads \ {p} :
                  pc'[t] = pc[t] \/ (pc[t] = "asleep" /\ on[t] = on[p] /\ pc'[t] = "await")
  <2>1. o \in Threads /\ pc[o] = "asleep" /\ on[o] = on[p] /\ o # p
    BY <1>2 DEF Asleep, Wake
  <2> QED  BY <1>2, <2>1 DEF TypeOK
<1> QED  BY <1>1, <1>2 DEF Wake, nativeFutexWake

\* The system call is all a thread does between the fetch-and-add that found
\* waiters and its return.
LEMMA WakesAtWake ==
  ASSUME NEW p \in Threads, Acts(p), pc[p] = "wake"
  PROVE  Wake(p)
BY DEF Acts, Step, Calls, eventCount, enqueue, spinEnqueue, dequeue, spinDequeue, Call,
       DequeueFirst, DequeueAgain, SpinDequeueTry, DeqPoll, AwaitLoad, AwaitFutex,
       Interrupt, doNotify, prepareWait, cancelWait, AwaitLeave

\* An enqueue adds one to the notifies to come on its queue, a notify takes
\* one away, and nothing else changes their number.
LEMMA NotifyingCount ==
  ASSUME TypeOK, NEW p \in Threads, Acts(p), NEW q \in Queues
  PROVE  LET N == Cardinality(Notifying(q))
             NN == Cardinality(Notifying(q)')
         IN  /\ N \in Nat
             /\ pc[p] = "notify" /\ q = on[p] => NN = N - 1
             /\ enqueue(p, q) => NN = N + 1
             /\ ~ (pc[p] = "notify" /\ q = on[p]) /\ ~ enqueue(p, q) => NN = N
<1>1. Notifying(q) \in SUBSET Threads /\ Notifying(q)' \in SUBSET Threads
  BY DEF Notifying
<1>2. CASE pc[p] = "wake"
  <2>1. Wake(p) /\ ~ enqueue(p, q)
    BY <1>2, WakesAtWake DEF enqueue, Call
  <2>2. Notifying(q)' = Notifying(q)
    BY <1>2, <2>1, WakeMoves DEF Notifying
  <2> QED  BY <1>1, <1>2, <2>1, <2>2, Members
<1>3. CASE pc[p] # "wake"
  <2>1. Notifying(q)' \ {p} = Notifying(q) \ {p}
    BY <1>3, OthersStay
  <2>2. CASE pc[p] = "notify" /\ q = on[p]
    <3>1. p \in Notifying(q) /\ p \notin Notifying(q)' /\ ~ enqueue(p, q)
      BY <2>2
         DEF TypeOK, Notifying, Acts, Step, Calls, eventCount, enqueue, spinEnqueue,
             dequeue, spinDequeue, Call, DequeueFirst, DequeueAgain, SpinDequeueTry,
             DeqPoll, Wake, AwaitLoad, AwaitFutex, Interrupt, doNotify, prepareWait,
             cancelWait, AwaitLeave, Goto
    <3> QED  BY <1>1, <2>1, <2>2, <3>1, OneMember
  <2>3. CASE enqueue(p, q)
    <3>1. p \notin Notifying(q) /\ p \in Notifying(q)' /\ pc[p] # "notify"
      BY <2>3 DEF TypeOK, Notifying, enqueue, Call, Goto
    <3> QED  BY <1>1, <2>1, <2>3, <3>1, OneMember
  <2>4. CASE ~ (pc[p] = "notify" /\ q = on[p]) /\ ~ enqueue(p, q)
    <3>1. p \in Notifying(q) <=> p \in Notifying(q)'
      BY <1>3, <2>4
         DEF TypeOK, Notifying, Acts, Step, Calls, eventCount, enqueue, spinEnqueue,
             dequeue, spinDequeue, Call, DequeueFirst, DequeueAgain, SpinDequeueTry,
             DeqPoll, vars, Wake, AwaitLoad, AwaitFutex, nativeFutexWait, Interrupt,
             doNotify, prepareWait, cancelWait, AwaitLeave, EndWait, Goto
    <3> QED  BY <1>1, <2>1, <2>4, <3>1, OneMember
  <2> QED  BY <2>2, <2>3, <2>4
<1> QED  BY <1>2, <1>3
-----------------------------------------------------------------------------
\* A step keeps the count of the waiters right.
LEMMA StepCounted ==
  ASSUME IInv, NEW p \in Threads, Acts(p)
  PROVE  WaitersCounted'
<1> SUFFICES ASSUME NEW q \in Queues
             PROVE  Waiters(val_'[q]) = Cardinality(Registered(q)')
  BY DEF WaitersCounted
<1>1. TypeOK /\ WaitersCounted /\ EpochInv /\ Waiters(val_[q]) = Cardinality(Registered(q))
  BY DEF IInv, WaitersCounted
<1>2. Registered(q) \in SUBSET Threads /\ Registered(q)' \in SUBSET Threads
  BY DEF Registered
<1>3. CASE pc[p] = "wake"
  <2>1. Wake(p)
    BY <1>3, WakesAtWake
  <2>2. Registered(q)' = Registered(q)
    BY <1>1, <1>3, <2>1, WakeMoves DEF Registered
  <2> QED  BY <1>1, <2>1, <2>2, WakeMoves
<1>4. CASE pc[p] # "wake"
  <2>1. Registered(q)' \ {p} = Registered(q) \ {p}
    BY <1>1, <1>4, OthersStay
  <2>2. CASE pc[p] = "prepare" /\ q = on[p]
    <3>1. p \notin Registered(q) /\ p \in Registered(q)'
      BY <1>1, <2>2
         DEF TypeOK, Registered, Acts, Step, Calls, eventCount, enqueue, spinEnqueue,
             dequeue, spinDequeue, Call, DequeueFirst, DequeueAgain, SpinDequeueTry,
             DeqPoll, Wake, AwaitLoad, AwaitFutex, Interrupt, doNotify, prepareWait,
             cancelWait, AwaitLeave, Goto
    <3>2. Waiters(val_'[q]) = Waiters(val_[q]) + 1
      BY <1>1, <2>2, StepEffect
    <3>3. Cardinality(Registered(q)') = Cardinality(Registered(q)) + 1
      BY <1>2, <2>1, <3>1, OneMember
    <3> QED  BY <1>1, <3>2, <3>3
  <2>3. CASE pc[p] \in {"cancel", "leave"} /\ q = on[p]
    <3>1. p \in Registered(q) /\ p \notin Registered(q)'
      BY <1>1, <2>3
         DEF TypeOK, Registered, Acts, Step, Calls, eventCount, enqueue, spinEnqueue,
             dequeue, spinDequeue, Call, DequeueFirst, DequeueAgain, SpinDequeueTry,
             DeqPoll, Wake, AwaitLoad, AwaitFutex, Interrupt, doNotify, prepareWait,
             cancelWait, AwaitLeave, EndWait, Goto
    <3>2. Waiters(val_'[q]) = Waiters(val_[q]) - 1
      BY <1>1, <2>3, StepEffect
    <3>3. Cardinality(Registered(q)') = Cardinality(Registered(q)) - 1
      BY <1>2, <2>1, <3>1, OneMember
    <3> QED  BY <1>1, <3>2, <3>3
  <2>4. CASE ~ (pc[p] \in {"prepare", "cancel", "leave"} /\ q = on[p])
    <3>1. p \in Registered(q) <=> p \in Registered(q)'
      BY <1>1, <1>4, <2>4
         DEF TypeOK, Registered, Acts, Step, Calls, eventCount, enqueue, spinEnqueue,
             dequeue, spinDequeue, Call, DequeueFirst, DequeueAgain, SpinDequeueTry,
             DeqPoll, vars, Wake, AwaitLoad, AwaitFutex, nativeFutexWait, Interrupt,
             doNotify, prepareWait, cancelWait, AwaitLeave, EndWait, Goto
    <3>2. Waiters(val_'[q]) = Waiters(val_[q])
      BY <1>1, <2>4, StepEffect
    <3>3. Cardinality(Registered(q)') = Cardinality(Registered(q))
      BY <1>2, <2>1, <3>1, OneMember
    <3> QED  BY <1>1, <3>2, <3>3
  <2> QED  BY <2>2, <2>3, <2>4
<1> QED  BY <1>3, <1>4

\* A step keeps the epochs below the number of enqueues.
LEMMA StepEpoch ==
  ASSUME IInv, NEW p \in Threads, Acts(p)
  PROVE  EpochInv'
<1>1. TypeOK /\ WaitersCounted /\ EpochInv
  BY DEF IInv
<1> SUFFICES ASSUME NEW q \in Queues
             PROVE  /\ Epoch(val_'[q]) + Cardinality(Notifying(q)') <= sent'[q]
                    /\ items'[q] <= sent'[q]
  BY DEF EpochInv
<1> DEFINE N == Cardinality(Notifying(q))
           NN == Cardinality(Notifying(q)')
<1>2. /\ N \in Nat
      /\ pc[p] = "notify" /\ q = on[p] => NN = N - 1
      /\ enqueue(p, q) => NN = N + 1
      /\ ~ (pc[p] = "notify" /\ q = on[p]) /\ ~ enqueue(p, q) => NN = N
  BY <1>1, NotifyingCount
<1>3. /\ Epoch(val_[q]) \in Nat /\ items[q] \in Nat /\ sent[q] \in Nat
      /\ Epoch(val_[q]) + N <= sent[q] /\ items[q] <= sent[q]
  BY <1>1, Halves, Constants DEF EpochInv, TypeOK
<1>4. items'[q] <= sent'[q] /\ sent'[q] >= sent[q] /\ sent'[q] \in Nat
  BY <1>1, <1>3
     DEF TypeOK, Acts, Step, Calls, enqueue, spinEnqueue, dequeue, spinDequeue, queue,
         DequeueFirst, DequeueAgain, SpinDequeueTry, DeqPoll, vars, enq, deq, deqEmpty
<1> HIDE DEF N, NN
<1> SUFFICES Epoch(val_'[q]) + NN <= sent'[q]
  BY <1>4 DEF NN
<1>5. CASE pc[p] = "notify" /\ q = on[p]
  <2>1. Epoch(val_'[q]) = Epoch(val_[q]) + 1
    BY <1>1, <1>5, StepEffect
  <2>2. NN = N - 1
    BY Zenon, <1>2, <1>5
  <2> QED  BY <1>2, <1>3, <1>4, <2>1, <2>2
<1>6. CASE enqueue(p, q)
  <2>1. sent'[q] = sent[q] + 1 /\ UNCHANGED val_
    BY <1>1, <1>6 DEF TypeOK, enqueue, enq, Call
  <2>2. NN = N + 1
    BY Zenon, <1>2, <1>6
  <2> QED  BY <1>2, <1>3, <2>1, <2>2
<1>7. CASE ~ (pc[p] = "notify" /\ q = on[p]) /\ ~ enqueue(p, q)
  <2>1. Epoch(val_'[q]) = Epoch(val_[q])
    BY <1>1, <1>7, StepEffect
  <2>2. NN = N
    BY Zenon, <1>2, <1>7
  <2> QED  BY <1>2, <1>3, <1>4, <2>1, <2>2
<1> QED  BY <1>5, <1>6, <1>7

\* A step keeps the keys below the epochs, and sleepers off the queues that
\* are spun on.
LEMMA StepKey ==
  ASSUME IInv, NEW p \in Threads, Acts(p)
  PROVE  KeyInv'
<1>1. TypeOK /\ WaitersCounted /\ EpochInv /\ KeyInv
  BY DEF IInv
<1>2. \A q \in Queues : /\ Epoch(val_[q]) \in Nat /\ Epoch(val_'[q]) \in Nat
                        /\ Epoch(val_[q]) <= Epoch(val_'[q])
  <2>1. \A q \in Queues : Epoch(val_[q]) \in Nat
    BY <1>1, Halves DEF TypeOK
  <2> QED  BY <1>1, <2>1, StepEffect
<1>3. \A t \in Threads : on[t] \in Queues /\ key[t] \in Nat
  BY <1>1, Constants DEF TypeOK
<1> SUFFICES ASSUME NEW t \in Threads
             PROVE  /\ pc'[t] \in Waiting => key'[t] <= Epoch(val_'[on'[t]])
                    /\ pc'[t] \in WaitPoints => on'[t] \notin Spinning
  BY DEF KeyInv
<1>4. CASE pc[p] = "wake"
  <2>1. /\ on'[t] = on[t] /\ key'[t] = key[t]
        /\ pc'[t] = pc[t] \/ pc'[t] = "idle" \/ (pc[t] = "asleep" /\ pc'[t] = "await")
    BY <1>1, <1>4, WakesAtWake, WakeMoves
  <2> QED  BY <1>1, <1>2, <1>3, <2>1 DEF KeyInv, Waiting, WaitPoints
<1>5. CASE pc[p] # "wake" /\ t # p
  BY <1>1, <1>2, <1>3, <1>5, OthersStay DEF KeyInv
<1>6. CASE pc[p] # "wake" /\ t = p
  <2>1. pc'[p] \in Waiting =>
          /\ on'[p] = on[p]
          /\ \/ pc[p] \in Waiting /\ key'[p] = key[p]
             \/ key'[p] = Epoch(val_[on[p]])
    BY <1>1, <1>6
       DEF TypeOK, Waiting, Acts, Step, Calls, eventCount, enqueue, spinEnqueue, dequeue,
           spinDequeue, Call, DequeueFirst, DequeueAgain, SpinDequeueTry, DeqPoll, vars,
           Wake, AwaitLoad, AwaitFutex, nativeFutexWait, Interrupt, doNotify,
           prepareWait, cancelWait, AwaitLeave, EndWait, Goto
  <2>2. pc'[p] \in WaitPoints =>
          on'[p] \notin Spinning \/ (pc[p] \in WaitPoints /\ on'[p] = on[p])
    BY <1>1, <1>6
       DEF TypeOK, WaitPoints, Acts, Step, Calls, eventCount, enqueue, spinEnqueue, dequeue,
           spinDequeue, Call, DequeueFirst, DequeueAgain, SpinDequeueTry, DeqPoll, vars,
           Wake, AwaitLoad, AwaitFutex, nativeFutexWait, Interrupt, doNotify,
           prepareWait, cancelWait, AwaitLeave, EndWait, Goto
  <2> QED  BY <1>1, <1>2, <1>3, <1>6, <2>1, <2>2 DEF KeyInv
<1> QED  BY <1>4, <1>5, <1>6

\* Items come one at a time, from an enqueue, and leave one at a time.
LEMMA ItemsStep ==
  ASSUME TypeOK, NEW p \in Threads, Acts(p), NEW q \in Queues
  PROVE  \/ items'[q] = items[q] + 1 /\ (enqueue(p, q) \/ q \in Spinning)
         \/ items'[q] = items[q] - 1
         \/ items'[q] = items[q]
<1>0. on[p] \in Queues /\ items \in [Queues -> Nat] /\ Spinning \subseteq Queues
  BY Constants, ELCRQAssumption DEF TypeOK
<1>1. \/ \E r \in Queues : enq(r) /\ (enqueue(p, r) \/ r \in Spinning)
      \/ \E r \in Queues : deq(r)
      \/ items' = items
  <2>1. CASE Calls(p)
    BY Zenon, <1>0, <2>1 DEF Calls, enqueue, spinEnqueue, dequeue, spinDequeue, queue
  <2>2. CASE DequeueFirst(p) \/ DequeueAgain(p) \/ SpinDequeueTry(p)
    BY Zenon, <1>0, <2>2 DEF DequeueFirst, DequeueAgain, SpinDequeueTry, deqEmpty
  <2>3. CASE DeqPoll(p) \/ UNCHANGED queue
    BY Zenon, <2>3 DEF DeqPoll, vars, queue
  <2> QED  BY Zenon, <2>1, <2>2, <2>3 DEF Acts, Step
<1>2. ASSUME NEW r \in Queues, enq(r), enqueue(p, r) \/ r \in Spinning
      PROVE  items'[q] = items[q] \/ (items'[q] = items[q] + 1 /\ q = r)
  BY <1>0, <1>2 DEF enq
<1>3. ASSUME NEW r \in Queues, deq(r)
      PROVE  items'[q] = items[q] \/ items'[q] = items[q] - 1
  BY <1>0, <1>3 DEF deq
<1> QED  BY Zenon, <1>1, <1>2, <1>3

\* A step keeps what a thread with a current key relies on: a notify makes the
\* keys stale, an enqueue adds a notify, and the second deq of a dequeue goes
\* to await only from an empty queue.
LEMMA StepAwait ==
  ASSUME IInv, NEW p \in Threads, Acts(p)
  PROVE  AwaitInv'
<1>1. TypeOK /\ WaitersCounted /\ EpochInv /\ KeyInv /\ AwaitInv
  BY DEF IInv
<1> SUFFICES ASSUME NEW t \in Threads, NEW q \in Queues,
                    pc'[t] \in {"await", "futex", "asleep"}, on'[t] = q,
                    key'[t] = Epoch(val_'[q])
             PROVE  items'[q] <= Cardinality(Notifying(q)')
  BY DEF AwaitInv
<1> DEFINE N == Cardinality(Notifying(q))
           NN == Cardinality(Notifying(q)')
<1>2. key[t] \in Nat /\ Epoch(val_[q]) \in Nat
      /\ items \in [Queues -> Nat]
  BY <1>1, Halves, Constants DEF TypeOK
<1>3. /\ on[t] = q /\ key'[t] = key[t]
      /\ \/ pc[t] \in {"await", "futex", "asleep"}
         \/ t = p /\ pc[p] = "recheck" /\ items[q] = 0 /\ UNCHANGED items
  <2>1. CASE pc[p] = "wake"
    BY <1>1, <2>1, WakesAtWake, WakeMoves
  <2>2. CASE pc[p] # "wake" /\ t # p
    BY <1>1, <2>2, OthersStay
  <2>3. CASE pc[p] # "wake" /\ t = p
    BY <1>1, <2>3
       DEF TypeOK, Acts, Step, Calls, eventCount, enqueue, spinEnqueue, dequeue,
           spinDequeue, Call, DequeueFirst, DequeueAgain, SpinDequeueTry, DeqPoll, vars,
           Wake, AwaitLoad, AwaitFutex, nativeFutexWait, Interrupt, doNotify,
           prepareWait, cancelWait, AwaitLeave, EndWait, Goto, deq, deqEmpty
  <2> QED  BY <2>1, <2>2, <2>3
<1>4. key[t] <= Epoch(val_[q]) /\ q \notin Spinning
  BY <1>1, <1>3 DEF KeyInv, Waiting, WaitPoints
<1>5. ~ (pc[p] = "notify" /\ q = on[p]) /\ Epoch(val_'[q]) = Epoch(val_[q])
  <2>1. Epoch(val_'[q]) = IF pc[p] = "notify" /\ q = on[p] THEN Epoch(val_[q]) + 1
                          ELSE Epoch(val_[q])
    BY <1>1, <1>2, StepEffect
  <2>2. Epoch(val_'[q]) <= Epoch(val_[q])
    BY <1>3, <1>4
  <2>3. \A e \in Nat : ~ (e + 1 <= e)
    OBVIOUS
  <2> QED  BY <1>2, <2>1, <2>2, <2>3
<1>6. /\ N \in Nat
      /\ enqueue(p, q) => NN = N + 1
      /\ ~ enqueue(p, q) => NN = N
  BY <1>1, <1>2, <1>5, NotifyingCount
<1>7. items[q] <= N \/ (items[q] = 0 /\ UNCHANGED items)
  <2>1. key[t] = Epoch(val_[q])
    BY Zenon, <1>3, <1>5
  <2> QED  BY Zenon, <1>1, <1>3, <2>1 DEF AwaitInv
<1>8. /\ items'[q] \in Nat /\ items[q] \in Nat
      /\ items'[q] <= items[q] + 1
      /\ ~ enqueue(p, q) => items'[q] <= items[q]
  <2>1. items[q] \in Nat /\ items'[q] \in Nat
    BY <1>2, StepType, Constants DEF TypeOK
  <2>2. \A a, b \in Nat : b = a + 1 \/ b = a - 1 \/ b = a => b <= a + 1
    OBVIOUS
  <2>3. \A a, b \in Nat : b = a - 1 \/ b = a => b <= a
    OBVIOUS
  <2> QED  BY Zenon, <1>1, <1>4, <2>1, <2>2, <2>3, ItemsStep
<1>9. UNCHANGED items => items'[q] = items[q]
  OBVIOUS
<1> HIDE DEF N, NN
<1>10. items'[q] <= NN
  <2>1. CASE enqueue(p, q)
    <3>1. NN = N + 1
      BY Zenon, <1>6, <2>1
    <3> QED  BY <1>6, <1>7, <1>8, <1>9, <3>1
  <2>2. CASE ~ enqueue(p, q)
    <3>1. NN = N /\ items'[q] <= items[q]
      BY Zenon, <1>6, <1>8, <2>2
    <3> QED  BY <1>6, <1>7, <1>8, <1>9, <3>1
  <2> QED  BY <2>1, <2>2
<1> QED  BY <1>10 DEF NN

\* A step keeps a helper for every item of a queue with sleepers.  An enqueue
\* comes with a helper, and a dequeue that stops helping has taken an item.  A
\* notify that sees sleepers goes on to wake, and leaves the stale keys stale.
\* A thread that is woken takes the place of the one that woke it if its key is
\* stale; if not, AwaitInv says that the enqueues to come are enough.
LEMMA StepSleep ==
  ASSUME IInv, NEW p \in Threads, Acts(p)
  PROVE  SleepInv'
<1>1. TypeOK /\ WaitersCounted /\ EpochInv /\ KeyInv /\ AwaitInv /\ SleepInv /\ TypeOK'
  BY StepType DEF IInv
<1> SUFFICES ASSUME NEW q \in Queues, Asleep(q)' # {}
             PROVE  items'[q] <= Cardinality(Helpers(q)')
  BY DEF SleepInv
<1> DEFINE H == Helpers(q)
           HH == Helpers(q)'
<1>2. H \in SUBSET Threads /\ HH \in SUBSET Threads
      /\ Notifying(q) \in SUBSET H /\ Notifying(q) \in SUBSET Threads
  BY DEF Helpers, Notifying
<1>3. Cardinality(H) \in Nat /\ Cardinality(HH) \in Nat
      /\ Cardinality(Notifying(q)) \in Nat
  BY <1>2, Members
<1>4. /\ items \in [Queues -> Nat] /\ items'[q] \in Nat
      /\ Epoch(val_[q]) \in Nat
      /\ \A t \in Threads : key[t] \in Nat /\ on[t] \in Queues
  BY <1>1, Halves, Constants DEF TypeOK
<1>5. Asleep(q) # {} => items[q] <= Cardinality(H)
  BY <1>1 DEF SleepInv
<1>6. CASE Wake(p)
  <2>1. UNCHANGED <<val_, on, key, items>>
    BY <1>6 DEF Acts, Step, Calls, eventCount, enqueue, spinEnqueue, dequeue, spinDequeue,
                Call, DequeueFirst, DequeueAgain, SpinDequeueTry, DeqPoll, Wake, queue,
                Interrupt
  <2>2. CASE on[p] # q
    <3>1. H = HH /\ Asleep(q)' = Asleep(q)
      BY <1>1, <1>6, <2>1, <2>2, WakeMoves DEF Helpers, Asleep
    <3> QED  BY <1>5, <2>1, <3>1
  <2>3. CASE on[p] = q /\ Asleep(q) = {}
    <3>1. Asleep(q)' = {}
      BY <1>1, <1>6, <2>3, WakeMoves DEF Asleep
    <3> QED  BY <3>1
  <2>4. CASE on[p] = q /\ Asleep(q) # {}
    <3>1. PICK o \in Asleep(q) : pc' = [pc EXCEPT ![p] = "idle", ![o] = "await"]
      BY <1>6, <2>4 DEF Wake, nativeFutexWake
    <3>2. o \in Threads /\ o # p /\ pc[o] = "asleep" /\ on[o] = q /\ pc[p] = "wake"
          /\ pc'[o] = "await" /\ pc'[p] = "idle"
          /\ \A t \in Threads \ {o, p} : pc'[t] = pc[t]
      BY <1>1, <1>6, <3>1 DEF Asleep, Wake, TypeOK
    <3>3. CASE key[o] = Epoch(val_[q])
      <4>1. items[q] <= Cardinality(Notifying(q))
        BY <1>1, <3>2, <3>3 DEF AwaitInv
      <4>2. Notifying(q) \in SUBSET HH
        BY <2>1, <3>2 DEF Notifying, Helpers
      <4>3. Cardinality(Notifying(q)) <= Cardinality(HH)
        BY <1>2, <4>2, Members
      <4> QED  BY <1>3, <1>4, <2>1, <4>1, <4>3
    <3>4. CASE key[o] # Epoch(val_[q])
      <4> DEFINE M == H \cup {o}
      <4>1. o \notin H /\ p \in H /\ p \notin HH /\ o \in HH
        BY <2>1, <2>4, <3>2, <3>4 DEF Helpers
      <4>2. M \ {o} = H \ {o} /\ M \ {p} = HH \ {p} /\ M \in SUBSET Threads
        BY <2>1, <2>4, <3>2, <3>4 DEF Helpers
      <4>3. Cardinality(M) = Cardinality(H) + 1
        BY SMTT(30), <1>2, <3>2, <4>1, <4>2, OneMember
      <4>4. Cardinality(HH) = Cardinality(M) - 1
        BY <1>2, <3>2, <4>1, <4>2, OneMember
      <4> QED  BY <1>3, <1>5, <2>1, <2>4, <4>3, <4>4
    <3> QED  BY <3>3, <3>4
  <2> QED  BY <2>2, <2>3, <2>4
<1>7. CASE doNotify(p) /\ q = on[p]
  <2>1. Epoch(val_'[q]) = Epoch(val_[q]) + 1 /\ pc[p] = "notify"
    BY <1>1, <1>7, NotifyEffect DEF doNotify
  <2>2. UNCHANGED <<on, key, items>>
    BY <1>7 DEF doNotify, Acts, Step, Calls, eventCount, enqueue, spinEnqueue, dequeue,
                spinDequeue, Call, DequeueFirst, DequeueAgain, SpinDequeueTry, DeqPoll,
                queue, Interrupt
  <2>3. \A t \in Threads \ {p} : pc'[t] = pc[t]
    BY <1>1, <2>1, OthersStay
  <2>4. pc'[p] = IF Waiters(val_[q]) # 0 THEN "wake" ELSE "idle"
    BY <1>1, <1>7 DEF doNotify, Goto, TypeOK
  <2>5. PICK s \in Threads : pc'[s] = "asleep" /\ on'[s] = q
    BY DEF Asleep
  <2>6. s # p /\ pc[s] = "asleep" /\ on[s] = q
    BY <2>2, <2>3, <2>4, <2>5
  <2>7. pc'[p] = "wake"
    <3>1. s \in Registered(q) /\ Registered(q) \in SUBSET Threads
      BY <2>6 DEF Registered
    <3>2. Cardinality(Registered(q)) \in Nat /\ Cardinality(Registered(q)) >= 1
      BY <3>1, Members
    <3> QED  BY <1>1, <2>4, <3>2 DEF WaitersCounted
  <2>8. H \in SUBSET HH
    <3>1. \A t \in Threads : pc[t] \in {"await", "futex"} /\ on[t] = q
                                => key[t] # Epoch(val_'[q])
      <4>1. \A k, e \in Nat : k <= e => k # e + 1
        OBVIOUS
      <4> QED  BY <1>1, <1>4, <2>1, <4>1 DEF KeyInv, Waiting
    <3> QED  BY <1>7, <2>2, <2>3, <2>7, <3>1 DEF Helpers
  <2>9. Cardinality(H) <= Cardinality(HH) /\ Asleep(q) # {}
    BY <1>2, <2>6, <2>8, Members DEF Asleep
  <2> QED  BY SMTT(30), <1>3, <1>4, <1>5, <2>2, <2>9
<1>8. CASE ~ Wake(p) /\ ~ (doNotify(p) /\ q = on[p])
  <2>1. pc[p] # "wake" /\ ~ (pc[p] = "notify" /\ q = on[p])
    BY <1>8, WakesAtWake
       DEF Acts, Step, Calls, eventCount, enqueue, spinEnqueue, dequeue, spinDequeue,
           Call, DequeueFirst, DequeueAgain, SpinDequeueTry, DeqPoll, AwaitLoad,
           AwaitFutex, Interrupt, prepareWait, cancelWait, AwaitLeave
  <2>2. Epoch(val_'[q]) = Epoch(val_[q])
    BY <1>1, <2>1, StepEffect
  <2>3. \A t \in Threads \ {p} : pc'[t] = pc[t] /\ on'[t] = on[t] /\ key'[t] = key[t]
    BY <1>1, <2>1, OthersStay
  <2>4. HH \ {p} = H \ {p} /\ Asleep(q)' \ {p} = Asleep(q) \ {p}
    BY <2>2, <2>3 DEF Helpers, Asleep
  <2>5. CASE enqueue(p, q)
    <3>1. p \notin H /\ p \in HH /\ items'[q] = items[q] + 1 /\ Asleep(q)' = Asleep(q)
      BY <1>1, <1>4, <2>4, <2>5 DEF TypeOK, Helpers, Asleep, enqueue, Call, enq, Goto
    <3>2. Cardinality(HH) = Cardinality(H) + 1
      BY <1>2, <2>4, <3>1, OneMember
    <3> QED  BY <1>3, <1>4, <1>5, <3>1, <3>2
  <2>6. CASE spinEnqueue(p, q) /\ q \in Spinning
    <3>1. Asleep(q) = {}
      BY <1>1, <2>6 DEF KeyInv, WaitPoints, Asleep
    <3>2. p \notin Asleep(q)'
      BY <1>1, <2>6 DEF TypeOK, Asleep, spinEnqueue, Call, Goto
    <3> QED  BY <2>4, <3>1, <3>2
  <2>7. CASE DequeueAgain(p) /\ q = on[p]
    <3>1. CASE deq(q) /\ Goto(p, "cancel")
      <4>1. p \in H /\ p \notin HH /\ items'[q] = items[q] - 1 /\ Asleep(q)' = Asleep(q)
        BY <1>1, <1>4, <2>4, <2>7, <3>1 DEF TypeOK, Helpers, Asleep, DequeueAgain, deq, Goto
      <4>2. Cardinality(HH) = Cardinality(H) - 1
        BY <1>2, <2>4, <4>1, OneMember
      <4> QED  BY <1>3, <1>4, <1>5, <4>1, <4>2
    <3>2. CASE deqEmpty(q)
      BY <1>3, <3>2 DEF deqEmpty
    <3> QED  BY <2>7, <3>1, <3>2 DEF DequeueAgain
  <2>8. CASE AwaitFutex(p) /\ q = on[p] /\ key[p] = Epoch(val_[q])
    <3>1. items[q] <= Cardinality(Notifying(q)) /\ UNCHANGED items
      BY <1>1, <2>8
         DEF AwaitInv, AwaitFutex, Acts, Step, Calls, eventCount, enqueue, spinEnqueue,
             dequeue, spinDequeue, Call, DequeueFirst, DequeueAgain, SpinDequeueTry,
             DeqPoll, queue, Interrupt, vars
    <3>2. Notifying(q) \in SUBSET HH
      BY <2>3, <2>8 DEF Notifying, Helpers, AwaitFutex
    <3>3. Cardinality(Notifying(q)) <= Cardinality(HH)
      BY <1>2, <3>2, Members
    <3> QED  BY <1>3, <1>4, <3>1, <3>3
  <2>9. CASE /\ ~ enqueue(p, q) /\ ~ (spinEnqueue(p, q) /\ q \in Spinning)
             /\ ~ (DequeueAgain(p) /\ q = on[p])
             /\ ~ (AwaitFutex(p) /\ q = on[p] /\ key[p] = Epoch(val_[q]))
    <3>1. items'[q] <= items[q]
      <4>1. \/ UNCHANGED items \/ deq(on[p])
            \/ \E x \in Queues \ {q} : enq(x)
        BY <2>9, ELCRQAssumption
           DEF Acts, Step, Calls, enqueue, spinEnqueue, dequeue, spinDequeue, queue,
               DequeueFirst, DequeueAgain, SpinDequeueTry, DeqPoll, vars, deqEmpty
      <4> QED  BY <1>4, <4>1 DEF enq, deq
    <3>2. p \in H => p \in HH
      BY <1>1, <1>8, <2>1, <2>2, <2>9
         DEF TypeOK, Helpers, Acts, Step, Calls, eventCount, enqueue, spinEnqueue, dequeue,
             spinDequeue, Call, DequeueFirst, DequeueAgain, SpinDequeueTry, DeqPoll, vars,
             AwaitLoad, AwaitFutex, nativeFutexWait, Interrupt, doNotify, prepareWait,
             cancelWait, AwaitLeave, EndWait, Goto
    <3>3. p \in Asleep(q)' => p \in Asleep(q)
      BY <1>1, <1>8, <2>1, <2>9
         DEF TypeOK, Asleep, Acts, Step, Calls, eventCount, enqueue, spinEnqueue, dequeue,
             spinDequeue, Call, DequeueFirst, DequeueAgain, SpinDequeueTry, DeqPoll, vars,
             AwaitLoad, AwaitFutex, nativeFutexWait, Interrupt, doNotify, prepareWait,
             cancelWait, AwaitLeave, EndWait, Goto
    <3>4. H \in SUBSET HH /\ Asleep(q) # {}
      BY <1>2, <2>4, <3>2, <3>3
    <3>5. Cardinality(H) <= Cardinality(HH)
      BY <1>2, <3>4, Members
    <3> QED  BY <1>3, <1>4, <1>5, <3>1, <3>4, <3>5
  <2> QED  BY <2>5, <2>6, <2>7, <2>8, <2>9
<1> QED  BY <1>6, <1>7, <1>8
-----------------------------------------------------------------------------
\* The inductive invariant holds in every state of every behaviour.
THEOREM Inductive == Spec => []IInv
<1>1. Init => IInv
  <2> SUFFICES ASSUME Init PROVE IInv
    OBVIOUS
  <2>1. Word \in Nat /\ Word > 0
    BY Constants DEF Word
  <2>2. TypeOK
    <3>1. (CHOOSE q \in Queues : TRUE) \in Queues
      BY ELCRQAssumption
    <3> QED  BY <2>1, <3>1, Constants, ELCRQAssumption
             DEF Init, TypeOK, initEventCount, Points
  <2>3. Epoch(0) = 0 /\ Waiters(0) = 0
    BY Constants, Division DEF Epoch, Waiters
  <2>4. Cardinality({}) = 0
    BY FS_EmptySet
  <2>5. \A q \in Queues : /\ Registered(q) = {} /\ Notifying(q) = {} /\ Asleep(q) = {}
                          /\ val_[q] = 0 /\ items[q] = 0 /\ sent[q] = 0
    BY DEF Init, initEventCount, Registered, Notifying, Asleep
  <2>6. WaitersCounted
    BY <2>3, <2>4, <2>5 DEF WaitersCounted
  <2>7. EpochInv
    BY <2>3, <2>4, <2>5 DEF EpochInv
  <2>8. \A p \in Threads : pc[p] = "idle"
    BY DEF Init
  <2>9. KeyInv /\ AwaitInv /\ SleepInv
    BY <2>5, <2>8 DEF KeyInv, AwaitInv, SleepInv, Waiting, WaitPoints
  <2> QED  BY <2>2, <2>6, <2>7, <2>9 DEF IInv
<1>2. IInv /\ [Next]_vars => IInv'
  <2>1. ASSUME IInv, NEW p \in Threads, Acts(p) PROVE IInv'
    BY <2>1, StepType, StepCounted, StepEpoch, StepKey, StepAwait, StepSleep DEF IInv
  <2>2. CASE UNCHANGED vars
    BY <2>2 DEF vars, IInv, TypeOK, WaitersCounted, Registered, EpochInv, Notifying,
                KeyInv, AwaitInv, SleepInv, Asleep, Helpers
  <2> QED  BY <2>1, <2>2 DEF Next, Acts
<1> QED  BY <1>1, <1>2, PTL DEF Spec

\* Every variable keeps its type, for any number of threads, queues and epochs.
THEOREM TypeCorrect == Spec => []TypeOK
<1>1. IInv => TypeOK
  BY DEF IInv
<1> QED  BY <1>1, Inductive, PTL

\* The low half of val_ is the number of registered waiters, for any number of
\* threads that fits into it: no fetch-and-add ever carries into the epoch, and
\* no subtraction borrows from it.
THEOREM WaitersAreCounted == Spec => []WaitersCounted
<1>1. IInv => WaitersCounted
  BY DEF IInv
<1> QED  BY <1>1, Inductive, PTL

\* No wake-up is lost, for any number of threads and queues: with an item in
\* the queue and a dequeue asleep on it, somebody is on the way.
THEOREM NoWakeupLost == Spec => []NoLostWakeup
<1>1. IInv => NoLostWakeup
  <2> SUFFICES ASSUME IInv, NEW q \in Queues, items[q] > 0, Asleep(q) # {}
               PROVE  Helpers(q) # {}
    BY DEF NoLostWakeup
  <2>1. items[q] <= Cardinality(Helpers(q)) /\ items[q] \in Nat
    BY Constants DEF IInv, SleepInv, TypeOK
  <2>2. Helpers(q) = {} => Cardinality(Helpers(q)) = 0
    BY FS_EmptySet
  <2> QED  BY <2>1, <2>2
<1> QED  BY <1>1, Inductive, PTL
-----------------------------------------------------------------------------
\* The operation of BlockingQueue that a thread at point c on queue q is doing.
DoingAt(c, q) ==
  CASE c = "idle" -> <<"idle">>
    [] c \in {"notify", "wake", "cancel"} -> <<"leaving", q>>
    [] c = "spin" -> <<"spinDequeue", q>>
    [] OTHER -> <<"dequeue", q>>

Doing == [p \in Threads |-> DoingAt(pc[p], on[p])]
Used == [q \in Queues |-> sent[q] > 0]

\* The safety part of BlockingQueue, under the refinement mapping of Promise.
PromiseSafety == Promise!Init /\ [][Promise!Next]_(Promise!vars)

\* The abstract operation at every point of the code.
LEMMA DoingPoints ==
  ASSUME NEW q
  PROVE  /\ DoingAt("idle", q) = <<"idle">>
         /\ \A c \in {"notify", "wake", "cancel"} : DoingAt(c, q) = <<"leaving", q>>
         /\ DoingAt("spin", q) = <<"spinDequeue", q>>
         /\ \A c \in WaitPoints : DoingAt(c, q) = <<"dequeue", q>>
BY DEF DoingAt, WaitPoints

\* A step changes the abstract operation of its own thread only: for a sleeper
\* that it wakes, the dequeue simply goes on.
LEMMA OneDoes ==
  ASSUME TypeOK, NEW p \in Threads, Acts(p)
  PROVE  Doing' = [Doing EXCEPT ![p] = DoingAt(pc'[p], on'[p])]
<1>1. CASE pc[p] = "wake"
  <2>1. \A t \in Threads \ {p} : DoingAt(pc'[t], on'[t]) = DoingAt(pc[t], on[t])
    BY <1>1, WakesAtWake, WakeMoves, DoingPoints DEF WaitPoints
  <2> QED  BY <2>1 DEF Doing
<1>2. CASE pc[p] # "wake"
  BY <1>2, OthersStay DEF Doing
<1> QED  BY <1>1, <1>2

\* Every step is a step of BlockingQueue or leaves its variables alone.
LEMMA StepPromise ==
  ASSUME TypeOK, NEW p \in Threads, Acts(p)
  PROVE  [Promise!Next]_(Promise!vars)
<1>1. /\ pc \in [Threads -> Points] /\ on \in [Threads -> Queues]
      /\ sent \in [Queues -> Nat] /\ items \in [Queues -> Nat]
  BY Constants DEF TypeOK
<1>2. Doing[p] = DoingAt(pc[p], on[p])
  BY DEF Doing
<1>3. Doing' = [Doing EXCEPT ![p] = DoingAt(pc'[p], on'[p])]
  BY OneDoes
<1>4. PICK r \in Queues : r = on[p]
  BY <1>1
<1>5. UNCHANGED sent => UNCHANGED Used
  BY DEF Used
<1>6. ASSUME DoingAt(pc'[p], on'[p]) = DoingAt(pc[p], on[p]), UNCHANGED <<items, sent>>
      PROVE  UNCHANGED Promise!vars
  <2>1. Doing' = Doing
    BY <1>2, <1>3, <1>6 DEF Doing
  <2> QED  BY <1>5, <1>6, <2>1 DEF Promise!vars, Doing, DoingAt, Used
<1>7. ASSUME NEW q \in Queues, enqueue(p, q) \/ spinEnqueue(p, q)
      PROVE  Promise!Enqueue(p, q)
  <2>1. Doing[p] = <<"idle">>
    BY <1>2, <1>7, DoingPoints DEF enqueue, spinEnqueue, Call
  <2>2. items' = [items EXCEPT ![q] = @ + 1] /\ Used' = [Used EXCEPT ![q] = TRUE]
    <3>1. items' = [items EXCEPT ![q] = @ + 1] /\ sent' = [sent EXCEPT ![q] = @ + 1]
      BY <1>7 DEF enqueue, spinEnqueue, enq
    <3>2. sent'[q] > 0 /\ \A x \in Queues \ {q} : sent'[x] = sent[x]
      BY <1>1, <3>1
    <3>3. \A x \in Queues : (sent'[x] > 0) = (IF x = q THEN TRUE ELSE sent[x] > 0)
      BY <3>2, Zenon
    <3>4. Used' = [Used EXCEPT ![q] = TRUE]
      BY <3>3, Zenon DEF Used
    <3> QED  BY <3>1, <3>4
  <2>3. Doing' \in {Doing, [Doing EXCEPT ![p] = <<"leaving", q>>]}
    <3>1. CASE enqueue(p, q)
      <4>1. pc'[p] = "notify" /\ on'[p] = q
        BY <1>1, <3>1 DEF enqueue, Call, Goto
      <4> QED  BY <1>3, <4>1, DoingPoints
    <3>2. CASE spinEnqueue(p, q)
      <4>1. pc'[p] = "idle"
        BY <1>1, <3>2 DEF spinEnqueue, Call, Goto
      <4>2. Doing' = [Doing EXCEPT ![p] = Doing[p]]
        BY <1>3, <2>1, <4>1, DoingPoints
      <4>3. Doing' = Doing
        BY <4>2, Zenon DEF Doing
      <4> QED  BY <4>3
    <3> QED  BY <1>7, <3>1, <3>2
  <2> QED  BY <2>1, <2>2, <2>3 DEF Promise!Enqueue, Promise!Idle, Doing, DoingAt, Used
<1>8. ASSUME NEW q \in Queues, dequeue(p, q) \/ spinDequeue(p, q)
      PROVE  Promise!Dequeue(p, q)
  <2>1. Doing[p] = <<"idle">> /\ UNCHANGED <<items, sent>>
    BY <1>2, <1>8, DoingPoints DEF dequeue, spinDequeue, Call, queue
  <2>2. pc'[p] \in {"deq", "spin"} /\ on'[p] = q
    BY <1>1, <1>8 DEF dequeue, spinDequeue, Call, Goto
  <2>3. DoingAt(pc'[p], on'[p]) \in {<<o, q>> : o \in {"dequeue", "spinDequeue"}}
    BY <2>2, DoingPoints DEF WaitPoints
  <2>4. Doing' \in {[Doing EXCEPT ![p] = <<o, q>>] : o \in {"dequeue", "spinDequeue"}}
    BY <1>3, <2>3
  <2> QED  BY <1>5, <2>1, <2>4
           DEF Promise!Dequeue, Promise!Idle, Doing, DoingAt, Used
<1>9. ASSUME deq(r), pc[p] \in {"deq", "recheck", "spin"}, UNCHANGED on,
             pc'[p] \in {"idle", "cancel"}
      PROVE  Promise!Take(p, r)
  <2>1. Doing[p] \in {<<"dequeue", r>>, <<"spinDequeue", r>>}
    BY <1>2, <1>4, <1>9, DoingPoints DEF WaitPoints
  <2>2. DoingAt(pc'[p], on'[p]) \in {<<"idle">>, <<"leaving", r>>}
    BY <1>4, <1>9, DoingPoints
  <2>3. Doing' \in {[Doing EXCEPT ![p] = d] : d \in {<<"idle">>, <<"leaving", r>>}}
    BY <1>3, <2>2
  <2>4. /\ items[r] > 0 /\ items' = [items EXCEPT ![r] = @ - 1] /\ UNCHANGED sent
    BY <1>9 DEF deq
  <2> QED  BY <1>5, <2>1, <2>3, <2>4
           DEF Promise!Take, Promise!Idle, Doing, DoingAt, Used
<1>10. ASSUME deqEmpty(r), pc[p] = "spin", pc'[p] = "idle"
       PROVE  Promise!GiveUp(p, r)
  <2>1. Doing[p] = <<"spinDequeue", r>> /\ UNCHANGED <<items, sent>> /\ Used[r]
    BY <1>2, <1>4, <1>10, DoingPoints DEF deqEmpty, Used
  <2>2. Doing' = [Doing EXCEPT ![p] = <<"idle">>]
    BY <1>3, <1>10, DoingPoints
  <2> QED  BY <1>5, <2>1, <2>2 DEF Promise!GiveUp, Promise!Idle, Doing, DoingAt, Used
<1>11. ASSUME pc[p] \in {"notify", "wake", "cancel"}, pc'[p] = "idle",
              UNCHANGED <<items, sent>>
       PROVE  Promise!Leave(p, r)
  <2>1. Doing[p] = <<"leaving", r>>
    BY <1>2, <1>4, <1>11, DoingPoints
  <2>2. Doing' = [Doing EXCEPT ![p] = <<"idle">>]
    BY <1>3, <1>11, DoingPoints
  <2> QED  BY <1>5, <1>11, <2>1, <2>2
           DEF Promise!Leave, Promise!Idle, Doing, DoingAt, Used
<1>12. CASE Calls(p)
  BY <1>7, <1>8, <1>12, ELCRQAssumption DEF Calls, Promise!Next
<1>13. CASE DequeueFirst(p)
  <2>1. CASE deq(r) /\ Goto(p, "idle")
    BY <1>1, <1>4, <1>9, <1>13, <2>1 DEF DequeueFirst, Goto, Promise!Next
  <2>2. CASE deqEmpty(r) /\ Goto(p, "prepare")
    BY <1>1, <1>6, <1>13, <2>2, DoingPoints DEF DequeueFirst, Goto, deqEmpty, WaitPoints
  <2> QED  BY <1>4, <1>13, <2>1, <2>2 DEF DequeueFirst
<1>14. CASE DequeueAgain(p)
  <2>1. CASE deq(r) /\ Goto(p, "cancel")
    BY <1>1, <1>4, <1>9, <1>14, <2>1 DEF DequeueAgain, Goto, Promise!Next
  <2>2. CASE deqEmpty(r) /\ Goto(p, "await")
    BY <1>1, <1>6, <1>14, <2>2, DoingPoints DEF DequeueAgain, Goto, deqEmpty, WaitPoints
  <2> QED  BY <1>4, <1>14, <2>1, <2>2 DEF DequeueAgain
<1>15. CASE SpinDequeueTry(p)
  <2>1. CASE deq(r) /\ Goto(p, "idle")
    BY <1>1, <1>4, <1>9, <1>15, <2>1 DEF SpinDequeueTry, Goto, Promise!Next
  <2>2. CASE deqEmpty(r) /\ UNCHANGED pc
    BY <1>6, <1>15, <2>2 DEF SpinDequeueTry, deqEmpty
  <2>3. CASE deqEmpty(r) /\ Goto(p, "idle")
    BY <1>1, <1>4, <1>10, <1>15, <2>3 DEF SpinDequeueTry, Goto, Promise!Next
  <2> QED  BY <1>4, <1>15, <2>1, <2>2, <2>3 DEF SpinDequeueTry
<1>16. CASE DeqPoll(p)
  BY <1>6, <1>16 DEF DeqPoll, vars
<1>17. CASE doNotify(p) /\ UNCHANGED queue
  <2>1. pc'[p] \in {"wake", "idle"} /\ pc[p] = "notify" /\ on' = on
    BY <1>1, <1>17 DEF doNotify, Goto
  <2>2. CASE pc'[p] = "idle"
    BY <1>4, <1>11, <1>17, <2>1, <2>2 DEF queue, Promise!Next
  <2>3. CASE pc'[p] = "wake"
    BY <1>6, <1>17, <2>1, <2>3, DoingPoints DEF queue
  <2> QED  BY <2>1, <2>2, <2>3
<1>18. CASE (Wake(p) \/ cancelWait(p)) /\ UNCHANGED queue
  <2>1. pc'[p] = "idle" /\ pc[p] \in {"wake", "cancel"}
    BY <1>1, <1>18, WakeMoves DEF Wake, cancelWait, EndWait, Goto
  <2> QED  BY <1>4, <1>11, <1>18, <2>1 DEF queue, Promise!Next
<1>19. CASE /\ \/ prepareWait(p) \/ AwaitLoad(p) \/ AwaitFutex(p) \/ AwaitLeave(p)
               \/ Interrupt(p)
            /\ UNCHANGED queue
  <2>1. pc[p] \in WaitPoints /\ pc'[p] \in WaitPoints /\ on' = on
    BY <1>1, <1>19 DEF prepareWait, AwaitLoad, AwaitFutex, nativeFutexWait, AwaitLeave,
                       EndWait, Interrupt, Goto, WaitPoints
  <2> QED  BY <1>6, <1>19, <2>1, DoingPoints DEF queue
<1> QED  BY <1>12, <1>13, <1>14, <1>15, <1>16, <1>17, <1>18, <1>19
         DEF Acts, Step, eventCount

\* The operations of c/ELCRQ.h implement the safety part of BlockingQueue: a
\* dequeue ends with an item only, a spinDequeue gives up only on a queue that
\* has been used, every item is taken by one operation, and nothing else
\* touches the queue.  That the promises are kept in time is for TLC
\* (IsBlockingQueue).
THEOREM KeepsPromise == Spec => PromiseSafety
<1>1. Init => Promise!Init
  <2> SUFFICES ASSUME Init PROVE Promise!Init
    OBVIOUS
  <2>1. Doing = [p \in Threads |-> <<"idle">>]
    BY DoingPoints DEF Init, Doing
  <2>2. Used = [q \in Queues |-> FALSE]
    <3>1. \A q \in Queues : sent[q] = 0
      BY DEF Init
    <3>2. \A q \in Queues : (sent[q] > 0) = FALSE
      BY <3>1, SMT
    <3> QED  BY <3>2, Zenon DEF Used
  <2> QED  BY <2>1, <2>2 DEF Init, Promise!Init, Promise!Idle, Doing, DoingAt, Used
<1>2. TypeOK /\ [Next]_vars => [Promise!Next]_(Promise!vars)
  <2>1. CASE UNCHANGED vars
    BY <2>1 DEF vars, Promise!vars
  <2> QED  BY <2>1, StepPromise DEF Next, Acts
<1> QED  BY <1>1, <1>2, TypeCorrect, PTL DEF Spec, PromiseSafety
=============================================================================
