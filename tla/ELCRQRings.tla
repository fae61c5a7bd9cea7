----------------------------- MODULE ELCRQRings -----------------------------
(***************************************************************************)
(* The non-blocking half of c/ELCRQ.h: enq and deq on a list of rings.     *)
(*                                                                         *)
(* Every action is one access to shared memory with the local computation  *)
(* around it; the processor is x86, where plain loads, stores and locked   *)
(* read-modify-writes of these programs interleave (no step stores to      *)
(* shared memory other than by a locked instruction).  The two words of a  *)
(* cell are read by two loads, hence by two actions.                       *)
(*                                                                         *)
(* A 64-bit word with a flag in bit 63 is a record of the low bits and the *)
(* flag: a tail is [idx, closed], the idx word of a cell is the fields     *)
(* idx and unsafe of the cell.                                             *)
(***************************************************************************)
EXTENDS Integers, QueueHistory

CONSTANTS Producers, Consumers,
          RING_SIZE,      \* cells per ring
          CLOSE_TRIES,    \* 10: failed attempts before close_crq forces it
          SPIN_LIMIT,     \* 200000: polls of an empty cell before giving up
          SPIN_RELOAD,    \* 1024: polls between two loads of the tail
          WORD,           \* 2^64: unsigned arithmetic is modulo WORD
          MaxRings,       \* bound: rings that memory can hold
          MaxTicket,      \* bound: no head or tail is moved past it
          MaxCalls        \* bound: calls of deq

ASSUME ThreadsAssumption == /\ Producers \subseteq Threads
                            /\ Consumers \subseteq Threads
ASSUME EmptyAssumption   == EMPTY \notin Items
ASSUME RingAssumption    == /\ RING_SIZE \in Nat \ {0}
                            /\ \E k \in 0..RING_SIZE : RING_SIZE = 2^k
ASSUME BoundAssumption   == /\ MaxRings \in Nat \ {0}
                            /\ MaxTicket \in Nat
                            /\ MaxCalls \in Nat
                            /\ CLOSE_TRIES \in Nat
                            /\ SPIN_LIMIT \in Nat
                            /\ SPIN_RELOAD \in Nat \ {0}
                            /\ WORD \in Nat /\ WORD > 2 * MaxTicket

VARIABLES rhead,   \* rhead[q]: head of ring q
          rtail,   \* rtail[q]: tail of ring q
          rnext,   \* rnext[q]: ring after q
          array,   \* array[q][j]: cell j of ring q
          rings,   \* rings allocated so far; they are 1 .. rings
          nrq,     \* nrq[p]: the ring thread p holds back for its next alloc
          pc, loc  \* control point and local variables of every thread

shared == <<rhead, rtail, rnext, array, rings, nrq>>
vars   == <<shared, pc, loc, history>>

NULL  == 0
Rings == 1..MaxRings
First == 1                    \* q->head and q->tail: they are never advanced
Slots == 0..(RING_SIZE - 1)
Slot(t) == t % RING_SIZE      \* t & (RING_SIZE-1)

\* a - b on uint64_t
Sub(a, b) == (a - b) % WORD

Values == Items \cup {EMPTY}
Cell == [val : Values, idx : Nat, unsafe : BOOLEAN]
Tail == [idx : Nat, closed : BOOLEAN]

RingNode(v, i, u) == [val |-> v, idx |-> i, unsafe |-> u]

init_ring == [j \in Slots |-> RingNode(EMPTY, j, FALSE)]

\* rq: ring being worked on; tk: t of enq, h of deq; seen: idx and val read
\* from the cell; tt, r: of deq; t, h: of fixState; try_close, arg: of enq
Locals == [rq : Rings, tk : Nat, seen : Cell, tt : Tail, r : Nat, h : Nat,
           try_close : Nat, arg : Values]

NoLocals == [rq |-> First, tk |-> 0, seen |-> RingNode(EMPTY, 0, FALSE),
             tt |-> [idx |-> 0, closed |-> FALSE], r |-> 0, h |-> 0,
             try_close |-> 0, arg |-> EMPTY]

EnqPoints == {"enq_next", "enq_ticket", "enq_idx", "enq_val", "enq_head",
              "enq_cas", "enq_full", "enq_close", "enq_alloc"}
CellPoints == {"deq_idx", "deq_val", "deq_take", "deq_mark", "deq_tail",
               "deq_skip"}
DeqPoints == CellPoints \cup {"deq_ticket", "deq_empty", "fix_tail",
                              "fix_head", "fix_same", "fix_cas", "deq_next"}

RingsType ==
  /\ rhead \in [Rings -> Nat]
  /\ rtail \in [Rings -> Tail]
  /\ rnext \in [Rings -> Rings \cup {NULL}]
  /\ array \in [Rings -> [Slots -> Cell]]
  /\ rings \in Rings
  /\ nrq \in [Threads -> Rings \cup {NULL}]

LocalsType ==
  /\ pc \in [Threads -> EnqPoints \cup DeqPoints \cup {"idle"}]
  /\ loc \in [Threads -> Locals]

TypeOK == RingsType /\ LocalsType /\ HistoryType

Init ==
  /\ rhead = [q \in Rings |-> 0]
  /\ rtail = [q \in Rings |-> [idx |-> 0, closed |-> FALSE]]
  /\ rnext = [q \in Rings |-> NULL]
  /\ array = [q \in Rings |-> init_ring]
  /\ rings = 1
  /\ nrq = [p \in Threads |-> NULL]
  /\ pc = [p \in Threads |-> "idle"]
  /\ loc = [p \in Threads |-> NoLocals]
  /\ HistoryInit
-----------------------------------------------------------------------------
Ring(p) == loc[p].rq
CellOf(p) == array[Ring(p)][Slot(loc[p].tk)]

Goto(p, point) == pc' = [pc EXCEPT ![p] = point]
Return(p) == Goto(p, "idle") /\ loc' = [loc EXCEPT ![p] = NoLocals]

\* The next iteration of the outer loop, on ring q: what is declared in the
\* body of the loop is dead.
Iterate(p, point, q) ==
  /\ Goto(p, point)
  /\ loc' = [loc EXCEPT ![p] = [NoLocals EXCEPT !.rq = q, !.arg = loc[p].arg,
                                 !.try_close = loc[p].try_close]]

\* Mutant: a CAS on the idx word alone.
CASOnIndexOnly(p) == CellOf(p).idx = loc[p].seen.idx

\* CAS2 on the cell of p's ticket, against what p read from it: it succeeds
\* when the cell still holds that, and then stores new.
CAS2Succeeds(p) == CellOf(p) = loc[p].seen
CAS2(p, new) ==
  /\ CAS2Succeeds(p)
  /\ array' = [array EXCEPT ![Ring(p)][Slot(loc[p].tk)] = new]
  /\ UNCHANGED <<rhead, rtail, rnext, rings, nrq>>
CAS2Fails(p) == ~CAS2Succeeds(p) /\ UNCHANGED shared
-----------------------------------------------------------------------------
(* enq(arg, pid, tail) *)

EnqCall(p, v) ==
  /\ pc[p] = "idle" /\ p \in Producers /\ v \notin hist.sent
  /\ Goto(p, "enq_next")
  /\ loc' = [loc EXCEPT ![p].arg = v]
  /\ EnqueueCalled(v)
  /\ UNCHANGED shared

\* next = rq->next; the CAS on the parameter tail always succeeds
EnqNext(p) ==
  /\ pc[p] = "enq_next"
  /\ IF rnext[Ring(p)] # NULL
       THEN /\ loc' = [loc EXCEPT ![p].rq = rnext[Ring(p)]]
            /\ UNCHANGED pc
       ELSE Goto(p, "enq_ticket") /\ UNCHANGED loc
  /\ UNCHANGED <<shared, history>>

EnqTicket(p) ==
  /\ pc[p] = "enq_ticket"
  /\ rtail[Ring(p)].idx < MaxTicket
  /\ rtail' = [rtail EXCEPT ![Ring(p)].idx = @ + 1]
  /\ loc' = [loc EXCEPT ![p].tk = rtail[Ring(p)].idx]
  /\ Goto(p, IF rtail[Ring(p)].closed THEN "enq_alloc" ELSE "enq_idx")
  /\ UNCHANGED <<rhead, rnext, array, rings, nrq, history>>

EnqReadIdx(p) ==
  /\ pc[p] = "enq_idx"
  /\ loc' = [loc EXCEPT ![p].seen =
               RingNode(EMPTY, CellOf(p).idx, CellOf(p).unsafe)]
  /\ Goto(p, "enq_val")
  /\ UNCHANGED <<shared, history>>

\* the tests of lines 224 to 226 up to the load of rq->head
EnqReadVal(p) ==
  /\ pc[p] = "enq_val"
  /\ Goto(p, IF CellOf(p).val # EMPTY \/ loc[p].seen.idx > loc[p].tk
               THEN "enq_full"
               ELSE IF loc[p].seen.unsafe THEN "enq_head" ELSE "enq_cas")
  /\ UNCHANGED <<shared, loc, history>>

\* Mutant: an unsafe cell is used whatever the head is.
EnqIgnoreHead(p) ==
  /\ pc[p] = "enq_head"
  /\ Goto(p, "enq_cas")
  /\ UNCHANGED <<shared, loc, history>>

EnqReadHead(p) ==
  /\ pc[p] = "enq_head"
  /\ Goto(p, IF rhead[Ring(p)] < loc[p].tk THEN "enq_cas" ELSE "enq_full")
  /\ UNCHANGED <<shared, loc, history>>

EnqCas(p) ==
  /\ pc[p] = "enq_cas"
  /\ \/ /\ CAS2(p, RingNode(loc[p].arg, loc[p].tk, FALSE))
        /\ EnqueueReturned(loc[p].arg)
        /\ Return(p)
     \/ /\ CAS2Fails(p)
        /\ Goto(p, "enq_full")
        /\ UNCHANGED <<loc, history>>

EnqFull(p) ==
  /\ pc[p] = "enq_full"
  /\ IF Sub(loc[p].tk, rhead[Ring(p)]) >= RING_SIZE
       THEN /\ Goto(p, "enq_close")
            /\ loc' = [loc EXCEPT ![p].try_close = @ + 1]
       ELSE Iterate(p, "enq_next", Ring(p))
  /\ UNCHANGED <<shared, history>>

\* whether close_crq closes the ring (its result) at this moment
close_crq(p) ==
  IF loc[p].try_close < CLOSE_TRIES
    THEN rtail[Ring(p)] = [idx |-> loc[p].tk + 1, closed |-> FALSE]
    ELSE ~rtail[Ring(p)].closed

EnqClose(p) ==
  /\ pc[p] = "enq_close"
  /\ IF close_crq(p)
       THEN /\ rtail' = [rtail EXCEPT ![Ring(p)].closed = TRUE]
            /\ Goto(p, "enq_alloc")
            /\ UNCHANGED loc
       ELSE UNCHANGED rtail /\ Iterate(p, "enq_next", Ring(p))
  /\ UNCHANGED <<rhead, rnext, array, rings, nrq, history>>

\* Mutant: forgets nrq = NULL after linking the ring.
AllocKeepsRing(p) ==
  /\ pc[p] = "enq_alloc"
  /\ \E n \in Rings :
       /\ \/ nrq[p] = n /\ UNCHANGED rings
          \/ nrq[p] = NULL /\ n = rings + 1 /\ rings' = n
       /\ rtail' = [rtail EXCEPT ![n].idx = 1]
       /\ array' = [array EXCEPT ![n][0] = RingNode(loc[p].arg, 0, FALSE)]
       /\ nrq' = [nrq EXCEPT ![p] = n]
       /\ IF rnext[Ring(p)] = NULL
            THEN /\ rnext' = [rnext EXCEPT ![Ring(p)] = n]
                 /\ EnqueueReturned(loc[p].arg)
                 /\ Return(p)
            ELSE Iterate(p, "enq_next", Ring(p)) /\ UNCHANGED <<rnext, history>>
  /\ UNCHANGED rhead

\* getMemory for nrq unless one is held, the solo enqueue into it, which no
\* other thread can see yet, and the CAS on rq->next
EnqAlloc(p) ==
  /\ pc[p] = "enq_alloc"
  /\ \E n \in Rings :
       /\ \/ nrq[p] = n /\ UNCHANGED rings
          \/ nrq[p] = NULL /\ n = rings + 1 /\ rings' = n
       /\ rtail' = [rtail EXCEPT ![n].idx = 1]
       /\ array' = [array EXCEPT ![n][0] = RingNode(loc[p].arg, 0, FALSE)]
       /\ IF rnext[Ring(p)] = NULL
            THEN /\ rnext' = [rnext EXCEPT ![Ring(p)] = n]
                 /\ nrq' = [nrq EXCEPT ![p] = NULL]
                 /\ EnqueueReturned(loc[p].arg)
                 /\ Return(p)
            ELSE /\ nrq' = [nrq EXCEPT ![p] = n]
                 /\ Iterate(p, "enq_next", Ring(p))
                 /\ UNCHANGED <<rnext, history>>
  /\ UNCHANGED rhead
-----------------------------------------------------------------------------
(* deq(pid, head) *)

DeqCall(p) ==
  /\ pc[p] = "idle" /\ p \in Consumers /\ hist.calls < MaxCalls
  /\ Goto(p, "deq_ticket")
  /\ DequeueCalled(p)
  /\ UNCHANGED <<shared, loc>>

DeqTicket(p) ==
  /\ pc[p] = "deq_ticket"
  /\ rhead[Ring(p)] < MaxTicket
  /\ rhead' = [rhead EXCEPT ![Ring(p)] = @ + 1]
  /\ loc' = [loc EXCEPT ![p].tk = rhead[Ring(p)]]
  /\ Goto(p, "deq_idx")
  /\ UNCHANGED <<rtail, rnext, array, rings, nrq, history>>

DeqReadIdx(p) ==
  /\ pc[p] = "deq_idx"
  /\ loc' = [loc EXCEPT ![p].seen =
               RingNode(EMPTY, CellOf(p).idx, CellOf(p).unsafe)]
  /\ Goto(p, "deq_val")
  /\ UNCHANGED <<shared, history>>

\* Leaving the loop over the cell: its variables are dead.
LeaveCell(p) ==
  /\ Goto(p, "deq_empty")
  /\ loc' = [loc EXCEPT ![p] = [NoLocals EXCEPT !.rq = Ring(p), !.tk = loc[p].tk]]

\* tail_index(t) - 1 <= h
NothingComing(p, t) == Sub(t.idx, 1) <= loc[p].tk

\* The cell was empty and the tail is, or was, tt: lines 283 to 291.
Poll(p, seen, tt) ==
  LET skip == \/ seen.unsafe \/ NothingComing(p, tt)
              \/ loc[p].r > SPIN_LIMIT \/ tt.closed
  IN  /\ Goto(p, IF skip THEN "deq_skip" ELSE "deq_idx")
      /\ loc' = [loc EXCEPT ![p].seen = seen, ![p].tt = tt,
                            ![p].r = IF skip THEN @ ELSE @ + 1]

\* Mutant: an item of an earlier lap is taken like one of this lap.
DeqTakeAnyLap(p) ==
  /\ pc[p] = "deq_val"
  /\ LET seen == [loc[p].seen EXCEPT !.val = CellOf(p).val]
     IN  \/ seen.idx > loc[p].tk /\ LeaveCell(p)
         \/ /\ seen.idx <= loc[p].tk /\ seen.val # EMPTY
            /\ Goto(p, "deq_take")
            /\ loc' = [loc EXCEPT ![p].seen = seen]
         \/ /\ seen.idx <= loc[p].tk /\ seen.val = EMPTY
            /\ Goto(p, "deq_tail")
            /\ loc' = [loc EXCEPT ![p].seen = seen]
  /\ UNCHANGED <<shared, history>>

DeqReadVal(p) ==
  /\ pc[p] = "deq_val"
  /\ LET seen == [loc[p].seen EXCEPT !.val = CellOf(p).val]
     IN  \/ seen.idx > loc[p].tk /\ LeaveCell(p)
         \/ /\ seen.idx <= loc[p].tk /\ seen.val # EMPTY
            /\ Goto(p, IF seen.idx = loc[p].tk THEN "deq_take" ELSE "deq_mark")
            /\ loc' = [loc EXCEPT ![p].seen = seen]
         \/ /\ seen.idx <= loc[p].tk /\ seen.val = EMPTY
            /\ IF loc[p].r % SPIN_RELOAD = 0
                 THEN Goto(p, "deq_tail") /\ loc' = [loc EXCEPT ![p].seen = seen]
                 ELSE Poll(p, seen, loc[p].tt)
  /\ UNCHANGED <<shared, history>>

DeqTake(p) ==
  /\ pc[p] = "deq_take"
  /\ \/ /\ CAS2(p, RingNode(EMPTY, loc[p].tk + RING_SIZE, loc[p].seen.unsafe))
        /\ DequeueReturned(p, loc[p].seen.val)
        /\ Return(p)
     \/ /\ CAS2Fails(p)
        /\ Goto(p, "deq_idx")
        /\ UNCHANGED <<loc, history>>

DeqMarkUnsafe(p) ==
  /\ pc[p] = "deq_mark"
  /\ \/ CAS2(p, RingNode(loc[p].seen.val, loc[p].seen.idx, TRUE)) /\ LeaveCell(p)
     \/ CAS2Fails(p) /\ Goto(p, "deq_idx") /\ UNCHANGED loc
  /\ UNCHANGED history

DeqLoadTail(p) ==
  /\ pc[p] = "deq_tail"
  /\ Poll(p, loc[p].seen, rtail[Ring(p)])
  /\ UNCHANGED <<shared, history>>

\* Mutant: gives the cell up and leaves it to the enqueuer of the ticket.
DeqSkipInPlace(p) ==
  /\ pc[p] = "deq_skip"
  /\ LeaveCell(p)
  /\ UNCHANGED <<shared, history>>

DeqSkip(p) ==
  /\ pc[p] = "deq_skip"
  /\ \/ /\ CAS2(p, RingNode(EMPTY, loc[p].tk + RING_SIZE, loc[p].seen.unsafe))
        /\ LeaveCell(p)
     \/ CAS2Fails(p) /\ Goto(p, "deq_idx") /\ UNCHANGED loc
  /\ UNCHANGED history

\* Mutant: the queue counts as empty whenever the cell gave nothing.
DeqAlwaysEmpty(p) ==
  /\ pc[p] = "deq_empty"
  /\ Goto(p, "fix_tail")
  /\ UNCHANGED <<shared, loc, history>>

DeqCheckEmpty(p) ==
  /\ pc[p] = "deq_empty"
  /\ IF NothingComing(p, rtail[Ring(p)])
       THEN Goto(p, "fix_tail") /\ UNCHANGED loc
       ELSE Iterate(p, "deq_ticket", Ring(p))
  /\ UNCHANGED <<shared, history>>

\* fixState(rq): t and h are locals tt and h of the model
FixLoadTail(p) ==
  /\ pc[p] = "fix_tail"
  /\ loc' = [loc EXCEPT ![p].tt = rtail[Ring(p)]]
  /\ Goto(p, "fix_head")
  /\ UNCHANGED <<shared, history>>

FixLoadHead(p) ==
  /\ pc[p] = "fix_head"
  /\ loc' = [loc EXCEPT ![p].h = rhead[Ring(p)]]
  /\ Goto(p, "fix_same")
  /\ UNCHANGED <<shared, history>>

\* Mutant: compares with the index of the tail, closed or not.
FixSameByIndex(p) ==
  /\ pc[p] = "fix_same"
  /\ Goto(p, IF rtail[Ring(p)] # loc[p].tt THEN "fix_tail"
             ELSE IF loc[p].h > loc[p].tt.idx THEN "fix_cas" ELSE "deq_next")
  /\ UNCHANGED <<shared, loc, history>>

\* h > t compares whole words, so a closed t is never below h
FixSame(p) ==
  /\ pc[p] = "fix_same"
  /\ Goto(p, IF rtail[Ring(p)] # loc[p].tt THEN "fix_tail"
             ELSE IF ~loc[p].tt.closed /\ loc[p].h > loc[p].tt.idx
               THEN "fix_cas" ELSE "deq_next")
  /\ UNCHANGED <<shared, loc, history>>

FixCas(p) ==
  /\ pc[p] = "fix_cas"
  /\ IF rtail[Ring(p)] = loc[p].tt
       THEN /\ rtail' = [rtail EXCEPT ![Ring(p)] =
                            [idx |-> loc[p].h, closed |-> FALSE]]
            /\ Goto(p, "deq_next")
       ELSE UNCHANGED rtail /\ Goto(p, "fix_tail")
  /\ UNCHANGED <<rhead, rnext, array, rings, nrq, loc, history>>

\* Mutant: follows rq->next without testing it.
DeqNextUntested(p) ==
  /\ pc[p] = "deq_next"
  /\ Iterate(p, "deq_ticket", rnext[Ring(p)])
  /\ UNCHANGED <<shared, history>>

\* next = rq->next; the CAS on the parameter head always succeeds
DeqNext(p) ==
  /\ pc[p] = "deq_next"
  /\ IF rnext[Ring(p)] = NULL
       THEN DequeueReturnedEmpty(p) /\ Return(p)
       ELSE Iterate(p, "deq_ticket", rnext[Ring(p)]) /\ UNCHANGED history
  /\ UNCHANGED shared
-----------------------------------------------------------------------------
enq(p) ==
  \/ \E v \in Items : EnqCall(p, v)
  \/ EnqNext(p) \/ EnqTicket(p) \/ EnqReadIdx(p) \/ EnqReadVal(p)
  \/ EnqReadHead(p) \/ EnqCas(p) \/ EnqFull(p) \/ EnqClose(p) \/ EnqAlloc(p)

fixState(p) == FixLoadTail(p) \/ FixLoadHead(p) \/ FixSame(p) \/ FixCas(p)

deq(p) ==
  \/ DeqCall(p) \/ DeqTicket(p) \/ DeqReadIdx(p) \/ DeqReadVal(p)
  \/ DeqTake(p) \/ DeqMarkUnsafe(p) \/ DeqLoadTail(p) \/ DeqSkip(p)
  \/ DeqCheckEmpty(p) \/ fixState(p) \/ DeqNext(p)

Next == \E p \in Threads : enq(p) \/ deq(p)

Spec == Init /\ [][Next]_vars
-----------------------------------------------------------------------------
\* Rings that threads other than the one that allocated them can reach.
Published(q) == q = First \/ \E o \in Rings : rnext[o] = q

Holds(q, j, v) == Published(q) /\ array[q][j].val = v

\* The dequeuer with ticket h is working on its cell of ring q.
Served(q, h) ==
  \E p \in Threads : pc[p] \in CellPoints /\ Ring(p) = q /\ loc[p].tk = h

\* It has come and gone: no dequeue will look for an item with index h again.
Passed(q, h) == h < rhead[q] /\ ~Served(q, h)

(***************************************************************************)
(* No item is lost, duplicated or made up: an item is in a cell of a       *)
(* linked ring exactly while its enqueue has returned and no dequeue has   *)
(* returned it, then in one cell only, and no dequeue returns it twice.    *)
(* This is about the CAS2 of lines 226 and 267 and the solo enqueue of     *)
(* lines 202 to 210 racing each other over rings, slots and laps.          *)
(***************************************************************************)
ExactlyOnce ==
  /\ hist.twice = {} /\ hist.delivered \subseteq hist.returned
  /\ \A v \in Items :
       v \in hist.returned \ hist.delivered
         <=> \E q \in Rings, j \in Slots : Holds(q, j, v)
  /\ \A v \in Items, q1, q2 \in Rings, j1, j2 \in Slots :
       Holds(q1, j1, v) /\ Holds(q2, j2, v) => q1 = q2 /\ j1 = j2

(***************************************************************************)
(* No item is left where nobody looks: while a cell holds an item with     *)
(* index i, the dequeuer with ticket i is still to come or at work on that *)
(* cell.  This is what the unsafe bit is for: a dequeuer that gives up     *)
(* (lines 263, 270, 284, 287) must stop the enqueuer of its ticket, or of  *)
(* a ticket it has passed, from storing afterwards (lines 225, 226).       *)
(***************************************************************************)
NoItemStranded ==
  \A q \in Rings, j \in Slots :
    Published(q) /\ array[q][j].val # EMPTY
      => Slot(array[q][j].idx) = j /\ ~Passed(q, array[q][j].idx)

(***************************************************************************)
(* A ring that has a successor is closed for good.  close_crq, the FAA of  *)
(* enq and the CAS of fixState race on the tail word; were the bit lost,   *)
(* enqueuers would fill a ring that dequeuers have left behind.            *)
(***************************************************************************)
SuccessorImpliesClosed ==
  \A q \in Rings : rnext[q] # NULL => rtail[q].closed

(***************************************************************************)
(* First in, first out as long as the queue has its first ring only: the   *)
(* tickets that the FAAs of lines 198 and 247 hand out order the items,    *)
(* through every lap of the ring, unsafe cell and ticket given up.  With a *)
(* second ring the order can break: deq moves on to it (line 301) without  *)
(* looking at the tail of the ring it leaves again.                        *)
(***************************************************************************)
FifoInFirstRing == rings = 1 => FifoOrder

(***************************************************************************)
(* deq on a queue that was never used takes one ticket and answers EMPTY,  *)
(* so that dequeue goes to sleep and "the CPU is free to other things when *)
(* the queue is empty" (README.md, line 8).  The code disagrees: with the  *)
(* tail at 0, t - 1 of lines 286 and 295 wraps around, no ticket h is as   *)
(* large, and deq polls and takes tickets until something is enqueued.     *)
(***************************************************************************)
UnusedQueueAnswersEmpty ==
  hist.sent = {} => rhead[First] <= hist.calls
=============================================================================
