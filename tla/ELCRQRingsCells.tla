-------------------------- MODULE ELCRQRingsCells ---------------------------
(***************************************************************************)
(* The parts of the invariant of ELCRQRings about cells, preserved by every*)
(* step: what a thread knows of its cell, and that no item is stored where *)
(* no dequeuer will come.                                                  *)
(***************************************************************************)
EXTENDS ELCRQRingsInv

\* p's CAS2 succeeds and stores c.
Stores(p, c) ==
  /\ CAS2Succeeds(p)
  /\ array' = [array EXCEPT ![Ring(p)][Slot(loc[p].tk)] = c]

(* The steps that change a cell of a published ring, and how. *)
LEMMA CellEffect ==
  ASSUME TypeOK, RingInv, NEW p \in Threads, enq(p) \/ deq(p)
  PROVE  \/ \A q \in Rings : Published(q) => array'[q] = array[q]
         \/ \E c \in Cell :
              /\ Stores(p, c)
              /\ \/ EnqCas(p) /\ c = RingNode(loc[p].arg, loc[p].tk, FALSE)
                 \/ /\ DeqTake(p) \/ DeqSkip(p)
                    /\ c = RingNode(EMPTY, loc[p].tk + RING_SIZE,
                                    loc[p].seen.unsafe)
                 \/ /\ DeqMarkUnsafe(p)
                    /\ c = RingNode(loc[p].seen.val, loc[p].seen.idx, TRUE)
<1>1. CASE EnqAlloc(p)
  BY ZenonT(40), <1>1, AllocEffect DEF TypeOK, RingsType
<1>2. CASE EnqCas(p) \/ DeqTake(p) \/ DeqSkip(p) \/ DeqMarkUnsafe(p)
  <2>1. RingNode(loc[p].arg, loc[p].tk, FALSE) \in Cell
    BY Zenon, Typed, Fields
  <2>2. RingNode(EMPTY, loc[p].tk + RING_SIZE, loc[p].seen.unsafe) \in Cell
    BY SMTT(30), Typed, Fields, Constants
  <2>3. RingNode(loc[p].seen.val, loc[p].seen.idx, TRUE) \in Cell
    BY Zenon, Typed, Fields
  <2> QED  BY Zenon, <1>2, <2>1, <2>2, <2>3 DEF EnqCas, DeqTake, DeqSkip,
           DeqMarkUnsafe, CAS2, CAS2Fails, Stores, shared
<1> QED
  BY Zenon, <1>1, <1>2 DEF enq, deq, fixState, shared, EnqCall, EnqNext, EnqTicket,
     EnqReadIdx, EnqReadVal, EnqReadHead, EnqFull, EnqClose, DeqCall,
     DeqTicket, DeqReadIdx, DeqReadVal, DeqLoadTail, DeqCheckEmpty,
     FixLoadTail, FixLoadHead, FixSame, FixCas, DeqNext

(* A successful CAS2 stores into the cell of p's ticket. *)
LEMMA StoreHits ==
  ASSUME TypeOK, NEW p \in Threads, NEW c, Stores(p, c)
  PROVE  array'[Ring(p)][Slot(loc[p].tk)] = c
BY Typed DEF Stores, TypeOK, RingsType

(* The cell of a successful CAS2 is the one p read; the others stay. *)
LEMMA StoreEffect ==
  ASSUME TypeOK, NEW p \in Threads, NEW c, Stores(p, c),
         NEW q \in Rings, NEW j \in Slots
  PROVE  /\ q = Ring(p) /\ j = Slot(loc[p].tk)
              => array[q][j] = loc[p].seen /\ array'[q][j] = c
         /\ ~(q = Ring(p) /\ j = Slot(loc[p].tk)) => array'[q][j] = array[q][j]
BY Typed DEF Stores, CAS2Succeeds, CellOf, TypeOK, RingsType

(* A cell changes by receiving an item or by moving to a larger index; the *)
(* index never decreases.                                                  *)
LEMMA CellMonotone ==
  ASSUME TypeOK, RingInv, LocalInv, ItemInv, NEW p \in Threads,
         enq(p) \/ deq(p), NEW q \in Rings, Published(q), NEW j \in Slots
  PROVE  \/ array'[q][j] = array[q][j]
         \/ /\ array'[q][j].idx >= array[q][j].idx
            /\ \/ array'[q][j].val # EMPTY
               \/ array'[q][j].idx > array[q][j].idx
<1>0. /\ loc[p].tk \in Nat /\ loc[p].seen \in Cell /\ loc[p].seen.idx \in Nat
      /\ array[q][j] \in Cell /\ array[q][j].idx \in Nat
  BY Typed, Fields DEF TypeOK, RingsType
<1>1. CASE \A o \in Rings : Published(o) => array'[o] = array[o]
  BY <1>1
<1>2. ASSUME NEW c \in Cell, Stores(p, c),
             \/ EnqCas(p) /\ c = RingNode(loc[p].arg, loc[p].tk, FALSE)
             \/ /\ DeqTake(p) \/ DeqSkip(p)
                /\ c = RingNode(EMPTY, loc[p].tk + RING_SIZE,
                                loc[p].seen.unsafe)
             \/ /\ DeqMarkUnsafe(p)
                /\ c = RingNode(loc[p].seen.val, loc[p].seen.idx, TRUE)
      PROVE  /\ c.idx >= loc[p].seen.idx
             /\ c.val # EMPTY \/ c.idx > loc[p].seen.idx
  <2>1. CASE EnqCas(p) /\ c = RingNode(loc[p].arg, loc[p].tk, FALSE)
    <3>1. loc[p].seen.idx <= loc[p].tk /\ loc[p].arg # EMPTY
      BY Zenon, <2>1, EmptyAssumption
         DEF EnqCas, LocalInv, Knows, ItemInv, EnqPoints, TypeOK, HistoryType
    <3>2. c.idx = loc[p].tk /\ c.val = loc[p].arg
      BY <2>1 DEF RingNode
    <3> QED  BY <1>0, <3>1, <3>2
  <2>2. CASE /\ DeqTake(p) \/ DeqSkip(p)
             /\ c = RingNode(EMPTY, loc[p].tk + RING_SIZE, loc[p].seen.unsafe)
    <3>1. loc[p].seen.idx <= loc[p].tk
      BY <1>0, <2>2 DEF DeqTake, DeqSkip, LocalInv, Knows
    <3>2. c.idx = loc[p].tk + RING_SIZE
      BY Zenon, <2>2 DEF RingNode
    <3> QED  BY <1>0, <3>1, <3>2, Constants
  <2>3. CASE /\ DeqMarkUnsafe(p)
             /\ c = RingNode(loc[p].seen.val, loc[p].seen.idx, TRUE)
    <3>1. loc[p].seen.val # EMPTY
      BY <2>3 DEF DeqMarkUnsafe, LocalInv, Knows
    <3>2. c.idx = loc[p].seen.idx /\ c.val = loc[p].seen.val
      BY <2>3 DEF RingNode
    <3> QED  BY <1>0, <3>1, <3>2
  <2> QED  BY Zenon, <1>2, <2>1, <2>2, <2>3
<1>3. ASSUME NEW c \in Cell, Stores(p, c), c.idx >= loc[p].seen.idx,
             c.val # EMPTY \/ c.idx > loc[p].seen.idx
      PROVE  \/ array'[q][j] = array[q][j]
             \/ /\ array'[q][j].idx >= array[q][j].idx
                /\ \/ array'[q][j].val # EMPTY
                   \/ array'[q][j].idx > array[q][j].idx
  <2>1. CASE q = Ring(p) /\ j = Slot(loc[p].tk)
    <3>1. array[q][j] = loc[p].seen /\ array'[q][j] = c
      BY <1>3, <2>1, StoreEffect
    <3> QED  BY <1>3, <3>1
  <2>2. CASE ~(q = Ring(p) /\ j = Slot(loc[p].tk))
    <3>1. array'[q][j] = array[q][j]
      BY <1>3, <2>2, StoreEffect
    <3> QED  BY <3>1
  <2> QED  BY <2>1, <2>2
<1> QED  BY Zenon, <1>1, <1>2, <1>3, CellEffect

(* Heads never decrease. *)
LEMMA HeadMonotone ==
  ASSUME TypeOK, NEW p \in Threads, enq(p) \/ deq(p), NEW q \in Rings
  PROVE  rhead'[q] >= rhead[q]
<1>1. CASE UNCHANGED rhead
  BY <1>1 DEF TypeOK, RingsType
<1>2. CASE DeqTicket(p)
  BY <1>2, Typed DEF DeqTicket, TypeOK, RingsType
<1> QED
  BY Zenon, <1>1, <1>2 DEF enq, deq, fixState, shared, CAS2, CAS2Fails, EnqCall,
     EnqNext, EnqTicket, EnqReadIdx, EnqReadVal, EnqReadHead, EnqCas, EnqFull,
     EnqClose, EnqAlloc, DeqCall, DeqReadIdx, DeqReadVal, DeqTake,
     DeqMarkUnsafe, DeqLoadTail, DeqSkip, DeqCheckEmpty, FixLoadTail,
     FixLoadHead, FixSame, FixCas, DeqNext

(* What the other threads know stays true. *)
LEMMA OthersKnow ==
  ASSUME TypeOK, RingInv, LocalInv, ItemInv, NEW p \in Threads,
         enq(p) \/ deq(p), NEW o \in Threads, o # p
  PROVE  Knows(o)'
<1>1. /\ pc'[o] = pc[o] /\ loc'[o] = loc[o] /\ Ring(o)' = Ring(o)
      /\ Ring(o) \in Rings /\ loc[o].tk \in Nat /\ loc[o].seen.idx \in Nat
      /\ Slot(loc[o].tk) \in Slots /\ Published(Ring(o)) /\ Knows(o)
  BY OtherThreads, Typed, Fields DEF RingInv, LocalInv
<1>2. rhead'[Ring(o)] >= rhead[Ring(o)] /\ rhead[Ring(o)] \in Nat
      /\ rhead'[Ring(o)] \in Nat
  BY Zenon, <1>1, HeadMonotone, StepRingsType DEF TypeOK, RingsType
<1>3. /\ CellOf(o)' = array'[Ring(o)][Slot(loc[o].tk)]
      /\ CellOf(o) = array[Ring(o)][Slot(loc[o].tk)]
  BY <1>1 DEF CellOf
<1>4. CellOf(o).idx \in Nat /\ CellOf(o)'.idx \in Nat
  BY <1>1, <1>3, StepRingsType, Fields DEF TypeOK, RingsType
<1>5. CellOf(o)'.idx >= CellOf(o).idx
  BY <1>1, <1>3, <1>4, CellMonotone
<1> QED  BY <1>1, <1>2, <1>4, <1>5 DEF Knows

(* What p knows after its own step. *)
LEMMA ThreadKnows ==
  ASSUME TypeOK, RingInv, LocalInv, ItemInv, NEW p \in Threads,
         enq(p) \/ deq(p)
  PROVE  Knows(p)'
<1>0. /\ p \in DOMAIN pc /\ p \in DOMAIN loc /\ loc[p] \in Locals
      /\ Ring(p) \in Rings /\ loc[p].tk \in Nat /\ loc[p].seen \in Cell
      /\ loc[p].seen.idx \in Nat /\ CellOf(p) \in Cell /\ CellOf(p).idx \in Nat
      /\ rhead[Ring(p)] \in Nat /\ Knows(p) /\ RingsType
  BY Typed, Fields DEF TypeOK, LocalsType, LocalInv
<1> DEFINE Quiet == pc'[p] \notin ReadIdxPoints \cup CellPoints
<1>1. Quiet => Knows(p)'
  BY DEF Knows, ReadIdxPoints, CellPoints
<1>2. \A point : Goto(p, point) => pc'[p] = point
  BY <1>0 DEF Goto
<1>3. Return(p) => Quiet
  BY <1>2 DEF Return, ReadIdxPoints, CellPoints
<1>4. LeaveCell(p) => Quiet
  BY <1>2 DEF LeaveCell, ReadIdxPoints, CellPoints
<1>5. Iterate(p, "enq_next", Ring(p)) => Quiet
  BY <1>2 DEF Iterate, ReadIdxPoints, CellPoints
<1>6. \A q : Iterate(p, "deq_ticket", q) => Quiet
  BY <1>2 DEF Iterate, ReadIdxPoints, CellPoints
<1>7. ASSUME pc[p] \in CellPoints, pc'[p] = "deq_idx", UNCHANGED rhead,
             loc'[p].tk = loc[p].tk, loc'[p].rq = loc[p].rq
      PROVE  Knows(p)'
  BY <1>7, <1>0 DEF Knows, ReadIdxPoints, CellPoints, Ring
<1>a. CASE \/ \E v \in Items : EnqCall(p, v)
           \/ EnqNext(p) \/ EnqTicket(p) \/ EnqFull(p) \/ EnqClose(p)
           \/ EnqAlloc(p) \/ DeqCall(p) \/ DeqCheckEmpty(p)
  <2>1. Quiet
    BY Zenon, <1>a, <1>0, <1>2, <1>3, <1>5, <1>6 DEF EnqCall, EnqNext, EnqTicket,
       EnqFull, EnqClose, EnqAlloc, DeqCall, DeqCheckEmpty, ReadIdxPoints,
       CellPoints
  <2> QED  BY <1>1, <2>1
<1>b. CASE FixLoadTail(p) \/ FixLoadHead(p) \/ FixSame(p) \/ FixCas(p) \/ DeqNext(p)
  <2>1. Quiet
    BY <1>b, <1>2, <1>3, <1>6 DEF FixLoadTail, FixLoadHead, FixSame, FixCas,
       DeqNext, ReadIdxPoints, CellPoints
  <2> QED  BY <1>1, <2>1
<1>c. CASE EnqReadIdx(p) \/ DeqReadIdx(p)
  <2>1. /\ loc'[p].seen.val = EMPTY /\ loc'[p].seen.idx = CellOf(p).idx
        /\ loc'[p].tk = loc[p].tk /\ loc'[p].rq = loc[p].rq
    BY <1>c, <1>0 DEF EnqReadIdx, DeqReadIdx, RingNode, Locals
  <2>2. CellOf(p)' = CellOf(p) /\ rhead'[Ring(p)'] = rhead[Ring(p)]
    BY <1>c, <2>1 DEF EnqReadIdx, DeqReadIdx, shared, CellOf, Ring
  <2>3. \/ pc'[p] = "enq_val"
        \/ pc'[p] = "deq_val" /\ pc[p] = "deq_idx"
    BY <1>c, <1>2 DEF EnqReadIdx, DeqReadIdx
  <2> QED  BY <1>0, <2>1, <2>2, <2>3 DEF Knows, ReadIdxPoints, CellPoints
<1>d. CASE EnqReadVal(p)
  <2>1. /\ UNCHANGED loc /\ CellOf(p)' = CellOf(p) /\ pc[p] = "enq_val"
        /\ \/ pc'[p] = "enq_full"
           \/ pc'[p] \in {"enq_head", "enq_cas"} /\ loc[p].seen.idx <= loc[p].tk
    BY <1>d, <1>0, <1>2 DEF EnqReadVal, shared, CellOf, Ring
  <2> QED  BY <1>0, <2>1 DEF Knows, ReadIdxPoints, CellPoints
<1>e. CASE EnqReadHead(p)
  <2>1. /\ UNCHANGED loc /\ CellOf(p)' = CellOf(p) /\ pc[p] = "enq_head"
        /\ pc'[p] = "enq_full" \/ pc'[p] = "enq_cas"
    BY Zenon, <1>e, <1>0, <1>2 DEF EnqReadHead, shared, CellOf, Ring
  <2> QED  BY <1>0, <2>1 DEF Knows, ReadIdxPoints, CellPoints
<1>f. CASE EnqCas(p)
  BY Zenon, <1>f, <1>1, <1>2, <1>3 DEF EnqCas, ReadIdxPoints, CellPoints
<1>g. CASE DeqTicket(p)
  <2>1. /\ pc'[p] = "deq_idx" /\ loc'[p].tk = rhead[Ring(p)]
        /\ Ring(p)' = Ring(p) /\ rhead'[Ring(p)] = rhead[Ring(p)] + 1
    BY <1>g, <1>0, <1>2 DEF DeqTicket, Ring, Locals, RingsType
  <2> QED  BY <1>0, <2>1 DEF Knows, ReadIdxPoints, CellPoints
<1>h. CASE DeqReadVal(p)
  <2>0. PICK seen \in Cell : seen = [loc[p].seen EXCEPT !.val = CellOf(p).val]
    BY Zenon, <1>0, Fields DEF Cell
  <2>1. seen.idx = loc[p].seen.idx
    BY <2>0, <1>0 DEF Cell
  <2>2. pc[p] = "deq_val" /\ UNCHANGED shared
    BY <1>h DEF DeqReadVal
  <2>3. seen.idx <= CellOf(p).idx /\ loc[p].tk < rhead[Ring(p)]
    BY <2>1, <2>2, <1>0 DEF Knows, ReadIdxPoints, CellPoints
  <2>4. CASE LeaveCell(p)
    BY <2>4, <1>1, <1>4
  <2>5. CASE /\ seen.idx <= loc[p].tk /\ seen.val # EMPTY
             /\ Goto(p, IF seen.idx = loc[p].tk THEN "deq_take" ELSE "deq_mark")
             /\ loc' = [loc EXCEPT ![p].seen = seen]
    <3>1. /\ loc'[p].seen = seen /\ loc'[p].tk = loc[p].tk
          /\ loc'[p].rq = loc[p].rq
      BY <2>5, <1>0 DEF Locals
    <3>2. CellOf(p)' = CellOf(p) /\ rhead'[Ring(p)'] = rhead[Ring(p)]
      BY <2>2, <3>1 DEF CellOf, Ring, shared
    <3>3. pc'[p] = IF seen.idx = loc[p].tk THEN "deq_take" ELSE "deq_mark"
      BY <2>5, <1>2
    <3> QED  BY <2>1, <2>3, <2>5, <1>0, <3>1, <3>2, <3>3
             DEF Knows, ReadIdxPoints, CellPoints
  <2>6. CASE /\ seen.idx <= loc[p].tk /\ seen.val = EMPTY
             /\ Goto(p, "deq_tail") /\ loc' = [loc EXCEPT ![p].seen = seen]
    <3>1. /\ loc'[p].seen = seen /\ loc'[p].tk = loc[p].tk
          /\ loc'[p].rq = loc[p].rq
      BY <2>6, <1>0 DEF Locals
    <3>2. CellOf(p)' = CellOf(p) /\ rhead'[Ring(p)'] = rhead[Ring(p)]
      BY <2>2, <3>1 DEF CellOf, Ring, shared
    <3>3. pc'[p] = "deq_tail"
      BY <2>6, <1>2
    <3> QED  BY <2>1, <2>3, <2>6, <1>0, <3>1, <3>2, <3>3
             DEF Knows, ReadIdxPoints, CellPoints
  <2>7. CASE /\ seen.idx <= loc[p].tk /\ seen.val = EMPTY
             /\ Poll(p, [loc[p].seen EXCEPT !.val = CellOf(p).val], loc[p].tt)
    <3>1. /\ loc'[p].seen = seen /\ loc'[p].tk = loc[p].tk
          /\ loc'[p].rq = loc[p].rq
      BY Zenon, <2>0, <2>7, <1>0 DEF Poll, Locals
    <3>2. CellOf(p)' = CellOf(p) /\ rhead'[Ring(p)'] = rhead[Ring(p)]
      BY <2>2, <3>1 DEF CellOf, Ring, shared
    <3>3. pc'[p] = "deq_skip" \/ pc'[p] = "deq_idx"
      BY <2>7, <1>2 DEF Poll
    <3> QED  BY <2>1, <2>3, <2>7, <1>0, <3>1, <3>2, <3>3
             DEF Knows, ReadIdxPoints, CellPoints
  <2> QED  BY <1>h, <2>0, <2>4, <2>5, <2>6, <2>7 DEF DeqReadVal
<1>i. CASE DeqTake(p) \/ DeqMarkUnsafe(p) \/ DeqSkip(p)
  <2>1. CASE LeaveCell(p) \/ Return(p)
    BY <2>1, <1>1, <1>3, <1>4
  <2>2. CASE Goto(p, "deq_idx") /\ UNCHANGED loc
    BY Zenon, <2>2, <1>i, <1>2, <1>7 DEF DeqTake, DeqMarkUnsafe, DeqSkip, CAS2,
       CAS2Fails, shared, CellPoints
  <2> QED  BY Zenon, <1>i, <2>1, <2>2 DEF DeqTake, DeqMarkUnsafe, DeqSkip
<1>j. CASE DeqLoadTail(p)
  <2>1. /\ loc'[p].seen = loc[p].seen /\ loc'[p].tk = loc[p].tk
        /\ loc'[p].rq = loc[p].rq
    BY <1>j, <1>0 DEF DeqLoadTail, Poll, Locals
  <2>2. CellOf(p)' = CellOf(p) /\ rhead'[Ring(p)'] = rhead[Ring(p)]
    BY <1>j, <2>1 DEF DeqLoadTail, CellOf, Ring, shared
  <2>3. pc[p] = "deq_tail" /\ (pc'[p] = "deq_skip" \/ pc'[p] = "deq_idx")
    BY <1>j, <1>2 DEF DeqLoadTail, Poll
  <2> QED  BY Zenon, <1>0, <2>1, <2>2, <2>3 DEF Knows, ReadIdxPoints, CellPoints
<1> QED
  BY <1>a, <1>b, <1>c, <1>d, <1>e, <1>f, <1>g, <1>h, <1>i, <1>j
     DEF enq, deq, fixState

(* Every step preserves LocalInv. *)
LEMMA StepLocalInv ==
  ASSUME TypeOK, RingInv, LocalInv, ItemInv, NEW p \in Threads,
         enq(p) \/ deq(p)
  PROVE  LocalInv'
BY OthersKnow, ThreadKnows DEF LocalInv
-----------------------------------------------------------------------------
\* p is the dequeuer of ticket h of ring q, at work on its cell.
Serves(p, q, h) == pc[p] \in CellPoints /\ Ring(p) = q /\ loc[p].tk = h

(* A ticket is passed only when its dequeuer leaves the cell. *)
LEMMA PassedStep ==
  ASSUME TypeOK, NEW p \in Threads, enq(p) \/ deq(p),
         NEW q \in Rings, NEW h \in Nat, Passed(q, h)'
  PROVE  Passed(q, h) \/ (Serves(p, q, h) /\ ~Serves(p, q, h)')
<1>0. h < rhead'[q] /\ \A o \in Threads : ~Serves(o, q, h)'
  BY DEF Passed, Served, Serves
<1>1. CASE h < rhead[q]
  <2>1. CASE ~Served(q, h)
    BY <1>1, <2>1 DEF Passed
  <2>2. CASE Served(q, h)
    <3>1. PICK o \in Threads : Serves(o, q, h)
      BY <2>2 DEF Served, Serves
    <3>2. o = p
      BY <3>1, <1>0, OtherThreads DEF Serves
    <3> QED  BY <3>1, <3>2, <1>0
  <2> QED  BY <2>1, <2>2
<1>2. CASE ~(h < rhead[q])
  <2>1. rhead[q] \in Nat /\ rhead' # rhead
    BY <1>0, <1>2 DEF TypeOK, RingsType
  <2>2. DeqTicket(p)
    BY Zenon, <2>1 DEF enq, deq, fixState, shared, CAS2, CAS2Fails, EnqCall, EnqNext,
     EnqTicket, EnqReadIdx, EnqReadVal, EnqReadHead, EnqCas, EnqFull, EnqClose,
     EnqAlloc, DeqCall, DeqReadIdx, DeqReadVal, DeqTake, DeqMarkUnsafe,
     DeqLoadTail, DeqSkip, DeqCheckEmpty, FixLoadTail, FixLoadHead, FixSame,
     FixCas, DeqNext
  <2>3. /\ Ring(p) \in Rings /\ p \in DOMAIN loc /\ p \in DOMAIN pc
        /\ loc[p] \in Locals /\ rhead \in [Rings -> Nat]
    BY Typed DEF TypeOK, LocalsType, RingsType
  <2>4. Ring(p) = q /\ h = rhead[q]
    BY <2>1, <2>2, <2>3, <1>0, <1>2 DEF DeqTicket
  <2>5. pc'[p] = "deq_idx" /\ loc'[p].tk = rhead[Ring(p)] /\ Ring(p)' = Ring(p)
    BY <2>2, <2>3 DEF DeqTicket, Goto, Ring, Locals
  <2>6. Serves(p, q, h)'
    BY <2>4, <2>5 DEF Serves, CellPoints
  <2> QED  BY <2>6, <1>0
<1> QED  BY <1>1, <1>2

(* The state a dequeuer leaves its cell in: beyond its ticket, or marked    *)
(* unsafe with the item of an earlier one.                                  *)
LEMMA LeaveEffect ==
  ASSUME TypeOK, RingInv, LocalInv, NEW p \in Threads, enq(p) \/ deq(p),
         NEW q \in Rings, NEW h \in Nat, Serves(p, q, h), ~Serves(p, q, h)'
  PROVE  LET c == array'[q][Slot(h)]
         IN  c.idx > h \/ (c.unsafe /\ c.idx < h /\ c.val # EMPTY)
<1>0. /\ p \in DOMAIN pc /\ p \in DOMAIN loc /\ loc[p] \in Locals
      /\ Slot(h) \in Slots /\ loc[p].seen.idx \in Nat /\ Knows(p)
      /\ pc[p] \in CellPoints /\ Ring(p) = q /\ loc[p].tk = h
      /\ array[q][Slot(h)] = CellOf(p) /\ CellOf(p).idx \in Nat
  BY Zenon, Typed, Fields DEF TypeOK, LocalsType, LocalInv, Serves, CellOf
<1>2. ASSUME pc'[p] \in CellPoints, loc'[p].rq = loc[p].rq, loc'[p].tk = loc[p].tk
      PROVE  FALSE
  BY <1>2, <1>0 DEF Serves, Ring
<1>3. CASE DeqReadIdx(p)
  BY <1>3, <1>2, <1>0 DEF DeqReadIdx, Goto, Locals, CellPoints
<1>4. CASE DeqLoadTail(p)
  BY <1>4, <1>2, <1>0 DEF DeqLoadTail, Poll, Goto, Locals, CellPoints
<1>5. CASE DeqReadVal(p)
  <2>1. UNCHANGED array
    BY <1>5 DEF DeqReadVal, shared
  <2>2. [loc[p].seen EXCEPT !.val = CellOf(p).val].idx = loc[p].seen.idx
    BY Typed DEF Cell
  <2>3. CASE loc[p].seen.idx > loc[p].tk
    BY <2>1, <2>3, <1>0, <1>5 DEF Knows, ReadIdxPoints, DeqReadVal
  <2>4. CASE ~(loc[p].seen.idx > loc[p].tk)
    <3>1. /\ pc'[p] \in CellPoints /\ loc'[p].rq = loc[p].rq
          /\ loc'[p].tk = loc[p].tk
      <4>1. PICK c : c = [loc[p].seen EXCEPT !.val = CellOf(p).val]
        BY Zenon
      <4>2. \/ /\ loc' = [loc EXCEPT ![p].seen = c]
               /\ \/ Goto(p, "deq_take") \/ Goto(p, "deq_mark")
                  \/ Goto(p, "deq_tail")
            \/ Poll(p, [loc[p].seen EXCEPT !.val = CellOf(p).val], loc[p].tt)
        BY <4>1, <2>2, <2>4, <1>5 DEF DeqReadVal
      <4> QED  BY <4>2, <1>0 DEF Poll, Goto, Locals, CellPoints
    <3> QED  BY <3>1, <1>2
  <2> QED  BY <2>3, <2>4
<1>6. CASE DeqTake(p) \/ DeqSkip(p) \/ DeqMarkUnsafe(p)
  <2>1. CAS2Succeeds(p)
    <3> SUFFICES ASSUME ~CAS2Succeeds(p) PROVE FALSE
      OBVIOUS
    <3>1. Goto(p, "deq_idx") /\ UNCHANGED loc
      BY Zenon, <1>6 DEF DeqTake, DeqSkip, DeqMarkUnsafe, CAS2
    <3> QED  BY <3>1, <1>2, <1>0 DEF Goto, CellPoints
  <2>2. CASE DeqTake(p) \/ DeqSkip(p)
    <3>1. PICK c : /\ Stores(p, c)
                   /\ c = RingNode(EMPTY, loc[p].tk + RING_SIZE,
                                   loc[p].seen.unsafe)
      BY <2>1, <2>2 DEF DeqTake, DeqSkip, CAS2, CAS2Fails, Stores
    <3>2. array'[Ring(p)][Slot(loc[p].tk)] = c
      BY <3>1, StoreHits
    <3>3. array'[q][Slot(h)] = c
      BY <3>2, <1>0
    <3>4. c.idx = h + RING_SIZE
      BY <3>1, <1>0 DEF RingNode
    <3> QED  BY <3>3, <3>4, <1>0, Constants
  <2>3. CASE DeqMarkUnsafe(p)
    <3>1. PICK c : /\ Stores(p, c)
                   /\ c = RingNode(loc[p].seen.val, loc[p].seen.idx, TRUE)
      BY Zenon, <2>1, <2>3 DEF DeqMarkUnsafe, CAS2, CAS2Fails, Stores
    <3>2. array'[Ring(p)][Slot(loc[p].tk)] = c
      BY Zenon, <3>1, StoreHits
    <3>3. array'[q][Slot(h)] = c
      BY <3>2, <1>0
    <3>4. c.idx = loc[p].seen.idx /\ c.val = loc[p].seen.val /\ c.unsafe
      BY <3>1 DEF RingNode
    <3>5. loc[p].seen.idx < h /\ loc[p].seen.val # EMPTY
      BY Zenon, <2>3, <1>0 DEF DeqMarkUnsafe, Knows
    <3> QED  BY <3>3, <3>4, <3>5
  <2> QED  BY <1>6, <2>2, <2>3
<1> QED
  BY ZenonT(40), <1>0, <1>3, <1>4, <1>5, <1>6 DEF enq, deq, fixState, CellPoints, EnqCall,
     EnqNext, EnqTicket, EnqReadIdx, EnqReadVal, EnqReadHead, EnqCas, EnqFull,
     EnqClose, EnqAlloc, DeqCall, DeqTicket, DeqCheckEmpty, FixLoadTail,
     FixLoadHead, FixSame, FixCas, DeqNext

(* An enqueuer stores its item only while the dequeuers of its ticket and   *)
(* of all later ones for that cell are still to come or at work.            *)
LEMMA StoreIsAhead ==
  ASSUME TypeOK, LocalInv, PassedInv, StoreInv, NEW p \in Threads,
         pc[p] = "enq_cas", CAS2Succeeds(p), NEW h \in Nat,
         Slot(h) = Slot(loc[p].tk), Passed(Ring(p), h)
  PROVE  h < loc[p].tk
<1>0. /\ loc[p].tk \in Nat /\ loc[p].seen.idx \in Nat /\ Ring(p) \in Rings
      /\ array[Ring(p)][Slot(h)] = loc[p].seen
      /\ loc[p].seen.idx <= loc[p].tk
  BY Zenon, Typed, Fields DEF CAS2Succeeds, CellOf, LocalInv, Knows
<1>1. CASE loc[p].seen.unsafe
  BY <1>0, <1>1 DEF StoreInv
<1>2. CASE ~loc[p].seen.unsafe
  BY <1>0, <1>2 DEF PassedInv
<1> QED  BY <1>1, <1>2

(* Every step preserves PassedInv. *)
LEMMA StepPassedInv ==
  ASSUME TypeOK, RingInv, LocalInv, PassedInv, StoreInv, NEW p \in Threads,
         enq(p) \/ deq(p)
  PROVE  PassedInv'
<1> SUFFICES ASSUME NEW q \in Rings, NEW h \in Nat, Passed(q, h)'
             PROVE  array'[q][Slot(h)].idx > h \/ array'[q][Slot(h)].unsafe
  BY DEF PassedInv
<1>1. CASE Serves(p, q, h) /\ ~Serves(p, q, h)'
  BY <1>1, LeaveEffect
<1>2. CASE Passed(q, h)
  <2>0. /\ Slot(h) \in Slots /\ Published(q) /\ loc[p].tk \in Nat
        /\ loc[p].seen.idx \in Nat
    BY <1>2, SlotType, Typed, Fields DEF Passed, RingInv, Private
  <2>1. array[q][Slot(h)].idx > h \/ array[q][Slot(h)].unsafe
    BY <1>2 DEF PassedInv
  <2>2. CASE array'[q][Slot(h)] = array[q][Slot(h)]
    BY <2>1, <2>2
  <2>3. ASSUME NEW c \in Cell, Stores(p, c), q = Ring(p),
               Slot(h) = Slot(loc[p].tk),
               \/ EnqCas(p) /\ c = RingNode(loc[p].arg, loc[p].tk, FALSE)
               \/ /\ DeqTake(p) \/ DeqSkip(p)
                  /\ c = RingNode(EMPTY, loc[p].tk + RING_SIZE,
                                  loc[p].seen.unsafe)
               \/ /\ DeqMarkUnsafe(p)
                  /\ c = RingNode(loc[p].seen.val, loc[p].seen.idx, TRUE)
        PROVE  array'[q][Slot(h)].idx > h \/ array'[q][Slot(h)].unsafe
    <3>1. array'[q][Slot(h)] = c /\ array[q][Slot(h)] = loc[p].seen
      BY <2>0, <2>3, StoreEffect
    <3>2. CASE EnqCas(p) /\ c = RingNode(loc[p].arg, loc[p].tk, FALSE)
      <4>1. h < loc[p].tk
        BY <3>2, <2>3, <1>2, StoreIsAhead DEF EnqCas, Stores
      <4>2. c.idx = loc[p].tk
        BY <3>2 DEF RingNode
      <4> QED  BY <2>0, <3>1, <4>1, <4>2
    <3>3. CASE /\ DeqTake(p) \/ DeqSkip(p)
               /\ c = RingNode(EMPTY, loc[p].tk + RING_SIZE, loc[p].seen.unsafe)
      <4>1. loc[p].seen.idx <= loc[p].tk
        <5>1. pc[p] = "deq_take" \/ pc[p] = "deq_skip"
          BY Zenon, <3>3 DEF DeqTake, DeqSkip
        <5>2. loc[p].seen.idx = loc[p].tk \/ loc[p].seen.idx <= loc[p].tk
          BY Zenon, <5>1 DEF LocalInv, Knows
        <5> QED  BY <2>0, <5>2
      <4>2. c.idx = loc[p].tk + RING_SIZE /\ c.unsafe = loc[p].seen.unsafe
        BY Zenon, <3>3 DEF RingNode
      <4> QED  BY SMTT(30), <2>0, <2>1, <3>1, <4>1, <4>2, Constants
    <3>4. CASE c = RingNode(loc[p].seen.val, loc[p].seen.idx, TRUE)
      BY <3>1, <3>4 DEF RingNode
    <3> QED  BY Zenon, <2>3, <3>2, <3>3, <3>4
  <2>4. CASE \A o \in Rings : Published(o) => array'[o] = array[o]
    BY <2>0, <2>2, <2>4
  <2>5. ASSUME NEW c \in Cell, Stores(p, c),
               ~(q = Ring(p) /\ Slot(h) = Slot(loc[p].tk))
        PROVE  array'[q][Slot(h)] = array[q][Slot(h)]
    BY <2>0, <2>5, StoreEffect
  <2> QED  BY Zenon, <2>2, <2>3, <2>4, <2>5, CellEffect
<1> QED  BY <1>1, <1>2, PassedStep

(* What the provers need of arithmetic. *)
LEMMA CellArithmetic ==
  /\ \A i, k \in Nat : ~(i > i) /\ ~(i < i) /\ ~(i > k /\ i <= k)
  /\ \A i, k, h \in Nat : ~(i > h /\ i <= k /\ k <= h)
OBVIOUS

(* Every step preserves NoItemStranded. *)
LEMMA StepNoItemStranded ==
  ASSUME TypeOK, RingInv, LocalInv, PassedInv, StoreInv, NoItemStranded,
         NEW p \in Threads, enq(p) \/ deq(p)
  PROVE  NoItemStranded'
<1> SUFFICES ASSUME NEW q \in Rings, NEW j \in Slots,
                    Published(q)', array'[q][j].val # EMPTY,
                    NEW i, i = array'[q][j].idx
             PROVE  Slot(i) = j /\ ~Passed(q, i)'
  <2>1. \A q \in Rings, j \in Slots :
          Published(q)' /\ array'[q][j].val # EMPTY =>
            \A i : i = array'[q][j].idx => Slot(i) = j /\ ~Passed(q, i)'
    OBVIOUS
  <2> QED  BY <2>1 DEF NoItemStranded, Passed, Served, Slot
<1>0. /\ i \in Nat /\ loc[p].tk \in Nat /\ loc[p].seen.idx \in Nat
      /\ array'[q][j] \in Cell
  BY ZenonT(40), StepRingsType, Typed, Fields DEF TypeOK, RingsType
<1>1. ASSUME Slot(i) = j, Passed(q, i)'  PROVE Passed(q, i)
  <2> SUFFICES ASSUME ~Passed(q, i)  PROVE FALSE
    OBVIOUS
  <2>1. Serves(p, q, i) /\ ~Serves(p, q, i)'
    BY Zenon, <1>0, <1>1, PassedStep
  <2>2. array'[q][Slot(i)].idx > i \/ array'[q][Slot(i)].idx < i
    BY Zenon, <1>0, <2>1, LeaveEffect
  <2> QED  BY Zenon, <1>0, <1>1, <2>2, CellArithmetic
<1>2. CASE Published(q) /\ array'[q][j] = array[q][j]
  <2>1. Slot(i) = j /\ ~Passed(q, i)
    BY <1>2 DEF NoItemStranded
  <2> QED  BY <2>1, <1>1
<1>3. ASSUME NEW c \in Cell, Stores(p, c), q = Ring(p),
             j = Slot(loc[p].tk),
             \/ EnqCas(p) /\ c = RingNode(loc[p].arg, loc[p].tk, FALSE)
             \/ /\ DeqTake(p) \/ DeqSkip(p)
                /\ c = RingNode(EMPTY, loc[p].tk + RING_SIZE,
                                loc[p].seen.unsafe)
             \/ /\ DeqMarkUnsafe(p)
                /\ c = RingNode(loc[p].seen.val, loc[p].seen.idx, TRUE)
      PROVE  Slot(i) = j /\ ~Passed(q, i)'
  <2>1. array'[q][j] = c /\ array[q][j] = loc[p].seen
    <3>1. Stores(p, c) /\ q = Ring(p) /\ j = Slot(loc[p].tk)
      BY Zenon, <1>3
    <3> QED  BY <3>1, StoreEffect
  <2>2. CASE EnqCas(p) /\ c = RingNode(loc[p].arg, loc[p].tk, FALSE)
    <3>1. i = loc[p].tk
      <4>1. i = c.idx
        BY <2>1
      <4>2. c.idx = loc[p].tk
        BY <2>2 DEF RingNode
      <4> QED  BY Zenon, <4>1, <4>2
    <3>2. ASSUME Passed(q, i)  PROVE FALSE
      <4>1. pc[p] = "enq_cas" /\ CAS2Succeeds(p) /\ Passed(Ring(p), i)
        BY Zenon, <1>3, <2>2, <3>2 DEF EnqCas, Stores
      <4>2. i < loc[p].tk
        BY Zenon, <1>0, <3>1, <4>1, StoreIsAhead
      <4> QED  BY Zenon, <1>0, <3>1, <4>2, CellArithmetic
    <3> QED  BY ZenonT(40), <1>3, <3>1, <3>2, <1>1
  <2>3. CASE c = RingNode(EMPTY, loc[p].tk + RING_SIZE, loc[p].seen.unsafe)
    BY <2>1, <2>3 DEF RingNode
  <2>4. CASE c = RingNode(loc[p].seen.val, loc[p].seen.idx, TRUE)
    <3>1. i = loc[p].seen.idx /\ loc[p].seen.val # EMPTY
      BY <2>1, <2>4 DEF RingNode
    <3>2. Slot(i) = j /\ ~Passed(q, i)
      BY Zenon, <1>3, <2>1, <3>1 DEF NoItemStranded, RingInv
    <3> QED  BY <3>2, <1>1
  <2> QED  BY Zenon, <1>3, <2>2, <2>3, <2>4
<1>4. CASE \E c \in Cell : Stores(p, c) /\ (EnqCas(p) \/ DeqTake(p) \/ DeqSkip(p)
                                           \/ DeqMarkUnsafe(p))
  <2>1. Published(q)
    BY Zenon, <1>4, SamePublished DEF EnqCas, DeqTake, DeqSkip, DeqMarkUnsafe, CAS2,
       CAS2Fails, shared
  <2>2. ASSUME NEW c \in Cell, Stores(p, c),
               ~(q = Ring(p) /\ j = Slot(loc[p].tk))
        PROVE  array'[q][j] = array[q][j]
    BY <2>2, StoreEffect
  <2>3. CASE \A o \in Rings : Published(o) => array'[o] = array[o]
    BY <2>1, <2>3, <1>2
  <2> QED  BY Zenon, <2>1, <2>2, <2>3, <1>2, <1>3, CellEffect
<1>5. CASE \A o \in Rings : Published(o) => array'[o] = array[o]
  <2>1. CASE Published(q)
    BY <1>2, <1>5, <2>1
  <2>2. CASE ~Published(q)
    <3>1. EnqAlloc(p)
      BY <2>2, OtherRings, SamePublished
    <3>2. /\ rhead'[q] = 0 /\ \A k \in Slots : k # 0 => array'[q][k].val = EMPTY
          /\ array'[q][0] = RingNode(loc[p].arg, 0, FALSE)
      <4>1. PICK n \in Rings :
              /\ Private(n) /\ UNCHANGED rhead
              /\ array' = [array EXCEPT ![n][0] = RingNode(loc[p].arg, 0, FALSE)]
              /\ Published(q)' => Published(q) \/ q = n
        BY Zenon, <3>1, AllocEffect
      <4>2. q = n
        BY <4>1, <2>2
      <4> QED  BY Zenon, <4>1, <4>2, SlotZero DEF Private, TypeOK, RingsType
    <3>3. j = 0 /\ i = 0
      BY <3>2 DEF RingNode
    <3>4. ~Passed(q, i)'
      BY <1>0, <3>2, <3>3 DEF Passed
    <3> QED  BY <3>3, <3>4, SlotZero
  <2> QED  BY <2>1, <2>2
<1> QED  BY Zenon, <1>4, <1>5, CellEffect

(* Every step preserves StoreInv. *)
LEMMA StepStoreInv ==
  ASSUME TypeOK, RingInv, LocalInv, ItemInv, StoreInv, NEW p \in Threads,
         enq(p) \/ deq(p)
  PROVE  StoreInv'
<1> SUFFICES ASSUME NEW o \in Threads, NEW h \in Nat, pc'[o] = "enq_cas",
                    loc'[o].seen.unsafe, CAS2Succeeds(o)', loc'[o].tk <= h,
                    Slot(h) = Slot(loc'[o].tk), Passed(Ring(o), h)'
             PROVE  FALSE
  BY Zenon DEF StoreInv
<1>1. CASE o = p
  <2>0. p \in DOMAIN pc /\ Ring(p) \in Rings /\ rhead[Ring(p)] \in Nat
        /\ loc[p].tk \in Nat
    BY Zenon, Typed DEF TypeOK, LocalsType
  <2>1. EnqReadVal(p) \/ EnqReadHead(p)
    BY ZenonT(40), <1>1, <2>0 DEF enq, deq, fixState, Goto, Return, Iterate, LeaveCell,
     Poll, EnqCall, EnqNext, EnqTicket, EnqReadIdx, EnqCas, EnqFull, EnqClose,
     EnqAlloc, DeqCall, DeqTicket, DeqReadIdx, DeqReadVal, DeqTake,
     DeqMarkUnsafe, DeqLoadTail, DeqSkip, DeqCheckEmpty, FixLoadTail,
     FixLoadHead, FixSame, FixCas, DeqNext
  <2>2. EnqReadHead(p) /\ rhead[Ring(p)] < loc[p].tk
    BY <1>1, <2>0, <2>1 DEF EnqReadVal, EnqReadHead, Goto
  <2>3. UNCHANGED <<rhead, loc>>
    BY Zenon, <2>2 DEF EnqReadHead, shared
  <2> QED  BY <1>1, <2>0, <2>2, <2>3 DEF Passed, Ring
<1>2. CASE o # p
  <2>0. /\ pc[o] = "enq_cas" /\ loc'[o] = loc[o] /\ Ring(o)' = Ring(o)
        /\ Ring(o) \in Rings /\ loc[o].tk \in Nat /\ loc[o].seen.idx \in Nat
        /\ Slot(loc[o].tk) \in Slots /\ Published(Ring(o))
        /\ CellOf(o).idx \in Nat
    BY ZenonT(40), <1>2, OtherThreads, Typed, Fields DEF RingInv
  <2>1. /\ loc[o].seen.val = EMPTY /\ loc[o].seen.idx <= CellOf(o).idx
        /\ loc[o].seen.idx <= loc[o].tk
    BY <2>0 DEF LocalInv, Knows, ReadIdxPoints
  <2>2. array'[Ring(o)][Slot(loc[o].tk)] = loc[o].seen
    BY Zenon, <2>0 DEF CAS2Succeeds, CellOf
  <2>3. CAS2Succeeds(o)
    <3>1. ~(loc[o].seen.idx > CellOf(o).idx)
      BY Zenon, <2>0, <2>1, CellArithmetic
    <3>2. \/ loc[o].seen = CellOf(o)
          \/ loc[o].seen.val # EMPTY
          \/ loc[o].seen.idx > CellOf(o).idx
      BY Zenon, <2>0, <2>2, CellMonotone DEF CellOf
    <3> QED  BY Zenon, <2>1, <3>1, <3>2 DEF CAS2Succeeds
  <2>4. ~Passed(Ring(o), h)
    BY ZenonT(40), <2>0, <2>3 DEF StoreInv
  <2>5. PICK q \in Rings : q = Ring(o)
    BY <2>0
  <2>6. Passed(q, h)'
    BY <2>5, <2>0 DEF Passed, Served
  <2>7. Serves(p, q, h) /\ ~Serves(p, q, h)'
    BY <2>4, <2>5, <2>6, PassedStep
  <2>8. loc[o].seen.idx > h \/ loc[o].seen.val # EMPTY
    BY ZenonT(40), <2>0, <2>2, <2>5, <2>7, LeaveEffect
  <2>9. loc[o].tk <= h
    BY Zenon, <2>0
  <2> QED  BY Zenon, <2>0, <2>1, <2>8, <2>9, CellArithmetic
<1> QED  BY <1>1, <1>2
=============================================================================
