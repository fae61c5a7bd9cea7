--------------------------- MODULE ELCRQRingsInv ----------------------------
(***************************************************************************)
(* The inductive invariant of ELCRQRings, and its parts about types, rings *)
(* and the closed bit, preserved by every step.                            *)
(***************************************************************************)
EXTENDS ELCRQRings, QueueHistoryProofs

(***************************************************************************)
(* The inductive invariant.                                                *)
(***************************************************************************)

\* A ring is unallocated, held back by one thread, or published; only a
\* published ring is used.
Private(q) ==
  /\ rhead[q] = 0 /\ rnext[q] = NULL
  /\ \A j \in Slots : j # 0 => array[q][j].val = EMPTY

RingInv ==
  /\ \A q \in Rings : Published(q) => q <= rings
  /\ \A q \in Rings : ~Published(q) => Private(q)
  /\ \A p \in Threads : Published(Ring(p))
  /\ \A p \in Threads : nrq[p] # NULL => nrq[p] <= rings /\ ~Published(nrq[p])
  /\ \A p, o \in Threads : p # o /\ nrq[p] # NULL => nrq[p] # nrq[o]

\* The closed bit of a tail is set before a successor is linked, and the CAS
\* of fixState starts from an open tail.
ClosedInv ==
  /\ SuccessorImpliesClosed
  /\ \A p \in Threads : pc[p] = "enq_alloc" => rtail[Ring(p)].closed
  /\ \A p \in Threads : pc[p] = "fix_cas" => ~loc[p].tt.closed

\* What a thread knows of the cell it works on.
ReadIdxPoints == {"enq_val", "enq_head", "enq_cas", "deq_val", "deq_take",
                  "deq_mark", "deq_tail", "deq_skip"}

Knows(p) ==
  /\ pc[p] \in ReadIdxPoints => loc[p].seen.idx <= CellOf(p).idx
  /\ pc[p] \in {"enq_head", "enq_cas", "deq_tail", "deq_skip"} =>
       loc[p].seen.idx <= loc[p].tk
  /\ pc[p] \in {"enq_val", "enq_head", "enq_cas", "deq_tail", "deq_skip"} =>
       loc[p].seen.val = EMPTY
  /\ pc[p] = "deq_take" => loc[p].seen.idx = loc[p].tk
  /\ pc[p] = "deq_mark" => loc[p].seen.idx < loc[p].tk
  /\ pc[p] \in {"deq_take", "deq_mark"} => loc[p].seen.val # EMPTY
  /\ pc[p] \in CellPoints => loc[p].tk < rhead[Ring(p)]

LocalInv == \A p \in Threads : Knows(p)

\* The dequeuer of a ticket leaves its cell with a larger index or unsafe.
PassedInv ==
  \A q \in Rings, h \in Nat :
    Passed(q, h) => \/ array[q][Slot(h)].idx > h
                    \/ array[q][Slot(h)].unsafe

\* An enqueuer about to store into an unsafe cell: no dequeuer of its ticket,
\* or of a later one for the same cell, has gone by since rq->head < t.
StoreInv ==
  \A p \in Threads, h \in Nat :
    ( /\ pc[p] = "enq_cas" /\ loc[p].seen.unsafe /\ CAS2Succeeds(p)
      /\ loc[p].tk <= h /\ Slot(h) = Slot(loc[p].tk) )
    => ~Passed(Ring(p), h)

\* The item of an enqueue in progress is nobody else's and in no ring yet.
ItemInv ==
  /\ hist.returned \subseteq hist.sent
  /\ \A p \in Threads : pc[p] \in EnqPoints =>
       /\ loc[p].arg \in hist.sent \ hist.returned
       /\ \A o \in Threads : o # p /\ pc[o] \in EnqPoints =>
            loc[o].arg # loc[p].arg

IInv == /\ TypeOK /\ RingInv /\ ClosedInv /\ LocalInv /\ PassedInv /\ StoreInv
        /\ NoItemStranded /\ ItemInv /\ ExactlyOnce
-----------------------------------------------------------------------------
(* What Slot returns. *)
LEMMA SlotType == \A t \in Nat : Slot(t) \in Slots
BY RingAssumption DEF Slot, Slots

(* The first ticket of a ring is for cell 0. *)
LEMMA SlotZero == Slot(0) = 0 /\ 0 \in Slots
BY RingAssumption DEF Slot, Slots

(* The constants of the model, as the proofs use them. *)
LEMMA Constants ==
  /\ First \in Rings /\ NULL \notin Rings /\ Rings \subseteq Nat
  /\ RING_SIZE \in Nat /\ RING_SIZE > 0
  /\ EMPTY \in Values /\ Items \subseteq Values /\ EMPTY \notin Items
BY BoundAssumption, RingAssumption, EmptyAssumption
   DEF First, NULL, Rings, Values
-----------------------------------------------------------------------------
(* Init satisfies the type invariant. *)
LEMMA InitType == Init => TypeOK
BY Constants, SlotType, RingAssumption
   DEF Init, TypeOK, RingsType, LocalsType, Locals, HistoryInit, HistoryType,
       NoCall, NoLocals, RingNode, init_ring, Cell, Tail, Rings, Slots, First, Values

-----------------------------------------------------------------------------
(* Types of the local variables of a thread and of the cell it works on. *)
LEMMA Typed ==
  ASSUME TypeOK, NEW p \in Threads
  PROVE  /\ loc[p] \in Locals /\ Ring(p) \in Rings
         /\ loc[p].tk \in Nat /\ Slot(loc[p].tk) \in Slots
         /\ loc[p].seen \in Cell /\ CellOf(p) \in Cell
         /\ loc[p].tt \in Tail /\ rtail[Ring(p)] \in Tail
         /\ loc[p].r \in Nat /\ loc[p].h \in Nat /\ loc[p].try_close \in Nat
         /\ loc[p].arg \in Values
         /\ rhead[Ring(p)] \in Nat /\ rnext[Ring(p)] \in Rings \cup {NULL}
<1>1. loc[p] \in Locals
  BY DEF TypeOK, LocalsType
<1>2. /\ Ring(p) \in Rings /\ loc[p].tk \in Nat
      /\ loc[p].seen \in Cell /\ loc[p].tt \in Tail /\ loc[p].r \in Nat
      /\ loc[p].h \in Nat /\ loc[p].try_close \in Nat /\ loc[p].arg \in Values
  BY <1>1 DEF Locals, Ring
<1>3. Slot(loc[p].tk) \in Slots
  BY <1>2, SlotType
<1> QED  BY <1>1, <1>2, <1>3 DEF TypeOK, RingsType, CellOf

(* Fields of a cell and of a tail. *)
LEMMA Fields ==
  /\ \A c \in Cell : c.val \in Values /\ c.idx \in Nat /\ c.unsafe \in BOOLEAN
  /\ \A t \in Tail : t.idx \in Nat /\ t.closed \in BOOLEAN
  /\ \A v \in Values, i \in Nat, u \in BOOLEAN : RingNode(v, i, u) \in Cell
  /\ \A i \in Nat, b \in BOOLEAN : [idx |-> i, closed |-> b] \in Tail
BY DEF Cell, Tail, RingNode

(* Every step preserves the types of the local variables. *)
LEMMA StepLocalsType ==
  ASSUME TypeOK, NEW p \in Threads, enq(p) \/ deq(p)
  PROVE  LocalsType'
<1> DEFINE Points == EnqPoints \cup DeqPoints \cup {"idle"}
<1>0. pc \in [Threads -> Points] /\ loc \in [Threads -> Locals]
  BY DEF TypeOK, LocalsType
<1>1. NoLocals \in Locals
  BY Zenon, Constants, Fields DEF NoLocals, Locals
<1>2. \A point \in Points : Goto(p, point) => pc' \in [Threads -> Points]
  BY <1>0 DEF Goto
<1>3. Return(p) => LocalsType'
  BY <1>0, <1>1, <1>2 DEF Return, LocalsType
<1>4. \A point \in Points, q \in Rings : Iterate(p, point, q) => LocalsType'
  <2> SUFFICES ASSUME NEW point \in Points, NEW q \in Rings, Iterate(p, point, q)
               PROVE  LocalsType'
    OBVIOUS
  <2>1. [NoLocals EXCEPT !.rq = q, !.arg = loc[p].arg,
                         !.try_close = loc[p].try_close] \in Locals
    BY Zenon, <1>1, Typed DEF Locals
  <2> QED  BY <1>0, <1>2, <2>1 DEF Iterate, LocalsType
<1>5. LeaveCell(p) => LocalsType'
  <2>1. [NoLocals EXCEPT !.rq = Ring(p), !.tk = loc[p].tk] \in Locals
    BY Zenon, <1>1, Typed DEF Locals
  <2> QED  BY <1>0, <1>2, <2>1 DEF LeaveCell, LocalsType, DeqPoints
<1>6. \A seen \in Cell, tt \in Tail : Poll(p, seen, tt) => LocalsType'
  <2> SUFFICES ASSUME NEW seen \in Cell, NEW tt \in Tail, Poll(p, seen, tt)
               PROVE  LocalsType'
    OBVIOUS
  <2>1. PICK n \in Nat : loc' = [loc EXCEPT ![p] =
                [loc[p] EXCEPT !.seen = seen, !.tt = tt, !.r = n]]
    <3> DEFINE skip == \/ seen.unsafe \/ NothingComing(p, tt)
                       \/ loc[p].r > SPIN_LIMIT \/ tt.closed
               n == IF skip THEN loc[p].r ELSE loc[p].r + 1
    <3>1. n \in Nat  BY Typed
    <3>2. loc' = [loc EXCEPT ![p] =
                [loc[p] EXCEPT !.seen = seen, !.tt = tt, !.r = n]]
      BY Zenon DEF Poll
    <3> QED  BY Zenon, <3>1, <3>2
  <2>2. [loc[p] EXCEPT !.seen = seen, !.tt = tt, !.r = n] \in Locals
    BY Zenon, Typed DEF Locals
  <2>3. Goto(p, "deq_skip") \/ Goto(p, "deq_idx")
    BY DEF Poll
  <2> QED  BY <1>0, <1>2, <2>1, <2>2, <2>3 DEF LocalsType, DeqPoints, CellPoints
<1>7. \A c \in Cell : [loc[p] EXCEPT !.seen = c] \in Locals
  BY Typed DEF Locals
<1> USE DEF LocalsType, EnqPoints, DeqPoints, CellPoints
<1>a. CASE \E v \in Items : EnqCall(p, v)
  BY <1>a, <1>0, <1>2, Typed, Constants DEF EnqCall, Locals
<1>b. CASE EnqNext(p)
  BY <1>b, <1>0, <1>2, Typed DEF EnqNext, Locals
<1>c. CASE EnqTicket(p)
  BY ZenonT(40), <1>c, <1>0, <1>2, Typed, Fields DEF EnqTicket, Locals
<1>d. CASE EnqReadIdx(p) \/ DeqReadIdx(p)
  <2>1. RingNode(EMPTY, CellOf(p).idx, CellOf(p).unsafe) \in Cell
    BY Typed, Fields, Constants
  <2> QED  BY <1>d, <2>1, <1>0, <1>2, <1>7 DEF EnqReadIdx, DeqReadIdx
<1>e. CASE EnqReadVal(p)
  <2>1. Goto(p, "enq_full") \/ Goto(p, "enq_head") \/ Goto(p, "enq_cas")
    BY <1>e DEF EnqReadVal
  <2>2. UNCHANGED loc
    BY <1>e DEF EnqReadVal
  <2> QED  BY <2>1, <2>2, <1>0, <1>2
<1>i. CASE EnqReadHead(p)
  BY <1>i, <1>0 DEF EnqReadHead, Goto
<1>f. CASE EnqCas(p) \/ DeqTake(p)
  BY Zenon, <1>f, <1>0, <1>2, <1>3 DEF EnqCas, DeqTake
<1>g. CASE EnqFull(p)
  <2>1. [loc[p] EXCEPT !.try_close = @ + 1] \in Locals
    BY Typed DEF Locals
  <2>2. CASE Iterate(p, "enq_next", Ring(p))
    BY Zenon, <2>2, <1>4, Typed
  <2>3. CASE /\ Goto(p, "enq_close")
             /\ loc' = [loc EXCEPT ![p] = [loc[p] EXCEPT !.try_close = @ + 1]]
    BY <2>1, <2>3, <1>0, <1>2
  <2> QED  BY Zenon, <1>g, <2>2, <2>3 DEF EnqFull
<1>h. CASE EnqClose(p) \/ EnqAlloc(p)
  BY Zenon, <1>h, <1>0, <1>2, <1>3, <1>4, Typed DEF EnqClose, EnqAlloc
<1>j. CASE DeqCall(p)
  BY <1>j, <1>0, <1>2 DEF DeqCall
<1>k. CASE DeqTicket(p)
  BY <1>k, <1>0, <1>2, Typed DEF DeqTicket, Locals
<1>l. CASE DeqReadVal(p)
  <2> DEFINE seen == [loc[p].seen EXCEPT !.val = CellOf(p).val]
  <2>1. seen \in Cell
    BY Typed, Fields DEF Cell
  <2> QED  BY <1>l, <2>1, <1>0, <1>2, <1>5, <1>6, <1>7, Typed DEF DeqReadVal
<1>m. CASE DeqMarkUnsafe(p) \/ DeqSkip(p)
  BY Zenon, <1>m, <1>0, <1>2, <1>5 DEF DeqMarkUnsafe, DeqSkip
<1>n. CASE DeqLoadTail(p)
  BY <1>n, <1>6, Typed DEF DeqLoadTail
<1>r. CASE DeqCheckEmpty(p) \/ DeqNext(p)
  BY <1>r, <1>0, <1>2, <1>3, <1>4, Typed DEF DeqCheckEmpty, DeqNext
<1>s. CASE FixLoadTail(p)
  BY <1>s, <1>0, <1>2, Typed DEF FixLoadTail, Locals
<1>t. CASE FixLoadHead(p)
  BY <1>t, <1>0, <1>2, Typed DEF FixLoadHead, Locals
<1>q. CASE FixSame(p)
  BY <1>q, <1>0 DEF FixSame, Goto
<1>u. CASE FixCas(p)
  BY <1>u, <1>0, <1>2 DEF FixCas
<1> QED
  BY <1>a, <1>b, <1>c, <1>d, <1>e, <1>f, <1>g, <1>h, <1>i, <1>j, <1>k, <1>l,
     <1>m, <1>n, <1>q, <1>r, <1>s, <1>t, <1>u DEF enq, deq, fixState

(* Every step preserves the types of the rings. *)
LEMMA StepRingsType ==
  ASSUME TypeOK, NEW p \in Threads, enq(p) \/ deq(p)
  PROVE  RingsType'
<1>0. RingsType
  BY DEF TypeOK
<1>1. UNCHANGED shared => RingsType'
  BY <1>0 DEF shared, RingsType
<1>2. \A c \in Cell : CAS2(p, c) => RingsType'
  <2> SUFFICES ASSUME NEW c \in Cell, CAS2(p, c)  PROVE RingsType'
    OBVIOUS
  <2>1. array' \in [Rings -> [Slots -> Cell]]
    BY <1>0, Typed DEF CAS2, RingsType
  <2> QED  BY <2>1, <1>0 DEF CAS2, RingsType
<1>3. CAS2Fails(p) => RingsType'
  BY <1>1 DEF CAS2Fails
<1>4. \A t \in Tail : rtail' = [rtail EXCEPT ![Ring(p)] = t]
                     => rtail' \in [Rings -> Tail]
  BY <1>0, Typed DEF RingsType
<1>5. /\ \A n \in Nat : [rtail[Ring(p)] EXCEPT !.idx = n] \in Tail
      /\ [rtail[Ring(p)] EXCEPT !.closed = TRUE] \in Tail
  BY Zenon, Typed DEF Tail
<1>a. CASE \/ \E v \in Items : EnqCall(p, v)
           \/ EnqNext(p) \/ EnqReadIdx(p) \/ EnqReadVal(p) \/ EnqReadHead(p)
           \/ EnqFull(p) \/ DeqCall(p) \/ DeqReadIdx(p) \/ DeqReadVal(p)
           \/ DeqLoadTail(p) \/ DeqCheckEmpty(p) \/ FixLoadTail(p)
           \/ FixLoadHead(p) \/ FixSame(p) \/ DeqNext(p)
  BY <1>a, <1>1 DEF EnqCall, EnqNext, EnqReadIdx, EnqReadVal, EnqReadHead,
     EnqFull, DeqCall, DeqReadIdx, DeqReadVal, DeqLoadTail, DeqCheckEmpty,
     FixLoadTail, FixLoadHead, FixSame, DeqNext
<1>b. CASE EnqTicket(p)
  <2>1. rtail[Ring(p)].idx + 1 \in Nat
    BY Typed, Fields
  <2>2. rtail' = [rtail EXCEPT ![Ring(p)] =
                    [rtail[Ring(p)] EXCEPT !.idx = rtail[Ring(p)].idx + 1]]
    BY <1>b DEF EnqTicket
  <2>3. rtail' \in [Rings -> Tail]
    BY Zenon, <2>1, <2>2, <1>4, <1>5
  <2> QED  BY <1>b, <2>3, <1>0 DEF EnqTicket, RingsType
<1>c. CASE EnqCas(p)
  <2>1. RingNode(loc[p].arg, loc[p].tk, FALSE) \in Cell
    BY Zenon, Typed, Fields
  <2> QED  BY Zenon, <1>c, <2>1, <1>2, <1>3 DEF EnqCas
<1>d. CASE EnqClose(p)
  <2>1. rtail' \in [Rings -> Tail]
    BY Zenon, <1>d, <1>0, <1>4, <1>5 DEF EnqClose, RingsType
  <2> QED  BY <1>d, <2>1, <1>0 DEF EnqClose, RingsType
<1>e. CASE EnqAlloc(p)
  <2>1. PICK n \in Rings :
          /\ \/ nrq[p] = n /\ UNCHANGED rings
             \/ nrq[p] = NULL /\ n = rings + 1 /\ rings' = n
          /\ rtail' = [rtail EXCEPT ![n].idx = 1]
          /\ array' = [array EXCEPT ![n][0] = RingNode(loc[p].arg, 0, FALSE)]
          /\ \/ /\ rnext' = [rnext EXCEPT ![Ring(p)] = n]
                /\ nrq' = [nrq EXCEPT ![p] = NULL]
             \/ nrq' = [nrq EXCEPT ![p] = n] /\ UNCHANGED rnext
    BY Zenon, <1>e DEF EnqAlloc
  <2>2. [rtail[n] EXCEPT !.idx = 1] \in Tail
    BY SMTT(30), <1>0 DEF RingsType, Tail
  <2>3. rtail' \in [Rings -> Tail]
    BY <1>0, <2>1, <2>2 DEF RingsType
  <2>4. RingNode(loc[p].arg, 0, FALSE) \in Cell
    BY Zenon, Typed, Fields
  <2>5. array' \in [Rings -> [Slots -> Cell]]
    BY Zenon, <1>0, <2>1, <2>4, SlotZero DEF RingsType
  <2>6. /\ rings' \in Rings /\ rnext' \in [Rings -> Rings \cup {NULL}]
        /\ nrq' \in [Threads -> Rings \cup {NULL}]
    BY Zenon, <1>0, <2>1, Typed DEF RingsType
  <2> QED  BY Zenon, <1>e, <1>0, <2>3, <2>5, <2>6 DEF RingsType, EnqAlloc
<1>f. CASE DeqTicket(p)
  BY <1>f, <1>0, Typed DEF DeqTicket, RingsType
<1>g. CASE DeqTake(p) \/ DeqSkip(p)
  <2>1. RingNode(EMPTY, loc[p].tk + RING_SIZE, loc[p].seen.unsafe) \in Cell
    BY SMTT(30), Typed, Fields, Constants
  <2> QED  BY <1>g, <2>1, <1>2, <1>3 DEF DeqTake, DeqSkip
<1>h. CASE DeqMarkUnsafe(p)
  <2>1. RingNode(loc[p].seen.val, loc[p].seen.idx, TRUE) \in Cell
    BY Zenon, Typed, Fields
  <2> QED  BY Zenon, <1>h, <2>1, <1>2, <1>3 DEF DeqMarkUnsafe
<1>i. CASE FixCas(p)
  <2>1. rtail' \in [Rings -> Tail]
    BY Zenon, <1>i, <1>0, <1>4, Typed, Fields DEF FixCas, RingsType
  <2> QED  BY <1>i, <2>1, <1>0 DEF FixCas, RingsType
<1> QED
  BY <1>a, <1>b, <1>c, <1>d, <1>e, <1>f, <1>g, <1>h, <1>i
     DEF enq, deq, fixState

(* Every step preserves the type of the history. *)
LEMMA StepHistoryType ==
  ASSUME TypeOK, LocalInv, ItemInv, NEW p \in Threads, enq(p) \/ deq(p)
  PROVE  HistoryType'
<1>0. HistoryType
  BY DEF TypeOK
<1>1. pc[p] \in EnqPoints => loc[p].arg \in Items
  BY <1>0 DEF ItemInv, HistoryType
<1>2. pc[p] = "deq_take" => loc[p].seen.val \in Items
  BY Typed, Fields DEF LocalInv, Knows, Values
<1>a. CASE UNCHANGED history
  BY <1>a, <1>0, HistoryTyped
<1>b. CASE \E v \in Items : EnqCall(p, v)
  BY <1>b, <1>0, HistoryTyped DEF EnqCall
<1>c. CASE EnqCas(p) \/ EnqAlloc(p)
  BY Zenon, <1>c, <1>0, <1>1, HistoryTyped DEF EnqCas, EnqAlloc, EnqPoints
<1>d. CASE DeqCall(p)
  BY <1>d, <1>0, HistoryTyped DEF DeqCall
<1>e. CASE DeqTake(p)
  BY <1>e, <1>0, <1>2, HistoryTyped DEF DeqTake
<1>f. CASE DeqNext(p)
  BY <1>f, <1>0, HistoryTyped DEF DeqNext
<1> QED
  BY Zenon, <1>a, <1>b, <1>c, <1>d, <1>e, <1>f DEF enq, deq, fixState, EnqNext,
     EnqTicket, EnqReadIdx, EnqReadVal, EnqReadHead, EnqFull, EnqClose,
     DeqTicket, DeqReadIdx, DeqReadVal, DeqMarkUnsafe, DeqLoadTail, DeqSkip,
     DeqCheckEmpty, FixLoadTail, FixLoadHead, FixSame, FixCas
-----------------------------------------------------------------------------
(* A step of p leaves the variables of the other threads alone. *)
LEMMA OtherThreads ==
  ASSUME TypeOK, NEW p \in Threads, enq(p) \/ deq(p), NEW o \in Threads, o # p
  PROVE  /\ pc'[o] = pc[o] /\ loc'[o] = loc[o] /\ nrq'[o] = nrq[o]
         /\ Ring(o)' = Ring(o)
<1>1. pc'[o] = pc[o]
  BY Zenon DEF TypeOK, LocalsType, enq, deq, fixState, Goto, Return, Iterate,
     LeaveCell, Poll, EnqCall, EnqNext, EnqTicket, EnqReadIdx, EnqReadVal,
     EnqReadHead, EnqCas, EnqFull, EnqClose, EnqAlloc, DeqCall, DeqTicket,
     DeqReadIdx, DeqReadVal, DeqTake, DeqMarkUnsafe, DeqLoadTail, DeqSkip,
     DeqCheckEmpty, FixLoadTail, FixLoadHead, FixSame, FixCas, DeqNext
<1>2. loc'[o] = loc[o]
  BY Zenon DEF TypeOK, LocalsType, enq, deq, fixState, Return, Iterate, LeaveCell,
     Poll, EnqCall, EnqNext, EnqTicket, EnqReadIdx, EnqReadVal, EnqReadHead,
     EnqCas, EnqFull, EnqClose, EnqAlloc, DeqCall, DeqTicket, DeqReadIdx,
     DeqReadVal, DeqTake, DeqMarkUnsafe, DeqLoadTail, DeqSkip, DeqCheckEmpty,
     FixLoadTail, FixLoadHead, FixSame, FixCas, DeqNext
<1>3. nrq'[o] = nrq[o]
  BY ZenonT(40) DEF TypeOK, RingsType, enq, deq, fixState, shared, CAS2, CAS2Fails,
     EnqCall, EnqNext, EnqTicket, EnqReadIdx, EnqReadVal, EnqReadHead, EnqCas,
     EnqFull, EnqClose, EnqAlloc, DeqCall, DeqTicket, DeqReadIdx, DeqReadVal,
     DeqTake, DeqMarkUnsafe, DeqLoadTail, DeqSkip, DeqCheckEmpty, FixLoadTail,
     FixLoadHead, FixSame, FixCas, DeqNext
<1> QED  BY <1>1, <1>2, <1>3 DEF Ring

(* A step of p other than EnqAlloc touches no ring but the one it is on. *)
LEMMA OtherRings ==
  ASSUME TypeOK, NEW p \in Threads, enq(p) \/ deq(p), ~EnqAlloc(p)
  PROVE  /\ UNCHANGED <<rnext, rings, nrq>>
         /\ \A q \in Rings : q # Ring(p) =>
              rhead'[q] = rhead[q] /\ rtail'[q] = rtail[q] /\ array'[q] = array[q]
<1> USE DEF TypeOK, RingsType, enq, deq, fixState, shared, CAS2, CAS2Fails,
     EnqCall, EnqNext, EnqTicket, EnqReadIdx, EnqReadVal, EnqReadHead, EnqCas,
     EnqFull, EnqClose, DeqCall, DeqTicket, DeqReadIdx, DeqReadVal,
     DeqTake, DeqMarkUnsafe, DeqLoadTail, DeqSkip, DeqCheckEmpty, FixLoadTail,
     FixLoadHead, FixSame, FixCas, DeqNext
<1>1. UNCHANGED <<rnext, rings, nrq>>
  BY Zenon
<1>2. \A q \in Rings : q # Ring(p) => rhead'[q] = rhead[q]
  BY Zenon
<1>3. \A q \in Rings : q # Ring(p) => rtail'[q] = rtail[q]
  BY Zenon
<1>4. \A q \in Rings : q # Ring(p) => array'[q] = array[q]
  BY Zenon
<1> QED  BY Zenon, <1>1, <1>2, <1>3, <1>4

(* Where a step leads: to the ring it was on, the first one or the next. *)
LEMMA RingWalk ==
  ASSUME TypeOK, NEW p \in Threads, enq(p) \/ deq(p)
  PROVE  \/ Ring(p)' = Ring(p) \/ Ring(p)' = First
         \/ Ring(p)' = rnext[Ring(p)] /\ rnext[Ring(p)] # NULL
<1>0. p \in DOMAIN loc /\ loc[p] \in Locals
  BY DEF TypeOK, LocalsType
<1>1. Return(p) => Ring(p)' = First
  BY <1>0 DEF Return, Ring, NoLocals
<1>2. \A point, q : Iterate(p, point, q) => Ring(p)' = q
  BY Zenon, <1>0 DEF Iterate, Ring, NoLocals
<1>3. LeaveCell(p) => Ring(p)' = Ring(p)
  BY Zenon, <1>0 DEF LeaveCell, Ring, NoLocals
<1>4. \A seen, tt : Poll(p, seen, tt) => Ring(p)' = Ring(p)
  BY <1>0 DEF Poll, Ring, Locals
<1>5. UNCHANGED loc => Ring(p)' = Ring(p)
  BY DEF Ring
<1>a. CASE \/ \E v \in Items : EnqCall(p, v)
           \/ EnqTicket(p) \/ EnqReadIdx(p) \/ DeqTicket(p) \/ DeqReadIdx(p)
           \/ FixLoadTail(p) \/ FixLoadHead(p)
  BY <1>a, <1>0 DEF EnqCall, EnqTicket, EnqReadIdx, DeqTicket, DeqReadIdx,
     FixLoadTail, FixLoadHead, Ring, Locals
<1>b. CASE EnqNext(p)
  BY <1>b, <1>0, <1>5 DEF EnqNext, Ring, Locals
<1>c. CASE \/ EnqReadVal(p) \/ EnqReadHead(p) \/ EnqCas(p) \/ EnqClose(p)
           \/ EnqAlloc(p) \/ DeqCall(p) \/ DeqTake(p) \/ DeqMarkUnsafe(p)
           \/ DeqLoadTail(p) \/ DeqSkip(p) \/ DeqCheckEmpty(p) \/ FixSame(p)
           \/ FixCas(p) \/ DeqNext(p)
  BY Zenon, <1>c, <1>1, <1>2, <1>3, <1>4, <1>5 DEF EnqReadVal, EnqReadHead, EnqCas,
     EnqClose, EnqAlloc, DeqCall, DeqTake, DeqMarkUnsafe, DeqLoadTail, DeqSkip,
     DeqCheckEmpty, FixSame, FixCas, DeqNext
<1>d. CASE EnqFull(p)
  BY <1>d, <1>0, <1>2 DEF EnqFull, Ring, Locals
<1>e. CASE DeqReadVal(p)
  BY <1>e, <1>0, <1>3, <1>4 DEF DeqReadVal, Ring, Locals
<1> QED
  BY Zenon, <1>a, <1>b, <1>c, <1>d, <1>e DEF enq, deq, fixState
-----------------------------------------------------------------------------
(* EnqAlloc fills a ring that nobody else knows and links it if it can. *)
LEMMA AllocEffect ==
  ASSUME TypeOK, RingInv, NEW p \in Threads, EnqAlloc(p)
  PROVE  \E n \in Rings :
           /\ ~Published(n) /\ Private(n) /\ n # Ring(p) /\ n <= rings'
           /\ rings <= rings'
           /\ \A o \in Threads : o # p => nrq[o] # n
           /\ UNCHANGED rhead
           /\ rtail' = [rtail EXCEPT ![n].idx = 1]
           /\ array' = [array EXCEPT ![n][0] = RingNode(loc[p].arg, 0, FALSE)]
           /\ \/ /\ rnext[Ring(p)] = NULL
                 /\ rnext' = [rnext EXCEPT ![Ring(p)] = n]
                 /\ nrq' = [nrq EXCEPT ![p] = NULL]
                 /\ \A q \in Rings : Published(q)' <=> Published(q) \/ q = n
                 /\ EnqueueReturned(loc[p].arg) /\ Return(p)
              \/ /\ rnext[Ring(p)] # NULL /\ UNCHANGED rnext
                 /\ nrq' = [nrq EXCEPT ![p] = n]
                 /\ \A q \in Rings : Published(q)' <=> Published(q)
                 /\ Iterate(p, "enq_next", Ring(p)) /\ UNCHANGED history
<1>0. RingsType /\ Ring(p) \in Rings
  BY Typed DEF TypeOK
<1>1. PICK n \in Rings :
       /\ \/ nrq[p] = n /\ UNCHANGED rings
          \/ nrq[p] = NULL /\ n = rings + 1 /\ rings' = n
       /\ rtail' = [rtail EXCEPT ![n].idx = 1]
       /\ array' = [array EXCEPT ![n][0] = RingNode(loc[p].arg, 0, FALSE)]
       /\ IF rnext[Ring(p)] = NULL
            THEN /\ rnext' = [rnext EXCEPT ![Ring(p)] = n]
                 /\ nrq' = [nrq EXCEPT ![p] = NULL]
                 /\ EnqueueReturned(loc[p].arg)
                 /\ Return(p)
            ELSE /\ nrq' = [nrq EXCEPT ![p] = n]
                 /\ Iterate(p, "enq_next", Ring(p))
                 /\ UNCHANGED <<rnext, history>>
  BY Zenon DEF EnqAlloc
<1>2. ~Published(n) /\ n <= rings' /\ rings <= rings'
  <2>1. CASE nrq[p] = n /\ UNCHANGED rings
    BY <2>1, <1>0, Constants DEF RingInv, RingsType
  <2>2. CASE n = rings + 1 /\ rings' = n
    BY <2>2, <1>0, Constants DEF RingInv, RingsType
  <2> QED  BY <1>1, <2>1, <2>2
<1>3. Private(n) /\ n # Ring(p)
  BY <1>2 DEF RingInv
<1>4. ASSUME NEW o \in Threads, o # p  PROVE nrq[o] # n
  BY <1>1, <1>4, <1>0, Constants DEF RingInv, RingsType
<1>5. CASE rnext[Ring(p)] = NULL
  <2>1. \A q \in Rings : Published(q)' <=> Published(q) \/ q = n
    BY <1>0, <1>1, <1>5, Constants DEF Published, RingsType
  <2> QED  BY Zenon, <1>1, <1>2, <1>3, <1>4, <1>5, <2>1 DEF EnqAlloc
<1>6. CASE rnext[Ring(p)] # NULL
  <2>1. \A q \in Rings : Published(q)' <=> Published(q)
    BY <1>1, <1>6 DEF Published
  <2> QED  BY Zenon, <1>1, <1>2, <1>3, <1>4, <1>6, <2>1 DEF EnqAlloc
<1> QED  BY Zenon, <1>5, <1>6

(* The other steps publish nothing. *)
LEMMA SamePublished ==
  ASSUME UNCHANGED rnext
  PROVE  \A q : Published(q)' <=> Published(q)
BY DEF Published

(* Every step preserves RingInv. *)
LEMMA StepRingInv ==
  ASSUME TypeOK, RingInv, NEW p \in Threads, enq(p) \/ deq(p)
  PROVE  RingInv'
<1>0. RingsType /\ Ring(p) \in Rings /\ Published(Ring(p))
  BY Typed DEF TypeOK, RingInv
<1>1. Published(Ring(p))'
  <2>1. \A q \in Rings : Published(q) => Published(q)'
    <3>1. CASE EnqAlloc(p)
      BY Zenon, <3>1, AllocEffect
    <3>2. CASE ~EnqAlloc(p)
      BY <3>2, OtherRings, SamePublished
    <3> QED  BY <3>1, <3>2
  <2>2. CASE Ring(p)' = rnext[Ring(p)] /\ rnext[Ring(p)] # NULL
    <3>1. PICK q \in Rings : q = rnext[Ring(p)]
      BY <1>0, <2>2 DEF RingsType
    <3>2. Published(q)
      BY <1>0, <3>1 DEF Published
    <3>3. Published(q)' /\ Ring(p)' = q
      BY <2>1, <2>2, <3>1, <3>2
    <3> QED  BY <3>3 DEF Published
  <2>3. CASE Ring(p)' = Ring(p) \/ Ring(p)' = First
    BY Zenon, <2>1, <2>3, <1>0, Constants DEF Published, Ring
  <2> QED  BY <2>2, <2>3, RingWalk
<1>2. ASSUME NEW o \in Threads  PROVE Published(Ring(o))'
  <2>1. CASE o = p
    BY <1>1, <2>1
  <2>2. CASE o # p
    <3>1. Ring(o)' = Ring(o) /\ Ring(o) \in Rings /\ Published(Ring(o))
      BY <2>2, OtherThreads, Typed DEF RingInv
    <3>2. \A q \in Rings : Published(q) => Published(q)'
      <4>1. CASE EnqAlloc(p)
        BY Zenon, <4>1, AllocEffect
      <4>2. CASE ~EnqAlloc(p)
        BY <4>2, OtherRings, SamePublished
      <4> QED  BY <4>1, <4>2
    <3> QED  BY <3>1, <3>2 DEF Published, Ring
  <2> QED  BY <2>1, <2>2
<1>3. CASE EnqAlloc(p)
  <2>1. PICK n \in Rings :
           /\ ~Published(n) /\ Private(n) /\ n # Ring(p) /\ n <= rings'
           /\ rings <= rings'
           /\ \A o \in Threads : o # p => nrq[o] # n
           /\ UNCHANGED rhead
           /\ array' = [array EXCEPT ![n][0] = RingNode(loc[p].arg, 0, FALSE)]
           /\ \/ /\ rnext' = [rnext EXCEPT ![Ring(p)] = n]
                 /\ nrq' = [nrq EXCEPT ![p] = NULL]
                 /\ \A q \in Rings : Published(q)' <=> Published(q) \/ q = n
              \/ /\ UNCHANGED rnext
                 /\ nrq' = [nrq EXCEPT ![p] = n]
                 /\ \A q \in Rings : Published(q)' <=> Published(q)
    BY Zenon, <1>3, AllocEffect
  <2>2. rings' \in Nat /\ rings \in Nat
    BY Zenon, <1>0, StepRingsType, Constants DEF RingsType
  <2>3. \A q \in Rings : Published(q)' => q <= rings'
    BY <2>1, <2>2, Constants DEF RingInv
  <2>4. ASSUME NEW q \in Rings, ~Published(q)'  PROVE Private(q)'
    <3>1. ~Published(q) /\ q # Ring(p) /\ Private(q)
      BY <2>1, <2>4, <1>0 DEF RingInv
    <3>2. rhead'[q] = 0 /\ rnext'[q] = NULL
      BY <2>1, <3>1, <1>0 DEF Private, RingsType
    <3>3. \A j \in Slots : j # 0 => array'[q][j] = array[q][j]
      BY <2>1, <1>0 DEF RingsType
    <3> QED  BY <3>1, <3>2, <3>3 DEF Private
  <2>5. ASSUME NEW o \in Threads, nrq'[o] # NULL
        PROVE  (nrq[o] <= rings /\ ~Published(nrq[o]))'
    <3>1. CASE o # p
      <4>1. PICK q \in Rings : nrq'[o] = q /\ nrq[o] = q
        BY <3>1, <2>1, <2>5, <1>0 DEF RingsType
      <4>2. q # n /\ q <= rings /\ ~Published(q)
        BY <4>1, <3>1, <2>1, Constants DEF RingInv
      <4>3. ~Published(q)' /\ q <= rings'
        BY <4>2, <2>1, <2>2, Constants
      <4> QED  BY <4>1, <4>3 DEF Published
    <3>2. CASE o = p
      <4>1. nrq'[p] = n /\ UNCHANGED rnext
        BY <3>2, <2>1, <2>5, <1>0 DEF RingsType
      <4> QED  BY <3>2, <4>1, <2>1 DEF Published
    <3> QED  BY <3>1, <3>2
  <2>6. ASSUME NEW o \in Threads, NEW k \in Threads, o # k, nrq'[o] # NULL
        PROVE  nrq'[o] # nrq'[k]
    BY <2>1, <2>6, <1>0, Constants DEF RingInv, RingsType
  <2> QED  BY <1>2, <2>3, <2>4, <2>5, <2>6 DEF RingInv
<1>4. CASE ~EnqAlloc(p)
  <2>1. /\ UNCHANGED <<rnext, rings, nrq>>
        /\ \A q : Published(q)' <=> Published(q)
        /\ \A q \in Rings : q # Ring(p) =>
              rhead'[q] = rhead[q] /\ array'[q] = array[q]
    BY <1>4, OtherRings, SamePublished
  <2>2. ASSUME NEW q \in Rings, ~Published(q)'  PROVE Private(q)'
    BY <2>1, <2>2, <1>0 DEF RingInv, Private
  <2>3. \A o \in Threads : (nrq[o] # NULL => ~Published(nrq[o]))'
    BY <2>1 DEF RingInv, Published
  <2> QED  BY SMTT(30), <1>2, <2>1, <2>2, <2>3 DEF RingInv, Published
<1> QED  BY <1>3, <1>4
-----------------------------------------------------------------------------
(* No step opens a closed ring. *)
LEMMA ClosedStays ==
  ASSUME TypeOK, RingInv, ClosedInv, NEW p \in Threads, enq(p) \/ deq(p),
         NEW q \in Rings, rtail[q].closed
  PROVE  rtail'[q].closed
<1>0. RingsType /\ rtail[q] \in Tail /\ Ring(p) \in Rings
  BY Typed DEF TypeOK, RingsType
<1>1. CASE UNCHANGED rtail
  BY <1>1
<1>2. CASE EnqTicket(p)
  BY <1>2, <1>0 DEF EnqTicket, RingsType, Tail
<1>3. CASE EnqClose(p)
  <2>1. UNCHANGED rtail \/ rtail' = [rtail EXCEPT ![Ring(p)] =
                                       [rtail[Ring(p)] EXCEPT !.closed = TRUE]]
    BY <1>3 DEF EnqClose
  <2>2. [rtail[Ring(p)] EXCEPT !.closed = TRUE].closed = TRUE
    BY Typed DEF Tail
  <2> QED  BY Zenon, <2>1, <2>2, <1>0 DEF RingsType
<1>4. CASE EnqAlloc(p)
  <2>1. PICK n \in Rings : rtail' = [rtail EXCEPT ![n].idx = 1]
    BY Zenon, <1>4 DEF EnqAlloc
  <2> QED  BY <2>1, <1>0 DEF RingsType, Tail
<1>5. CASE FixCas(p)
  BY <1>5, <1>0 DEF FixCas, RingsType, ClosedInv
<1> QED
  BY ZenonT(40), <1>1, <1>2, <1>3, <1>4, <1>5 DEF enq, deq, fixState, shared, CAS2,
     CAS2Fails, EnqCall, EnqNext, EnqReadIdx, EnqReadVal, EnqReadHead, EnqCas,
     EnqFull, DeqCall, DeqTicket, DeqReadIdx, DeqReadVal, DeqTake,
     DeqMarkUnsafe, DeqLoadTail, DeqSkip, DeqCheckEmpty, FixLoadTail,
     FixLoadHead, FixSame, DeqNext

(* Every step preserves ClosedInv. *)
LEMMA StepClosedInv ==
  ASSUME TypeOK, RingInv, ClosedInv, NEW p \in Threads, enq(p) \/ deq(p)
  PROVE  ClosedInv'
<1>0. /\ RingsType /\ Ring(p) \in Rings /\ p \in DOMAIN pc /\ p \in DOMAIN loc
      /\ loc[p] \in Locals
  BY Typed DEF TypeOK, LocalsType
<1>1. ASSUME NEW q \in Rings, rnext'[q] # NULL  PROVE rtail'[q].closed
  <2>1. CASE EnqAlloc(p)
    BY <2>1, <1>1, <1>0, AllocEffect, ClosedStays
       DEF ClosedInv, SuccessorImpliesClosed, EnqAlloc, RingsType
  <2>2. CASE ~EnqAlloc(p)
    BY <2>2, <1>1, OtherRings, ClosedStays DEF ClosedInv, SuccessorImpliesClosed
  <2> QED  BY <2>1, <2>2
<1>2. pc'[p] = "enq_alloc" => Ring(p)' = Ring(p) /\ rtail'[Ring(p)].closed
  <2>1. CASE EnqTicket(p)
    BY <2>1, <1>0 DEF EnqTicket, Goto, Ring, Locals, RingsType, Tail
  <2>2. CASE EnqClose(p)
    BY <2>2, <1>0 DEF EnqClose, Iterate, Goto, Ring, RingsType, Tail
  <2>3. CASE ~EnqTicket(p) /\ ~EnqClose(p)
    BY ZenonT(40), <2>3, <1>0 DEF enq, deq, fixState, Goto, Return, Iterate, LeaveCell,
     Poll, EnqCall, EnqNext, EnqReadIdx, EnqReadVal, EnqReadHead, EnqCas,
     EnqFull, EnqAlloc, DeqCall, DeqTicket, DeqReadIdx, DeqReadVal, DeqTake,
     DeqMarkUnsafe, DeqLoadTail, DeqSkip, DeqCheckEmpty, FixLoadTail,
     FixLoadHead, FixSame, FixCas, DeqNext
  <2> QED  BY <2>1, <2>2, <2>3
<1>3. pc'[p] = "fix_cas" => ~loc'[p].tt.closed
  <2>1. CASE FixSame(p)
    BY <2>1, <1>0 DEF FixSame, Goto
  <2>2. CASE ~FixSame(p)
    BY ZenonT(40), <2>2, <1>0 DEF enq, deq, fixState, Goto, Return, Iterate, LeaveCell,
     Poll, EnqCall, EnqNext, EnqTicket, EnqReadIdx, EnqReadVal, EnqReadHead,
     EnqCas, EnqFull, EnqClose, EnqAlloc, DeqCall, DeqTicket, DeqReadIdx,
     DeqReadVal, DeqTake, DeqMarkUnsafe, DeqLoadTail, DeqSkip, DeqCheckEmpty,
     FixLoadTail, FixLoadHead, FixCas, DeqNext
  <2> QED  BY <2>1, <2>2
<1>4. ASSUME NEW o \in Threads, pc'[o] = "enq_alloc"
      PROVE  (rtail[Ring(o)].closed)'
  <2>1. CASE o = p
    BY <2>1, <1>2, <1>4
  <2>2. CASE o # p
    <3>1. Ring(o) \in Rings /\ Ring(o)' = Ring(o) /\ pc[o] = "enq_alloc"
      BY SMTT(30), <2>2, <1>4, OtherThreads, Typed
    <3> QED  BY <3>1, ClosedStays DEF ClosedInv
  <2> QED  BY <2>1, <2>2
<1>5. ASSUME NEW o \in Threads, pc'[o] = "fix_cas"  PROVE ~loc'[o].tt.closed
  BY <1>3, <1>5, OtherThreads DEF ClosedInv
<1> QED  BY <1>1, <1>4, <1>5 DEF ClosedInv, SuccessorImpliesClosed
=============================================================================
