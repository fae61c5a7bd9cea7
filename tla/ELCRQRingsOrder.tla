-------------------------- MODULE ELCRQRingsOrder ---------------------------
(***************************************************************************)
(* What enq and deq in C promise about order, proved on top of the         *)
(* invariant IInv of ELCRQRings: an EMPTY answer is honest, for any number *)
(* of rings, and items leave in the order in which they came as long as    *)
(* the queue has one ring.  Across rings the order is not kept.            *)
(***************************************************************************)
EXTENDS ELCRQRingsProofs

\* An enqueuer that has drawn a ticket and may still store under it.
TicketPoints == {"enq_idx", "enq_val", "enq_head", "enq_cas"}

\* A dequeuer that has found nothing coming in its ring.
LeftPoints == {"fix_tail", "fix_head", "fix_same", "fix_cas", "deq_next"}

\* The tail is ahead of every ticket that was drawn from it.
TailInv ==
  /\ \A q \in Rings : rhead[q] <= MaxTicket /\ rtail[q].idx <= MaxTicket + 1
  /\ \A q \in Rings, j \in Slots :
       Published(q) /\ array[q][j].val # EMPTY => array[q][j].idx < rtail[q].idx
  /\ \A p \in Threads :
       /\ loc[p].h <= MaxTicket
       /\ pc[p] \in TicketPoints => loc[p].tk < rtail[Ring(p)].idx
       /\ pc[p] = "fix_cas" => loc[p].tt.idx < loc[p].h
       /\ pc[p] \in LeftPoints \cup {"deq_empty"} => loc[p].tk < rhead[Ring(p)]

\* The dequeuer for item v has come: one that draws a ticket now is too late.
Settled(v) ==
  \A q \in Rings, j \in Slots : Holds(q, j, v) => array[q][j].idx < rhead[q]

\* Thread p is not the dequeuer for item v, and will not be.
TooLate(p, v) ==
  \A q \in Rings, j \in Slots :
    Holds(q, j, v) => /\ array[q][j].idx < rhead[q]
                      /\ ~Serves(p, q, array[q][j].idx)

\* pos numbers the published rings in the order of the list.
Chain(pos) ==
  /\ \A q \in Rings : rnext[q] # NULL => pos[rnext[q]] = pos[q] + 1
  /\ \A q, o \in Rings : Published(q) /\ Published(o) /\ pos[q] = pos[o] => q = o
  /\ \A q, o \in Rings :
       Published(q) /\ rnext[q] = NULL /\ Published(o) => pos[o] <= pos[q]
  /\ \A q \in Rings : Published(q) => pos[First] <= pos[q]

\* Of the items that were there when p's deq began, those in the rings p has
\* left behind are settled.
Searched(p, pos) ==
  \A v \in call[p].sent, q \in Rings, j \in Slots :
    ( /\ Holds(q, j, v)
      /\ pos[q] < pos[Ring(p)] \/ (q = Ring(p) /\ pc[p] \in LeftPoints) )
    => array[q][j].idx < rhead[q]

ListInv ==
  /\ \A p \in Threads : pc[p] = "idle" => Ring(p) = First
  /\ \E pos \in [Rings -> Nat] :
       Chain(pos) /\ \A p \in Threads : pc[p] \in DeqPoints => Searched(p, pos)

\* What an EMPTY answer said is gone is settled, and was when the calls began
\* that know of it.
EmptyInv ==
  /\ \A v \in hist.emptied : v \in hist.returned /\ Settled(v)
  /\ \A p \in Threads : call[p].sent \subseteq hist.returned
  /\ \A p \in Threads : \A v \in call[p].gone :
       v \in hist.returned /\ TooLate(p, v)
  /\ EmptyIsHonest

\* Item v was there when w was sent: it has the smaller ticket.
Ordered(v, w) ==
  /\ v \in hist.returned
  /\ w \in hist.delivered => Settled(v)
  /\ \A q \in Rings, j, k \in Slots :
       Holds(q, j, v) /\ Holds(q, k, w) => array[q][j].idx < array[q][k].idx
  /\ \A p \in Threads, q \in Rings, j \in Slots :
       pc[p] \in TicketPoints /\ loc[p].arg = w /\ Holds(q, j, v)
         => array[q][j].idx < loc[p].tk

OrderInv ==
  /\ \A w \in Items : \A v \in hist.before[w] : Ordered(v, w)
  /\ \A p \in Threads : \A v \in call[p].late :
       v \in hist.returned /\ TooLate(p, v)
  /\ FifoOrder

OInv == TailInv /\ ListInv /\ EmptyInv /\ (rings = 1 => OrderInv)
-----------------------------------------------------------------------------
(* Facts about the order of the tickets. *)
LEMMA Arithmetic ==
  /\ \A i, h, k \in Nat : i < h /\ k >= h => i < k
  /\ \A i, h, k \in Nat : i < h /\ h < k => i < k
  /\ \A i, h \in Nat : ~(i < i) /\ ~(i <= h /\ h < i) /\ (i < h + 1 => i < h \/ i = h)
  /\ \A i, h \in Nat : i <= h => i < h \/ i = h
  /\ \A i \in Nat : i + 1 # i
OBVIOUS

(* What no call knows. *)
LEMMA NoCallKnows == NoCall.sent = {} /\ NoCall.late = {} /\ NoCall.gone = {}
BY DEF NoCall

\* What a step of p does to p itself.
Keeps(p) == /\ loc'[p].rq = loc[p].rq /\ loc'[p].tk = loc[p].tk
            /\ loc'[p].arg = loc[p].arg

(* How a thread gets to the points that the invariants speak about. *)
LEMMA OwnStep ==
  ASSUME TypeOK, NEW p \in Threads, enq(p) \/ deq(p)
  PROVE  /\ pc'[p] \in TicketPoints =>
              \/ EnqTicket(p) /\ loc'[p].tk = rtail[Ring(p)].idx
              \/ pc[p] \in TicketPoints /\ Keeps(p)
         /\ pc'[p] \in CellPoints =>
              \/ DeqTicket(p) /\ loc'[p].tk = rhead[Ring(p)]
              \/ pc[p] \in CellPoints /\ Keeps(p)
         /\ pc'[p] = "deq_empty" => pc[p] \in CellPoints
         /\ pc'[p] \in LeftPoints =>
              \/ pc[p] = "deq_empty" /\ NothingComing(p, rtail[Ring(p)])
              \/ pc[p] \in LeftPoints
         /\ pc'[p] \in LeftPoints \cup {"deq_empty"} =>
              loc'[p].rq = loc[p].rq /\ loc'[p].tk = loc[p].tk
         /\ pc'[p] = "fix_cas" => loc'[p].tt.idx < loc'[p].h
         /\ loc'[p].h \in {loc[p].h, 0, rhead[Ring(p)]}
         /\ pc'[p] = "idle" => Ring(p)' = First
         /\ pc'[p] \in DeqPoints =>
              \/ DeqCall(p) \/ (pc[p] \in DeqPoints /\ Ring(p)' = Ring(p))
              \/ /\ pc[p] = "deq_next" /\ rnext[Ring(p)] # NULL
                 /\ Ring(p)' = rnext[Ring(p)]
<1>0. p \in DOMAIN pc /\ p \in DOMAIN loc /\ loc[p] \in Locals
  BY DEF TypeOK, LocalsType
<1>1. Return(p) => pc'[p] = "idle" /\ loc'[p].rq = First /\ loc'[p].h = 0
  BY <1>0 DEF Return, Goto, NoLocals
<1>2. \A point, q : Iterate(p, point, q)
                    => pc'[p] = point /\ loc'[p].rq = q /\ loc'[p].h = 0
  BY ZenonT(40), <1>0 DEF Iterate, Goto, NoLocals
<1>3. LeaveCell(p) => /\ pc'[p] = "deq_empty" /\ loc'[p].rq = loc[p].rq
                      /\ loc'[p].tk = loc[p].tk /\ loc'[p].h = 0
  BY ZenonT(40), <1>0 DEF LeaveCell, Goto, NoLocals, Ring
<1>4. \A seen, tt : Poll(p, seen, tt) =>
        /\ pc'[p] \in {"deq_skip", "deq_idx"}
        /\ Keeps(p) /\ loc'[p].h = loc[p].h
  BY <1>0 DEF Poll, Goto, Keeps, Locals
<1> USE DEF TicketPoints, CellPoints, LeftPoints, DeqPoints, Keeps, Ring
<1>a. CASE \E v \in Items : EnqCall(p, v)
  BY <1>a, <1>0 DEF EnqCall, Goto, Locals
<1>b. CASE EnqNext(p)
  BY <1>b, <1>0 DEF EnqNext, Goto, Locals
<1>c. CASE EnqTicket(p)
  BY <1>c, <1>0 DEF EnqTicket, Goto, Locals
<1>d. CASE EnqReadIdx(p) \/ DeqReadIdx(p)
  BY <1>d, <1>0 DEF EnqReadIdx, DeqReadIdx, Goto, Locals
<1>e. CASE EnqReadVal(p) \/ EnqReadHead(p)
  BY <1>e, <1>0 DEF EnqReadVal, EnqReadHead, Goto
<1>f. CASE EnqCas(p) \/ EnqClose(p) \/ EnqAlloc(p)
  <2>1. \/ pc'[p] = "idle" /\ loc'[p].rq = First /\ loc'[p].h = 0
        \/ pc'[p] = "enq_next" /\ loc'[p].h = 0
        \/ pc'[p] \in {"enq_full", "enq_alloc"} /\ UNCHANGED loc
    BY Zenon, <1>f, <1>0, <1>1, <1>2 DEF EnqCas, EnqClose, EnqAlloc, Goto
  <2> QED  BY <2>1
<1>g. CASE EnqFull(p)
  BY <1>g, <1>0, <1>2 DEF EnqFull, Goto, Locals
<1>h. CASE DeqCall(p) \/ DeqTicket(p)
  BY <1>h, <1>0 DEF DeqCall, DeqTicket, Goto, Locals
<1>i. CASE DeqReadVal(p)
  BY <1>i, <1>0, <1>3, <1>4 DEF DeqReadVal, Goto, Locals
<1>j. CASE DeqTake(p) \/ DeqMarkUnsafe(p) \/ DeqLoadTail(p) \/ DeqSkip(p)
  <2>1. /\ pc[p] \in CellPoints
        /\ \/ pc'[p] = "idle" /\ loc'[p].rq = First /\ loc'[p].h = 0
           \/ /\ pc'[p] = "deq_empty" /\ loc'[p].rq = loc[p].rq
              /\ loc'[p].tk = loc[p].tk /\ loc'[p].h = 0
           \/ /\ pc'[p] \in {"deq_skip", "deq_idx"}
              /\ Keeps(p) /\ loc'[p].h = loc[p].h
    BY Zenon, <1>j, <1>0, <1>1, <1>3, <1>4
       DEF DeqTake, DeqMarkUnsafe, DeqLoadTail, DeqSkip, Goto
  <2> QED  BY <2>1
<1>k. CASE DeqCheckEmpty(p)
  BY <1>k, <1>0, <1>2 DEF DeqCheckEmpty, Goto
<1>l. CASE FixLoadTail(p) \/ FixLoadHead(p)
  BY <1>l, <1>0 DEF FixLoadTail, FixLoadHead, Goto, Locals
<1>m. CASE FixSame(p) \/ FixCas(p)
  BY <1>m, <1>0 DEF FixSame, FixCas, Goto
<1>n. CASE DeqNext(p)
  BY <1>n, <1>0, <1>1, <1>2 DEF DeqNext
<1> QED
  BY Zenon, <1>a, <1>b, <1>c, <1>d, <1>e, <1>f, <1>g, <1>h, <1>i, <1>j, <1>k,
     <1>l, <1>m, <1>n DEF enq, deq, fixState
-----------------------------------------------------------------------------
(* A cell that holds an item held it before, under the same ticket, or the *)
(* step is the one that sends it.                                          *)
LEMMA HoldsStep ==
  ASSUME IInv, NEW p \in Threads, enq(p) \/ deq(p), NEW q \in Rings,
         NEW j \in Slots, NEW v \in Items, Holds(q, j, v)'
  PROVE  \/ Holds(q, j, v) /\ array'[q][j].idx = array[q][j].idx
         \/ /\ pc[p] \in EnqPoints /\ v = loc[p].arg /\ v \notin hist.returned
            /\ \/ /\ EnqCas(p) /\ q = Ring(p)
                  /\ array'[q][j].idx = loc[p].tk
               \/ /\ EnqAlloc(p) /\ ~Published(q)
                  /\ array'[q][j].idx = 0 /\ rtail'[q].idx = 1
<1>0. /\ TypeOK /\ RingInv /\ RingsType /\ v # EMPTY /\ array[q][j] \in Cell
      /\ array'[q][j].val = v /\ Published(q)'
  BY Constants DEF IInv, TypeOK, RingsType, Holds
<1>1. pc[p] \in EnqPoints => loc[p].arg \notin hist.returned
  BY DEF IInv, ItemInv
<1>2. CASE EnqAlloc(p)
  <2>1. PICK n \in Rings :
          /\ ~Published(n) /\ Private(n)
          /\ rtail' = [rtail EXCEPT ![n].idx = 1]
          /\ array' = [array EXCEPT ![n][0] = RingNode(loc[p].arg, 0, FALSE)]
          /\ Published(q)' => Published(q) \/ q = n
    BY Zenon, <1>0, <1>2, AllocEffect
  <2>2. CASE q # n
    <3>1. array'[q] = array[q]
      BY Zenon, <1>0, <2>1, <2>2 DEF RingsType
    <3> QED  BY <3>1, <2>1, <2>2, <1>0 DEF Holds
  <2>3. CASE q = n
    <3>1. \A k \in Slots : k # 0 => array'[n][k] = array[n][k]
      BY Zenon, <1>0, <2>1 DEF RingsType
    <3>2. j = 0
      BY <3>1, <1>0, <2>1, <2>3 DEF Private
    <3>3. array'[n][0] = RingNode(loc[p].arg, 0, FALSE)
      BY Zenon, <1>0, <2>1, SlotZero DEF RingsType
    <3>4. v = loc[p].arg /\ array'[q][j].idx = 0
      BY <3>2, <3>3, <2>3, <1>0 DEF RingNode
    <3>5. rtail'[q].idx = 1
      BY <1>0, <2>1, <2>3 DEF RingsType, Tail
    <3>6. pc[p] \in EnqPoints
      BY <1>2 DEF EnqAlloc, EnqPoints
    <3> QED  BY <3>4, <3>5, <3>6, <2>1, <2>3, <1>1, <1>2
  <2> QED  BY <2>2, <2>3
<1>3. CASE ~EnqAlloc(p)
  <2>1. Published(q)
    BY <1>0, <1>3, OtherRings, SamePublished
  <2>2. CASE array'[q][j] = array[q][j]
    BY <2>1, <2>2, <1>0 DEF Holds
  <2>3. ASSUME NEW c \in Cell, Stores(p, c), q = Ring(p), j = Slot(loc[p].tk),
               \/ EnqCas(p) /\ c = RingNode(loc[p].arg, loc[p].tk, FALSE)
               \/ /\ DeqTake(p) \/ DeqSkip(p)
                  /\ c = RingNode(EMPTY, loc[p].tk + RING_SIZE,
                                  loc[p].seen.unsafe)
               \/ /\ DeqMarkUnsafe(p)
                  /\ c = RingNode(loc[p].seen.val, loc[p].seen.idx, TRUE)
        PROVE  \/ Holds(q, j, v) /\ array'[q][j].idx = array[q][j].idx
               \/ /\ EnqCas(p) /\ v = loc[p].arg /\ array'[q][j].idx = loc[p].tk
    <3>1. array'[q][j] = c /\ array[q][j] = loc[p].seen
      BY <1>0, <2>3, StoreEffect
    <3> QED  BY <3>1, <2>1, <2>3, <1>0 DEF RingNode, Holds
  <2>4. EnqCas(p) => pc[p] \in EnqPoints
    BY DEF EnqCas, EnqPoints
  <2>5. ASSUME NEW c \in Cell, Stores(p, c),
               ~(q = Ring(p) /\ j = Slot(loc[p].tk))
        PROVE  array'[q][j] = array[q][j]
    BY <1>0, <2>5, StoreEffect
  <2> QED  BY Zenon, <1>0, <1>1, <2>1, <2>2, <2>3, <2>4, <2>5, CellEffect
<1> QED  BY <1>2, <1>3

(* The tail of a published ring never moves back: not by the CAS of        *)
(* fixState either.                                                        *)
LEMMA TailMonotone ==
  ASSUME IInv, TailInv, NEW p \in Threads, enq(p) \/ deq(p),
         NEW q \in Rings, Published(q)
  PROVE  rtail'[q].idx >= rtail[q].idx
<1>0. /\ RingsType /\ rtail[q] \in Tail /\ rtail[q].idx \in Nat
      /\ Ring(p) \in Rings /\ TypeOK /\ RingInv /\ loc[p].h \in Nat
      /\ rtail[Ring(p)] \in Tail
  BY Typed, Fields DEF IInv, TypeOK, RingsType
<1>1. CASE UNCHANGED rtail
  BY <1>1, <1>0
<1>2. CASE EnqTicket(p)
  BY <1>2, <1>0 DEF EnqTicket, RingsType, Tail
<1>3. CASE EnqClose(p)
  <2>1. UNCHANGED rtail \/ rtail' = [rtail EXCEPT ![Ring(p)] =
                                       [rtail[Ring(p)] EXCEPT !.closed = TRUE]]
    BY <1>3 DEF EnqClose
  <2>2. [rtail[Ring(p)] EXCEPT !.closed = TRUE].idx = rtail[Ring(p)].idx
    BY <1>0 DEF Tail
  <2>3. rtail'[q].idx = rtail[q].idx
    BY Zenon, <2>1, <2>2, <1>0 DEF RingsType
  <2> QED  BY <2>3, <1>0
<1>4. CASE EnqAlloc(p)
  <2>1. PICK n \in Rings : /\ ~Published(n)
                           /\ rtail' = [rtail EXCEPT ![n].idx = 1]
    BY Zenon, <1>0, <1>4, AllocEffect
  <2>2. rtail'[q] = rtail[q]
    BY <2>1, <1>0 DEF RingsType
  <2> QED  BY <2>2, <1>0
<1>5. CASE FixCas(p)
  BY <1>5, <1>0 DEF FixCas, RingsType, TailInv
<1> QED
  BY ZenonT(40), <1>1, <1>2, <1>3, <1>4, <1>5 DEF enq, deq, fixState, shared, CAS2,
     CAS2Fails, EnqCall, EnqNext, EnqReadIdx, EnqReadVal, EnqReadHead, EnqCas,
     EnqFull, DeqCall, DeqTicket, DeqReadIdx, DeqReadVal, DeqTake,
     DeqMarkUnsafe, DeqLoadTail, DeqSkip, DeqCheckEmpty, FixLoadTail,
     FixLoadHead, FixSame, DeqNext

(* Every step preserves TailInv. *)
LEMMA StepTailInv ==
  ASSUME IInv, TailInv, NEW p \in Threads, enq(p) \/ deq(p)
  PROVE  TailInv'
<1>0. /\ RingsType /\ TypeOK /\ RingInv /\ Ring(p) \in Rings /\ loc[p].h \in Nat
      /\ Published(Ring(p)) /\ RingsType' /\ TypeOK' /\ Ring(p)' \in Rings
      /\ MaxTicket \in Nat /\ loc[p].tk \in Nat /\ rtail[Ring(p)] \in Tail
  <2>1. TypeOK /\ RingInv /\ TypeOK'
    BY StepInv DEF IInv, Next
  <2>2. Ring(p)' \in Rings
    BY <2>1 DEF TypeOK, LocalsType, Locals, Ring
  <2> QED  BY <2>1, <2>2, Typed, BoundAssumption DEF TypeOK, RingInv
<1>1. ASSUME NEW q \in Rings
      PROVE  rhead'[q] <= MaxTicket /\ rtail'[q].idx <= MaxTicket + 1
  <2>0. rhead[q] <= MaxTicket /\ rtail[q].idx <= MaxTicket + 1
        /\ rhead[q] \in Nat /\ rtail[q] \in Tail /\ rtail[q].idx \in Nat
    BY <1>0, Fields DEF TailInv, RingsType
  <2>1. CASE UNCHANGED <<rhead, rtail>>
    BY <2>0, <2>1
  <2>2. CASE EnqTicket(p)
    BY <2>2, <2>0, <1>0 DEF EnqTicket, RingsType, Tail
  <2>3. CASE EnqClose(p)
    <3>1. UNCHANGED rtail \/ rtail' = [rtail EXCEPT ![Ring(p)] =
                                         [rtail[Ring(p)] EXCEPT !.closed = TRUE]]
      BY <2>3 DEF EnqClose
    <3>2. [rtail[Ring(p)] EXCEPT !.closed = TRUE].idx = rtail[Ring(p)].idx
      BY <1>0 DEF Tail
    <3>3. rtail'[q].idx = rtail[q].idx /\ UNCHANGED rhead
      BY Zenon, <2>3, <3>1, <3>2, <1>0 DEF RingsType, EnqClose
    <3> QED  BY <3>3, <2>0
  <2>4. CASE EnqAlloc(p)
    <3>1. PICK n \in Rings : rtail' = [rtail EXCEPT ![n].idx = 1] /\ UNCHANGED rhead
      BY Zenon, <2>4 DEF EnqAlloc
    <3> QED  BY <3>1, <1>0, <2>0 DEF RingsType, Tail
  <2>5. CASE FixCas(p)
    BY <2>5, <2>0, <1>0 DEF FixCas, RingsType, TailInv
  <2>6. CASE DeqTicket(p)
    BY <2>6, <2>0, <1>0 DEF DeqTicket, RingsType
  <2> QED
    BY ZenonT(40), <2>1, <2>2, <2>3, <2>4, <2>5, <2>6 DEF enq, deq, fixState, shared,
     CAS2, CAS2Fails, EnqCall, EnqNext, EnqReadIdx, EnqReadVal, EnqReadHead,
     EnqCas, EnqFull, DeqCall, DeqReadIdx, DeqReadVal, DeqTake, DeqMarkUnsafe,
     DeqLoadTail, DeqSkip, DeqCheckEmpty, FixLoadTail, FixLoadHead, FixSame,
     DeqNext
<1>2. ASSUME NEW q \in Rings, NEW j \in Slots, Published(q)',
             array'[q][j].val # EMPTY
      PROVE  array'[q][j].idx < rtail'[q].idx
  <2>0. PICK v \in Items : v = array'[q][j].val
    BY <1>0, <1>2, Fields DEF RingsType, Values
  <2>1. Holds(q, j, v)'
    BY <2>0, <1>2 DEF Holds
  <2>2. array'[q][j].idx \in Nat /\ array[q][j].idx \in Nat
        /\ rtail'[q].idx \in Nat /\ rtail[q].idx \in Nat
    BY <1>0, Fields DEF RingsType
  <2>3. CASE Holds(q, j, v) /\ array'[q][j].idx = array[q][j].idx
    <3>1. Published(q) /\ array[q][j].val # EMPTY
      BY <2>0, <2>3, <1>2 DEF Holds
    <3> QED  BY <3>1, <2>2, <2>3, TailMonotone DEF TailInv
  <2>4. CASE EnqCas(p) /\ q = Ring(p) /\ array'[q][j].idx = loc[p].tk
    <3>1. loc[p].tk < rtail[q].idx
      BY <2>4 DEF EnqCas, TailInv, TicketPoints
    <3> QED  BY <3>1, <2>2, <2>4, <1>0, TailMonotone
  <2>5. CASE array'[q][j].idx = 0 /\ rtail'[q].idx = 1
    BY <2>5
  <2> QED  BY <2>1, <2>3, <2>4, <2>5, HoldsStep
<1>3. ASSUME NEW o \in Threads
      PROVE  /\ loc'[o].h <= MaxTicket
             /\ pc'[o] \in TicketPoints => loc'[o].tk < rtail'[Ring(o)'].idx
             /\ pc'[o] = "fix_cas" => loc'[o].tt.idx < loc'[o].h
             /\ pc'[o] \in LeftPoints \cup {"deq_empty"} =>
                  loc'[o].tk < rhead'[Ring(o)']
  <2>0. /\ Ring(o) \in Rings /\ loc[o].tk \in Nat /\ rtail'[Ring(o)].idx \in Nat
        /\ rtail[Ring(o)].idx \in Nat /\ rhead[Ring(o)] \in Nat
        /\ rhead'[Ring(o)] \in Nat /\ Published(Ring(o))
        /\ rtail'[Ring(o)].idx >= rtail[Ring(o)].idx
        /\ rhead'[Ring(o)] >= rhead[Ring(o)]
    BY <1>0, Typed, Fields, TailMonotone, HeadMonotone DEF RingInv, RingsType
  <2>1. CASE o # p
    <3>1. pc'[o] = pc[o] /\ loc'[o] = loc[o] /\ Ring(o)' = Ring(o)
      BY Zenon, <1>0, <2>1, OtherThreads
    <3>2. /\ loc[o].h <= MaxTicket
          /\ pc[o] \in TicketPoints => loc[o].tk < rtail[Ring(o)].idx
          /\ pc[o] = "fix_cas" => loc[o].tt.idx < loc[o].h
          /\ pc[o] \in LeftPoints \cup {"deq_empty"} => loc[o].tk < rhead[Ring(o)]
      BY Zenon DEF TailInv
    <3>3. /\ loc[o].tk < rtail[Ring(o)].idx => loc[o].tk < rtail'[Ring(o)].idx
          /\ loc[o].tk < rhead[Ring(o)] => loc[o].tk < rhead'[Ring(o)]
      BY Zenon, <2>0, Arithmetic
    <3> QED  BY Zenon, <3>1, <3>2, <3>3
  <2>2. CASE o = p
    <3>1. loc'[p].h <= MaxTicket
      BY <1>0, OwnStep DEF TailInv
    <3>2. ASSUME pc'[p] \in TicketPoints
          PROVE  loc'[p].tk < rtail'[Ring(p)'].idx
      <4>1. CASE pc[p] \in TicketPoints /\ Keeps(p)
        BY <4>1, <2>0, <2>2 DEF Keeps, Ring, TailInv
      <4>2. CASE EnqTicket(p) /\ loc'[p].tk = rtail[Ring(p)].idx
        <5>1. Ring(p)' = Ring(p)
          BY <4>2, <1>0, Typed DEF EnqTicket, Ring, Locals, TypeOK, LocalsType
        <5>2. rtail'[Ring(p)].idx = rtail[Ring(p)].idx + 1
          BY <4>2, <1>0 DEF EnqTicket, RingsType, Tail
        <5> QED  BY <4>2, <5>1, <5>2, <2>0, <2>2
      <4> QED  BY Zenon, <1>0, <3>2, <4>1, <4>2, OwnStep
    <3>3. pc'[p] = "fix_cas" => loc'[p].tt.idx < loc'[p].h
      BY <1>0, OwnStep
    <3>4. ASSUME pc'[p] \in LeftPoints \cup {"deq_empty"}
          PROVE  loc'[p].tk < rhead'[Ring(p)']
      <4>1. /\ loc'[p].rq = loc[p].rq /\ loc'[p].tk = loc[p].tk
            /\ pc[p] \in CellPoints \cup LeftPoints \cup {"deq_empty"}
        BY <1>0, <3>4, OwnStep
      <4>2. loc[p].tk < rhead[Ring(p)]
        BY <4>1 DEF TailInv, IInv, LocalInv, Knows
      <4> QED  BY <4>1, <4>2, <2>0, <2>2 DEF Ring
    <3> QED  BY <2>2, <3>1, <3>2, <3>3, <3>4
  <2> QED  BY <2>1, <2>2
<1> QED  BY <1>1, <1>2, <1>3 DEF TailInv
-----------------------------------------------------------------------------
(* The operators of the history, field by field. *)
LEMMA RecordEffect ==
  ASSUME HistoryType, NEW p \in Threads
  PROVE  /\ \A v \in Items : EnqueueCalled(v) =>
              /\ hist'.before = [hist.before EXCEPT ![v] =
                                    hist.returned \ hist.delivered]
              /\ UNCHANGED <<call, hist.returned, hist.delivered, hist.emptied,
                             hist.overtaken, hist.resurfaced>>
         /\ \A v \in Items : EnqueueReturned(v) =>
              /\ hist'.returned = hist.returned \cup {v}
              /\ UNCHANGED <<call, hist.before, hist.delivered, hist.emptied,
                             hist.overtaken, hist.resurfaced>>
         /\ DequeueCalled(p) =>
              /\ call'[p].sent = hist.returned \ hist.delivered
              /\ call'[p].late = Late
              /\ call'[p].gone = hist.emptied \ hist.delivered
              /\ \A o \in Threads : o # p => call'[o] = call[o]
              /\ UNCHANGED <<hist.before, hist.returned, hist.delivered,
                             hist.emptied, hist.overtaken, hist.resurfaced>>
         /\ \A v \in Items : DequeueReturned(p, v) =>
              /\ hist'.delivered = hist.delivered \cup {v}
              /\ hist'.overtaken = hist.overtaken \cup (call[p].late \cap {v})
              /\ hist'.resurfaced = hist.resurfaced \cup (call[p].gone \cap {v})
              /\ call'[p] = NoCall
              /\ \A o \in Threads : o # p => call'[o] = call[o]
              /\ UNCHANGED <<hist.before, hist.returned, hist.emptied>>
         /\ DequeueReturnedEmpty(p) =>
              /\ hist'.emptied = hist.emptied \cup call[p].sent
              /\ call'[p] = NoCall
              /\ \A o \in Threads : o # p => call'[o] = call[o]
              /\ UNCHANGED <<hist.before, hist.returned, hist.delivered,
                             hist.overtaken, hist.resurfaced>>
<1> USE DEF HistoryType
<1>1. ASSUME NEW v \in Items, EnqueueCalled(v)
      PROVE  /\ hist'.before = [hist.before EXCEPT ![v] =
                                    hist.returned \ hist.delivered]
             /\ UNCHANGED <<call, hist.returned, hist.delivered, hist.emptied,
                            hist.overtaken, hist.resurfaced>>
  BY <1>1 DEF EnqueueCalled
<1>2. ASSUME NEW v \in Items, EnqueueReturned(v)
      PROVE  /\ hist'.returned = hist.returned \cup {v}
             /\ UNCHANGED <<call, hist.before, hist.delivered, hist.emptied,
                            hist.overtaken, hist.resurfaced>>
  BY <1>2 DEF EnqueueReturned
<1>3. ASSUME DequeueCalled(p)
      PROVE  /\ call'[p].sent = hist.returned \ hist.delivered
             /\ call'[p].late = Late
             /\ call'[p].gone = hist.emptied \ hist.delivered
             /\ \A o \in Threads : o # p => call'[o] = call[o]
             /\ UNCHANGED <<hist.before, hist.returned, hist.delivered,
                            hist.emptied, hist.overtaken, hist.resurfaced>>
  BY <1>3 DEF DequeueCalled
<1>4. ASSUME NEW v \in Items, DequeueReturned(p, v)
      PROVE  /\ hist'.delivered = hist.delivered \cup {v}
             /\ hist'.overtaken = hist.overtaken \cup (call[p].late \cap {v})
             /\ hist'.resurfaced = hist.resurfaced \cup (call[p].gone \cap {v})
             /\ call'[p] = NoCall
             /\ \A o \in Threads : o # p => call'[o] = call[o]
             /\ UNCHANGED <<hist.before, hist.returned, hist.emptied>>
  BY <1>4 DEF DequeueReturned
<1>5. ASSUME DequeueReturnedEmpty(p)
      PROVE  /\ hist'.emptied = hist.emptied \cup call[p].sent
             /\ call'[p] = NoCall
             /\ \A o \in Threads : o # p => call'[o] = call[o]
             /\ UNCHANGED <<hist.before, hist.returned, hist.delivered,
                            hist.overtaken, hist.resurfaced>>
  BY <1>5 DEF DequeueReturnedEmpty
<1> QED  BY Zenon, <1>1, <1>2, <1>3, <1>4, <1>5

(* The steps that record something, and what. *)
LEMMA HistoryStep ==
  ASSUME IInv, NEW p \in Threads, enq(p) \/ deq(p)
  PROVE  \/ UNCHANGED history
         \/ \E v \in Items : EnqCall(p, v) /\ EnqueueCalled(v)
         \/ /\ EnqCas(p) \/ EnqAlloc(p)
            /\ loc[p].arg \in Items /\ EnqueueReturned(loc[p].arg)
         \/ DeqCall(p) /\ DequeueCalled(p)
         \/ /\ DeqTake(p) /\ CAS2Succeeds(p) /\ pc'[p] = "idle"
            /\ loc[p].seen.val \in Items /\ DequeueReturned(p, loc[p].seen.val)
         \/ /\ DeqNext(p) /\ rnext[Ring(p)] = NULL /\ pc'[p] = "idle"
            /\ DequeueReturnedEmpty(p)
<1>0. TypeOK /\ LocalInv /\ ItemInv /\ HistoryType /\ p \in DOMAIN pc
  BY DEF IInv, TypeOK, LocalsType
<1>1. Return(p) => pc'[p] = "idle"
  BY <1>0 DEF Return, Goto
<1>2. CASE EnqCas(p) \/ EnqAlloc(p)
  <2>1. loc[p].arg \in Items
    BY Zenon, <1>0, <1>2 DEF EnqCas, EnqAlloc, EnqPoints, ItemInv, HistoryType
  <2> QED  BY Zenon, <1>2, <2>1 DEF EnqCas, EnqAlloc, history
<1>3. CASE DeqTake(p)
  <2>1. loc[p].seen.val \in Items
    BY Zenon, <1>0, <1>3, Typed, Fields DEF DeqTake, LocalInv, Knows, Values
  <2> QED  BY Zenon, <1>1, <1>3, <2>1 DEF DeqTake, CAS2, history
<1>4. CASE DeqNext(p)
  BY Zenon, <1>1, <1>4 DEF DeqNext, history
<1> QED
  BY ZenonT(40), <1>2, <1>3, <1>4 DEF enq, deq, fixState, history, EnqCall, DeqCall,
     EnqNext, EnqTicket, EnqReadIdx, EnqReadVal, EnqReadHead, EnqFull, EnqClose,
     DeqTicket, DeqReadIdx, DeqReadVal, DeqMarkUnsafe, DeqLoadTail, DeqSkip,
     DeqCheckEmpty, FixLoadTail, FixLoadHead, FixSame, FixCas

(* What a dequeue in progress remembers of its call is not touched. *)
LEMMA CallStep ==
  ASSUME IInv, NEW p \in Threads, enq(p) \/ deq(p)
  PROVE  /\ hist.returned \subseteq hist'.returned
         /\ \A o \in Threads : o # p => call'[o] = call[o]
         /\ \/ call'[p] = call[p]
            \/ call'[p] = NoCall /\ pc'[p] = "idle"
            \/ DeqCall(p) /\ DequeueCalled(p)
<1>0. HistoryType
  BY DEF IInv, TypeOK
<1> QED  BY ZenonT(40), <1>0, HistoryStep, RecordEffect DEF history
-----------------------------------------------------------------------------
(* An item whose enqueue has returned stays where it is until it is taken,  *)
(* and its dequeuer does not un-come.                                       *)
LEMMA ItemStays ==
  ASSUME IInv, NEW p \in Threads, enq(p) \/ deq(p), NEW q \in Rings,
         NEW j \in Slots, NEW v \in hist.returned, Holds(q, j, v)'
  PROVE  /\ Holds(q, j, v) /\ array'[q][j].idx = array[q][j].idx
         /\ array[q][j].idx < rhead[q] => array'[q][j].idx < rhead'[q]
<1>1. v \in Items /\ TypeOK
  BY DEF IInv, TypeOK, HistoryType
<1>2. Holds(q, j, v) /\ array'[q][j].idx = array[q][j].idx
  BY <1>1, HoldsStep
<1>3. rhead'[q] >= rhead[q]
  BY <1>1, HeadMonotone
<1>4. rhead[q] \in Nat /\ rhead'[q] \in Nat /\ array[q][j].idx \in Nat
  BY <1>1, StepRingsType, Fields DEF TypeOK, RingsType, IInv
<1> QED  BY Zenon, <1>2, <1>3, <1>4, Arithmetic

(* deq leaves a ring only when every item in it has an earlier ticket: the *)
(* comparison tail_index(t) - 1 <= h, which wraps around at 0.             *)
LEMMA NothingLeft ==
  ASSUME IInv, TailInv, NEW p \in Threads, pc[p] = "deq_empty",
         NothingComing(p, rtail[Ring(p)]), NEW j \in Slots, NEW v \in Items,
         Holds(Ring(p), j, v)
  PROVE  array[Ring(p)][j].idx < rhead[Ring(p)]
<1>1. PICK q \in Rings : q = Ring(p)
  BY Typed DEF IInv
<1>2. PICK i \in Nat, t \in Nat, k \in Nat, h \in Nat :
        i = array[q][j].idx /\ t = rtail[q].idx /\ k = loc[p].tk /\ h = rhead[q]
  <2>1. array[q][j] \in Cell /\ rtail[q] \in Tail /\ rhead[q] \in Nat
    BY Zenon DEF IInv, TypeOK, RingsType
  <2>2. loc[p].tk \in Nat
    BY Zenon, Typed DEF IInv
  <2> QED  BY Zenon, <2>1, <2>2, Fields
<1>3. i < t /\ t <= MaxTicket + 1 /\ k < h
  BY <1>1, <1>2, Constants DEF TailInv, Holds
<1>4. Sub(t, 1) <= k
  BY <1>1, <1>2 DEF NothingComing
<1>5. Sub(t, 1) = t - 1
  <2>1. MaxTicket \in Nat /\ WORD \in Nat /\ WORD > 2 * MaxTicket
    BY BoundAssumption
  <2>2. t - 1 \in 0..MaxTicket
    BY <1>3, <2>1
  <2>3. CASE MaxTicket > 0
    <3>1. t - 1 \in 0..(WORD - 1)
      BY <2>1, <2>2, <2>3
    <3>2. \A x \in 0..(WORD - 1) : x % WORD = x
      BY <2>1
    <3> QED  BY <3>1, <3>2 DEF Sub
  <2>4. CASE MaxTicket = 0
    <3>1. t - 1 = 0 /\ 0 % WORD = 0
      BY <2>1, <2>2, <2>4
    <3> QED  BY <3>1 DEF Sub
  <2> QED  BY <2>1, <2>3, <2>4
<1> QED  BY <1>1, <1>2, <1>3, <1>4, <1>5

(* A ring linked behind the last one comes after it in the order. *)
LEMMA LinkChain ==
  ASSUME TypeOK, RingInv, NEW pos \in [Rings -> Nat], Chain(pos),
         NEW l \in Rings, NEW n \in Rings, Published(l), ~Published(n),
         rnext[l] = NULL, rnext[n] = NULL,
         rnext' = [rnext EXCEPT ![l] = n],
         \A q \in Rings : Published(q)' <=> Published(q) \/ q = n
  PROVE  \E new \in [Rings -> Nat] :
           Chain(new)' /\ \A q \in Rings : q # n => new[q] = pos[q]
<1> DEFINE new == [pos EXCEPT ![n] = pos[l] + 1]
<1>0. /\ rnext \in [Rings -> Rings \cup {NULL}] /\ First \in Rings
      /\ Published(First) /\ NULL \notin Rings
  BY Constants DEF TypeOK, RingsType, Published
<1>1. /\ new \in [Rings -> Nat] /\ new[n] = pos[l] + 1
      /\ \A q \in Rings : q # n => new[q] = pos[q]
  OBVIOUS
<1> HIDE DEF new
<1>2. n # l /\ n # First /\ \A q \in Rings : pos[q] \in Nat /\ new[q] \in Nat
  BY <1>0, <1>1
<1>3. \A q \in Rings : Published(q) => pos[q] <= pos[l]
  BY DEF Chain
<1>4. ASSUME NEW q \in Rings, rnext'[q] # NULL
      PROVE  new[rnext'[q]] = new[q] + 1
  <2>1. CASE q = l
    BY <2>1, <1>0, <1>1, <1>2
  <2>2. CASE q # l
    <3>1. rnext'[q] = rnext[q] /\ rnext[q] \in Rings /\ q # n
      BY <2>2, <1>0, <1>4
    <3>2. rnext[q] # n
      BY <3>1 DEF Published
    <3> QED  BY <3>1, <3>2, <1>1, <1>4 DEF Chain
  <2> QED  BY <2>1, <2>2
<1>5. ASSUME NEW q \in Rings, NEW o \in Rings, Published(q)', Published(o)',
             new[q] = new[o]
      PROVE  q = o
  BY <1>1, <1>2, <1>3, <1>5 DEF Chain
<1>6. ASSUME NEW q \in Rings, NEW o \in Rings, Published(q)', Published(o)',
             rnext'[q] = NULL
      PROVE  new[o] <= new[q]
  <2>1. CASE q = n
    BY <2>1, <1>1, <1>2, <1>3, <1>6
  <2>2. CASE q # n
    <3>1. Published(q) /\ q # l /\ rnext[q] = NULL
      BY <2>2, <1>0, <1>6
    <3>2. pos[l] <= pos[q] /\ pos[q] <= pos[l]
      BY <3>1, <1>3 DEF Chain
    <3>3. pos[l] = pos[q]
      BY <3>2, <1>2
    <3> QED  BY <3>1, <3>3 DEF Chain
  <2> QED  BY <2>1, <2>2
<1>7. ASSUME NEW q \in Rings, Published(q)'  PROVE new[First] <= new[q]
  <2>1. pos[First] <= pos[l] /\ new[First] = pos[First]
    BY <1>0, <1>1, <1>2 DEF Chain
  <2> QED  BY <2>1, <1>0, <1>1, <1>2, <1>7 DEF Chain
<1>8. Chain(new)'
  BY Zenon, <1>4, <1>5, <1>6, <1>7 DEF Chain
<1> QED  BY <1>1, <1>8

(* What the other dequeuers have searched stays searched. *)
LEMMA OthersSearched ==
  ASSUME IInv, EmptyInv, NEW p \in Threads, enq(p) \/ deq(p),
         NEW o \in Threads, o # p, NEW pos, NEW new, Searched(o, pos),
         \A q \in Rings : Published(q) => new[q] = pos[q]
  PROVE  Searched(o, new)'
<1>0. /\ pc'[o] = pc[o] /\ Ring(o)' = Ring(o) /\ call'[o] = call[o]
      /\ Ring(o) \in Rings /\ Published(Ring(o)) /\ call[o].sent \subseteq hist.returned
  BY OtherThreads, CallStep, Typed DEF IInv, RingInv, EmptyInv
<1> SUFFICES ASSUME NEW v \in call[o].sent, NEW q \in Rings, NEW j \in Slots,
                    Holds(q, j, v)',
                    \/ new[q] < new[Ring(o)]
                    \/ q = Ring(o) /\ pc[o] \in LeftPoints
             PROVE  array'[q][j].idx < rhead'[q]
  BY Zenon, <1>0 DEF Searched
<1>1. /\ Holds(q, j, v)
      /\ array[q][j].idx < rhead[q] => array'[q][j].idx < rhead'[q]
  BY <1>0, ItemStays
<1>2. Published(q)
  BY <1>1 DEF Holds
<1>3. array[q][j].idx < rhead[q]
  BY <1>0, <1>1, <1>2 DEF Searched
<1> QED  BY <1>1, <1>3

(* A dequeuer moves on only from a ring it has searched. *)
LEMMA OwnSearched ==
  ASSUME IInv, TailInv, EmptyInv, ListInv, NEW p \in Threads, enq(p) \/ deq(p),
         NEW pos \in [Rings -> Nat], Chain(pos), pc'[p] \in DeqPoints,
         pc[p] \in DeqPoints => Searched(p, pos)
  PROVE  Searched(p, pos)'
<1>0. /\ Ring(p) \in Rings /\ Published(Ring(p)) /\ call[p].sent \subseteq hist.returned
      /\ TypeOK /\ hist.returned \subseteq Items
      /\ \A q \in Rings : pos[q] \in Nat
  BY Typed DEF IInv, RingInv, EmptyInv, TypeOK, HistoryType
<1> SUFFICES ASSUME NEW v \in call'[p].sent, NEW q \in Rings, NEW j \in Slots,
                    Holds(q, j, v)',
                    \/ pos[q] < pos[Ring(p)']
                    \/ q = Ring(p)' /\ pc'[p] \in LeftPoints
             PROVE  array'[q][j].idx < rhead'[q]
  BY Zenon DEF Searched
<1>1. CASE DeqCall(p)
  <2>1. /\ Ring(p)' = Ring(p) /\ Ring(p) = First /\ pc'[p] = "deq_ticket"
        /\ UNCHANGED shared
    BY <1>1, <1>0 DEF DeqCall, Ring, ListInv, Goto, TypeOK, LocalsType
  <2>2. Published(q)
    BY <2>1 DEF Holds, Published, shared
  <2>3. pos[First] <= pos[q] /\ pos[q] < pos[First]
    BY <2>1, <2>2 DEF Chain, LeftPoints
  <2> QED  BY Zenon, <1>0, <2>1, <2>3, Arithmetic
<1>2. CASE ~DeqCall(p)
  <2>1. call'[p] = call[p]
    <3>1. pc'[p] # "idle"
      BY DEF DeqPoints, CellPoints
    <3> QED  BY <3>1, <1>2, CallStep
  <2>2. /\ v \in Items /\ v \in hist.returned /\ Holds(q, j, v)
        /\ array[q][j].idx < rhead[q] => array'[q][j].idx < rhead'[q]
    BY <2>1, <1>0, ItemStays
  <2>3. Published(q)
    BY <2>2 DEF Holds
  <2>4. CASE pc[p] \in DeqPoints /\ Ring(p)' = Ring(p)
    <3>1. CASE pos[q] < pos[Ring(p)] \/ (q = Ring(p) /\ pc[p] \in LeftPoints)
      BY <2>1, <2>2, <2>4, <3>1 DEF Searched
    <3>2. CASE q = Ring(p) /\ pc'[p] \in LeftPoints /\ pc[p] \notin LeftPoints
      <4>1. pc[p] = "deq_empty" /\ NothingComing(p, rtail[Ring(p)])
        BY <1>0, <3>2, OwnStep
      <4> QED  BY <4>1, <3>2, <2>2, NothingLeft
    <3> QED  BY <2>4, <3>1, <3>2
  <2>5. CASE /\ pc[p] = "deq_next" /\ rnext[Ring(p)] # NULL
             /\ Ring(p)' = rnext[Ring(p)]
    <3>1. pos[Ring(p)'] = pos[Ring(p)] + 1 /\ Ring(p)' \in Rings
      <4>1. rnext[Ring(p)] \in Rings
        BY Zenon, <1>0, <2>5 DEF TypeOK, RingsType
      <4>2. pos[rnext[Ring(p)]] = pos[Ring(p)] + 1
        BY Zenon, <1>0, <2>5 DEF Chain
      <4> QED  BY Zenon, <2>5, <4>1, <4>2
    <3>2. pc'[p] \notin LeftPoints
      <4>1. Ring(p)' # Ring(p)
        BY Zenon, <1>0, <3>1, Arithmetic
      <4>2. pc'[p] \in LeftPoints => loc'[p].rq = loc[p].rq
        BY Zenon, <1>0, OwnStep
      <4> QED  BY Zenon, <4>1, <4>2 DEF Ring
    <3>3. pos[q] < pos[Ring(p)] \/ pos[q] = pos[Ring(p)]
      <4>1. pos[q] < pos[Ring(p)] + 1
        BY Zenon, <3>1, <3>2
      <4>2. pos[q] \in Nat /\ pos[Ring(p)] \in Nat
        BY Zenon, <1>0
      <4> QED  BY Zenon, <4>1, <4>2, Arithmetic
    <3>4. pos[q] < pos[Ring(p)] \/ q = Ring(p)
      BY <3>3, <2>3, <1>0 DEF Chain
    <3> QED  BY <2>1, <2>2, <2>5, <3>4 DEF Searched, LeftPoints, DeqPoints
  <2> QED  BY Zenon, <1>0, <1>2, <2>4, <2>5, OwnStep
<1> QED  BY <1>1, <1>2

(* Every step preserves ListInv. *)
LEMMA StepListInv ==
  ASSUME IInv, TailInv, EmptyInv, ListInv, NEW p \in Threads, enq(p) \/ deq(p)
  PROVE  ListInv'
<1>0. /\ TypeOK /\ RingInv /\ Ring(p) \in Rings /\ Published(Ring(p))
  BY Typed DEF IInv, RingInv
<1>1. \A o \in Threads : pc'[o] = "idle" => Ring(o)' = First
  BY <1>0, OwnStep, OtherThreads DEF ListInv
<1>2. PICK pos \in [Rings -> Nat] :
        Chain(pos) /\ \A o \in Threads : pc[o] \in DeqPoints => Searched(o, pos)
  BY DEF ListInv
<1>3. ASSUME UNCHANGED rnext
      PROVE  Chain(pos)' /\ \A o \in Threads : pc'[o] \in DeqPoints => Searched(o, pos)'
  <2>1. Chain(pos)'
    BY <1>2, <1>3, SamePublished DEF Chain
  <2>2. ASSUME NEW o \in Threads, pc'[o] \in DeqPoints  PROVE Searched(o, pos)'
    <3>1. CASE o # p
      BY <1>0, <1>2, <2>2, <3>1, OtherThreads, OthersSearched
    <3>2. CASE o = p
      BY <1>2, <2>2, <3>2, OwnSearched
    <3> QED  BY <3>1, <3>2
  <2> QED  BY <2>1, <2>2
<1>4. ASSUME rnext' # rnext
      PROVE  \E new \in [Rings -> Nat] :
               Chain(new)' /\ \A o \in Threads : pc'[o] \in DeqPoints => Searched(o, new)'
  <2>1. EnqAlloc(p)
    BY <1>0, <1>4, OtherRings
  <2>2. PICK n \in Rings :
          /\ ~Published(n) /\ rnext[n] = NULL /\ rnext[Ring(p)] = NULL
          /\ rnext' = [rnext EXCEPT ![Ring(p)] = n]
          /\ \A q \in Rings : Published(q)' <=> Published(q) \/ q = n
          /\ Return(p)
    BY Zenon, <1>0, <1>4, <2>1, AllocEffect DEF Private
  <2>3. PICK new \in [Rings -> Nat] :
          Chain(new)' /\ \A q \in Rings : q # n => new[q] = pos[q]
    BY Zenon, <1>0, <1>2, <2>2, LinkChain
  <2>4. pc'[p] = "idle"
    BY <2>2, <1>0 DEF Return, Goto, TypeOK, LocalsType
  <2>5. ASSUME NEW o \in Threads, pc'[o] \in DeqPoints  PROVE Searched(o, new)'
    <3>1. o # p
      BY <2>4, <2>5 DEF DeqPoints, CellPoints
    <3>2. pc[o] \in DeqPoints
      BY <1>0, <2>5, <3>1, OtherThreads
    <3>3. \A q \in Rings : Published(q) => new[q] = pos[q]
      BY <2>2, <2>3
    <3> QED  BY <1>2, <3>1, <3>2, <3>3, OthersSearched
  <2> QED  BY <2>3, <2>5
<1> QED  BY <1>1, <1>2, <1>3, <1>4 DEF ListInv
-----------------------------------------------------------------------------
(* What is settled stays settled. *)
LEMMA SettledStays ==
  ASSUME IInv, NEW p \in Threads, enq(p) \/ deq(p), NEW v \in hist.returned,
         Settled(v)
  PROVE  Settled(v)'
BY Zenon, ItemStays DEF Settled

(* A thread that is too late for an item stays too late: the tickets it may *)
(* still draw are larger.                                                   *)
LEMMA TooLateStays ==
  ASSUME IInv, NEW p \in Threads, enq(p) \/ deq(p), NEW o \in Threads,
         NEW v \in hist.returned, TooLate(o, v)
  PROVE  TooLate(o, v)'
<1> SUFFICES ASSUME NEW q \in Rings, NEW j \in Slots, Holds(q, j, v)'
             PROVE  /\ array'[q][j].idx < rhead'[q]
                    /\ ~Serves(o, q, array[q][j].idx)'
  BY Zenon DEF TooLate
<1>1. /\ Holds(q, j, v) /\ array'[q][j].idx = array[q][j].idx
      /\ array[q][j].idx < rhead[q] => array'[q][j].idx < rhead'[q]
  BY ItemStays
<1>2. array[q][j].idx < rhead[q] /\ ~Serves(o, q, array[q][j].idx)
  BY <1>1 DEF TooLate
<1>3. TypeOK /\ array[q][j].idx \in Nat /\ rhead[q] \in Nat
  BY Fields DEF IInv, TypeOK, RingsType
<1>4. ASSUME pc'[o] \in CellPoints, Ring(o)' = q, loc'[o].tk = array[q][j].idx
      PROVE  FALSE
  <2>1. CASE o # p
    BY <2>1, <1>2, <1>3, <1>4, OtherThreads DEF Serves
  <2>2. CASE o = p
    <3>1. CASE DeqTicket(p) /\ loc'[p].tk = rhead[Ring(p)]
      <4>1. Ring(p)' = Ring(p)
        BY <3>1, <1>3, Typed DEF DeqTicket, Ring, Locals, TypeOK, LocalsType
      <4> QED  BY Zenon, <2>2, <3>1, <4>1, <1>2, <1>3, <1>4, Arithmetic
    <3>2. CASE pc[p] \in CellPoints /\ Keeps(p)
      BY <2>2, <3>2, <1>2, <1>4 DEF Keeps, Serves, Ring
    <3> QED  BY Zenon, <2>2, <3>1, <3>2, <1>3, <1>4, OwnStep
  <2> QED  BY <2>1, <2>2
<1> QED  BY Zenon, <1>1, <1>2, <1>4 DEF Serves

(* A dequeue that begins is too late for what is settled. *)
LEMMA CallIsLate ==
  ASSUME IInv, NEW p \in Threads, DeqCall(p), NEW v \in hist.returned,
         Settled(v)
  PROVE  TooLate(p, v)'
<1>1. TypeOK /\ (enq(p) \/ deq(p))
  BY DEF IInv, deq
<1>2. pc'[p] = "deq_ticket"
  BY <1>1 DEF DeqCall, Goto, TypeOK, LocalsType
<1>3. \A q, h : ~Serves(p, q, h)'
  BY <1>2 DEF Serves, CellPoints
<1>4. Settled(v)'
  BY <1>1, SettledStays
<1> QED  BY <1>3, <1>4 DEF TooLate, Settled, Serves

(* No dequeue takes an item that it is too late for. *)
LEMMA TakesInTime ==
  ASSUME IInv, NEW p \in Threads, DeqTake(p), CAS2Succeeds(p)
  PROVE  ~TooLate(p, loc[p].seen.val)
<1>1. /\ Ring(p) \in Rings /\ Slot(loc[p].tk) \in Slots /\ Published(Ring(p))
      /\ array[Ring(p)][Slot(loc[p].tk)] = loc[p].seen
  BY Typed DEF IInv, RingInv, CAS2Succeeds, CellOf
<1>2. pc[p] = "deq_take" /\ loc[p].seen.idx = loc[p].tk
  BY DEF DeqTake, IInv, LocalInv, Knows
<1>3. Holds(Ring(p), Slot(loc[p].tk), loc[p].seen.val)
  BY <1>1 DEF Holds
<1>4. Serves(p, Ring(p), array[Ring(p)][Slot(loc[p].tk)].idx)
  BY <1>1, <1>2 DEF Serves, CellPoints
<1> QED  BY Zenon, <1>1, <1>3, <1>4 DEF TooLate

(* deq answers EMPTY after it has searched the list to its end: everything *)
(* that was there when it began is settled.                                *)
LEMMA AllSearched ==
  ASSUME IInv, ListInv, NEW p \in Threads, pc[p] = "deq_next",
         rnext[Ring(p)] = NULL, NEW v \in call[p].sent
  PROVE  Settled(v)
<1>1. PICK pos \in [Rings -> Nat] : Chain(pos) /\ Searched(p, pos)
  BY DEF ListInv, DeqPoints
<1>2. /\ Ring(p) \in Rings /\ Published(Ring(p)) /\ pc[p] \in LeftPoints
      /\ \A q \in Rings : pos[q] \in Nat
  BY Typed DEF IInv, RingInv, LeftPoints
<1>3. ASSUME NEW q \in Rings, NEW j \in Slots, Holds(q, j, v)
      PROVE  array[q][j].idx < rhead[q]
  <2>1. Published(q)
    BY <1>3 DEF Holds
  <2>2. pos[q] <= pos[Ring(p)]
    BY Zenon, <1>1, <1>2, <2>1 DEF Chain
  <2>3. pos[q] < pos[Ring(p)] \/ pos[q] = pos[Ring(p)]
    BY Zenon, <1>2, <2>2, Arithmetic
  <2>4. pos[q] < pos[Ring(p)] \/ q = Ring(p)
    BY Zenon, <1>1, <1>2, <2>1, <2>3 DEF Chain
  <2> QED  BY Zenon, <1>1, <1>2, <1>3, <2>4 DEF Searched
<1> QED  BY <1>3 DEF Settled

(* Every step preserves EmptyInv. *)
LEMMA StepEmptyInv ==
  ASSUME IInv, ListInv, EmptyInv, NEW p \in Threads, enq(p) \/ deq(p)
  PROVE  EmptyInv'
<1>0. HistoryType /\ hist.returned \subseteq hist'.returned
      /\ call[p].sent \subseteq hist.returned
  BY CallStep DEF IInv, TypeOK, EmptyInv
<1>1. ASSUME NEW v \in hist'.emptied  PROVE v \in hist'.returned /\ Settled(v)'
  <2>1. v \in hist.returned /\ Settled(v)
    <3>1. CASE v \in hist.emptied
      BY <3>1 DEF EmptyInv
    <3>2. CASE v \notin hist.emptied
      <4>1. /\ DeqNext(p) /\ rnext[Ring(p)] = NULL
            /\ hist'.emptied = hist.emptied \cup call[p].sent
        BY ZenonT(40), <1>0, <1>1, <3>2, HistoryStep, RecordEffect DEF history
      <4>2. v \in call[p].sent /\ pc[p] = "deq_next"
        BY <1>1, <3>2, <4>1 DEF DeqNext
      <4> QED  BY <1>0, <4>1, <4>2, AllSearched
    <3> QED  BY <3>1, <3>2
  <2> QED  BY <2>1, <1>0, SettledStays
<1>2. ASSUME NEW o \in Threads  PROVE call'[o].sent \subseteq hist'.returned
  <2>1. CASE call'[o] = call[o]
    BY <1>0, <2>1 DEF EmptyInv
  <2>2. CASE call'[o] = NoCall
    BY Zenon, <2>2, NoCallKnows
  <2>3. CASE o = p /\ DequeueCalled(p)
    BY <1>0, <2>3, RecordEffect
  <2> QED  BY <2>1, <2>2, <2>3, CallStep
<1>3. ASSUME NEW o \in Threads, NEW v \in call'[o].gone
      PROVE  v \in hist'.returned /\ TooLate(o, v)'
  <2>1. CASE call'[o] = call[o]
    <3>1. v \in hist.returned /\ TooLate(o, v)
      BY <1>3, <2>1 DEF EmptyInv
    <3> QED  BY <3>1, <1>0, TooLateStays
  <2>2. CASE call'[o] = NoCall
    BY Zenon, <1>3, <2>2, NoCallKnows
  <2>3. CASE o = p /\ DeqCall(p) /\ DequeueCalled(p)
    <3>1. v \in hist.emptied
      <4>1. call'[p].gone = hist.emptied \ hist.delivered
        BY Zenon, <1>0, <2>3, RecordEffect
      <4> QED  BY Zenon, <1>3, <2>3, <4>1
    <3>2. v \in hist.returned /\ Settled(v)
      BY <3>1 DEF EmptyInv
    <3> QED  BY <3>2, <2>3, <1>0, CallIsLate
  <2> QED  BY <2>1, <2>2, <2>3, CallStep
<1>4. EmptyIsHonest'
  <2>1. CASE hist'.resurfaced = hist.resurfaced
    BY <2>1 DEF EmptyInv, EmptyIsHonest
  <2>2. CASE /\ DeqTake(p) /\ CAS2Succeeds(p)
             /\ hist'.resurfaced = hist.resurfaced
                                     \cup (call[p].gone \cap {loc[p].seen.val})
    <3>1. loc[p].seen.val \notin call[p].gone
      BY <2>2, TakesInTime DEF EmptyInv
    <3> QED  BY <2>2, <3>1 DEF EmptyInv, EmptyIsHonest
  <2> QED
    BY ZenonT(40), <1>0, <2>1, <2>2, HistoryStep, RecordEffect DEF history
<1> QED  BY <1>1, <1>2, <1>3, <1>4 DEF EmptyInv
-----------------------------------------------------------------------------
(* While there is one ring, every item and every thread is in it. *)
LEMMA OneRing ==
  ASSUME IInv, NEW p \in Threads, enq(p) \/ deq(p), rings' = 1
  PROVE  /\ rings = 1 /\ ~EnqAlloc(p)
         /\ \A q \in Rings : Published(q) => q = First
         /\ \A o \in Threads : Ring(o) = First
<1>0. TypeOK /\ RingInv /\ rings \in Rings /\ MaxRings \in Nat
  BY BoundAssumption DEF IInv, TypeOK, RingsType
<1>1. ~EnqAlloc(p)
  <2> SUFFICES ASSUME EnqAlloc(p)  PROVE FALSE
    OBVIOUS
  <2>1. PICK n \in Rings : ~Published(n) /\ n <= rings'
    BY Zenon, <1>0, AllocEffect
  <2>2. n = First
    BY <1>0, <2>1 DEF Rings, First
  <2> QED  BY <2>1, <2>2 DEF Published
<1>2. rings = 1
  BY <1>0, <1>1, OtherRings
<1>3. ASSUME NEW q \in Rings, Published(q)  PROVE q = First
  BY <1>0, <1>2, <1>3 DEF RingInv, Rings, First
<1> QED  BY <1>0, <1>1, <1>2, <1>3, Typed DEF RingInv

(* An item that was there when w was sent keeps the smaller ticket, and is  *)
(* settled when w is taken.                                                 *)
LEMMA StaysOrdered ==
  ASSUME IInv, TailInv, NEW p \in Threads, enq(p) \/ deq(p), rings' = 1,
         NEW v \in Items, NEW w \in Items, Ordered(v, w)
  PROVE  Ordered(v, w)'
<1>0. /\ TypeOK /\ HistoryType /\ v \in hist.returned
      /\ hist.returned \subseteq hist'.returned
      /\ \A o \in Threads : Ring(o) \in Rings /\ loc[o].tk \in Nat
  BY CallStep, Typed DEF IInv, TypeOK, Ordered
<1>1. ASSUME w \in hist'.delivered  PROVE Settled(v)'
  <2>1. CASE w \in hist.delivered
    BY <1>0, <2>1, SettledStays DEF Ordered
  <2>2. CASE w \notin hist.delivered
    <3>1. /\ DeqTake(p) /\ CAS2Succeeds(p)
          /\ hist'.delivered = hist.delivered \cup {loc[p].seen.val}
      BY ZenonT(40), <1>0, <1>1, <2>2, HistoryStep, RecordEffect DEF history
    <3>2. /\ w = loc[p].seen.val /\ pc[p] = "deq_take"
          /\ loc[p].seen.idx = loc[p].tk /\ loc[p].tk < rhead[Ring(p)]
          /\ array[Ring(p)][Slot(loc[p].tk)] = loc[p].seen
      BY <1>1, <2>2, <3>1
         DEF DeqTake, IInv, LocalInv, Knows, CellPoints, CAS2Succeeds, CellOf
    <3>3. Holds(Ring(p), Slot(loc[p].tk), w) /\ Slot(loc[p].tk) \in Slots
      BY <1>0, <3>2, Typed DEF Holds, IInv, RingInv
    <3>4. ASSUME NEW q \in Rings, NEW j \in Slots, Holds(q, j, v)
          PROVE  array[q][j].idx < rhead[q]
      <4>1. q = Ring(p)
        BY <1>0, <3>4, OneRing DEF Holds
      <4>2. array[q][j].idx < loc[p].tk
        BY <1>0, <3>2, <3>3, <3>4, <4>1 DEF Ordered
      <4>3. array[q][j].idx \in Nat /\ rhead[q] \in Nat
        BY <1>0, Fields DEF TypeOK, RingsType
      <4> QED  BY Zenon, <1>0, <3>2, <4>1, <4>2, <4>3, Arithmetic
    <3> QED  BY <1>0, <3>4, SettledStays DEF Settled
  <2> QED  BY <2>1, <2>2
<1>2. ASSUME NEW q \in Rings, NEW j \in Slots, NEW k \in Slots,
             Holds(q, j, v)', Holds(q, k, w)'
      PROVE  array'[q][j].idx < array'[q][k].idx
  <2>1. Holds(q, j, v) /\ array'[q][j].idx = array[q][j].idx
    BY <1>0, <1>2, ItemStays
  <2>2. CASE Holds(q, k, w) /\ array'[q][k].idx = array[q][k].idx
    BY <2>1, <2>2 DEF Ordered
  <2>3. CASE /\ w = loc[p].arg /\ EnqCas(p) /\ array'[q][k].idx = loc[p].tk
    BY <2>1, <2>3 DEF Ordered, EnqCas, TicketPoints
  <2> QED  BY Zenon, <1>2, <2>2, <2>3, HoldsStep, OneRing
<1>3. ASSUME NEW o \in Threads, NEW q \in Rings, NEW j \in Slots,
             pc'[o] \in TicketPoints, loc'[o].arg = w, Holds(q, j, v)'
      PROVE  array'[q][j].idx < loc'[o].tk
  <2>1. Holds(q, j, v) /\ array'[q][j].idx = array[q][j].idx
    BY <1>0, <1>3, ItemStays
  <2>2. CASE o # p
    BY <1>0, <1>3, <2>1, <2>2, OtherThreads DEF Ordered
  <2>3. CASE o = p /\ pc[p] \in TicketPoints /\ Keeps(p)
    BY <1>3, <2>1, <2>3 DEF Ordered, Keeps
  <2>4. CASE o = p /\ loc'[p].tk = rtail[Ring(p)].idx
    <3>1. q = Ring(p)
      BY <1>0, <2>1, OneRing DEF Holds
    <3> QED  BY <2>1, <2>4, <3>1, Constants DEF TailInv, Holds
  <2> QED  BY Zenon, <1>0, <1>3, <2>2, <2>3, <2>4, OwnStep
<1> QED  BY <1>0, <1>1, <1>2, <1>3 DEF Ordered

(* An enqueue that begins comes after every item that is there. *)
LEMMA CallOrders ==
  ASSUME IInv, NEW p \in Threads, NEW w \in Items, EnqCall(p, w),
         NEW v \in hist.returned
  PROVE  Ordered(v, w)'
<1>0. /\ TypeOK /\ HistoryType /\ pc[p] = "idle" /\ w \notin hist.sent
      /\ enq(p) \/ deq(p)
  BY DEF IInv, TypeOK, EnqCall, enq
<1>1. hist'.returned = hist.returned /\ hist'.delivered = hist.delivered
  BY <1>0, RecordEffect DEF EnqCall
<1>2. w \notin hist.returned /\ w \notin hist.delivered
  BY <1>0 DEF IInv, ItemInv, ExactlyOnce
<1>3. ASSUME NEW q \in Rings, NEW k \in Slots, Holds(q, k, w)'  PROVE FALSE
  <2>1. Holds(q, k, w)
    BY <1>0, <1>3, HoldsStep DEF EnqPoints
  <2> QED  BY <1>2, <2>1 DEF IInv, ExactlyOnce
<1>4. ASSUME NEW o \in Threads, pc'[o] \in TicketPoints, loc'[o].arg = w
      PROVE  FALSE
  <2>1. CASE o = p
    BY <1>0, <1>4, <2>1, OwnStep DEF EnqTicket, TicketPoints
  <2>2. CASE o # p
    <3>1. pc[o] \in EnqPoints /\ loc[o].arg = w
      BY <1>0, <1>4, <2>2, OtherThreads DEF TicketPoints, EnqPoints
    <3> QED  BY <1>0, <3>1 DEF IInv, ItemInv
  <2> QED  BY <2>1, <2>2
<1> QED  BY <1>1, <1>2, <1>3, <1>4 DEF Ordered

(* Every step that stays within one ring preserves OrderInv. *)
LEMMA StepOrderInv ==
  ASSUME IInv, TailInv, OrderInv, NEW p \in Threads, enq(p) \/ deq(p),
         rings' = 1
  PROVE  OrderInv'
<1>0. HistoryType /\ hist.returned \subseteq hist'.returned
  BY CallStep DEF IInv, TypeOK
<1>1. ASSUME NEW w \in Items, NEW v \in hist'.before[w]  PROVE Ordered(v, w)'
  <2>1. CASE v \in hist.before[w]
    <3>1. v \in Items /\ Ordered(v, w)
      BY <1>0, <2>1 DEF HistoryType, OrderInv
    <3> QED  BY <3>1, StaysOrdered
  <2>2. CASE v \notin hist.before[w]
    <3>1. PICK x \in Items : /\ EnqCall(p, x)
                             /\ hist'.before = [hist.before EXCEPT ![x] =
                                                  hist.returned \ hist.delivered]
      BY ZenonT(40), <1>0, <1>1, <2>2, HistoryStep, RecordEffect DEF history
    <3>2. x = w /\ v \in hist.returned
      BY <1>0, <1>1, <2>2, <3>1 DEF HistoryType
    <3> QED  BY <3>1, <3>2, CallOrders
  <2> QED  BY <2>1, <2>2
<1>2. ASSUME NEW o \in Threads, NEW v \in call'[o].late
      PROVE  v \in hist'.returned /\ TooLate(o, v)'
  <2>1. CASE call'[o] = call[o]
    <3>1. v \in hist.returned /\ TooLate(o, v)
      BY <1>2, <2>1 DEF OrderInv
    <3> QED  BY <3>1, <1>0, TooLateStays
  <2>2. CASE call'[o] = NoCall
    BY Zenon, <1>2, <2>2, NoCallKnows
  <2>3. CASE o = p /\ DeqCall(p) /\ DequeueCalled(p)
    <3>1. v \in Late
      <4>1. call'[p].late = Late
        BY Zenon, <1>0, <2>3, RecordEffect
      <4> QED  BY Zenon, <1>2, <2>3, <4>1
    <3>2. PICK w \in hist.delivered : v \in hist.before[w]
      BY <3>1 DEF Late
    <3>3. Ordered(v, w)
      BY <1>0, <3>2 DEF OrderInv, HistoryType
    <3>4. v \in hist.returned /\ Settled(v)
      BY <3>2, <3>3 DEF Ordered
    <3> QED  BY <3>4, <2>3, <1>0, CallIsLate
  <2> QED  BY <2>1, <2>2, <2>3, CallStep
<1>3. FifoOrder'
  <2>1. CASE hist'.overtaken = hist.overtaken
    BY <2>1 DEF OrderInv, FifoOrder
  <2>2. CASE /\ DeqTake(p) /\ CAS2Succeeds(p)
             /\ hist'.overtaken = hist.overtaken
                                    \cup (call[p].late \cap {loc[p].seen.val})
    <3>1. loc[p].seen.val \notin call[p].late
      BY <2>2, TakesInTime DEF OrderInv
    <3> QED  BY <2>2, <3>1 DEF OrderInv, FifoOrder
  <2> QED
    BY ZenonT(40), <1>0, <2>1, <2>2, HistoryStep, RecordEffect DEF history
<1> QED  BY <1>1, <1>2, <1>3 DEF OrderInv
-----------------------------------------------------------------------------
(* The initial state satisfies the invariant. *)
LEMMA InitOrder == Init => OInv
<1> SUFFICES ASSUME Init  PROVE OInv
  OBVIOUS
<1>1. /\ \A p \in Threads : /\ pc[p] = "idle" /\ Ring(p) = First /\ loc[p].h = 0
                            /\ call[p] = NoCall
      /\ \A q \in Rings : /\ rhead[q] = 0 /\ rnext[q] = NULL
                          /\ rtail[q].idx = 0
                          /\ \A j \in Slots : array[q][j].val = EMPTY
  <2>1. NoLocals.rq = First /\ NoLocals.h = 0
    BY DEF NoLocals
  <2>2. \A j \in Slots : init_ring[j].val = EMPTY
    BY DEF init_ring, RingNode
  <2>3. \A q \in Rings : rtail[q].idx = 0
    BY DEF Init
  <2> QED  BY Zenon, <2>1, <2>2, <2>3 DEF Init, HistoryInit, Ring
<1>2. /\ hist.emptied = {} /\ hist.overtaken = {} /\ hist.resurfaced = {}
      /\ \A w \in Items : hist.before[w] = {}
  BY DEF Init, HistoryInit
<1>3. TailInv
  <2>1. 0 <= MaxTicket /\ 0 <= MaxTicket + 1
    BY BoundAssumption
  <2>2. "idle" \notin TicketPoints \cup LeftPoints \cup {"fix_cas", "deq_empty"}
    BY DEF TicketPoints, LeftPoints
  <2> QED  BY Zenon, <1>1, <2>1, <2>2 DEF TailInv
<1>4. ListInv
  <2>1. PICK pos \in [Rings -> Nat] : pos = [q \in Rings |-> 0]
    OBVIOUS
  <2>2. \A q \in Rings : Published(q) => q = First
    BY <1>1, Constants DEF Published
  <2>3. Chain(pos)
    BY <1>1, <2>1, <2>2, Constants DEF Chain
  <2> QED  BY <1>1, <2>3 DEF ListInv, DeqPoints, CellPoints
<1>5. EmptyInv
  BY Zenon, <1>1, <1>2, NoCallKnows DEF EmptyInv, EmptyIsHonest
<1>6. OrderInv
  BY Zenon, <1>1, <1>2, NoCallKnows DEF OrderInv, FifoOrder
<1> QED  BY <1>3, <1>4, <1>5, <1>6 DEF OInv

(* A step that changes nothing preserves it. *)
LEMMA StutterOrder == OInv /\ UNCHANGED vars => OInv'
<1> SUFFICES ASSUME OInv, UNCHANGED vars  PROVE OInv'
  OBVIOUS
<1>0. /\ rhead' = rhead /\ rtail' = rtail /\ rnext' = rnext /\ array' = array
      /\ rings' = rings /\ pc' = pc /\ loc' = loc /\ hist' = hist /\ call' = call
  BY Zenon DEF vars, shared, history
<1>1. TailInv'
  BY Zenon, <1>0 DEF OInv, TailInv, Ring, Published
<1>2. /\ \A q, j, v : Holds(q, j, v)' <=> Holds(q, j, v)
      /\ \A q, p, h : Serves(p, q, h)' <=> Serves(p, q, h)
  BY Zenon, <1>0 DEF Holds, Published, Serves, Ring
<1>3. \A pos : (Chain(pos)' <=> Chain(pos))
  BY Zenon, <1>0 DEF Chain, Published
<1>4. ASSUME NEW pos, NEW p, Searched(p, pos)  PROVE Searched(p, pos)'
  <2> SUFFICES ASSUME NEW v \in call[p].sent, NEW q \in Rings, NEW j \in Slots,
                      Holds(q, j, v),
                      pos[q] < pos[Ring(p)] \/ (q = Ring(p) /\ pc[p] \in LeftPoints)
               PROVE  array[q][j].idx < rhead[q]
    BY Zenon, <1>0, <1>2 DEF Searched, Ring
  <2> QED  BY Zenon, <1>4 DEF Searched
<1>5. ListInv'
  BY Zenon, <1>0, <1>3, <1>4 DEF OInv, ListInv, Ring
<1>6. /\ \A v : Settled(v)' <=> Settled(v)
      /\ \A p, v : TooLate(p, v)' <=> TooLate(p, v)
  BY Zenon, <1>0, <1>2 DEF Settled, TooLate
<1>7. EmptyInv'
  BY Zenon, <1>0, <1>6 DEF OInv, EmptyInv, EmptyIsHonest
<1>8. ASSUME NEW v, NEW w, Ordered(v, w)  PROVE Ordered(v, w)'
  <2>1. v \in hist'.returned /\ (w \in hist'.delivered => Settled(v)')
    BY Zenon, <1>0, <1>6, <1>8 DEF Ordered
  <2>2. \A q \in Rings, j, k \in Slots :
          Holds(q, j, v)' /\ Holds(q, k, w)' => array'[q][j].idx < array'[q][k].idx
    BY Zenon, <1>0, <1>2, <1>8 DEF Ordered
  <2>3. \A p \in Threads, q \in Rings, j \in Slots :
          pc'[p] \in TicketPoints /\ loc'[p].arg = w /\ Holds(q, j, v)'
            => array'[q][j].idx < loc'[p].tk
    BY Zenon, <1>0, <1>2, <1>8 DEF Ordered
  <2> QED  BY Zenon, <2>1, <2>2, <2>3 DEF Ordered
<1>9. rings' = 1 => OrderInv'
  BY Zenon, <1>0, <1>6, <1>8 DEF OInv, OrderInv, FifoOrder
<1> QED  BY <1>1, <1>5, <1>7, <1>9 DEF OInv

(* Together with IInv, the invariant is inductive. *)
LEMMA StepOrder == IInv /\ OInv /\ [Next]_vars => OInv'
<1>1. ASSUME IInv, OInv, NEW p \in Threads, enq(p) \/ deq(p)  PROVE OInv'
  <2>1. TailInv' /\ ListInv' /\ EmptyInv'
    BY <1>1, StepTailInv, StepListInv, StepEmptyInv DEF OInv
  <2>2. ASSUME rings' = 1  PROVE OrderInv'
    <3>1. rings = 1
      BY <1>1, <2>2, OneRing
    <3> QED  BY <1>1, <2>2, <3>1, StepOrderInv DEF OInv
  <2> QED  BY <2>1, <2>2 DEF OInv
<1> QED  BY <1>1, StutterOrder DEF Next

(* Every reachable state satisfies it. *)
LEMMA OrderInvariant == Spec => []OInv
BY Invariant, InitOrder, StepOrder, PTL DEF Spec

(***************************************************************************)
(* An EMPTY answer of deq is honest, over any number of rings: an item     *)
(* that was there when a deq began that answered EMPTY (line 300) is never *)
(* returned by a deq that begins later.                                    *)
(***************************************************************************)
THEOREM EmptyAnswersHonest == Spec => []EmptyIsHonest
<1>1. OInv => EmptyIsHonest
  BY DEF OInv, EmptyInv
<1> QED  BY <1>1, OrderInvariant, PTL

(***************************************************************************)
(* enq and deq are first in, first out until enq allocates a second ring   *)
(* (line 203): whatever the ring size and however many laps, unsafe cells  *)
(* and empty answers there were.                                           *)
(***************************************************************************)
THEOREM FirstRingIsFifo == Spec => []FifoInFirstRing
<1>1. OInv => FifoInFirstRing
  BY DEF OInv, OrderInv, FifoInFirstRing
<1> QED  BY <1>1, OrderInvariant, PTL
=============================================================================
