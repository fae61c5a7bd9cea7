-------------------------- MODULE ELCRQRingsProofs --------------------------
(***************************************************************************)
(* What is proved of ELCRQRings, for any number of threads, items, rings   *)
(* and calls and any ring size: the part of the invariant about items, and *)
(* the theorems.                                                           *)
(***************************************************************************)
EXTENDS ELCRQRingsCells

(* An enqueue in progress keeps its item. *)
LEMMA ArgStays ==
  ASSUME TypeOK, NEW p \in Threads, enq(p) \/ deq(p), pc'[p] \in EnqPoints,
         \A v \in Items : ~EnqCall(p, v)
  PROVE  /\ pc[p] \in EnqPoints /\ loc'[p].arg = loc[p].arg
         /\ UNCHANGED history
<1>0. p \in DOMAIN pc /\ p \in DOMAIN loc /\ loc[p] \in Locals
  BY DEF TypeOK, LocalsType
<1>1. Return(p) => pc'[p] = "idle"
  BY <1>0 DEF Return, Goto
<1>2. \A point, q : Iterate(p, point, q)
                    => loc'[p].arg = loc[p].arg /\ pc'[p] = point
  BY ZenonT(40), <1>0 DEF Iterate, Goto, NoLocals
<1>3. LeaveCell(p) => pc'[p] = "deq_empty"
  BY <1>0 DEF LeaveCell, Goto
<1>4. \A seen, tt : Poll(p, seen, tt) => pc'[p] \in {"deq_skip", "deq_idx"}
  BY <1>0 DEF Poll, Goto
<1> USE DEF EnqPoints
<1>a. CASE EnqNext(p) \/ EnqTicket(p) \/ EnqReadIdx(p)
  BY <1>a, <1>0 DEF EnqNext, EnqTicket, EnqReadIdx, Locals
<1>b. CASE EnqReadVal(p) \/ EnqReadHead(p)
  BY <1>b, <1>0 DEF EnqReadVal, EnqReadHead
<1>c. CASE EnqCas(p) \/ EnqClose(p) \/ EnqAlloc(p)
  BY Zenon, <1>c, <1>0, <1>1, <1>2 DEF EnqCas, EnqClose, EnqAlloc
<1>d. CASE EnqFull(p)
  BY <1>d, <1>0, <1>2 DEF EnqFull, Locals
<1>e. CASE DeqCall(p) \/ DeqTicket(p) \/ DeqReadIdx(p)
  BY <1>e, <1>0 DEF DeqCall, DeqTicket, DeqReadIdx, Goto
<1>f. CASE DeqReadVal(p)
  BY <1>f, <1>0, <1>3, <1>4 DEF DeqReadVal, Goto
<1>g. CASE DeqTake(p) \/ DeqMarkUnsafe(p) \/ DeqLoadTail(p) \/ DeqSkip(p)
  BY Zenon, <1>g, <1>0, <1>1, <1>3, <1>4 DEF DeqTake, DeqMarkUnsafe, DeqLoadTail,
     DeqSkip, Goto
<1>h. CASE fixState(p)
  BY <1>h, <1>0 DEF fixState, FixLoadTail, FixLoadHead, FixSame, FixCas, Goto
<1>i. CASE DeqCheckEmpty(p) \/ DeqNext(p)
  BY <1>i, <1>0, <1>1, <1>2 DEF DeqCheckEmpty, DeqNext, Goto
<1> QED  BY Zenon, <1>a, <1>b, <1>c, <1>d, <1>e, <1>f, <1>g, <1>h, <1>i DEF enq, deq

(* Every step preserves ItemInv. *)
LEMMA StepItemInv ==
  ASSUME TypeOK, LocalInv, ItemInv, NEW p \in Threads, enq(p) \/ deq(p)
  PROVE  ItemInv'
<1>0. /\ HistoryType /\ p \in DOMAIN pc /\ p \in DOMAIN loc /\ loc[p] \in Locals
  BY DEF TypeOK, LocalsType
<1>1. ASSUME NEW v \in Items, EnqCall(p, v)  PROVE ItemInv'
  <2>1. /\ pc'[p] = "enq_next" /\ loc'[p].arg = v /\ v \notin hist.sent
        /\ hist'.sent = hist.sent \cup {v} /\ hist'.returned = hist.returned
    BY <1>0, <1>1, HistoryEffect DEF EnqCall, Goto, Locals
  <2>2. \A o \in Threads : o # p => pc'[o] = pc[o] /\ loc'[o] = loc[o]
    BY OtherThreads
  <2> QED  BY <2>1, <2>2 DEF ItemInv
<1>2. ASSUME \A v \in Items : ~EnqCall(p, v)  PROVE ItemInv'
  <2>1. \A o \in Threads : o # p => pc'[o] = pc[o] /\ loc'[o] = loc[o]
    BY OtherThreads
  <2>2. CASE EnqueueReturned(loc[p].arg) /\ pc[p] \in EnqPoints
    <3>1. loc[p].arg \in Items
      BY <2>2, <1>0 DEF ItemInv, HistoryType
    <3>2. /\ hist'.returned = hist.returned \cup {loc[p].arg}
          /\ hist'.sent = hist.sent
      BY <2>2, <3>1, <1>0, HistoryEffect
    <3>3. CASE pc'[p] \in EnqPoints
      <4>1. UNCHANGED history /\ loc'[p].arg = loc[p].arg
        BY <1>2, <3>3, ArgStays
      <4> QED  BY <4>1, <2>1, <2>2, <3>3 DEF ItemInv, history
    <3>4. CASE pc'[p] \notin EnqPoints
      BY <2>1, <2>2, <3>2, <3>4 DEF ItemInv
    <3> QED  BY <3>3, <3>4
  <2>3. CASE UNCHANGED <<hist.sent, hist.returned>>
    <3>1. CASE pc'[p] \in EnqPoints
      BY <1>2, <2>1, <2>3, <3>1, ArgStays DEF ItemInv
    <3>2. CASE pc'[p] \notin EnqPoints
      BY <2>1, <2>3, <3>2 DEF ItemInv
    <3> QED  BY <3>1, <3>2
  <2>4. CASE EnqCas(p) \/ EnqAlloc(p)
    BY Zenon, <1>0, <2>2, <2>3, <2>4, HistoryEffect
       DEF EnqCas, EnqAlloc, EnqPoints, whereabouts
  <2>5. CASE DeqTake(p)
    <3>1. loc[p].seen.val \in Items
      BY Zenon, <2>5, Typed, Fields DEF DeqTake, LocalInv, Knows, Values
    <3> QED  BY Zenon, <1>0, <2>3, <2>5, <3>1, HistoryEffect DEF DeqTake, whereabouts
  <2>6. CASE DeqCall(p) \/ DeqNext(p)
    BY Zenon, <1>0, <2>3, <2>6, HistoryEffect DEF DeqCall, DeqNext, whereabouts
  <2>7. CASE UNCHANGED history
    BY Zenon, <1>0, <2>3, <2>7, HistoryEffect DEF whereabouts
  <2> QED
    BY ZenonT(40), <1>2, <2>4, <2>5, <2>6, <2>7 DEF enq, deq, fixState, EnqNext,
     EnqTicket, EnqReadIdx, EnqReadVal, EnqReadHead, EnqFull, EnqClose,
     DeqTicket, DeqReadIdx, DeqReadVal, DeqMarkUnsafe, DeqLoadTail, DeqSkip,
     DeqCheckEmpty, FixLoadTail, FixLoadHead, FixSame, FixCas
<1> QED  BY <1>1, <1>2

-----------------------------------------------------------------------------
(* The cells that hold items stay as they are, and so does the history. *)
LEMMA NothingMoves ==
  ASSUME ExactlyOnce,
         \A v \in Items, q \in Rings, j \in Slots :
           Holds(q, j, v)' <=> Holds(q, j, v),
         UNCHANGED <<hist.returned, hist.delivered, hist.twice>>
  PROVE  ExactlyOnce'
BY DEF ExactlyOnce

(* Item w arrives in cell k of ring n as its enqueue returns. *)
LEMMA ItemArrives ==
  ASSUME ExactlyOnce, NEW w \in Items, w \notin hist.returned,
         NEW n \in Rings, NEW k \in Slots,
         \A v \in Items, q \in Rings, j \in Slots :
           Holds(q, j, v)' <=> Holds(q, j, v) \/ (q = n /\ j = k /\ v = w),
         hist'.returned = hist.returned \cup {w},
         UNCHANGED <<hist.delivered, hist.twice>>
  PROVE  ExactlyOnce'
BY DEF ExactlyOnce

(* Item w leaves cell k of ring n as a dequeue returns it. *)
LEMMA ItemLeaves ==
  ASSUME ExactlyOnce, NEW w \in Items, NEW n \in Rings, NEW k \in Slots,
         Holds(n, k, w),
         \A v \in Items, q \in Rings, j \in Slots :
           Holds(q, j, v)' <=> Holds(q, j, v) /\ ~(q = n /\ j = k),
         hist'.delivered = hist.delivered \cup {w},
         hist'.twice = hist.twice \cup (hist.delivered \cap {w}),
         UNCHANGED hist.returned
  PROVE  ExactlyOnce'
<1>1. w \in hist.returned /\ w \notin hist.delivered
  BY DEF ExactlyOnce
<1>2. hist'.twice = {} /\ hist'.delivered \subseteq hist'.returned
  BY <1>1 DEF ExactlyOnce
<1>3. ASSUME NEW v \in Items
      PROVE  v \in hist'.returned \ hist'.delivered
               <=> \E q \in Rings, j \in Slots : Holds(q, j, v)'
  <2>1. CASE v = w
    BY <1>1, <2>1 DEF ExactlyOnce
  <2>2. CASE v # w
    <3>1. ~Holds(n, k, v)
      BY <2>2 DEF Holds
    <3> QED  BY <2>2, <3>1 DEF ExactlyOnce
  <2> QED  BY <2>1, <2>2
<1> QED  BY <1>2, <1>3 DEF ExactlyOnce

(* Every step preserves ExactlyOnce. *)
LEMMA StepExactlyOnce ==
  ASSUME TypeOK, RingInv, LocalInv, ItemInv, ExactlyOnce, NEW p \in Threads,
         enq(p) \/ deq(p)
  PROVE  ExactlyOnce'
<1>0. /\ HistoryType /\ Ring(p) \in Rings /\ Slot(loc[p].tk) \in Slots
      /\ Published(Ring(p)) /\ Knows(p) /\ EMPTY \notin Items
  BY Zenon, Typed, Constants DEF TypeOK, RingInv, LocalInv
<1>1. pc[p] \in EnqPoints => loc[p].arg \in Items /\ loc[p].arg \notin hist.returned
  BY <1>0 DEF ItemInv, HistoryType
<1>2. CASE EnqAlloc(p)
  <2>1. PICK n \in Rings :
           /\ ~Published(n) /\ Private(n)
           /\ array' = [array EXCEPT ![n][0] = RingNode(loc[p].arg, 0, FALSE)]
           /\ \/ /\ rnext[Ring(p)] = NULL
                 /\ rnext' = [rnext EXCEPT ![Ring(p)] = n]
                 /\ EnqueueReturned(loc[p].arg)
              \/ UNCHANGED <<rnext, history>>
    <3>1. \/ UNCHANGED <<rnext, history>>
          \/ rnext[Ring(p)] = NULL /\ EnqueueReturned(loc[p].arg)
      BY <1>2 DEF EnqAlloc
    <3> QED  BY Zenon, <1>2, <3>1, AllocEffect
  <2>2. CASE UNCHANGED <<rnext, history>>
    <3>1. \A v \in Items, q \in Rings, j \in Slots :
            Holds(q, j, v)' <=> Holds(q, j, v)
      BY Zenon, <2>1, <2>2, SamePublished DEF Holds, TypeOK, RingsType
    <3> QED  BY Zenon, <1>0, <2>2, <3>1, NothingMoves, HistoryEffect DEF whereabouts
  <2>3. CASE /\ rnext[Ring(p)] = NULL
             /\ rnext' = [rnext EXCEPT ![Ring(p)] = n]
             /\ EnqueueReturned(loc[p].arg)
    <3>1. \A q \in Rings : Published(q)' <=> Published(q) \/ q = n
      BY Zenon, <1>0, <2>3, Constants DEF Published, TypeOK, RingsType
    <3>2. \A v \in Items, q \in Rings, j \in Slots :
            Holds(q, j, v)' <=> \/ Holds(q, j, v)
                                \/ q = n /\ j = 0 /\ v = loc[p].arg
      <4> SUFFICES ASSUME NEW v \in Items, NEW q \in Rings, NEW j \in Slots
                   PROVE  Holds(q, j, v)' <=> \/ Holds(q, j, v)
                                              \/ q = n /\ j = 0 /\ v = loc[p].arg
        OBVIOUS
      <4>1. CASE q # n
        BY Zenon, <2>1, <3>1, <4>1 DEF Holds, TypeOK, RingsType
      <4>2. CASE q = n /\ j # 0
        BY Zenon, <1>0, <2>1, <3>1, <4>2 DEF Holds, Private, TypeOK, RingsType
      <4>3. CASE q = n /\ j = 0
        <5>1. array'[n][0] = RingNode(loc[p].arg, 0, FALSE)
          BY Zenon, <2>1, SlotZero DEF TypeOK, RingsType
        <5>2. array'[n][0].val = loc[p].arg
          BY <5>1 DEF RingNode
        <5> QED  BY Zenon, <2>1, <3>1, <4>3, <5>2 DEF Holds
      <4> QED  BY <4>1, <4>2, <4>3
    <3>3. loc[p].arg \in Items /\ loc[p].arg \notin hist.returned
      BY <1>1, <1>2 DEF EnqAlloc, EnqPoints
    <3>4. /\ hist'.returned = hist.returned \cup {loc[p].arg}
          /\ UNCHANGED <<hist.delivered, hist.twice>>
      BY <1>0, <2>3, <3>3, HistoryEffect
    <3>5. PICK w \in Items : w = loc[p].arg
      BY <3>3
    <3>6. \A v \in Items, q \in Rings, j \in Slots :
            Holds(q, j, v)' <=> Holds(q, j, v) \/ (q = n /\ j = 0 /\ v = w)
      BY <3>2, <3>5
    <3>7. /\ w \notin hist.returned /\ hist'.returned = hist.returned \cup {w}
          /\ UNCHANGED <<hist.delivered, hist.twice>>
      BY <3>3, <3>4, <3>5
    <3> QED  BY Zenon, <3>6, <3>7, SlotZero, ItemArrives
  <2> QED  BY <2>1, <2>2, <2>3
<1>3. ASSUME ~EnqAlloc(p), NEW c \in Cell, Stores(p, c)
      PROVE  \A v \in Items, q \in Rings, j \in Slots :
               Holds(q, j, v)' <=> IF q = Ring(p) /\ j = Slot(loc[p].tk)
                                     THEN c.val = v ELSE Holds(q, j, v)
  BY <1>0, <1>3, OtherRings, SamePublished, StoreEffect DEF Holds
<1>4. ASSUME NEW c \in Cell, Stores(p, c)
      PROVE  \A v : Holds(Ring(p), Slot(loc[p].tk), v) <=> loc[p].seen.val = v
  BY <1>0, <1>4, StoreEffect DEF Holds
<1>5. ASSUME NEW c \in Cell, Stores(p, c), EnqCas(p),
             c = RingNode(loc[p].arg, loc[p].tk, FALSE)
      PROVE  ExactlyOnce'
  <2>1. c.val = loc[p].arg /\ loc[p].seen.val = EMPTY /\ ~EnqAlloc(p)
    BY <1>0, <1>5 DEF Knows, EnqCas, EnqAlloc, RingNode
  <2>2. EnqueueReturned(loc[p].arg)
    BY <1>5 DEF EnqCas, CAS2Fails, Stores
  <2>3. loc[p].arg \in Items /\ loc[p].arg \notin hist.returned
    BY Zenon, <1>1, <1>5 DEF EnqCas, EnqPoints
  <2>4. /\ hist'.returned = hist.returned \cup {loc[p].arg}
        /\ UNCHANGED <<hist.delivered, hist.twice>>
    BY Zenon, <1>0, <2>2, <2>3, HistoryEffect
  <2>5. \A v \in Items, q \in Rings, j \in Slots :
          Holds(q, j, v)' <=> \/ Holds(q, j, v)
                              \/ /\ q = Ring(p) /\ j = Slot(loc[p].tk)
                                 /\ v = loc[p].arg
    BY Zenon, <1>0, <1>3, <1>4, <1>5, <2>1
  <2>6. PICK w \in Items, n \in Rings, k \in Slots :
           w = loc[p].arg /\ n = Ring(p) /\ k = Slot(loc[p].tk)
    BY <1>0, <2>3
  <2>7. \A v \in Items, q \in Rings, j \in Slots :
          Holds(q, j, v)' <=> Holds(q, j, v) \/ (q = n /\ j = k /\ v = w)
    BY <2>5, <2>6
  <2>8. /\ w \notin hist.returned /\ hist'.returned = hist.returned \cup {w}
        /\ UNCHANGED <<hist.delivered, hist.twice>>
    BY <2>3, <2>4, <2>6
  <2> QED  BY Zenon, <2>7, <2>8, ItemArrives
<1>6. ASSUME NEW c \in Cell, Stores(p, c), DeqTake(p), c.val = EMPTY
      PROVE  ExactlyOnce'
  <2>1. loc[p].seen.val \in Items /\ ~EnqAlloc(p)
    BY <1>0, <1>6, Typed, Fields DEF Knows, DeqTake, EnqAlloc, Values
  <2>2. DequeueReturned(p, loc[p].seen.val)
    BY <1>6 DEF DeqTake, CAS2Fails, Stores
  <2>3. /\ hist'.delivered = hist.delivered \cup {loc[p].seen.val}
        /\ hist'.twice = hist.twice \cup (hist.delivered \cap {loc[p].seen.val})
        /\ UNCHANGED hist.returned
    BY Zenon, <1>0, <2>1, <2>2, HistoryEffect
  <2>4. \A v \in Items, q \in Rings, j \in Slots :
          Holds(q, j, v)' <=> /\ Holds(q, j, v)
                              /\ ~(q = Ring(p) /\ j = Slot(loc[p].tk))
    BY Zenon, <1>0, <1>3, <1>6, <2>1
  <2> QED  BY <1>0, <1>4, <1>6, <2>1, <2>3, <2>4, ItemLeaves
<1>7. ASSUME NEW c \in Cell, Stores(p, c), DeqSkip(p) \/ DeqMarkUnsafe(p),
             c.val = loc[p].seen.val
      PROVE  ExactlyOnce'
  <2>1. ~EnqAlloc(p) /\ UNCHANGED history
    BY Zenon, <1>7 DEF DeqSkip, DeqMarkUnsafe, EnqAlloc
  <2>2. \A v \in Items, q \in Rings, j \in Slots :
          Holds(q, j, v)' <=> Holds(q, j, v)
    BY Zenon, <1>3, <1>4, <1>7, <2>1
  <2> QED  BY Zenon, <1>0, <2>1, <2>2, NothingMoves, HistoryEffect DEF whereabouts
<1>8. ASSUME ~EnqAlloc(p), ~EnqCas(p), ~DeqTake(p),
             \A q \in Rings : Published(q) => array'[q] = array[q]
      PROVE  ExactlyOnce'
  <2>1. \A v \in Items, q \in Rings, j \in Slots :
          Holds(q, j, v)' <=> Holds(q, j, v)
    BY <1>8, OtherRings, SamePublished DEF Holds
  <2>2. CASE UNCHANGED <<hist.returned, hist.delivered, hist.twice>>
    BY <2>1, <2>2, NothingMoves
  <2>3. CASE \E v \in Items : EnqCall(p, v)
    BY <1>0, <2>2, <2>3, HistoryEffect DEF EnqCall
  <2>4. CASE DeqCall(p) \/ DeqNext(p)
    BY Zenon, <1>0, <2>2, <2>4, HistoryEffect DEF DeqCall, DeqNext, whereabouts
  <2>5. CASE UNCHANGED history
    BY Zenon, <1>0, <2>2, <2>5, HistoryEffect DEF whereabouts
  <2> QED
    BY ZenonT(40), <1>8, <2>3, <2>4, <2>5 DEF enq, deq, fixState, EnqNext,
     EnqTicket, EnqReadIdx, EnqReadVal, EnqReadHead, EnqFull, EnqClose,
     DeqTicket, DeqReadIdx, DeqReadVal, DeqMarkUnsafe, DeqLoadTail, DeqSkip,
     DeqCheckEmpty, FixLoadTail, FixLoadHead, FixSame, FixCas
<1>9. CASE EnqCas(p) \/ DeqTake(p)
  <2>1. CASE CAS2Fails(p)
    <3>1. ~EnqAlloc(p) /\ UNCHANGED <<history, array>>
      BY Zenon, <1>9, <2>1 DEF EnqCas, DeqTake, EnqAlloc, CAS2Fails, CAS2, shared
    <3>2. \A v \in Items, q \in Rings, j \in Slots :
            Holds(q, j, v)' <=> Holds(q, j, v)
      BY Zenon, <3>1, OtherRings, SamePublished DEF Holds
    <3> QED  BY Zenon, <1>0, <3>1, <3>2, NothingMoves, HistoryEffect DEF whereabouts
  <2>2. CASE EnqCas(p) /\ ~CAS2Fails(p)
    <3>1. PICK c \in Cell : c = RingNode(loc[p].arg, loc[p].tk, FALSE)
      BY Zenon, Typed, Fields
    <3> QED  BY Zenon, <1>5, <2>2, <3>1 DEF EnqCas, CAS2, Stores
  <2>3. CASE DeqTake(p) /\ ~CAS2Fails(p)
    <3>1. PICK c \in Cell :
             c = RingNode(EMPTY, loc[p].tk + RING_SIZE, loc[p].seen.unsafe)
      BY SMTT(30), Typed, Fields, Constants
    <3>2. c.val = EMPTY
      BY <3>1 DEF RingNode
    <3> QED  BY <1>6, <2>3, <3>1, <3>2 DEF DeqTake, CAS2, Stores
  <2> QED  BY <1>9, <2>1, <2>2, <2>3
<1>10. CASE \E c \in Cell :
              /\ Stores(p, c)
              /\ \/ DeqSkip(p) /\ c = RingNode(EMPTY, loc[p].tk + RING_SIZE,
                                             loc[p].seen.unsafe)
                 \/ /\ DeqMarkUnsafe(p)
                    /\ c = RingNode(loc[p].seen.val, loc[p].seen.idx, TRUE)
  BY Zenon, <1>0, <1>7, <1>10 DEF RingNode, DeqSkip, Knows
<1> QED  BY Zenon, <1>2, <1>8, <1>9, <1>10, CellEffect
-----------------------------------------------------------------------------
(* The initial state satisfies the inductive invariant. *)
LEMMA InitInv == Init => IInv
<1> SUFFICES ASSUME Init  PROVE IInv
  OBVIOUS
<1>1. TypeOK
  BY InitType
<1>2. /\ \A p \in Threads : /\ pc[p] = "idle" /\ loc[p] = NoLocals
                            /\ nrq[p] = NULL /\ Ring(p) = First
      /\ \A q \in Rings : /\ rhead[q] = 0 /\ rnext[q] = NULL
                          /\ \A j \in Slots : array[q][j].val = EMPTY
  BY DEF Init, Ring, NoLocals, init_ring, RingNode
<1>3. \A q \in Rings : Published(q) <=> q = First
  BY <1>2, Constants DEF Published
<1>4. RingInv
  BY <1>2, <1>3, Constants DEF RingInv, Private, Init, First
<1>5. ClosedInv /\ LocalInv /\ StoreInv
  BY Zenon, <1>2 DEF ClosedInv, SuccessorImpliesClosed, LocalInv, Knows, StoreInv,
     ReadIdxPoints, CellPoints
<1>6. PassedInv
  BY <1>2 DEF PassedInv, Passed
<1>7. NoItemStranded
  BY <1>2 DEF NoItemStranded
<1>8. ItemInv
  BY Zenon, <1>2 DEF ItemInv, Init, HistoryInit, EnqPoints
<1>9. ExactlyOnce
  BY Zenon, <1>2, Constants DEF ExactlyOnce, Holds, Init, HistoryInit
<1> QED  BY <1>1, <1>4, <1>5, <1>6, <1>7, <1>8, <1>9 DEF IInv

(* A step that changes nothing preserves it. *)
LEMMA StutterInv == IInv /\ UNCHANGED vars => IInv'
<1> SUFFICES ASSUME IInv, UNCHANGED vars  PROVE IInv'
  OBVIOUS
<1> USE DEF vars, shared, history
<1>1. TypeOK'
  BY DEF IInv, TypeOK, RingsType, LocalsType, HistoryType
<1>2. RingInv' /\ ClosedInv'
  BY DEF IInv, RingInv, ClosedInv, Private, Published, Ring, SuccessorImpliesClosed
<1>3. LocalInv'
  BY Zenon DEF IInv, LocalInv, Knows, CellOf, Ring
<1>4. \A q, h : Passed(q, h)' <=> Passed(q, h)
  BY SMTT(30) DEF Passed, Served, Ring
<1>5. PassedInv' /\ NoItemStranded'
  BY <1>4 DEF IInv, PassedInv, NoItemStranded, Published
<1>6. StoreInv'
  BY <1>4 DEF IInv, StoreInv, CAS2Succeeds, CellOf, Ring
<1>7. ItemInv' /\ ExactlyOnce'
  BY DEF IInv, ItemInv, ExactlyOnce, Holds, Published
<1> QED  BY <1>1, <1>2, <1>3, <1>5, <1>6, <1>7 DEF IInv

(* The invariant is inductive. *)
LEMMA StepInv == IInv /\ [Next]_vars => IInv'
<1>1. ASSUME IInv, NEW p \in Threads, enq(p) \/ deq(p)  PROVE IInv'
  <2>1. TypeOK'
    BY <1>1, StepLocalsType, StepRingsType, StepHistoryType DEF IInv, TypeOK
  <2>2. RingInv' /\ ClosedInv' /\ LocalInv'
    BY <1>1, StepRingInv, StepClosedInv, StepLocalInv DEF IInv
  <2>3. PassedInv' /\ StoreInv' /\ NoItemStranded'
    BY <1>1, StepPassedInv, StepStoreInv, StepNoItemStranded DEF IInv
  <2>4. ItemInv' /\ ExactlyOnce'
    BY <1>1, StepItemInv, StepExactlyOnce DEF IInv
  <2> QED  BY <2>1, <2>2, <2>3, <2>4 DEF IInv
<1> QED  BY <1>1, StutterInv DEF Next

(* Every reachable state satisfies the inductive invariant. *)
LEMMA Invariant == Spec => []IInv
BY InitInv, StepInv, PTL DEF Spec

(***************************************************************************)
(* The type invariant of enq and deq: in particular no thread follows the  *)
(* null next of the last ring (lines 191, 298) or indexes outside a ring.  *)
(***************************************************************************)
THEOREM TypeCorrect == Spec => []TypeOK
<1>1. IInv => TypeOK
  BY DEF IInv
<1> QED  BY <1>1, Invariant, PTL

(***************************************************************************)
(* No interleaving of enq and deq loses, duplicates or invents an item,    *)
(* for any ring size, any number of rings, threads, items and calls.       *)
(***************************************************************************)
THEOREM ItemsExactlyOnce == Spec => []ExactlyOnce
<1>1. IInv => ExactlyOnce
  BY DEF IInv
<1> QED  BY <1>1, Invariant, PTL

(***************************************************************************)
(* No enq stores an item under a ticket whose deq has given up: the        *)
(* handshake between the unsafe bit (lines 270, 286), the test of head     *)
(* against the ticket (line 226) and CAS2 is sound for any ring size.      *)
(***************************************************************************)
THEOREM ItemsNotStranded == Spec => []NoItemStranded
<1>1. IInv => NoItemStranded
  BY DEF IInv
<1> QED  BY <1>1, Invariant, PTL

(***************************************************************************)
(* The closed bit of a ring with a successor survives every FAA, close_crq *)
(* and fixState.                                                           *)
(***************************************************************************)
THEOREM ClosedForGood == Spec => []SuccessorImpliesClosed
<1>1. IInv => SuccessorImpliesClosed
  BY DEF IInv, ClosedInv
<1> QED  BY <1>1, Invariant, PTL
=============================================================================
