--------------------------- MODULE LCRQueueCells ----------------------------
(***************************************************************************)
(* What is proved of the items of LCRQueue: the invariants about the cells *)
(* and the tails of the nodes, preserved by every step, and that no item   *)
(* is lost.                                                                *)
(***************************************************************************)
EXTENDS LCRQueueInv

ReadIdxPoints == {"enq_val", "enq_head", "enq_cas", "deq_val", "deq_take",
                  "deq_mark", "deq_tail", "deq_skip"}

\* Where an enqueuer has a ticket it may still store its item with.
StorePoints == {"enq_idx", "enq_val", "enq_head", "enq_cas"}

\* Where a dequeuer has a ticket.
TicketPoints == CellPoints \cup
  {"deq_bts", "deq_empty", "fix_tail", "fix_head", "fix_same", "fix_cas",
   "deq_next", "deq_recheck"}

\* What a thread knows of the cell and of the node it works on.
Knows(p) ==
  /\ pc[p] \in ReadIdxPoints => loc[p].seen.idx <= CellOf(p).idx
  /\ pc[p] \in {"enq_head", "enq_cas", "deq_tail", "deq_skip"} =>
       loc[p].seen.idx <= loc[p].tk
  /\ pc[p] \in {"enq_val", "enq_head", "enq_cas", "deq_tail", "deq_skip"} =>
       loc[p].seen.val = EMPTY
  /\ pc[p] = "deq_take" => loc[p].seen.idx = loc[p].tk
  /\ pc[p] = "deq_mark" => loc[p].seen.idx < loc[p].tk
  /\ pc[p] \in {"deq_take", "deq_mark"} => loc[p].seen.val # EMPTY
  /\ pc[p] \in TicketPoints => loc[p].tk < nhead[Node(p)]
  /\ pc[p] \in StorePoints => loc[p].tk < ntail[Node(p)].idx
  /\ pc[p] = "enq_alloc" => ntail[Node(p)].closed
  /\ pc[p] = "fix_cas" => ~loc[p].tt.closed /\ loc[p].tt.idx < loc[p].h

LocalInv == \A p \in Threads : Knows(p)

\* The dequeuer of ticket h of node n has come and gone.
Passed(n, h) == h < nhead[n] /\ ~Served(n, h)

\* The dequeuer of a ticket leaves its cell with a larger index or unsafe.
PassedInv ==
  \A n \in live, h \in Nat :
    Passed(n, h) => \/ array[n][Slot(h)].idx > h
                    \/ array[n][Slot(h)].unsafe

\* An enqueuer about to store into an unsafe cell: no dequeuer of its ticket,
\* or of a later one for the same cell, has gone by since head < t.
StoreInv ==
  \A p \in Threads, h \in Nat :
    ( /\ pc[p] = "enq_cas" /\ loc[p].seen.unsafe /\ CAS2Succeeds(p)
      /\ loc[p].tk <= h /\ Slot(h) = Slot(loc[p].tk) )
    => ~Passed(Node(p), h)

\* An item is in the cell of its ticket, which was given out and whose
\* dequeuer is still to come or at work.
StrandInv ==
  \A n \in live, j \in Slots :
    array[n][j].val # EMPTY =>
      /\ Slot(array[n][j].idx) = j /\ ~Passed(n, array[n][j].idx)
      /\ array[n][j].idx < ntail[n].idx

\* A node with a successor is closed.
ClosedInv == \A n \in live : nnext[n] # nullptr => ntail[n].closed

\* No item of node n waits for a dequeuer that is still to come, nor will one.
Sealed(n) ==
  /\ ntail[n].closed
  /\ \A j \in Slots : array[n][j].val # EMPTY => array[n][j].idx < nhead[n]
  /\ \A p \in Threads : pc[p] \in StorePoints /\ Node(p) = n => loc[p].tk < nhead[n]

\* head leaves only such nodes.
SealedInv ==
  /\ \A n \in Nodes : Retired(n) => Sealed(n)
  /\ \A p \in Threads : pc[p] = "deq_advance" => Sealed(Node(p))

\* Item v is on its way out, or in a cell.
Carried(v) ==
  \/ v \in hist.delivered
  \/ \E p \in Threads : pc[p] = "deq_clear" /\ loc[p].seen.val = v
  \/ \E n \in live, j \in Slots : array[n][j].val = v

\* An item whose enqueue has returned, or has only hp->clear left to do, is.
CarriedInv ==
  /\ \A v \in hist.returned : Carried(v)
  /\ \A p \in Threads : pc[p] \in {"enq_swing", "enq_clear"} => Carried(loc[p].item)

CInv == /\ HInv /\ LocalInv /\ PassedInv /\ StoreInv /\ StrandInv /\ ClosedInv
        /\ SealedInv /\ CarriedInv
-----------------------------------------------------------------------------
\* p's CAS2 succeeds and stores c.
Stores(p, c) ==
  /\ CAS2Succeeds(p)
  /\ array' = [array EXCEPT ![Node(p)][Slot(loc[p].tk)] = c]

\* (n, j) is the cell that p works on.
At(p, n, j) == n = Node(p) /\ j = Slot(loc[p].tk)

\* Cell, as a relation.
IsCell(c, v, i, u) == c = Cell(v, i, u)

\* The cells of a new node with item v.
SoloCells(v) == [NodeCells EXCEPT ![0] = Cell(v, 0, FALSE)]

(* What linking a new node does to the nodes. *)
LEMMA AllocNodes ==
  ASSUME HInv, NEW p \in Threads, EnqAlloc(p)
  PROVE  \/ UNCHANGED shared /\ pc'[p] = "enq_load"
         \/ \E n \in Nodes :
              /\ n \notin live /\ live' = live \cup {n} /\ pc'[p] = "enq_swing"
              /\ nhead'[n] = 0 /\ ntail'[n] = OpenAt(1) /\ nnext'[n] = nullptr
              /\ array'[n] = SoloCells(loc[p].item)
              /\ Node(p) \in live /\ n # Node(p) /\ UNCHANGED <<ends, hazard>>
              /\ loc'[p].item = loc[p].item
              /\ \A m \in Nodes : m # n =>
                   /\ nhead'[m] = nhead[m] /\ ntail'[m] = ntail[m]
                   /\ array'[m] = array[m]
              /\ \A m \in Nodes : m # n /\ m # Node(p) => nnext'[m] = nnext[m]
<1>0. /\ TypeOK /\ NodesType /\ Node(p) \in Nodes /\ Node(p) \in live
  BY Zenon DEF HInv, TypeOK, LocalsInv, HazardInv, HoldPoints, EnqHoldPoints, EnqAlloc
<1>1. CASE Iterate(p, "enq_load") /\ UNCHANGED shared
  BY Zenon, <1>0, <1>1, Arrives
<1>2. ASSUME NEW n \in Nodes \ live,
             /\ nhead' = [nhead EXCEPT ![n] = 0]
             /\ ntail' = [ntail EXCEPT ![n] = OpenAt(1)]
             /\ nnext' = [nnext EXCEPT ![n] = nullptr, ![Node(p)] = n]
             /\ array' = [array EXCEPT ![n] =
                            [NodeCells EXCEPT ![0] = Cell(loc[p].item, 0, FALSE)]]
             /\ live' = live \cup {n}
             /\ loc' = [loc EXCEPT ![p].next = n]
             /\ Goto(p, "enq_swing")
             /\ UNCHANGED <<ends, hazard>>
      PROVE  /\ n \notin live /\ live' = live \cup {n} /\ pc'[p] = "enq_swing"
             /\ nhead'[n] = 0 /\ ntail'[n] = OpenAt(1) /\ nnext'[n] = nullptr
             /\ array'[n] = SoloCells(loc[p].item)
             /\ Node(p) \in live /\ n # Node(p) /\ UNCHANGED <<ends, hazard>>
             /\ loc'[p].item = loc[p].item
             /\ \A m \in Nodes : m # n =>
                  /\ nhead'[m] = nhead[m] /\ ntail'[m] = ntail[m]
                  /\ array'[m] = array[m]
             /\ \A m \in Nodes : m # n /\ m # Node(p) => nnext'[m] = nnext[m]
  <2>1. n # Node(p) /\ n \in Nodes
    BY <1>0
  <2>2. loc'[p].item = loc[p].item
    BY <1>0, <1>2, Typed DEF Locals
  <2>3. pc'[p] = "enq_swing"
    BY Zenon, <1>0, <1>2, Arrives
  <2>4. /\ nnext'[n] = nullptr
        /\ \A m \in Nodes : m # n /\ m # Node(p) => nnext'[m] = nnext[m]
    BY <1>0, <1>2, <2>1 DEF NodesType
  <2>5. /\ nhead'[n] = 0 /\ ntail'[n] = OpenAt(1)
        /\ array'[n] = SoloCells(loc[p].item)
        /\ \A m \in Nodes : m # n =>
             nhead'[m] = nhead[m] /\ ntail'[m] = ntail[m] /\ array'[m] = array[m]
    BY Zenon, <1>0, <1>2, <2>1 DEF NodesType, SoloCells
  <2> QED  BY Zenon, <1>0, <1>2, <2>1, <2>2, <2>3, <2>4, <2>5
<1> QED
  <2>1. CASE nnext[Node(p)] # nullptr
    BY Zenon, <1>1, <2>1 DEF EnqAlloc
  <2>2. CASE nnext[Node(p)] = nullptr
    BY Zenon, <1>2, <2>2 DEF EnqAlloc
  <2> QED  BY <2>1, <2>2

(* The cells of a new node. *)
LEMMA FreshCells ==
  ASSUME NEW v
  PROVE  /\ SoloCells(v)[0].val = v /\ SoloCells(v)[0].idx = 0
         /\ \A j \in Slots : j # 0 => SoloCells(v)[j].val = EMPTY
<1>1. 0 \in Slots
  BY Constants
<1>2. /\ SoloCells(v)[0] = Cell(v, 0, FALSE)
      /\ \A j \in Slots : j # 0 => SoloCells(v)[j] = Cell(EMPTY, j, FALSE)
  BY Zenon, <1>1 DEF NodeCells, SoloCells
<1>3. /\ Cell(v, 0, FALSE).val = v /\ Cell(v, 0, FALSE).idx = 0
      /\ \A j : Cell(EMPTY, j, FALSE).val = EMPTY
  BY DEF Cell
<1> QED  BY Zenon, <1>2, <1>3

(* The steps that change a cell of a live node, and how. *)
LEMMA CellEffect ==
  ASSUME HInv, NEW p \in Threads, enqueue(p) \/ dequeue(p)
  PROVE  \/ \A n \in live : array'[n] = array[n]
         \/ \E c \in Cells :
              /\ Stores(p, c) /\ UNCHANGED <<nhead, ntail, nnext, live, hazard, ends>>
              /\ \/ EnqCas(p) /\ c = Cell(loc[p].item, loc[p].tk, FALSE)
                 \/ /\ DeqTake(p) \/ DeqSkip(p)
                    /\ c = Cell(EMPTY, loc[p].tk + RING_SIZE, loc[p].seen.unsafe)
                 \/ /\ DeqMarkUnsafe(p)
                    /\ c = Cell(loc[p].seen.val, loc[p].seen.idx, TRUE)
<1>0. TypeOK /\ live \subseteq Nodes
  BY DEF HInv, TypeOK, NodesType
<1>1. CASE EnqAlloc(p)
  BY Zenon, <1>0, <1>1, AllocNodes DEF shared, nodes
<1>2. CASE EnqCas(p) \/ DeqTake(p) \/ DeqSkip(p) \/ DeqMarkUnsafe(p)
  <2>1. Cell(loc[p].item, loc[p].tk, FALSE) \in Cells
    BY Zenon, <1>0, Typed, Fields
  <2>2. Cell(EMPTY, loc[p].tk + RING_SIZE, loc[p].seen.unsafe) \in Cells
    <3>1. loc[p].tk + RING_SIZE \in Nat
      BY <1>0, Typed, Constants
    <3> QED  BY Zenon, <1>0, <3>1, Typed, Fields, Constants
  <2>3. Cell(loc[p].seen.val, loc[p].seen.idx, TRUE) \in Cells
    BY Zenon, <1>0, Typed, Fields
  <2> QED  BY Zenon, <1>2, <2>1, <2>2, <2>3 DEF EnqCas, DeqTake, DeqSkip,
           DeqMarkUnsafe, CAS2, CAS2Fails, Stores, shared, nodes
<1> QED
  BY ZenonT(60), <1>1, <1>2 DEF enqueue, dequeue, fixState, shared, ends, nodes,
     hazard, EnqCall, EnqLoad, Load, EnqProtect, DeqProtect, Protect, EnqCheck, Check,
     EnqNext, AdvanceTail, EnqHelp, EnqTicket, EnqSwing, EnqReadIdx, EnqReadVal,
     EnqReadHead, EnqFull, EnqClose, EnqClear, DeqClear, Clear, DeqCall, DeqLoad,
     DeqCheck, DeqTicket, DeqReadIdx, DeqReadVal, DeqLoadTail, DeqCloseNode,
     DeqCheckEmpty, FixLoadTail, FixLoadHead, FixSame, FixCas, DeqNext, DeqRecheck,
     DeqAdvance, retire

(* The cell of a successful CAS2 is the one p read; the others stay. *)
LEMMA StoreEffect ==
  ASSUME TypeOK, NEW p \in Threads, Node(p) \in Nodes, NEW c, Stores(p, c),
         NEW n \in Nodes, NEW j \in Slots
  PROVE  /\ n = Node(p) /\ j = Slot(loc[p].tk)
              => array[n][j] = loc[p].seen /\ array'[n][j] = c
         /\ ~(n = Node(p) /\ j = Slot(loc[p].tk)) => array'[n][j] = array[n][j]
BY Typed DEF Stores, CAS2Succeeds, CellOf, TypeOK, NodesType

LEMMA StoreHere ==
  ASSUME TypeOK, NEW p \in Threads, NEW c, Stores(p, c), NEW n \in Nodes,
         NEW j \in Slots, At(p, n, j)
  PROVE  array'[n][j] = c /\ array[n][j] = loc[p].seen
BY StoreEffect DEF At

LEMMA StoreThere ==
  ASSUME TypeOK, NEW p \in Threads, Node(p) \in Nodes, NEW c, Stores(p, c),
         NEW n \in Nodes, NEW j \in Slots, ~(n = Node(p) /\ j = Slot(loc[p].tk))
  PROVE  array'[n][j] = array[n][j]
BY StoreEffect

(* The parts of a cell and of a tail, and what is needed of arithmetic. *)
LEMMA CellFields ==
  /\ \A c, v, i, u : IsCell(c, v, i, u) => c.val = v /\ c.idx = i /\ c.unsafe = u
  /\ \A c, v, i : IsCell(c, v, i, TRUE) => c.unsafe
BY DEF Cell, IsCell

LEMMA CellArithmetic ==
  /\ \A i \in Nat : ~(i > i) /\ ~(i < i) /\ i <= i
  /\ \A i, k \in Nat : ~(i > k /\ i <= k)
  /\ \A i, k, h \in Nat : ~(i > h /\ i <= k /\ k <= h)
  /\ \A i, k, h \in Nat : i < k /\ h >= k => i < h
  /\ \A i, k, h \in Nat : i > h /\ i <= k => k > h
  /\ \A i, k \in Nat : i < k \/ i >= k
OBVIOUS

(* Heads and tails of live nodes never decrease, and a closed node stays   *)
(* closed.                                                                 *)
LEMMA NodeMonotone ==
  ASSUME HInv, LocalInv, NEW p \in Threads, enqueue(p) \/ dequeue(p), NEW n \in live
  PROVE  /\ nhead'[n] >= nhead[n] /\ ntail'[n].idx >= ntail[n].idx
         /\ ntail[n].closed => ntail'[n].closed
<1>0. /\ TypeOK /\ NodesType /\ n \in Nodes /\ nhead[n] \in Nat /\ ntail[n] \in Tails
      /\ ntail[n].idx \in Nat /\ nhead \in [Nodes -> Nat] /\ ntail \in [Nodes -> Tails]
      /\ pc[p] \in HoldPoints => Node(p) \in Nodes
  BY Zenon, Fields DEF HInv, TypeOK, NodesType, LocalsInv
<1>1. CASE nhead'[n] = nhead[n] /\ ntail'[n] = ntail[n]
  BY <1>0, <1>1
<1>2. CASE EnqAlloc(p)
  <2>1. nhead'[n] = nhead[n] /\ ntail'[n] = ntail[n]
    BY Zenon, <1>0, <1>2, AllocNodes DEF shared, nodes
  <2> QED  BY <1>1, <2>1
<1> USE DEF HoldPoints, EnqHoldPoints, DeqHoldPoints
<1>3. CASE EnqTicket(p)
  <2>1. ntail' = [ntail EXCEPT ![Node(p)].idx = @ + 1] /\ UNCHANGED nhead
    BY <1>3 DEF EnqTicket
  <2> QED  BY <1>0, <2>1 DEF Tails
<1>4. CASE EnqClose(p) \/ DeqCloseNode(p)
  <2>1. \/ ntail' = [ntail EXCEPT ![Node(p)].closed =
                  ntail[Node(p)].closed \/ loc[p].try_close >= CLOSE_TRIES
                           \/ ntail[Node(p)].idx = loc[p].tk + 1]
        \/ ntail' = [ntail EXCEPT ![Node(p)].closed = TRUE]
    BY <1>4 DEF EnqClose, close_crq, DeqCloseNode
  <2>2. UNCHANGED nhead
    BY <1>4 DEF EnqClose, DeqCloseNode
  <2> QED  BY <1>0, <2>1, <2>2 DEF Tails
<1>5. CASE DeqTicket(p)
  <2>1. nhead' = [nhead EXCEPT ![Node(p)] = @ + 1] /\ UNCHANGED ntail
    BY <1>5 DEF DeqTicket
  <2> QED  BY <1>0, <2>1
<1>6. CASE FixCas(p)
  <2>1. ~loc[p].tt.closed /\ loc[p].tt.idx < loc[p].h /\ loc[p].h \in Nat
        /\ loc[p].tt.idx \in Nat
    BY Zenon, <1>0, <1>6, Typed, Fields DEF FixCas, LocalInv, Knows
  <2>2. UNCHANGED nhead
    BY <1>6 DEF FixCas
  <2>3. CASE UNCHANGED ntail
    BY <1>1, <2>2, <2>3
  <2>4. CASE /\ ntail[Node(p)] = loc[p].tt
             /\ ntail' = [ntail EXCEPT ![Node(p)] = OpenAt(loc[p].h)]
    <3>1. CASE n # Node(p)
      BY Zenon, <1>0, <1>1, <2>2, <2>4, <3>1
    <3>2. CASE n = Node(p)
      <4>1. ntail'[n] = OpenAt(loc[p].h) /\ ntail[n] = loc[p].tt
        BY <1>0, <2>4, <3>2
      <4>2. ntail'[n].idx = loc[p].h
        BY <4>1 DEF OpenAt
      <4> QED  BY <1>0, <2>1, <2>2, <4>1, <4>2
    <3> QED  BY <3>1, <3>2
  <2> QED  BY <1>6, <2>3, <2>4 DEF FixCas
<1>7. CASE UNCHANGED <<nhead, ntail>>
  BY <1>1, <1>7
<1> QED
  BY ZenonT(60), <1>2, <1>3, <1>4, <1>5, <1>6, <1>7 DEF enqueue, dequeue, fixState,
     shared, ends, nodes, hazard, CAS2, CAS2Fails, EnqCall, EnqLoad, Load, EnqProtect,
     DeqProtect, Protect, EnqCheck, Check, EnqNext, AdvanceTail, EnqHelp, EnqSwing,
     EnqReadIdx, EnqReadVal, EnqReadHead, EnqCas, EnqFull, EnqClear, DeqClear, Clear,
     DeqCall, DeqLoad, DeqCheck, DeqReadIdx, DeqReadVal, DeqTake, DeqMarkUnsafe,
     DeqLoadTail, DeqSkip, DeqCheckEmpty, FixLoadTail, FixLoadHead, FixSame, DeqNext,
     DeqRecheck, DeqAdvance, retire
-----------------------------------------------------------------------------
(* What a successful CAS2 stores is newer than what it replaces. *)
LEMMA StoreNewer ==
  ASSUME HInv, LocalInv, NEW p \in Threads, NEW c \in Cells,
         \/ EnqCas(p) /\ c = Cell(loc[p].item, loc[p].tk, FALSE)
         \/ /\ DeqTake(p) \/ DeqSkip(p)
            /\ c = Cell(EMPTY, loc[p].tk + RING_SIZE, loc[p].seen.unsafe)
         \/ /\ DeqMarkUnsafe(p)
            /\ c = Cell(loc[p].seen.val, loc[p].seen.idx, TRUE)
  PROVE  /\ c.idx >= loc[p].seen.idx
         /\ c.val # EMPTY \/ c.idx > loc[p].seen.idx
         /\ Node(p) \in live /\ Node(p) \in Nodes
<1>0. /\ TypeOK /\ loc[p].tk \in Nat /\ loc[p].seen.idx \in Nat /\ Knows(p)
  BY Zenon, Typed, Fields DEF HInv, LocalInv
<1>1. pc[p] \in {"enq_cas", "deq_take", "deq_skip", "deq_mark"}
  BY Zenon DEF EnqCas, DeqTake, DeqSkip, DeqMarkUnsafe
<1>2. pc[p] \in HoldPoints
  BY <1>1 DEF HoldPoints, EnqHoldPoints, DeqHoldPoints, CellPoints
<1>3. Node(p) \in live /\ Node(p) \in Nodes
  BY Zenon, <1>2 DEF HInv, HazardInv, LocalsInv
<1>4. CASE EnqCas(p) /\ c = Cell(loc[p].item, loc[p].tk, FALSE)
  <2>1. pc[p] = "enq_cas"
    BY <1>4 DEF EnqCas
  <2>2. loc[p].seen.idx <= loc[p].tk /\ loc[p].item \in Items
    BY <1>0, <2>1 DEF HInv, LocalsInv, Knows, EnqPoints, EnqHoldPoints
  <2>3. c.idx = loc[p].tk /\ c.val = loc[p].item
    BY <1>4 DEF Cell
  <2> QED  BY <1>0, <1>3, <2>2, <2>3, Constants
<1>5. CASE /\ DeqTake(p) \/ DeqSkip(p)
           /\ c = Cell(EMPTY, loc[p].tk + RING_SIZE, loc[p].seen.unsafe)
  <2>1. pc[p] = "deq_take" \/ pc[p] = "deq_skip"
    BY <1>5 DEF DeqTake, DeqSkip
  <2>2. loc[p].seen.idx <= loc[p].tk
    BY <1>0, <2>1 DEF Knows
  <2>3. c.idx = loc[p].tk + RING_SIZE
    BY Zenon, <1>5 DEF Cell
  <2> QED  BY <1>0, <1>3, <2>2, <2>3, Constants
<1>6. CASE /\ DeqMarkUnsafe(p)
           /\ c = Cell(loc[p].seen.val, loc[p].seen.idx, TRUE)
  <2>1. pc[p] = "deq_mark"
    BY <1>6 DEF DeqMarkUnsafe
  <2>2. loc[p].seen.val # EMPTY
    BY <1>0, <2>1 DEF Knows
  <2>3. c.idx = loc[p].seen.idx /\ c.val = loc[p].seen.val
    BY <1>6 DEF Cell
  <2> QED  BY <1>0, <1>3, <2>2, <2>3
<1> QED  BY Zenon, <1>4, <1>5, <1>6

(* A cell changes by receiving an item or by moving to a larger index; the *)
(* index never decreases.                                                  *)
LEMMA CellMonotone ==
  ASSUME HInv, LocalInv, NEW p \in Threads, enqueue(p) \/ dequeue(p),
         NEW n \in live, NEW j \in Slots
  PROVE  \/ array'[n][j] = array[n][j]
         \/ /\ array'[n][j].idx >= array[n][j].idx
            /\ \/ array'[n][j].val # EMPTY
               \/ array'[n][j].idx > array[n][j].idx
<1>0. TypeOK /\ n \in Nodes
  BY DEF HInv, TypeOK, NodesType
<1>1. CASE \A m \in live : array'[m] = array[m]
  BY <1>1
<1>2. ASSUME NEW c \in Cells, Stores(p, c), Node(p) \in Nodes, c.idx >= loc[p].seen.idx,
             c.val # EMPTY \/ c.idx > loc[p].seen.idx
      PROVE  \/ array'[n][j] = array[n][j]
             \/ /\ array'[n][j].idx >= array[n][j].idx
                /\ \/ array'[n][j].val # EMPTY
                   \/ array'[n][j].idx > array[n][j].idx
  <2>1. CASE n = Node(p) /\ j = Slot(loc[p].tk)
    <3>1. array[n][j] = loc[p].seen /\ array'[n][j] = c
      BY <1>0, <1>2, <2>1, StoreEffect
    <3> QED  BY <1>2, <3>1
  <2>2. CASE ~(n = Node(p) /\ j = Slot(loc[p].tk))
    <3>1. array'[n][j] = array[n][j]
      BY <1>0, <1>2, <2>2, StoreEffect
    <3> QED  BY <3>1
  <2> QED  BY <2>1, <2>2
<1> QED  BY Zenon, <1>1, <1>2, CellEffect, StoreNewer

\* The points where a thread knows something.
KnowPoints == ReadIdxPoints \cup TicketPoints \cup StorePoints \cup {"enq_alloc"}

(* They are points where it holds its node. *)
LEMMA KnowsWhere ==
  /\ KnowPoints \subseteq HoldPoints
  /\ ReadIdxPoints \subseteq CellPoints \cup StorePoints
  /\ CellPoints \subseteq TicketPoints
  /\ \A p : pc[p] \notin KnowPoints => Knows(p)
<1> USE DEF KnowPoints, ReadIdxPoints, TicketPoints, StorePoints, CellPoints
<1>1. KnowPoints \subseteq HoldPoints
  BY DEF HoldPoints, EnqHoldPoints, DeqHoldPoints
<1>2. \A p : pc[p] \notin KnowPoints => Knows(p)
  BY DEF Knows
<1> QED  BY <1>1, <1>2

(* The same of the next state. *)
LEMMA KnowsWhereNext == \A p : pc'[p] \notin KnowPoints => Knows(p)'
BY DEF Knows, KnowPoints, ReadIdxPoints, TicketPoints, StorePoints, CellPoints

(* What the other threads know stays true. *)
LEMMA OthersKnow ==
  ASSUME HInv, LocalInv, NEW p \in Threads, enqueue(p) \/ dequeue(p),
         NEW o \in Threads, o # p
  PROVE  Knows(o)'
<1>1. TypeOK /\ TypeOK'
  BY StepType DEF HInv
<1>2. /\ pc'[o] = pc[o] /\ loc'[o] = loc[o] /\ Node(o)' = Node(o) /\ Knows(o)
      /\ loc[o].tk \in Nat /\ loc[o].seen.idx \in Nat /\ Slot(loc[o].tk) \in Slots
  BY Zenon, <1>1, OtherThreads, Typed, Fields DEF LocalInv
<1>3. CASE pc[o] \notin KnowPoints
  BY Zenon, <1>2, <1>3, KnowsWhereNext
<1>4. CASE pc[o] \in KnowPoints
  <2>1. Node(o) \in live /\ Node(o) \in Nodes
    BY Zenon, <1>4, KnowsWhere DEF HInv, HazardInv, LocalsInv
  <2>2. PICK n \in live : n = Node(o) /\ n \in Nodes
    BY <2>1
  <2>3. /\ nhead'[n] >= nhead[n] /\ ntail'[n].idx >= ntail[n].idx
        /\ ntail[n].closed => ntail'[n].closed
    BY NodeMonotone
  <2>4. /\ nhead[n] \in Nat /\ nhead'[n] \in Nat /\ ntail[n].idx \in Nat
        /\ ntail'[n].idx \in Nat
        /\ array[n][Slot(loc[o].tk)] \in Cells /\ array'[n][Slot(loc[o].tk)] \in Cells
    BY Zenon, <1>1, <1>2, <2>2, Fields DEF TypeOK, NodesType
  <2>5. /\ CellOf(o) = array[n][Slot(loc[o].tk)]
        /\ CellOf(o)' = array'[n][Slot(loc[o].tk)]
    BY Zenon, <1>2, <2>2 DEF CellOf
  <2>6. CellOf(o)'.idx >= CellOf(o).idx /\ CellOf(o).idx \in Nat /\ CellOf(o)'.idx \in Nat
    BY <1>2, <2>4, <2>5, CellMonotone, Fields
  <2> QED  BY <1>2, <2>2, <2>3, <2>4, <2>6 DEF Knows
<1> QED  BY <1>3, <1>4

(* What p knows after a step of its own that leaves cells, heads and tails *)
(* alone and goes on with the same node and ticket.                        *)
LEMMA KeepsKnowing ==
  ASSUME HInv, LocalInv, NEW p \in Threads, enqueue(p) \/ dequeue(p),
         pc[p] \in TicketPoints, Node(p)' = Node(p), loc'[p].tk = loc[p].tk,
         pc'[p] \in TicketPoints, pc'[p] \notin ReadIdxPoints, pc'[p] # "fix_cas"
  PROVE  Knows(p)'
<1>1. TypeOK /\ TypeOK' /\ pc[p] \in KnowPoints
  BY StepType DEF HInv, KnowPoints
<1>2. Node(p) \in live /\ Node(p) \in Nodes
  BY Zenon, <1>1, KnowsWhere DEF HInv, HazardInv, LocalsInv
<1>3. PICK n \in live : n = Node(p) /\ n \in Nodes
  BY <1>2
<1>4. nhead'[n] >= nhead[n] /\ nhead[n] \in Nat /\ nhead'[n] \in Nat
  BY Zenon, <1>1, <1>3, NodeMonotone DEF TypeOK, NodesType
<1>5. loc[p].tk < nhead[n] /\ loc[p].tk \in Nat
  BY Zenon, <1>1, <1>3, Typed DEF LocalInv, Knows
<1> QED  BY <1>3, <1>4, <1>5
         DEF Knows, ReadIdxPoints, TicketPoints, CellPoints, StorePoints

(* What p knows after its own step: the quiet ones. *)
LEMMA QuietKnows ==
  ASSUME HInv, NEW p \in Threads,
         \/ \E v \in Items : EnqCall(p, v)
         \/ EnqLoad(p) \/ EnqProtect(p) \/ EnqCheck(p) \/ EnqNext(p) \/ EnqHelp(p)
         \/ EnqAlloc(p) \/ EnqSwing(p) \/ EnqCas(p) \/ EnqFull(p)
         \/ EnqClose(p) \/ EnqClear(p)
         \/ DeqCall(p) \/ DeqLoad(p) \/ DeqProtect(p) \/ DeqCheck(p)
         \/ DeqRecheck(p) \/ DeqAdvance(p) \/ retire(p) \/ DeqClear(p)
  PROVE  Knows(p)'
<1>0. TypeOK
  BY DEF HInv
<1>1. pc'[p] \in {"enq_load", "enq_protect", "enq_check", "enq_next", "enq_help",
        "enq_ticket", "enq_swing", "enq_clear", "enq_full", "enq_close", "idle",
        "deq_load", "deq_protect", "deq_check", "deq_ticket", "deq_advance", "retire"}
  BY ZenonT(60), <1>0, Edges
<1>2. pc'[p] \notin KnowPoints
  BY <1>1 DEF KnowPoints, ReadIdxPoints, TicketPoints, StorePoints, CellPoints
<1> QED  BY <1>2, KnowsWhereNext

(* The dequeuer's steps after it has left the cell. *)
LEMMA EmptyKnows ==
  ASSUME HInv, LocalInv, NEW p \in Threads, enqueue(p) \/ dequeue(p),
         \/ DeqCloseNode(p) \/ DeqCheckEmpty(p) \/ FixLoadTail(p) \/ FixLoadHead(p)
         \/ FixSame(p) \/ FixCas(p) \/ DeqNext(p)
  PROVE  Knows(p)'
<1>0. TypeOK /\ loc[p] \in Locals /\ p \in DOMAIN loc /\ p \in DOMAIN pc
  BY Zenon, Typed DEF HInv
<1>1. CASE pc'[p] \in {"deq_load", "deq_clear"}
  <2>1. pc'[p] \notin KnowPoints
    BY <1>1 DEF KnowPoints, ReadIdxPoints, TicketPoints, StorePoints, CellPoints
  <2> QED  BY <2>1, KnowsWhereNext
<1>2. pc[p] \in TicketPoints
  <2>1. pc[p] \in {"deq_bts", "deq_empty", "fix_tail", "fix_head", "fix_same",
                   "fix_cas", "deq_next"}
    BY Zenon DEF DeqCloseNode, DeqCheckEmpty, FixLoadTail, FixLoadHead, FixSame,
       FixCas, DeqNext
  <2> QED  BY <2>1 DEF TicketPoints
<1>3. pc'[p] \in {"deq_empty", "fix_tail", "deq_load", "fix_head", "fix_same",
                  "fix_cas", "deq_next", "deq_clear", "deq_recheck"}
  BY Zenon, <1>0, Edges
<1>4. CASE pc'[p] \notin {"deq_load", "deq_clear"}
  <2>1. Node(p)' = Node(p) /\ loc'[p].tk = loc[p].tk
    <3>1. CASE UNCHANGED loc
      BY <3>1 DEF Node
    <3>2. CASE DeqCheckEmpty(p)
      BY Zenon, <1>0, <1>4, <3>1, <3>2, Arrives DEF DeqCheckEmpty
    <3>3. CASE FixLoadTail(p) \/ FixLoadHead(p) \/ DeqNext(p)
      BY <1>0, <3>3 DEF FixLoadTail, FixLoadHead, DeqNext, Node, Locals
    <3> QED  BY Zenon, <3>1, <3>2, <3>3 DEF DeqCloseNode, FixSame, FixCas
  <2>2. CASE pc'[p] # "fix_cas"
    <3>1. pc'[p] \in TicketPoints /\ pc'[p] \notin ReadIdxPoints
      BY <1>3, <1>4 DEF TicketPoints, ReadIdxPoints
    <3> QED  BY <1>2, <2>1, <2>2, <3>1, KeepsKnowing
  <2>3. CASE pc'[p] = "fix_cas"
    <3>1. FixSame(p)
      BY Zenon, <1>0, <2>3, Edges
    <3>2. /\ UNCHANGED loc /\ nhead' = nhead /\ ~loc[p].tt.closed
          /\ loc[p].h > loc[p].tt.idx
      BY Zenon, <1>0, <2>3, <3>1, Arrives DEF FixSame, shared, nodes
    <3>3. loc[p].tk < nhead[Node(p)] /\ loc[p].h \in Nat /\ loc[p].tt.idx \in Nat
      BY Zenon, <1>0, <1>2, Typed, Fields DEF LocalInv, Knows
    <3> QED  BY <2>1, <2>3, <3>2, <3>3
             DEF Knows, ReadIdxPoints, StorePoints
  <2> QED  BY <2>2, <2>3
<1> QED  BY <1>1, <1>4

(* The enqueuer's steps on its cell. *)
LEMMA EnqueuerKnows ==
  ASSUME HInv, LocalInv, NEW p \in Threads,
         EnqTicket(p) \/ EnqReadIdx(p) \/ EnqReadVal(p) \/ EnqReadHead(p)
  PROVE  Knows(p)'
<1>1. pc[p] \in {"enq_ticket", "enq_idx", "enq_val", "enq_head"}
  BY Zenon DEF EnqTicket, EnqReadIdx, EnqReadVal, EnqReadHead
<1>2. pc[p] \in HoldPoints
  BY <1>1 DEF HoldPoints, EnqHoldPoints
<1>3. Node(p) \in Nodes /\ TypeOK /\ Knows(p)
  BY Zenon, <1>2 DEF HInv, LocalsInv, LocalInv
<1>0. /\ loc[p] \in Locals /\ p \in DOMAIN loc /\ p \in DOMAIN pc
      /\ loc[p].tk \in Nat /\ loc[p].seen \in Cells /\ loc[p].seen.idx \in Nat
      /\ ntail[Node(p)] \in Tails /\ ntail[Node(p)].idx \in Nat
      /\ CellOf(p) \in Cells /\ CellOf(p).idx \in Nat
      /\ ntail \in [Nodes -> Tails]
  BY Zenon, <1>3, Typed, NodeTyped, Fields DEF TypeOK, NodesType
<1> USE DEF ReadIdxPoints, StorePoints, TicketPoints, CellPoints
<1>4. CASE EnqTicket(p)
  <2>1. /\ loc'[p].tk = ntail[Node(p)].idx /\ Node(p)' = Node(p)
        /\ ntail' = [ntail EXCEPT ![Node(p)].idx = @ + 1]
    BY <1>0, <1>4 DEF EnqTicket, Node, Locals
  <2>2. /\ ntail'[Node(p)].idx = ntail[Node(p)].idx + 1
        /\ ntail'[Node(p)].closed = ntail[Node(p)].closed
    BY <1>0, <1>3, <2>1 DEF Tails
  <2>3. pc'[p] = IF ntail[Node(p)].closed THEN "enq_alloc" ELSE "enq_idx"
    BY Zenon, <1>3, <1>4, Arrives DEF EnqTicket
  <2> QED  BY <1>0, <2>1, <2>2, <2>3 DEF Knows
<1>5. CASE EnqReadIdx(p)
  <2>1. /\ loc'[p].tk = loc[p].tk /\ Node(p)' = Node(p) /\ pc[p] = "enq_idx"
        /\ loc'[p].seen = Cell(EMPTY, CellOf(p).idx, CellOf(p).unsafe)
    BY <1>0, <1>5 DEF EnqReadIdx, Node, Locals
  <2>2. UNCHANGED <<array, ntail>> /\ pc'[p] = "enq_val"
    BY Zenon, <1>3, <1>5, Edges DEF EnqReadIdx, shared, nodes
  <2>3. CellOf(p)' = CellOf(p)
    BY Zenon, <2>1, <2>2 DEF CellOf
  <2>4. loc'[p].seen.val = EMPTY /\ loc'[p].seen.idx = CellOf(p).idx
    <3>1. IsCell(loc'[p].seen, EMPTY, CellOf(p).idx, CellOf(p).unsafe)
      BY Zenon, <2>1 DEF IsCell
    <3> QED  BY Zenon, <3>1, CellFields
  <2>5. /\ loc'[p].seen.idx <= CellOf(p)'.idx
        /\ loc'[p].tk < ntail'[Node(p)'].idx
    <3>1. loc[p].tk < ntail[Node(p)].idx
      BY Zenon, <1>3, <2>1 DEF Knows
    <3> QED  BY <1>0, <2>1, <2>2, <2>3, <2>4, <3>1
  <2>6. /\ pc'[p] \notin {"enq_head", "enq_cas", "deq_tail", "deq_skip"}
        /\ pc'[p] \notin {"deq_take", "deq_mark"} /\ pc'[p] # "deq_take"
        /\ pc'[p] # "deq_mark" /\ pc'[p] \notin TicketPoints
        /\ pc'[p] # "enq_alloc" /\ pc'[p] # "fix_cas"
    BY <2>2
  <2> QED  BY Zenon, <2>4, <2>5, <2>6 DEF Knows
<1>6. CASE EnqReadVal(p) \/ EnqReadHead(p)
  <2>1. UNCHANGED <<array, ntail, loc>>
    BY Zenon, <1>6 DEF EnqReadVal, EnqReadHead, shared, nodes
  <2>2. CellOf(p)' = CellOf(p) /\ Node(p)' = Node(p)
    BY Zenon, <2>1 DEF CellOf, Node
  <2>3. CASE EnqReadHead(p)
    <3>1. pc[p] = "enq_head" /\ pc'[p] \in {"enq_cas", "enq_full"}
      BY Zenon, <1>3, <2>3, Edges DEF EnqReadHead
    <3> QED  BY <1>0, <1>3, <2>1, <2>2, <3>1 DEF Knows
  <2>4. CASE EnqReadVal(p)
    <3>1. /\ pc[p] = "enq_val"
          /\ \/ pc'[p] = "enq_full"
             \/ pc'[p] \in {"enq_head", "enq_cas"} /\ ~(loc[p].seen.idx > loc[p].tk)
      BY Zenon, <1>3, <2>4, Arrives DEF EnqReadVal
    <3>2. /\ loc[p].seen.idx <= CellOf(p).idx /\ loc[p].seen.val = EMPTY
          /\ loc[p].tk < ntail[Node(p)].idx
      BY Zenon, <1>3, <3>1 DEF Knows
    <3>3. /\ loc'[p].seen.idx <= CellOf(p)'.idx /\ loc'[p].seen.val = EMPTY
          /\ loc'[p].tk < ntail'[Node(p)'].idx
      BY Zenon, <2>1, <2>2, <3>2
    <3>4. /\ pc'[p] \notin {"deq_take", "deq_mark"} /\ pc'[p] # "deq_take"
          /\ pc'[p] # "deq_mark" /\ pc'[p] \notin TicketPoints
          /\ pc'[p] # "enq_alloc" /\ pc'[p] # "fix_cas"
      BY <3>1
    <3>5. pc'[p] \in {"enq_head", "enq_cas", "deq_tail", "deq_skip"} =>
            loc'[p].seen.idx <= loc'[p].tk
      <4>1. CASE pc'[p] = "enq_full"
        BY <4>1
      <4>2. CASE ~(loc[p].seen.idx > loc[p].tk)
        BY <1>0, <2>1, <4>2
      <4> QED  BY Zenon, <3>1, <4>1, <4>2
    <3> QED  BY Zenon, <3>3, <3>4, <3>5 DEF Knows
  <2> QED  BY <1>6, <2>3, <2>4
<1> QED  BY <1>4, <1>5, <1>6

(* Polling an empty cell keeps what was read from it. *)
LEMMA PollKeeps ==
  ASSUME TypeOK, NEW p \in Threads, NEW seen, NEW tt, Poll(p, seen, tt)
  PROVE  /\ loc'[p].seen = seen /\ loc'[p].tk = loc[p].tk /\ Node(p)' = Node(p)
         /\ pc'[p] = "deq_skip" \/ pc'[p] = "deq_idx"
<1>0. loc[p] \in Locals /\ p \in DOMAIN loc
  BY Zenon, Typed
<1>1. PICK r : loc' = [loc EXCEPT ![p].seen = seen, ![p].tt = tt, ![p].r = r]
  BY Zenon DEF Poll
<1>2. loc'[p].seen = seen /\ loc'[p].tk = loc[p].tk /\ Node(p)' = Node(p)
  BY Zenon, <1>0, <1>1 DEF Locals, Node
<1> QED  BY <1>2, Arrives

(* Leaving the cell keeps the node and the ticket. *)
LEMMA LeaveKeeps ==
  ASSUME TypeOK, NEW p \in Threads, NEW point, LeaveCell(p, point)
  PROVE  loc'[p].tk = loc[p].tk /\ Node(p)' = Node(p) /\ pc'[p] = point
<1>0. p \in DOMAIN loc
  BY Typed
<1>1. loc'[p] = [NoLocals EXCEPT !.node = Node(p), !.tk = loc[p].tk]
  BY Zenon, <1>0 DEF LeaveCell
<1>2. loc'[p].tk = loc[p].tk /\ Node(p)' = Node(p)
  BY <1>1 DEF NoLocals, Node
<1> QED  BY <1>2, Arrives

(* What the dequeuer knows after reading the value of its cell. *)
LEMMA ReadValKnows ==
  ASSUME HInv, LocalInv, NEW p \in Threads, DeqReadVal(p), dequeue(p)
  PROVE  Knows(p)'
<1>1. pc[p] = "deq_val" /\ UNCHANGED <<array, nhead>>
  BY Zenon DEF DeqReadVal, shared, nodes
<1>2. pc[p] \in HoldPoints /\ pc[p] \in TicketPoints
  BY <1>1 DEF HoldPoints, DeqHoldPoints, CellPoints, TicketPoints
<1>3. Node(p) \in Nodes /\ TypeOK /\ Knows(p)
  BY Zenon, <1>2 DEF HInv, LocalsInv, LocalInv
<1>0. /\ loc[p] \in Locals /\ p \in DOMAIN loc /\ p \in DOMAIN pc
      /\ loc[p].tk \in Nat /\ loc[p].seen \in Cells /\ loc[p].seen.idx \in Nat
      /\ CellOf(p) \in Cells /\ CellOf(p).idx \in Nat /\ CellOf(p).val \in Values
  BY Zenon, <1>3, Typed, NodeTyped, Fields DEF TypeOK, NodesType
<1>4. PICK seen \in Cells : seen = [loc[p].seen EXCEPT !.val = CellOf(p).val]
  BY Zenon, <1>0 DEF Cells
<1>5. seen.idx = loc[p].seen.idx /\ seen.idx <= CellOf(p).idx /\ seen.idx \in Nat
      /\ loc[p].tk < nhead[Node(p)]
  BY <1>0, <1>1, <1>3, <1>4 DEF Cells, Knows, ReadIdxPoints, TicketPoints, CellPoints
<1>6. CASE LeaveCell(p, "deq_empty")
  <2>1. loc'[p].tk = loc[p].tk /\ Node(p)' = Node(p) /\ pc'[p] = "deq_empty"
    BY Zenon, <1>3, <1>6, LeaveKeeps
  <2>2. pc'[p] \in TicketPoints /\ pc'[p] \notin ReadIdxPoints /\ pc'[p] # "fix_cas"
    BY <2>1 DEF TicketPoints, ReadIdxPoints
  <2> QED  BY <1>2, <2>1, <2>2, KeepsKnowing
<1>7. ASSUME loc'[p].seen = seen, loc'[p].tk = loc[p].tk, Node(p)' = Node(p),
             seen.idx <= loc[p].tk,
             \/ seen.val # EMPTY /\ seen.idx = loc[p].tk /\ pc'[p] = "deq_take"
             \/ seen.val # EMPTY /\ seen.idx # loc[p].tk /\ pc'[p] = "deq_mark"
             \/ seen.val = EMPTY /\ pc'[p] \in {"deq_tail", "deq_skip", "deq_idx"}
      PROVE  Knows(p)'
  <2>1. CellOf(p)' = CellOf(p)
    BY Zenon, <1>1, <1>7 DEF CellOf
  <2> QED  BY <1>0, <1>1, <1>5, <1>7, <2>1
           DEF Knows, ReadIdxPoints, TicketPoints, CellPoints, StorePoints
<1>8. ASSUME loc' = [loc EXCEPT ![p].seen = seen]
      PROVE  loc'[p].seen = seen /\ loc'[p].tk = loc[p].tk /\ Node(p)' = Node(p)
  BY <1>0, <1>8 DEF Locals, Node
<1>9. CASE /\ seen.idx <= loc[p].tk /\ seen.val # EMPTY
           /\ Goto(p, IF seen.idx = loc[p].tk THEN "deq_take" ELSE "deq_mark")
           /\ loc' = [loc EXCEPT ![p].seen = seen]
  <2>1. pc'[p] = IF seen.idx = loc[p].tk THEN "deq_take" ELSE "deq_mark"
    BY Zenon, <1>3, <1>9, Arrives
  <2> QED  BY Zenon, <1>7, <1>8, <1>9, <2>1
<1>a. CASE /\ seen.idx <= loc[p].tk /\ seen.val = EMPTY
           /\ Goto(p, "deq_tail") /\ loc' = [loc EXCEPT ![p].seen = seen]
  <2>1. pc'[p] = "deq_tail"
    BY Zenon, <1>3, <1>a, Arrives
  <2> QED  BY Zenon, <1>7, <1>8, <1>a, <2>1
<1>b. CASE /\ seen.idx <= loc[p].tk /\ seen.val = EMPTY
           /\ Poll(p, seen, loc[p].tt)
  BY Zenon, <1>3, <1>7, <1>b, PollKeeps
<1> QED  BY Zenon, <1>4, <1>6, <1>9, <1>a, <1>b DEF DeqReadVal

(* The dequeuer's steps on its cell. *)
LEMMA DequeuerKnows ==
  ASSUME HInv, LocalInv, NEW p \in Threads, dequeue(p),
         \/ DeqTicket(p) \/ DeqReadIdx(p) \/ DeqTake(p) \/ DeqMarkUnsafe(p)
         \/ DeqLoadTail(p) \/ DeqSkip(p)
  PROVE  Knows(p)'
<1>1. pc[p] \in {"deq_ticket", "deq_idx", "deq_take", "deq_mark", "deq_tail", "deq_skip"}
  BY Zenon DEF DeqTicket, DeqReadIdx, DeqTake, DeqMarkUnsafe, DeqLoadTail, DeqSkip
<1>2. pc[p] \in HoldPoints /\ (pc[p] # "deq_ticket" => pc[p] \in TicketPoints)
  BY <1>1 DEF HoldPoints, DeqHoldPoints, CellPoints, TicketPoints
<1>3. Node(p) \in Nodes /\ TypeOK /\ Knows(p)
  BY Zenon, <1>2 DEF HInv, LocalsInv, LocalInv
<1>0. /\ loc[p] \in Locals /\ p \in DOMAIN loc /\ p \in DOMAIN pc
      /\ loc[p].tk \in Nat /\ loc[p].seen \in Cells /\ loc[p].seen.idx \in Nat
      /\ CellOf(p) \in Cells /\ CellOf(p).idx \in Nat /\ nhead[Node(p)] \in Nat
      /\ nhead \in [Nodes -> Nat]
  BY Zenon, <1>3, Typed, NodeTyped, Fields DEF TypeOK, NodesType
<1>4. CASE DeqTicket(p)
  <2>1. /\ loc'[p].tk = nhead[Node(p)] /\ Node(p)' = Node(p)
        /\ nhead' = [nhead EXCEPT ![Node(p)] = @ + 1]
    BY <1>0, <1>4 DEF DeqTicket, Node, Locals
  <2>2. nhead'[Node(p)] = nhead[Node(p)] + 1 /\ pc'[p] = "deq_idx"
    BY <1>0, <1>3, <1>4, <2>1, Edges
  <2>3. loc'[p].tk < nhead'[Node(p)']
    <3>1. nhead[Node(p)] < nhead[Node(p)] + 1
      BY Zenon, <1>0, NatOrder
    <3>2. nhead'[Node(p)'] = nhead[Node(p)] + 1 /\ loc'[p].tk = nhead[Node(p)]
      BY Zenon, <2>1, <2>2
    <3> QED  BY <3>1, <3>2
  <2>4. /\ pc'[p] \notin ReadIdxPoints /\ pc'[p] \notin StorePoints
        /\ pc'[p] \notin {"enq_head", "enq_cas", "deq_tail", "deq_skip"}
        /\ pc'[p] \notin {"enq_val", "enq_head", "enq_cas", "deq_tail", "deq_skip"}
        /\ pc'[p] \notin {"deq_take", "deq_mark"} /\ pc'[p] # "deq_take"
        /\ pc'[p] # "deq_mark" /\ pc'[p] # "enq_alloc" /\ pc'[p] # "fix_cas"
    BY <2>2 DEF ReadIdxPoints, StorePoints
  <2> QED  BY Zenon, <2>3, <2>4 DEF Knows
<1>5. CASE DeqReadIdx(p)
  <2>1. /\ loc'[p].tk = loc[p].tk /\ Node(p)' = Node(p) /\ pc[p] = "deq_idx"
        /\ loc'[p].seen = Cell(EMPTY, CellOf(p).idx, CellOf(p).unsafe)
    BY <1>0, <1>5 DEF DeqReadIdx, Node, Locals
  <2>2. UNCHANGED <<array, nhead>> /\ pc'[p] = "deq_val"
    BY Zenon, <1>3, <1>5, Edges DEF DeqReadIdx, shared, nodes
  <2>3. CellOf(p)' = CellOf(p)
    BY Zenon, <2>1, <2>2 DEF CellOf
  <2>4. loc'[p].seen.idx = CellOf(p).idx
    <3>1. IsCell(loc'[p].seen, EMPTY, CellOf(p).idx, CellOf(p).unsafe)
      BY Zenon, <2>1 DEF IsCell
    <3> QED  BY Zenon, <3>1, CellFields
  <2>5. loc'[p].seen.idx <= CellOf(p)'.idx
    BY <1>0, <2>3, <2>4
  <2>6. loc'[p].tk < nhead'[Node(p)']
    BY Zenon, <1>2, <1>3, <2>1, <2>2 DEF Knows
  <2>7. /\ pc'[p] \notin StorePoints
        /\ pc'[p] \notin {"enq_head", "enq_cas", "deq_tail", "deq_skip"}
        /\ pc'[p] \notin {"enq_val", "enq_head", "enq_cas", "deq_tail", "deq_skip"}
        /\ pc'[p] \notin {"deq_take", "deq_mark"} /\ pc'[p] # "deq_take"
        /\ pc'[p] # "deq_mark" /\ pc'[p] # "enq_alloc" /\ pc'[p] # "fix_cas"
    BY <2>2 DEF StorePoints
  <2> QED  BY Zenon, <2>5, <2>6, <2>7 DEF Knows
<1>6. CASE DeqLoadTail(p)
  <2>1. Poll(p, loc[p].seen, ntail[Node(p)]) /\ pc[p] = "deq_tail"
    BY Zenon, <1>6 DEF DeqLoadTail
  <2>2. /\ loc'[p].tk = loc[p].tk /\ Node(p)' = Node(p) /\ loc'[p].seen = loc[p].seen
        /\ pc'[p] = "deq_skip" \/ pc'[p] = "deq_idx"
    BY Zenon, <1>3, <2>1, PollKeeps
  <2>3. UNCHANGED <<array, nhead>>
    BY Zenon, <1>6 DEF DeqLoadTail, shared, nodes
  <2>4. CellOf(p)' = CellOf(p)
    BY Zenon, <2>2, <2>3 DEF CellOf
  <2> QED  BY <1>0, <1>3, <2>1, <2>2, <2>3, <2>4
           DEF Knows, ReadIdxPoints, TicketPoints, CellPoints, StorePoints
<1>7. CASE DeqTake(p) \/ DeqMarkUnsafe(p) \/ DeqSkip(p)
  <2>1. CASE pc'[p] = "deq_clear"
    <3>1. pc'[p] \notin KnowPoints
      BY <2>1 DEF KnowPoints, ReadIdxPoints, TicketPoints, StorePoints, CellPoints
    <3> QED  BY <3>1, KnowsWhereNext
  <2>2. CASE pc'[p] # "deq_clear"
    <3>1. loc'[p].tk = loc[p].tk /\ Node(p)' = Node(p)
      <4>1. CASE UNCHANGED loc
        BY <4>1 DEF Node
      <4>2. CASE \E point : LeaveCell(p, point)
        BY <1>3, <4>2, LeaveKeeps
      <4> QED  BY Zenon, <1>7, <4>1, <4>2 DEF DeqTake, DeqMarkUnsafe, DeqSkip
    <3>2. pc'[p] \in {"deq_idx", "deq_empty", "deq_bts"} /\ pc[p] \in TicketPoints
      <4>1. pc[p] # "deq_ticket"
        BY Zenon, <1>7 DEF DeqTake, DeqMarkUnsafe, DeqSkip
      <4> QED  BY Zenon, <1>2, <1>3, <1>7, <2>2, <4>1, Edges
    <3>3. pc'[p] \in TicketPoints /\ pc'[p] \notin ReadIdxPoints /\ pc'[p] # "fix_cas"
      BY <3>2 DEF TicketPoints, CellPoints, ReadIdxPoints
    <3> QED  BY <3>1, <3>2, <3>3, KeepsKnowing
  <2> QED  BY <2>1, <2>2
<1> QED  BY <1>4, <1>5, <1>6, <1>7

(* Every step preserves LocalInv. *)
LEMMA StepLocalInv ==
  ASSUME HInv, LocalInv, NEW p \in Threads, enqueue(p) \/ dequeue(p)
  PROVE  LocalInv'
<1>1. Knows(p)'
  <2>1. CASE enqueue(p)
    BY Zenon, <2>1, QuietKnows, EnqueuerKnows DEF enqueue
  <2>2. CASE dequeue(p)
    BY Zenon, <2>2, QuietKnows, EmptyKnows, ReadValKnows, DequeuerKnows
       DEF dequeue, fixState
  <2> QED  BY <2>1, <2>2
<1> QED  BY Zenon, <1>1, OthersKnow DEF LocalInv
-----------------------------------------------------------------------------
(* A live node was live before, or it has just been linked. *)
LEMMA LiveStep ==
  ASSUME HInv, NEW p \in Threads, enqueue(p) \/ dequeue(p), NEW n \in live'
  PROVE  \/ n \in live
         \/ /\ EnqAlloc(p) /\ n \in Nodes /\ nhead'[n] = 0 /\ ntail'[n] = OpenAt(1)
            /\ nnext'[n] = nullptr
            /\ array'[n] = SoloCells(loc[p].item)
<1>0. TypeOK
  BY DEF HInv
<1>1. CASE EnqAlloc(p)
  <2>1. CASE UNCHANGED live
    BY <2>1
  <2>2. CASE ~UNCHANGED live
    <3>1. PICK m \in Nodes :
             /\ live' = live \cup {m}
             /\ nhead'[m] = 0 /\ ntail'[m] = OpenAt(1) /\ nnext'[m] = nullptr
             /\ array'[m] = SoloCells(loc[p].item)
      BY Zenon, <1>1, <2>2, AllocNodes DEF shared, nodes
    <3> QED  BY Zenon, <1>1, <3>1
  <2> QED  BY <2>1, <2>2
<1>2. CASE ~EnqAlloc(p)
  BY Zenon, <1>0, <1>2, ListEffect DEF retire
<1> QED  BY <1>1, <1>2

\* p is the dequeuer of ticket h of node n, at work on its cell.
Serves(p, n, h) == pc[p] \in CellPoints /\ Node(p) = n /\ loc[p].tk = h

(* A ticket of a live node is passed only when its dequeuer leaves the cell. *)
LEMMA PassedStep ==
  ASSUME HInv, NEW p \in Threads, enqueue(p) \/ dequeue(p),
         NEW n \in live, NEW h \in Nat, Passed(n, h)'
  PROVE  Passed(n, h) \/ (Serves(p, n, h) /\ ~Serves(p, n, h)')
<1>0. /\ h < nhead'[n] /\ \A o \in Threads : ~Serves(o, n, h)'
      /\ TypeOK /\ n \in Nodes /\ nhead[n] \in Nat
  BY DEF Passed, Served, Serves, HInv, TypeOK, NodesType
<1>1. CASE h < nhead[n]
  <2>1. CASE ~Served(n, h)
    BY <1>1, <2>1 DEF Passed
  <2>2. CASE Served(n, h)
    <3>1. PICK o \in Threads : Serves(o, n, h)
      BY <2>2 DEF Served, Serves
    <3>2. o = p
      BY Zenon, <3>1, <1>0, OtherThreads DEF Serves
    <3> QED  BY <3>1, <3>2, <1>0
  <2> QED  BY <2>1, <2>2
<1>2. CASE ~(h < nhead[n])
  <2>1. nhead'[n] # nhead[n]
    BY <1>0, <1>2
  <2>2. ~EnqAlloc(p)
    BY Zenon, <1>0, <2>1, AllocNodes DEF shared, nodes
  <2>3. nhead' # nhead
    BY <2>1
  <2>4. DeqTicket(p)
    BY ZenonT(60), <2>2, <2>3 DEF enqueue, dequeue, fixState, shared, ends, nodes,
     hazard, CAS2, CAS2Fails, EnqCall, EnqLoad, Load, EnqProtect, DeqProtect, Protect,
     EnqCheck, Check, EnqNext, AdvanceTail, EnqHelp, EnqTicket, EnqSwing, EnqReadIdx,
     EnqReadVal, EnqReadHead, EnqCas, EnqFull, EnqClose, EnqClear, DeqClear, Clear,
     DeqCall, DeqLoad, DeqCheck, DeqReadIdx, DeqReadVal, DeqTake, DeqMarkUnsafe,
     DeqLoadTail, DeqSkip, DeqCloseNode, DeqCheckEmpty, FixLoadTail, FixLoadHead,
     FixSame, FixCas, DeqNext, DeqRecheck, DeqAdvance, retire
  <2>5. pc[p] = "deq_ticket" /\ nhead' = [nhead EXCEPT ![Node(p)] = @ + 1]
        /\ loc' = [loc EXCEPT ![p].tk = nhead[Node(p)]]
    BY <2>4 DEF DeqTicket
  <2>6. Node(p) = n /\ h = nhead[n]
    <3>1. nhead \in [Nodes -> Nat]
      BY <1>0 DEF TypeOK, NodesType
    <3>2. Node(p) = n
      BY Zenon, <1>0, <2>1, <2>5, <3>1
    <3>3. nhead'[n] = nhead[n] + 1
      BY <1>0, <2>5, <3>1, <3>2
    <3> QED  BY <1>0, <1>2, <3>2, <3>3
  <2>7. pc'[p] = "deq_idx" /\ loc'[p].tk = nhead[Node(p)] /\ Node(p)' = Node(p)
    BY <1>0, <2>4, <2>5, Edges, Typed DEF Node, Locals
  <2>8. Serves(p, n, h)'
    BY <2>6, <2>7 DEF Serves, CellPoints
  <2> QED  BY <2>8, <1>0
<1> QED  BY <1>1, <1>2

(* The state a dequeuer leaves its cell in: beyond its ticket, or marked    *)
(* unsafe with the item of an earlier one.                                  *)
LEMMA LeaveEffect ==
  ASSUME HInv, LocalInv, NEW p \in Threads, enqueue(p) \/ dequeue(p),
         NEW n \in live, NEW h \in Nat, Serves(p, n, h), ~Serves(p, n, h)'
  PROVE  LET c == array'[n][Slot(h)]
         IN  c.idx > h \/ (c.unsafe /\ c.idx < h /\ c.val # EMPTY)
<1>1. /\ TypeOK /\ n \in Nodes /\ Knows(p) /\ Slot(h) \in Slots
      /\ pc[p] \in CellPoints /\ Node(p) = n /\ loc[p].tk = h
  BY Zenon, SlotType DEF HInv, TypeOK, NodesType, LocalInv, Serves
<1>0. /\ p \in DOMAIN pc /\ p \in DOMAIN loc /\ loc[p] \in Locals
      /\ loc[p].seen \in Cells /\ loc[p].seen.idx \in Nat
      /\ array[n][Slot(h)] = CellOf(p) /\ CellOf(p).idx \in Nat
  BY Zenon, <1>1, Typed, NodeTyped, Fields DEF CellOf
<1>2. ASSUME pc'[p] \in CellPoints, Node(p)' = Node(p), loc'[p].tk = loc[p].tk
      PROVE  FALSE
  BY <1>1, <1>2 DEF Serves
<1>3. CASE DeqReadIdx(p)
  <2>1. Node(p)' = Node(p) /\ loc'[p].tk = loc[p].tk
    BY <1>0, <1>3 DEF DeqReadIdx, Node, Locals
  <2>2. pc'[p] \in CellPoints
    BY <1>1, <1>3, Edges DEF CellPoints
  <2> QED  BY <1>2, <2>1, <2>2
<1>4. CASE DeqLoadTail(p)
  <2>1. Poll(p, loc[p].seen, ntail[Node(p)])
    BY <1>4 DEF DeqLoadTail
  <2>2. /\ Node(p)' = Node(p) /\ loc'[p].tk = loc[p].tk
        /\ pc'[p] = "deq_skip" \/ pc'[p] = "deq_idx"
    BY Zenon, <1>1, <2>1, PollKeeps
  <2>3. pc'[p] \in CellPoints
    BY <2>2 DEF CellPoints
  <2> QED  BY <1>2, <2>2, <2>3
<1>5. CASE DeqReadVal(p)
  <2>1. UNCHANGED array /\ pc[p] = "deq_val"
    BY Zenon, <1>5 DEF DeqReadVal, shared, nodes
  <2>2. PICK seen : seen = [loc[p].seen EXCEPT !.val = CellOf(p).val]
    OBVIOUS
  <2>3. seen.idx = loc[p].seen.idx
    BY <1>0, <2>2 DEF Cells
  <2>4. CASE loc[p].seen.idx > loc[p].tk
    <3>1. loc[p].seen.idx <= CellOf(p).idx
      BY <1>1, <2>1 DEF Knows, ReadIdxPoints
    <3>2. array'[n][Slot(h)] = CellOf(p) /\ loc[p].seen.idx > h
      BY Zenon, <1>0, <1>1, <2>1, <2>4
    <3>3. CellOf(p).idx > h
      BY Zenon, <1>0, <3>1, <3>2, CellArithmetic
    <3> QED  BY Zenon, <3>2, <3>3
  <2>5. CASE ~(loc[p].seen.idx > loc[p].tk)
    <3>1. \/ /\ loc' = [loc EXCEPT ![p].seen = seen]
             /\ \/ Goto(p, "deq_take") \/ Goto(p, "deq_mark") \/ Goto(p, "deq_tail")
          \/ Poll(p, seen, loc[p].tt)
      BY Zenon, <1>5, <2>2, <2>3, <2>5 DEF DeqReadVal
    <3>2. /\ Node(p)' = Node(p) /\ loc'[p].tk = loc[p].tk
          /\ pc'[p] \in {"deq_take", "deq_mark", "deq_tail", "deq_skip", "deq_idx"}
      <4>1. CASE Poll(p, seen, loc[p].tt)
        BY Zenon, <1>1, <4>1, PollKeeps
      <4>2. CASE /\ loc' = [loc EXCEPT ![p].seen = seen]
                 /\ \/ Goto(p, "deq_take") \/ Goto(p, "deq_mark")
                    \/ Goto(p, "deq_tail")
        <5>1. Node(p)' = Node(p) /\ loc'[p].tk = loc[p].tk
          BY <1>0, <4>2 DEF Node, Locals
        <5>2. pc'[p] \in {"deq_take", "deq_mark", "deq_tail"}
          BY Zenon, <1>1, <4>2, Arrives
        <5> QED  BY <5>1, <5>2
      <4> QED  BY <3>1, <4>1, <4>2
    <3>3. pc'[p] \in CellPoints
      BY <3>2 DEF CellPoints
    <3> QED  BY <1>2, <3>2, <3>3
  <2> QED  BY <2>4, <2>5
<1>6. CASE DeqTake(p) \/ DeqSkip(p) \/ DeqMarkUnsafe(p)
  <2>1. CAS2Succeeds(p)
    <3> SUFFICES ASSUME ~CAS2Succeeds(p) PROVE FALSE
      OBVIOUS
    <3>1. Goto(p, "deq_idx") /\ UNCHANGED loc
      BY Zenon, <1>6 DEF DeqTake, DeqSkip, DeqMarkUnsafe, CAS2
    <3>2. pc'[p] \in CellPoints /\ Node(p)' = Node(p) /\ loc'[p].tk = loc[p].tk
      BY <1>1, <3>1, Arrives DEF CellPoints
    <3> QED  BY <1>2, <3>2
  <2>2. CASE DeqTake(p) \/ DeqSkip(p)
    <3>1. PICK c : /\ Stores(p, c)
                   /\ c = Cell(EMPTY, loc[p].tk + RING_SIZE, loc[p].seen.unsafe)
      BY Zenon, <2>1, <2>2 DEF DeqTake, DeqSkip, CAS2, CAS2Fails, Stores
    <3>2. array'[n][Slot(h)] = c
      <4>1. At(p, n, Slot(h))
        BY Zenon, <1>1 DEF At
      <4>2. TypeOK /\ n \in Nodes /\ Slot(h) \in Slots /\ Stores(p, c)
        BY Zenon, <1>1, <3>1
      <4> QED  BY Zenon, <4>1, <4>2, StoreHere
    <3>3. c.idx = h + RING_SIZE
      <4>1. IsCell(c, EMPTY, h + RING_SIZE, loc[p].seen.unsafe)
        BY Zenon, <1>1, <3>1 DEF IsCell
      <4> QED  BY Zenon, <4>1, CellFields
    <3> QED  BY <3>2, <3>3, Constants
  <2>3. CASE DeqMarkUnsafe(p)
    <3>1. PICK c : /\ Stores(p, c)
                   /\ c = Cell(loc[p].seen.val, loc[p].seen.idx, TRUE)
      BY Zenon, <2>1, <2>3 DEF DeqMarkUnsafe, CAS2, CAS2Fails, Stores
    <3>2. array'[n][Slot(h)] = c
      <4>1. At(p, n, Slot(h))
        BY Zenon, <1>1 DEF At
      <4>2. TypeOK /\ n \in Nodes /\ Slot(h) \in Slots /\ Stores(p, c)
        BY Zenon, <1>1, <3>1
      <4> QED  BY Zenon, <4>1, <4>2, StoreHere
    <3>3. c.idx = loc[p].seen.idx /\ c.val = loc[p].seen.val /\ c.unsafe
      <4>1. IsCell(c, loc[p].seen.val, loc[p].seen.idx, TRUE)
        BY Zenon, <3>1 DEF IsCell
      <4> QED  BY Zenon, <4>1, CellFields
    <3>4. loc[p].seen.idx < h /\ loc[p].seen.val # EMPTY
      BY Zenon, <1>1, <2>3 DEF DeqMarkUnsafe, Knows
    <3> QED  BY <3>2, <3>3, <3>4
  <2> QED  BY <1>6, <2>2, <2>3
<1>7. DeqReadIdx(p) \/ DeqReadVal(p) \/ DeqTake(p) \/ DeqMarkUnsafe(p)
      \/ DeqLoadTail(p) \/ DeqSkip(p)
  BY ZenonT(60), <1>1 DEF enqueue, dequeue, fixState, CellPoints, EnqCall, EnqLoad, Load,
     EnqProtect, DeqProtect, Protect, EnqCheck, Check, EnqNext, EnqHelp, EnqTicket,
     EnqAlloc, EnqSwing, EnqReadIdx, EnqReadVal, EnqReadHead, EnqCas, EnqFull,
     EnqClose, EnqClear, DeqClear, DeqCall, DeqLoad, DeqCheck, DeqTicket, DeqCloseNode,
     DeqCheckEmpty, FixLoadTail, FixLoadHead, FixSame, FixCas, DeqNext, DeqRecheck,
     DeqAdvance, retire
<1> QED  BY <1>3, <1>4, <1>5, <1>6, <1>7

(* An enqueuer stores its item only while the dequeuers of its ticket and   *)
(* of all later ones for that cell are still to come or at work.            *)
LEMMA StoreIsAhead ==
  ASSUME HInv, LocalInv, PassedInv, StoreInv, NEW p \in Threads,
         pc[p] = "enq_cas", CAS2Succeeds(p), NEW h \in Nat,
         Slot(h) = Slot(loc[p].tk), Passed(Node(p), h)
  PROVE  h < loc[p].tk
<1>1. /\ TypeOK /\ Node(p) \in live /\ Knows(p)
  BY DEF HInv, HazardInv, LocalInv, HoldPoints, EnqHoldPoints
<1>0. /\ loc[p].tk \in Nat /\ loc[p].seen.idx \in Nat
      /\ array[Node(p)][Slot(h)] = loc[p].seen
      /\ loc[p].seen.idx <= loc[p].tk
  BY Zenon, <1>1, Typed, Fields DEF CAS2Succeeds, CellOf, Knows
<1>2. CASE loc[p].seen.unsafe
  BY <1>0, <1>2 DEF StoreInv
<1>3. CASE ~loc[p].seen.unsafe
  BY <1>0, <1>1, <1>3 DEF PassedInv
<1> QED  BY <1>2, <1>3

(* Every step preserves PassedInv. *)
LEMMA StepPassedInv ==
  ASSUME HInv, LocalInv, PassedInv, StoreInv, NEW p \in Threads,
         enqueue(p) \/ dequeue(p)
  PROVE  PassedInv'
<1> SUFFICES ASSUME NEW n \in live', NEW h \in Nat, Passed(n, h)'
             PROVE  array'[n][Slot(h)].idx > h \/ array'[n][Slot(h)].unsafe
  BY DEF PassedInv
<1>0. n \in live
  <2>1. nhead'[n] # 0
    BY DEF Passed
  <2> QED  BY Zenon, <2>1, LiveStep
<1>1. CASE Serves(p, n, h) /\ ~Serves(p, n, h)'
  BY <1>0, <1>1, LeaveEffect
<1>2. CASE Passed(n, h)
  <2>0. /\ Slot(h) \in Slots /\ TypeOK /\ n \in Nodes /\ loc[p].tk \in Nat
        /\ loc[p].seen.idx \in Nat /\ Knows(p)
    BY Zenon, <1>0, SlotType, Typed, Fields DEF HInv, TypeOK, NodesType, LocalInv
  <2>1. array[n][Slot(h)].idx > h \/ array[n][Slot(h)].unsafe
    BY <1>0, <1>2 DEF PassedInv
  <2>2. CASE array'[n][Slot(h)] = array[n][Slot(h)]
    BY <2>1, <2>2
  <2>3. ASSUME NEW c \in Cells, Stores(p, c), n = Node(p),
               Slot(h) = Slot(loc[p].tk),
               \/ EnqCas(p) /\ c = Cell(loc[p].item, loc[p].tk, FALSE)
               \/ /\ DeqTake(p) \/ DeqSkip(p)
                  /\ c = Cell(EMPTY, loc[p].tk + RING_SIZE, loc[p].seen.unsafe)
               \/ /\ DeqMarkUnsafe(p)
                  /\ c = Cell(loc[p].seen.val, loc[p].seen.idx, TRUE)
        PROVE  array'[n][Slot(h)].idx > h \/ array'[n][Slot(h)].unsafe
    <3>1. array'[n][Slot(h)] = c /\ array[n][Slot(h)] = loc[p].seen
      <4>1. Stores(p, c) /\ At(p, n, Slot(h))
        BY Zenon, <2>3 DEF At
      <4> QED  BY Zenon, <2>0, <4>1, StoreHere
    <3>2. CASE EnqCas(p) /\ c = Cell(loc[p].item, loc[p].tk, FALSE)
      <4>1. h < loc[p].tk
        BY <1>2, <2>3, <3>2, StoreIsAhead DEF EnqCas, Stores
      <4>2. c.idx = loc[p].tk
        BY <3>2 DEF Cell
      <4> QED  BY <2>0, <3>1, <4>1, <4>2
    <3>3. CASE /\ DeqTake(p) \/ DeqSkip(p)
               /\ c = Cell(EMPTY, loc[p].tk + RING_SIZE, loc[p].seen.unsafe)
      <4>1. loc[p].seen.idx <= loc[p].tk
        <5>1. pc[p] = "deq_take" \/ pc[p] = "deq_skip"
          BY Zenon, <3>3 DEF DeqTake, DeqSkip
        <5>2. loc[p].seen.idx = loc[p].tk \/ loc[p].seen.idx <= loc[p].tk
          BY Zenon, <2>0, <5>1 DEF Knows
        <5> QED  BY <2>0, <5>2
      <4>2. c.idx = loc[p].tk + RING_SIZE /\ c.unsafe = loc[p].seen.unsafe
        BY Zenon, <3>3 DEF Cell
      <4> QED  BY SMTT(30), <2>0, <2>1, <3>1, <4>1, <4>2, Constants
    <3>4. CASE c = Cell(loc[p].seen.val, loc[p].seen.idx, TRUE)
      BY <3>1, <3>4 DEF Cell
    <3> QED  BY Zenon, <2>3, <3>2, <3>3, <3>4
  <2>4. CASE \A m \in live : array'[m] = array[m]
    BY <1>0, <2>2, <2>4
  <2>5. ASSUME NEW c \in Cells, Stores(p, c), Node(p) \in Nodes,
               ~(n = Node(p) /\ Slot(h) = Slot(loc[p].tk))
        PROVE  array'[n][Slot(h)] = array[n][Slot(h)]
    BY Zenon, <2>0, <2>5, StoreThere
  <2> QED  BY Zenon, <2>2, <2>3, <2>4, <2>5, CellEffect, StoreNewer
<1> QED  BY <1>0, <1>1, <1>2, PassedStep

(* Every step preserves StrandInv. *)
LEMMA StepStrandInv ==
  ASSUME HInv, LocalInv, PassedInv, StoreInv, StrandInv, NEW p \in Threads,
         enqueue(p) \/ dequeue(p)
  PROVE  StrandInv'
<1> SUFFICES ASSUME NEW n \in live', NEW j \in Slots, array'[n][j].val # EMPTY,
                    NEW i, i = array'[n][j].idx
             PROVE  Slot(i) = j /\ ~Passed(n, i)' /\ i < ntail'[n].idx
  <2>1. \A n \in live', j \in Slots : array'[n][j].val # EMPTY =>
          \A i : i = array'[n][j].idx =>
            Slot(i) = j /\ ~Passed(n, i)' /\ i < ntail'[n].idx
    OBVIOUS
  <2> QED  BY <2>1 DEF StrandInv, Passed, Served, Slot
<1>t. TypeOK /\ TypeOK' /\ Knows(p)
  BY StepType DEF HInv, LocalInv
<1>0. /\ loc[p].tk \in Nat /\ loc[p].seen.idx \in Nat /\ n \in Nodes
      /\ array'[n][j] \in Cells /\ i \in Nat /\ ntail'[n].idx \in Nat
  <2>1. loc[p].tk \in Nat /\ loc[p].seen.idx \in Nat
    BY Zenon, <1>t, Typed, Fields
  <2>2. n \in Nodes /\ array'[n][j] \in Cells /\ ntail'[n] \in Tails
    BY Zenon, <1>t DEF TypeOK, NodesType
  <2> QED  BY Zenon, <2>1, <2>2, Fields
<1>f. CASE n \notin live
  <2>1. nhead'[n] = 0 /\ ntail'[n] = OpenAt(1)
    BY Zenon, <1>f, LiveStep
  <2>2. j = 0 /\ i = 0
    <3>1. array'[n] = SoloCells(loc[p].item)
      BY Zenon, <1>f, LiveStep
    <3>2. /\ SoloCells(loc[p].item)[0].idx = 0
          /\ j # 0 => SoloCells(loc[p].item)[j].val = EMPTY
      BY FreshCells
    <3>3. array'[n][0].idx = 0 /\ (j # 0 => array'[n][j].val = EMPTY)
      BY Zenon, <3>1, <3>2
    <3> QED  BY <3>3
  <2>3. ~Passed(n, i)'
    <3>1. ~(i < nhead'[n])
      BY <2>1, <2>2
    <3> QED  BY Zenon, <3>1 DEF Passed
  <2>4. ntail'[n].idx = 1
    <3>1. \A t : t = OpenAt(1) => t.idx = 1
      BY DEF OpenAt
    <3> QED  BY Zenon, <2>1, <3>1
  <2> QED  BY <2>2, <2>3, <2>4, Constants
<1>l. CASE n \in live
  <2>1. ASSUME Slot(i) = j, Passed(n, i)'  PROVE Passed(n, i)
    <3> SUFFICES ASSUME ~Passed(n, i)  PROVE FALSE
      OBVIOUS
    <3>1. Serves(p, n, i) /\ ~Serves(p, n, i)'
      BY Zenon, <1>0, <1>l, <2>1, PassedStep
    <3>2. array'[n][Slot(i)].idx > i \/ array'[n][Slot(i)].idx < i
      BY Zenon, <1>0, <1>l, <3>1, LeaveEffect
    <3> QED  BY Zenon, <1>0, <2>1, <3>2, CellArithmetic
  <2>m. ntail'[n].idx >= ntail[n].idx /\ ntail[n].idx \in Nat
    BY Zenon, <1>0, <1>t, <1>l, NodeMonotone, Fields DEF TypeOK, NodesType
  <2>n. \A k \in Nat : k < ntail[n].idx => k < ntail'[n].idx
    BY Zenon, <1>0, <2>m, CellArithmetic
  <2>2. CASE array'[n][j] = array[n][j]
    <3>1. Slot(i) = j /\ ~Passed(n, i) /\ i < ntail[n].idx
      BY <1>l, <2>2 DEF StrandInv
    <3> QED  BY Zenon, <1>0, <2>1, <2>n, <3>1
  <2>3. ASSUME NEW c \in Cells, Stores(p, c), n = Node(p), j = Slot(loc[p].tk),
               \/ EnqCas(p) /\ c = Cell(loc[p].item, loc[p].tk, FALSE)
               \/ /\ DeqTake(p) \/ DeqSkip(p)
                  /\ c = Cell(EMPTY, loc[p].tk + RING_SIZE, loc[p].seen.unsafe)
               \/ /\ DeqMarkUnsafe(p)
                  /\ c = Cell(loc[p].seen.val, loc[p].seen.idx, TRUE)
        PROVE  Slot(i) = j /\ ~Passed(n, i)' /\ i < ntail'[n].idx
    <3>1. array'[n][j] = c /\ array[n][j] = loc[p].seen
      <4>1. Stores(p, c) /\ At(p, n, j)
        BY Zenon, <2>3 DEF At
      <4> QED  BY Zenon, <1>t, <1>0, <4>1, StoreHere
    <3>2. CASE EnqCas(p) /\ c = Cell(loc[p].item, loc[p].tk, FALSE)
      <4>1. i = loc[p].tk
        <5>1. i = c.idx
          BY <3>1
        <5>2. IsCell(c, loc[p].item, loc[p].tk, FALSE)
          BY Zenon, <3>2 DEF IsCell
        <5>3. c.idx = loc[p].tk
          BY Zenon, <5>2, CellFields
        <5> QED  BY Zenon, <5>1, <5>3
      <4>2. pc[p] = "enq_cas" /\ CAS2Succeeds(p)
        BY Zenon, <2>3, <3>2 DEF EnqCas, Stores
      <4>3. ASSUME Passed(n, i)  PROVE FALSE
        <5>1. i < loc[p].tk
          BY Zenon, <1>0, <2>3, <4>1, <4>2, <4>3, StoreIsAhead
        <5> QED  BY <1>0, <4>1, <5>1
      <4>4. i < ntail[n].idx
        BY <1>t, <2>3, <4>1, <4>2 DEF Knows, StorePoints
      <4>5. Slot(i) = j
        BY <2>3, <4>1
      <4>6. i < ntail'[n].idx
        BY Zenon, <1>0, <2>n, <4>4
      <4> QED  BY Zenon, <2>1, <4>3, <4>5, <4>6
    <3>3. CASE c = Cell(EMPTY, loc[p].tk + RING_SIZE, loc[p].seen.unsafe)
      <4>1. c.val = EMPTY
        <5>1. IsCell(c, EMPTY, loc[p].tk + RING_SIZE, loc[p].seen.unsafe)
          BY Zenon, <3>3 DEF IsCell
        <5> QED  BY Zenon, <5>1, CellFields
      <4> QED  BY <3>1, <4>1
    <3>4. CASE c = Cell(loc[p].seen.val, loc[p].seen.idx, TRUE)
      <4>1. i = loc[p].seen.idx /\ loc[p].seen.val # EMPTY
        <5>1. c.idx = loc[p].seen.idx /\ c.val = loc[p].seen.val
          <6>1. IsCell(c, loc[p].seen.val, loc[p].seen.idx, TRUE)
            BY Zenon, <3>4 DEF IsCell
          <6> QED  BY Zenon, <6>1, CellFields
        <5> QED  BY <3>1, <5>1
      <4>2. Slot(i) = j /\ ~Passed(n, i) /\ i < ntail[n].idx
        BY Zenon, <1>l, <3>1, <4>1 DEF StrandInv
      <4>3. i < ntail'[n].idx
        BY Zenon, <1>0, <2>n, <4>2
      <4> QED  BY Zenon, <2>1, <4>2, <4>3
    <3> QED  BY Zenon, <2>3, <3>2, <3>3, <3>4
  <2>4. ASSUME NEW c \in Cells, Stores(p, c), Node(p) \in Nodes,
               ~(n = Node(p) /\ j = Slot(loc[p].tk))
        PROVE  array'[n][j] = array[n][j]
    BY Zenon, <1>t, <1>0, <2>4, StoreThere
  <2>5. CASE \A m \in live : array'[m] = array[m]
    BY <1>l, <2>2, <2>5
  <2> QED  BY Zenon, <2>2, <2>3, <2>4, <2>5, CellEffect, StoreNewer
<1> QED  BY <1>f, <1>l

(* Every step preserves StoreInv. *)
LEMMA StepStoreInv ==
  ASSUME HInv, LocalInv, StoreInv, NEW p \in Threads, enqueue(p) \/ dequeue(p)
  PROVE  StoreInv'
<1> SUFFICES ASSUME NEW o \in Threads, NEW h \in Nat, pc'[o] = "enq_cas",
                    loc'[o].seen.unsafe, CAS2Succeeds(o)', loc'[o].tk <= h,
                    Slot(h) = Slot(loc'[o].tk), Passed(Node(o), h)'
             PROVE  FALSE
  BY Zenon DEF StoreInv
<1>t. TypeOK
  BY DEF HInv
<1>1. CASE o = p
  <2>1. EnqReadVal(p) \/ EnqReadHead(p)
    BY ZenonT(60), <1>1, <1>t, Edges DEF enqueue, dequeue, fixState
  <2>2. EnqReadHead(p) /\ nhead[Node(p)] < loc[p].tk
    <3>1. CASE EnqReadVal(p)
      <4>1. UNCHANGED loc /\ ~loc[p].seen.unsafe
        BY Zenon, <1>1, <1>t, <3>1, Arrives DEF EnqReadVal
      <4> QED  BY <1>1, <4>1
    <3>2. CASE EnqReadHead(p)
      BY Zenon, <1>1, <1>t, <3>2, Arrives DEF EnqReadHead
    <3> QED  BY <2>1, <3>1, <3>2
  <2>3. UNCHANGED <<nhead, loc>> /\ pc[p] = "enq_head"
    BY Zenon, <2>2 DEF EnqReadHead, shared, nodes
  <2>4. Node(p) \in Nodes
    BY <2>3 DEF HInv, LocalsInv, HoldPoints, EnqHoldPoints
  <2>5. nhead[Node(p)] \in Nat /\ loc[p].tk \in Nat
    BY Zenon, <1>t, <2>4, NodeTyped, Typed
  <2>6. h < nhead[Node(p)]
    BY Zenon, <1>1, <2>3 DEF Passed, Node
  <2> QED  BY <1>1, <2>2, <2>3, <2>5, <2>6
<1>2. CASE o # p
  <2>0. /\ pc[o] = "enq_cas" /\ loc'[o] = loc[o] /\ Node(o)' = Node(o) /\ Knows(o)
        /\ loc[o].tk \in Nat /\ loc[o].seen.idx \in Nat /\ Slot(loc[o].tk) \in Slots
    BY Zenon, <1>2, <1>t, OtherThreads, Typed, Fields DEF LocalInv
  <2>1. Node(o) \in live /\ Node(o) \in Nodes
    BY <2>0 DEF HInv, HazardInv, LocalsInv, HoldPoints, EnqHoldPoints
  <2>2. CellOf(o).idx \in Nat
    BY Zenon, <1>t, <2>1, NodeTyped, Fields
  <2>3. /\ loc[o].seen.val = EMPTY /\ loc[o].seen.idx <= CellOf(o).idx
        /\ loc[o].seen.idx <= loc[o].tk
    BY <2>0 DEF Knows, ReadIdxPoints
  <2>4. array'[Node(o)][Slot(loc[o].tk)] = loc[o].seen
    BY Zenon, <2>0 DEF CAS2Succeeds, CellOf
  <2>5. CAS2Succeeds(o)
    <3>1. ~(loc[o].seen.idx > CellOf(o).idx)
      BY Zenon, <2>0, <2>2, <2>3, CellArithmetic
    <3>2. \/ loc[o].seen = CellOf(o)
          \/ loc[o].seen.val # EMPTY
          \/ loc[o].seen.idx > CellOf(o).idx
      BY Zenon, <2>0, <2>1, <2>4, CellMonotone DEF CellOf
    <3> QED  BY Zenon, <2>3, <3>1, <3>2 DEF CAS2Succeeds
  <2>6. ~Passed(Node(o), h)
    BY Zenon, <2>0, <2>5 DEF StoreInv
  <2>7. PICK n \in live : n = Node(o)
    BY <2>1
  <2>8. Passed(n, h)'
    BY Zenon, <2>0, <2>7 DEF Passed, Served
  <2>9. Serves(p, n, h) /\ ~Serves(p, n, h)'
    BY <2>6, <2>7, <2>8, PassedStep
  <2>a. Slot(h) = Slot(loc[o].tk)
    BY <2>0
  <2>b. PICK c : c = array'[n][Slot(h)]
    OBVIOUS
  <2>c. c.idx > h \/ c.val # EMPTY
    BY Zenon, <2>9, <2>b, LeaveEffect
  <2>d. c = loc[o].seen
    BY Zenon, <2>4, <2>7, <2>a, <2>b
  <2>e. loc[o].tk <= h
    BY Zenon, <2>0
  <2> QED  BY Zenon, <2>0, <2>3, <2>c, <2>d, <2>e, CellArithmetic
<1> QED  BY <1>1, <1>2

(* Every step preserves ClosedInv. *)
LEMMA StepClosedInv ==
  ASSUME HInv, LocalInv, ClosedInv, NEW p \in Threads, enqueue(p) \/ dequeue(p)
  PROVE  ClosedInv'
<1> SUFFICES ASSUME NEW n \in live', nnext'[n] # nullptr  PROVE ntail'[n].closed
  BY DEF ClosedInv
<1>1. n \in live /\ TypeOK /\ n \in Nodes
  BY Zenon, LiveStep DEF HInv, TypeOK, NodesType
<1>2. ntail[n].closed
  <2>1. CASE nnext[n] # nullptr
    BY <1>1, <2>1 DEF ClosedInv
  <2>2. CASE nnext[n] = nullptr
    <3>1. EnqAlloc(p)
      BY Zenon, <1>1, <2>2, ListEffect
    <3>2. n = Node(p)
      <4>1. nnext'[n] # nnext[n]
        BY <2>2
      <4>2. nnext' # nnext
        BY <4>1
      <4> QED  BY Zenon, <1>1, <3>1, <4>1, <4>2, AllocNodes DEF shared, nodes
    <3>3. pc[p] = "enq_alloc"
      BY <3>1 DEF EnqAlloc
    <3> QED  BY Zenon, <3>2, <3>3 DEF LocalInv, Knows
  <2> QED  BY <2>1, <2>2
<1> QED  BY <1>1, <1>2, NodeMonotone
-----------------------------------------------------------------------------
(* How a thread comes to a point where it may store: by drawing a ticket   *)
(* from an open node.                                                      *)
LEMMA StorePointStep ==
  ASSUME HInv, NEW p \in Threads, enqueue(p) \/ dequeue(p), pc'[p] \in StorePoints
  PROVE  /\ Node(p)' = Node(p)
         /\ \/ pc[p] \in StorePoints /\ loc'[p].tk = loc[p].tk
            \/ EnqTicket(p) /\ ~ntail[Node(p)].closed
<1>0. /\ TypeOK /\ loc[p] \in Locals /\ p \in DOMAIN loc
  BY Zenon, Typed DEF HInv
<1>1. EnqTicket(p) \/ EnqReadIdx(p) \/ EnqReadVal(p) \/ EnqReadHead(p)
  BY ZenonT(60), <1>0, Edges DEF enqueue, dequeue, fixState, StorePoints
<1>2. CASE EnqTicket(p)
  <2>1. Node(p)' = Node(p)
    BY <1>0, <1>2 DEF EnqTicket, Node, Locals
  <2>2. pc'[p] = IF ntail[Node(p)].closed THEN "enq_alloc" ELSE "enq_idx"
    BY Zenon, <1>0, <1>2, Arrives DEF EnqTicket
  <2> QED  BY <1>2, <2>1, <2>2 DEF StorePoints
<1>3. CASE EnqReadIdx(p)
  BY <1>0, <1>3 DEF EnqReadIdx, Node, Locals, StorePoints
<1>4. CASE EnqReadVal(p) \/ EnqReadHead(p)
  BY <1>4 DEF EnqReadVal, EnqReadHead, Node, StorePoints
<1> QED  BY <1>1, <1>2, <1>3, <1>4

(* Once no item of a node waits for a dequeuer to come, none ever will. *)
LEMMA SealedStays ==
  ASSUME HInv, LocalInv, NEW p \in Threads, enqueue(p) \/ dequeue(p),
         NEW n \in live, Sealed(n)
  PROVE  Sealed(n)'
<1>0. /\ TypeOK /\ TypeOK' /\ n \in Nodes /\ Knows(p)
  BY StepType DEF HInv, TypeOK, NodesType, LocalInv
<1>1. /\ nhead'[n] >= nhead[n] /\ nhead[n] \in Nat /\ nhead'[n] \in Nat
      /\ ntail[n].closed /\ ntail'[n].closed
  BY Zenon, <1>0, NodeMonotone DEF TypeOK, NodesType, Sealed
<1>2. ASSUME NEW j \in Slots, array'[n][j].val # EMPTY
      PROVE  array'[n][j].idx < nhead'[n]
  <2>0. array'[n][j].idx \in Nat /\ loc[p].tk \in Nat
    BY Zenon, <1>0, Fields, Typed DEF TypeOK, NodesType
  <2>1. CASE array'[n][j] = array[n][j]
    <3>1. array'[n][j].idx < nhead[n]
      BY <1>2, <2>1 DEF Sealed
    <3> QED  BY Zenon, <1>1, <2>0, <3>1, CellArithmetic
  <2>2. ASSUME NEW c \in Cells, Stores(p, c), n = Node(p), j = Slot(loc[p].tk),
               \/ EnqCas(p) /\ c = Cell(loc[p].item, loc[p].tk, FALSE)
               \/ /\ DeqTake(p) \/ DeqSkip(p)
                  /\ c = Cell(EMPTY, loc[p].tk + RING_SIZE, loc[p].seen.unsafe)
               \/ /\ DeqMarkUnsafe(p)
                  /\ c = Cell(loc[p].seen.val, loc[p].seen.idx, TRUE)
        PROVE  array'[n][j].idx < nhead'[n]
    <3>1. array'[n][j] = c /\ array[n][j] = loc[p].seen
      <4>1. Stores(p, c) /\ At(p, n, j)
        BY Zenon, <2>2 DEF At
      <4> QED  BY Zenon, <1>0, <4>1, StoreHere
    <3>i. ASSUME c.idx < nhead[n]  PROVE array'[n][j].idx < nhead'[n]
      <4>1. array'[n][j].idx < nhead[n]
        BY <3>1, <3>i
      <4> QED  BY Zenon, <1>1, <2>0, <4>1, CellArithmetic
    <3>2. CASE EnqCas(p) /\ c = Cell(loc[p].item, loc[p].tk, FALSE)
      <4>1. c.idx = loc[p].tk
        <5>1. IsCell(c, loc[p].item, loc[p].tk, FALSE)
          BY Zenon, <3>2 DEF IsCell
        <5> QED  BY Zenon, <5>1, CellFields
      <4>2. pc[p] \in StorePoints /\ Node(p) = n
        BY Zenon, <2>2, <3>2 DEF EnqCas, StorePoints
      <4>3. loc[p].tk < nhead[n]
        BY Zenon, <4>2 DEF Sealed
      <4> QED  BY Zenon, <3>i, <4>1, <4>3
    <3>3. CASE c = Cell(EMPTY, loc[p].tk + RING_SIZE, loc[p].seen.unsafe)
      <4>1. c.val = EMPTY
        <5>1. IsCell(c, EMPTY, loc[p].tk + RING_SIZE, loc[p].seen.unsafe)
          BY Zenon, <3>3 DEF IsCell
        <5> QED  BY Zenon, <5>1, CellFields
      <4> QED  BY <1>2, <3>1, <4>1
    <3>4. CASE c = Cell(loc[p].seen.val, loc[p].seen.idx, TRUE)
      <4>1. c.idx = loc[p].seen.idx /\ c.val = loc[p].seen.val
        <5>1. IsCell(c, loc[p].seen.val, loc[p].seen.idx, TRUE)
          BY Zenon, <3>4 DEF IsCell
        <5> QED  BY Zenon, <5>1, CellFields
      <4>2. array[n][j].val # EMPTY /\ array[n][j].idx = c.idx
        BY <1>2, <3>1, <4>1
      <4>3. array[n][j].idx < nhead[n]
        BY Zenon, <4>2 DEF Sealed
      <4> QED  BY Zenon, <3>i, <4>2, <4>3
    <3> QED  BY Zenon, <2>2, <3>2, <3>3, <3>4
  <2>3. ASSUME NEW c \in Cells, Stores(p, c), Node(p) \in Nodes,
               ~(n = Node(p) /\ j = Slot(loc[p].tk))
        PROVE  array'[n][j] = array[n][j]
    BY Zenon, <1>0, <2>3, StoreThere
  <2>4. CASE \A m \in live : array'[m] = array[m]
    BY <2>1, <2>4
  <2> QED  BY Zenon, <2>1, <2>2, <2>3, <2>4, CellEffect, StoreNewer
<1>3. ASSUME NEW o \in Threads, pc'[o] \in StorePoints, Node(o)' = n
      PROVE  loc'[o].tk < nhead'[n]
  <2>1. pc[o] \in StorePoints /\ Node(o) = n /\ loc'[o].tk = loc[o].tk
    <3>1. CASE o # p
      BY Zenon, <1>0, <1>3, <3>1, OtherThreads
    <3>2. CASE o = p
      BY Zenon, <1>1, <1>3, <3>2, StorePointStep
    <3> QED  BY <3>1, <3>2
  <2>2. loc[o].tk < nhead[n] /\ loc[o].tk \in Nat
    BY Zenon, <1>0, <2>1, Typed DEF Sealed
  <2> QED  BY <1>1, <2>1, <2>2
<1> QED  BY Zenon, <1>1, <1>2, <1>3 DEF Sealed

(* A node is retired by the dequeuer that moved head off it. *)
LEMMA RetiredStep ==
  ASSUME HInv, NEW p \in Threads, enqueue(p) \/ dequeue(p), NEW n, Retired(n)'
  PROVE  Retired(n) \/ (pc[p] = "deq_advance" /\ n = Node(p))
<1>0. TypeOK /\ TypeOK' /\ RetireInv /\ LocalsInv
  BY StepType DEF HInv
<1>1. CASE UNCHANGED retired
  BY Zenon, <1>1 DEF Retired
<1>2. CASE DeqAdvance(p) /\ ~UNCHANGED retired
  <2>1. /\ retired' = [retired EXCEPT ![p] = Append(@, Node(p))]
        /\ pc[p] = "deq_advance"
    BY Zenon, <1>2 DEF DeqAdvance
  <2>2. Node(p) \in Nodes
    BY <1>0, <2>1 DEF LocalsInv, HoldPoints, DeqHoldPoints
  <2>3. Retired(n) \/ n = Node(p)
    BY Zenon, <1>0, <2>1, <2>2, PushRetired
  <2> QED  BY <2>1, <2>3
<1>3. CASE retire(p) /\ ~UNCHANGED retired
  <2>1. PICK i \in 1..Len(retired[p]) : retired' = [retired EXCEPT ![p] = Erase(@, i)]
    <3>1. ~UNCHANGED <<live, retired>>
      BY <1>3
    <3> QED  BY Zenon, <1>3, <3>1, DestroyEffect
  <2>2. \A m : Retired(m)' <=> Retired(m) /\ m # retired[p][i]
    BY Zenon, <1>0, <2>1, ErasedNode
  <2> QED  BY Zenon, <2>2
<1> QED  BY Zenon, <1>0, <1>1, <1>2, <1>3, ListEffect

(* A dequeuer that finds no item coming once the node has a successor may  *)
(* leave it.                                                               *)
LEMMA RecheckSeals ==
  ASSUME HInv, LocalInv, StrandInv, ClosedInv, NEW p \in Threads,
         pc[p] = "deq_recheck", NothingComing(p)
  PROVE  Node(p) \in live /\ Sealed(Node(p))
<1>1. pc[p] \in HoldPoints /\ pc[p] \in NextPoints /\ pc[p] \in TicketPoints
  BY DEF HoldPoints, DeqHoldPoints, NextPoints, TicketPoints
<1>2. /\ TypeOK /\ Node(p) \in live /\ Node(p) \in Nodes /\ nnext[Node(p)] \in Nodes
      /\ loc[p].tk < nhead[Node(p)]
  BY Zenon, <1>1 DEF HInv, HazardInv, LocalsInv, LocalInv, Knows
<1>3. PICK n \in live : n = Node(p) /\ n \in Nodes
  BY <1>2
<1>4. /\ ntail[n].idx <= loc[p].tk + 1 /\ loc[p].tk < nhead[n] /\ loc[p].tk \in Nat
      /\ ntail[n].idx \in Nat /\ nhead[n] \in Nat /\ ntail[n].closed
  <2>1. nnext[n] # nullptr
    BY <1>2, <1>3, Constants
  <2>2. ntail[n].closed
    BY Zenon, <2>1 DEF ClosedInv
  <2>3. ntail[n].idx \in Nat /\ nhead[n] \in Nat
    BY Zenon, <1>2, <1>3, Fields DEF TypeOK, NodesType
  <2>4. ntail[n].idx <= loc[p].tk + 1
    BY Zenon, <1>3 DEF NothingComing
  <2>5. loc[p].tk < nhead[n] /\ loc[p].tk \in Nat
    BY Zenon, <1>2, <1>3, Typed
  <2> QED  BY Zenon, <2>2, <2>3, <2>4, <2>5
<1>5. ASSUME NEW j \in Slots, array[n][j].val # EMPTY
      PROVE  array[n][j].idx < nhead[n]
  <2>1. array[n][j].idx < ntail[n].idx /\ array[n][j].idx \in Nat
    BY Zenon, <1>2, <1>3, <1>5, Fields DEF StrandInv, TypeOK, NodesType
  <2> QED  BY <1>4, <2>1
<1>6. ASSUME NEW o \in Threads, pc[o] \in StorePoints, Node(o) = n
      PROVE  loc[o].tk < nhead[n]
  <2>1. loc[o].tk < ntail[n].idx /\ loc[o].tk \in Nat
    BY Zenon, <1>2, <1>6, Typed DEF LocalInv, Knows
  <2> QED  BY <1>4, <2>1
<1> QED  BY Zenon, <1>3, <1>4, <1>5, <1>6 DEF Sealed

(* Every step preserves SealedInv. *)
LEMMA StepSealedInv ==
  ASSUME HInv, LocalInv, StrandInv, ClosedInv, SealedInv, NEW p \in Threads,
         enqueue(p) \/ dequeue(p)
  PROVE  SealedInv'
<1>0. TypeOK
  BY DEF HInv
<1>1. \A n : Retired(n) => n \in live
  BY <1>0, RetiredList DEF HInv, RetireInv
<1>2. \A o \in Threads : pc[o] = "deq_advance" => Node(o) \in live /\ Sealed(Node(o))
  BY DEF HInv, HazardInv, SealedInv, HoldPoints, DeqHoldPoints
<1>3. ASSUME NEW n \in Nodes, Retired(n)'  PROVE Sealed(n)'
  <2>1. n \in live /\ Sealed(n)
    BY Zenon, <1>1, <1>2, <1>3, RetiredStep DEF SealedInv
  <2> QED  BY <2>1, SealedStays
<1>4. ASSUME NEW o \in Threads, pc'[o] = "deq_advance"  PROVE Sealed(Node(o))'
  <2>1. PICK n : n = Node(o)'
    OBVIOUS
  <2>2. n \in live /\ Sealed(n)
    <3>1. CASE o # p
      BY Zenon, <1>0, <1>2, <1>4, <2>1, <3>1, OtherThreads
    <3>2. CASE o = p
      <4>1. DeqRecheck(p)
        BY ZenonT(60), <1>0, <1>4, <3>2, Edges DEF enqueue, dequeue, fixState
      <4>2. ~Iterate(p, "deq_load")
        <5>1. pc'[p] # "deq_load"
          BY <1>4, <3>2
        <5>2. Goto(p, "deq_load") => pc'[p] = "deq_load"
          BY Zenon, <1>0, Typed DEF Goto
        <5> QED  BY Zenon, <5>1, <5>2 DEF Iterate
      <4>3. NothingComing(p) /\ UNCHANGED loc /\ pc[p] = "deq_recheck"
        BY Zenon, <4>1, <4>2 DEF DeqRecheck
      <4>4. n = Node(p)
        BY Zenon, <2>1, <3>2, <4>3 DEF Node
      <4> QED  BY Zenon, <4>3, <4>4, RecheckSeals
    <3> QED  BY <3>1, <3>2
  <2>3. Sealed(n)'
    BY <2>2, SealedStays
  <2> QED  BY Zenon, <2>1, <2>3 DEF Sealed
<1> QED  BY Zenon, <1>3, <1>4 DEF SealedInv
-----------------------------------------------------------------------------
(* What a step records: items are sent, returned and delivered one at a    *)
(* time.                                                                   *)
LEMMA RecordStep ==
  ASSUME HInv, NEW p \in Threads, enqueue(p) \/ dequeue(p)
  PROVE  /\ hist.delivered \subseteq hist'.delivered
         /\ \A v \in hist'.returned : \/ v \in hist.returned
                                      \/ pc[p] = "enq_clear" /\ v = loc[p].item
         /\ \A v \in Items : pc[p] = "deq_clear" /\ loc[p].seen.val = v
              => v \in hist'.delivered
<1>0. /\ TypeOK /\ HistoryType /\ EMPTY \notin Items
      /\ pc[p] = "enq_clear" => loc[p].item \in Items
      /\ loc[p].seen.val \in Values
  BY Typed, Fields, Constants DEF HInv, TypeOK, LocalsInv, EnqPoints
<1>1. CASE EnqClear(p)
  <2>1. pc[p] = "enq_clear" /\ EnqueueReturned(loc[p].item)
    BY <1>1 DEF EnqClear
  <2>2. /\ hist'.returned = hist.returned \cup {loc[p].item}
        /\ hist'.delivered = hist.delivered
    BY Zenon, <1>0, <2>1, HistoryEffect
  <2> QED  BY <2>1, <2>2
<1>2. CASE DeqClear(p)
  <2>1. pc[p] = "deq_clear"
    BY <1>2 DEF DeqClear
  <2>2. CASE loc[p].seen.val # EMPTY
    <3>1. DequeueReturned(p, loc[p].seen.val) /\ loc[p].seen.val \in Items
      BY <1>0, <1>2, <2>2 DEF DeqClear, Values
    <3>2. /\ hist'.delivered = hist.delivered \cup {loc[p].seen.val}
          /\ hist'.returned = hist.returned
      BY Zenon, <1>0, <3>1, HistoryEffect
    <3> QED  BY <2>1, <3>2
  <2>3. CASE loc[p].seen.val = EMPTY
    <3>1. DequeueReturnedEmpty(p)
      BY <1>2, <2>3 DEF DeqClear
    <3>2. hist'.returned = hist.returned /\ hist'.delivered = hist.delivered
      BY Zenon, <1>0, <3>1, HistoryEffect DEF whereabouts
    <3> QED  BY <1>0, <2>3, <3>2
  <2> QED  BY <2>2, <2>3
<1>3. CASE ~EnqClear(p) /\ ~DeqClear(p)
  <2>1. \/ UNCHANGED history \/ DequeueCalled(p)
        \/ \E v \in Items : EnqueueCalled(v)
    BY ZenonT(60), <1>3 DEF enqueue, dequeue, fixState, EnqCall, EnqLoad, Load,
     EnqProtect, DeqProtect, Protect, EnqCheck, Check, EnqNext, EnqHelp, EnqTicket,
     EnqAlloc, EnqSwing, EnqReadIdx, EnqReadVal, EnqReadHead, EnqCas, EnqFull,
     EnqClose, DeqCall, DeqLoad, DeqCheck, DeqTicket, DeqReadIdx, DeqReadVal, DeqTake,
     DeqMarkUnsafe, DeqLoadTail, DeqSkip, DeqCloseNode, DeqCheckEmpty, FixLoadTail,
     FixLoadHead, FixSame, FixCas, DeqNext, DeqRecheck, DeqAdvance, retire
  <2>2. hist'.returned = hist.returned /\ hist'.delivered = hist.delivered
    BY Zenon, <1>0, <2>1, HistoryEffect DEF whereabouts
  <2>3. pc[p] # "deq_clear"
    BY ZenonT(60), <1>3 DEF enqueue, dequeue, fixState, EnqCall, EnqLoad, Load,
     EnqProtect, DeqProtect, Protect, EnqCheck, Check, EnqNext, EnqHelp, EnqTicket,
     EnqAlloc, EnqSwing, EnqReadIdx, EnqReadVal, EnqReadHead, EnqCas, EnqFull,
     EnqClose, DeqCall, DeqLoad, DeqCheck, DeqTicket, DeqReadIdx, DeqReadVal, DeqTake,
     DeqMarkUnsafe, DeqLoadTail, DeqSkip, DeqCloseNode, DeqCheckEmpty, FixLoadTail,
     FixLoadHead, FixSame, FixCas, DeqNext, DeqRecheck, DeqAdvance, retire
  <2> QED  BY <2>2, <2>3
<1> QED  BY <1>1, <1>2, <1>3

(* A node that retire destroys has no item left: one would still be served *)
(* by a dequeuer, which would hold the node.                               *)
LEMMA DestroyedIsEmpty ==
  ASSUME HInv, LocalInv, StrandInv, SealedInv, NEW p \in Threads,
         enqueue(p) \/ dequeue(p), NEW n \in live, n \notin live', NEW j \in Slots
  PROVE  array[n][j].val = EMPTY
<1>0. TypeOK /\ n \in Nodes
  BY DEF HInv, TypeOK, NodesType
<1>1. retire(p) /\ ~UNCHANGED live
  <2>1. ~UNCHANGED live
    OBVIOUS
  <2>2. ~EnqAlloc(p)
    BY Zenon, AllocNodes DEF shared, nodes
  <2> QED  BY Zenon, <1>0, <2>1, <2>2, ListEffect
<1>2. /\ \A o \in Threads : ~Holds(o, n)
      /\ Retired(n)
  <2>1. PICK i \in 1..Len(retired[p]), m \in Nodes :
              /\ m = retired[p][i] /\ live' = live \ {m}
              /\ \A o \in Threads : ~Holds(o, m)
    BY Zenon, <1>1, DestroyEffect
  <2>2. m = n
    BY <2>1
  <2> QED  BY Zenon, <1>0, <2>1, <2>2, RetiredList
<1>3. SUFFICES ASSUME array[n][j].val # EMPTY  PROVE FALSE
  OBVIOUS
<1>4. array[n][j].idx < nhead[n] /\ ~Passed(n, array[n][j].idx)
  BY Zenon, <1>0, <1>2, <1>3 DEF SealedInv, Sealed, StrandInv
<1>5. PICK o \in Threads : pc[o] \in CellPoints /\ Node(o) = n
  BY Zenon, <1>4 DEF Passed, Served
<1>6. pc[o] \in HoldPoints
  BY <1>5 DEF HoldPoints, DeqHoldPoints
<1> QED  BY Zenon, <1>2, <1>5, <1>6 DEF Holds

(* An item stays where it is, or moves on to the dequeue that takes it. *)
LEMMA CarriedStays ==
  ASSUME HInv, LocalInv, StrandInv, SealedInv, NEW p \in Threads,
         enqueue(p) \/ dequeue(p), NEW v \in Items, Carried(v)
  PROVE  Carried(v)'
<1>0. TypeOK /\ v # EMPTY /\ Knows(p)
  BY Constants DEF HInv, LocalInv
<1>1. CASE v \in hist.delivered
  BY <1>1, RecordStep DEF Carried
<1>2. CASE \E o \in Threads : pc[o] = "deq_clear" /\ loc[o].seen.val = v
  <2>1. PICK o \in Threads : pc[o] = "deq_clear" /\ loc[o].seen.val = v
    BY <1>2
  <2>2. CASE o # p
    BY Zenon, <1>0, <2>1, <2>2, OtherThreads DEF Carried
  <2>3. CASE o = p
    BY Zenon, <2>1, <2>3, RecordStep DEF Carried
  <2> QED  BY <2>2, <2>3
<1>3. CASE \E n \in live, j \in Slots : array[n][j].val = v
  <2>1. PICK n \in live, j \in Slots : array[n][j].val = v
    BY <1>3
  <2>2. n \in live' /\ n \in Nodes
    BY <1>0, <2>1, DestroyedIsEmpty DEF TypeOK, NodesType
  <2>3. CASE array'[n][j] = array[n][j]
    BY Zenon, <2>1, <2>2, <2>3 DEF Carried
  <2>4. ASSUME NEW c \in Cells, Stores(p, c), n = Node(p), j = Slot(loc[p].tk),
               \/ EnqCas(p) /\ c = Cell(loc[p].item, loc[p].tk, FALSE)
               \/ /\ DeqTake(p) \/ DeqSkip(p)
                  /\ c = Cell(EMPTY, loc[p].tk + RING_SIZE, loc[p].seen.unsafe)
               \/ /\ DeqMarkUnsafe(p)
                  /\ c = Cell(loc[p].seen.val, loc[p].seen.idx, TRUE)
        PROVE  Carried(v)'
    <3>1. array'[n][j] = c /\ array[n][j] = loc[p].seen
      <4>1. Stores(p, c) /\ At(p, n, j)
        BY Zenon, <2>4 DEF At
      <4> QED  BY Zenon, <1>0, <2>2, <4>1, StoreHere
    <3>2. loc[p].seen.val = v
      BY <2>1, <3>1
    <3>3. CASE EnqCas(p) \/ DeqSkip(p)
      BY <1>0, <3>2, <3>3 DEF Knows, EnqCas, DeqSkip
    <3>4. CASE DeqTake(p)
      <4>1. Goto(p, "deq_clear") /\ UNCHANGED loc
        BY Zenon, <2>4, <3>4 DEF DeqTake, CAS2Fails, Stores
      <4>2. pc'[p] = "deq_clear"
        BY Zenon, <1>0, <4>1, Arrives
      <4> QED  BY Zenon, <3>2, <4>1, <4>2 DEF Carried
    <3>5. CASE c = Cell(loc[p].seen.val, loc[p].seen.idx, TRUE)
      <4>1. c.val = v
        <5>1. IsCell(c, v, loc[p].seen.idx, TRUE)
          BY Zenon, <3>2, <3>5 DEF IsCell
        <5> QED  BY Zenon, <5>1, CellFields
      <4>2. array'[n][j].val = v
        BY Zenon, <3>1, <4>1
      <4> QED  BY Zenon, <2>2, <4>2 DEF Carried
    <3> QED  BY Zenon, <2>4, <3>3, <3>4, <3>5
  <2>5. ASSUME NEW c \in Cells, Stores(p, c), Node(p) \in Nodes,
               ~(n = Node(p) /\ j = Slot(loc[p].tk))
        PROVE  array'[n][j] = array[n][j]
    BY Zenon, <1>0, <2>2, <2>5, StoreThere
  <2>6. CASE \A m \in live : array'[m] = array[m]
    BY <2>3, <2>6
  <2> QED  BY Zenon, <2>3, <2>4, <2>5, <2>6, CellEffect, StoreNewer
<1> QED  BY <1>1, <1>2, <1>3 DEF Carried

(* An enqueuer that has stored its item. *)
LEMMA StoredIsCarried ==
  ASSUME HInv, LocalInv, StrandInv, SealedInv, CarriedInv, NEW p \in Threads,
         enqueue(p) \/ dequeue(p), pc'[p] \in {"enq_swing", "enq_clear"}
  PROVE  \E v : v = loc'[p].item /\ Carried(v)'
<1>0. TypeOK
  BY DEF HInv
<1>1. EnqAlloc(p) \/ EnqSwing(p) \/ EnqCas(p)
  BY ZenonT(60), <1>0, Edges DEF enqueue, dequeue, fixState
<1>2. CASE EnqAlloc(p)
  <2>1. pc'[p] # "enq_load"
    OBVIOUS
  <2>2. PICK n \in Nodes :
          /\ live' = live \cup {n} /\ array'[n] = SoloCells(loc[p].item)
          /\ loc'[p].item = loc[p].item
    BY Zenon, <1>2, <2>1, AllocNodes
  <2>3. array'[n][0].val = loc[p].item
    BY Zenon, <2>2, FreshCells
  <2> QED  BY Zenon, <2>2, <2>3, Constants DEF Carried
<1>3. CASE EnqSwing(p)
  <2>1. UNCHANGED loc /\ pc[p] = "enq_swing"
    BY Zenon, <1>3 DEF EnqSwing
  <2>2. loc[p].item \in Items /\ Carried(loc[p].item)
    BY <2>1 DEF HInv, LocalsInv, EnqPoints, EnqHoldPoints, CarriedInv
  <2>3. PICK v \in Items : v = loc[p].item /\ Carried(v)
    BY <2>2
  <2> QED  BY Zenon, <2>1, <2>3, CarriedStays
<1>4. CASE EnqCas(p)
  <2>1. CAS2(p, Cell(loc[p].item, loc[p].tk, FALSE)) /\ UNCHANGED loc
        /\ pc[p] = "enq_cas"
    BY <1>0, <1>4, Arrives DEF EnqCas
  <2>2. Stores(p, Cell(loc[p].item, loc[p].tk, FALSE)) /\ UNCHANGED live
    BY Zenon, <2>1 DEF CAS2, Stores
  <2>3. Node(p) \in live /\ Node(p) \in Nodes /\ Slot(loc[p].tk) \in Slots
    BY <1>0, <2>1, Typed DEF HInv, HazardInv, LocalsInv, HoldPoints, EnqHoldPoints
  <2>4. array'[Node(p)][Slot(loc[p].tk)] = Cell(loc[p].item, loc[p].tk, FALSE)
    <3>1. PICK c : c = Cell(loc[p].item, loc[p].tk, FALSE)
      OBVIOUS
    <3>2. PICK n \in Nodes, j \in Slots : n = Node(p) /\ j = Slot(loc[p].tk)
      BY <2>3
    <3>3. Stores(p, c)
      BY Zenon, <2>2, <3>1
    <3>4. array'[n][j] = c
      BY <1>0, <2>3, <3>2, <3>3, StoreEffect
    <3> QED  BY Zenon, <3>1, <3>2, <3>4
  <2>5. array'[Node(p)][Slot(loc[p].tk)].val = loc[p].item
    BY <2>4 DEF Cell
  <2> QED  BY Zenon, <2>1, <2>2, <2>3, <2>5 DEF Carried
<1> QED  BY <1>1, <1>2, <1>3, <1>4

(* Every step preserves CarriedInv. *)
LEMMA StepCarriedInv ==
  ASSUME HInv, LocalInv, StrandInv, SealedInv, CarriedInv, NEW p \in Threads,
         enqueue(p) \/ dequeue(p)
  PROVE  CarriedInv'
<1>0. TypeOK /\ hist.returned \subseteq Items
  BY DEF HInv, TypeOK, HistoryType
<1>1. \A o \in Threads : pc[o] \in {"enq_swing", "enq_clear"} =>
        loc[o].item \in Items /\ Carried(loc[o].item)
  BY DEF HInv, LocalsInv, EnqPoints, EnqHoldPoints, CarriedInv
<1>2. ASSUME NEW v \in hist'.returned  PROVE Carried(v)'
  <2>1. v \in Items /\ Carried(v)
    BY <1>0, <1>1, <1>2, RecordStep DEF CarriedInv
  <2> QED  BY <2>1, CarriedStays
<1>3. ASSUME NEW o \in Threads, pc'[o] \in {"enq_swing", "enq_clear"}
      PROVE  Carried(loc[o].item)'
  <2>1. PICK v : v = loc'[o].item
    OBVIOUS
  <2>2. Carried(v)'
    <3>1. CASE o # p
      <4>1. v \in Items /\ Carried(v)
        BY Zenon, <1>0, <1>1, <1>3, <2>1, <3>1, OtherThreads
      <4> QED  BY <4>1, CarriedStays
    <3>2. CASE o = p
      BY Zenon, <1>3, <2>1, <3>2, StoredIsCarried
    <3> QED  BY <3>1, <3>2
  <2> QED  BY Zenon, <2>1, <2>2 DEF Carried
<1> QED  BY Zenon, <1>2, <1>3 DEF CarriedInv
-----------------------------------------------------------------------------
(* An empty queue with one node and idle threads satisfies the invariant. *)
LEMMA InitCells == Init => CInv
<1> SUFFICES ASSUME Init  PROVE CInv
  OBVIOUS
<1>1. HInv
  BY InitHazard
<1>2. /\ \A p \in Threads : pc[p] = "idle" /\ retired[p] = <<>>
      /\ \A n \in Nodes : nnext[n] = nullptr /\ nhead[n] = 0 /\ array[n] = NodeCells
      /\ live \subseteq Nodes
  BY Zenon, Constants DEF Init
<1>3. \A j \in Slots : NodeCells[j].val = EMPTY
  BY DEF NodeCells, Cell
<1>4. hist.returned = {}
  BY DEF Init, HistoryInit
<1>5. LocalInv /\ StoreInv
  <2>1. /\ "idle" \notin ReadIdxPoints \cup StorePoints \cup TicketPoints
        /\ "idle" \notin {"enq_head", "enq_cas", "deq_tail", "deq_skip"}
        /\ "idle" \notin {"enq_val", "enq_head", "enq_cas", "deq_tail", "deq_skip"}
        /\ "idle" \notin {"deq_take", "deq_mark"}
    BY DEF ReadIdxPoints, StorePoints, TicketPoints, CellPoints
  <2>2. \A p \in Threads : Knows(p)
    BY Zenon, <1>2, <2>1 DEF Knows
  <2> QED  BY Zenon, <1>2, <2>2 DEF LocalInv, StoreInv
<1>6. PassedInv
  BY <1>2 DEF PassedInv, Passed
<1>7. StrandInv /\ ClosedInv
  BY Zenon, <1>2, <1>3 DEF StrandInv, ClosedInv
<1>8. SealedInv
  <2>1. \A n : ~Retired(n)
    BY <1>1, <1>2, RetiredList DEF HInv
  <2> QED  BY <1>2, <2>1 DEF SealedInv
<1>9. CarriedInv
  BY <1>2, <1>4 DEF CarriedInv
<1> QED  BY <1>1, <1>5, <1>6, <1>7, <1>8, <1>9 DEF CInv

(* A step that changes nothing preserves it. *)
LEMMA StutterCells == CInv /\ UNCHANGED vars => CInv'
<1> SUFFICES ASSUME CInv, UNCHANGED vars  PROVE CInv'
  OBVIOUS
<1> USE DEF vars, shared, ends, nodes, hazard, history
<1>1. HInv'
  BY StutterHazard DEF CInv
<1>2. LocalInv'
  BY Zenon DEF CInv, LocalInv, Knows, Node, CellOf
<1>3. \A n, h : Passed(n, h)' <=> Passed(n, h)
  BY Zenon DEF Passed, Served, Node
<1>4. PassedInv' /\ StrandInv' /\ ClosedInv'
  BY Zenon, <1>3 DEF CInv, PassedInv, StrandInv, ClosedInv
<1>5. StoreInv'
  BY Zenon, <1>3 DEF CInv, StoreInv, CAS2Succeeds, CellOf, Node
<1>6. SealedInv'
  BY Zenon DEF CInv, SealedInv, Sealed, Retired, Node
<1>7. CarriedInv'
  <2>1. \A v : Carried(v) => Carried(v)'
    BY Zenon DEF Carried
  <2> QED  BY Zenon, <2>1 DEF CInv, CarriedInv
<1> QED  BY <1>1, <1>2, <1>4, <1>5, <1>6, <1>7 DEF CInv

(* The invariant is inductive. *)
LEMMA StepCells == CInv /\ [Next]_vars => CInv'
<1>1. ASSUME CInv, NEW p \in Threads, enqueue(p) \/ dequeue(p)  PROVE CInv'
  <2>1. /\ HInv /\ LocalInv /\ PassedInv /\ StoreInv /\ StrandInv /\ ClosedInv
        /\ SealedInv /\ CarriedInv
    BY <1>1 DEF CInv
  <2>2. HInv'
    BY <1>1, <2>1, StepHazard DEF Next
  <2>3. LocalInv'
    BY <1>1, <2>1, <2>2, StepLocalInv
  <2>4. PassedInv' /\ StrandInv'
    BY <1>1, <2>1, <2>2, <2>3, StepPassedInv, StepStrandInv
  <2>5. StoreInv' /\ ClosedInv'
    BY <1>1, <2>1, <2>2, <2>3, StepStoreInv, StepClosedInv
  <2>6. SealedInv' /\ CarriedInv'
    BY <1>1, <2>1, <2>2, <2>3, <2>5, StepSealedInv, StepCarriedInv
  <2> QED  BY <2>2, <2>3, <2>4, <2>5, <2>6 DEF CInv
<1> QED  BY <1>1, StutterCells DEF Next

(* Every reachable state satisfies the invariant. *)
LEMMA CellsInvariant == Spec => []CInv
BY InitCells, StepCells, PTL DEF Spec

(***************************************************************************)
(* enqueue and dequeue of LCRQueue.hpp lose no item, for any ring size,    *)
(* any number of threads, nodes and items, and any CLOSE_TRIES and spin    *)
(* limits: an item whose enqueue has returned is being returned, or the    *)
(* dequeuer of its ticket is at its cell or still to come to a node that   *)
(* head has not left.                                                      *)
(***************************************************************************)
THEOREM ItemsAreKept == Spec => []NoItemLost
<1>1. ASSUME CInv  PROVE NoItemLost
  <2>0. TypeOK /\ HInv
    BY <1>1 DEF CInv, HInv
  <2>1. ASSUME NEW v \in hist.returned \ hist.delivered,
               ~\E p \in Threads : pc[p] = "deq_clear" /\ loc[p].seen.val = v
        PROVE  \E n \in live, j \in Slots :
                 /\ array[n][j].val = v /\ Slot(array[n][j].idx) = j
                 /\ \/ Served(n, array[n][j].idx)
                    \/ InList(n) /\ array[n][j].idx >= nhead[n]
    <3>1. PICK n \in live, j \in Slots : array[n][j].val = v
      BY Zenon, <1>1, <2>1 DEF CInv, CarriedInv, Carried
    <3>2. /\ n \in Nodes /\ nhead[n] \in Nat /\ array[n][j] \in Cells
          /\ v \in Items
      BY <2>0, <2>1 DEF TypeOK, NodesType, HistoryType
    <3>3. PICK i \in Nat : i = array[n][j].idx
      BY <3>2, Fields
    <3>4. array[n][j].val # EMPTY
      BY <3>1, <3>2, Constants
    <3>5. Slot(i) = j /\ ~Passed(n, i)
      BY Zenon, <1>1, <3>3, <3>4 DEF CInv, StrandInv
    <3>6. CASE Served(n, i)
      BY Zenon, <3>1, <3>3, <3>5, <3>6
    <3>7. CASE i >= nhead[n]
      <4>1. ~Retired(n)
        <5>1. ~(i < nhead[n])
          BY <3>2, <3>7
        <5> QED  BY Zenon, <1>1, <3>2, <3>3, <3>4, <5>1 DEF CInv, SealedInv, Sealed
      <4>2. InList(n)
        BY Zenon, <4>1, ListedIs
      <4> QED  BY Zenon, <3>1, <3>3, <3>5, <3>7, <4>2
    <3>8. i < nhead[n] \/ i >= nhead[n]
      BY Zenon, <3>2, CellArithmetic
    <3>9. ~(i < nhead[n]) \/ Served(n, i)
      BY Zenon, <3>5 DEF Passed
    <3> QED  BY Zenon, <3>6, <3>7, <3>8, <3>9
  <2> QED  BY Zenon, <2>1 DEF NoItemLost
<1> QED  BY <1>1, CellsInvariant, PTL
=============================================================================
