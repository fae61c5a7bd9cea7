---------------------------- MODULE LCRQueueInv -----------------------------
(***************************************************************************)
(* The list of nodes and the hazard pointers of LCRQueue: the inductive    *)
(* invariant that keeps every thread off destroyed nodes, preserved by     *)
(* every step.                                                             *)
(***************************************************************************)
EXTENDS LCRQueue, QueueHistoryProofs

(***************************************************************************)
(* The inductive invariant.                                                *)
(***************************************************************************)

\* Where a thread has published its node and found it in head or tail, and
\* has not finished with it.
EnqHoldPoints == {"enq_next", "enq_help", "enq_ticket", "enq_alloc", "enq_swing",
                  "enq_idx", "enq_val", "enq_head", "enq_cas", "enq_full",
                  "enq_close"}
DeqHoldPoints == CellPoints \cup
  {"deq_ticket", "deq_bts", "deq_empty", "fix_tail", "fix_head", "fix_same",
   "fix_cas", "deq_next", "deq_recheck", "deq_advance"}
HoldPoints == EnqHoldPoints \cup DeqHoldPoints
LoadedPoints == {"enq_protect", "enq_check", "deq_protect", "deq_check"}
NextPoints == {"enq_help", "enq_swing", "deq_recheck", "deq_advance"}
EnqPoints == EnqHoldPoints \cup {"enq_load", "enq_protect", "enq_check", "enq_clear"}

Holds(p, n) == pc[p] \in HoldPoints /\ Node(p) = n

\* Local variables where they are in use.
LocalsInv ==
  \A p \in Threads :
    /\ pc[p] \in HoldPoints \cup LoadedPoints => Node(p) \in Nodes
    /\ pc[p] \in NextPoints => loc[p].next \in Nodes
    /\ pc[p] \in EnqPoints => loc[p].item \in Items
    /\ pc[p] = "retire" => /\ loc[p].tid \in Threads
                           /\ loc[p].iret \in 1..(Len(retired[p]) + 1)

\* A node in use is live and published by its user, and its next does not
\* change once it is set.
HazardInv ==
  \A p \in Threads :
    /\ pc[p] \in HoldPoints => hp[p] = Node(p) /\ Node(p) \in live
    /\ pc[p] \in {"enq_check", "deq_check"} => hp[p] = Node(p)
    /\ pc[p] \in NextPoints => loc[p].next = nnext[Node(p)]

Retired(n) == \E p \in Threads : n \in Range(retired[p])

\* A node is retired once, by one thread, and is live until retire destroys it.
RetireInv ==
  /\ \A p \in Threads, i \in Nat : i \in 1..Len(retired[p]) => retired[p][i] \in live
  /\ \A p, o \in Threads, i, k \in Nat :
       i \in 1..Len(retired[p]) /\ k \in 1..Len(retired[o])
         /\ retired[p][i] = retired[o][k] => p = o /\ i = k

\* pos numbers the nodes in the order of the list.
Ordered(pos) ==
  /\ \A n \in Nodes : InList(n) /\ nnext[n] # nullptr =>
       InList(nnext[n]) /\ pos[nnext[n]] = pos[n] + 1 /\ pos[n] <= pos[tail]
  /\ \A n, m \in Nodes : InList(n) /\ InList(m) /\ pos[n] = pos[m] => n = m
  /\ \A n, m \in Nodes : InList(n) /\ InList(m) /\ nnext[n] = nullptr
       => pos[m] <= pos[n]
  /\ \A n \in Nodes : InList(n) => pos[head] <= pos[n]
  /\ \A n \in Nodes : Retired(n) => pos[n] < pos[head]
  /\ \A p \in Threads : pc[p] \in EnqHoldPoints => pos[Node(p)] <= pos[tail]

\* head is in the list; tail is too, or it is the node that was retired last.
ListInv ==
  /\ InList(head) /\ tail \in live
  /\ \A n \in Nodes : Retired(n) => nnext[n] # nullptr
  /\ Retired(tail) => nnext[tail] = head
  /\ \E pos \in [Nodes -> Nat] : Ordered(pos)

\* What the scan of thread p has established about the node it is looking at,
\* and that p itself keeps a retired tail.
Scan(p) ==
  LET i == loc[p].iret
      n == retired[p][i]
  IN  /\ tail \in Range(retired[p]) => hp[p] = tail
      /\ i <= Len(retired[p]) =>
           IF hp[p] = n THEN loc[p].tid <= p
           ELSE \A o \in Threads : o < loc[p].tid => ~Holds(o, n)

ScanInv == \A p \in Threads : pc[p] = "retire" => Scan(p)

HInv == /\ TypeOK /\ LocalsInv /\ HazardInv /\ RetireInv /\ ListInv /\ ScanInv
-----------------------------------------------------------------------------
(* What Slot returns. *)
LEMMA SlotType == \A t \in Nat : Slot(t) \in Slots
BY LCRQueueAssumption DEF Slot, Slots

(* The constants of the model, as the proofs use them. *)
LEMMA Constants ==
  /\ 1 \in Nodes /\ nullptr \notin Nodes /\ Nodes \subseteq Nat
  /\ RING_SIZE \in Nat /\ RING_SIZE > 0 /\ 0 \in Slots /\ Slot(0) = 0
  /\ EMPTY \in Values /\ Items \subseteq Values /\ EMPTY \notin Items
  /\ Threads \subseteq Nat
  /\ \A p \in Threads : 0 \in Threads /\ (p > 0 => p - 1 \in Threads)
  /\ \A p, o \in Threads : p + 1 \notin Threads => o <= p
<1>1. Cardinality(Threads) \in Nat
  BY LCRQueueAssumption
<1> QED  BY <1>1, LCRQueueAssumption DEF nullptr, Nodes, Slots, Slot, Values

(* Members of the sets of points. *)
LEMMA PointSets == HoldPoints \subseteq Points /\ EnqPoints \subseteq Points
BY DEF HoldPoints, EnqHoldPoints, DeqHoldPoints, EnqPoints, Points, UsePoints,
   CellPoints

(* Erasing an element of a sequence. *)
LEMMA EraseProperties ==
  ASSUME NEW S, NEW s \in Seq(S), NEW i \in 1..Len(s)
  PROVE  /\ Erase(s, i) \in Seq(S) /\ Len(Erase(s, i)) = Len(s) - 1
         /\ \A k \in 1..(Len(s) - 1) :
              Erase(s, i)[k] = IF k < i THEN s[k] ELSE s[k + 1]
BY DEF Erase

(* Members of the list of retired nodes of a thread. *)
LEMMA RangeOfSequence ==
  ASSUME NEW S, NEW s \in Seq(S), NEW x
  PROVE  x \in Range(s) <=> \E i \in 1..Len(s) : s[i] = x
BY DEF Range
-----------------------------------------------------------------------------
(* Fields of a cell and of a tail. *)
LEMMA Fields ==
  /\ \A c \in Cells : c.val \in Values /\ c.idx \in Nat /\ c.unsafe \in BOOLEAN
  /\ \A t \in Tails : t.idx \in Nat /\ t.closed \in BOOLEAN
  /\ \A v \in Values, i \in Nat, u \in BOOLEAN : Cell(v, i, u) \in Cells
  /\ \A i \in Nat : OpenAt(i) \in Tails
BY DEF Cells, Tails, Cell, OpenAt

(* What the provers need of arithmetic. *)
LEMMA NatOrder ==
  /\ \A a, b \in Nat : a <= b => a # b + 1 /\ a <= b + 1
  /\ \A a, b \in Nat : a <= b /\ a # b => b >= a + 1 /\ a + 1 <= b
  /\ \A a, b \in Nat : a < b + 1 => a < b \/ a = b
  /\ \A a, b \in Nat : a < b => a < b + 1
  /\ \A a \in Nat : a <= a /\ a < a + 1
OBVIOUS

(* A thread that does nothing has local variables of the right types. *)
LEMMA NoLocalsType == NoLocals \in Locals
BY Zenon, Constants, Fields DEF NoLocals, Locals

(* Init satisfies the type invariant. *)
LEMMA InitType == Init => TypeOK
<1> SUFFICES ASSUME Init  PROVE TypeOK
  OBVIOUS
<1>1. NodesType
  <2>1. \A j \in Slots : Cell(EMPTY, j, FALSE) \in Cells
    <3>1. Slots \subseteq Nat
      BY Constants DEF Slots
    <3> QED  BY Zenon, <3>1, Constants, Fields
  <2>2. NodeCells \in [Slots -> Cells]
    BY Zenon, <2>1 DEF NodeCells
  <2> QED  BY Zenon, <2>2, Constants, Fields DEF Init, NodesType
<1>2. ThreadsType
  <2>1. <<>> \in Seq(Nodes)
    OBVIOUS
  <2>2. "idle" \in Points
    BY DEF Points
  <2> QED  BY Zenon, <2>1, <2>2, NoLocalsType DEF Init, ThreadsType
<1>3. HistoryType
  BY DEF Init, HistoryInit, HistoryType, NoCall
<1> QED  BY <1>1, <1>2, <1>3 DEF TypeOK

(* Types of the local variables of a thread and of its retired nodes. *)
LEMMA Typed ==
  ASSUME TypeOK, NEW p \in Threads
  PROVE  /\ loc[p] \in Locals /\ Node(p) \in Nodes \cup {nullptr}
         /\ loc[p].next \in Nodes \cup {nullptr}
         /\ loc[p].tk \in Nat /\ Slot(loc[p].tk) \in Slots
         /\ loc[p].seen \in Cells /\ loc[p].tt \in Tails
         /\ loc[p].r \in Nat /\ loc[p].h \in Nat /\ loc[p].try_close \in Nat
         /\ loc[p].item \in Values /\ loc[p].iret \in Nat /\ loc[p].tid \in Nat
         /\ retired[p] \in Seq(Nodes) /\ Len(retired[p]) \in Nat
         /\ pc[p] \in Points /\ p \in DOMAIN pc /\ p \in DOMAIN loc
         /\ p \in DOMAIN hp /\ p \in DOMAIN retired
<1>1. /\ loc[p] \in Locals /\ retired[p] \in Seq(Nodes) /\ pc[p] \in Points
      /\ p \in DOMAIN pc /\ p \in DOMAIN loc
      /\ p \in DOMAIN hp /\ p \in DOMAIN retired
  BY Zenon DEF TypeOK, ThreadsType
<1>2. Len(retired[p]) \in Nat
  BY <1>1
<1>3. /\ Node(p) \in Nodes \cup {nullptr} /\ loc[p].next \in Nodes \cup {nullptr}
      /\ loc[p].tk \in Nat /\ loc[p].seen \in Cells /\ loc[p].tt \in Tails
      /\ loc[p].r \in Nat /\ loc[p].h \in Nat /\ loc[p].try_close \in Nat
      /\ loc[p].item \in Values /\ loc[p].iret \in Nat /\ loc[p].tid \in Nat
  BY <1>1 DEF Locals, Node
<1>4. Slot(loc[p].tk) \in Slots
  BY <1>3, SlotType
<1> QED  BY Zenon, <1>1, <1>2, <1>3, <1>4

(* Types of the node a thread works on. *)
LEMMA NodeTyped ==
  ASSUME TypeOK, NEW p \in Threads, Node(p) \in Nodes
  PROVE  /\ nhead[Node(p)] \in Nat /\ ntail[Node(p)] \in Tails
         /\ nnext[Node(p)] \in Nodes \cup {nullptr} /\ CellOf(p) \in Cells
BY Zenon, Typed DEF TypeOK, NodesType, CellOf

(* Every step preserves the types of the local variables. *)
LEMMA StepLoc ==
  ASSUME TypeOK, LocalsInv, NEW p \in Threads, enqueue(p) \/ dequeue(p)
  PROVE  loc' \in [Threads -> Locals]
<1>0. loc \in [Threads -> Locals] /\ {head, tail} \subseteq Nodes
  BY DEF TypeOK, ThreadsType, NodesType
<1>1. \A l \in Locals : loc' = [loc EXCEPT ![p] = l] => loc' \in [Threads -> Locals]
  BY Zenon, <1>0
<1>2. UNCHANGED loc => loc' \in [Threads -> Locals]
  BY <1>0
<1>3. \A n \in Nodes \cup {nullptr} :
        /\ [loc[p] EXCEPT !.node = n] \in Locals
        /\ [loc[p] EXCEPT !.next = n] \in Locals
        /\ [loc[p] EXCEPT !.next = n, !.tt = OpenAt(0), !.h = 0] \in Locals
  <2>1. 0 \in Nat /\ OpenAt(0) \in Tails
    BY Fields
  <2>2. \A n \in Nodes \cup {nullptr} : /\ [loc[p] EXCEPT !.node = n] \in Locals
                                       /\ [loc[p] EXCEPT !.next = n] \in Locals
    BY Zenon, Typed DEF Locals
  <2>3. \A n \in Nodes \cup {nullptr} :
          [loc[p] EXCEPT !.next = n, !.tt = OpenAt(0), !.h = 0] \in Locals
    BY Zenon, <2>1, Typed DEF Locals
  <2> QED  BY Zenon, <2>2, <2>3
<1>4. \A k \in Nat : /\ [loc[p] EXCEPT !.tk = k] \in Locals
                     /\ [loc[p] EXCEPT !.h = k] \in Locals
                     /\ [loc[p] EXCEPT !.try_close = k] \in Locals
  BY Zenon, Typed DEF Locals
<1>5. \A c \in Cells : [loc[p] EXCEPT !.seen = c] \in Locals
  BY Zenon, Typed DEF Locals
<1>6. \A point : Iterate(p, point) => loc' \in [Threads -> Locals]
  <2>1. [NoLocals EXCEPT !.item = loc[p].item, !.try_close = loc[p].try_close]
          \in Locals
    BY Zenon, NoLocalsType, Typed DEF Locals
  <2> QED  BY Zenon, <2>1, <1>1 DEF Iterate
<1>7. \A point : LeaveCell(p, point) => loc' \in [Threads -> Locals]
  <2>1. [NoLocals EXCEPT !.node = Node(p), !.tk = loc[p].tk] \in Locals
    BY Zenon, NoLocalsType, Typed DEF Locals
  <2> QED  BY Zenon, <2>1, <1>1 DEF LeaveCell
<1>8. \A seen \in Cells, tt \in Tails :
        Poll(p, seen, tt) => loc' \in [Threads -> Locals]
  <2> SUFFICES ASSUME NEW seen \in Cells, NEW tt \in Tails, Poll(p, seen, tt)
               PROVE  loc' \in [Threads -> Locals]
    OBVIOUS
  <2>1. PICK n \in Nat : loc' = [loc EXCEPT ![p] =
                [loc[p] EXCEPT !.seen = seen, !.tt = tt, !.r = n]]
    <3> DEFINE skip == \/ seen.unsafe \/ tt.idx < loc[p].tk + 1
                       \/ loc[p].r > SPIN_LIMIT \/ tt.closed
               n == IF skip THEN loc[p].r ELSE loc[p].r + 1
    <3>1. n \in Nat  BY Typed
    <3>2. loc' = [loc EXCEPT ![p] =
                [loc[p] EXCEPT !.seen = seen, !.tt = tt, !.r = n]]
      BY Zenon DEF Poll
    <3> QED  BY Zenon, <3>1, <3>2
  <2>2. [loc[p] EXCEPT !.seen = seen, !.tt = tt, !.r = n] \in Locals
    BY Zenon, Typed DEF Locals
  <2> QED  BY <2>1, <2>2, <1>1
<1>9. Clear(p) => loc' \in [Threads -> Locals]
  BY Zenon, <1>1, NoLocalsType DEF Clear
<1>a. CASE \E v \in Items : EnqCall(p, v)
  <2>1. PICK v \in Items : loc' = [loc EXCEPT ![p] = [loc[p] EXCEPT !.item = v]]
    BY Zenon, <1>a DEF EnqCall
  <2>2. [loc[p] EXCEPT !.item = v] \in Locals
    BY Zenon, Typed, Constants DEF Locals
  <2> QED  BY <2>1, <2>2, <1>1
<1>b. CASE EnqLoad(p) \/ DeqLoad(p)
  BY Zenon, <1>b, <1>0, <1>1, <1>3 DEF EnqLoad, DeqLoad, Load
<1>c. CASE EnqProtect(p) \/ DeqProtect(p) \/ EnqSwing(p) \/ EnqReadVal(p)
           \/ EnqReadHead(p) \/ EnqCas(p) \/ DeqCall(p) \/ DeqTake(p)
           \/ DeqCloseNode(p) \/ FixSame(p) \/ FixCas(p)
  BY Zenon, <1>c, <1>2 DEF EnqProtect, DeqProtect, Protect, EnqSwing, EnqReadVal,
     EnqReadHead, EnqCas, DeqCall, DeqTake, DeqCloseNode, FixSame, FixCas
<1>d. CASE EnqCheck(p) \/ DeqCheck(p) \/ EnqHelp(p) \/ EnqClose(p)
           \/ DeqCheckEmpty(p) \/ DeqRecheck(p)
  BY Zenon, <1>d, <1>2, <1>6 DEF EnqCheck, DeqCheck, Check, EnqHelp, EnqClose,
     DeqCheckEmpty, DeqRecheck
<1>e. CASE EnqNext(p) \/ DeqNext(p)
  <2>1. Node(p) \in Nodes
    BY <1>e DEF LocalsInv, EnqNext, DeqNext, HoldPoints, EnqHoldPoints, DeqHoldPoints
  <2>2. PICK n \in Nodes \cup {nullptr} : n = nnext[Node(p)]
    BY <2>1, NodeTyped
  <2>3. CASE EnqNext(p)
    BY Zenon, <2>2, <2>3, <1>1, <1>3 DEF EnqNext
  <2>4. CASE DeqNext(p)
    <3>1. loc' = [loc EXCEPT ![p] =
                    [loc[p] EXCEPT !.next = n, !.tt = OpenAt(0), !.h = 0]]
      BY Zenon, <2>2, <2>4 DEF DeqNext
    <3> QED  BY Zenon, <3>1, <1>1, <1>3
  <2> QED  BY <1>e, <2>3, <2>4
<1>f. CASE EnqTicket(p) \/ DeqTicket(p) \/ FixLoadHead(p)
  <2>1. Node(p) \in Nodes
    BY <1>f DEF LocalsInv, EnqTicket, DeqTicket, FixLoadHead, HoldPoints,
       EnqHoldPoints, DeqHoldPoints
  <2> QED  BY Zenon, <1>f, <2>1, <1>1, <1>4, NodeTyped, Fields
              DEF EnqTicket, DeqTicket, FixLoadHead
<1>g. CASE EnqAlloc(p)
  <2>1. PICK n \in Nodes : \/ loc' = [loc EXCEPT ![p] = [loc[p] EXCEPT !.next = n]]
                           \/ Iterate(p, "enq_load")
    BY Zenon, <1>g DEF EnqAlloc
  <2>2. [loc[p] EXCEPT !.next = n] \in Locals
    BY Zenon, <1>3
  <2> QED  BY <2>1, <2>2, <1>1, <1>6
<1>h. CASE EnqReadIdx(p) \/ DeqReadIdx(p)
  <2>1. Node(p) \in Nodes
    BY <1>h DEF LocalsInv, EnqReadIdx, DeqReadIdx, HoldPoints,
       EnqHoldPoints, DeqHoldPoints, CellPoints
  <2>2. Cell(EMPTY, CellOf(p).idx, CellOf(p).unsafe) \in Cells
    BY Zenon, <2>1, NodeTyped, Fields, Constants
  <2> QED  BY Zenon, <1>h, <2>2, <1>1, <1>5 DEF EnqReadIdx, DeqReadIdx
<1>i. CASE EnqFull(p)
  <2>1. loc[p].try_close + 1 \in Nat
    BY Typed
  <2> QED  BY Zenon, <1>i, <2>1, <1>1, <1>4, <1>6 DEF EnqFull
<1>j. CASE DeqReadVal(p)
  <2>1. Node(p) \in Nodes
    BY <1>j DEF LocalsInv, DeqReadVal, HoldPoints, DeqHoldPoints, CellPoints
  <2>2. PICK seen \in Cells : seen = [loc[p].seen EXCEPT !.val = CellOf(p).val]
    <3>1. PICK v \in Values : v = CellOf(p).val
      BY Zenon, <2>1, NodeTyped, Fields
    <3>2. [loc[p].seen EXCEPT !.val = v] \in Cells
      BY Zenon, Typed DEF Cells
    <3> QED  BY Zenon, <3>1, <3>2
  <2>3. \/ LeaveCell(p, "deq_empty") \/ loc' = [loc EXCEPT ![p].seen = seen]
        \/ Poll(p, seen, loc[p].tt)
    BY Zenon, <1>j, <2>2 DEF DeqReadVal
  <2> QED  BY Zenon, <2>3, <1>1, <1>5, <1>7, <1>8, Typed
<1>k. CASE DeqMarkUnsafe(p) \/ DeqSkip(p)
  BY Zenon, <1>k, <1>2, <1>7 DEF DeqMarkUnsafe, DeqSkip
<1>l. CASE DeqLoadTail(p)
  <2>1. Node(p) \in Nodes
    BY <1>l DEF LocalsInv, DeqLoadTail, HoldPoints, DeqHoldPoints, CellPoints
  <2> QED  BY Zenon, <1>l, <2>1, <1>8, Typed, NodeTyped DEF DeqLoadTail
<1>m. CASE FixLoadTail(p)
  <2>1. Node(p) \in Nodes
    BY <1>m DEF LocalsInv, FixLoadTail, HoldPoints, DeqHoldPoints
  <2>2. [loc[p] EXCEPT !.tt = ntail[Node(p)]] \in Locals
    BY Zenon, <2>1, Typed, NodeTyped DEF Locals
  <2> QED  BY Zenon, <1>m, <2>2, <1>1 DEF FixLoadTail
<1>n. CASE DeqAdvance(p)
  BY Zenon, <1>n, <1>1, <1>6, NoLocalsType DEF DeqAdvance
<1>o. CASE retire(p)
  <2>1. \A j, k \in Nat : [loc[p] EXCEPT !.iret = j, !.tid = k] \in Locals
    BY Zenon, Typed DEF Locals
  <2>2. \A j, k \in Nat : loc' = [loc EXCEPT ![p].iret = j, ![p].tid = k]
                           => loc' \in [Threads -> Locals]
    <3> SUFFICES ASSUME NEW j \in Nat, NEW k \in Nat,
                        loc' = [loc EXCEPT ![p].iret = j, ![p].tid = k]
                 PROVE  loc' \in [Threads -> Locals]
      OBVIOUS
    <3>1. loc' = [loc EXCEPT ![p] = [loc[p] EXCEPT !.iret = j, !.tid = k]]
      BY Zenon
    <3> QED  BY Zenon, <3>1, <2>1, <1>1
  <2>3. PICK i \in Nat, t \in Nat : i = loc[p].iret /\ t = loc[p].tid
    BY Typed
  <2>4. i + 1 \in Nat /\ t + 1 \in Nat /\ 0 \in Nat
    BY <2>3
  <2>5. \/ loc' = [loc EXCEPT ![p].iret = i + 1, ![p].tid = 0]
        \/ loc' = [loc EXCEPT ![p].iret = i, ![p].tid = t + 1]
        \/ loc' = [loc EXCEPT ![p].iret = i, ![p].tid = 0]
        \/ Iterate(p, "deq_load")
    BY Zenon, <1>o, <2>3 DEF retire
  <2> QED  BY Zenon, <2>2, <2>3, <2>4, <2>5, <1>6
<1>p. CASE EnqClear(p) \/ DeqClear(p)
  BY Zenon, <1>p, <1>9 DEF EnqClear, DeqClear
<1> QED
  BY ZenonT(40), <1>a, <1>b, <1>c, <1>d, <1>e, <1>f, <1>g, <1>h, <1>i, <1>j, <1>k,
     <1>l, <1>m, <1>n, <1>o, <1>p DEF enqueue, dequeue, fixState

(* Every step takes a thread to a point of the code. *)
LEMMA StepPc ==
  ASSUME TypeOK, NEW p \in Threads, enqueue(p) \/ dequeue(p)
  PROVE  pc' \in [Threads -> Points]
<1>0. pc \in [Threads -> Points]
  BY DEF TypeOK, ThreadsType
<1>1. \A point \in Points : Goto(p, point) => pc' \in [Threads -> Points]
  BY Zenon, <1>0 DEF Goto
<1>2. \A point \in Points : Iterate(p, point) => pc' \in [Threads -> Points]
  BY Zenon, <1>1 DEF Iterate
<1>3. \A point \in Points : LeaveCell(p, point) => pc' \in [Threads -> Points]
  BY Zenon, <1>1 DEF LeaveCell
<1>4. \A seen, tt : Poll(p, seen, tt) => pc' \in [Threads -> Points]
  BY Zenon, <1>1 DEF Poll, Points, UsePoints, CellPoints
<1>5. Clear(p) => pc' \in [Threads -> Points]
  BY Zenon, <1>1 DEF Clear, Points
<1> USE DEF Points, UsePoints, CellPoints
<1>a. CASE \/ \E v \in Items : EnqCall(p, v)
           \/ EnqLoad(p) \/ EnqProtect(p) \/ EnqCheck(p) \/ EnqNext(p)
           \/ EnqHelp(p) \/ EnqTicket(p)
  BY Zenon, <1>a, <1>1, <1>2 DEF EnqCall, EnqLoad, Load, EnqProtect, Protect,
     EnqCheck, Check, EnqNext, EnqHelp, EnqTicket
<1>b. CASE EnqAlloc(p) \/ EnqSwing(p) \/ EnqReadIdx(p) \/ EnqReadVal(p)
           \/ EnqReadHead(p) \/ EnqCas(p) \/ EnqFull(p) \/ EnqClose(p)
           \/ EnqClear(p)
  BY Zenon, <1>b, <1>1, <1>2, <1>5 DEF EnqAlloc, EnqSwing, EnqReadIdx, EnqReadVal,
     EnqReadHead, EnqCas, EnqFull, EnqClose, EnqClear
<1>c. CASE DeqCall(p) \/ DeqLoad(p) \/ DeqProtect(p) \/ DeqCheck(p)
           \/ DeqTicket(p) \/ DeqReadIdx(p)
  BY Zenon, <1>c, <1>1, <1>2 DEF DeqCall, DeqLoad, Load, DeqProtect, Protect,
     DeqCheck, Check, DeqTicket, DeqReadIdx
<1>d. CASE DeqReadVal(p) \/ DeqTake(p) \/ DeqMarkUnsafe(p) \/ DeqLoadTail(p)
           \/ DeqSkip(p) \/ DeqCloseNode(p) \/ DeqCheckEmpty(p)
  BY Zenon, <1>d, <1>1, <1>2, <1>3, <1>4 DEF DeqReadVal, DeqTake, DeqMarkUnsafe,
     DeqLoadTail, DeqSkip, DeqCloseNode, DeqCheckEmpty
<1>e. CASE fixState(p) \/ DeqNext(p) \/ DeqRecheck(p)
  BY Zenon, <1>e, <1>1, <1>2 DEF fixState, FixLoadTail, FixLoadHead, FixSame,
     FixCas, DeqNext, DeqRecheck
<1>f. CASE DeqAdvance(p) \/ retire(p) \/ DeqClear(p)
  BY Zenon, <1>f, <1>0, <1>1, <1>2, <1>5 DEF DeqAdvance, retire, DeqClear
<1> QED  BY Zenon, <1>a, <1>b, <1>c, <1>d, <1>e, <1>f DEF enqueue, dequeue

(* Every step preserves the types of the hazard pointers and retired lists. *)
LEMMA StepHazardType ==
  ASSUME TypeOK, LocalsInv, NEW p \in Threads, enqueue(p) \/ dequeue(p)
  PROVE  /\ hp' \in [Threads -> Nodes \cup {nullptr}]
         /\ retired' \in [Threads -> Seq(Nodes)]
<1>0. hp \in [Threads -> Nodes \cup {nullptr}] /\ retired \in [Threads -> Seq(Nodes)]
  BY DEF TypeOK, ThreadsType
<1>1. CASE UNCHANGED hazard
  BY <1>0, <1>1 DEF hazard
<1>2. CASE EnqProtect(p) \/ DeqProtect(p)
  BY Zenon, <1>0, <1>2, Typed DEF EnqProtect, DeqProtect, Protect
<1>3. CASE EnqClear(p) \/ DeqClear(p)
  BY Zenon, <1>0, <1>3 DEF EnqClear, DeqClear, Clear
<1>4. CASE DeqAdvance(p)
  <2>1. Node(p) \in Nodes
    BY <1>4 DEF DeqAdvance, LocalsInv, HoldPoints, DeqHoldPoints
  <2>2. Append(retired[p], Node(p)) \in Seq(Nodes)
    BY <2>1, Typed
  <2> QED  BY Zenon, <1>0, <1>4, <2>2 DEF DeqAdvance
<1>5. CASE retire(p)
  <2>1. CASE UNCHANGED retired
    BY Zenon, <1>0, <1>5, <2>1 DEF retire
  <2>2. CASE /\ ~(loc[p].iret > Len(retired[p]))
             /\ retired' = [retired EXCEPT ![p] = Erase(@, loc[p].iret)]
    <3>1. loc[p].iret \in 1..Len(retired[p])
      BY <1>5, <2>2, Typed DEF retire, LocalsInv
    <3>2. Erase(retired[p], loc[p].iret) \in Seq(Nodes)
      BY <3>1, Typed, EraseProperties
    <3> QED  BY Zenon, <1>0, <1>5, <2>2, <3>2 DEF retire
  <2> QED  BY Zenon, <1>5, <2>1, <2>2 DEF retire
<1> QED
  BY ZenonT(40), <1>1, <1>2, <1>3, <1>4, <1>5 DEF enqueue, dequeue, fixState,
     shared, CAS2, CAS2Fails, EnqCall, EnqLoad, Load, EnqCheck, Check, EnqNext,
     AdvanceTail, EnqHelp, EnqTicket, EnqAlloc, EnqSwing, EnqReadIdx, EnqReadVal,
     EnqReadHead, EnqCas, EnqFull, EnqClose, DeqCall, DeqLoad, DeqCheck, DeqTicket,
     DeqReadIdx, DeqReadVal, DeqTake, DeqMarkUnsafe, DeqLoadTail, DeqSkip,
     DeqCloseNode, DeqCheckEmpty, FixLoadTail, FixLoadHead, FixSame, FixCas,
     DeqNext, DeqRecheck

(* Every step preserves the types of the nodes. *)
LEMMA StepNodesType ==
  ASSUME TypeOK, LocalsInv, NEW p \in Threads, enqueue(p) \/ dequeue(p)
  PROVE  NodesType'
<1>0. NodesType
  BY DEF TypeOK
<1>1. UNCHANGED <<ends, nodes>> => NodesType'
  BY Zenon, <1>0 DEF ends, nodes, NodesType
<1>2. \A c \in Cells : CAS2(p, c) /\ Node(p) \in Nodes => NodesType'
  <2> SUFFICES ASSUME NEW c \in Cells, CAS2(p, c), Node(p) \in Nodes
               PROVE  NodesType'
    OBVIOUS
  <2>1. array' \in [Nodes -> [Slots -> Cells]]
    BY Zenon, <1>0, Typed DEF CAS2, NodesType
  <2> QED  BY Zenon, <2>1, <1>0 DEF CAS2, NodesType, ends
<1>3. CAS2Fails(p) => NodesType'
  BY Zenon, <1>1 DEF CAS2Fails, shared
<1>4. \A t \in Tails : ntail' = [ntail EXCEPT ![Node(p)] = t]
                     => ntail' \in [Nodes -> Tails]
  BY Zenon, <1>0 DEF NodesType
<1>5. Node(p) \in Nodes =>
        /\ \A k \in Nat : [ntail[Node(p)] EXCEPT !.idx = k] \in Tails
        /\ \A b \in BOOLEAN : [ntail[Node(p)] EXCEPT !.closed = b] \in Tails
  BY Zenon, NodeTyped DEF Tails
<1>6. AdvanceTail(p) /\ loc[p].next \in Nodes => NodesType'
  BY <1>0 DEF AdvanceTail, nodes, NodesType
<1> USE DEF HoldPoints, EnqHoldPoints, DeqHoldPoints, CellPoints, NextPoints
<1>a. CASE UNCHANGED <<ends, nodes>>
  BY <1>a, <1>1
<1>b. CASE EnqHelp(p) \/ EnqSwing(p)
  <2>1. loc[p].next \in Nodes
    BY <1>b DEF EnqHelp, EnqSwing, LocalsInv
  <2> QED  BY <1>b, <2>1, <1>6 DEF EnqHelp, EnqSwing
<1>c. CASE EnqTicket(p)
  <2>1. Node(p) \in Nodes
    BY <1>c DEF EnqTicket, LocalsInv
  <2>2. ntail[Node(p)].idx + 1 \in Nat
    BY <2>1, NodeTyped, Fields
  <2>3. ntail' \in [Nodes -> Tails]
    BY Zenon, <1>c, <2>1, <2>2, <1>4, <1>5 DEF EnqTicket
  <2> QED  BY Zenon, <1>0, <1>c, <2>3 DEF EnqTicket, ends, NodesType
<1>d. CASE EnqAlloc(p)
  <2>1. CASE UNCHANGED shared
    BY Zenon, <2>1, <1>1 DEF shared
  <2>2. CASE ~UNCHANGED shared
    <3>1. PICK n \in Nodes :
            /\ nhead' = [nhead EXCEPT ![n] = 0]
            /\ ntail' = [ntail EXCEPT ![n] = OpenAt(1)]
            /\ nnext' = [nnext EXCEPT ![n] = nullptr, ![Node(p)] = n]
            /\ array' = [array EXCEPT ![n] =
                           [NodeCells EXCEPT ![0] = Cell(loc[p].item, 0, FALSE)]]
            /\ live' = live \cup {n}
            /\ UNCHANGED ends
      BY Zenon, <1>d, <2>2 DEF EnqAlloc
    <3>2. NodeCells \in [Slots -> Cells]
      <4>1. Slots \subseteq Nat
        BY Constants DEF Slots
      <4> QED  BY Zenon, <4>1, Constants, Fields DEF NodeCells
    <3>3. Cell(loc[p].item, 0, FALSE) \in Cells
      BY Typed, Fields
    <3>4. [NodeCells EXCEPT ![0] = Cell(loc[p].item, 0, FALSE)] \in [Slots -> Cells]
      BY Zenon, <3>2, <3>3
    <3>5. array' \in [Nodes -> [Slots -> Cells]]
      BY Zenon, <1>0, <3>1, <3>4 DEF NodesType
    <3>6. 1 \in Nat /\ 0 \in Nat
      OBVIOUS
    <3>7. /\ ntail' \in [Nodes -> Tails] /\ nhead' \in [Nodes -> Nat]
          /\ nnext' \in [Nodes -> Nodes \cup {nullptr}]
      BY Zenon, <1>0, <3>1, <3>6, Fields DEF NodesType
    <3>8. live' \subseteq Nodes
      BY Zenon, <1>0, <3>1 DEF NodesType
    <3> QED  BY Zenon, <1>0, <3>1, <3>5, <3>7, <3>8 DEF NodesType, ends
  <2> QED  BY <2>1, <2>2
<1>e. CASE EnqCas(p)
  <2>1. Node(p) \in Nodes
    BY <1>e DEF EnqCas, LocalsInv
  <2>2. Cell(loc[p].item, loc[p].tk, FALSE) \in Cells
    BY Zenon, Typed, Fields
  <2> QED  BY Zenon, <1>e, <2>1, <2>2, <1>2, <1>3 DEF EnqCas
<1>f. CASE EnqClose(p)
  <2>1. Node(p) \in Nodes
    BY <1>f DEF EnqClose, LocalsInv
  <2>2. PICK b \in BOOLEAN : ntail' = [ntail EXCEPT ![Node(p)].closed = b]
    <3> DEFINE b == ntail[Node(p)].closed \/ loc[p].try_close >= CLOSE_TRIES
                       \/ ntail[Node(p)].idx = loc[p].tk + 1
    <3>1. ntail' = [ntail EXCEPT ![Node(p)].closed = b]
      BY Zenon, <1>f DEF EnqClose, close_crq
    <3>2. b \in BOOLEAN
      BY Zenon
    <3> QED  BY Zenon, <3>1, <3>2
  <2>3. ntail' \in [Nodes -> Tails]
    BY Zenon, <2>1, <2>2, <1>4, <1>5
  <2> QED  BY Zenon, <1>0, <1>f, <2>3 DEF EnqClose, ends, NodesType
<1>g. CASE DeqTicket(p)
  <2>1. Node(p) \in Nodes
    BY <1>g DEF DeqTicket, LocalsInv
  <2>2. nhead[Node(p)] + 1 \in Nat
    BY <2>1, NodeTyped
  <2> QED  BY Zenon, <1>0, <1>g, <2>2 DEF DeqTicket, ends, NodesType
<1>h. CASE DeqTake(p) \/ DeqSkip(p)
  <2>1. Node(p) \in Nodes
    BY <1>h DEF DeqTake, DeqSkip, LocalsInv
  <2>2. loc[p].tk + RING_SIZE \in Nat
    BY Typed, Constants
  <2>3. Cell(EMPTY, loc[p].tk + RING_SIZE, loc[p].seen.unsafe) \in Cells
    BY Zenon, <2>2, Typed, Fields, Constants
  <2> QED  BY Zenon, <1>h, <2>1, <2>3, <1>2, <1>3 DEF DeqTake, DeqSkip
<1>i. CASE DeqMarkUnsafe(p)
  <2>1. Node(p) \in Nodes
    BY <1>i DEF DeqMarkUnsafe, LocalsInv
  <2>2. Cell(loc[p].seen.val, loc[p].seen.idx, TRUE) \in Cells
    BY Zenon, Typed, Fields
  <2> QED  BY Zenon, <1>i, <2>1, <2>2, <1>2, <1>3 DEF DeqMarkUnsafe
<1>j. CASE DeqCloseNode(p)
  <2>1. Node(p) \in Nodes
    BY <1>j DEF DeqCloseNode, LocalsInv
  <2>2. ntail' \in [Nodes -> Tails]
    BY Zenon, <1>j, <2>1, <1>4, <1>5 DEF DeqCloseNode
  <2> QED  BY Zenon, <1>0, <1>j, <2>2 DEF DeqCloseNode, ends, NodesType
<1>k. CASE FixCas(p)
  <2>1. ntail' \in [Nodes -> Tails]
    BY Zenon, <1>k, <1>0, <1>4, Typed, Fields DEF FixCas, NodesType
  <2> QED  BY Zenon, <1>k, <2>1, <1>0 DEF FixCas, ends, NodesType
<1>l. CASE DeqAdvance(p)
  <2>1. loc[p].next \in Nodes
    BY <1>l DEF DeqAdvance, LocalsInv
  <2>2. head' \in Nodes
    BY Zenon, <1>l, <1>0, <2>1 DEF DeqAdvance, NodesType
  <2> QED  BY Zenon, <1>l, <1>0, <2>2 DEF DeqAdvance, nodes, NodesType
<1>m. CASE retire(p)
  <2>1. live' \subseteq live
    BY Zenon, <1>m DEF retire
  <2> QED  BY Zenon, <1>m, <1>0, <2>1 DEF retire, ends, NodesType
<1> QED
  BY ZenonT(40), <1>a, <1>b, <1>c, <1>d, <1>e, <1>f, <1>g, <1>h, <1>i, <1>j, <1>k,
     <1>l, <1>m DEF enqueue, dequeue, fixState, shared, EnqCall, EnqLoad, Load,
     EnqProtect, DeqProtect, Protect, EnqCheck, Check, EnqNext, EnqReadIdx,
     EnqReadVal, EnqReadHead, EnqFull, EnqClear, DeqClear, Clear, DeqCall,
     DeqLoad, DeqCheck, DeqReadIdx, DeqReadVal, DeqLoadTail, DeqCheckEmpty,
     FixLoadTail, FixLoadHead, FixSame, DeqNext, DeqRecheck

(* Every step preserves the type of the history. *)
LEMMA StepHistoryType ==
  ASSUME TypeOK, LocalsInv, NEW p \in Threads, enqueue(p) \/ dequeue(p)
  PROVE  HistoryType'
<1>0. HistoryType
  BY DEF TypeOK
<1>a. CASE UNCHANGED history
  BY <1>a, <1>0, HistoryTyped
<1>b. CASE \E v \in Items : EnqCall(p, v)
  BY Zenon, <1>b, <1>0, HistoryTyped DEF EnqCall
<1>c. CASE EnqClear(p)
  <2>1. loc[p].item \in Items
    BY Zenon, <1>c DEF EnqClear, LocalsInv, EnqPoints
  <2> QED  BY Zenon, <1>c, <1>0, <2>1, HistoryTyped DEF EnqClear
<1>d. CASE DeqCall(p)
  BY Zenon, <1>d, <1>0, HistoryTyped DEF DeqCall
<1>e. CASE DeqClear(p)
  <2>1. loc[p].seen.val # EMPTY => loc[p].seen.val \in Items
    BY Zenon, Typed, Fields DEF Values
  <2> QED  BY Zenon, <1>e, <1>0, <2>1, HistoryTyped DEF DeqClear
<1> QED
  BY ZenonT(40), <1>a, <1>b, <1>c, <1>d, <1>e DEF enqueue, dequeue, fixState,
     EnqLoad, Load, EnqProtect, DeqProtect, Protect, EnqCheck, Check, EnqNext,
     EnqHelp, EnqTicket, EnqAlloc, EnqSwing, EnqReadIdx, EnqReadVal, EnqReadHead,
     EnqCas, EnqFull, EnqClose, DeqLoad, DeqCheck, DeqTicket, DeqReadIdx,
     DeqReadVal, DeqTake, DeqMarkUnsafe, DeqLoadTail, DeqSkip, DeqCloseNode,
     DeqCheckEmpty, FixLoadTail, FixLoadHead, FixSame, FixCas, DeqNext,
     DeqRecheck, DeqAdvance, retire

(* Every step preserves the type invariant. *)
LEMMA StepType ==
  ASSUME TypeOK, LocalsInv, NEW p \in Threads, enqueue(p) \/ dequeue(p)
  PROVE  TypeOK'
BY StepLoc, StepPc, StepHazardType, StepNodesType, StepHistoryType
   DEF TypeOK, ThreadsType
-----------------------------------------------------------------------------
(* A step of p leaves the variables of the other threads alone. *)
LEMMA OtherThreads ==
  ASSUME TypeOK, NEW p \in Threads, enqueue(p) \/ dequeue(p), NEW o \in Threads,
         o # p
  PROVE  /\ pc'[o] = pc[o] /\ loc'[o] = loc[o] /\ Node(o)' = Node(o)
         /\ hp'[o] = hp[o] /\ retired'[o] = retired[o]
<1> USE DEF TypeOK, ThreadsType, enqueue, dequeue, fixState, shared, ends, nodes,
     hazard, CAS2, CAS2Fails, EnqCall, EnqLoad, Load, EnqProtect, DeqProtect,
     Protect, EnqCheck, Check, EnqNext, AdvanceTail, EnqHelp, EnqTicket, EnqAlloc,
     EnqSwing, EnqReadIdx, EnqReadVal, EnqReadHead, EnqCas, EnqFull, EnqClose,
     EnqClear, DeqClear, Clear, DeqCall, DeqLoad, DeqCheck, DeqTicket, DeqReadIdx,
     DeqReadVal, DeqTake, DeqMarkUnsafe, DeqLoadTail, DeqSkip, DeqCloseNode,
     DeqCheckEmpty, FixLoadTail, FixLoadHead, FixSame, FixCas, DeqNext,
     DeqRecheck, DeqAdvance, retire
<1>1. pc'[o] = pc[o]
  BY ZenonT(60) DEF Goto, Iterate, LeaveCell, Poll
<1>2. loc'[o] = loc[o]
  BY ZenonT(60) DEF Iterate, LeaveCell, Poll
<1>3. hp'[o] = hp[o]
  BY ZenonT(60)
<1>4. retired'[o] = retired[o]
  BY ZenonT(60)
<1> QED  BY <1>1, <1>2, <1>3, <1>4 DEF Node

(* Where a thread arrives, and what it keeps of its local variables. *)
LEMMA Arrives ==
  ASSUME TypeOK, NEW p \in Threads
  PROVE  /\ \A point : Goto(p, point) => pc'[p] = point
         /\ UNCHANGED loc => Node(p)' = Node(p)
         /\ Clear(p) => pc'[p] = "idle"
         /\ \A point : Iterate(p, point) =>
              pc'[p] = point /\ loc'[p].item = loc[p].item
         /\ \A point : LeaveCell(p, point) => pc'[p] = point /\ Node(p)' = Node(p)
         /\ \A seen, tt : Poll(p, seen, tt) =>
              pc'[p] \in {"deq_skip", "deq_idx"} /\ Node(p)' = Node(p)
<1>0. p \in DOMAIN pc /\ p \in DOMAIN loc /\ loc[p] \in Locals
  BY Typed
<1>1. \A point : Goto(p, point) => pc'[p] = point
  BY Zenon, <1>0 DEF Goto
<1>2. UNCHANGED loc => Node(p)' = Node(p)
  BY DEF Node
<1>3. Clear(p) => pc'[p] = "idle"
  BY <1>1 DEF Clear
<1>4. \A point : Iterate(p, point) => pc'[p] = point /\ loc'[p].item = loc[p].item
  BY ZenonT(40), <1>0, <1>1 DEF Iterate, NoLocals
<1>5. \A point : LeaveCell(p, point) => pc'[p] = point /\ Node(p)' = Node(p)
  BY ZenonT(40), <1>0, <1>1 DEF LeaveCell, NoLocals, Node
<1>6. \A seen, tt : Poll(p, seen, tt) => pc'[p] \in {"deq_skip", "deq_idx"}
  BY Zenon, <1>1 DEF Poll
<1>7. \A seen, tt : Poll(p, seen, tt) => Node(p)' = Node(p)
  BY <1>0 DEF Poll, Node, Locals
<1> QED  BY Zenon, <1>1, <1>2, <1>3, <1>4, <1>5, <1>6, <1>7

(* A thread that holds a node held it before, or has just found the node it  *)
(* published in tail (line 176) or head (line 219).                          *)
LEMMA HoldStep ==
  ASSUME TypeOK, NEW p \in Threads, enqueue(p) \/ dequeue(p),
         pc'[p] \in HoldPoints
  PROVE  /\ Node(p)' = Node(p)
         /\ \/ /\ pc[p] \in HoldPoints
               /\ pc'[p] \in EnqHoldPoints <=> pc[p] \in EnqHoldPoints
            \/ pc[p] = "enq_check" /\ pc'[p] = "enq_next" /\ Node(p) = tail
            \/ pc[p] = "deq_check" /\ pc'[p] = "deq_ticket" /\ Node(p) = head
<1>0. p \in DOMAIN pc /\ p \in DOMAIN loc /\ loc[p] \in Locals
  BY Typed
<1>1. /\ {"idle", "enq_load", "enq_protect", "enq_check", "enq_clear", "deq_load",
          "deq_protect", "deq_check", "retire", "deq_clear"} \cap HoldPoints = {}
      /\ DeqHoldPoints \cap EnqHoldPoints = {}
  BY DEF HoldPoints, EnqHoldPoints, DeqHoldPoints, CellPoints
<1>2. /\ \A point : Iterate(p, point) => point \in HoldPoints
      /\ \A point : Goto(p, point) => point \in HoldPoints
      /\ ~Clear(p)
  BY Zenon, <1>1, Arrives
<1>a. CASE \/ \E v \in Items : EnqCall(p, v)
           \/ EnqLoad(p) \/ EnqProtect(p) \/ EnqHelp(p) \/ EnqClose(p)
           \/ EnqSwing(p) \/ EnqClear(p) \/ DeqCall(p) \/ DeqLoad(p)
           \/ DeqProtect(p) \/ DeqAdvance(p) \/ DeqClear(p)
  BY Zenon, <1>a, <1>1, <1>2 DEF EnqCall, EnqLoad, Load, EnqProtect, Protect, EnqHelp, EnqClose,
     EnqSwing, EnqClear, DeqCall, DeqLoad, DeqProtect, DeqAdvance, DeqClear
<1>b. CASE EnqCheck(p) \/ DeqCheck(p)
  BY Zenon, <1>b, <1>1, <1>2, Arrives DEF EnqCheck, DeqCheck, Check
<1> USE DEF HoldPoints, EnqHoldPoints, DeqHoldPoints, CellPoints
<1>c. CASE EnqNext(p)
  BY <1>c, <1>0, Arrives DEF EnqNext, Node, Locals
<1>d. CASE EnqTicket(p)
  BY <1>d, <1>0, Arrives DEF EnqTicket, Node, Locals
<1>e. CASE EnqAlloc(p)
  <2>1. ~Iterate(p, "enq_load")
    BY Zenon, <1>1, <1>2
  <2>2. PICK n \in Nodes : loc' = [loc EXCEPT ![p].next = n]
    BY Zenon, <1>e, <2>1 DEF EnqAlloc
  <2>3. Node(p)' = Node(p)
    BY <1>0, <2>2 DEF Node, Locals
  <2> QED  BY Zenon, <1>e, <2>1, <2>3, Arrives DEF EnqAlloc
<1>f. CASE EnqReadIdx(p) \/ DeqReadIdx(p)
  BY <1>f, <1>0, Arrives DEF EnqReadIdx, DeqReadIdx, Node, Locals
<1>g. CASE EnqReadVal(p) \/ EnqReadHead(p) \/ EnqCas(p)
  BY Zenon, <1>g, Arrives DEF EnqReadVal, EnqReadHead, EnqCas
<1>h. CASE EnqFull(p)
  <2>1. ~Iterate(p, "enq_load")
    BY Zenon, <1>1, <1>2
  <2>2. CASE Goto(p, "enq_close") /\ loc' = [loc EXCEPT ![p].try_close = @ + 1]
    <3>1. Node(p)' = Node(p)
      BY <2>2, <1>0 DEF Node, Locals
    <3> QED  BY Zenon, <1>h, <2>2, <3>1, Arrives DEF EnqFull
  <2> QED  BY Zenon, <1>h, <2>1, <2>2 DEF EnqFull
<1>i. CASE DeqTicket(p)
  BY <1>i, <1>0, Arrives DEF DeqTicket, Node, Locals
<1>j. CASE DeqReadVal(p)
  <2>1. Node(p)' = Node(p)
    <3> DEFINE seen == [loc[p].seen EXCEPT !.val = CellOf(p).val]
    <3>1. CASE loc' = [loc EXCEPT ![p].seen = seen]
      BY <3>1, <1>0 DEF Node, Locals
    <3> QED  BY Zenon, <1>j, <3>1, Arrives DEF DeqReadVal
  <2>2. pc'[p] \in {"deq_empty", "deq_take", "deq_mark", "deq_tail", "deq_skip",
                    "deq_idx"}
    BY Zenon, <1>j, Arrives DEF DeqReadVal
  <2> QED  BY Zenon, <1>j, <2>1, <2>2 DEF DeqReadVal
<1>k. CASE DeqTake(p) \/ DeqMarkUnsafe(p) \/ DeqLoadTail(p) \/ DeqSkip(p)
           \/ DeqCloseNode(p) \/ DeqCheckEmpty(p) \/ DeqRecheck(p)
  <2>1. ~Iterate(p, "deq_load") /\ ~Goto(p, "deq_clear")
    BY Zenon, <1>1, <1>2
  <2>2. Node(p)' = Node(p)
    BY Zenon, <1>k, <2>1, Arrives DEF DeqTake, DeqMarkUnsafe, DeqLoadTail, DeqSkip,
       DeqCloseNode, DeqCheckEmpty, DeqRecheck
  <2>3. pc[p] \in DeqHoldPoints
    BY Zenon, <1>k DEF DeqTake, DeqMarkUnsafe, DeqLoadTail, DeqSkip, DeqCloseNode,
       DeqCheckEmpty, DeqRecheck
  <2>4. pc'[p] \in DeqHoldPoints
    BY Zenon, <1>k, <2>1, Arrives DEF DeqTake, DeqMarkUnsafe, DeqLoadTail, DeqSkip,
       DeqCloseNode, DeqCheckEmpty, DeqRecheck
  <2> HIDE DEF DeqHoldPoints, EnqHoldPoints
  <2> QED  BY Zenon, <1>1, <2>2, <2>3, <2>4
<1>l. CASE FixLoadTail(p) \/ FixLoadHead(p)
  BY <1>l, <1>0, Arrives DEF FixLoadTail, FixLoadHead, Node, Locals
<1>m. CASE FixSame(p) \/ FixCas(p)
  BY Zenon, <1>m, Arrives DEF FixSame, FixCas
<1>n. CASE DeqNext(p)
  BY <1>n, <1>0, Arrives DEF DeqNext, Node, Locals
<1>o. CASE retire(p)
  <2>1. pc'[p] = "retire" \/ Iterate(p, "deq_load")
    BY Zenon, <1>o DEF retire
  <2> QED  BY Zenon, <1>1, <1>2, <2>1
<1> QED
  BY ZenonT(40), <1>a, <1>b, <1>c, <1>d, <1>e, <1>f, <1>g, <1>h, <1>i, <1>j, <1>k,
     <1>l, <1>m, <1>n, <1>o DEF enqueue, dequeue, fixState

(* Where every operation takes its thread. *)
LEMMA Edges ==
  ASSUME TypeOK, NEW p \in Threads
  PROVE  /\ \A v \in Items : EnqCall(p, v) => pc'[p] = "enq_load"
         /\ EnqLoad(p) => pc'[p] = "enq_protect"
         /\ EnqProtect(p) => pc'[p] = "enq_check"
         /\ EnqCheck(p) => pc'[p] \in {"enq_next", "enq_load"}
         /\ EnqNext(p) => pc'[p] \in {"enq_help", "enq_ticket"}
         /\ EnqHelp(p) => pc'[p] = "enq_load"
         /\ EnqTicket(p) => pc'[p] \in {"enq_alloc", "enq_idx"}
         /\ EnqAlloc(p) => pc'[p] \in {"enq_swing", "enq_load"}
         /\ EnqSwing(p) => pc'[p] = "enq_clear"
         /\ EnqReadIdx(p) => pc'[p] = "enq_val"
         /\ EnqReadVal(p) => pc'[p] \in {"enq_full", "enq_head", "enq_cas"}
         /\ EnqReadHead(p) => pc'[p] \in {"enq_cas", "enq_full"}
         /\ EnqCas(p) => pc'[p] \in {"enq_clear", "enq_full"}
         /\ EnqFull(p) => pc'[p] \in {"enq_close", "enq_load"}
         /\ EnqClose(p) => pc'[p] = "enq_load"
         /\ EnqClear(p) => pc'[p] = "idle"
         /\ DeqCall(p) => pc'[p] = "deq_load"
         /\ DeqLoad(p) => pc'[p] = "deq_protect"
         /\ DeqProtect(p) => pc'[p] = "deq_check"
         /\ DeqCheck(p) => pc'[p] \in {"deq_ticket", "deq_load"}
         /\ DeqTicket(p) => pc'[p] = "deq_idx"
         /\ DeqReadIdx(p) => pc'[p] = "deq_val"
         /\ DeqReadVal(p) => pc'[p] \in {"deq_empty", "deq_take", "deq_mark",
                                   "deq_tail", "deq_skip", "deq_idx"}
         /\ DeqTake(p) => pc'[p] \in {"deq_clear", "deq_idx"}
         /\ DeqMarkUnsafe(p) => pc'[p] \in {"deq_empty", "deq_idx"}
         /\ DeqLoadTail(p) => pc'[p] \in {"deq_skip", "deq_idx"}
         /\ DeqSkip(p) => pc'[p] \in {"deq_bts", "deq_empty", "deq_idx"}
         /\ DeqCloseNode(p) => pc'[p] = "deq_empty"
         /\ DeqCheckEmpty(p) => pc'[p] \in {"fix_tail", "deq_load"}
         /\ FixLoadTail(p) => pc'[p] = "fix_head"
         /\ FixLoadHead(p) => pc'[p] = "fix_same"
         /\ FixSame(p) => pc'[p] \in {"fix_tail", "fix_cas", "deq_next"}
         /\ FixCas(p) => pc'[p] \in {"deq_next", "fix_tail"}
         /\ DeqNext(p) => pc'[p] \in {"deq_clear", "deq_recheck"}
         /\ DeqRecheck(p) => pc'[p] \in {"deq_advance", "deq_load"}
         /\ DeqAdvance(p) => pc'[p] \in {"retire", "deq_load"}
         /\ retire(p) => pc'[p] \in {"retire", "deq_load"}
         /\ DeqClear(p) => pc'[p] = "idle"
<1> USE Arrives
<1>1. /\ \A v \in Items : EnqCall(p, v) => pc'[p] = "enq_load"
      /\ EnqLoad(p) => pc'[p] = "enq_protect"
      /\ EnqProtect(p) => pc'[p] = "enq_check"
      /\ EnqCheck(p) => pc'[p] \in {"enq_next", "enq_load"}
      /\ EnqNext(p) => pc'[p] \in {"enq_help", "enq_ticket"}
      /\ EnqHelp(p) => pc'[p] = "enq_load"
      /\ EnqTicket(p) => pc'[p] \in {"enq_alloc", "enq_idx"}
      /\ EnqAlloc(p) => pc'[p] \in {"enq_swing", "enq_load"}
  BY Zenon, Typed DEF EnqCall, EnqLoad, Load, EnqProtect, Protect, EnqCheck,
     Check, EnqNext, EnqHelp, EnqTicket, EnqAlloc
<1>2. /\ EnqSwing(p) => pc'[p] = "enq_clear"
      /\ EnqReadIdx(p) => pc'[p] = "enq_val"
      /\ EnqReadVal(p) => pc'[p] \in {"enq_full", "enq_head", "enq_cas"}
      /\ EnqReadHead(p) => pc'[p] \in {"enq_cas", "enq_full"}
      /\ EnqCas(p) => pc'[p] \in {"enq_clear", "enq_full"}
      /\ EnqFull(p) => pc'[p] \in {"enq_close", "enq_load"}
      /\ EnqClose(p) => pc'[p] = "enq_load"
      /\ EnqClear(p) => pc'[p] = "idle"
  BY Zenon, Typed DEF EnqSwing, EnqReadIdx, EnqReadVal, EnqReadHead, EnqCas,
     EnqFull, EnqClose, EnqClear
<1>3. /\ DeqCall(p) => pc'[p] = "deq_load"
      /\ DeqLoad(p) => pc'[p] = "deq_protect"
      /\ DeqProtect(p) => pc'[p] = "deq_check"
      /\ DeqCheck(p) => pc'[p] \in {"deq_ticket", "deq_load"}
      /\ DeqTicket(p) => pc'[p] = "deq_idx"
      /\ DeqReadIdx(p) => pc'[p] = "deq_val"
      /\ DeqReadVal(p) => pc'[p] \in {"deq_empty", "deq_take", "deq_mark",
                                   "deq_tail", "deq_skip", "deq_idx"}
      /\ DeqTake(p) => pc'[p] \in {"deq_clear", "deq_idx"}
  BY Zenon, Typed DEF DeqCall, DeqLoad, Load, DeqProtect, Protect, DeqCheck,
     Check, DeqTicket, DeqReadIdx, DeqReadVal, DeqTake
<1>4. /\ DeqMarkUnsafe(p) => pc'[p] \in {"deq_empty", "deq_idx"}
      /\ DeqLoadTail(p) => pc'[p] \in {"deq_skip", "deq_idx"}
      /\ DeqSkip(p) => pc'[p] \in {"deq_bts", "deq_empty", "deq_idx"}
      /\ DeqCloseNode(p) => pc'[p] = "deq_empty"
      /\ DeqCheckEmpty(p) => pc'[p] \in {"fix_tail", "deq_load"}
      /\ FixLoadTail(p) => pc'[p] = "fix_head"
      /\ FixLoadHead(p) => pc'[p] = "fix_same"
      /\ FixSame(p) => pc'[p] \in {"fix_tail", "fix_cas", "deq_next"}
  BY Zenon, Typed DEF DeqMarkUnsafe, DeqLoadTail, DeqSkip, DeqCloseNode,
     DeqCheckEmpty, FixLoadTail, FixLoadHead, FixSame
<1>5. /\ FixCas(p) => pc'[p] \in {"deq_next", "fix_tail"}
      /\ DeqNext(p) => pc'[p] \in {"deq_clear", "deq_recheck"}
      /\ DeqRecheck(p) => pc'[p] \in {"deq_advance", "deq_load"}
      /\ DeqAdvance(p) => pc'[p] \in {"retire", "deq_load"}
      /\ retire(p) => pc'[p] \in {"retire", "deq_load"}
      /\ DeqClear(p) => pc'[p] = "idle"
  BY Zenon, Typed DEF FixCas, DeqNext, DeqRecheck, DeqAdvance, retire,
     DeqClear
<1> QED  BY Zenon, <1>1, <1>2, <1>3, <1>4, <1>5

(* A thread that has loaded a node, or the next of its node, has just read *)
(* it or keeps it.                                                         *)
LEMMA LoadStep ==
  ASSUME TypeOK, LocalsInv, NEW p \in Threads, enqueue(p) \/ dequeue(p)
  PROVE  /\ pc'[p] \in LoadedPoints => Node(p)' \in Nodes
         /\ pc'[p] \in {"enq_check", "deq_check"} => hp'[p] = Node(p)'
         /\ pc'[p] \in NextPoints =>
              /\ pc[p] \in HoldPoints /\ loc'[p].next \in Nodes
              /\ \/ loc'[p].next = nnext'[Node(p)]
                 \/ /\ pc[p] = "deq_recheck" /\ loc'[p].next = loc[p].next
                    /\ UNCHANGED nnext
<1>0. /\ p \in DOMAIN pc /\ p \in DOMAIN loc /\ loc[p] \in Locals /\ p \in DOMAIN hp
      /\ {head, tail} \subseteq Nodes
  BY Typed DEF TypeOK, NodesType
<1>1. CASE EnqLoad(p) \/ DeqLoad(p)
  <2>1. Node(p)' \in Nodes
    BY <1>0, <1>1 DEF EnqLoad, DeqLoad, Load, Node, Locals
  <2> QED  BY <1>1, <2>1, Edges DEF LoadedPoints, NextPoints
<1>2. CASE EnqProtect(p) \/ DeqProtect(p)
  <2>1. Node(p)' = Node(p) /\ hp'[p] = Node(p)
    BY <1>0, <1>2 DEF EnqProtect, DeqProtect, Protect, Node
  <2>2. Node(p) \in Nodes
    BY <1>2 DEF EnqProtect, DeqProtect, Protect, LocalsInv, LoadedPoints
  <2> QED  BY <1>2, <2>1, <2>2, Edges DEF LoadedPoints, NextPoints
<1>3. CASE EnqNext(p) \/ DeqNext(p)
  <2>1. Node(p) \in Nodes /\ pc[p] \in HoldPoints
    BY <1>3 DEF EnqNext, DeqNext, LocalsInv, HoldPoints, EnqHoldPoints, DeqHoldPoints
  <2>2. loc'[p].next = nnext[Node(p)]
    BY <1>0, <1>3 DEF EnqNext, DeqNext, Locals
  <2>3. UNCHANGED nnext
    BY <1>3 DEF EnqNext, DeqNext, shared, nodes
  <2>4. pc'[p] \in NextPoints => nnext[Node(p)] # nullptr
    BY <1>3, Arrives DEF EnqNext, DeqNext, NextPoints
  <2>5. pc'[p] \notin LoadedPoints
    BY <1>3, Edges DEF LoadedPoints
  <2> QED  BY <2>1, <2>2, <2>3, <2>4, <2>5, NodeTyped DEF LoadedPoints
<1>4. CASE EnqAlloc(p)
  <2>1. Node(p) \in Nodes /\ pc[p] \in HoldPoints
    BY <1>4 DEF EnqAlloc, LocalsInv, HoldPoints, EnqHoldPoints
  <2>2. CASE pc'[p] = "enq_load"
    BY <2>2 DEF LoadedPoints, NextPoints
  <2>3. CASE pc'[p] = "enq_swing"
    <3>1. ~Iterate(p, "enq_load")
      BY <2>3, Arrives
    <3>2. PICK n \in Nodes : /\ nnext' = [nnext EXCEPT ![n] = nullptr, ![Node(p)] = n]
                             /\ loc' = [loc EXCEPT ![p].next = n]
      BY Zenon, <1>4, <3>1 DEF EnqAlloc
    <3>3. loc'[p].next = n
      BY <1>0, <3>2 DEF Locals
    <3>4. nnext'[Node(p)] = n
      BY Zenon, <2>1, <3>2 DEF TypeOK, NodesType
    <3> QED  BY <2>1, <2>3, <3>3, <3>4 DEF LoadedPoints
  <2> QED  BY <1>4, <2>2, <2>3, Edges
<1>5. CASE DeqRecheck(p)
  <2>1. pc[p] = "deq_recheck" /\ UNCHANGED nnext
    BY <1>5 DEF DeqRecheck, shared, nodes
  <2>2. loc[p].next \in Nodes /\ pc[p] \in HoldPoints
    BY <2>1 DEF LocalsInv, HoldPoints, DeqHoldPoints, NextPoints
  <2>3. UNCHANGED loc \/ pc'[p] = "deq_load"
    BY Zenon, <1>5, Arrives DEF DeqRecheck
  <2>4. pc'[p] \in {"deq_advance", "deq_load"}
    BY <1>5, Edges
  <2> QED  BY <2>1, <2>2, <2>3, <2>4 DEF LoadedPoints, NextPoints
<1>6. CASE pc'[p] \notin LoadedPoints \cup NextPoints
  BY <1>6 DEF LoadedPoints, NextPoints
<1>7. pc'[p] \notin LoadedPoints \cup NextPoints \/ EnqLoad(p) \/ DeqLoad(p)
      \/ EnqProtect(p) \/ DeqProtect(p) \/ EnqNext(p) \/ DeqNext(p)
      \/ EnqAlloc(p) \/ DeqRecheck(p)
  BY ZenonT(60), Edges DEF enqueue, dequeue, fixState, LoadedPoints, NextPoints
<1> QED  BY <1>1, <1>2, <1>3, <1>4, <1>5, <1>6, <1>7

(* An enqueue in progress keeps its item. *)
LEMMA ItemStep ==
  ASSUME TypeOK, LocalsInv, NEW p \in Threads, enqueue(p) \/ dequeue(p),
         pc'[p] \in EnqPoints
  PROVE  /\ loc'[p].item \in Items
         /\ (\A v \in Items : ~EnqCall(p, v)) =>
              pc[p] \in EnqPoints /\ loc'[p].item = loc[p].item
<1>0. /\ p \in DOMAIN pc /\ p \in DOMAIN loc /\ loc[p] \in Locals
  BY Typed
<1>1. CASE \E v \in Items : EnqCall(p, v)
  <2>1. PICK v \in Items : EnqCall(p, v)
    BY <1>1
  <2>2. loc'[p].item = v
    BY <1>0, <2>1 DEF EnqCall, Locals
  <2> QED  BY <2>1, <2>2
<1>2. CASE pc[p] \in EnqPoints /\ loc'[p].item = loc[p].item
  BY <1>2 DEF LocalsInv
<1>3. {"idle", "deq_load", "deq_protect", "deq_check", "deq_ticket", "deq_idx",
       "deq_val", "deq_take", "deq_mark", "deq_tail", "deq_skip", "deq_bts",
       "deq_empty", "fix_tail", "fix_head", "fix_same", "fix_cas", "deq_next",
       "deq_recheck", "deq_advance", "retire", "deq_clear"} \cap EnqPoints = {}
  BY DEF EnqPoints, EnqHoldPoints
<1>4. ~dequeue(p) /\ ~EnqClear(p)
  BY ZenonT(60), <1>3, Edges DEF dequeue, fixState
<1> USE DEF EnqPoints, EnqHoldPoints
<1>a. CASE EnqLoad(p)
  BY <1>0, <1>2, <1>a DEF EnqLoad, Load, Locals
<1>b. CASE EnqProtect(p) \/ EnqSwing(p) \/ EnqReadVal(p) \/ EnqReadHead(p)
           \/ EnqCas(p)
  BY Zenon, <1>2, <1>b DEF EnqProtect, Protect, EnqSwing, EnqReadVal, EnqReadHead,
     EnqCas
<1>c. CASE EnqCheck(p) \/ EnqHelp(p) \/ EnqClose(p)
  BY Zenon, <1>2, <1>c, Arrives DEF EnqCheck, Check, EnqHelp, EnqClose
<1>d. CASE EnqNext(p) \/ EnqTicket(p) \/ EnqReadIdx(p)
  BY <1>0, <1>2, <1>d DEF EnqNext, EnqTicket, EnqReadIdx, Locals
<1>e. CASE EnqAlloc(p)
  <2>1. PICK n \in Nodes : Iterate(p, "enq_load") \/ loc' = [loc EXCEPT ![p].next = n]
    BY Zenon, <1>e DEF EnqAlloc
  <2>2. loc'[p].item = loc[p].item
    BY <1>0, <2>1, Arrives DEF Locals
  <2> QED  BY <1>2, <1>e, <2>2 DEF EnqAlloc
<1>f. CASE EnqFull(p)
  <2>1. Iterate(p, "enq_load") \/ loc' = [loc EXCEPT ![p].try_close = @ + 1]
    BY Zenon, <1>f DEF EnqFull
  <2>2. loc'[p].item = loc[p].item
    BY <1>0, <2>1, Arrives DEF Locals
  <2> QED  BY <1>2, <1>f, <2>2 DEF EnqFull
<1> QED  BY Zenon, <1>1, <1>4, <1>a, <1>b, <1>c, <1>d, <1>e, <1>f DEF enqueue

(* The position of a scan stays within the retired list and the threads. *)
LEMMA RetireStep ==
  ASSUME TypeOK, LocalsInv, NEW p \in Threads, enqueue(p) \/ dequeue(p),
         pc'[p] = "retire"
  PROVE  /\ DeqAdvance(p) \/ retire(p)
         /\ loc'[p].tid \in Threads
         /\ loc'[p].iret \in 1..(Len(retired'[p]) + 1)
<1>0. /\ p \in DOMAIN loc /\ loc[p] \in Locals /\ p \in DOMAIN retired
      /\ 0 \in Threads /\ retired[p] \in Seq(Nodes) /\ Len(retired[p]) \in Nat
  BY Typed, Constants
<1>1. CASE DeqAdvance(p)
  <2>1. ~Iterate(p, "deq_load")
    BY Arrives
  <2>2. /\ loc'[p] = NoLocals
        /\ retired'[p] = Append(retired[p], Node(p))
    BY Zenon, <1>0, <1>1, <2>1 DEF DeqAdvance
  <2>3. Node(p) \in Nodes
    BY <1>1 DEF DeqAdvance, LocalsInv, HoldPoints, DeqHoldPoints
  <2>4. Len(retired'[p]) = Len(retired[p]) + 1
    BY <1>0, <2>2, <2>3
  <2>5. loc'[p].tid = 0 /\ loc'[p].iret = 1
    BY <2>2 DEF NoLocals
  <2> QED  BY <1>0, <1>1, <2>4, <2>5
<1>2. CASE retire(p)
  <2>0. /\ pc[p] = "retire" /\ loc[p].tid \in Threads
        /\ loc[p].iret \in 1..(Len(retired[p]) + 1)
    BY Zenon, <1>2 DEF retire, LocalsInv
  <2>1. ~Iterate(p, "deq_load")
    BY Arrives
  <2>2. PICK i \in Nat, t \in Nat : i = loc[p].iret /\ t = loc[p].tid
    BY Typed
  <2>3. /\ ~(i > Len(retired[p]))
        /\ \/ /\ loc' = [loc EXCEPT ![p].iret = i + 1, ![p].tid = 0]
              /\ UNCHANGED retired
           \/ /\ loc' = [loc EXCEPT ![p].iret = i, ![p].tid = t + 1]
              /\ UNCHANGED retired /\ t + 1 \in Threads
           \/ /\ loc' = [loc EXCEPT ![p].iret = i, ![p].tid = 0]
              /\ retired' = [retired EXCEPT ![p] = Erase(@, i)]
    BY Zenon, <1>2, <2>1, <2>2 DEF retire
  <2>4. CASE loc' = [loc EXCEPT ![p].iret = i + 1, ![p].tid = 0] /\ UNCHANGED retired
    BY <1>0, <1>2, <2>0, <2>2, <2>3, <2>4 DEF Locals
  <2>5. CASE /\ loc' = [loc EXCEPT ![p].iret = i, ![p].tid = t + 1]
             /\ UNCHANGED retired /\ t + 1 \in Threads
    BY <1>0, <1>2, <2>0, <2>2, <2>3, <2>5 DEF Locals
  <2>6. CASE /\ loc' = [loc EXCEPT ![p].iret = i, ![p].tid = 0]
             /\ retired' = [retired EXCEPT ![p] = Erase(@, i)]
    <3>1. i \in 1..Len(retired[p])
      BY <1>0, <2>0, <2>2, <2>3
    <3>2. Len(retired'[p]) = Len(retired[p]) - 1
      BY <1>0, <2>6, <3>1, EraseProperties
    <3>3. loc'[p].iret = i /\ loc'[p].tid = 0
      BY <1>0, <2>6 DEF Locals
    <3> QED  BY <1>0, <1>2, <3>1, <3>2, <3>3
  <2> QED  BY <2>3, <2>4, <2>5, <2>6
<1> QED  BY ZenonT(60), <1>1, <1>2, Edges DEF enqueue, dequeue, fixState

(* Every step preserves LocalsInv. *)
LEMMA StepLocalsInv ==
  ASSUME TypeOK, LocalsInv, NEW p \in Threads, enqueue(p) \/ dequeue(p)
  PROVE  LocalsInv'
<1> SUFFICES ASSUME NEW o \in Threads
             PROVE  /\ pc'[o] \in HoldPoints \cup LoadedPoints => Node(o)' \in Nodes
                    /\ pc'[o] \in NextPoints => loc'[o].next \in Nodes
                    /\ pc'[o] \in EnqPoints => loc'[o].item \in Items
                    /\ pc'[o] = "retire" =>
                         /\ loc'[o].tid \in Threads
                         /\ loc'[o].iret \in 1..(Len(retired'[o]) + 1)
  BY Zenon DEF LocalsInv
<1>1. CASE o # p
  BY Zenon, <1>1, OtherThreads DEF LocalsInv
<1>2. CASE o = p
  <2>1. pc'[p] \in HoldPoints => Node(p)' \in Nodes
    BY Zenon, HoldStep DEF LocalsInv, LoadedPoints
  <2> QED  BY Zenon, <1>2, <2>1, LoadStep, ItemStep, RetireStep
<1> QED  BY <1>1, <1>2
-----------------------------------------------------------------------------
(* What a step does to the list of nodes and to the hazard pointers. *)
LEMMA ListEffect ==
  ASSUME TypeOK, NEW p \in Threads, enqueue(p) \/ dequeue(p)
  PROVE  \/ UNCHANGED <<head, tail, nnext, live, hp, retired>>
         \/ (EnqProtect(p) \/ DeqProtect(p) \/ EnqClear(p) \/ DeqClear(p))
            /\ UNCHANGED <<head, tail, nnext, live, retired>>
         \/ (EnqHelp(p) \/ EnqSwing(p)) /\ UNCHANGED <<head, nnext, live, hp, retired>>
         \/ EnqAlloc(p) /\ UNCHANGED <<head, tail, hp, retired>>
         \/ DeqAdvance(p) /\ UNCHANGED <<tail, nnext, live, hp>>
         \/ retire(p) /\ UNCHANGED <<head, tail, nnext, hp>>
BY ZenonT(60) DEF enqueue, dequeue, fixState, shared, ends, nodes, hazard, CAS2,
   CAS2Fails, EnqCall, EnqLoad, Load, EnqProtect, DeqProtect, Protect, EnqCheck,
   Check, EnqNext, AdvanceTail, EnqHelp, EnqTicket, EnqAlloc, EnqSwing, EnqReadIdx,
   EnqReadVal, EnqReadHead, EnqCas, EnqFull, EnqClose, EnqClear, DeqClear, Clear,
   DeqCall, DeqLoad, DeqCheck, DeqTicket, DeqReadIdx, DeqReadVal, DeqTake,
   DeqMarkUnsafe, DeqLoadTail, DeqSkip, DeqCloseNode, DeqCheckEmpty, FixLoadTail,
   FixLoadHead, FixSame, FixCas, DeqNext, DeqRecheck, DeqAdvance, retire

(* Linking a new node: the successor of a node that had none. *)
LEMMA AllocEffect ==
  ASSUME TypeOK, LocalsInv, HazardInv, NEW p \in Threads, EnqAlloc(p)
  PROVE  \/ UNCHANGED <<nnext, live>> /\ pc'[p] = "enq_load"
         \/ \E n \in Nodes, q \in Nodes :
              /\ n \notin live /\ q = Node(p) /\ q \in live /\ n # q
              /\ nnext[q] = nullptr /\ pc[p] = "enq_alloc" /\ pc'[p] = "enq_swing"
              /\ live' = live \cup {n} /\ nnext'[n] = nullptr /\ nnext'[q] = n
              /\ \A m \in Nodes : m # n /\ m # q => nnext'[m] = nnext[m]
<1>1. CASE Iterate(p, "enq_load") /\ UNCHANGED shared
  <2>1. pc'[p] = "enq_load"
    BY <1>1, Arrives
  <2>2. UNCHANGED <<nnext, live>>
    BY <1>1 DEF shared, nodes
  <2> QED  BY <2>1, <2>2
<1>2. CASE \E n \in Nodes \ live :
             /\ nnext[Node(p)] = nullptr
             /\ nnext' = [nnext EXCEPT ![n] = nullptr, ![Node(p)] = n]
             /\ live' = live \cup {n} /\ Goto(p, "enq_swing")
  <2>1. PICK n \in Nodes \ live :
             /\ nnext[Node(p)] = nullptr
             /\ nnext' = [nnext EXCEPT ![n] = nullptr, ![Node(p)] = n]
             /\ live' = live \cup {n} /\ Goto(p, "enq_swing")
    BY <1>2
  <2>2. pc[p] = "enq_alloc" /\ pc'[p] = "enq_swing"
    BY <2>1, Arrives DEF EnqAlloc
  <2>3. PICK q \in Nodes : q = Node(p) /\ q \in live
    BY <2>2 DEF LocalsInv, HazardInv, HoldPoints, EnqHoldPoints
  <2>4. n # q
    BY <2>1, <2>3
  <2>5. nnext'[n] = nullptr /\ nnext'[q] = n
    BY Zenon, <2>1, <2>3, <2>4 DEF TypeOK, NodesType
  <2>6. \A m \in Nodes : m # n /\ m # q => nnext'[m] = nnext[m]
    BY Zenon, <2>1, <2>3 DEF TypeOK, NodesType
  <2> QED  BY Zenon, <2>1, <2>2, <2>3, <2>4, <2>5, <2>6
<1> QED  BY Zenon, <1>1, <1>2 DEF EnqAlloc

(* The retired nodes, one by one. *)
LEMMA RetiredList ==
  ASSUME TypeOK
  PROVE  \A n : Retired(n) <=>
           \E p \in Threads : \E i \in 1..Len(retired[p]) : retired[p][i] = n
<1>1. \A p \in Threads : \A n :
        n \in Range(retired[p]) <=> \E i \in 1..Len(retired[p]) : retired[p][i] = n
  BY Zenon, Typed, RangeOfSequence
<1> QED  BY Zenon, <1>1 DEF Retired

(* When retire destroys a node, nobody holds it and no pointer of the queue *)
(* leads to it.                                                             *)
LEMMA DestroyEffect ==
  ASSUME HInv, NEW p \in Threads, retire(p)
  PROVE  \/ UNCHANGED <<live, retired>>
         \/ \E i \in 1..Len(retired[p]), n \in Nodes :
              /\ n = retired[p][i]
              /\ live' = live \ {n} /\ n # head /\ n # tail
              /\ retired' = [retired EXCEPT ![p] = Erase(@, i)]
              /\ loc'[p].tid = 0 /\ pc' = pc
              /\ \A o \in Threads : ~Holds(o, n)
<1>0. TypeOK /\ LocalsInv /\ HazardInv
  BY DEF HInv
<1>1. PICK i \in Nat, t \in Threads :
        /\ i = loc[p].iret /\ t = loc[p].tid /\ pc[p] = "retire" /\ i \in 1..(Len(retired[p]) + 1)
  BY Zenon, <1>0, Typed DEF retire, LocalsInv
<1>2. \/ UNCHANGED <<live, retired>>
      \/ /\ ~(i > Len(retired[p])) /\ hp[t] # retired[p][i] /\ t + 1 \notin Threads
         /\ live' = live \ {retired[p][i]} /\ pc' = pc
         /\ retired' = [retired EXCEPT ![p] = Erase(@, i)]
         /\ loc' = [loc EXCEPT ![p].iret = i, ![p].tid = 0]
  BY Zenon, <1>1 DEF retire
<1>3. ASSUME ~(i > Len(retired[p])), hp[t] # retired[p][i], t + 1 \notin Threads,
             live' = live \ {retired[p][i]}, pc' = pc,
             retired' = [retired EXCEPT ![p] = Erase(@, i)],
             loc' = [loc EXCEPT ![p].iret = i, ![p].tid = 0]
      PROVE  \E k \in 1..Len(retired[p]), n \in Nodes :
              /\ n = retired[p][k]
              /\ live' = live \ {n} /\ n # head /\ n # tail
              /\ retired' = [retired EXCEPT ![p] = Erase(@, k)]
              /\ loc'[p].tid = 0 /\ pc' = pc
              /\ \A o \in Threads : ~Holds(o, n)
  <2>1. i \in 1..Len(retired[p]) /\ retired[p] \in Seq(Nodes)
    BY <1>0, <1>1, <1>3, Typed
  <2>2. PICK n \in Nodes : n = retired[p][i]
    BY <2>1
  <2>3. n \in Range(retired[p])
    BY <2>1, <2>2, RangeOfSequence
  <2>4. \A o \in Threads : o <= t
    BY <1>3, Constants
  <2>5. /\ tail \in Range(retired[p]) => hp[p] = tail
        /\ IF hp[p] = n THEN t <= p ELSE \A o \in Threads : o < t => ~Holds(o, n)
    <3>1. Scan(p)
      BY Zenon, <1>1 DEF HInv, ScanInv
    <3>2. i <= Len(retired[p])
      BY <2>1
    <3> QED  BY Zenon, <1>1, <2>2, <3>1, <3>2 DEF Scan
  <2>6. hp[p] # n
    <3>1. p \in Nat /\ t \in Nat /\ p <= t
      BY <2>4, Constants
    <3>2. hp[p] = n => p = t
      BY <2>5, <3>1
    <3> QED  BY <1>3, <2>2, <3>2
  <2>7. ASSUME NEW o \in Threads  PROVE ~Holds(o, n)
    <3>1. o \in Nat /\ t \in Nat /\ o <= t
      BY <2>4, Constants
    <3>2. CASE o = t
      BY <1>0, <1>3, <2>2, <3>2 DEF HazardInv, Holds
    <3>3. CASE o < t
      BY <2>5, <2>6, <3>3
    <3> QED  BY <3>1, <3>2, <3>3
  <2>8. n # tail
    BY <2>3, <2>5, <2>6
  <2>9. n # head
    BY Zenon, <2>3 DEF HInv, ListInv, InList
  <2>10. loc'[p].tid = 0
    BY <1>0, <1>3, Typed DEF Locals
  <2> QED  BY Zenon, <1>3, <2>1, <2>2, <2>7, <2>8, <2>9, <2>10
<1> QED  BY Zenon, <1>2, <1>3

(* Every step preserves HazardInv. *)
LEMMA StepHazardInv ==
  ASSUME HInv, NEW p \in Threads, enqueue(p) \/ dequeue(p)
  PROVE  HazardInv'
<1>0. TypeOK /\ LocalsInv /\ HazardInv /\ tail \in live /\ head \in live
  BY DEF HInv, ListInv, InList
<1>1. \A o \in Threads, n \in live : Holds(o, n) => n \in live'
  <2>1. CASE retire(p)
    BY Zenon, <2>1, DestroyEffect
  <2>2. CASE EnqAlloc(p)
    BY Zenon, <1>0, <2>2, AllocEffect
  <2>3. CASE UNCHANGED live
    BY <2>3
  <2> QED  BY Zenon, <1>0, <2>1, <2>2, <2>3, ListEffect
<1>2. \A o \in Threads : pc[o] \in NextPoints => nnext'[Node(o)] = nnext[Node(o)]
  <2> SUFFICES ASSUME NEW o \in Threads, pc[o] \in NextPoints
               PROVE  nnext'[Node(o)] = nnext[Node(o)]
    OBVIOUS
  <2>1. CASE EnqAlloc(p)
    <3>1. pc[o] \in HoldPoints
      BY DEF NextPoints, HoldPoints, EnqHoldPoints, DeqHoldPoints
    <3>2. /\ Node(o) \in Nodes /\ Node(o) \in live /\ nnext[Node(o)] \in Nodes
      BY Zenon, <1>0, <3>1 DEF LocalsInv, HazardInv
    <3>3. nnext[Node(o)] # nullptr
      BY <3>2, Constants
    <3> QED  BY Zenon, <1>0, <2>1, <3>2, <3>3, AllocEffect
  <2>2. CASE UNCHANGED nnext
    BY <2>2
  <2> QED  BY Zenon, <1>0, <2>1, <2>2, ListEffect
<1>3. ASSUME NEW o \in Threads, o # p
      PROVE  /\ pc'[o] \in HoldPoints => hp'[o] = Node(o)' /\ Node(o)' \in live'
             /\ pc'[o] \in {"enq_check", "deq_check"} => hp'[o] = Node(o)'
             /\ pc'[o] \in NextPoints => loc'[o].next = nnext'[Node(o)']
  <2>1. /\ pc'[o] = pc[o] /\ loc'[o] = loc[o] /\ Node(o)' = Node(o)
        /\ hp'[o] = hp[o]
    BY Zenon, <1>0, <1>3, OtherThreads
  <2>2. /\ pc[o] \in HoldPoints => hp[o] = Node(o) /\ Node(o) \in live'
        /\ pc[o] \in {"enq_check", "deq_check"} => hp[o] = Node(o)
        /\ pc[o] \in NextPoints => loc[o].next = nnext'[Node(o)]
    BY Zenon, <1>0, <1>1, <1>2 DEF HazardInv, Holds
  <2> QED  BY Zenon, <2>1, <2>2
<1>4. pc'[p] \in HoldPoints => hp'[p] = Node(p)' /\ Node(p)' \in live'
  <2> SUFFICES ASSUME pc'[p] \in HoldPoints
               PROVE  hp'[p] = Node(p)' /\ Node(p)' \in live'
    OBVIOUS
  <2>1. UNCHANGED hp
    <3>1. pc'[p] \notin {"enq_check", "deq_check", "idle"}
      BY DEF HoldPoints, EnqHoldPoints, DeqHoldPoints, CellPoints
    <3>2. ~EnqProtect(p) /\ ~DeqProtect(p) /\ ~EnqClear(p) /\ ~DeqClear(p)
      BY <1>0, <3>1, Edges
    <3> QED  BY Zenon, <1>0, <3>2, ListEffect
  <2>2. hp[p] = Node(p)
    BY Zenon, <1>0, HoldStep DEF HazardInv
  <2>3. Node(p) \in live'
    <3>1. CASE pc[p] \in HoldPoints
      BY Zenon, <1>0, <1>1, <3>1 DEF HazardInv, Holds
    <3>2. CASE pc[p] = "enq_check" \/ pc[p] = "deq_check"
      <4>1. ~retire(p) /\ ~EnqAlloc(p)
        BY <3>2 DEF retire, EnqAlloc
      <4>2. live' = live
        BY Zenon, <1>0, <4>1, ListEffect
      <4>3. pc[p] \notin HoldPoints
        BY <3>2 DEF HoldPoints, EnqHoldPoints, DeqHoldPoints, CellPoints
      <4> QED  BY Zenon, <1>0, <4>2, <4>3, HoldStep
    <3> QED  BY Zenon, <1>0, <3>1, <3>2, HoldStep
  <2> QED  BY Zenon, <1>0, <2>1, <2>2, <2>3, HoldStep
<1>5. pc'[p] \in NextPoints => loc'[p].next = nnext'[Node(p)']
  <2> SUFFICES ASSUME pc'[p] \in NextPoints
               PROVE  loc'[p].next = nnext'[Node(p)']
    OBVIOUS
  <2>1. pc'[p] \in HoldPoints
    BY DEF NextPoints, HoldPoints, EnqHoldPoints, DeqHoldPoints
  <2>2. Node(p)' = Node(p)
    BY Zenon, <1>0, <2>1, HoldStep
  <2>3. pc[p] = "deq_recheck" => loc[p].next = nnext[Node(p)]
    BY <1>0 DEF HazardInv, NextPoints
  <2> QED  BY Zenon, <1>0, <2>2, <2>3, LoadStep
<1>6. pc'[p] \in {"enq_check", "deq_check"} => hp'[p] = Node(p)'
  BY Zenon, <1>0, LoadStep
<1>7. \A o \in Threads :
        /\ pc'[o] \in HoldPoints => hp'[o] = Node(o)' /\ Node(o)' \in live'
        /\ pc'[o] \in {"enq_check", "deq_check"} => hp'[o] = Node(o)'
        /\ pc'[o] \in NextPoints => loc'[o].next = nnext'[Node(o)']
  BY Zenon, <1>3, <1>4, <1>5, <1>6
<1> QED  BY Zenon, <1>7 DEF HazardInv
-----------------------------------------------------------------------------
(* Who is retired, and who is in the list, after a node was pushed on the  *)
(* retired list of p.                                                      *)
LEMMA PushRetired ==
  ASSUME TypeOK, TypeOK', NEW p \in Threads, NEW q \in Nodes,
         retired' = [retired EXCEPT ![p] = Append(@, q)]
  PROVE  \A n : Retired(n)' <=> Retired(n) \/ n = q
<1>1. /\ retired[p] \in Seq(Nodes)
      /\ \A o \in Threads : o # p => retired'[o] = retired[o]
      /\ retired'[p] = Append(retired[p], q)
  BY Zenon, Typed DEF TypeOK, ThreadsType
<1>2. \A n : n \in Range(retired'[p]) <=> n \in Range(retired[p]) \/ n = q
  <2>1. /\ retired'[p] \in Seq(Nodes) /\ Len(retired'[p]) = Len(retired[p]) + 1
        /\ \A i \in 1..Len(retired[p]) : retired'[p][i] = retired[p][i]
        /\ retired'[p][Len(retired[p]) + 1] = q
    BY <1>1
  <2>2. ASSUME NEW n  PROVE n \in Range(retired'[p]) <=> n \in Range(retired[p]) \/ n = q
    <3>1. n \in Range(retired'[p]) <=> \E i \in 1..Len(retired'[p]) : retired'[p][i] = n
      BY <2>1, RangeOfSequence
    <3>2. n \in Range(retired[p]) <=> \E i \in 1..Len(retired[p]) : retired[p][i] = n
      BY <1>1, RangeOfSequence
    <3>3. Len(retired[p]) \in Nat
      BY <1>1
    <3> QED  BY <2>1, <3>1, <3>2, <3>3
  <2> QED  BY <2>2
<1> QED  BY Zenon, <1>1, <1>2 DEF Retired

(* The list of retired nodes after retire has destroyed one. *)
LEMMA EraseRetired ==
  ASSUME TypeOK, TypeOK', RetireInv, NEW p \in Threads, NEW i \in 1..Len(retired[p]),
         retired' = [retired EXCEPT ![p] = Erase(@, i)]
  PROVE  /\ Len(retired'[p]) = Len(retired[p]) - 1
         /\ \A k \in 1..Len(retired'[p]) :
              retired'[p][k] = retired[p][IF k < i THEN k ELSE k + 1]
         /\ \A n : n \in Range(retired'[p])
                     <=> n \in Range(retired[p]) /\ n # retired[p][i]
<1>0. /\ retired[p] \in Seq(Nodes) /\ Len(retired[p]) \in Nat
      /\ \A o \in Threads : o # p => retired'[o] = retired[o]
      /\ retired'[p] = Erase(retired[p], i)
  BY Zenon, Typed DEF TypeOK, ThreadsType
<1>1. /\ retired'[p] \in Seq(Nodes) /\ Len(retired'[p]) = Len(retired[p]) - 1
      /\ \A k \in 1..Len(retired'[p]) :
           retired'[p][k] = retired[p][IF k < i THEN k ELSE k + 1]
  <2>1. /\ retired'[p] \in Seq(Nodes) /\ Len(retired'[p]) = Len(retired[p]) - 1
        /\ \A k \in 1..(Len(retired[p]) - 1) : retired'[p][k] =
             IF k < i THEN retired[p][k] ELSE retired[p][k + 1]
    <3>1. \A s \in Seq(Nodes) : \A j \in 1..Len(s) :
            /\ Erase(s, j) \in Seq(Nodes) /\ Len(Erase(s, j)) = Len(s) - 1
            /\ \A k \in 1..(Len(s) - 1) :
                 Erase(s, j)[k] = IF k < j THEN s[k] ELSE s[k + 1]
      BY Zenon, EraseProperties
    <3>2. /\ Erase(retired[p], i) \in Seq(Nodes)
          /\ Len(Erase(retired[p], i)) = Len(retired[p]) - 1
          /\ \A k \in 1..(Len(retired[p]) - 1) : Erase(retired[p], i)[k] =
               IF k < i THEN retired[p][k] ELSE retired[p][k + 1]
      BY Zenon, <1>0, <3>1
    <3> QED  BY <1>0, <3>2
  <2> QED  BY <2>1
<1>2. \A n : n \in Range(retired'[p]) <=> n \in Range(retired[p]) /\ n # retired[p][i]
  <2> SUFFICES ASSUME NEW n
               PROVE  n \in Range(retired'[p])
                        <=> n \in Range(retired[p]) /\ n # retired[p][i]
    OBVIOUS
  <2>1. n \in Range(retired'[p]) <=> \E k \in 1..Len(retired'[p]) : retired'[p][k] = n
    BY <1>1, RangeOfSequence
  <2>2. n \in Range(retired[p]) <=> \E k \in 1..Len(retired[p]) : retired[p][k] = n
    BY <1>0, RangeOfSequence
  <2>3. ASSUME NEW k \in 1..Len(retired'[p]), retired'[p][k] = n
        PROVE  n \in Range(retired[p]) /\ n # retired[p][i]
    <3>1. PICK m \in Nat : m = IF k < i THEN k ELSE k + 1
      BY <1>0
    <3>2. m \in 1..Len(retired[p]) /\ m # i /\ retired[p][m] = n
      BY <1>0, <1>1, <2>3, <3>1
    <3> QED  BY <2>2, <3>2 DEF RetireInv
  <2>4. ASSUME NEW k \in 1..Len(retired[p]), retired[p][k] = n, n # retired[p][i]
        PROVE  n \in Range(retired'[p])
    <3>1. PICK m \in Nat : m = IF k < i THEN k ELSE k - 1
      BY <1>0
    <3>2. m \in 1..Len(retired'[p]) /\ retired'[p][m] = n
      BY <1>0, <1>1, <2>4, <3>1
    <3> QED  BY <2>1, <3>2
  <2> QED  BY Zenon, <2>1, <2>2, <2>3, <2>4
<1> QED  BY Zenon, <1>1, <1>2

(* Who is retired then. *)
LEMMA ErasedNode ==
  ASSUME TypeOK, TypeOK', RetireInv, NEW p \in Threads, NEW i \in 1..Len(retired[p]),
         retired' = [retired EXCEPT ![p] = Erase(@, i)]
  PROVE  \A n : Retired(n)' <=> Retired(n) /\ n # retired[p][i]
<1>0. /\ retired[p] \in Seq(Nodes) /\ Len(retired[p]) \in Nat
      /\ \A o \in Threads : o # p => retired'[o] = retired[o]
  BY Zenon, Typed DEF TypeOK, ThreadsType
<1>2. \A n : n \in Range(retired'[p]) <=> n \in Range(retired[p]) /\ n # retired[p][i]
  BY EraseRetired
<1>3. ASSUME NEW o \in Threads, o # p  PROVE retired[p][i] \notin Range(retired[o])
  <2>1. retired[o] \in Seq(Nodes)
    BY Typed
  <2> QED  BY <1>0, <1>3, <2>1, RangeOfSequence DEF RetireInv
<1>4. \A n : Retired(n)' <=> Retired(n) /\ n # retired[p][i]
  BY Zenon, <1>0, <1>2, <1>3 DEF Retired
<1> QED  BY Zenon, <1>4

(* In the list is live and not retired. *)
LEMMA ListedIs == \A n : InList(n) <=> n \in live /\ ~Retired(n)
BY Zenon DEF InList, Retired

(* The same in the next state. *)
LEMMA ListedIsNext == \A n : InList(n)' <=> n \in live' /\ ~Retired(n)'
BY Zenon DEF InList, Retired

(* Every step preserves RetireInv. *)
LEMMA StepRetireInv ==
  ASSUME HInv, NEW p \in Threads, enqueue(p) \/ dequeue(p)
  PROVE  RetireInv'
<1>0. TypeOK /\ LocalsInv /\ HazardInv /\ RetireInv /\ TypeOK'
  BY StepType DEF HInv
<1>1. CASE UNCHANGED retired /\ live \subseteq live'
  BY <1>0, <1>1 DEF RetireInv
<1>2. CASE EnqAlloc(p)
  BY Zenon, <1>0, <1>1, <1>2, AllocEffect, ListEffect DEF EnqAlloc, shared, hazard
<1>3. CASE DeqAdvance(p) /\ ~UNCHANGED retired
  <2>1. /\ head = Node(p) /\ UNCHANGED live
        /\ retired' = [retired EXCEPT ![p] = Append(@, Node(p))]
    BY Zenon, <1>3 DEF DeqAdvance, nodes
  <2>2. PICK q \in Nodes : q = head
    BY <1>0 DEF TypeOK, NodesType
  <2>3. q \in live /\ \A o \in Threads, k \in Nat :
                         k \in 1..Len(retired[o]) => retired[o][k] # q
    <3>1. InList(q)
      BY <2>2 DEF HInv, ListInv
    <3>2. q \in live /\ ~Retired(q)
      BY Zenon, <3>1, ListedIs
    <3> QED  BY <1>0, <3>2, RetiredList
  <2>4. /\ retired[p] \in Seq(Nodes) /\ Len(retired[p]) \in Nat
        /\ \A o \in Threads : o # p => retired'[o] = retired[o]
        /\ retired'[p] = Append(retired[p], q)
    BY Zenon, <1>0, <2>1, <2>2, Typed DEF TypeOK, ThreadsType
  <2>5. /\ Len(retired'[p]) = Len(retired[p]) + 1
        /\ \A i \in 1..Len(retired[p]) : retired'[p][i] = retired[p][i]
        /\ retired'[p][Len(retired[p]) + 1] = q
    BY <2>4
  <2>6. ASSUME NEW o \in Threads, NEW i \in Nat, i \in 1..Len(retired'[o])
        PROVE  \/ i \in 1..Len(retired[o]) /\ retired'[o][i] = retired[o][i]
               \/ o = p /\ i = Len(retired[p]) + 1 /\ retired'[o][i] = q
    BY <2>4, <2>5, <2>6
  <2>7. \A o \in Threads, i \in Nat : i \in 1..Len(retired'[o]) => retired'[o][i] \in live'
    BY <1>0, <2>1, <2>3, <2>6 DEF RetireInv
  <2>8. ASSUME NEW a \in Threads, NEW b \in Threads, NEW i \in Nat, NEW k \in Nat,
               i \in 1..Len(retired'[a]), k \in 1..Len(retired'[b]),
               retired'[a][i] = retired'[b][k]
        PROVE  a = b /\ i = k
    <3>1. \/ i \in 1..Len(retired[a]) /\ retired'[a][i] = retired[a][i]
          \/ a = p /\ i = Len(retired[p]) + 1 /\ retired'[a][i] = q
      BY Zenon, <2>6, <2>8
    <3>2. \/ k \in 1..Len(retired[b]) /\ retired'[b][k] = retired[b][k]
          \/ b = p /\ k = Len(retired[p]) + 1 /\ retired'[b][k] = q
      BY Zenon, <2>6, <2>8
    <3>3. CASE /\ i \in 1..Len(retired[a]) /\ retired'[a][i] = retired[a][i]
               /\ k \in 1..Len(retired[b]) /\ retired'[b][k] = retired[b][k]
      <4>1. retired[a][i] = retired[b][k]
        BY Zenon, <2>8, <3>3
      <4> QED  BY Zenon, <1>0, <3>3, <4>1 DEF RetireInv
    <3>4. CASE a = p /\ i = Len(retired[p]) + 1 /\ retired'[a][i] = q
      BY Zenon, <2>3, <2>8, <3>2, <3>4
    <3>5. CASE b = p /\ k = Len(retired[p]) + 1 /\ retired'[b][k] = q
      BY Zenon, <2>3, <2>8, <3>1, <3>5
    <3> QED  BY Zenon, <3>1, <3>2, <3>3, <3>4, <3>5
  <2> QED  BY <2>7, <2>8 DEF RetireInv
<1>4. CASE retire(p) /\ ~UNCHANGED <<live, retired>>
  <2>1. PICK j \in 1..Len(retired[p]), n \in Nodes :
              /\ n = retired[p][j] /\ live' = live \ {n}
              /\ retired' = [retired EXCEPT ![p] = Erase(@, j)]
    BY Zenon, <1>4, DestroyEffect
  <2>2. /\ Len(retired'[p]) = Len(retired[p]) - 1 /\ Len(retired[p]) \in Nat
        /\ \A k \in 1..Len(retired'[p]) :
             retired'[p][k] = retired[p][IF k < j THEN k ELSE k + 1]
    BY <1>0, <2>1, EraseRetired, Typed
  <2>3. \A o \in Threads : o # p => retired'[o] = retired[o]
    BY Zenon, <1>0, <2>1 DEF TypeOK, ThreadsType
  <2> DEFINE At(o, i) == IF o = p /\ ~(i < j) THEN i + 1 ELSE i
  <2>4. ASSUME NEW o \in Threads, NEW i \in Nat, i \in 1..Len(retired'[o])
        PROVE  /\ At(o, i) \in Nat /\ At(o, i) \in 1..Len(retired[o])
               /\ retired'[o][i] = retired[o][At(o, i)]
               /\ ~(o = p /\ At(o, i) = j)
    BY <2>2, <2>3, <2>4
  <2>5. \A o \in Threads, i \in Nat : i \in 1..Len(retired'[o]) => retired'[o][i] \in live'
    <3> SUFFICES ASSUME NEW o \in Threads, NEW i \in Nat, i \in 1..Len(retired'[o])
                 PROVE  retired'[o][i] \in live'
      OBVIOUS
    <3>1. PICK k \in Nat : /\ k \in 1..Len(retired[o]) /\ ~(o = p /\ k = j)
                           /\ retired'[o][i] = retired[o][k]
      BY <2>4
    <3>2. j \in Nat /\ j \in 1..Len(retired[p])
      BY <2>2
    <3> QED  BY <1>0, <2>1, <3>1, <3>2 DEF RetireInv
  <2>6. ASSUME NEW a \in Threads, NEW b \in Threads, NEW i \in Nat, NEW k \in Nat,
               i \in 1..Len(retired'[a]), k \in 1..Len(retired'[b]),
               retired'[a][i] = retired'[b][k]
        PROVE  a = b /\ i = k
    <3>1. a = b /\ At(a, i) = At(b, k)
      <4> HIDE DEF At
      <4>1. /\ At(a, i) \in Nat /\ At(a, i) \in 1..Len(retired[a])
            /\ At(b, k) \in Nat /\ At(b, k) \in 1..Len(retired[b])
            /\ retired[a][At(a, i)] = retired[b][At(b, k)]
        BY Zenon, <2>4, <2>6
      <4> QED  BY Zenon, <1>0, <4>1 DEF RetireInv
    <3> QED  BY <3>1
  <2> QED  BY <2>5, <2>6 DEF RetireInv
<1> QED  BY Zenon, <1>0, <1>1, <1>2, <1>3, <1>4, ListEffect DEF DeqAdvance, nodes
-----------------------------------------------------------------------------
(* A step that leaves the list alone: an enqueuer that starts using a node *)
(* has found it in tail.                                                   *)
LEMMA QuietList ==
  ASSUME HInv, NEW p \in Threads, enqueue(p) \/ dequeue(p),
         UNCHANGED <<head, tail, nnext, live, retired>>
  PROVE  ListInv'
<1>0. TypeOK /\ ListInv /\ tail \in Nodes
  BY DEF HInv, TypeOK, NodesType
<1>1. \A n : Retired(n)' <=> Retired(n)
  BY Zenon DEF Retired
<1>2. \A n : InList(n)' <=> InList(n)
  BY Zenon, <1>1, ListedIs, ListedIsNext
<1>3. PICK pos \in [Nodes -> Nat] : Ordered(pos)
  BY <1>0 DEF ListInv
<1>4. ASSUME NEW o \in Threads, pc'[o] \in EnqHoldPoints
      PROVE  pos[Node(o)'] <= pos[tail]
  <2>1. CASE o # p
    <3>1. pc[o] \in EnqHoldPoints /\ Node(o)' = Node(o)
      BY Zenon, <1>0, <1>4, <2>1, OtherThreads
    <3> QED  BY Zenon, <1>3, <3>1 DEF Ordered
  <2>2. CASE o = p
    <3>1. pc'[p] \in HoldPoints /\ pc'[p] # "deq_ticket"
      BY <1>4, <2>2 DEF HoldPoints, EnqHoldPoints
    <3>2. Node(p)' = Node(p) /\ (pc[p] \in EnqHoldPoints \/ Node(p) = tail)
      BY Zenon, <1>0, <1>4, <2>2, <3>1, HoldStep
    <3>3. pos[tail] <= pos[tail]
      BY Zenon, <1>0, NatOrder
    <3>4. pos[Node(p)] <= pos[tail]
      BY Zenon, <1>3, <3>2, <3>3 DEF Ordered
    <3> QED  BY Zenon, <2>2, <3>2, <3>4
  <2> QED  BY <2>1, <2>2
<1>5. Ordered(pos)'
  BY Zenon, <1>1, <1>2, <1>3, <1>4 DEF Ordered
<1> QED  BY Zenon, <1>0, <1>1, <1>2, <1>5 DEF ListInv

(* tail moves to the successor of the node it was at, which is in the list: *)
(* head itself when head had overtaken tail.                                *)
LEMMA TailList ==
  ASSUME HInv, NEW p \in Threads, EnqHelp(p) \/ EnqSwing(p),
         enqueue(p) \/ dequeue(p), UNCHANGED <<head, nnext, live, retired>>
  PROVE  /\ ListInv'
         /\ tail' # tail => InList(tail')
<1>0. TypeOK /\ LocalsInv /\ HazardInv /\ ListInv
      /\ tail \in Nodes /\ head \in Nodes /\ nnext \in [Nodes -> Nodes \cup {nullptr}]
  BY DEF HInv, TypeOK, NodesType
<1>1. CASE UNCHANGED tail
  BY <1>1, QuietList
<1>2. CASE ~UNCHANGED tail
  <2>1. /\ tail = Node(p) /\ tail' = loc[p].next
    BY Zenon, <1>2 DEF EnqHelp, EnqSwing, AdvanceTail
  <2>2. PICK m \in Nodes : tail' = m /\ m = nnext[tail]
    BY <1>0, <2>1 DEF EnqHelp, EnqSwing, LocalsInv, HazardInv, NextPoints
  <2>3. m # nullptr
    BY <2>2, Constants
  <2>4. PICK pos \in [Nodes -> Nat] : Ordered(pos)
    BY <1>0 DEF ListInv
  <2>5. InList(m) /\ pos[tail] <= pos[m]
    <3>1. CASE Retired(tail)
      <4>1. m = head
        BY <1>0, <2>2, <3>1 DEF ListInv
      <4>2. InList(head) /\ pos[tail] < pos[head]
        BY <1>0, <2>4, <3>1 DEF ListInv, Ordered
      <4>3. pos[tail] \in Nat /\ pos[head] \in Nat
        BY <1>0
      <4> QED  BY <4>1, <4>2, <4>3
    <3>2. CASE ~Retired(tail)
      <4>1. InList(tail)
        BY Zenon, <1>0, <3>2, ListedIs DEF ListInv
      <4>2. InList(m) /\ pos[m] = pos[tail] + 1
        BY Zenon, <1>0, <2>2, <2>3, <2>4, <4>1 DEF Ordered
      <4>3. pos[tail] \in Nat
        BY <1>0
      <4> QED  BY <4>2, <4>3
    <3> QED  BY <3>1, <3>2
  <2>6. \A n : Retired(n)' <=> Retired(n)
    BY Zenon DEF Retired
  <2>7. \A n : InList(n)' <=> InList(n)
    BY Zenon, <2>6, ListedIs, ListedIsNext
  <2>8. \A n \in Nodes : pos[n] <= pos[tail] => pos[n] <= pos[m]
    <3>1. pos[tail] \in Nat /\ pos[m] \in Nat /\ \A n \in Nodes : pos[n] \in Nat
      BY <1>0, <2>2
    <3> QED  BY <2>5, <3>1
  <2>9. ASSUME NEW o \in Threads, pc'[o] \in EnqHoldPoints
        PROVE  pos[Node(o)'] <= pos[m]
    <3>1. pc'[p] \notin EnqHoldPoints
      BY <1>0, Edges DEF EnqHoldPoints
    <3>2. o # p
      BY <2>9, <3>1
    <3>3. pc[o] \in EnqHoldPoints /\ Node(o)' = Node(o)
      BY Zenon, <1>0, <2>9, <3>2, OtherThreads
    <3>4. Node(o) \in Nodes /\ pos[Node(o)] <= pos[tail]
      BY Zenon, <1>0, <2>4, <3>3 DEF Ordered, LocalsInv, HoldPoints
    <3> QED  BY <2>8, <3>3, <3>4
  <2>10. Ordered(pos)'
    BY Zenon, <2>2, <2>4, <2>6, <2>7, <2>8, <2>9 DEF Ordered
  <2>11. m \in live' /\ ~Retired(m)'
    BY Zenon, <2>5, <2>6, ListedIs
  <2>12. ~Retired(tail)'
    BY Zenon, <2>2, <2>11 DEF Retired
  <2> QED  BY Zenon, <1>0, <2>2, <2>5, <2>6, <2>7, <2>10, <2>11, <2>12 DEF ListInv
<1> QED  BY <1>1, <1>2

(* A new node becomes the last: the node it is linked to had no successor,  *)
(* so it was not retired and was the last.                                  *)
LEMMA AllocList ==
  ASSUME HInv, NEW p \in Threads, EnqAlloc(p), enqueue(p) \/ dequeue(p),
         UNCHANGED <<head, tail, retired>>
  PROVE  ListInv'
<1>0. TypeOK /\ LocalsInv /\ HazardInv /\ RetireInv /\ ListInv
      /\ tail \in Nodes /\ head \in Nodes /\ live \subseteq Nodes
  BY DEF HInv, TypeOK, NodesType
<1>1. CASE UNCHANGED <<nnext, live>>
  BY <1>1, QuietList
<1>2. CASE ~UNCHANGED <<nnext, live>>
  <2>1. PICK n \in Nodes, q \in Nodes :
              /\ n \notin live /\ q = Node(p) /\ q \in live /\ n # q
              /\ nnext[q] = nullptr /\ pc[p] = "enq_alloc" /\ pc'[p] = "enq_swing"
              /\ live' = live \cup {n} /\ nnext'[n] = nullptr /\ nnext'[q] = n
              /\ \A m \in Nodes : m # n /\ m # q => nnext'[m] = nnext[m]
    BY Zenon, <1>0, <1>2, AllocEffect
  <2>2. PICK pos \in [Nodes -> Nat] : Ordered(pos)
    BY <1>0 DEF ListInv
  <2>3. \A m : Retired(m)' <=> Retired(m)
    BY Zenon DEF Retired
  <2>4. ~Retired(n)
    BY <1>0, <2>1, RetiredList DEF RetireInv
  <2>5. \A m : InList(m)' <=> InList(m) \/ m = n
    BY Zenon, <2>1, <2>3, <2>4, ListedIs, ListedIsNext
  <2>6. ~Retired(q) /\ InList(q) /\ ~InList(n)
    BY Zenon, <1>0, <2>1, ListedIs DEF ListInv
  <2>7. pos[q] <= pos[tail]
    BY <2>1, <2>2 DEF Ordered, EnqHoldPoints
  <2> DEFINE new == [pos EXCEPT ![n] = pos[q] + 1]
  <2>8. pos[q] \in Nat /\ new \in [Nodes -> Nat]
    OBVIOUS
  <2>9. new[n] = pos[q] + 1 /\ \A m \in Nodes : m # n => new[m] = pos[m]
    OBVIOUS
  <2>10. nullptr \notin Nodes /\ \A m \in Nodes : pos[m] \in Nat
    BY Constants
  <2>11. tail # n /\ head # n /\ InList(head)
    BY <1>0, <2>1, <2>6 DEF ListInv
  <2>12. \A m \in Nodes : InList(m) => pos[m] <= pos[q]
    BY Zenon, <2>1, <2>2, <2>6 DEF Ordered
  <2> HIDE DEF new
  <2>a. ASSUME NEW x \in Nodes, InList(x)', nnext'[x] # nullptr
        PROVE  /\ InList(nnext[x])' /\ new[nnext'[x]] = new[x] + 1
               /\ new[x] <= new[tail]
    <3>1. x # n /\ InList(x) /\ new[x] = pos[x] /\ new[tail] = pos[tail]
      BY <1>0, <2>1, <2>5, <2>9, <2>11, <2>a
    <3>2. CASE x = q
      <4>1. nnext'[x] = n /\ InList(n)'
        BY Zenon, <2>1, <2>5, <3>2
      <4>2. InList(nnext[x])'
        BY Zenon, <4>1 DEF InList
      <4> QED  BY <2>7, <2>9, <3>1, <3>2, <4>1, <4>2
    <3>3. CASE x # q
      <4>1. PICK m : m = nnext'[x] /\ m = nnext[x] /\ m # nullptr
        BY <2>1, <2>a, <3>1, <3>3
      <4>2. InList(m) /\ pos[m] = pos[x] + 1 /\ pos[x] <= pos[tail]
        BY Zenon, <2>2, <3>1, <4>1 DEF Ordered
      <4>3. m \in Nodes /\ m # n
        BY Zenon, <1>0, <2>6, <4>2, ListedIs
      <4>4. InList(m)'
        BY Zenon, <2>5, <4>2
      <4>5. InList(nnext[x])'
        BY Zenon, <4>1, <4>4 DEF InList
      <4> QED  BY <2>9, <3>1, <4>1, <4>2, <4>3, <4>5
    <3> QED  BY <3>2, <3>3
  <2>b. ASSUME NEW x \in Nodes, NEW y \in Nodes, InList(x)', InList(y)', new[x] = new[y]
        PROVE  x = y
    <3>1. ASSUME NEW z \in Nodes, InList(z)', z # n
          PROVE  InList(z) /\ new[z] = pos[z] /\ new[z] # new[n]
      <4>1. InList(z) /\ new[z] = pos[z] /\ pos[z] <= pos[q] /\ pos[z] \in Nat
        BY Zenon, <2>5, <2>9, <2>10, <2>12, <3>1
      <4>2. pos[z] # pos[q] + 1
        BY Zenon, <2>8, <4>1, NatOrder
      <4> QED  BY <2>9, <4>1, <4>2
    <3>2. CASE x = n \/ y = n
      BY Zenon, <2>b, <3>1, <3>2
    <3>3. CASE x # n /\ y # n
      <4>1. InList(x) /\ InList(y) /\ new[x] = pos[x] /\ new[y] = pos[y]
        BY Zenon, <2>b, <3>1, <3>3
      <4>2. pos[x] = pos[y]
        BY <2>b, <4>1
      <4> QED  BY Zenon, <2>2, <4>1, <4>2 DEF Ordered
    <3> QED  BY Zenon, <3>2, <3>3
  <2>c. ASSUME NEW x \in Nodes, NEW y \in Nodes, InList(x)', InList(y)',
               nnext'[x] = nullptr
        PROVE  new[y] <= new[x]
    <3>1. x # q
      BY <2>1, <2>10, <2>c
    <3>2. CASE x = n
      <4>1. new[n] = pos[q] + 1 /\ pos[q] + 1 \in Nat
        BY <2>8, <2>9
      <4>2. CASE y = n
        BY <3>2, <4>1, <4>2
      <4>3. CASE y # n
        <5>1. new[y] = pos[y] /\ pos[y] <= pos[q] /\ pos[y] \in Nat
          BY Zenon, <2>5, <2>9, <2>10, <2>12, <2>c, <4>3
        <5>2. pos[y] <= pos[q] + 1
          BY Zenon, <2>8, <5>1, NatOrder
        <5> QED  BY <3>2, <4>1, <5>1, <5>2
      <4> QED  BY <4>2, <4>3
    <3>3. CASE x # n
      <4>1. InList(x) /\ nnext[x] = nullptr
        BY <2>1, <2>5, <2>c, <3>1, <3>3
      <4>2. pos[q] <= pos[x] /\ pos[x] <= pos[q]
        BY Zenon, <2>2, <2>6, <2>12, <4>1 DEF Ordered
      <4>3. x = q
        <5>1. pos[x] = pos[q]
          BY <2>8, <2>10, <4>2
        <5> QED  BY Zenon, <2>2, <2>6, <4>1, <5>1 DEF Ordered
      <4> QED  BY <3>1, <4>3
    <3> QED  BY <3>2, <3>3
  <2>d. ASSUME NEW x \in Nodes, InList(x)'  PROVE new[head] <= new[x]
    <3>1. new[head] = pos[head] /\ pos[head] <= pos[q] /\ pos[head] \in Nat
      BY <1>0, <2>9, <2>10, <2>11, <2>12
    <3>2. CASE x = n
      BY <2>8, <2>9, <3>1, <3>2
    <3>3. CASE x # n
      BY <2>2, <2>5, <2>9, <2>d, <3>1, <3>3 DEF Ordered
    <3> QED  BY <3>2, <3>3
  <2>e. ASSUME NEW x \in Nodes, Retired(x)'
        PROVE  new[x] < new[head] /\ nnext'[x] # nullptr
    <3>1. x # n /\ x # q /\ Retired(x)
      BY Zenon, <2>3, <2>4, <2>6, <2>e
    <3> QED  BY <1>0, <2>1, <2>2, <2>9, <2>11, <3>1 DEF Ordered, ListInv
  <2>f. ASSUME NEW o \in Threads, pc'[o] \in EnqHoldPoints
        PROVE  new[Node(o)'] <= new[tail]
    <3>1. pc[o] \in EnqHoldPoints /\ Node(o)' = Node(o)
      <4>1. CASE o = p
        BY Zenon, <1>0, <2>1, <4>1, HoldStep DEF HoldPoints, EnqHoldPoints
      <4>2. CASE o # p
        BY Zenon, <1>0, <2>f, <4>2, OtherThreads
      <4> QED  BY <4>1, <4>2
    <3>2. Node(o) \in Nodes /\ Node(o) # n
      BY Zenon, <1>0, <2>1, <3>1 DEF LocalsInv, HazardInv, HoldPoints
    <3> QED  BY <1>0, <2>2, <2>9, <2>11, <3>1, <3>2 DEF Ordered
  <2>g. Ordered(new)'
    BY Zenon, <2>a, <2>b, <2>c, <2>d, <2>e, <2>f DEF Ordered
  <2>h. Retired(tail)' => nnext'[tail'] = head'
    <3>1. ASSUME Retired(tail)  PROVE nnext'[tail] = head
      BY <1>0, <2>1, <2>6, <2>11, <3>1 DEF ListInv
    <3> QED  BY Zenon, <3>1 DEF Retired
  <2>i. InList(head)' /\ tail' \in live'
    <3>1. tail \in live
      BY <1>0 DEF ListInv
    <3>2. head \in live' /\ ~Retired(head)
      BY Zenon, <2>1, <2>11, ListedIs
    <3> QED  BY Zenon, <2>1, <3>1, <3>2 DEF InList, Retired
  <2> QED  BY Zenon, <2>8, <2>e, <2>g, <2>h, <2>i DEF ListInv
<1> QED  BY <1>1, <1>2

(* head moves to the successor of the node it was at, and that node is      *)
(* retired.  tail was at it or behind no node of the list: head never gets  *)
(* more than one node ahead of tail.                                        *)
LEMMA AdvanceEffect ==
  ASSUME HInv, NEW p \in Threads, DeqAdvance(p), ~UNCHANGED <<head, retired>>
  PROVE  \E q \in Nodes, m \in Nodes :
           /\ q = head /\ q = Node(p) /\ hp[p] = q /\ m = nnext[q] /\ head' = m
           /\ retired' = [retired EXCEPT ![p] = Append(@, q)]
           /\ loc'[p] = NoLocals /\ pc[p] = "deq_advance" /\ pc'[p] = "retire"
           /\ InList(q) /\ ~Retired(tail)
<1>0. TypeOK /\ LocalsInv /\ HazardInv /\ ListInv /\ tail \in Nodes
  BY DEF HInv, TypeOK, NodesType
<1>1. /\ head = Node(p) /\ head' = loc[p].next /\ pc[p] = "deq_advance"
      /\ retired' = [retired EXCEPT ![p] = Append(@, Node(p))]
      /\ loc' = [loc EXCEPT ![p] = NoLocals] /\ Goto(p, "retire")
  BY Zenon DEF DeqAdvance
<1>2. pc[p] \in HoldPoints /\ pc[p] \in NextPoints
  BY <1>1 DEF HoldPoints, DeqHoldPoints, NextPoints
<1>3. PICK q \in Nodes, m \in Nodes :
         q = Node(p) /\ hp[p] = q /\ m = nnext[q] /\ m = loc[p].next
  BY Zenon, <1>0, <1>2 DEF LocalsInv, HazardInv
<1>4. loc'[p] = NoLocals /\ pc'[p] = "retire"
  BY Zenon, <1>0, <1>1, Typed, Arrives
<1>5. InList(q) /\ m # nullptr
  BY <1>0, <1>1, <1>3, Constants DEF ListInv
<1>6. ~Retired(tail)
  <2>1. PICK pos \in [Nodes -> Nat] : Ordered(pos)
    BY <1>0 DEF ListInv
  <2>2. pos[q] <= pos[tail]
    BY Zenon, <1>3, <1>5, <2>1 DEF Ordered
  <2>3. Retired(tail) => pos[tail] < pos[q]
    BY Zenon, <1>0, <1>1, <1>3, <2>1 DEF Ordered
  <2>4. pos[q] \in Nat /\ pos[tail] \in Nat
    BY <1>0
  <2> QED  BY <2>2, <2>3, <2>4
<1> QED  BY Zenon, <1>1, <1>3, <1>4, <1>5, <1>6

(* The list after head has moved. *)
LEMMA AdvanceList ==
  ASSUME HInv, NEW p \in Threads, DeqAdvance(p), enqueue(p) \/ dequeue(p),
         UNCHANGED <<tail, nnext, live>>
  PROVE  ListInv'
<1>0. TypeOK /\ LocalsInv /\ HazardInv /\ ListInv /\ TypeOK'
      /\ tail \in Nodes /\ head \in Nodes /\ live \subseteq Nodes
  BY StepType DEF HInv, TypeOK, NodesType
<1>1. CASE UNCHANGED <<head, retired>>
  BY <1>1, QuietList
<1>2. CASE ~UNCHANGED <<head, retired>>
  <2>1. PICK q \in Nodes, m \in Nodes :
           /\ q = head /\ q = Node(p) /\ hp[p] = q /\ m = nnext[q] /\ head' = m
           /\ retired' = [retired EXCEPT ![p] = Append(@, q)]
           /\ loc'[p] = NoLocals /\ pc[p] = "deq_advance" /\ pc'[p] = "retire"
           /\ InList(q) /\ ~Retired(tail)
    BY <1>2, AdvanceEffect
  <2>2. PICK pos \in [Nodes -> Nat] : Ordered(pos)
    BY <1>0 DEF ListInv
  <2>3. \A x : Retired(x)' <=> Retired(x) \/ x = q
    BY Zenon, <1>0, <2>1, PushRetired
  <2>4. \A x : InList(x)' <=> InList(x) /\ x # q
    BY Zenon, <2>3, ListedIs, ListedIsNext
  <2>5. nullptr \notin Nodes /\ \A x \in Nodes : pos[x] \in Nat
    BY Constants
  <2>6. InList(m) /\ pos[m] = pos[q] + 1 /\ m # q
    <3>1. m # nullptr
      BY <2>5
    <3>2. InList(m) /\ pos[m] = pos[q] + 1
      BY Zenon, <2>1, <2>2, <3>1 DEF Ordered
    <3> QED  BY <2>5, <3>2
  <2>7. \A x \in Nodes : InList(x) => pos[q] <= pos[x]
    BY Zenon, <2>1, <2>2 DEF Ordered
  <2>8. pos[head'] = pos[q] + 1
    BY Zenon, <2>1, <2>6
  <2>a. ASSUME NEW x \in Nodes, InList(x)', nnext'[x] # nullptr
        PROVE  /\ InList(nnext[x])' /\ pos[nnext'[x]] = pos[x] + 1
               /\ pos[x] <= pos[tail]
    <3>1. InList(x) /\ nnext'[x] = nnext[x]
      BY Zenon, <2>4, <2>a
    <3>2. PICK y : y = nnext[x] /\ y # nullptr
      BY <2>a, <3>1
    <3>3. InList(y) /\ pos[y] = pos[x] + 1 /\ pos[x] <= pos[tail]
      BY Zenon, <2>2, <3>1, <3>2 DEF Ordered
    <3>4. y # q
      BY <2>5, <2>7, <3>1, <3>3
    <3>5. InList(y)'
      BY Zenon, <2>4, <3>3, <3>4
    <3>6. InList(nnext[x])'
      BY Zenon, <3>2, <3>5 DEF InList
    <3> QED  BY Zenon, <3>1, <3>2, <3>3, <3>6
  <2>b. \A x, y \in Nodes : InList(x)' /\ InList(y)' /\ pos[x] = pos[y] => x = y
    BY Zenon, <2>2, <2>4 DEF Ordered
  <2>c. \A x, y \in Nodes : InList(x)' /\ InList(y)' /\ nnext'[x] = nullptr
                            => pos[y] <= pos[x]
    BY Zenon, <2>2, <2>4 DEF Ordered
  <2>d. ASSUME NEW x \in Nodes, InList(x)'  PROVE pos[head'] <= pos[x]
    <3>1. InList(x) /\ x # q
      BY Zenon, <2>4, <2>d
    <3>2. pos[q] <= pos[x] /\ pos[q] # pos[x]
      BY Zenon, <2>1, <2>2, <2>7, <3>1 DEF Ordered
    <3>3. pos[q] + 1 <= pos[x]
      BY Zenon, <2>1, <2>5, <2>d, <3>2, NatOrder
    <3> QED  BY <2>8, <3>3
  <2>e. ASSUME NEW x \in Nodes, Retired(x)'
        PROVE  pos[x] < pos[head'] /\ nnext'[x] # nullptr
    <3>0. nnext'[x] = nnext[x]
      BY Zenon, <2>1
    <3>1. CASE x = q
      <4>1. pos[q] < pos[q] + 1
        BY Zenon, <2>1, <2>5, NatOrder
      <4>2. nnext[q] # nullptr
        BY Zenon, <2>1, <2>5
      <4> QED  BY <2>8, <3>0, <3>1, <4>1, <4>2
    <3>2. CASE Retired(x)
      <4>1. pos[x] < pos[q] /\ nnext[x] # nullptr
        BY Zenon, <1>0, <2>1, <2>2, <3>2 DEF Ordered, ListInv
      <4>2. pos[x] < pos[q] + 1
        BY Zenon, <2>1, <2>5, <4>1, NatOrder
      <4> QED  BY <2>8, <3>0, <4>1, <4>2
    <3> QED  BY Zenon, <2>3, <2>e, <3>1, <3>2
  <2>f. ASSUME NEW o \in Threads, pc'[o] \in EnqHoldPoints
        PROVE  pos[Node(o)'] <= pos[tail]
    <3>1. o # p
      BY <2>1, <2>f DEF EnqHoldPoints
    <3>2. pc[o] \in EnqHoldPoints /\ Node(o)' = Node(o)
      BY Zenon, <1>0, <2>f, <3>1, OtherThreads
    <3> QED  BY Zenon, <2>2, <3>2 DEF Ordered
  <2>g. Ordered(pos)'
    BY Zenon, <2>a, <2>b, <2>c, <2>d, <2>e, <2>f DEF Ordered
  <2>h. Retired(tail)' => nnext'[tail'] = head'
    <3>1. Retired(tail)' => tail = q
      BY Zenon, <2>1, <2>3 DEF Retired
    <3> QED  BY Zenon, <2>1, <3>1
  <2>i. InList(head)' /\ tail' \in live'
    <3>1. InList(m)'
      BY Zenon, <2>4, <2>6
    <3> QED  BY Zenon, <1>0, <2>1, <3>1 DEF InList, ListInv
  <2> QED  BY Zenon, <2>e, <2>g, <2>h, <2>i DEF ListInv
<1> QED  BY <1>1, <1>2

(* The list after retire has destroyed a node, which was not in it. *)
LEMMA DestroyList ==
  ASSUME HInv, NEW p \in Threads, retire(p), enqueue(p) \/ dequeue(p),
         UNCHANGED <<head, tail, nnext>>
  PROVE  ListInv'
<1>0. TypeOK /\ LocalsInv /\ HazardInv /\ RetireInv /\ ListInv /\ TypeOK'
      /\ tail \in Nodes /\ head \in Nodes
  BY StepType DEF HInv, TypeOK, NodesType
<1>1. CASE UNCHANGED <<live, retired>>
  BY <1>1, QuietList
<1>2. CASE ~UNCHANGED <<live, retired>>
  <2>1. PICK i \in 1..Len(retired[p]), n \in Nodes :
              /\ n = retired[p][i]
              /\ live' = live \ {n} /\ n # head /\ n # tail
              /\ retired' = [retired EXCEPT ![p] = Erase(@, i)]
              /\ loc'[p].tid = 0 /\ pc' = pc
              /\ \A o \in Threads : ~Holds(o, n)
    BY <1>2, DestroyEffect
  <2>2. \A x : Retired(x)' <=> Retired(x) /\ x # n
    <3>1. \A x : Retired(x)' <=> Retired(x) /\ x # retired[p][i]
      BY Zenon, <1>0, <2>1, ErasedNode
    <3> QED  BY Zenon, <2>1, <3>1
  <2>3. Retired(n)
    BY Zenon, <1>0, <2>1, RetiredList
  <2>4. \A x : InList(x)' <=> InList(x)
    BY Zenon, <2>1, <2>2, <2>3, ListedIs, ListedIsNext
  <2>5. PICK pos \in [Nodes -> Nat] : Ordered(pos)
    BY <1>0 DEF ListInv
  <2>6. ASSUME NEW o \in Threads, pc'[o] \in EnqHoldPoints
        PROVE  pos[Node(o)'] <= pos[tail]
    <3>1. o # p
      BY <2>1, <2>6 DEF EnqHoldPoints, retire
    <3>2. pc[o] \in EnqHoldPoints /\ Node(o)' = Node(o)
      BY Zenon, <1>0, <2>6, <3>1, OtherThreads
    <3> QED  BY Zenon, <2>5, <3>2 DEF Ordered
  <2>7. Ordered(pos)'
    BY Zenon, <2>2, <2>4, <2>5, <2>6 DEF Ordered
  <2>8. Retired(tail)' => Retired(tail)
    BY Zenon, <2>2 DEF Retired
  <2>9. tail' \in live'
    BY Zenon, <1>0, <2>1 DEF ListInv
  <2> QED  BY Zenon, <1>0, <2>2, <2>4, <2>7, <2>8, <2>9 DEF ListInv
<1> QED  BY <1>1, <1>2

(* Every step preserves ListInv. *)
LEMMA StepListInv ==
  ASSUME HInv, NEW p \in Threads, enqueue(p) \/ dequeue(p)
  PROVE  ListInv'
<1>0. TypeOK
  BY DEF HInv
<1> QED  BY Zenon, <1>0, ListEffect, QuietList, TailList, AllocList, AdvanceList,
            DestroyList
-----------------------------------------------------------------------------
(* The scan of another thread stays right: whoever takes up a node has      *)
(* found it in head, which is not retired, or in tail, which its retirer    *)
(* has published.                                                           *)
LEMMA OthersScan ==
  ASSUME HInv, NEW p \in Threads, enqueue(p) \/ dequeue(p),
         NEW o \in Threads, o # p, pc'[o] = "retire"
  PROVE  Scan(o)'
<1>0. TypeOK /\ LocalsInv /\ HazardInv /\ RetireInv /\ ListInv
  BY DEF HInv
<1>1. /\ pc[o] = "retire" /\ loc'[o] = loc[o] /\ hp'[o] = hp[o]
      /\ retired'[o] = retired[o]
  BY Zenon, <1>0, OtherThreads
<1>2. /\ Scan(o) /\ loc[o].iret \in 1..(Len(retired[o]) + 1)
      /\ retired[o] \in Seq(Nodes) /\ Len(retired[o]) \in Nat
  BY Zenon, <1>0, <1>1, Typed DEF HInv, ScanInv, LocalsInv
<1>3. tail' \in Range(retired'[o]) => hp'[o] = tail'
  <2>1. CASE UNCHANGED tail
    BY Zenon, <1>1, <1>2, <2>1 DEF Scan
  <2>2. CASE ~UNCHANGED tail
    <3>1. InList(tail')
      BY Zenon, <1>0, <2>2, ListEffect, TailList
    <3> QED  BY Zenon, <1>1, <3>1 DEF InList
  <2> QED  BY <2>1, <2>2
<1>4. ASSUME loc[o].iret <= Len(retired[o]), hp[o] # retired[o][loc[o].iret],
             NEW x \in Threads, x < loc[o].tid, Holds(x, retired[o][loc[o].iret])'
      PROVE  FALSE
  <2>1. PICK n : n = retired[o][loc[o].iret]
    OBVIOUS
  <2>2. n \in Range(retired[o])
    BY <1>2, <1>4, <2>1, RangeOfSequence
  <2>3. ~Holds(x, n)
    BY Zenon, <1>2, <1>4, <2>1 DEF Scan
  <2>4. pc'[x] \in HoldPoints /\ Node(x)' = n
    BY Zenon, <1>1, <1>4, <2>1 DEF Holds
  <2>5. x = p
    BY Zenon, <1>0, <2>3, <2>4, OtherThreads DEF Holds
  <2>6. Node(p) = n /\ (Node(p) = tail \/ Node(p) = head)
    BY Zenon, <1>0, <2>3, <2>4, <2>5, HoldStep DEF Holds
  <2>7. n # head
    BY Zenon, <1>0, <2>2 DEF ListInv, InList
  <2>8. n # tail
    BY Zenon, <1>2, <1>4, <2>1, <2>2 DEF Scan
  <2> QED  BY <2>6, <2>7, <2>8
<1>5. hp[o] = retired[o][loc[o].iret] /\ loc[o].iret <= Len(retired[o])
      => loc[o].tid <= o
  BY Zenon, <1>2 DEF Scan
<1> QED  BY Zenon, <1>1, <1>3, <1>4, <1>5 DEF Scan

(* The scan of the thread itself. *)
LEMMA OwnScan ==
  ASSUME HInv, NEW p \in Threads, enqueue(p) \/ dequeue(p), pc'[p] = "retire"
  PROVE  Scan(p)'
<1>0. TypeOK /\ LocalsInv /\ HazardInv /\ RetireInv /\ ListInv /\ p \in Nat /\ TypeOK'
  BY Constants, StepType DEF HInv
<1>1. ASSUME loc'[p].tid = 0, tail' \in Range(retired'[p]) => hp'[p] = tail'
      PROVE  Scan(p)'
  <2>1. 0 <= p /\ \A o \in Threads : ~(o < 0)
    BY <1>0, Constants
  <2> QED  BY Zenon, <1>1, <2>1 DEF Scan
<1>2. DeqAdvance(p) \/ retire(p)
  BY <1>0, RetireStep
<1>3. CASE DeqAdvance(p)
  <2>1. ~UNCHANGED <<head, retired>>
    <3>1. ~Iterate(p, "deq_load")
      BY <1>0, Arrives
    <3>2. retired' = [retired EXCEPT ![p] = Append(@, Node(p))]
      BY Zenon, <1>3, <3>1 DEF DeqAdvance
    <3>3. retired[p] \in Seq(Nodes) /\ retired'[p] = Append(retired[p], Node(p))
      BY Zenon, <1>0, <3>2, Typed DEF TypeOK, ThreadsType
    <3>4. Node(p) \in Nodes
      BY <1>0, <1>3 DEF DeqAdvance, LocalsInv, HoldPoints, DeqHoldPoints
    <3>5. Len(retired'[p]) = Len(retired[p]) + 1 /\ Len(retired[p]) \in Nat
      BY <3>3, <3>4
    <3> QED  BY <3>5
  <2>2. PICK q \in Nodes, m \in Nodes :
           /\ q = head /\ q = Node(p) /\ hp[p] = q /\ m = nnext[q] /\ head' = m
           /\ retired' = [retired EXCEPT ![p] = Append(@, q)]
           /\ loc'[p] = NoLocals /\ pc[p] = "deq_advance" /\ pc'[p] = "retire"
           /\ InList(q) /\ ~Retired(tail)
    BY <1>3, <2>1, AdvanceEffect
  <2>3. UNCHANGED <<tail, hp>>
    BY Zenon, <1>3 DEF DeqAdvance
  <2>4. \A x : Retired(x)' <=> Retired(x) \/ x = q
    BY Zenon, <1>0, <2>2, PushRetired
  <2>5. tail \in Range(retired'[p]) => tail = q
    BY Zenon, <2>2, <2>4 DEF Retired
  <2>6. loc'[p].tid = 0
    <3>1. \A l : l = NoLocals => l.tid = 0
      BY DEF NoLocals
    <3> QED  BY Zenon, <2>2, <3>1
  <2> QED  BY Zenon, <1>1, <2>2, <2>3, <2>5, <2>6
<1>4. CASE retire(p)
  <2>0. ~Iterate(p, "deq_load")
    BY <1>0, Arrives
  <2>1. PICK i \in Nat, t \in Nat :
          /\ i = loc[p].iret /\ t = loc[p].tid /\ t \in Threads
          /\ i \in 1..(Len(retired[p]) + 1) /\ pc[p] = "retire"
    BY Zenon, <1>0, <1>4, Typed DEF retire, LocalsInv
  <2>2. Scan(p) /\ UNCHANGED <<tail, hp>>
    BY Zenon, <1>4, <2>1 DEF HInv, ScanInv, retire, ends
  <2>3. ~(i > Len(retired[p]))
    BY Zenon, <1>4, <2>0, <2>1 DEF retire
  <2>4. CASE UNCHANGED <<live, retired>>
    <3>1. \/ loc' = [loc EXCEPT ![p].iret = i + 1, ![p].tid = 0]
          \/ /\ loc' = [loc EXCEPT ![p].iret = i, ![p].tid = t + 1]
             /\ hp[t] # retired[p][i]
          \/ loc' = [loc EXCEPT ![p].iret = i, ![p].tid = 0]
      BY Zenon, <1>4, <2>0, <2>1 DEF retire
    <3>2. tail' \in Range(retired'[p]) => hp'[p] = tail'
      BY Zenon, <2>2, <2>4 DEF Scan
    <3>3. CASE \/ loc' = [loc EXCEPT ![p].iret = i + 1, ![p].tid = 0]
               \/ loc' = [loc EXCEPT ![p].iret = i, ![p].tid = 0]
      <4>1. loc'[p].tid = 0
        BY <1>0, <3>3, Typed DEF Locals
      <4> QED  BY <1>1, <3>2, <4>1
    <3>4. CASE /\ loc' = [loc EXCEPT ![p].iret = i, ![p].tid = t + 1]
               /\ hp[t] # retired[p][i]
      <4>1. loc'[p].iret = i /\ loc'[p].tid = t + 1
        BY <1>0, <3>4, Typed DEF Locals
      <4>2. PICK n : n = retired[p][i]
        OBVIOUS
      <4>3. i <= Len(retired[p])
        BY <1>0, <2>1, <2>3, Typed
      <4>4. IF hp[p] = n THEN t <= p ELSE \A o \in Threads : o < t => ~Holds(o, n)
        BY Zenon, <2>1, <2>2, <4>2, <4>3 DEF Scan
      <4>5. CASE hp[p] = n
        <5>1. t + 1 <= p
          BY <1>0, <2>1, <3>4, <4>2, <4>4, <4>5
        <5> QED  BY Zenon, <2>2, <2>4, <3>2, <4>1, <4>2, <4>5, <5>1 DEF Scan
      <4>6. CASE hp[p] # n
        <5>1. ASSUME NEW o \in Threads, o < t + 1  PROVE ~Holds(o, n)'
          <6>1. o < t \/ o = t
            <7>1. o \in Nat
              BY Zenon, Constants
            <7> QED  BY Zenon, <2>1, <5>1, <7>1, NatOrder
          <6>2. ~Holds(o, n)
            BY <1>0, <3>4, <4>2, <4>4, <4>6, <6>1 DEF HazardInv, Holds
          <6>3. CASE o # p
            BY Zenon, <1>0, <6>2, <6>3, OtherThreads DEF Holds
          <6>4. CASE o = p
            BY <6>4 DEF Holds, HoldPoints, EnqHoldPoints, DeqHoldPoints, CellPoints
          <6> QED  BY <6>3, <6>4
        <5> QED  BY Zenon, <2>2, <2>4, <3>2, <4>1, <4>2, <4>6, <5>1 DEF Scan, Holds
      <4> QED  BY <4>5, <4>6
    <3> QED  BY <3>1, <3>3, <3>4
  <2>5. CASE ~UNCHANGED <<live, retired>>
    <3>1. PICK j \in 1..Len(retired[p]), n \in Nodes :
              /\ n = retired[p][j] /\ loc'[p].tid = 0
              /\ retired' = [retired EXCEPT ![p] = Erase(@, j)]
      BY Zenon, <1>4, <2>5, DestroyEffect
    <3>2. Range(retired'[p]) \subseteq Range(retired[p])
      BY Zenon, <1>0, <3>1, EraseRetired
    <3>3. tail' \in Range(retired'[p]) => hp'[p] = tail'
      BY Zenon, <2>2, <3>2 DEF Scan
    <3> QED  BY <1>1, <3>1, <3>3
  <2> QED  BY <2>4, <2>5
<1> QED  BY <1>2, <1>3, <1>4
-----------------------------------------------------------------------------
(* The initial state satisfies the invariant. *)
LEMMA InitHazard == Init => HInv
<1> SUFFICES ASSUME Init  PROVE HInv
  OBVIOUS
<1>1. TypeOK
  BY InitType
<1>2. /\ \A p \in Threads : pc[p] = "idle" /\ retired[p] = <<>>
      /\ \A n \in Nodes : nnext[n] = nullptr
      /\ head = 1 /\ tail = 1 /\ live = {1}
  BY Zenon DEF Init
<1>3. LocalsInv /\ HazardInv /\ ScanInv
  BY Zenon, <1>2 DEF LocalsInv, HazardInv, ScanInv, HoldPoints, EnqHoldPoints,
     DeqHoldPoints, CellPoints, LoadedPoints, NextPoints, EnqPoints
<1>4. RetireInv
  BY <1>2 DEF RetireInv
<1>5. \A n : ~Retired(n)
  BY <1>1, <1>2, RetiredList
<1>6. \A n : InList(n) <=> n = 1
  BY Zenon, <1>2, <1>5, ListedIs
<1>7. PICK pos \in [Nodes -> Nat] : pos = [n \in Nodes |-> 0]
  OBVIOUS
<1>8. Ordered(pos)
  <2>1. \A n, m \in Nodes : pos[n] <= pos[m]
    BY <1>7
  <2>2. "idle" \notin EnqHoldPoints /\ 1 \in Nodes
    BY Constants DEF EnqHoldPoints
  <2> QED  BY Zenon, <1>2, <1>5, <1>6, <2>1, <2>2 DEF Ordered
<1>9. ListInv
  BY Zenon, <1>2, <1>5, <1>6, <1>8 DEF ListInv
<1> QED  BY <1>1, <1>3, <1>4, <1>9 DEF HInv

(* A step that changes nothing preserves it. *)
LEMMA StutterHazard == HInv /\ UNCHANGED vars => HInv'
<1> SUFFICES ASSUME HInv, UNCHANGED vars  PROVE HInv'
  OBVIOUS
<1> USE DEF vars, shared, ends, nodes, hazard, history
<1>1. TypeOK'
  BY Zenon DEF HInv, TypeOK, NodesType, ThreadsType, HistoryType
<1>2. LocalsInv' /\ HazardInv'
  BY Zenon DEF HInv, LocalsInv, HazardInv, Node
<1>r. RetireInv'
  BY DEF HInv, RetireInv
<1>3. ScanInv'
  BY Zenon DEF HInv, ScanInv, Scan, Holds, Node
<1>4. \A n : Retired(n)' <=> Retired(n)
  BY Zenon DEF Retired
<1>5. \A n : InList(n)' <=> InList(n)
  BY Zenon DEF InList
<1>6. PICK pos \in [Nodes -> Nat] : Ordered(pos)
  BY DEF HInv, ListInv
<1>7. Ordered(pos)'
  BY Zenon, <1>4, <1>5, <1>6 DEF Ordered, Node
<1>8. ListInv'
  BY Zenon, <1>4, <1>5, <1>7 DEF HInv, ListInv
<1> QED  BY <1>1, <1>2, <1>r, <1>3, <1>8 DEF HInv

(* The invariant is inductive. *)
LEMMA StepHazard == HInv /\ [Next]_vars => HInv'
<1>1. ASSUME HInv, NEW p \in Threads, enqueue(p) \/ dequeue(p)  PROVE HInv'
  <2>1. TypeOK /\ LocalsInv
    BY <1>1 DEF HInv
  <2>2. TypeOK' /\ LocalsInv'
    BY <1>1, <2>1, StepType, StepLocalsInv
  <2>3. HazardInv' /\ RetireInv' /\ ListInv'
    BY <1>1, StepHazardInv, StepRetireInv, StepListInv
  <2>4. ScanInv'
    BY Zenon, <1>1, OthersScan, OwnScan DEF ScanInv
  <2> QED  BY <2>2, <2>3, <2>4 DEF HInv
<1> QED  BY <1>1, StutterHazard DEF Next

(* Every reachable state satisfies the invariant. *)
LEMMA HazardInvariant == Spec => []HInv
BY InitHazard, StepHazard, PTL DEF Spec

(***************************************************************************)
(* The type invariant of enqueue and dequeue: in particular head and tail  *)
(* are never null (lines 179, 192, 271).                                   *)
(***************************************************************************)
THEOREM TypeCorrect == Spec => []TypeOK
<1>1. HInv => TypeOK
  BY DEF HInv
<1> QED  BY <1>1, HazardInvariant, PTL

(***************************************************************************)
(* The hazard pointers of HazardPointers.hpp, as enqueue and dequeue use   *)
(* them, keep every thread off destroyed nodes, for any number of threads, *)
(* nodes and items, although a destroyed address may be allocated again    *)
(* and although head may overtake tail.                                    *)
(***************************************************************************)
THEOREM NodesOutliveUse == Spec => []NoUseAfterFree
<1>1. UsePoints \subseteq HoldPoints
  BY DEF UsePoints, HoldPoints, EnqHoldPoints, DeqHoldPoints, CellPoints
<1>2. HInv => NoUseAfterFree
  BY Zenon, <1>1 DEF HInv, ListInv, HazardInv, InList, NoUseAfterFree
<1> QED  BY <1>2, HazardInvariant, PTL
=============================================================================
