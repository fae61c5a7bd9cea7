------------------------------ MODULE LCRQueue ------------------------------
(***************************************************************************)
(* c++/LCRQueue.hpp: enqueue and dequeue on a list of rings whose head and *)
(* tail advance, with the rings reclaimed by c++/HazardPointers.hpp.       *)
(*                                                                         *)
(* Every action is one access to shared memory with the local computation  *)
(* around it.  All accesses to what threads share are sequentially         *)
(* consistent, except the release stores of clear, which the thread        *)
(* follows with nothing but its return.  A 64-bit word with a flag in bit  *)
(* 63 is a record of the low bits and the flag.  An address that was freed *)
(* can be allocated again.                                                 *)
(***************************************************************************)
EXTENDS Integers, FiniteSets, Sequences, Functions, QueueHistory

CONSTANTS Producers, Consumers,
          RING_SIZE,
          CLOSE_TRIES,    \* 10: failed attempts before close_crq forces it
          SPIN_LIMIT,     \* 200000: polls of an empty cell before giving up
          SPIN_RELOAD,    \* 1024: polls between two loads of the tail
          MaxNodes,       \* bound: addresses the segment has for nodes
          MaxTicket,      \* bound: no head or tail of a node is moved past it
          MaxCalls        \* bound: calls of dequeue

ASSUME LCRQueueAssumption ==
  /\ Cardinality(Threads) \in Nat /\ Threads = 0..(Cardinality(Threads) - 1)
  /\ Producers \subseteq Threads /\ Consumers \subseteq Threads
  /\ EMPTY \notin Items
  /\ RING_SIZE \in Nat \ {0} /\ SPIN_RELOAD \in Nat \ {0} /\ MaxNodes \in Nat \ {0}
  /\ {CLOSE_TRIES, SPIN_LIMIT, MaxTicket, MaxCalls} \subseteq Nat

\* std::vector::erase of the i-th element
Erase(s, i) == [k \in 1..(Len(s) - 1) |-> IF k < i THEN s[k] ELSE s[k + 1]]

VARIABLES head, tail,   \* the ends of the list of nodes
          nhead,        \* nhead[n]: head of node n
          ntail,        \* ntail[n]: tail of node n
          nnext,        \* nnext[n]: next of node n
          array,        \* array[n][j]: cell j of node n
          live,         \* nodes constructed and not destroyed
          hp,           \* hp[p]: the hazard pointer of thread p
          retired,      \* retired[p]: retiredList of thread p
          pc, loc       \* control point and local variables of every thread

ends   == <<head, tail>>
nodes  == <<nhead, ntail, nnext, array, live>>
hazard == <<hp, retired>>
shared == <<ends, nodes, hazard>>
vars   == <<shared, pc, loc, history>>

nullptr == 0
Nodes == 1..MaxNodes
Slots == 0..(RING_SIZE - 1)
Slot(t) == t % RING_SIZE

Values == Items \cup {EMPTY}         \* EMPTY is the nullptr of a cell
Cells == [val : Values, idx : Nat, unsafe : BOOLEAN]
Tails == [idx : Nat, closed : BOOLEAN]
Cell(v, i, u) == [val |-> v, idx |-> i, unsafe |-> u]
NodeCells == [j \in Slots |-> Cell(EMPTY, j, FALSE)]
OpenAt(i) == [idx |-> i, closed |-> FALSE]

\* node, next: ltail and lnext, or lhead and lnext; tk: the ticket; iret, tid:
\* of retire
Locals == [node : Nodes \cup {nullptr}, next : Nodes \cup {nullptr}, tk : Nat,
           seen : Cells, tt : Tails, r : Nat, h : Nat, try_close : Nat,
           item : Values, iret : Nat, tid : Nat]

NoLocals == [node |-> nullptr, next |-> nullptr, tk |-> 0,
             seen |-> Cell(EMPTY, 0, FALSE), tt |-> OpenAt(0), r |-> 0, h |-> 0,
             try_close |-> 0, item |-> EMPTY, iret |-> 1, tid |-> 0]

\* Where a dequeuer works on the cell of its ticket.
CellPoints == {"deq_idx", "deq_val", "deq_take", "deq_mark", "deq_tail",
               "deq_skip"}

\* Where the next step of a thread reads or writes its node.
UsePoints == CellPoints \cup
  {"enq_next", "enq_ticket", "enq_alloc", "enq_idx", "enq_val", "enq_head",
   "enq_cas", "enq_full", "enq_close", "deq_ticket", "deq_bts", "deq_empty",
   "fix_tail", "fix_head", "fix_same", "fix_cas", "deq_next", "deq_recheck"}
Points == UsePoints \cup
  {"idle", "enq_load", "enq_protect", "enq_check", "enq_help", "enq_swing",
   "enq_clear", "deq_load", "deq_protect", "deq_check", "deq_advance",
   "retire", "deq_clear"}

NodesType ==
  /\ {head, tail} \subseteq Nodes /\ live \subseteq Nodes
  /\ nhead \in [Nodes -> Nat]
  /\ ntail \in [Nodes -> Tails]
  /\ nnext \in [Nodes -> Nodes \cup {nullptr}]
  /\ array \in [Nodes -> [Slots -> Cells]]

ThreadsType ==
  /\ hp \in [Threads -> Nodes \cup {nullptr}]
  /\ retired \in [Threads -> Seq(Nodes)]
  /\ pc \in [Threads -> Points]
  /\ loc \in [Threads -> Locals]

TypeOK == NodesType /\ ThreadsType /\ HistoryType

Init ==
  /\ head = 1 /\ tail = 1 /\ live = {1}
  /\ nhead = [n \in Nodes |-> 0]
  /\ ntail = [n \in Nodes |-> OpenAt(0)]
  /\ nnext = [n \in Nodes |-> nullptr]
  /\ array = [n \in Nodes |-> NodeCells]
  /\ hp = [p \in Threads |-> nullptr]
  /\ retired = [p \in Threads |-> <<>>]
  /\ pc = [p \in Threads |-> "idle"]
  /\ loc = [p \in Threads |-> NoLocals]
  /\ HistoryInit
-----------------------------------------------------------------------------
Node(p) == loc[p].node
CellOf(p) == array[Node(p)][Slot(loc[p].tk)]

Goto(p, point) == pc' = [pc EXCEPT ![p] = point]

\* The next iteration of the outer loop: what its body declares is dead.
Iterate(p, point) ==
  /\ Goto(p, point)
  /\ loc' = [loc EXCEPT ![p] = [NoLocals EXCEPT !.item = loc[p].item,
                                 !.try_close = loc[p].try_close]]

\* CAS2 on the cell of p's ticket, against what p read from it.
CAS2Succeeds(p) == CellOf(p) = loc[p].seen
CAS2(p, new) ==
  /\ CAS2Succeeds(p)
  /\ array' = [array EXCEPT ![Node(p)][Slot(loc[p].tk)] = new]
  /\ UNCHANGED <<ends, nhead, ntail, nnext, live, hazard>>
CAS2Fails(p) == ~CAS2Succeeds(p) /\ UNCHANGED shared

\* protectPtr(0, pointer.load(), tid) and the test whether pointer still
\* holds it, for pointer = tail in enqueue and head in dequeue
Load(p, pointer, at, to) ==
  /\ pc[p] = at
  /\ loc' = [loc EXCEPT ![p].node = pointer]
  /\ Goto(p, to)
  /\ UNCHANGED <<shared, history>>

\* Mutant: publishes nothing.
ProtectNothing(p, at, to) ==
  /\ pc[p] = at
  /\ Goto(p, to)
  /\ UNCHANGED <<shared, loc, history>>

Protect(p, at, to) ==
  /\ pc[p] = at
  /\ hp' = [hp EXCEPT ![p] = Node(p)]
  /\ Goto(p, to)
  /\ UNCHANGED <<ends, nodes, retired, loc, history>>

Check(p, pointer, at, to, again) ==
  /\ pc[p] = at
  /\ IF Node(p) = pointer THEN Goto(p, to) /\ UNCHANGED loc
                          ELSE Iterate(p, again)
  /\ UNCHANGED <<shared, history>>

\* hp->clear(tid) before the return
Clear(p) ==
  /\ hp' = [hp EXCEPT ![p] = nullptr]
  /\ Goto(p, "idle") /\ loc' = [loc EXCEPT ![p] = NoLocals]
  /\ UNCHANGED <<ends, nodes, retired>>
-----------------------------------------------------------------------------
(* enqueue(item, tid) *)

EnqCall(p, v) ==
  /\ pc[p] = "idle" /\ p \in Producers /\ v \notin hist.sent
  /\ Goto(p, "enq_load")
  /\ loc' = [loc EXCEPT ![p].item = v]
  /\ EnqueueCalled(v)
  /\ UNCHANGED shared

EnqLoad(p)    == Load(p, tail, "enq_load", "enq_protect")
EnqProtect(p) == Protect(p, "enq_protect", "enq_check")
EnqCheck(p)   == Check(p, tail, "enq_check", "enq_next", "enq_load")

EnqNext(p) ==
  /\ pc[p] = "enq_next"
  /\ loc' = [loc EXCEPT ![p].next = nnext[Node(p)]]
  /\ Goto(p, IF nnext[Node(p)] # nullptr THEN "enq_help" ELSE "enq_ticket")
  /\ UNCHANGED <<shared, history>>

\* tail.compare_exchange_strong(ltail, lnext)
AdvanceTail(p) ==
  /\ tail' = IF tail = Node(p) THEN loc[p].next ELSE tail
  /\ UNCHANGED <<head, nodes, hazard>>

EnqHelp(p) ==
  /\ pc[p] = "enq_help"
  /\ AdvanceTail(p)
  /\ Iterate(p, "enq_load")
  /\ UNCHANGED history

EnqTicket(p) ==
  /\ pc[p] = "enq_ticket"
  /\ ntail[Node(p)].idx < MaxTicket
  /\ ntail' = [ntail EXCEPT ![Node(p)].idx = @ + 1]
  /\ loc' = [loc EXCEPT ![p].tk = ntail[Node(p)].idx]
  /\ Goto(p, IF ntail[Node(p)].closed THEN "enq_alloc" ELSE "enq_idx")
  /\ UNCHANGED <<ends, nhead, nnext, array, live, hazard, history>>

\* construct<Node>, the solo enqueue into it, which no other thread can see
\* yet, the CAS on ltail->next, and destroy_ptr when that fails
EnqAlloc(p) ==
  /\ pc[p] = "enq_alloc"
  /\ \E n \in Nodes \ live :
       IF nnext[Node(p)] = nullptr
         THEN /\ nhead' = [nhead EXCEPT ![n] = 0]
              /\ ntail' = [ntail EXCEPT ![n] = OpenAt(1)]
              /\ nnext' = [nnext EXCEPT ![n] = nullptr, ![Node(p)] = n]
              /\ array' = [array EXCEPT ![n] =
                             [NodeCells EXCEPT ![0] = Cell(loc[p].item, 0, FALSE)]]
              /\ live' = live \cup {n}
              /\ loc' = [loc EXCEPT ![p].next = n]
              /\ Goto(p, "enq_swing")
              /\ UNCHANGED <<ends, hazard>>
         ELSE Iterate(p, "enq_load") /\ UNCHANGED shared
  /\ UNCHANGED history

EnqSwing(p) ==
  /\ pc[p] = "enq_swing"
  /\ AdvanceTail(p)
  /\ Goto(p, "enq_clear")
  /\ UNCHANGED <<loc, history>>

EnqClear(p) ==
  /\ pc[p] = "enq_clear"
  /\ EnqueueReturned(loc[p].item)
  /\ Clear(p)

EnqReadIdx(p) ==
  /\ pc[p] = "enq_idx"
  /\ loc' = [loc EXCEPT ![p].seen = Cell(EMPTY, CellOf(p).idx, CellOf(p).unsafe)]
  /\ Goto(p, "enq_val")
  /\ UNCHANGED <<shared, history>>

EnqReadVal(p) ==
  /\ pc[p] = "enq_val"
  /\ Goto(p, IF CellOf(p).val # EMPTY \/ loc[p].seen.idx > loc[p].tk
               THEN "enq_full"
               ELSE IF loc[p].seen.unsafe THEN "enq_head" ELSE "enq_cas")
  /\ UNCHANGED <<shared, loc, history>>

EnqReadHead(p) ==
  /\ pc[p] = "enq_head"
  /\ Goto(p, IF nhead[Node(p)] < loc[p].tk THEN "enq_cas" ELSE "enq_full")
  /\ UNCHANGED <<shared, loc, history>>

EnqCas(p) ==
  /\ pc[p] = "enq_cas"
  /\ \/ CAS2(p, Cell(loc[p].item, loc[p].tk, FALSE)) /\ Goto(p, "enq_clear")
     \/ CAS2Fails(p) /\ Goto(p, "enq_full")
  /\ UNCHANGED <<loc, history>>

\* the difference is compared as a signed number
EnqFull(p) ==
  /\ pc[p] = "enq_full"
  /\ IF loc[p].tk - nhead[Node(p)] >= RING_SIZE
       THEN /\ Goto(p, "enq_close")
            /\ loc' = [loc EXCEPT ![p].try_close = @ + 1]
       ELSE Iterate(p, "enq_load")
  /\ UNCHANGED <<shared, history>>

\* close_crq closes the node or leaves its tail as it is
close_crq(p) ==
  LET t == ntail[Node(p)]
  IN  ntail' = [ntail EXCEPT ![Node(p)].closed =
                  t.closed \/ loc[p].try_close >= CLOSE_TRIES
                           \/ t.idx = loc[p].tk + 1]

EnqClose(p) ==
  /\ pc[p] = "enq_close"
  /\ close_crq(p)
  /\ Iterate(p, "enq_load")
  /\ UNCHANGED <<ends, nhead, nnext, array, live, hazard, history>>
-----------------------------------------------------------------------------
(* dequeue(tid) *)

DeqCall(p) ==
  /\ pc[p] = "idle" /\ p \in Consumers /\ hist.calls < MaxCalls
  /\ Goto(p, "deq_load")
  /\ DequeueCalled(p)
  /\ UNCHANGED <<shared, loc>>

DeqLoad(p)    == Load(p, head, "deq_load", "deq_protect")
DeqProtect(p) == Protect(p, "deq_protect", "deq_check")
DeqCheck(p)   == Check(p, head, "deq_check", "deq_ticket", "deq_load")

DeqTicket(p) ==
  /\ pc[p] = "deq_ticket"
  /\ nhead[Node(p)] < MaxTicket
  /\ nhead' = [nhead EXCEPT ![Node(p)] = @ + 1]
  /\ loc' = [loc EXCEPT ![p].tk = nhead[Node(p)]]
  /\ Goto(p, "deq_idx")
  /\ UNCHANGED <<ends, ntail, nnext, array, live, hazard, history>>

DeqReadIdx(p) ==
  /\ pc[p] = "deq_idx"
  /\ loc' = [loc EXCEPT ![p].seen = Cell(EMPTY, CellOf(p).idx, CellOf(p).unsafe)]
  /\ Goto(p, "deq_val")
  /\ UNCHANGED <<shared, history>>

\* Leaving the loop over the cell: its variables are dead.
LeaveCell(p, point) ==
  /\ Goto(p, point)
  /\ loc' = [loc EXCEPT ![p] = [NoLocals EXCEPT !.node = Node(p), !.tk = loc[p].tk]]

\* The cell was empty and the tail is, or was, tt.
Poll(p, seen, tt) ==
  LET skip == \/ seen.unsafe \/ tt.idx < loc[p].tk + 1
              \/ loc[p].r > SPIN_LIMIT \/ tt.closed
  IN  /\ Goto(p, IF skip THEN "deq_skip" ELSE "deq_idx")
      /\ loc' = [loc EXCEPT ![p].seen = seen, ![p].tt = tt,
                            ![p].r = IF skip THEN @ ELSE @ + 1]

\* Mutant: takes what the cell holds, whatever its lap.
DeqTakeAnyLap(p) ==
  /\ pc[p] = "deq_val"
  /\ LET seen == [loc[p].seen EXCEPT !.val = CellOf(p).val]
     IN  \/ seen.idx > loc[p].tk /\ LeaveCell(p, "deq_empty")
         \/ /\ seen.idx <= loc[p].tk /\ seen.val # EMPTY
            /\ Goto(p, "deq_take")
            /\ loc' = [loc EXCEPT ![p].seen = seen]
         \/ /\ seen.idx <= loc[p].tk /\ seen.val = EMPTY
            /\ Goto(p, "deq_tail") /\ loc' = [loc EXCEPT ![p].seen = seen]
  /\ UNCHANGED <<shared, history>>

DeqReadVal(p) ==
  /\ pc[p] = "deq_val"
  /\ LET seen == [loc[p].seen EXCEPT !.val = CellOf(p).val]
     IN  \/ seen.idx > loc[p].tk /\ LeaveCell(p, "deq_empty")
         \/ /\ seen.idx <= loc[p].tk /\ seen.val # EMPTY
            /\ Goto(p, IF seen.idx = loc[p].tk THEN "deq_take" ELSE "deq_mark")
            /\ loc' = [loc EXCEPT ![p].seen = seen]
         \/ /\ seen.idx <= loc[p].tk /\ seen.val = EMPTY
            /\ IF loc[p].r % SPIN_RELOAD = 0
                 THEN Goto(p, "deq_tail") /\ loc' = [loc EXCEPT ![p].seen = seen]
                 ELSE Poll(p, seen, loc[p].tt)
  /\ UNCHANGED <<shared, history>>

DeqTake(p) ==
  /\ pc[p] = "deq_take"
  /\ \/ CAS2(p, Cell(EMPTY, loc[p].tk + RING_SIZE, loc[p].seen.unsafe))
        /\ Goto(p, "deq_clear")
     \/ CAS2Fails(p) /\ Goto(p, "deq_idx")
  /\ UNCHANGED <<loc, history>>

DeqMarkUnsafe(p) ==
  /\ pc[p] = "deq_mark"
  /\ \/ /\ CAS2(p, Cell(loc[p].seen.val, loc[p].seen.idx, TRUE))
        /\ LeaveCell(p, "deq_empty")
     \/ CAS2Fails(p) /\ Goto(p, "deq_idx") /\ UNCHANGED loc
  /\ UNCHANGED history

DeqLoadTail(p) ==
  /\ pc[p] = "deq_tail"
  /\ Poll(p, loc[p].seen, ntail[Node(p)])
  /\ UNCHANGED <<shared, history>>

\* tt > RING_SIZE compares whole words
DeqSkip(p) ==
  /\ pc[p] = "deq_skip"
  /\ \/ /\ CAS2(p, Cell(EMPTY, loc[p].tk + RING_SIZE, loc[p].seen.unsafe))
        /\ LeaveCell(p, IF /\ ~loc[p].seen.unsafe /\ loc[p].r > SPIN_LIMIT
                           /\ loc[p].tt.closed \/ loc[p].tt.idx > RING_SIZE
                         THEN "deq_bts" ELSE "deq_empty")
     \/ CAS2Fails(p) /\ Goto(p, "deq_idx") /\ UNCHANGED loc
  /\ UNCHANGED history

DeqCloseNode(p) ==
  /\ pc[p] = "deq_bts"
  /\ ntail' = [ntail EXCEPT ![Node(p)].closed = TRUE]
  /\ Goto(p, "deq_empty")
  /\ UNCHANGED <<ends, nhead, nnext, array, live, hazard, loc, history>>

\* tail_index(lhead->tail) <= headticket + 1
NothingComing(p) == ntail[Node(p)].idx <= loc[p].tk + 1

\* Mutant: the node counts as empty whenever the cell gave nothing.
DeqAlwaysEmpty(p) ==
  /\ pc[p] = "deq_empty"
  /\ Goto(p, "fix_tail")
  /\ UNCHANGED <<shared, loc, history>>

DeqCheckEmpty(p) ==
  /\ pc[p] = "deq_empty"
  /\ IF NothingComing(p) THEN Goto(p, "fix_tail") /\ UNCHANGED loc
                         ELSE Iterate(p, "deq_load")
  /\ UNCHANGED <<shared, history>>

\* fixState(lhead): t and h are tt and h of loc
FixLoadTail(p) ==
  /\ pc[p] = "fix_tail"
  /\ loc' = [loc EXCEPT ![p].tt = ntail[Node(p)]]
  /\ Goto(p, "fix_head")
  /\ UNCHANGED <<shared, history>>

FixLoadHead(p) ==
  /\ pc[p] = "fix_head"
  /\ loc' = [loc EXCEPT ![p].h = nhead[Node(p)]]
  /\ Goto(p, "fix_same")
  /\ UNCHANGED <<shared, history>>

\* h > t compares whole words, so a closed t is never below h
FixSame(p) ==
  /\ pc[p] = "fix_same"
  /\ Goto(p, IF ntail[Node(p)] # loc[p].tt THEN "fix_tail"
             ELSE IF ~loc[p].tt.closed /\ loc[p].h > loc[p].tt.idx
               THEN "fix_cas" ELSE "deq_next")
  /\ UNCHANGED <<shared, loc, history>>

FixCas(p) ==
  /\ pc[p] = "fix_cas"
  /\ IF ntail[Node(p)] = loc[p].tt
       THEN /\ ntail' = [ntail EXCEPT ![Node(p)] = OpenAt(loc[p].h)]
            /\ Goto(p, "deq_next")
       ELSE UNCHANGED ntail /\ Goto(p, "fix_tail")
  /\ UNCHANGED <<ends, nhead, nnext, array, live, hazard, loc, history>>

\* Mutant: follows lhead->next without testing it.
DeqNextUntested(p) ==
  /\ pc[p] = "deq_next"
  /\ Goto(p, "deq_recheck")
  /\ loc' = [loc EXCEPT ![p].next = nnext[Node(p)], ![p].tt = OpenAt(0), ![p].h = 0]
  /\ UNCHANGED <<shared, history>>

DeqNext(p) ==
  /\ pc[p] = "deq_next"
  /\ Goto(p, IF nnext[Node(p)] = nullptr THEN "deq_clear" ELSE "deq_recheck")
  /\ loc' = [loc EXCEPT ![p].next = nnext[Node(p)], ![p].tt = OpenAt(0), ![p].h = 0]
  /\ UNCHANGED <<shared, history>>

\* Mutant: leaves the node as soon as it has a successor.
DeqNoRecheck(p) ==
  /\ pc[p] = "deq_recheck"
  /\ Goto(p, "deq_advance")
  /\ UNCHANGED <<shared, loc, history>>

DeqRecheck(p) ==
  /\ pc[p] = "deq_recheck"
  /\ IF NothingComing(p) THEN Goto(p, "deq_advance") /\ UNCHANGED loc
                         ELSE Iterate(p, "deq_load")
  /\ UNCHANGED <<shared, history>>

\* the CAS on head and the push_back with which retire begins
DeqAdvance(p) ==
  /\ pc[p] = "deq_advance"
  /\ IF head = Node(p)
       THEN /\ head' = loc[p].next
            /\ retired' = [retired EXCEPT ![p] = Append(@, Node(p))]
            /\ loc' = [loc EXCEPT ![p] = NoLocals]
            /\ Goto(p, "retire")
       ELSE Iterate(p, "deq_load") /\ UNCHANGED <<head, retired>>
  /\ UNCHANGED <<tail, nodes, hp, history>>

\* retire: compare the hazard pointer of thread tid with the retired node at
\* position iret; keep the node when they are equal, destroy it when that was
\* the last thread
retire(p) ==
  LET i == loc[p].iret
      t == loc[p].tid
      next(j, k) == loc' = [loc EXCEPT ![p].iret = j, ![p].tid = k]
  IN  /\ pc[p] = "retire"
      /\ IF i > Len(retired[p])
           THEN Iterate(p, "deq_load") /\ UNCHANGED <<live, retired>>
           ELSE /\ IF hp[t] = retired[p][i]
                     THEN next(i + 1, 0) /\ UNCHANGED <<live, retired>>
                     ELSE IF t + 1 \in Threads
                       THEN next(i, t + 1) /\ UNCHANGED <<live, retired>>
                       ELSE /\ next(i, 0)
                            /\ retired' = [retired EXCEPT ![p] = Erase(@, i)]
                            /\ live' = live \ {retired[p][i]}
                /\ UNCHANGED pc
      /\ UNCHANGED <<ends, nhead, ntail, nnext, array, hp, history>>

DeqClear(p) ==
  /\ pc[p] = "deq_clear"
  /\ IF loc[p].seen.val # EMPTY THEN DequeueReturned(p, loc[p].seen.val)
                                ELSE DequeueReturnedEmpty(p)
  /\ Clear(p)
-----------------------------------------------------------------------------
enqueue(p) ==
  \/ \E v \in Items : EnqCall(p, v)
  \/ EnqLoad(p) \/ EnqProtect(p) \/ EnqCheck(p) \/ EnqNext(p) \/ EnqHelp(p)
  \/ EnqTicket(p) \/ EnqAlloc(p) \/ EnqSwing(p) \/ EnqReadIdx(p)
  \/ EnqReadVal(p) \/ EnqReadHead(p) \/ EnqCas(p) \/ EnqFull(p)
  \/ EnqClose(p) \/ EnqClear(p)

fixState(p) == FixLoadTail(p) \/ FixLoadHead(p) \/ FixSame(p) \/ FixCas(p)

dequeue(p) ==
  \/ DeqCall(p) \/ DeqLoad(p) \/ DeqProtect(p) \/ DeqCheck(p) \/ DeqTicket(p)
  \/ DeqReadIdx(p) \/ DeqReadVal(p) \/ DeqTake(p) \/ DeqMarkUnsafe(p)
  \/ DeqLoadTail(p) \/ DeqSkip(p) \/ DeqCloseNode(p) \/ DeqCheckEmpty(p)
  \/ fixState(p) \/ DeqNext(p) \/ DeqRecheck(p) \/ DeqAdvance(p)
  \/ retire(p) \/ DeqClear(p)

Next == \E p \in Threads : enqueue(p) \/ dequeue(p)

Spec == Init /\ [][Next]_vars
-----------------------------------------------------------------------------
\* The dequeuer with ticket h of node n is at work on its cell.
Served(n, h) ==
  \E p \in Threads : pc[p] \in CellPoints /\ Node(p) = n /\ loc[p].tk = h

\* No dequeue has moved head past node n.
InList(n) == n \in live /\ \A p \in Threads : n \notin Range(retired[p])

(***************************************************************************)
(* No item is lost: an item whose enqueue has returned is on its way out   *)
(* in a dequeue, or in a cell that the dequeuer of its ticket is working   *)
(* on or will still visit, in a node that head has not moved past.  What   *)
(* keeps a dequeuer from leaving an item behind in a node is the second    *)
(* test of the tail (line 270), made when next is known and the node       *)
(* therefore closed.                                                       *)
(***************************************************************************)
NoItemLost ==
  \A v \in hist.returned \ hist.delivered :
    \/ \E p \in Threads : pc[p] = "deq_clear" /\ loc[p].seen.val = v
    \/ \E n \in live, j \in Slots :
         LET i == array[n][j].idx
         IN  /\ array[n][j].val = v /\ Slot(i) = j
             /\ Served(n, i) \/ (InList(n) /\ i >= nhead[n])

(***************************************************************************)
(* No thread uses a node that was destroyed: where the next step of a      *)
(* thread reads or writes its node, the node is live, and so are head and  *)
(* tail.  protectPtr publishes the node before head or tail is tested      *)
(* again (lines 175, 218) and retire scans what is published.  head can    *)
(* overtake tail, which then stays at a retired node that enqueuers still  *)
(* reach: the dequeuer that retired the node finds its own hazard pointer  *)
(* on it (line 271) and keeps it, and before it retires another node an    *)
(* enqueuer has moved tail on (lines 179, 192).                            *)
(***************************************************************************)
NoUseAfterFree ==
  /\ {head, tail} \subseteq live
  /\ \A p \in Threads : pc[p] \in UsePoints => Node(p) \in live
=============================================================================
