------------------------------- MODULE Malloc -------------------------------
(***************************************************************************)
(* The allocator of src/c/malloc.c in the build of this repository (SHM,   *)
(* spin locks, no MALLOC_DEBUG): processes forked from one that has called *)
(* shm_init allocate and free chunks of one size class and blocks of pages *)
(* in the shared segment.  Each process has one thread.                    *)
(*                                                                         *)
(* LOCK(l), the lock of the size class, is held over several steps, because*)
(* valloc and free are called inside it and take LOCK(NUMSMALL) each time. *)
(* A section under LOCK(NUMSMALL) takes no other lock and is one step.     *)
(* A chunk is the number of its page and its place in the page.  A list of *)
(* chunks is the set of them: which one malloc takes first is left open.  A*)
(* block or a chunk that malloc has returned may be freed by any process.  *)
(***************************************************************************)
EXTENDS Pages

CONSTANTS Processes,       \* the processes, Parent among them
          Parent,          \* the process that calls shm_init
          NoOne,           \* not a process: a lock that is free
          Workloads,       \* what clients do: they hold at most "chunks"
                           \* chunks and "blocks" blocks of pages at a time,
                           \* of the sizes in "sizes", in a file that can
                           \* grow to "limit" pages; "forks" is whether
                           \* there are other processes than Parent
          PERPAGE,         \* chunks in a page of the size class
          TARGET,          \* chunks a refill takes
          FreesCutBlocks   \* do clients free or resize the blocks of pages
                           \* that were cut from a larger free extent?

ASSUME MallocAssumption ==
  /\ Parent \in Processes /\ NoOne \notin Processes
  /\ \A w \in Workloads : /\ w.limit \in Nat /\ w.limit >= 3
                           /\ w.chunks \in Nat /\ w.blocks \in Nat
                           /\ w.forks \in BOOLEAN
                           /\ w.sizes \subseteq Nat \ {0}
  /\ PERPAGE \in Nat \ {0} /\ TARGET \in Nat \ {0}
  /\ FreesCutBlocks \in BOOLEAN

VARIABLES
  work,      \* the workload
  heap,      \* the shared segment, see Pages
  map,       \* per process, what it has mapped
  lock,      \* holder of LOCK(l)
  local,     \* per process, freelists[l]
  pc,        \* per process, where it is in the allocator
  loc,       \* per process, the local variables of the call
  chunks,    \* chunks that clients hold
  blocks     \* blocks of pages that clients hold, [pn, size]

vars == <<work, heap, map, lock, local, pc, loc, chunks, blocks>>

NoLocal == [free |-> {}, aux |-> {}, count |-> 0, target |-> 0]

\* list: new_fl, or the chunks to flush; old: the chunk that free was called
\* with; n: chunks still to take, or the page mresize works on; size: its size.
NoCall == [list |-> {}, old |-> {}, n |-> 0, size |-> 0]

Init ==
  /\ work \in Workloads
  /\ heap = msetup(work.limit)
  /\ map = [p \in Processes |-> [brk |-> 3, top |-> 3]]
  /\ lock = NoOne
  /\ local = [p \in Processes |-> NoLocal]
  /\ pc = [p \in Processes |-> IF p = Parent THEN "run" ELSE "unborn"]
  /\ loc = [p \in Processes |-> NoCall]
  /\ chunks = {} /\ blocks = {}

\* An assertion that fails stops everyone: the lock is never released.
Runs(p, where) == pc[p] \in where /\ heap.failed = {} /\ UNCHANGED work

Alive == {"run", "refill", "flush", "pages", "cut", "rest", "fini", "finipages"}

\* The spin lock of the size class.
LOCK(p) == lock = NoOne /\ lock' = p

UNLOCK == lock' = NoOne

Goto(p, there, call) == pc' = [pc EXCEPT ![p] = there] /\ loc' = [loc EXCEPT ![p] = call]

---------------------------------------------------------------------------
(* malloc_small *)

\* The tail of malloc_small: a chunk of the local list is returned.
Pop(p, f, count, target, aux) ==
  \E c \in f :
    /\ local' = [local EXCEPT ![p] = [free |-> f \ {c}, aux |-> aux,
                                      count |-> count - 1, target |-> target]]
    /\ chunks' = chunks \union {c}

\* Mutant: does not set the count when the auxiliary list is taken over.
MallocKeepsCount(p) ==
  LET fl == local[p]
  IN  /\ Runs(p, {"run"}) /\ Cardinality(chunks) < work.chunks
      /\ \/ fl.free # {} /\ Pop(p, fl.free, fl.count, fl.target, fl.aux)
         \/ /\ fl.free = {} /\ fl.aux # {}
            /\ Pop(p, fl.aux, fl.count, fl.target, {})
      /\ UNCHANGED <<heap, map, lock, pc, loc, blocks>>

malloc_local(p) ==
  LET fl == local[p]
  IN  /\ Runs(p, {"run"}) /\ Cardinality(chunks) < work.chunks
      /\ \/ fl.free # {} /\ Pop(p, fl.free, fl.count, fl.target, fl.aux)
         \/ /\ fl.free = {} /\ fl.aux # {}
            /\ Pop(p, fl.aux, fl.target, fl.target, {})
      /\ UNCHANGED <<heap, map, lock, pc, loc, blocks>>

refill_lock(p) ==
  LET target == IF local[p].target = 0 THEN TARGET ELSE local[p].target
  IN  /\ Runs(p, {"run"}) /\ Cardinality(chunks) < work.chunks
      /\ local[p].free = {} /\ local[p].aux = {}
      /\ LOCK(p)
      /\ local' = [local EXCEPT ![p].target = target]
      /\ Goto(p, "refill", [NoCall EXCEPT !.n = target])
      /\ UNCHANGED <<heap, map, chunks, blocks>>

\* A page from valloc becomes a page of chunks, all of them free.
NewPage(h, pn) ==
  SetD([h EXCEPT !.freechunks = <<pn>>], pn,
       [Zero EXCEPT !.code = "SMALL", !.count = PERPAGE, !.free = 0 .. PERPAGE - 1])

\* A free chunk of the first page goes to new_fl.
TakeChunk(p, h) ==
  LET pn == Head(h.freechunks)
  IN  \E i \in h.d[pn].free :
        /\ heap' = SetD([h EXCEPT !.freechunks = IF h.d[pn].count = 1 THEN Tail(@) ELSE @],
                        pn, [h.d[pn] EXCEPT !.free = @ \ {i}, !.count = @ - 1])
        /\ Goto(p, "refill", [loc[p] EXCEPT !.n = @ - 1,
                                            !.list = @ \union {<<pn, i>>}])

refill_take(p) ==
  /\ Runs(p, {"refill"}) /\ loc[p].n > 0 /\ heap.freechunks # <<>>
  /\ TakeChunk(p, heap)
  /\ UNCHANGED <<map, lock, local, chunks, blocks>>

\* When valloc fails the chunks already in new_fl are not given back.
refill_page(p) ==
  LET v == valloc(heap, map[p], 1)
  IN  /\ Runs(p, {"refill"}) /\ loc[p].n > 0 /\ heap.freechunks = <<>>
      /\ map' = [map EXCEPT ![p] = v.m]
      /\ \/ v.pn # 0 /\ TakeChunk(p, NewPage(v.h, v.pn)) /\ UNCHANGED lock
         \/ v.pn = 0 /\ heap' = v.h /\ Goto(p, "run", NoCall) /\ UNLOCK
      /\ UNCHANGED <<local, chunks, blocks>>

refill_done(p) ==
  LET fl == local[p]
  IN  /\ Runs(p, {"refill"}) /\ loc[p].n = 0
      /\ Pop(p, loc[p].list, fl.target, fl.target, {})
      /\ UNLOCK
      /\ Goto(p, "run", NoCall)
      /\ UNCHANGED <<heap, map, blocks>>

---------------------------------------------------------------------------
(* free of a chunk *)

Push(p, f, aux, count, old) ==
  local' = [local EXCEPT ![p].free = f \union {old}, ![p].aux = aux,
                         ![p].count = count + 1]

\* Mutant: leaves the auxiliary list in place while it is flushed.
FreeKeepsAux(p, c) ==
  LET fl == local[p]
  IN  /\ Runs(p, {"run"}) /\ c \in chunks
      /\ chunks' = chunks \ {c}
      /\ \/ /\ fl.count # fl.target
            /\ Push(p, fl.free, fl.aux, fl.count, c)
            /\ UNCHANGED <<pc, loc>>
         \/ /\ fl.count = fl.target /\ fl.aux = {}
            /\ Push(p, {}, fl.free, 0, c)
            /\ UNCHANGED <<pc, loc>>
         \/ /\ fl.count = fl.target /\ fl.aux # {}
            /\ UNCHANGED local
            /\ Goto(p, "flush", [NoCall EXCEPT !.list = fl.aux, !.old = {c}])
      /\ UNCHANGED <<heap, map, lock, blocks>>

\* A full local list becomes the auxiliary one; when there already is an
\* auxiliary list that one has to be flushed first.
free_local(p, c) ==
  LET fl == local[p]
  IN  /\ Runs(p, {"run"}) /\ c \in chunks
      /\ chunks' = chunks \ {c}
      /\ \/ /\ fl.count # fl.target
            /\ Push(p, fl.free, fl.aux, fl.count, c)
            /\ UNCHANGED <<pc, loc>>
         \/ /\ fl.count = fl.target /\ fl.aux = {}
            /\ Push(p, {}, fl.free, 0, c)
            /\ UNCHANGED <<pc, loc>>
         \/ /\ fl.count = fl.target /\ fl.aux # {}
            /\ local' = [local EXCEPT ![p].aux = {}]
            /\ Goto(p, "flush", [NoCall EXCEPT !.list = fl.aux, !.old = {c}])
      /\ UNCHANGED <<heap, map, lock, blocks>>

---------------------------------------------------------------------------
(* flush_to_global_freelist *)

pcmp(h, a, b) == IF h.d[a].count = h.d[b].count THEN a - b ELSE h.d[a].count - h.d[b].count

RECURSIVE Merge(_, _, _)
Merge(h, a, b) ==
  CASE a = <<>> -> b
    [] b = <<>> -> a
    [] a # <<>> /\ b # <<>> ->
         IF pcmp(h, Head(a), Head(b)) <= 0
         THEN <<Head(a)>> \o Merge(h, Tail(a), b)
         ELSE <<Head(b)>> \o Merge(h, a, Tail(b))

\* The first half is sorted only when two neighbours in it are out of order.
RECURSIVE page_list_sort(_, _)
page_list_sort(h, s) ==
  LET half  == (Len(s) + 1) \div 2
      a     == SubSeq(s, 1, half)
      asort == \E i \in 1 .. half - 1 : pcmp(h, a[i], a[i + 1]) > 0
  IN  IF Len(s) <= 1 THEN s
      ELSE Merge(h, IF asort THEN page_list_sort(h, a) ELSE a,
                    page_list_sort(h, SubSeq(s, half + 1, Len(s))))

\* A chunk goes back to its page; a page with all its chunks counts -1.
GiveBack(h, c) ==
  LET pn == c[1]
      count == h.d[pn].count + 1
  IN  SetD([h EXCEPT !.freechunks = IF h.d[pn].count = 0 THEN <<pn>> \o @ ELSE @],
           pn, [h.d[pn] EXCEPT !.free = @ \union {c[2]},
                               !.count = IF count >= PERPAGE THEN -1 ELSE count])

\* Mutant: does not sort; full pages are not in front.
FlushUnsorted(p) ==
  LET h == FoldLeft(GiveBack, heap, SetToSeq(loc[p].list))
  IN  /\ Runs(p, {"flush", "fini"})
      /\ LOCK(p)
      /\ heap' = h
      /\ Goto(p, IF pc[p] = "flush" THEN "pages" ELSE "finipages",
              [loc[p] EXCEPT !.list = {}])
      /\ UNCHANGED <<map, local, chunks, blocks>>

flush_list(p) ==
  LET h == FoldLeft(GiveBack, heap, SetToSeq(loc[p].list))
  IN  /\ Runs(p, {"flush", "fini"})
      /\ LOCK(p)
      /\ heap' = [h EXCEPT !.freechunks = page_list_sort(h, @)]
      /\ Goto(p, IF pc[p] = "flush" THEN "pages" ELSE "finipages",
              [loc[p] EXCEPT !.list = {}])
      /\ UNCHANGED <<map, local, chunks, blocks>>

FullPage == heap.freechunks # <<>> /\ heap.d[Head(heap.freechunks)].count < 0

\* A full page is made a block of one page again and freed.
flush_page(p) ==
  LET pn == Head(heap.freechunks)
      h  == SetD([heap EXCEPT !.freechunks = Tail(@)],
                 pn, [Zero EXCEPT !.code = "BIG", !.page = pn + 1])
      f  == FreeBlock(h, map[p], pn)
  IN  /\ Runs(p, {"pages", "finipages"}) /\ FullPage
      /\ heap' = f.h
      /\ map' = [map EXCEPT ![p] = f.m]
      /\ UNCHANGED <<lock, local, pc, loc, chunks, blocks>>

\* free goes on after the flush: the local list becomes the auxiliary one.
flush_done(p) ==
  /\ Runs(p, {"pages"}) /\ ~FullPage
  /\ UNLOCK
  /\ \E c \in loc[p].old : Push(p, {}, local[p].free, 0, c)
  /\ Goto(p, "run", NoCall)
  /\ UNCHANGED <<heap, map, chunks, blocks>>

---------------------------------------------------------------------------
(* Blocks of pages *)

valloc_block(p, size) ==
  LET v == valloc(heap, map[p], size)
  IN  /\ Runs(p, {"run"}) /\ Cardinality(blocks) < work.blocks
      /\ heap' = v.h
      /\ map' = [map EXCEPT ![p] = v.m]
      /\ blocks' = IF v.pn = 0 THEN blocks
                   ELSE blocks \union {[pn |-> v.pn, size |-> size]}
      /\ UNCHANGED <<lock, local, pc, loc, chunks>>

MayFree(b) == FreesCutBlocks \/ heap.d[b.pn].page = b.pn + b.size

free_block(p, b) ==
  LET f == FreeBlock(heap, map[p], b.pn)
  IN  /\ Runs(p, {"run"}) /\ b \in blocks /\ MayFree(b)
      /\ heap' = f.h
      /\ map' = [map EXCEPT ![p] = f.m]
      /\ blocks' = blocks \ {b}
      /\ UNCHANGED <<lock, local, pc, loc, chunks>>

\* The first critical section of mresize: take over the free extent that
\* follows, if the block then is large enough.
mresize_grow(p, b, size) ==
  LET right == heap.d[b.pn].page
      stop  == heap.d[right].page
      rest  == size < stop - b.pn
  IN  /\ Runs(p, {"run"}) /\ b \in blocks /\ MayFree(b)
      /\ size > right - b.pn
      /\ right # heap.end /\ heap.d[right].code = "FREE" /\ stop - b.pn >= size
      /\ heap' = SetPage(SetPage(SetCode(fp_remove(heap, right), {right}, "MIDDLE"),
                                 {b.pn}, stop),
                         right .. stop - 1, b.pn)
      /\ blocks' = (blocks \ {b}) \union IF rest THEN {} ELSE {[b EXCEPT !.size = size]}
      /\ IF rest THEN Goto(p, "cut", [NoCall EXCEPT !.n = b.pn, !.size = size])
                 ELSE UNCHANGED <<pc, loc>>
      /\ UNCHANGED <<map, lock, local, chunks>>

\* The second one: what is beyond size becomes a block of its own ...
Cut(p, pn, size) ==
  LET t    == pn + size
      stop == heap.d[pn].page
  IN  /\ size < stop - pn
      /\ heap' = SetPage(SetPage(SetPage(SetCode(heap, {t}, "BIG"), {t}, stop),
                                 t + 1 .. stop - 1, t),
                         {pn}, t)
      /\ Goto(p, "rest", [NoCall EXCEPT !.n = t])
      /\ UNCHANGED <<map, lock, local, chunks>>

mresize_shrink(p, b, size) ==
  /\ Runs(p, {"run"}) /\ b \in blocks /\ MayFree(b)
  /\ Cut(p, b.pn, size)
  /\ blocks' = (blocks \ {b}) \union {[b EXCEPT !.size = size]}

mresize_cut(p) ==
  /\ Runs(p, {"cut"})
  /\ Cut(p, loc[p].n, loc[p].size)
  /\ blocks' = blocks \union {[pn |-> loc[p].n, size |-> loc[p].size]}

\* ... and is freed.
mresize_free(p) ==
  LET f == FreeBlock(heap, map[p], loc[p].n)
  IN  /\ Runs(p, {"rest"})
      /\ heap' = f.h
      /\ map' = [map EXCEPT ![p] = f.m]
      /\ Goto(p, "run", NoCall)
      /\ UNCHANGED <<lock, local, chunks, blocks>>

---------------------------------------------------------------------------
(* Processes *)

\* fork, and the shm_child that main calls first in the child: the lists
\* are emptied, the count is not reset.
shm_child(p, c) ==
  /\ Runs(p, {"run"}) /\ pc[c] = "unborn" /\ work.forks
  /\ pc' = [pc EXCEPT ![c] = "run"]
  /\ map' = [map EXCEPT ![c] = map[p]]
  /\ local' = [local EXCEPT ![c] = [local[p] EXCEPT !.free = {}, !.aux = {}]]
  /\ UNCHANGED <<heap, lock, loc, chunks, blocks>>

\* A process, or the call of the allocator it is in, touches a page of the
\* heap that it has not mapped.
Touch(p, n) ==
  /\ Runs(p, Alive) /\ n < heap.end /\ n >= map[p].top
  /\ map' = [map EXCEPT ![p] = shm_segv(heap, @, n)]
  /\ UNCHANGED <<heap, lock, local, pc, loc, chunks, blocks>>

shm_fini(p) ==
  LET fl == local[p]
  IN  /\ Runs(p, {"run"})
      /\ \/ /\ fl.free \union fl.aux # {}
            /\ Goto(p, "fini", [NoCall EXCEPT !.list = fl.free \union fl.aux])
         \/ /\ fl.free \union fl.aux = {}
            /\ Goto(p, "done", NoCall)
      /\ local' = [local EXCEPT ![p] = [NoLocal EXCEPT !.target = fl.target]]
      /\ UNCHANGED <<heap, map, lock, chunks, blocks>>

fini_done(p) ==
  /\ Runs(p, {"finipages"}) /\ ~FullPage
  /\ UNLOCK
  /\ Goto(p, "done", NoCall)
  /\ UNCHANGED <<heap, map, local, chunks, blocks>>

---------------------------------------------------------------------------
Chunks(p) ==
  \/ malloc_local(p) \/ refill_lock(p) \/ refill_take(p) \/ refill_page(p)
  \/ refill_done(p)
  \/ \E c \in chunks : free_local(p, c)
  \/ flush_list(p) \/ flush_page(p) \/ flush_done(p)

Blocks(p) ==
  \/ \E size \in work.sizes : valloc_block(p, size)
  \/ \E b \in blocks : free_block(p, b)
  \/ \E b \in blocks, size \in work.sizes :
       mresize_grow(p, b, size) \/ mresize_shrink(p, b, size)
  \/ mresize_cut(p) \/ mresize_free(p)

Life(p) ==
  \/ \E c \in Processes : shm_child(p, c)
  \/ \E n \in DOMAIN heap.d : Touch(p, n)
  \/ shm_fini(p) \/ fini_done(p)

Next == \E p \in Processes : Chunks(p) \/ Blocks(p) \/ Life(p)

Spec == Init /\ [][Next]_vars
---------------------------------------------------------------------------
(* Properties *)

TypeOK ==
  /\ 3 <= heap.end /\ heap.end <= heap.brk /\ heap.brk <= heap.eof
  /\ heap.eof <= heap.limit
  /\ \A n \in DOMAIN heap.d :
       /\ heap.d[n].code \in {"ZERO", "BIG", "FREE", "MIDDLE", "BASE", "SMALL"}
       /\ heap.d[n].page \in 0 .. heap.limit
       /\ heap.d[n].count \in -1 .. PERPAGE
  /\ \A p \in Processes : map[p].brk \in 3 .. heap.limit /\ map[p].top \in 3 .. heap.limit
  /\ lock \in Processes \union {NoOne}
  /\ chunks \subseteq (DOMAIN heap.d) \X (0 .. PERPAGE - 1)
  /\ \A b \in blocks : b.pn \in DOMAIN heap.d /\ b.size \in Nat

\* The extents that can be reached from n in the free list.
RECURSIVE Listed(_, _)
Listed(h, n) ==
  IF n = 0 \/ h.d[n].code # "FREE" THEN {}
  ELSE {n} \union Listed(h, h.f[n].bigger) \union Listed(h, h.f[n].next)

\* What fp_verify checks in a debugging build, and that no free extent is
\* missing: the list of lists is in order of size and then of address, every
\* parent points back at the field that points at the extent, and the
\* descriptors of a free extent agree with it.
FreeListSound ==
  LET f == heap.f
      listed == Listed(heap, heap.freepages)
      Points(n, t) == n # 0 => heap.d[n].code = "FREE" /\ f[n].parent = t
  IN  /\ Points(heap.freepages, <<0, "freepages">>)
      /\ listed = {n \in 0 .. heap.end - 1 : heap.d[n].code = "FREE"}
      /\ \A n \in listed :
           /\ Points(f[n].bigger, <<n, "bigger">>) /\ Points(f[n].next, <<n, "next">>)
           /\ f[n].bigger # 0 => f[n].size < f[f[n].bigger].size
           /\ f[n].next # 0 => /\ f[n].size = f[f[n].next].size /\ n < f[n].next
                               /\ f[f[n].next].bigger = 0
           /\ heap.d[n].page = n + f[n].size
           /\ \A i \in n + 1 .. n + f[n].size - 1 :
                heap.d[i].code = "MIDDLE" /\ heap.d[i].page = n

\* What the pages of the heap are used for, each use with its pages.
Uses ==
  {<<"block", b.pn, b.pn .. b.pn + b.size - 1>> : b \in blocks}
  \union {<<"free", n, n .. n + heap.f[n].size - 1>> : n \in Listed(heap, heap.freepages)}
  \union {<<"mresize", loc[p].n, loc[p].n .. heap.d[loc[p].n].page - 1>> :
             p \in {q \in Processes : pc[q] \in {"cut", "rest"}}}
  \union {<<heap.d[n].code, n, {n}>> :
             n \in {i \in 0 .. heap.end - 1 : heap.d[i].code \in {"BASE", "SMALL"}}}

\* Every page below the end of the heap has exactly one use: it is a base
\* page, it holds a table, it is divided into chunks, it belongs to one block
\* of a client or of a call of mresize, or to one free extent.  So nothing is
\* given out twice, nothing in use is free, and no page is lost.
EveryPageHasOneUse ==
  LET uses == Uses
  IN  \A n \in 0 .. heap.end - 1 : \E u \in uses : n \in u[3] /\ \A v \in uses \ {u} : n \notin v[3]

\* Free extents are always joined: no two are neighbours, and none is the
\* last of the heap (free would have shrunk the file).
FreeExtentsJoined ==
  \A n \in Listed(heap, heap.freepages) :
    LET stop == n + heap.f[n].size
    IN  stop < heap.end /\ heap.d[stop].code # "FREE"

OnPage(n) == {<<n, i>> : i \in heap.d[n].free}

\* The lists of chunks that process p has: its local ones and those of its call.
Lists(p) == <<local[p].free, local[p].aux, loc[p].list, loc[p].old>>

\* A chunk is in one place only: with a client, in one list of one process,
\* or on the list of its page, whose length is the count of the page; and the
\* page is one that is divided into chunks.  Whatever the order of a free in
\* one process and a refill or a flush in another, no chunk is given to two.
EveryChunkInOnePlace ==
  LET all == (Processes \X (1 .. 4))
      In(k) == Lists(k[1])[k[2]]
  IN  /\ \A k \in all :
           /\ In(k) \intersect chunks = {}
           /\ \A j \in all \ {k} : In(k) \intersect In(j) = {}
      /\ \A c \in chunks \union UNION {In(k) : k \in all} :
           heap.d[c[1]].code = "SMALL" /\ c \notin OnPage(c[1])
      /\ \A n \in 0 .. heap.end - 1 :
           Cardinality(heap.d[n].free)
             = IF heap.d[n].count = -1 THEN PERPAGE ELSE heap.d[n].count

\* When no one holds LOCK(l), a page of chunks has a chunk that is not on its
\* own list (a page with all its chunks has been freed), the pages with a
\* chunk to give are the ones on the list freechunks, and that list is in the
\* order of pcmp: the fullest pages are used first.
FullPagesAreFreed ==
  LET l == heap.freechunks
      some == {n \in 0 .. heap.end - 1 : heap.d[n].code = "SMALL" /\ heap.d[n].count # 0}
  IN  lock = NoOne =>
        /\ \A n \in some : heap.d[n].count \in 1 .. PERPAGE - 1
        /\ ToSet(l) = some /\ IsInjective(l)
        /\ \A i \in 1 .. Len(l) - 1 : pcmp(heap, l[i], l[i + 1]) < 0

\* The count of a local list, an unsigned number that each malloc decrements,
\* covers the chunks on the list, so it never goes below zero.  After fork it
\* may be too large: shm_child empties the lists and keeps the count.
CountCoversList == \A p \in Processes : Cardinality(local[p].free) <= local[p].count

\* A process can reach every page of the heap, whoever extended or shrank the
\* file since it last looked: the page is mapped, or the handler of the fault
\* finds that the file is longer than localbrk and maps it, and does not take
\* the fault for a real one.
EveryPageReachable ==
  \A p \in Processes : pc[p] # "unborn" =>
    \A n \in 0 .. heap.end - 1 : n < map[p].top \/ n < shm_segv(heap, map[p], n).top
=============================================================================
