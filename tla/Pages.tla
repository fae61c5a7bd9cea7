------------------------------- MODULE Pages -------------------------------
(***************************************************************************)
(* The page half of the allocator of src/c/malloc.c: the descriptors of    *)
(* the pages of the shared segment, the list of lists of free extents, the *)
(* table of descriptors and the break of the mapped file.  Everything here *)
(* runs inside LOCK(NUMSMALL), so each function of the code is an operator *)
(* from a heap to a heap; module Malloc turns the calls into actions.      *)
(*                                                                         *)
(* An address is the number of its page, and 0 is also the null pointer:   *)
(* page 0 is the base page and is never given out.  A heap h has           *)
(*   end, brk, eof   the fields of struct basepage                         *)
(*   pages[i]        the page that holds the i-th table of descriptors     *)
(*   d[n]            the descriptor of page n (struct page); its "free" is *)
(*                   the set of chunks the code links through the page     *)
(*   freepages, f[n] the free list and, for an extent on it, the struct    *)
(*                   freepage in its first page                            *)
(*   freechunks      the list of the pages with free chunks                *)
(*   limit           how many pages the file system has for the file       *)
(*   failed          the assertions that have failed: the process aborts   *)
(* and m is what one process has mapped: localbrk, and the number of pages *)
(* (from page 0 on) that really are mapped.                                *)
(***************************************************************************)
EXTENDS Integers, Sequences, FiniteSetsExt, SequencesExt

CONSTANTS PER_TABLE,     \* PAGESIZE / sizeof(struct page)
          MMAP_INCR      \* pages the file grows by, at least

ASSUME PagesAssumption ==
  /\ PER_TABLE \in Nat /\ 3 <= PER_TABLE
  /\ MMAP_INCR \in Nat \ {0}

I1(n) == n \div PER_TABLE

Zero == [code |-> "ZERO", page |-> 0, count |-> 0, free |-> {}]

msetup(limit) ==
  [end |-> 3, brk |-> 3, eof |-> 3,
   pages |-> [i \in 0 .. I1(limit) |-> IF i = 0 THEN 2 ELSE 0],
   d |-> [n \in 0 .. limit - 1 |-> IF n < 3 THEN [Zero EXCEPT !.code = "BASE"] ELSE Zero],
   freepages |-> 0, f |-> <<>>,
   freechunks |-> <<>>, limit |-> limit, failed |-> {}]

SetD(h, pn, r) ==
  [h EXCEPT !.d = [n \in DOMAIN h.d |-> IF n = pn THEN r ELSE h.d[n]]]

SetPage(h, S, v) ==
  [h EXCEPT !.d = [n \in DOMAIN h.d |-> IF n \in S THEN [h.d[n] EXCEPT !.page = v]
                                                ELSE h.d[n]]]

SetCode(h, S, c) ==
  [h EXCEPT !.d = [n \in DOMAIN h.d |-> IF n \in S THEN [h.d[n] EXCEPT !.code = c]
                                                ELSE h.d[n]]]

---------------------------------------------------------------------------
(* The free list.  A struct freepage ** is the page and the name of the    *)
(* field it points to.                                                     *)

At(h, t) == CASE t[2] = "freepages" -> h.freepages
              [] t[2] = "bigger"    -> h.f[t[1]].bigger
              [] t[2] = "next"      -> h.f[t[1]].next

Put(h, t, n) == CASE t[2] = "freepages" -> [h EXCEPT !.freepages = n]
                  [] t[2] = "bigger"    -> [h EXCEPT !.f[t[1]].bigger = n]
                  [] t[2] = "next"      -> [h EXCEPT !.f[t[1]].next = n]

SetParent(h, n, t) == IF n = 0 THEN h ELSE [h EXCEPT !.f[n].parent = t]

\* n takes the place of p, and p leaves the list.
Replace(h, p, n) ==
  LET h1 == SetParent(Put(h, h.f[p].parent, n), n, h.f[p].parent)
  IN  [h1 EXCEPT !.f = Restrict(@, DOMAIN h.f \ {p})]

\* n, the next extent of the same size, becomes the first of its list.
Lead(h, n, bigger) == SetParent([h EXCEPT !.f[n].bigger = bigger], bigger, <<n, "bigger">>)

\* Mutant: leaves the parent of the next larger extent as it was.
RemoveKeepParent(h, p) ==
  IF h.f[p].next # 0
  THEN Replace([h EXCEPT !.f[h.f[p].next].bigger = h.f[p].bigger], p, h.f[p].next)
  ELSE Replace(h, p, h.f[p].bigger)

fp_remove(h, p) ==
  IF h.f[p].next # 0
  THEN Replace(Lead(h, h.f[p].next, h.f[p].bigger), p, h.f[p].next)
  ELSE Replace(h, p, h.f[p].bigger)

RECURSIVE SkipSmaller(_, _, _)
SkipSmaller(h, t, size) ==
  IF At(h, t) # 0 /\ h.f[At(h, t)].size < size
  THEN SkipSmaller(h, <<At(h, t), "bigger">>, size) ELSE t

RECURSIVE SkipLower(_, _, _)
SkipLower(h, t, p) ==
  IF At(h, t) # 0 /\ At(h, t) < p THEN SkipLower(h, <<At(h, t), "next">>, p) ELSE t

Enter(h, p, r) ==
  Put([h EXCEPT !.f = [n \in DOMAIN h.f \union {p} |-> IF n = p THEN r ELSE h.f[n]]],
      r.parent, p)

\* p becomes a list of its own, before the lists of larger extents ...
AddList(h, p, size, t) ==
  Enter(SetParent(h, At(h, t), <<p, "bigger">>), p,
        [parent |-> t, bigger |-> At(h, t), next |-> 0, size |-> size])

\* ... or joins one, in front of n; if n was the first of it p takes its part.
AddSame(h, p, size, t, n) ==
  IF n = 0 THEN Enter(h, p, [parent |-> t, bigger |-> 0, next |-> 0, size |-> size])
  ELSE Enter(SetParent([SetParent(h, h.f[n].bigger, <<p, "bigger">>) EXCEPT !.f[n].bigger = 0],
                       n, <<p, "next">>),
             p, [parent |-> t, bigger |-> h.f[n].bigger, next |-> n, size |-> size])

AddAt(h, p, size, t) ==
  LET u == SkipLower(h, t, p)
  IN  IF At(h, t) # 0 /\ h.f[At(h, t)].size = size THEN AddSame(h, p, size, u, At(h, u))
      ELSE AddList(h, p, size, t)

fp_add(h, p, size) == AddAt(h, p, size, SkipSmaller(h, <<0, "freepages">>, size))

\* The first extent of the first list that is large enough; 0 if there is none.
fp_find(h, size) == At(h, SkipSmaller(h, <<0, "freepages">>, size))

---------------------------------------------------------------------------
(* Extents *)

\* Mutant: loses what is left of the extent.
CarveWhole(h, p, size) == SetCode(fp_remove(h, p), {p}, "BIG")

\* The code leaves the "page" of the part it gives out at the end of the
\* whole extent.
Carve(h, p, size) ==
  LET stop  == h.d[p].page
      extra == p + size
      h1 == SetCode(fp_remove(h, p), {p}, "BIG")
  IN  IF stop - p = size THEN h1
      ELSE fp_add(SetPage(SetPage(SetCode(h1, {extra}, "FREE"), {extra}, stop),
                          extra + 1 .. stop - 1, extra),
                  extra, stop - extra)

AllocAt(h, p, size) == [h |-> IF p = 0 THEN h ELSE Carve(h, p, size), pn |-> p]

alloc_pages(h, size) == AllocAt(h, fp_find(h, size), size)

\* The head of the extent that ends before p.
Left(h, p) == IF h.d[p - 1].code = "MIDDLE" THEN h.d[p - 1].page ELSE p - 1

JoinLeft(h, p, left, stop) ==
  IF h.d[left].code = "FREE"
  THEN [h |-> SetPage(SetPage(SetCode(fp_remove(h, left), {p}, "MIDDLE"), {left}, stop),
                      p .. stop - 1, left),
        pn |-> left]
  ELSE [h |-> SetCode(h, {p}, "FREE"), pn |-> p]

\* Mutant: does not join the extent that follows.
JoinNothing(h, p, right) == h

JoinRight(h, p, right) ==
  IF right < h.end /\ h.d[right].code = "FREE"
  THEN SetPage(SetPage(SetCode(fp_remove(h, right), {right}, "MIDDLE"),
                       {p}, h.d[right].page),
               right .. h.d[right].page - 1, p)
  ELSE h

Enlist(h, p) == fp_add(h, p, h.d[p].page - p)

\* pn is the extent that p has become part of.
free_pages(h, p) ==
  LET g == JoinLeft(h, p, Left(h, p), h.d[p].page)
  IN  [g EXCEPT !.h = Enlist(JoinRight(g.h, g.pn, h.d[p].page), g.pn)]

setup_extent_descriptor(h, p, size) ==
  SetCode(SetPage(SetCode(SetPage(h, {p}, p + size), {p}, "BIG"),
                  p + 1 .. p + size - 1, p),
          p + 1 .. p + size - 1, "MIDDLE")

---------------------------------------------------------------------------
(* The break.  A mapping is [brk |-> localbrk, top |-> pages mapped].      *)

\* mmap of the pages from localbrk to eof
MapTo(m, eof) ==
  [brk |-> eof, top |-> IF m.top < m.brk THEN m.top ELSE Max({m.top, eof})]

\* Mutant: does not lower localbrk when the memory above it is unmapped.
DownKeepsLocal(h, m, newbrk) ==
  [h |-> [h EXCEPT !.brk = newbrk, !.eof = newbrk],
   m |-> IF newbrk < h.eof THEN [m EXCEPT !.top = Min({@, newbrk})] ELSE m,
   ok |-> TRUE]

Down(h, m, newbrk) ==
  [h |-> [h EXCEPT !.brk = newbrk, !.eof = newbrk],
   m |-> [brk |-> newbrk,
          top |-> IF newbrk < h.eof THEN Min({m.top, newbrk}) ELSE m.top],
   ok |-> TRUE]

\* ok is FALSE when the file cannot grow, and when mmap is given an empty or
\* negative length, after eof has been set.
Up(h, m, newbrk, neweof) ==
  CASE neweof > h.limit -> [h |-> h, m |-> m, ok |-> FALSE]
    [] neweof <= h.limit /\ m.brk >= neweof ->
         [h |-> [h EXCEPT !.eof = neweof], m |-> m, ok |-> FALSE]
    [] OTHER ->
         [h |-> [h EXCEPT !.eof = neweof, !.brk = newbrk],
          m |-> MapTo(m, neweof), ok |-> TRUE]

shm_brk(h, m, newbrk) ==
  CASE newbrk <= h.brk -> Down(h, m, newbrk)
    [] h.brk < newbrk /\ newbrk <= h.eof ->
         [h |-> [h EXCEPT !.brk = newbrk],
          m |-> IF newbrk > m.brk THEN MapTo(m, h.eof) ELSE m,
          ok |-> TRUE]
    [] OTHER -> Up(h, m, newbrk, Max({h.brk + MMAP_INCR, newbrk}))

shm_sbrk(h, m, delta) == shm_brk(h, m, h.brk + delta)

\* A process touches page n: the handler maps up to the end of the file.
shm_segv(h, m, n) == IF n >= m.top /\ h.eof > m.brk THEN MapTo(m, h.eof) ELSE m

---------------------------------------------------------------------------
(* Growing the table of descriptors.  The heaps here are smaller than the  *)
(* size at which the master table itself would have to be moved.           *)

TableAt(s, i, a, b) ==
  LET Filled(h, p) ==
        [h EXCEPT !.pages[i] = p,
                  !.d = [n \in DOMAIN h.d |-> IF I1(n) = i THEN Zero ELSE h.d[n]]]
  IN  CASE a.pn # 0 -> [s EXCEPT !.h = Filled(SetCode(a.h, {a.pn}, "BASE"), a.pn)]
        [] a.pn = 0 /\ b.ok ->
             [s EXCEPT !.h = Filled(b.h, s.h.brk), !.m = b.m, !.added = @ + 1]
        [] OTHER ->
             [s EXCEPT !.h = [b.h EXCEPT !.pages[i] = -1], !.m = b.m, !.ok = FALSE]

TablePage(s, i) ==
  CASE ~s.ok -> s
    [] s.ok /\ s.h.pages[i] # 0 ->
         [s EXCEPT !.h.failed = {"pages[i] == 0"}, !.ok = FALSE]
    [] OTHER -> TableAt(s, i, alloc_pages(s.h, 1), shm_sbrk(s.h, s.m, 1))

\* The pages that hold the last tables are themselves in the table now.
MarkTables(e, to, added) ==
  IF ~e.ok THEN e
  ELSE [e EXCEPT !.h = SetCode(e.h, {e.h.pages[I1(to) - k] : k \in 0 .. added - 1}, "BASE")]

RECURSIVE expand_page_table(_, _, _)
expand_page_table(h, m, to) ==
  LET old == I1(h.end - 1)
      s == FoldLeft(TablePage, [h |-> h, m |-> m, added |-> 0, ok |-> TRUE],
                    [k \in 1 .. I1(to) - old |-> old + k])
      h1 == [s.h EXCEPT !.end = to + 1]
  IN  CASE ~s.ok               -> s
        [] s.ok /\ s.added = 0 -> [s EXCEPT !.h = h1]
        [] OTHER -> MarkTables(expand_page_table(h1, s.m, to + s.added), to, s.added)

\* When the table cannot grow the code goes on ("new > end" is false) and
\* writes descriptors through a pointer that is not one.
Grown(p, size, e) ==
  LET back == shm_brk(e.h, e.m, p)
  IN  CASE e.ok -> [h |-> setup_extent_descriptor(e.h, p, size), m |-> e.m, pn |-> p]
        [] ~e.ok /\ e.h.failed # {} -> [h |-> e.h, m |-> e.m, pn |-> 0]
        [] ~e.ok /\ e.h.failed = {} /\ p > e.h.end -> [h |-> back.h, m |-> back.m, pn |-> 0]
        [] OTHER -> [h |-> [e.h EXCEPT !.failed = {"descriptor"}], m |-> e.m, pn |-> 0]

Grow(h, size, b) ==
  LET p  == h.brk
      to == p + size - 1
  IN  CASE ~b.ok -> [h |-> b.h, m |-> b.m, pn |-> 0]
        [] b.ok /\ I1(to) = I1(h.end - 1) ->
             [h |-> setup_extent_descriptor([b.h EXCEPT !.end = p + size], p, size),
              m |-> b.m, pn |-> p]
        [] OTHER -> Grown(p, size, expand_page_table(b.h, b.m, to))

\* pn is 0 when there is no memory.
valloc(h, m, size) ==
  LET a == alloc_pages(h, size)
  IN  IF a.pn # 0 THEN [h |-> a.h, m |-> m, pn |-> a.pn]
      ELSE Grow(h, size, shm_sbrk(h, m, size))

\* Mutant: does not lower the end of the heap with the break.
TrimKeepsEnd(b, end) == [h |-> b.h, m |-> b.m]

\* What the descriptors of pages beyond the end hold is never read.
Trim(b, end) ==
  [h |-> [b.h EXCEPT !.end = end,
                     !.d = [n \in DOMAIN @ |-> IF n < end THEN b.h.d[n] ELSE Zero]],
   m |-> b.m]

\* sbrk(0) has been called, and trims the file to the break.
Shrink(b, p) ==
  IF b.h.brk = b.h.end THEN Trim(shm_sbrk(fp_remove(b.h, p), b.m, p - b.h.end), p)
  ELSE [h |-> b.h, m |-> b.m]

Freed(g, m) ==
  IF g.h.d[g.pn].page = g.h.end THEN Shrink(shm_sbrk(g.h, m, 0), g.pn)
  ELSE [h |-> g.h, m |-> m]

\* The part of free for a block of pages: give the pages back and shrink the
\* heap when they are its last.
FreeBlock(h, m, p) ==
  IF h.d[p].code # "BIG" THEN [h |-> [h EXCEPT !.failed = {"code == BIG"}], m |-> m]
  ELSE Freed(free_pages(h, p), shm_segv(h, m, p))
=============================================================================
