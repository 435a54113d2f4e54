-------------------------------- MODULE Heap --------------------------------
(***************************************************************************)
(* The kernel heap (kernel/mm/heap.c): block headers laid out in memory, a  *)
(* doubly linked list of all blocks, and a bucket of free blocks per size   *)
(* class.                                                                   *)
(*                                                                          *)
(* kmalloc and kfree run under heap_lock with interrupts off, so each is    *)
(* one step.  Addresses and sizes count units of 16 bytes, the granularity  *)
(* of the allocator: a header is 3 units, the canary gap 1.  Headers live   *)
(* in memory: one that was merged away keeps its contents until somebody    *)
(* is handed the memory it lies in.                                         *)
(***************************************************************************)
EXTENDS Integers, Sequences, FiniteSets, SequencesExt

CONSTANTS
  Class,      \* the size classes, ascending
  Page,       \* units of a page
  MinPages,   \* the fewest pages a grow asks for (8 in the code)
  InitPages,  \* pages of the region heap_init asks for
  MemPages,   \* bound: pages the page allocator can give
  Req,        \* bound: the request sizes
  Contig,     \* 1: each run of pages lies right behind the one before it
  Misuse      \* 1: a caller may free a pointer it has freed before

VARIABLES
  hdr,        \* the block header at each address
  head,       \* the first block of the list of all blocks
  buckets,    \* the free lists by class, the last one for what is huge
  regions,    \* the page runs the page allocator has given, as [base, units]
  live,       \* history: what callers hold, address -> units asked for
  freed       \* history: what callers have freed, until it is handed out

vars == <<hdr, head, buckets, regions, live, freed>>

Header == 3        \* sizeof(block_t)
Gap == 1           \* CANARY_BYTES
MinRest == 2       \* the least payload split() leaves
Null == 0

Addr == 1..MemPages * Page
NoBlock == [magic |-> 0, size |-> 0, req |-> 0, free |-> 0,
            next |-> Null, prev |-> Null]

\* class_for: the first class the size fits, one past the last when huge.
Huge == Len(Class) + 1
class_for(n) == CHOOSE c \in 1..Huge :
                  /\ c = Huge \/ n <= Class[c]
                  /\ \A d \in 1..c - 1 : n > Class[d]

\* The blocks on the list, from head along next.
Listed(h, first) ==
  LET step(acc, k) == IF h[acc.at].next = Null THEN acc
                      ELSE [at |-> h[acc.at].next,
                            seen |-> acc.seen \cup {h[acc.at].next}]
      walk == FoldLeft(step, [at |-> first, seen |-> {first}],
                       [k \in 1..Cardinality(Addr) \div Header |-> k])
  IN walk.seen

bucket_push(bs, b, c) == [bs EXCEPT ![c] = <<b>> \o @]

\* Faulty variant: only the head of a bucket is looked at.
BucketRemoveHead(bs, b) ==
  [c \in 1..Huge |-> IF bs[c] # <<>> /\ Head(bs[c]) = b THEN Tail(bs[c])
                     ELSE bs[c]]

\* bucket_remove scans every bucket for the block.
bucket_remove(bs, b) ==
  [c \in 1..Huge |-> SelectSeq(bs[c], LAMBDA x : x # b)]

-----------------------------------------------------------------------------
(* Growing *)

PagesFor(n) == LET need == Header + n
                   pages == (need + Page - 1) \div Page
               IN IF pages < MinPages THEN MinPages ELSE pages

\* pmm_alloc_pages: a run of pages nobody has.
Taken == UNION {r.base .. r.base + r.units - 1 : r \in regions}
PageRuns(pages) ==
  {base \in {1 + k * Page : k \in 0..MemPages - pages} :
     /\ base .. base + pages * Page - 1 \cap Taken = {}
     /\ Contig = 1 => \A r \in regions : \E s \in regions :
                        base = s.base + s.units /\ s.base >= r.base}

\* grow: a run of pages becomes one free block at the tail of the list.
Grown(base, pages) ==
  LET new == [magic |-> 1, size |-> pages * Page - Header - Gap, req |-> 0,
              free |-> 1, next |-> Null, prev |-> Null]
      last == CHOOSE t \in Listed(hdr, head) : hdr[t].next = Null
  IN [hdr EXCEPT ![last].next = base, ![base] = [new EXCEPT !.prev = last]]

\* heap_init: an empty heap grows once.
Init ==
  /\ head = 1
  /\ regions = {[base |-> 1, units |-> InitPages * Page]}
  /\ LET size == InitPages * Page - Header - Gap
     IN /\ hdr = [a \in Addr |-> IF a = 1 THEN [NoBlock EXCEPT
                    !.magic = 1, !.size = size, !.free = 1] ELSE NoBlock]
        /\ buckets = [c \in 1..Huge |->
                        IF c = class_for(size) THEN <<1>> ELSE <<>>]
  /\ live = <<>> /\ freed = {}

-----------------------------------------------------------------------------
(* kmalloc *)

\* Faulty variant: the head of a bucket is taken whatever its size.
AllocUnchecked(n) ==
  LET used == {i \in class_for(n)..Huge : buckets[i] # <<>>}
      c == CHOOSE i \in used : \A j \in used : i <= j
  IN IF used = {} THEN [found |-> Null, bs |-> buckets]
     ELSE [found |-> Head(buckets[c]), bs |-> [buckets EXCEPT ![c] = Tail(@)]]

\* alloc_from_class: the head of the first bucket, from the class of n up,
\* whose head fits; a head that does not fit goes to the bucket of its size.
\* Then, and at once for a huge request, the first huge block that fits.
alloc_from_class(n) ==
  LET try(acc, i) ==
        IF acc.found # Null \/ acc.bs[i] = <<>> THEN acc
        ELSE LET b == Head(acc.bs[i])
                 popped == [acc.bs EXCEPT ![i] = Tail(@)]
             IN IF hdr[b].size >= n THEN [found |-> b, bs |-> popped]
                ELSE [found |-> Null,
                      bs |-> bucket_push(popped, b, class_for(hdr[b].size))]
      small == FoldLeft(try, [found |-> Null, bs |-> buckets],
                        [i \in 1..Huge - class_for(n) |-> class_for(n) + i - 1])
      fits == SelectSeq(small.bs[Huge], LAMBDA b : hdr[b].size >= n)
  IN IF small.found # Null \/ fits = <<>> THEN small
     ELSE [found |-> Head(fits),
           bs |-> [small.bs EXCEPT ![Huge] =
                     SelectSeq(@, LAMBDA b : b # Head(fits))]]

\* Faulty variant: the room for the header of the rest is not asked for.
SplitsTight(size, n) == size >= n + MinRest

\* split: can a block of this size be cut after n units of payload?
Splits(size, n) == size >= n + Header + Gap + MinRest

\* Block b of heap h, with free lists bs, is handed out for n units: split()
\* cuts the rest off when it is worth it, and what lay in the payload belongs
\* to the caller from now on.
Take(h, bs, b, n) ==
  LET rest  == b + Header + n + Gap
      cut   == Splits(h[b].size, n)
      tail  == [magic |-> 1, size |-> h[b].size - n - Header - Gap, req |-> 0,
                free |-> 1, next |-> h[b].next, prev |-> b]
      inner == b + 1 .. b + Header + n - 1
  IN /\ hdr' = [a \in Addr |->
                  IF a = b
                  THEN [h[b] EXCEPT !.req = n, !.free = 0,
                                    !.size = IF cut THEN n ELSE @,
                                    !.next = IF cut THEN rest ELSE @]
                  ELSE IF cut /\ a = rest THEN tail
                  ELSE IF cut /\ a = h[b].next THEN [h[a] EXCEPT !.prev = rest]
                  ELSE IF a \in inner THEN NoBlock ELSE h[a]]
     /\ buckets' = IF cut THEN bucket_push(bs, rest, class_for(tail.size))
                   ELSE bs
     /\ live' = [a \in DOMAIN live \cup {b} |-> IF a = b THEN n ELSE live[a]]
     /\ freed' = freed \ ({b} \cup inner)

\* kmalloc served from a bucket ...
kmalloc(n) ==
  LET r == alloc_from_class(n)
  IN /\ r.found # Null
     /\ Take(hdr, r.bs, r.found, n)
     /\ UNCHANGED <<head, regions>>

\* ... and from a fresh region.
kmalloc_grow(n) ==
  LET r == alloc_from_class(n)
      pages == PagesFor(n)
  IN /\ r.found = Null
     /\ \E base \in PageRuns(pages) :
          /\ Take(Grown(base, pages), r.bs, base, n)
          /\ regions' = regions \cup {[base |-> base, units |-> pages * Page]}
     /\ UNCHANGED head

-----------------------------------------------------------------------------
(* kfree *)

\* Faulty variant: the block after the swallowed one keeps its prev link.
SwallowOneWay(h, b) ==
  LET nx == h[b].next
  IN [h EXCEPT ![b].size = @ + Header + Gap + h[nx].size,
               ![b].next = h[nx].next,
               ![nx] = IF Misuse = 1 THEN @ ELSE NoBlock]

\* Block b swallows the block behind it on the list.  The header swallowed
\* stays in memory as it is; it is forgotten here when no caller frees twice,
\* for nobody else would read it.
Swallow(h, b) ==
  LET nx == h[b].next
      after == h[nx].next
      merged == [h EXCEPT ![b].size = @ + Header + Gap + h[nx].size,
                          ![b].next = after,
                          ![nx] = IF Misuse = 1 THEN @ ELSE NoBlock]
  IN IF after = Null THEN merged ELSE [merged EXCEPT ![after].prev = b]

IsFree(h, b) == b # Null /\ h[b].free = 1

\* Faulty variant: only the next block is merged.
CoalescedForward(b) ==
  IF IsFree(hdr, hdr[b].next)
  THEN [h |-> Swallow(hdr, b), b |-> b,
        bs |-> bucket_remove(buckets, hdr[b].next)]
  ELSE [h |-> hdr, bs |-> buckets, b |-> b]

\* The heap after b has been merged with its free neighbours, first the next
\* one, then the previous one.
Coalesced(b) ==
  LET withNext == IsFree(hdr, hdr[b].next)
      h1  == IF withNext THEN Swallow(hdr, b) ELSE hdr
      bs1 == IF withNext THEN bucket_remove(buckets, hdr[b].next) ELSE buckets
      pv  == h1[b].prev
      withPrev == IsFree(h1, pv)
      h2  == IF withPrev THEN Swallow([h1 EXCEPT ![pv].next = b], pv) ELSE h1
      bs2 == IF withPrev THEN bucket_remove(bs1, pv) ELSE bs1
  IN [h |-> h2, bs |-> bs2, b |-> IF withPrev THEN pv ELSE b]

\* kfree: a pointer without a header and a block that is free are reported
\* and left alone.
kfree(b) ==
  /\ b \in DOMAIN live \/ (Misuse = 1 /\ b \in freed)
  /\ IF hdr[b].magic = 0 \/ hdr[b].free = 1
     THEN UNCHANGED <<hdr, buckets>>
     ELSE LET c == Coalesced(b)
          IN /\ hdr' = [c.h EXCEPT ![c.b].free = 1, ![c.b].req = 0]
             /\ buckets' = bucket_push(c.bs, c.b, class_for(c.h[c.b].size))
  /\ live' = [a \in DOMAIN live \ {b} |-> live[a]]
  /\ freed' = IF Misuse = 1 THEN freed \cup {b} ELSE {}
  /\ UNCHANGED <<head, regions>>

Next ==
  \/ \E n \in Req : kmalloc(n) \/ kmalloc_grow(n)
  \/ \E b \in Addr : kfree(b)

Spec == Init /\ [][Next]_vars

-----------------------------------------------------------------------------
(* Properties *)

Blocks == Listed(hdr, head)

\* Type invariant: headers, lists and buckets name addresses of the heap.
TypeOK ==
  /\ head \in Addr
  /\ \A a \in Addr :
       /\ hdr[a].magic \in {0, 1} /\ hdr[a].free \in {0, 1}
       /\ hdr[a].size \in 0..MemPages * Page /\ hdr[a].req \in Nat
       /\ {hdr[a].next, hdr[a].prev} \subseteq Addr \cup {Null}
  /\ \A c \in 1..Huge : buckets[c] \in Seq(Addr)
  /\ DOMAIN live \subseteq Addr /\ freed \subseteq Addr

\* The units a caller may use, with the header before and the canary behind.
Extent(b) == b .. b + Header + live[b] + Gap - 1

\* What a caller holds overlaps no other block, held or free, and lies in
\* pages the heap was given: nobody's writes reach another's memory or a
\* header of the heap.
NoOverlap ==
  \A b \in DOMAIN live :
    /\ Extent(b) \subseteq Taken
    /\ \A c \in Listed(hdr, head) \ {b} :
         Extent(b) \cap (c .. c + Header + hdr[c].size + Gap - 1) = {}

\* The list is in order and has no holes: the end of a block is the start of
\* the next one or the end of a page run, and the prev links mirror it.
ListTilesMemory ==
  \A b \in Blocks :
    LET end == b + Header + hdr[b].size + Gap
    IN /\ hdr[b].magic = 1
       /\ \/ end = hdr[b].next
          \/ \E r \in regions : end = r.base + r.units
       /\ hdr[b].next # Null => hdr[hdr[b].next].prev = b

\* A free block is on exactly one free list, the one of its size, once; a
\* block a caller holds is on none.
BucketsExact ==
  /\ {b \in Blocks : hdr[b].free = 0} = DOMAIN live
  /\ \A c \in 1..Huge :
       /\ ToSet(buckets[c]) =
            {b \in Blocks : hdr[b].free = 1 /\ class_for(hdr[b].size) = c}
       /\ IsInjective(buckets[c])

\* kfree leaves no two free blocks side by side.
FullyCoalesced ==
  \A b \in Blocks :
    hdr[b].free = 1 /\ hdr[b].next # Null => hdr[hdr[b].next].free = 0

\* "the canary sits at payload + b->req (inside the 16-byte gap)": what a
\* caller asked for fits the block it got.
CanaryInGap ==
  \A b \in DOMAIN live : live[b] <= hdr[b].size

\* "explicit double-free detection": freeing a pointer that is not held
\* changes nothing.
DoubleFreeIgnored ==
  [][\A b \in freed : kfree(b) /\ b \notin DOMAIN live
       => UNCHANGED <<hdr, buckets>>]_vars

=============================================================================
