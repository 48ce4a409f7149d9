-------------------------------- MODULE Heap --------------------------------
(***************************************************************************)
(* The heap of the firmware: sbrk of lib/stub/sbrk.c and, above it, the    *)
(* malloc family of lib/picolibc/libc/stdlib, called by any program.       *)
(*                                                                         *)
(* A function is an operator from heap to heap, because realloc and        *)
(* memalign are put together from malloc and free.  A chunk is known by    *)
(* the address of its payload; its header, which holds its size, is the    *)
(* HeadSize bytes before it.  Sizes and addresses are in bytes, a size_t   *)
(* goes up to SizeMax.  What blocks contain is left out.                   *)
(***************************************************************************)
EXTENDS Integers, SequencesExt

CONSTANTS
  HeapEnd,     \* __heap_end__, where the linker lets the heap begin
  HeapSize,    \* STUB_HEAP_SIZE
  StackEnd,    \* __stack_end__
  SizeMax,     \* SIZE_MAX
  Requests,    \* sizes programs ask for
  Aligns,      \* alignments they ask for
  Products,    \* pairs <<n, elem>> they call calloc with
  Increments   \* what they ask of sbrk themselves

HeadSize == 4
ChunkAlign == 16
ChunkMin == 16
AllocMax == SizeMax - 2 * ChunkAlign - HeadSize
PtrdiffMax == SizeMax \div 2

ASSUME HeapAssumption ==
  /\ HeapEnd \in Nat \ {0} /\ HeapEnd % ChunkAlign = 0
  /\ HeapSize \in Nat /\ StackEnd \in Nat /\ HeapEnd <= StackEnd
  /\ SizeMax \in Nat /\ SizeMax > 2 * ChunkAlign + HeadSize
  /\ (SizeMax + 1) % ChunkAlign = 0
  /\ Requests \subseteq 0 .. SizeMax /\ Aligns \subseteq 0 .. SizeMax
  /\ Products \subseteq (0 .. SizeMax) \X (0 .. SizeMax)
  /\ Increments \subseteq Nat \ {0}

VARIABLES
  heap,   \* the break, the allocator's variables and its free list
  live    \* the chunks programs hold, with the size they asked for

vars == <<heap, live>>

Null == 0
Fail == -1    \* (void *)-1
NoChunk == [addr |-> Null, size |-> 0]

-----------------------------------------------------------------------------
(* sbrk.                                                                   *)

Limit == Min({HeapEnd + HeapSize, StackEnd})

\* Bytes below the break that are no chunk of malloc's, and why.
Hole(from, to, why) == [from |-> from, to |-> to, of |-> why]

AlignUp(a, n) == ((a + n - 1) \div n) * n

\* The break has been moved to end: for nothing, or for the chunk at `at`, before
\* which there may be bytes to align it.
Lost(h, end) ==
  [h |-> [h EXCEPT !.brk = end, !.top = end, !.holes = @ \cup {Hole(h.brk, end, "lost")}],
   at |-> Fail]
Had(h, at, end) ==
  [h |-> [h EXCEPT !.brk = end, !.top = end,
                   !.start = IF @ = Null THEN at ELSE @,
                   !.holes = IF at = h.brk THEN @ ELSE @ \cup {Hole(h.brk, at, "pad")}],
   at |-> at]

Aligned(a) == AlignUp(a + HeadSize, ChunkAlign) - HeadSize

\* Seeded faults: the bytes to align with are not asked for; sbrk's answer to that
\* is not looked at; it is compared with the wrong address.
SbrkAligned_NoAdjust(h, s) ==
  IF h.brk + s > Limit THEN [h |-> h, at |-> Fail]
  ELSE Had(h, Aligned(h.brk), h.brk + s)
SbrkAligned_Unlooked(h, s) ==
  IF h.brk + s > Limit THEN [h |-> h, at |-> Fail]
  ELSE Had(h, Aligned(h.brk), Aligned(h.brk) + s)
SbrkAligned_WrongExtra(h, s) ==
  IF h.brk + s > Limit THEN [h |-> h, at |-> Fail]
  ELSE IF Aligned(h.brk) # h.brk THEN Lost(h, h.brk + s)
  ELSE Had(h, h.brk, h.brk + s)

\* s bytes from sbrk, at an address whose payload is aligned.  If the bytes to
\* align it with cannot be had, the s bytes are not given back.
SbrkAligned(h, s) ==
  IF s > PtrdiffMax \/ h.brk + s > Limit THEN [h |-> h, at |-> Fail]
  ELSE IF Aligned(h.brk) + s > Limit THEN Lost(h, h.brk + s)
  ELSE Had(h, Aligned(h.brk), Aligned(h.brk) + s)

-----------------------------------------------------------------------------
(* malloc, free, realloc, memalign.                                        *)

\* As a size_t: a request near SIZE_MAX wraps round.
ChunkSize(req) ==
  Max({ChunkMin, AlignUp(req + HeadSize, ChunkAlign) % (SizeMax + 1)})

Blob(c) == c.addr - HeadSize
After(c) == c.addr + c.size

\* Where the list is left: at the first chunk above c or just below it.
Place(free, c) ==
  LET i == SelectInSeq(free, LAMBDA d : c.addr <= d.addr \/ After(d) = c.addr)
  IN  IF i = 0 THEN Len(free) + 1 ELSE i

\* c in its place in the list, or merged with the chunk there if that borders on it
\* below.
Inserted(free, c, i) ==
  IF i <= Len(free) /\ free[i].addr < c.addr THEN [free EXCEPT ![i].size = @ + c.size]
  ELSE InsertAt(free, i, c)

\* The i-th chunk of the list merged with the next one if they touch.
Merged(free, i) ==
  IF i < Len(free) /\ After(free[i]) = free[i + 1].addr
  THEN RemoveAt([free EXCEPT ![i].size = @ + free[i + 1].size], i + 1)
  ELSE free

\* Seeded faults: no merge with the chunk above; a list in no order.
FreeChunk_NotMerged(h, c) == [h EXCEPT !.free = Inserted(@, c, Place(@, c))]
FreeChunk_Prepended(h, c) == [h EXCEPT !.free = <<c>> \o @]

\* The list stays in the order of addresses; what touches is merged.
FreeChunk(h, c) ==
  LET i == Place(h.free, c)
  IN  [h EXCEPT !.free = Merged(Inserted(@, c, i), i)]

\* chunk_end does not mask the bit in the size that marks a free chunk.
ChunkEnd(c, isFree) == Blob(c) + c.size + (IF isFree THEN 1 ELSE 0)

\* Seeded fault: the chunk need not be the topmost.
GrowChunk_Anywhere(h, c, isFree, size) ==
  LET got == SbrkAligned(h, Max({ChunkMin, size - c.size}))
  IN  [ok |-> got.at # Fail, h |-> got.h]

\* What sbrk gave, if it does not follow on the chunk because the program has called
\* sbrk in between, goes to the free list.
Grown(got, end, add) ==
  [ ok |-> got.at = end,
    h |-> IF got.at \in {end, Fail} THEN got.h
          ELSE FreeChunk(got.h, [addr |-> got.at + HeadSize, size |-> add]) ]

\* Makes the topmost chunk larger.
GrowChunk(h, c, isFree, size) ==
  LET end == ChunkEnd(c, isFree)
      add == Max({ChunkMin, size - c.size})
  IN  IF end # h.top THEN [ok |-> FALSE, h |-> h]
      ELSE Grown(SbrkAligned(h, add), end, add)

\* The first chunk of the free list that is large enough, split if what is left
\* of it makes a chunk.
TakeFree(h, i, size) ==
  LET c == h.free[i]
      rem == c.size - size
  IN  IF rem >= ChunkMin
      THEN [h |-> [h EXCEPT !.free[i] = [addr |-> c.addr + size, size |-> rem]],
            c |-> [addr |-> c.addr, size |-> size]]
      ELSE [h |-> [h EXCEPT !.free = RemoveAt(@, i)], c |-> c]

TakeNew(got, size) ==
  [ h |-> got.h,
    c |-> IF got.at = Fail THEN NoChunk ELSE [addr |-> got.at + HeadSize, size |-> size] ]

\* The last chunk of the list if it has been grown, else a new one.
TakeLast(grown, last, size) ==
  IF grown.ok
  THEN [h |-> [grown.h EXCEPT !.free = Front(@)],
        c |-> [addr |-> last.addr, size |-> Max({size, last.size + ChunkMin})]]
  ELSE TakeNew(SbrkAligned(grown.h, size), size)

\* A chunk that fits, else the last one grown, else a new one.
Take(h, size) ==
  LET i == SelectInSeq(h.free, LAMBDA c : c.size >= size)
  IN  IF i # 0 THEN TakeFree(h, i, size)
      ELSE IF h.free = <<>> THEN TakeNew(SbrkAligned(h, size), size)
      ELSE TakeLast(GrowChunk(h, Last(h.free), TRUE, size), Last(h.free), size)

\* Seeded fault: no request is too large.
Malloc_NoMax(h, req) == Take(h, ChunkSize(req))

Malloc(h, req) ==
  IF req > AllocMax THEN [h |-> h, c |-> NoChunk] ELSE Take(h, ChunkSize(req))

\* The free chunk just past c is merged in: looked for by the address of c's
\* end, which is where that chunk's header is, not its payload.
MergeNext(h, c) ==
  LET end == ChunkEnd(c, FALSE)
      i == SelectInSeq(h.free, LAMBDA d : d.addr = end \/ c.addr < d.addr)
  IN  IF i # 0 /\ h.free[i].addr = end
      THEN [h |-> [h EXCEPT !.free = RemoveAt(@, i)], size |-> c.size + h.free[i].size]
      ELSE [h |-> h, size |-> c.size]

\* c, cut to a size if what is left over makes a chunk.
Cut(h, c, size) ==
  IF c.size - size >= ChunkMin
  THEN [h |-> FreeChunk(h, [addr |-> c.addr + size, size |-> c.size - size]),
        c |-> [c EXCEPT !.size = size]]
  ELSE [h |-> h, c |-> c]

\* The room there is where c is, grown or merged if need be.
Room(h, c, size) ==
  LET grown == GrowChunk(h, c, FALSE, size)
  IN  IF size <= c.size THEN [h |-> h, size |-> c.size]
      ELSE IF grown.ok THEN [h |-> grown.h, size |-> size]
      ELSE MergeNext(grown.h, c)

InPlace(cut) == [h |-> cut.h, c |-> cut.c, ok |-> TRUE]

\* A new chunk for what c holds; c is freed, or what the program still has.
Moved(new, c) ==
  IF new.c = NoChunk THEN [h |-> new.h, c |-> c, ok |-> FALSE]
  ELSE [h |-> FreeChunk(new.h, c), c |-> new.c, ok |-> TRUE]

Resized(room, addr, req) ==
  LET c == [addr |-> addr, size |-> room.size]
      size == ChunkSize(req)
  IN  IF size <= c.size THEN InPlace(Cut(room.h, c, size))
      ELSE Moved(Malloc(room.h, req), c)

\* In place if c is large enough, can be grown or merged; else elsewhere.
Realloc(h, c, req) ==
  IF req > AllocMax THEN [h |-> h, c |-> c, ok |-> FALSE]
  ELSE Resized(Room(h, c, ChunkSize(req)), c.addr, req)

\* Or 0.
PowerOf2(n) == \A d \in 1 .. n : n % d = 0 => d = 1 \/ d % 2 = 0

\* The front of a chunk, up to where its payload is aligned, is freed: a chunk at
\* least.
FrontCut(h, c, align) ==
  LET pad == AlignUp(c.addr, align) - c.addr
      front == IF pad \in 1 .. ChunkMin - 1 THEN pad + align ELSE pad
  IN  [h |-> IF front = 0 THEN h ELSE FreeChunk(h, [addr |-> c.addr, size |-> front]),
       c |-> [addr |-> c.addr + front, size |-> c.size - front]]

AlignedCut(got, align, size) ==
  IF got.c = NoChunk THEN got
  ELSE LET rest == FrontCut(got.h, got.c, align) IN Cut(rest.h, rest.c, size)

\* More than is needed, of which the front and the back are freed.
Memalign(h, n, req) ==
  LET align == Max({n, 4})     \* UP_POT(MALLOC_CHUNK_MIN), an exponent
      size == ChunkSize(req)
  IN  IF ~PowerOf2(n) \/ align > AllocMax \/ req > AllocMax - align
      THEN [h |-> h, c |-> NoChunk]
      ELSE AlignedCut(Malloc(h, size + align + ChunkMin), align, size)

-----------------------------------------------------------------------------
(* Any program.                                                            *)

Chunk(b) == [addr |-> b.addr, size |-> b.size]
Block(c, req) == [addr |-> c.addr, size |-> c.size, req |-> req]

Init ==
  /\ heap = [brk |-> HeapEnd, top |-> Null, start |-> Null, free |-> <<>>, holes |-> {}]
  /\ live = {}

\* A call returns, with a chunk or with NULL.
Returns(r, req) ==
  /\ heap' = r.h
  /\ live' = IF r.c = NoChunk THEN live ELSE live \cup {Block(r.c, req)}

CallMalloc == \E req \in Requests : Returns(Malloc(heap, req), req)

CallCalloc ==
  \E p \in Products :
    /\ p[1] * p[2] <= SizeMax
    /\ Returns(Malloc(heap, p[1] * p[2]), p[1] * p[2])

CallMemalign ==
  \E n \in Aligns, req \in Requests : Returns(Memalign(heap, n, req), req)

CallFree ==
  \E b \in live :
    /\ heap' = FreeChunk(heap, Chunk(b))
    /\ live' = live \ {b}

CallRealloc ==
  \E b \in live, req \in Requests \ {0} :
    LET r == Realloc(heap, Chunk(b), req)
    IN  /\ heap' = r.h
        /\ live' = (live \ {b}) \cup {Block(r.c, IF r.ok THEN req ELSE b.req)}

\* The program takes bytes from sbrk itself, and gives back the last ones.
CallSbrk ==
  /\ \E n \in Increments :
       /\ heap.brk + n <= Limit
       /\ heap' = [heap EXCEPT !.brk = @ + n,
                               !.holes = @ \cup {Hole(heap.brk, heap.brk + n, "program")}]
  /\ UNCHANGED live

CallSbrkBack ==
  /\ \E t \in heap.holes :
       /\ t.of = "program" /\ t.to = heap.brk
       /\ heap' = [heap EXCEPT !.brk = t.from, !.holes = @ \ {t}]
  /\ UNCHANGED live

Next ==
  \/ CallMalloc \/ CallCalloc \/ CallMemalign \/ CallFree \/ CallRealloc
  \/ CallSbrk \/ CallSbrkBack

Spec == Init /\ [][Next]_vars

-----------------------------------------------------------------------------
(* Properties.                                                             *)

Chunks == [addr : Nat, size : Nat]
Holes == [from : Nat, to : Nat, of : {"pad", "lost", "program"}]

TypeOK ==
  /\ heap.brk \in HeapEnd .. Limit
  /\ heap.top \in {Null} \cup (HeapEnd .. Limit)
  /\ heap.start \in {Null} \cup (HeapEnd .. Limit)
  /\ heap.free \in Seq(Chunks)
  /\ heap.holes \subseteq Holes
  /\ live \subseteq [addr : Nat, size : Nat, req : Nat]

\* Who has which bytes below the break.
Tile(c, who) == Hole(Blob(c), Blob(c) + c.size, who)
Tiles ==
  heap.holes \cup {Tile(b, "live") : b \in live} \cup {Tile(c, "free") : c \in Range(heap.free)}

\* Every byte from __heap_end__ to the break belongs to exactly one of: a chunk a
\* program holds, a chunk of the free list, padding, what a failed call lost, and
\* what the program took from sbrk.  No call hands out a byte twice or drops one.
Tiled ==
  /\ \A t \in Tiles : t.from < t.to
  /\ \A t, u \in Tiles : t # u => t.to <= u.from \/ u.to <= t.from
  /\ {t.to : t \in Tiles} \cup {HeapEnd} = {t.from : t \in Tiles} \cup {heap.brk}

\* The free list is in the order of addresses, and no two of its chunks touch:
\* what is free in one piece can be had in one piece.
FreeInOrder ==
  \A i \in 1 .. Len(heap.free) - 1 : After(heap.free[i]) < heap.free[i + 1].addr

\* What a program asked for fits between its chunk's header and the next one, also
\* after sizes near SIZE_MAX were asked for; and what memalign would return is aligned
\* as it is asked to be, in every heap.
FitsAndAligned ==
  /\ \A b \in live : b.req <= b.size - HeadSize
  /\ \A n \in Aligns \ {0}, req \in Requests :
       LET c == Memalign(heap, n, req).c IN c = NoChunk \/ c.addr % n = 0

\* A failed call of malloc's loses memory at most once, which may be the whole heap,
\* and only if malloc did not leave the break where it is: there is nothing below but
\* the heap's begin or what the program took.  After its own chunks it loses none.
LostOnce ==
  \A t \in heap.holes : t.of = "lost" =>
    /\ t.from = HeapEnd \/ \E u \in heap.holes : u.of = "program" /\ u.to = t.from
    /\ \A u \in heap.holes : u.of = "lost" => u = t

\* mallinfo's arena and fordblks.
Arena == IF heap.start = Null THEN 0 ELSE heap.top - heap.start

\* As the stress test of malloc checks it: once all is freed, there is one free
\* block and nothing is reported in use; as long as no one else calls sbrk.
AllComesBack ==
  live = {} /\ (\A t \in heap.holes : t.of = "pad") =>
    IF Arena = 0 THEN heap.free = <<>>
    ELSE Len(heap.free) = 1 /\ heap.free[1].size = Arena

\* The blocks of the program are those of an allocator that keeps its promise.
Promise == INSTANCE Allocator WITH
  Lo <- HeapEnd, Hi <- Limit, Align <- ChunkAlign,
  Sizes <- Requests \cup {p[1] * p[2] : p \in Products},
  blocks <- {[addr |-> b.addr, req |-> b.req] : b \in live}

KeepsPromise == Promise!Spec
=============================================================================
