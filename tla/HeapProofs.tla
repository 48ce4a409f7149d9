----------------------------- MODULE HeapProofs -----------------------------
(***************************************************************************)
(* The heap: for every heap and stack, every width of a size_t, and every  *)
(* size and alignment programs ask for, the bytes below the break are      *)
(* shared out without overlap or gap, and the blocks of the programs are   *)
(* those of an allocator that keeps its promise.                           *)
(***************************************************************************)
EXTENDS Heap, SequenceTheorems, WellFoundedInduction, TLAPS

USE DEF HeadSize, ChunkAlign, ChunkMin

Heaps == [brk : Nat, top : Nat, start : Nat, free : Seq(Chunks), holes : SUBSET Holes]

\* The tiles of a heap h in which programs hold the chunks of L.
TilesOf(h, L) ==
  h.holes \cup {Tile(c, "live") : c \in L} \cup {Tile(c, "free") : c \in Range(h.free)}

In(x, t) == t.from <= x /\ x < t.to
Covers(T, x) == \E t \in T : In(x, t)
Apart(t, u) == t.to <= u.from \/ u.to <= t.from
Disjoint(T) == \A t, u \in T : t # u => Apart(t, u)
Proper(T) == \A t \in T : t.from \in Nat /\ t.to \in Nat /\ t.from < t.to

\* The tiles of T share out the bytes from __heap_end__ to brk.
Partition(T, brk) ==
  /\ Proper(T) /\ Disjoint(T)
  /\ \A t \in T : HeapEnd <= t.from /\ t.to <= brk
  /\ \A x \in Nat : HeapEnd <= x /\ x < brk => Covers(T, x)

ChunkOK(c) ==
  c \in Chunks /\ c.addr % 16 = 0 /\ c.size % 16 = 0 /\ 16 <= c.addr /\ 16 <= c.size

\* No two chunks of the list touch, and it is in the order of addresses.
Sorted(f) == \A i, j \in 1 .. Len(f) : i < j => After(f[i]) < f[j].addr

\* Padding ends where a chunk begins and begins where none can have ended; what
\* was lost begins there too, is a chunk at least, and leaves no room for another.
HolesOK(holes) ==
  \A t \in holes :
    /\ t.of = "pad" => (t.from + 4) % 16 # 0 /\ (t.to + 4) % 16 = 0
    /\ t.of = "lost" => (t.from + 4) % 16 # 0 /\ t.from + 16 <= t.to /\ Limit - t.to < 16

\* malloc's two variables: its chunks begin at start, and they, or what it lost
\* above them, end at top.
Chunky(T) == {t \in T : t.of \in {"live", "free"}}
Mine(T) == {t \in T : t.of \in {"live", "free", "lost"}}
Ends(T, start, top) ==
  /\ \A x \in Nat : Covers(Chunky(T), x) => start # Null /\ start <= x /\ x < top
  /\ start # Null => Covers(Chunky(T), start)
  /\ top # Null => Covers(Mine(T), top - 1)

\* A heap that is right but for the order of its list, whose programs hold the
\* chunks of L.
Whole(h, L) ==
  /\ h \in Heaps
  /\ HeapEnd <= h.brk /\ h.brk <= Limit
  /\ \A c \in L : ChunkOK(c)
  /\ \A c \in Range(h.free) : ChunkOK(c)
  /\ HolesOK(h.holes)
  /\ Partition(TilesOf(h, L), h.brk)
  /\ Ends(TilesOf(h, L), h.start, h.top)

Good(h, L) == Whole(h, L) /\ Sorted(h.free)

Sizes == Requests \cup {p[1] * p[2] : p \in Products}

ChunksOf(bs) == {Chunk(b) : b \in bs}

\* A heap h and the blocks of programs in it.
Sound(h, bs) ==
  /\ bs \subseteq [addr : Nat, size : Nat, req : Sizes]
  /\ \A b, d \in bs : b.addr = d.addr => b = d
  /\ \A b \in bs : b.req + 4 <= b.size
  /\ Good(h, ChunksOf(bs))

HeapInv == Sound(heap, live)

-----------------------------------------------------------------------------
(* Tiles.                                                                  *)

\* Tiles that cover the same bytes may take the place of others.
LEMMA Replace ==
  ASSUME NEW T, NEW A, NEW B, NEW brk \in Nat,
         Partition(T, brk), A \subseteq T, Proper(B), Disjoint(B),
         \A x \in Nat : Covers(A, x) <=> Covers(B, x)
  PROVE  Partition((T \ A) \cup B, brk)
<1> USE HeapAssumption DEF HeapAssumption
<1> DEFINE U == (T \ A) \cup B
<1>1. Proper(U)
  BY DEF Partition, Proper
<1>2. ASSUME NEW b \in B, NEW t \in T \ A PROVE Apart(b, t)
  <2>1. b.from \in Nat /\ b.to \in Nat /\ b.from < b.to
    BY DEF Proper
  <2>2. t.from \in Nat /\ t.to \in Nat /\ t.from < t.to
    BY DEF Partition, Proper
  <2>3. ASSUME NEW x \in Nat, In(x, b) PROVE ~In(x, t)
    <3>1. PICK a \in A : In(x, a)
      BY <2>3 DEF Covers
    <3>2. a \in T /\ a # t /\ Apart(a, t) /\ a.from \in Nat /\ a.to \in Nat
      BY DEF Partition, Disjoint, Proper
    <3> QED
      BY <3>1, <3>2, <2>2 DEF In, Apart
  <2>4. CASE b.from <= t.from
    BY <2>1, <2>2, <2>3, <2>4 DEF In, Apart
  <2>5. CASE t.from <= b.from
    BY <2>1, <2>2, <2>3, <2>5 DEF In, Apart
  <2> QED
    BY <2>1, <2>2, <2>4, <2>5
<1>3. Disjoint(U)
  <2> SUFFICES ASSUME NEW t \in U, NEW u \in U, t # u PROVE Apart(t, u)
    BY DEF Disjoint
  <2>1. CASE t \in T \ A /\ u \in T \ A
    BY <2>1 DEF Partition, Disjoint
  <2>2. CASE t \in B /\ u \in B
    BY <2>2 DEF Disjoint
  <2>3. CASE t \in B /\ u \in T \ A
    BY <2>3, <1>2
  <2>4. CASE t \in T \ A /\ u \in B
    BY <2>4, <1>2 DEF Apart
  <2> QED
    BY <2>1, <2>2, <2>3, <2>4
<1>4. ASSUME NEW t \in U PROVE HeapEnd <= t.from /\ t.to <= brk
  <2>1. CASE t \in T
    BY <2>1 DEF Partition
  <2>2. CASE t \in B
    <3>1. t.from \in Nat /\ t.to \in Nat /\ t.from < t.to
      BY <2>2 DEF Proper
    <3>2. PICK a \in A : In(t.from, a)
      <4>1. Covers(B, t.from)
        BY <3>1, <2>2 DEF Covers, In
      <4> QED
        BY <4>1, <3>1 DEF Covers
    <3>3. PICK d \in A : In(t.to - 1, d)
      <4>1. Covers(B, t.to - 1)
        BY <3>1, <2>2 DEF Covers, In
      <4>2. t.to - 1 \in Nat
        BY <3>1
      <4> QED
        BY <4>1, <4>2 DEF Covers
    <3>4. /\ a.from \in Nat /\ HeapEnd <= a.from
          /\ d.to \in Nat /\ d.to <= brk
      BY DEF Partition, Proper
    <3> QED
      BY <3>1, <3>2, <3>3, <3>4 DEF In
  <2> QED
    BY <2>1, <2>2
<1>5. ASSUME NEW x \in Nat, HeapEnd <= x, x < brk PROVE Covers(U, x)
  <2>1. PICK t \in T : In(x, t)
    BY <1>5 DEF Partition, Covers
  <2>2. CASE t \in A
    BY <2>1, <2>2 DEF Covers
  <2>3. CASE t \notin A
    BY <2>1, <2>3 DEF Covers
  <2> QED
    BY <2>2, <2>3
<1> QED
  BY <1>1, <1>3, <1>4, <1>5 DEF Partition

\* What is put between the old break and the new one shares out the bytes there.
LEMMA Extend ==
  ASSUME NEW T, NEW B, NEW brk \in Nat, NEW end \in Nat,
         Partition(T, brk), brk <= end, HeapEnd <= brk, Proper(B), Disjoint(B),
         \A t \in B : brk <= t.from /\ t.to <= end,
         \A x \in Nat : brk <= x /\ x < end => Covers(B, x)
  PROVE  Partition(T \cup B, end)
<1> USE HeapAssumption DEF HeapAssumption
<1> DEFINE U == T \cup B
<1>1. Proper(U)
  BY DEF Partition, Proper
<1>2. Disjoint(U)
  <2> SUFFICES ASSUME NEW t \in U, NEW u \in U, t # u PROVE Apart(t, u)
    BY DEF Disjoint
  <2>1. CASE t \in T /\ u \in T
    BY <2>1 DEF Partition, Disjoint
  <2>2. CASE t \in B /\ u \in B
    BY <2>2 DEF Disjoint
  <2>3. CASE t \in B /\ u \in T
    BY <2>3, <1>1 DEF Partition, Apart, Proper
  <2>4. CASE t \in T /\ u \in B
    BY <2>4, <1>1 DEF Partition, Apart, Proper
  <2> QED
    BY <2>1, <2>2, <2>3, <2>4
<1>3. ASSUME NEW t \in U PROVE HeapEnd <= t.from /\ t.to <= end
  BY <1>1 DEF Partition, Proper
<1>4. ASSUME NEW x \in Nat, HeapEnd <= x, x < end PROVE Covers(U, x)
  <2>1. CASE x < brk
    BY <1>4, <2>1 DEF Partition, Covers
  <2>2. CASE brk <= x
    BY <1>4, <2>2 DEF Covers
  <2> QED
    BY <2>1, <2>2
<1> QED
  BY <1>1, <1>2, <1>3, <1>4 DEF Partition

\* The last tile is given back.
LEMMA Shrink ==
  ASSUME NEW T, NEW t \in T, NEW brk \in Nat, Partition(T, brk), t.to = brk
  PROVE  Partition(T \ {t}, t.from)
<1>1. \A u \in T : u.from \in Nat /\ u.to \in Nat /\ u.from < u.to
  BY DEF Partition, Proper
<1>2. \A u \in T \ {t} : u.to <= t.from
  BY <1>1 DEF Partition, Disjoint, Apart
<1>3. ASSUME NEW x \in Nat, HeapEnd <= x, x < t.from PROVE Covers(T \ {t}, x)
  <2>1. PICK u \in T : In(x, u)
    BY <1>1, <1>3 DEF Partition, Covers
  <2>2. u # t
    BY <2>1, <1>1, <1>3 DEF In
  <2> QED
    BY <2>1, <2>2 DEF Covers
<1> QED
  BY <1>1, <1>2, <1>3 DEF Partition, Proper, Disjoint

\* Chunk tiles for chunk tiles: malloc's two variables stay right.
LEMMA ReplaceEnds ==
  ASSUME NEW T, NEW A, NEW B, NEW start, NEW top, top = 0 \/ top - 1 \in Nat, start \in Nat,
         Ends(T, start, top), A \subseteq Chunky(T), B = Chunky(B),
         \A x \in Nat : Covers(A, x) <=> Covers(B, x)
  PROVE  Ends((T \ A) \cup B, start, top)
<1> DEFINE U == (T \ A) \cup B
<1>1. Chunky(U) = (Chunky(T) \ A) \cup B
  BY DEF Chunky
<1>2. ASSUME NEW x \in Nat PROVE Covers(Chunky(U), x) <=> Covers(Chunky(T), x)
  <2>1. Covers(Chunky(U), x) <=> Covers(Chunky(T) \ A, x) \/ Covers(B, x)
    BY <1>1 DEF Covers
  <2>2. Covers(Chunky(T), x) <=> Covers(Chunky(T) \ A, x) \/ Covers(A, x)
    BY DEF Covers
  <2> QED
    BY <2>1, <2>2
<1>3. ASSUME NEW x \in Nat, Covers(Mine(T), x) PROVE Covers(Mine(U), x)
  <2>1. PICK t \in Mine(T) : In(x, t)
    BY <1>3 DEF Covers
  <2>2. CASE t \in A
    <3>1. Covers(B, x)
      BY <2>1, <2>2 DEF Covers
    <3>2. B \subseteq Mine(U)
      BY DEF Chunky, Mine
    <3> QED
      BY <3>1, <3>2 DEF Covers
  <2>3. CASE t \notin A
    BY <2>1, <2>3 DEF Covers, Mine
  <2> QED
    BY <2>2, <2>3
<1> QED
  BY <1>2, <1>3 DEF Ends, Null

Within(x, c) == Blob(c) <= x /\ x < Blob(c) + c.size
Clear(c, d) == After(c) <= d.addr \/ After(d) <= c.addr

\* A chunk's tile is its header and its payload.
LEMMA TileFacts ==
  ASSUME NEW c, NEW s
  PROVE  /\ Tile(c, s).from = c.addr - 4 /\ Tile(c, s).to = c.addr - 4 + c.size
         /\ Tile(c, s).of = s
         /\ \A x : In(x, Tile(c, s)) <=> Within(x, c)
BY DEF Tile, Hole, Blob, In, Within

TilesIn(C, s) == {Tile(c, s) : c \in C}

\* A tile tells whose it is and which chunk.
LEMMA TilesApart ==
  ASSUME NEW c \in Chunks, NEW d \in Chunks, NEW s, NEW r
  PROVE  /\ Tile(c, s) = Tile(d, r) => c = d /\ s = r
         /\ Clear(c, d) <=> Apart(Tile(c, s), Tile(d, r))
<1>1. c.addr \in Nat /\ c.size \in Nat /\ d.addr \in Nat /\ d.size \in Nat
  BY DEF Chunks
<1>2. c.addr = d.addr /\ c.size = d.size => c = d
  BY DEF Chunks
<1>3. ASSUME Tile(c, s) = Tile(d, r) PROVE c.addr - 4 = d.addr - 4 /\ c.addr - 4 + c.size = d.addr - 4 + d.size /\ s = r
  BY <1>3, TileFacts
<1>4. Clear(c, d) <=> Apart(Tile(c, s), Tile(d, r))
  BY <1>1, TileFacts DEF Clear, Apart, After
<1> QED
  BY <1>1, <1>2, <1>3, <1>4

\* D is C with the chunks of Y instead of those of X.
Change(C, X, Y, D) == C \subseteq Chunks /\ X \subseteq C /\ D = (C \ X) \cup Y

\* Tiles of the new set of chunks: old ones kept, new ones added.
LEMMA TilesOfChange ==
  ASSUME NEW C, NEW X, NEW Y, NEW D, NEW s, Change(C, X, Y, D)
  PROVE  \A t : t \in TilesIn(D, s)
                 <=> (t \in TilesIn(C, s) /\ t \notin TilesIn(X, s)) \/ t \in TilesIn(Y, s)
<1>1. \A c, d \in C : Tile(c, s) = Tile(d, s) => c = d
  BY TilesApart DEF Change
<1> QED
  BY <1>1, Zenon DEF TilesIn, Change

\* The tiles of chunks cover the bytes that lie within one of them.
LEMMA TilesCover ==
  ASSUME NEW X, NEW P, NEW x
  PROVE  Covers(TilesIn(X, "live") \cup TilesIn(P, "free"), x)
           <=> \E c \in X \cup P : Within(x, c)
<1>1. \A c, s : In(x, Tile(c, s)) <=> Within(x, c)
  BY TileFacts
<1>2. ASSUME NEW t \in TilesIn(X, "live") \cup TilesIn(P, "free"), In(x, t)
      PROVE \E c \in X \cup P : Within(x, c)
  BY <1>1, <1>2, Zenon DEF TilesIn
<1>3. ASSUME NEW c \in X \cup P, Within(x, c)
      PROVE \E t \in TilesIn(X, "live") \cup TilesIn(P, "free") : In(x, t)
  BY <1>1, <1>3, Zenon DEF TilesIn
<1> QED
  BY <1>2, <1>3, Zenon DEF Covers

\* Chunks that are clear of each other have tiles that are apart.
LEMMA TilesDisjoint ==
  ASSUME NEW Y, NEW Q, Y \subseteq Chunks, Q \subseteq Chunks, Y \cap Q = {},
         \A c, d \in Y \cup Q : c # d => Clear(c, d)
  PROVE  Disjoint(TilesIn(Y, "live") \cup TilesIn(Q, "free"))
<1>1. ASSUME NEW c \in Y \cup Q, NEW d \in Y \cup Q, NEW s, NEW r, c # d
      PROVE Apart(Tile(c, s), Tile(d, r))
  BY <1>1, TilesApart
<1>2. ASSUME NEW t \in TilesIn(Y, "live") \cup TilesIn(Q, "free"),
             NEW u \in TilesIn(Y, "live") \cup TilesIn(Q, "free"), t # u
      PROVE Apart(t, u)
  <2>1. PICK c \in Y \cup Q, s \in {"live", "free"} :
          t = Tile(c, s) /\ (s = "live" => c \in Y) /\ (s = "free" => c \in Q)
    BY DEF TilesIn
  <2>2. PICK d \in Y \cup Q, r \in {"live", "free"} :
          u = Tile(d, r) /\ (r = "live" => d \in Y) /\ (r = "free" => d \in Q)
    BY DEF TilesIn
  <2>3. c # d
    BY <1>2, <2>1, <2>2
  <2> QED
    BY <1>1, <2>1, <2>2, <2>3
<1> QED
  BY <1>2 DEF Disjoint

\* Programs give up the chunks of X and the list those of P; programs get those of
\* Y and the list those of Q instead, which take up the same bytes.
Swap(h, L, X, P, Y, Q, f, M) ==
  /\ X \subseteq L /\ P \subseteq Range(h.free)
  /\ M = (L \ X) \cup Y
  /\ f \in Seq(Chunks) /\ Range(f) = (Range(h.free) \ P) \cup Q
  /\ Y \cap Q = {}
  /\ \A c \in Y \cup Q : ChunkOK(c)
  /\ \A c, d \in Y \cup Q : c # d => Clear(c, d)
  /\ \A x \in Nat : (\E c \in X \cup P : Within(x, c)) <=> (\E c \in Y \cup Q : Within(x, c))

\* An exchange of chunks for others on the same bytes keeps a heap whole.
LEMMA Exchange ==
  ASSUME NEW h, NEW L, Whole(h, L), NEW X, NEW P, NEW Y, NEW Q, NEW f, NEW M,
         Swap(h, L, X, P, Y, Q, f, M)
  PROVE  Whole([h EXCEPT !.free = f], M)
<1> DEFINE A == TilesIn(X, "live") \cup TilesIn(P, "free")
           B == TilesIn(Y, "live") \cup TilesIn(Q, "free")
           T == TilesOf(h, L)
           g == [h EXCEPT !.free = f]
<1> USE DEF Swap
<1>1. h \in Heaps /\ (\A c \in L : ChunkOK(c)) /\ \A c \in Range(h.free) : ChunkOK(c)
  BY DEF Whole
<1>2. g \in Heaps /\ g.holes = h.holes /\ g.brk = h.brk /\ g.start = h.start /\ g.top = h.top
        /\ g.free = f
  BY <1>1 DEF Heaps
<1>3. X \subseteq L /\ P \subseteq Range(h.free) /\ Range(f) = (Range(h.free) \ P) \cup Q
        /\ M = (L \ X) \cup Y
  OBVIOUS
<1>4. L \subseteq Chunks /\ Range(h.free) \subseteq Chunks /\ Y \subseteq Chunks /\ Q \subseteq Chunks
  BY <1>1 DEF ChunkOK
<1>5. \A t \in h.holes : t.of \in {"pad", "lost", "program"}
  BY <1>1 DEF Heaps, Holes
<1>6. TilesOf(g, M) = (T \ A) \cup B
  <2>1. \A t : t \in TilesIn(M, "live")
             <=> (t \in TilesIn(L, "live") /\ t \notin TilesIn(X, "live")) \/ t \in TilesIn(Y, "live")
    <3>1. Change(L, X, Y, M)
      BY <1>3, <1>4 DEF Change
    <3> QED
      BY <3>1, TilesOfChange
  <2>2. \A t : t \in TilesIn(Range(f), "free")
             <=> (t \in TilesIn(Range(h.free), "free") /\ t \notin TilesIn(P, "free"))
                   \/ t \in TilesIn(Q, "free")
    <3>1. Change(Range(h.free), P, Q, Range(f))
      BY <1>3, <1>4 DEF Change
    <3> QED
      BY <3>1, TilesOfChange
  <2>3. /\ \A C : \A t \in TilesIn(C, "live") : t.of = "live"
        /\ \A C : \A t \in TilesIn(C, "free") : t.of = "free"
    BY TileFacts DEF TilesIn
  <2>4. \A k, C : TilesOf(k, C) = k.holes \cup TilesIn(C, "live") \cup TilesIn(Range(k.free), "free")
    BY DEF TilesOf, TilesIn
  <2>5. TilesOf(g, M) = h.holes \cup TilesIn(M, "live") \cup TilesIn(Range(f), "free")
    BY <1>2, <2>4
  <2>6. T = h.holes \cup TilesIn(L, "live") \cup TilesIn(Range(h.free), "free")
    BY <2>4
  <2> HIDE DEF T, g, Swap
  <2> QED
    BY <1>5, <2>1, <2>2, <2>3, <2>5, <2>6
<1>7. Proper(B)
  BY TileFacts DEF Proper, ChunkOK, Chunks, TilesIn
<1>8. Disjoint(B)
  BY <1>4, TilesDisjoint
<1>9. \A x \in Nat : Covers(A, x) <=> Covers(B, x)
  <2>1. \A x : Covers(A, x) <=> \E c \in X \cup P : Within(x, c)
    BY ONLY TilesCover
  <2>2. \A x : Covers(B, x) <=> \E c \in Y \cup Q : Within(x, c)
    BY ONLY TilesCover
  <2> HIDE DEF A, B
  <2> QED
    BY <2>1, <2>2
<1>10. A \subseteq Chunky(T) /\ B = Chunky(B)
  BY TileFacts DEF Chunky, TilesOf, TilesIn
<1>11. Partition((T \ A) \cup B, h.brk)
  <2> HIDE DEF T, A, B
  <2>1. A \subseteq T
    BY <1>10 DEF Chunky
  <2>2. Partition(T, h.brk) /\ h.brk \in Nat
    BY <1>1 DEF Whole, Heaps, T
  <2> QED
    BY <2>1, <2>2, <1>7, <1>8, <1>9, Replace
<1>12. Ends((T \ A) \cup B, h.start, h.top)
  <2> HIDE DEF T, A, B
  <2>1. Ends(T, h.start, h.top)
    BY DEF Whole, T
  <2>2. (h.top = 0 \/ h.top - 1 \in Nat) /\ h.start \in Nat
    BY <1>1 DEF Heaps
  <2> QED
    BY <2>1, <2>2, <1>9, <1>10, ReplaceEnds
<1>13. (\A c \in M : ChunkOK(c)) /\ \A c \in Range(f) : ChunkOK(c)
  BY <1>1
<1>14. HolesOK(g.holes) /\ HeapEnd <= g.brk /\ g.brk <= Limit
  BY <1>2 DEF Whole
<1> QED
  <2> HIDE DEF T, A, B, g, Swap
  <2> QED
    BY <1>2, <1>6, <1>11, <1>12, <1>13, <1>14 DEF Whole, g

-----------------------------------------------------------------------------
(* Lists.                                                                  *)

Distinct(f) == \A i, j \in 1 .. Len(f) : f[i] = f[j] => i = j

\* What the range of a sequence is.
LEMMA RangeFacts ==
  ASSUME NEW S, NEW f \in Seq(S)
  PROVE  /\ Len(f) \in Nat /\ \A i \in 1 .. Len(f) : f[i] \in S
         /\ \A x : x \in Range(f) <=> \E i \in 1 .. Len(f) : x = f[i]
<1>1. Len(f) \in Nat /\ f \in [1 .. Len(f) -> S]
  BY LenProperties
<1> QED
  BY <1>1 DEF Range

\* RemoveAt, element by element.
LEMMA RemoveAtFacts ==
  ASSUME NEW S, NEW f \in Seq(S), NEW i \in 1 .. Len(f)
  PROVE  /\ RemoveAt(f, i) \in Seq(S)
         /\ Len(RemoveAt(f, i)) = Len(f) - 1
         /\ \A j \in 1 .. Len(f) - 1 : j < i => RemoveAt(f, i)[j] = f[j]
         /\ \A j \in 1 .. Len(f) - 1 : i <= j => RemoveAt(f, i)[j] = f[j + 1]
<1> DEFINE a == SubSeq(f, 1, i - 1)
           b == SubSeq(f, i + 1, Len(f))
           r == RemoveAt(f, i)
<1>1. Len(f) \in Nat /\ i \in Nat /\ 1 <= i /\ i <= Len(f) /\ \A j \in 1 .. Len(f) : f[j] \in S
  BY LenProperties
<1>2. /\ a \in Seq(S) /\ Len(a) = i - 1
      /\ \A j \in 1 .. i - 1 : a[j] = f[j]
  BY <1>1, SubSeqProperties
<1>3. /\ b \in Seq(S) /\ Len(b) = Len(f) - i
      /\ \A j \in 1 .. Len(f) - i : b[j] = f[i + j]
  BY <1>1, SubSeqProperties
<1>4. r = a \o b
  BY DEF RemoveAt
<1> HIDE DEF a, b, r
<1>5. /\ r \in Seq(S) /\ Len(r) = Len(a) + Len(b)
      /\ \A j \in 1 .. Len(a) + Len(b) : r[j] = IF j <= Len(a) THEN a[j] ELSE b[j - Len(a)]
  BY <1>2, <1>3, <1>4, ConcatProperties
<1>6. Len(r) = Len(f) - 1
  BY <1>1, <1>2, <1>3, <1>5
<1>7. ASSUME NEW j \in 1 .. Len(f) - 1
      PROVE (j < i => r[j] = f[j]) /\ (i <= j => r[j] = f[j + 1])
  <2>1. r[j] = IF j <= i - 1 THEN a[j] ELSE b[j - (i - 1)]
    BY <1>1, <1>2, <1>3, <1>5
  <2>2. CASE j < i
    BY <2>1, <2>2, <1>1, <1>2
  <2>3. CASE i <= j
    <3>1. j - (i - 1) \in 1 .. Len(f) - i /\ i + (j - (i - 1)) = j + 1
      BY <2>3, <1>1
    <3> QED
      BY <2>1, <2>3, <3>1, <1>1, <1>3
  <2> QED
    BY <2>2, <2>3, <1>1
<1> QED
  BY <1>5, <1>6, <1>7 DEF r

\* InsertAt, element by element.
LEMMA InsertAtFacts ==
  ASSUME NEW S, NEW f \in Seq(S), NEW i \in 1 .. Len(f) + 1, NEW e \in S
  PROVE  /\ InsertAt(f, i, e) \in Seq(S)
         /\ Len(InsertAt(f, i, e)) = Len(f) + 1
         /\ InsertAt(f, i, e)[i] = e
         /\ \A j \in 1 .. Len(f) : j < i => InsertAt(f, i, e)[j] = f[j]
         /\ \A j \in 1 .. Len(f) : i <= j => InsertAt(f, i, e)[j + 1] = f[j]
<1> DEFINE a == SubSeq(f, 1, i - 1)
           b == SubSeq(f, i, Len(f))
           m == a \o <<e>>
           r == InsertAt(f, i, e)
<1>1. Len(f) \in Nat /\ i \in Nat /\ 1 <= i /\ i <= Len(f) + 1 /\ \A j \in 1 .. Len(f) : f[j] \in S
  BY LenProperties
<1>2. /\ a \in Seq(S) /\ Len(a) = i - 1
      /\ \A j \in 1 .. i - 1 : a[j] = f[j]
  BY <1>1, SubSeqProperties
<1>3. /\ b \in Seq(S) /\ Len(b) = Len(f) - i + 1
      /\ \A j \in 1 .. Len(f) - i + 1 : b[j] = f[i + j - 1]
  BY <1>1, SubSeqProperties
<1>4. r = m \o b
  BY DEF InsertAt
<1>5. /\ <<e>> \in Seq(S) /\ Len(<<e>>) = 1 /\ <<e>>[1] = e
  OBVIOUS
<1>6. m \in Seq(S) /\ Len(m) = i /\ \A j \in 1 .. i : m[j] = IF j < i THEN f[j] ELSE e
  <2> HIDE DEF a
  <2>1. m \in Seq(S) /\ Len(m) = i
        /\ \A j \in 1 .. i : m[j] = IF j <= i - 1 THEN a[j] ELSE <<e>>[j - (i - 1)]
    BY <1>1, <1>2, <1>5, ConcatProperties
  <2> QED
    BY <1>1, <1>2, <1>5, <2>1
<1> HIDE DEF a, b, m, r
<1>7. /\ r \in Seq(S) /\ Len(r) = Len(m) + Len(b)
      /\ \A j \in 1 .. Len(m) + Len(b) : r[j] = IF j <= Len(m) THEN m[j] ELSE b[j - Len(m)]
  BY <1>3, <1>4, <1>6, ConcatProperties
<1>8. Len(r) = Len(f) + 1
  BY <1>1, <1>3, <1>6, <1>7
<1>9. r[i] = e
  BY <1>1, <1>3, <1>6, <1>7
<1>10. ASSUME NEW j \in 1 .. Len(f), j < i PROVE r[j] = f[j]
  BY <1>10, <1>1, <1>3, <1>6, <1>7
<1>11. ASSUME NEW j \in 1 .. Len(f), i <= j PROVE r[j + 1] = f[j]
  <2>1. j + 1 \in 1 .. Len(m) + Len(b) /\ ~(j + 1 <= Len(m))
    BY <1>11, <1>1, <1>3, <1>6
  <2>2. r[j + 1] = b[(j + 1) - i]
    BY <2>1, <1>6, <1>7
  <2>3. (j + 1) - i \in 1 .. Len(f) - i + 1 /\ i + ((j + 1) - i) - 1 = j
    BY <1>11, <1>1
  <2> QED
    BY <2>2, <2>3, <1>3
<1> QED
  BY <1>7, <1>8, <1>9, <1>10, <1>11 DEF r

\* One element of a sequence without repetitions replaced by another.
LEMMA RangeOfExcept ==
  ASSUME NEW S, NEW f \in Seq(S), NEW i \in 1 .. Len(f), NEW e \in S, Distinct(f)
  PROVE  Range([f EXCEPT ![i] = e]) = (Range(f) \ {f[i]}) \cup {e}
<1> DEFINE g == [f EXCEPT ![i] = e]
<1>1. g \in Seq(S) /\ Len(g) = Len(f) /\ g[i] = e /\ \A j \in 1 .. Len(f) : j # i => g[j] = f[j]
  BY ExceptSeq
<1> HIDE DEF g
<1>2. \A x : x \in Range(g) <=> \E j \in 1 .. Len(f) : x = g[j]
  BY <1>1, RangeFacts
<1>3. \A x : x \in Range(f) <=> \E j \in 1 .. Len(f) : x = f[j]
  BY RangeFacts
<1>4. Range(g) = (Range(f) \ {f[i]}) \cup {e}
  BY <1>1, <1>2, <1>3 DEF Distinct
<1> QED
  BY <1>4 DEF g

\* One element of such a sequence removed.
LEMMA RangeOfRemove ==
  ASSUME NEW S, NEW f \in Seq(S), NEW i \in 1 .. Len(f), Distinct(f)
  PROVE  Range(RemoveAt(f, i)) = Range(f) \ {f[i]}
<1> DEFINE g == RemoveAt(f, i)
<1>1. /\ g \in Seq(S) /\ Len(g) = Len(f) - 1
      /\ \A j \in 1 .. Len(f) - 1 : j < i => g[j] = f[j]
      /\ \A j \in 1 .. Len(f) - 1 : i <= j => g[j] = f[j + 1]
  BY RemoveAtFacts
<1> HIDE DEF g
<1>2. \A x : x \in Range(g) <=> \E j \in 1 .. Len(f) - 1 : x = g[j]
  BY <1>1, RangeFacts
<1>3. Len(f) \in Nat /\ i \in Nat /\ \A x : x \in Range(f) <=> \E j \in 1 .. Len(f) : x = f[j]
  BY RangeFacts
<1>4. ASSUME NEW j \in 1 .. Len(f) - 1 PROVE g[j] \in Range(f) \ {f[i]}
  <2>1. j \in 1 .. Len(f) /\ j + 1 \in 1 .. Len(f) /\ (j < i \/ i <= j)
    BY <1>3
  <2>2. CASE j < i
    <3>1. g[j] = f[j] /\ j # i
      BY <2>2, <1>1, <1>3
    <3> QED
      BY <3>1, <2>1, <1>3 DEF Distinct
  <2>3. CASE i <= j
    <3>1. g[j] = f[j + 1] /\ j + 1 # i
      BY <2>3, <1>1, <1>3
    <3> QED
      BY <3>1, <2>1, <1>3 DEF Distinct
  <2> QED
    BY <2>1, <2>2, <2>3
<1>5. ASSUME NEW j \in 1 .. Len(f), j # i PROVE f[j] \in Range(g)
  <2>1. CASE j < i
    <3>1. j \in 1 .. Len(f) - 1 /\ g[j] = f[j]
      BY <2>1, <1>1, <1>3
    <3> QED
      BY <3>1, <1>2
  <2>2. CASE i < j
    <3>1. j - 1 \in 1 .. Len(f) - 1 /\ i <= j - 1 /\ (j - 1) + 1 = j
      BY <2>2, <1>3
    <3>2. g[j - 1] = f[j]
      BY <3>1, <1>1
    <3> QED
      BY <3>1, <3>2, <1>2
  <2> QED
    BY <1>5, <2>1, <2>2, <1>3
<1>6. Range(g) = Range(f) \ {f[i]}
  BY <1>2, <1>3, <1>4, <1>5
<1> QED
  BY <1>6 DEF g

\* One element inserted.
LEMMA RangeOfInsert ==
  ASSUME NEW S, NEW f \in Seq(S), NEW i \in 1 .. Len(f) + 1, NEW e \in S
  PROVE  Range(InsertAt(f, i, e)) = Range(f) \cup {e}
<1> DEFINE g == InsertAt(f, i, e)
<1>1. /\ g \in Seq(S) /\ Len(g) = Len(f) + 1 /\ g[i] = e
      /\ \A j \in 1 .. Len(f) : j < i => g[j] = f[j]
      /\ \A j \in 1 .. Len(f) : i <= j => g[j + 1] = f[j]
  BY InsertAtFacts
<1> HIDE DEF g
<1>2. \A x : x \in Range(g) <=> \E j \in 1 .. Len(f) + 1 : x = g[j]
  BY <1>1, RangeFacts
<1>3. Len(f) \in Nat /\ i \in Nat /\ \A x : x \in Range(f) <=> \E j \in 1 .. Len(f) : x = f[j]
  BY RangeFacts
<1>4. ASSUME NEW j \in 1 .. Len(f) + 1 PROVE g[j] \in Range(f) \cup {e}
  <2>1. CASE j < i
    <3>1. j \in 1 .. Len(f) /\ g[j] = f[j]
      BY <2>1, <1>1, <1>3
    <3> QED
      BY <3>1, <1>3
  <2>2. CASE j = i
    BY <2>2, <1>1
  <2>3. CASE i < j
    <3>1. j - 1 \in 1 .. Len(f) /\ i <= j - 1 /\ (j - 1) + 1 = j
      BY <2>3, <1>3
    <3>2. g[j] = f[j - 1]
      BY <3>1, <1>1
    <3> QED
      BY <3>1, <3>2, <1>3
  <2> QED
    BY <2>1, <2>2, <2>3, <1>3
<1>5. ASSUME NEW j \in 1 .. Len(f) PROVE f[j] \in Range(g)
  <2>1. CASE j < i
    BY <2>1, <1>1, <1>2, <1>3
  <2>2. CASE i <= j
    <3>1. j + 1 \in 1 .. Len(f) + 1 /\ g[j + 1] = f[j]
      BY <2>2, <1>1, <1>3
    <3> QED
      BY <3>1, <1>2
  <2> QED
    BY <2>1, <2>2, <1>3
<1>6. e \in Range(g)
  BY <1>1, <1>2, <1>3
<1>7. Range(g) = Range(f) \cup {e}
  BY <1>2, <1>3, <1>4, <1>5, <1>6
<1> QED
  BY <1>7 DEF g

-----------------------------------------------------------------------------
(* The least index, as CHOOSE finds it.                                    *)

Less == {ss \in Nat \X Nat : ss[1] < ss[2]}

\* A set of naturals has its least element in it.
LEMMA MinFacts ==
  ASSUME NEW I, I \subseteq Nat, I # {}
  PROVE  Min(I) \in I /\ \A j \in I : Min(I) <= j
<1>1. IsWellFoundedOn(Less, Nat)
  BY NatLessThanWellFounded DEF OpToRel, Less
<1>2. PICK i \in I : \A j \in I : ~(<<j, i>> \in Less)
  BY <1>1, WFMin
<1>3. ASSUME NEW j \in I PROVE i <= j
  <2>1. i \in Nat /\ j \in Nat
    OBVIOUS
  <2>2. j < i => <<j, i>> \in Less
    <3>1. <<j, i>> \in Nat \X Nat /\ <<j, i>>[1] = j /\ <<j, i>>[2] = i
      BY <2>1
    <3> QED
      BY <3>1 DEF Less
  <2> QED
    BY <1>2, <2>1, <2>2
<1> QED
  BY <1>3 DEF Min

\* Where __malloc_free stops: below i the chunks lie below c and do not touch it.
LEMMA PlaceFacts ==
  ASSUME NEW f \in Seq(Chunks), NEW c
  PROVE  /\ Place(f, c) \in 1 .. Len(f) + 1
         /\ \A j \in 1 .. Len(f) : j < Place(f, c) => ~(c.addr <= f[j].addr) /\ After(f[j]) # c.addr
         /\ Place(f, c) <= Len(f) =>
              c.addr <= f[Place(f, c)].addr \/ After(f[Place(f, c)]) = c.addr
<1> DEFINE I == {j \in 1 .. Len(f) : c.addr <= f[j].addr \/ After(f[j]) = c.addr}
<1>1. Len(f) \in Nat
  BY LenProperties
<1>2. Place(f, c) = IF (IF I # {} THEN Min(I) ELSE 0) = 0 THEN Len(f) + 1
                    ELSE (IF I # {} THEN Min(I) ELSE 0)
  BY DEF Place, SelectInSeq
<1>3. CASE I = {}
  <2>1. Place(f, c) = Len(f) + 1
    BY <1>2, <1>3
  <2>2. \A j \in 1 .. Len(f) : ~(c.addr <= f[j].addr) /\ After(f[j]) # c.addr
    BY <1>3
  <2> QED
    BY <1>1, <2>1, <2>2
<1>4. CASE I # {}
  <2>1. I \subseteq Nat
    BY <1>1
  <2>2. Min(I) \in I /\ \A j \in I : Min(I) <= j
    BY <1>4, <2>1, MinFacts
  <2>3. Min(I) \in 1 .. Len(f)
    BY <2>2
  <2>4. Place(f, c) = Min(I)
    BY <1>1, <1>2, <1>4, <2>3
  <2>5. \A j \in 1 .. Len(f) : j < Min(I) => j \notin I
    BY <1>1, <2>2, <2>3
  <2> QED
    BY <1>1, <2>2, <2>3, <2>4, <2>5
<1> QED
  BY <1>3, <1>4

-----------------------------------------------------------------------------
(* free.                                                                   *)

Join(c, d) == [addr |-> c.addr, size |-> c.size + d.size]

\* The numbers of a chunk, and where it ends.
LEMMA ChunkFacts ==
  ASSUME NEW c, ChunkOK(c)
  PROVE  /\ c \in Chunks /\ c.addr \in Nat /\ c.size \in Nat /\ 16 <= c.addr /\ 16 <= c.size
         /\ After(c) = c.addr + c.size /\ After(c) \in Nat /\ After(c) > c.addr
         /\ c.addr % 16 = 0 /\ c.size % 16 = 0
BY DEF ChunkOK, Chunks, After

\* Two chunks that touch, joined: one chunk on the bytes of both.
LEMMA JoinFacts ==
  ASSUME NEW c, NEW d, ChunkOK(c), ChunkOK(d), After(c) = d.addr
  PROVE  /\ ChunkOK(Join(c, d)) /\ Join(c, d).addr = c.addr /\ After(Join(c, d)) = After(d)
         /\ \A x \in Nat : Within(x, Join(c, d)) <=> Within(x, c) \/ Within(x, d)
<1>1. c.addr \in Nat /\ c.size \in Nat /\ d.addr \in Nat /\ d.size \in Nat
        /\ 16 <= c.addr /\ 16 <= c.size /\ 16 <= d.size /\ c.addr + c.size = d.addr
        /\ c.addr % 16 = 0 /\ c.size % 16 = 0 /\ d.size % 16 = 0
  BY ChunkFacts
<1>2. Join(c, d).addr = c.addr /\ Join(c, d).size = c.size + d.size /\ Join(c, d) \in Chunks
  BY <1>1 DEF Join, Chunks
<1>3. (c.size + d.size) % 16 = 0
  BY <1>1
<1>4. \A x \in Nat : Within(x, Join(c, d)) <=> Within(x, c) \/ Within(x, d)
  BY <1>1, <1>2 DEF Within, Blob
<1> QED
  BY <1>1, <1>2, <1>3, <1>4 DEF ChunkOK, After

\* In order, but for the i-th chunk, which may touch the next.
Nearly(f, i) ==
  \A k, j \in 1 .. Len(f) : k < j =>
    After(f[k]) < f[j].addr \/ (k = i /\ j = i + 1 /\ After(f[k]) = f[j].addr)

ListOK(f) == f \in Seq(Chunks) /\ \A j \in 1 .. Len(f) : ChunkOK(f[j])

\* A list in the order of addresses holds no chunk twice.
LEMMA NearlyDistinct ==
  ASSUME NEW f, ListOK(f), NEW i, Nearly(f, i)
  PROVE  Distinct(f)
<1>1. Len(f) \in Nat
  BY LenProperties DEF ListOK
<1>2. ASSUME NEW k \in 1 .. Len(f), NEW j \in 1 .. Len(f), k < j PROVE f[k] # f[j]
  <2>1. f[k].addr \in Nat /\ After(f[k]) > f[k].addr /\ After(f[k]) \in Nat /\ f[j].addr \in Nat
    BY ChunkFacts DEF ListOK
  <2>2. After(f[k]) <= f[j].addr
    BY <1>2, <2>1 DEF Nearly
  <2> QED
    BY <2>1, <2>2
<1> QED
  BY <1>1, <1>2 DEF Distinct

\* In a sorted list nothing touches: wherever a touching pair is let pass, none is.
LEMMA SortedNearly ==
  ASSUME NEW f, Sorted(f)
  PROVE  \A i : Nearly(f, i)
BY DEF Sorted, Nearly

\* free's walk and insertion: the list is sorted but for the chunk above the new one,
\* which may touch it, and holds what it did with the freed chunk.
LEMMA InsertedFacts ==
  ASSUME NEW f, ListOK(f), Sorted(f), NEW c, ChunkOK(c),
         \A j \in 1 .. Len(f) : Clear(c, f[j])
  PROVE  LET i == Place(f, c)
             g == Inserted(f, c, i)
         IN  /\ ListOK(g) /\ i \in 1 .. Len(g) /\ Nearly(g, i)
             /\ \/ Range(g) = Range(f) \cup {c}
                \/ /\ i \in 1 .. Len(f) /\ After(f[i]) = c.addr
                   /\ Range(g) = (Range(f) \ {f[i]}) \cup {Join(f[i], c)}
<1> DEFINE i == Place(f, c)
           g == Inserted(f, c, i)
<1>1. Len(f) \in Nat /\ f \in Seq(Chunks) /\ \A j \in 1 .. Len(f) : ChunkOK(f[j])
  BY LenProperties DEF ListOK
<1>2. /\ i \in 1 .. Len(f) + 1
      /\ \A j \in 1 .. Len(f) : j < i => ~(c.addr <= f[j].addr) /\ After(f[j]) # c.addr
      /\ i <= Len(f) => c.addr <= f[i].addr \/ After(f[i]) = c.addr
  BY <1>1, PlaceFacts
<1>3. i \in Nat /\ 1 <= i /\ i <= Len(f) + 1
  BY <1>1, <1>2
<1>4. \A j \in 1 .. Len(f) :
        /\ f[j].addr \in Nat /\ After(f[j]) \in Nat /\ f[j].addr < After(f[j])
        /\ After(c) <= f[j].addr \/ After(f[j]) <= c.addr
  BY <1>1, ChunkFacts DEF Clear
<1>5. c.addr \in Nat /\ After(c) \in Nat /\ c.addr < After(c) /\ c \in Chunks
  BY ChunkFacts
<1>6. Distinct(f)
  BY SortedNearly, NearlyDistinct
<1>7. g = IF i <= Len(f) /\ f[i].addr < c.addr
          THEN [f EXCEPT ![i].size = @ + c.size] ELSE InsertAt(f, i, c)
  BY DEF Inserted
<1> HIDE DEF i, g
<1>8. \A j \in 1 .. Len(f) : j < i => After(f[j]) < c.addr
  BY <1>2, <1>4, <1>5
<1>9. CASE i <= Len(f) /\ f[i].addr < c.addr
  <2>1. i \in 1 .. Len(f) /\ After(f[i]) = c.addr
    BY <1>2, <1>3, <1>4, <1>5, <1>9
  <2>2. ChunkOK(Join(f[i], c)) /\ Join(f[i], c).addr = f[i].addr /\ After(Join(f[i], c)) = After(c)
    BY <1>1, <2>1, JoinFacts
  <2>3. g = [f EXCEPT ![i] = Join(f[i], c)]
    <3>1. f[i] \in Chunks /\ f \in [1 .. Len(f) -> Chunks]
      BY <1>1, <2>1, LenProperties
    <3>2. [f[i] EXCEPT !.size = @ + c.size] = Join(f[i], c)
      BY <3>1 DEF Join, Chunks
    <3> QED
      BY <1>7, <1>9, <3>1, <3>2
  <2>4. Join(f[i], c) \in Chunks
    BY <2>2 DEF ChunkOK
  <2>5. /\ g \in Seq(Chunks) /\ Len(g) = Len(f) /\ g[i] = Join(f[i], c)
        /\ \A j \in 1 .. Len(f) : j # i => g[j] = f[j]
    BY <1>1, <2>1, <2>3, <2>4, ExceptSeq
  <2>6. Range(g) = (Range(f) \ {f[i]}) \cup {Join(f[i], c)}
    <3>1. f \in Seq(Chunks) /\ i \in 1 .. Len(f)
      BY <1>1, <2>1
    <3>2. Range([f EXCEPT ![i] = Join(f[i], c)]) = (Range(f) \ {f[i]}) \cup {Join(f[i], c)}
      BY ONLY <3>1, <1>6, <2>4, RangeOfExcept
    <3> QED
      BY <3>2, <2>3
  <2>7. ListOK(g)
    BY <1>1, <2>2, <2>5 DEF ListOK
  <2>8. \A j \in 1 .. Len(f) : i < j => After(c) <= f[j].addr
    BY <1>4, <1>5, <2>1 DEF Sorted
  <2>9. \A j \in 1 .. Len(f) : i + 1 < j => After(c) < f[j].addr
    <3> SUFFICES ASSUME NEW j \in 1 .. Len(f), i + 1 < j PROVE After(c) < f[j].addr
      OBVIOUS
    <3>1. i + 1 \in 1 .. Len(f)
      BY <1>1, <1>3
    <3>2. After(f[i + 1]) < f[j].addr
      BY <3>1 DEF Sorted
    <3>3. After(c) <= f[i + 1].addr
      BY <3>1, <2>8, <1>3
    <3> QED
      BY <3>1, <3>2, <3>3, <1>4, <1>5
  <2>10. ASSUME NEW k \in 1 .. Len(f), NEW j \in 1 .. Len(f), k < j
         PROVE After(g[k]) < g[j].addr \/ (k = i /\ j = i + 1 /\ After(g[k]) = g[j].addr)
    <3>1. CASE k = i
      <4>1. After(g[k]) = After(c) /\ g[j] = f[j] /\ i < j
        BY <2>2, <2>5, <2>10, <3>1, <1>3
      <4>2. After(c) <= f[j].addr /\ (i + 1 < j => After(c) < f[j].addr)
        BY <4>1, <2>8, <2>9
      <4>3. j = i + 1 \/ i + 1 < j
        BY <4>1, <1>3
      <4> QED
        BY <3>1, <4>1, <4>2, <4>3, <1>4, <1>5
    <3>2. CASE k # i
      <4>1. g[k] = f[k] /\ g[j].addr = f[j].addr
        BY <2>2, <2>5, <3>2
      <4> QED
        BY <4>1, <2>10 DEF Sorted
    <3> QED
      BY <3>1, <3>2
  <2>11. Nearly(g, i)
    BY <2>5, <2>10 DEF Nearly
  <2> QED
    BY <2>1, <2>5, <2>6, <2>7, <2>11 DEF i, g
<1>10. CASE ~(i <= Len(f) /\ f[i].addr < c.addr)
  <2>1. g = InsertAt(f, i, c)
    BY <1>7, <1>10
  <2>2. /\ g \in Seq(Chunks) /\ Len(g) = Len(f) + 1 /\ g[i] = c
        /\ \A j \in 1 .. Len(f) : j < i => g[j] = f[j]
        /\ \A j \in 1 .. Len(f) : i <= j => g[j + 1] = f[j]
    <3>1. f \in Seq(Chunks) /\ i \in 1 .. Len(f) + 1 /\ c \in Chunks
      BY <1>1, <1>2, <1>5
    <3> QED
      BY ONLY <3>1, <2>1, InsertAtFacts
  <2>3. Range(g) = Range(f) \cup {c}
    BY <1>1, <1>2, <1>5, <2>1, RangeOfInsert
  <2>4. \A j \in 1 .. Len(f) : i <= j => After(c) < f[j].addr \/ (i = j /\ After(c) = f[j].addr)
    <3>1. i <= Len(f) => After(c) <= f[i].addr
      BY <1>1, <1>3, <1>4, <1>5, <1>10
    <3>2. ASSUME NEW j \in 1 .. Len(f), i < j PROVE After(c) < f[j].addr
      <4>1. i \in 1 .. Len(f) /\ After(f[i]) < f[j].addr
        BY <1>1, <1>3, <3>2 DEF Sorted
      <4> QED
        BY <3>1, <4>1, <1>3, <1>4, <1>5
    <3> QED
      BY <3>1, <3>2, <1>1, <1>3, <1>4, <1>5
  <2>5. ASSUME NEW k \in 1 .. Len(f) + 1
        PROVE \/ k \in 1 .. Len(f) /\ k < i /\ g[k] = f[k]
              \/ k = i /\ g[k] = c
              \/ k - 1 \in 1 .. Len(f) /\ i <= k - 1 /\ g[k] = f[k - 1]
    <3>1. k < i => k \in 1 .. Len(f)
      BY <1>1, <1>3
    <3>2. i < k => k - 1 \in 1 .. Len(f) /\ i <= k - 1 /\ (k - 1) + 1 = k
      BY <1>1, <1>3
    <3>3. k < i \/ k = i \/ i < k
      BY <1>1, <1>3
    <3>4. i < k => g[k] = f[k - 1]
      BY <3>2, <2>2
    <3> QED
      BY <3>1, <3>2, <3>3, <3>4, <2>2
  <2>6. ListOK(g)
    <3>1. ASSUME NEW k \in 1 .. Len(f) + 1 PROVE ChunkOK(g[k])
      BY <2>5, <1>1
    <3> QED
      BY <3>1, <2>2 DEF ListOK
  <2>7. ASSUME NEW k \in 1 .. Len(f) + 1, NEW j \in 1 .. Len(f) + 1, k < j
        PROVE After(g[k]) < g[j].addr \/ (k = i /\ j = i + 1 /\ After(g[k]) = g[j].addr)
    <3>1. CASE k \in 1 .. Len(f) /\ k < i /\ g[k] = f[k]
      <4>1. CASE j \in 1 .. Len(f) /\ j < i /\ g[j] = f[j]
        BY <3>1, <4>1, <2>7 DEF Sorted
      <4>2. CASE j = i /\ g[j] = c
        BY <3>1, <4>2, <1>8
      <4>3. CASE j - 1 \in 1 .. Len(f) /\ i <= j - 1 /\ g[j] = f[j - 1]
        <5>1. k < j - 1
          BY <3>1, <4>3, <1>3
        <5> QED
          BY <3>1, <4>3, <5>1 DEF Sorted
      <4> QED
        BY <4>1, <4>2, <4>3, <2>5
    <3>2. CASE k = i /\ g[k] = c
      <4>1. j - 1 \in 1 .. Len(f) /\ i <= j - 1 /\ g[j] = f[j - 1]
        BY <2>5, <2>7, <3>2, <1>3
      <4>2. After(c) < f[j - 1].addr \/ (i = j - 1 /\ After(c) = f[j - 1].addr)
        BY <4>1, <2>4
      <4>3. i = j - 1 => j = i + 1
        BY <1>3
      <4> QED
        BY <3>2, <4>1, <4>2, <4>3
    <3>3. CASE k - 1 \in 1 .. Len(f) /\ i <= k - 1 /\ g[k] = f[k - 1]
      <4>1. j - 1 \in 1 .. Len(f) /\ i <= j - 1 /\ g[j] = f[j - 1]
        BY <2>5, <2>7, <3>3, <1>3
      <4>2. k - 1 < j - 1
        BY <2>7
      <4> QED
        BY <3>3, <4>1, <4>2 DEF Sorted
    <3> QED
      BY <3>1, <3>2, <3>3, <2>5
  <2>8. Nearly(g, i)
    BY <2>2, <2>7 DEF Nearly
  <2>9. i \in 1 .. Len(g)
    BY <1>2, <2>2
  <2> QED
    BY <2>3, <2>6, <2>8, <2>9 DEF i, g
<1> QED
  BY <1>9, <1>10

\* free's second merge: what touched is joined, and the list is sorted.
LEMMA MergedFacts ==
  ASSUME NEW f, ListOK(f), NEW i \in 1 .. Len(f), Nearly(f, i)
  PROVE  LET g == Merged(f, i)
         IN  /\ ListOK(g) /\ Sorted(g)
             /\ \/ g = f
                \/ /\ i + 1 \in 1 .. Len(f) /\ After(f[i]) = f[i + 1].addr
                   /\ Range(g) = (Range(f) \ {f[i], f[i + 1]}) \cup {Join(f[i], f[i + 1])}
<1> DEFINE g == Merged(f, i)
<1>1. Len(f) \in Nat /\ f \in Seq(Chunks) /\ \A j \in 1 .. Len(f) : ChunkOK(f[j])
  BY LenProperties DEF ListOK
<1>2. i \in Nat /\ 1 <= i /\ i <= Len(f)
  BY <1>1
<1>3. g = IF i < Len(f) /\ After(f[i]) = f[i + 1].addr
          THEN RemoveAt([f EXCEPT ![i].size = @ + f[i + 1].size], i + 1) ELSE f
  BY DEF Merged
<1> HIDE DEF g
<1>4. CASE ~(i < Len(f) /\ After(f[i]) = f[i + 1].addr)
  <2>1. g = f
    BY <1>3, <1>4
  <2>2. ASSUME NEW k \in 1 .. Len(f), NEW j \in 1 .. Len(f), k < j PROVE After(f[k]) < f[j].addr
    <3>1. k = i /\ j = i + 1 => i < Len(f)
      BY <1>1, <1>2
    <3> QED
      BY <1>4, <2>2, <3>1 DEF Nearly
  <2> QED
    BY <2>1, <2>2 DEF Sorted, g
<1>5. CASE i < Len(f) /\ After(f[i]) = f[i + 1].addr
  <2> DEFINE m == Join(f[i], f[i + 1])
             e == [f EXCEPT ![i] = m]
  <2>1. i + 1 \in 1 .. Len(f) /\ ChunkOK(f[i]) /\ ChunkOK(f[i + 1])
    BY <1>1, <1>2, <1>5
  <2>2. ChunkOK(m) /\ m.addr = f[i].addr /\ After(m) = After(f[i + 1]) /\ m \in Chunks
    BY <2>1, <1>5, JoinFacts DEF ChunkOK
  <2>3. g = RemoveAt(e, i + 1)
    <3>1. f[i] \in Chunks /\ f \in [1 .. Len(f) -> Chunks]
      BY <1>1, LenProperties
    <3>2. [f[i] EXCEPT !.size = @ + f[i + 1].size] = m
      BY <3>1 DEF Join, Chunks
    <3> QED
      BY <1>3, <1>5, <3>1, <3>2
  <2> HIDE DEF m
  <2>4. f \in Seq(Chunks) /\ i \in 1 .. Len(f) /\ m \in Chunks /\ Distinct(f)
    BY <1>1, <2>2, NearlyDistinct
  <2>5. /\ e \in Seq(Chunks) /\ Len(e) = Len(f) /\ e[i] = m
        /\ \A j \in 1 .. Len(f) : j # i => e[j] = f[j]
    BY <2>4, ExceptSeq
  <2>6. Range(e) = (Range(f) \ {f[i]}) \cup {m}
    BY ONLY <2>4, RangeOfExcept
  <2> HIDE DEF e
  <2>7. \A k, j \in 1 .. Len(f) : k < j => After(e[k]) < e[j].addr \/ (j = i + 1 /\ k <= i)
    <3> SUFFICES ASSUME NEW k \in 1 .. Len(f), NEW j \in 1 .. Len(f), k < j, ~(j = i + 1 /\ k <= i)
                 PROVE  After(e[k]) < e[j].addr
      OBVIOUS
    <3>1. CASE k = i
      <4>1. After(e[k]) = After(f[i + 1]) /\ e[j] = f[j] /\ i + 1 < j
        BY <1>2, <2>2, <2>5, <3>1
      <4>2. After(f[i + 1]) < f[j].addr
        <5>1. i + 1 # i
          BY <1>2
        <5> QED
          BY <2>1, <4>1, <5>1 DEF Nearly
      <4> QED
        BY <4>1, <4>2
    <3>2. CASE k # i
      <4>1. e[k] = f[k] /\ e[j].addr = f[j].addr
        BY <2>2, <2>5, <3>2
      <4> QED
        BY <4>1, <3>2 DEF Nearly
    <3> QED
      BY <3>1, <3>2
  <2>8. Distinct(e)
    <3>1. ASSUME NEW k \in 1 .. Len(f), NEW j \in 1 .. Len(f), k < j PROVE e[k] # e[j]
      <4>0. \A n \in 1 .. Len(f) : ChunkOK(e[n])
        BY <2>2, <2>5, <1>1
      <4>1. After(e[k]) > e[k].addr /\ After(e[k]) \in Nat /\ e[k].addr \in Nat /\ e[j].addr \in Nat
        BY <4>0, ChunkFacts
      <4>2. CASE j = i + 1 /\ k <= i
        <5>1. e[j] = f[i + 1] /\ (k = i => e[k].addr = f[i].addr) /\ (k # i => e[k] = f[k])
          BY <4>2, <2>1, <2>2, <2>5, <1>2
        <5>2. f[i].addr < f[i + 1].addr
          BY <2>1, <1>5, ChunkFacts
        <5>3. k # i => f[k] # f[j]
          BY <2>4, <3>1, <1>1 DEF Distinct
        <5> QED
          BY <4>2, <5>1, <5>2, <5>3, <2>1, ChunkFacts
      <4> QED
        BY <2>7, <3>1, <4>1, <4>2
    <3> QED
      BY <2>5, <3>1, <1>1 DEF Distinct
  <2>9. Len(e) = Len(f) /\ i + 1 \in 1 .. Len(e) /\ e \in Seq(Chunks) /\ e[i + 1] = f[i + 1]
    BY <2>1, <2>5, <1>2
  <2>10. /\ g \in Seq(Chunks) /\ Len(g) = Len(e) - 1
         /\ \A j \in 1 .. Len(e) - 1 : j < i + 1 => g[j] = e[j]
         /\ \A j \in 1 .. Len(e) - 1 : i + 1 <= j => g[j] = e[j + 1]
    BY ONLY <2>3, <2>9, RemoveAtFacts
  <2>11. Range(g) = Range(e) \ {e[i + 1]}
    BY ONLY <2>3, <2>8, <2>9, RangeOfRemove
  <2>12. Range(g) = (Range(f) \ {f[i], f[i + 1]}) \cup {m}
    <3>1. m # f[i + 1]
      BY <2>1, <2>2, <1>5, ChunkFacts
    <3> QED
      BY <2>6, <2>9, <2>11, <3>1
  <2>13. ASSUME NEW k \in 1 .. Len(f) - 1
         PROVE \/ k \in 1 .. Len(f) /\ k <= i /\ g[k] = e[k]
               \/ k + 1 \in 1 .. Len(f) /\ i + 1 <= k /\ g[k] = e[k + 1]
    <3>1. k < i + 1 \/ i + 1 <= k
      BY <1>2
    <3>2. (k < i + 1 => k <= i) /\ k \in 1 .. Len(f) /\ k + 1 \in 1 .. Len(f)
      BY <1>1, <1>2
    <3> QED
      BY <3>1, <3>2, <2>9, <2>10
  <2>14. ASSUME NEW k \in 1 .. Len(f) - 1, NEW j \in 1 .. Len(f) - 1, k < j
         PROVE After(g[k]) < g[j].addr
    <3>1. CASE k \in 1 .. Len(f) /\ k <= i /\ g[k] = e[k]
      <4>1. CASE j \in 1 .. Len(f) /\ j <= i /\ g[j] = e[j]
        <5>1. j # i + 1
          BY <4>1, <1>2
        <5> QED
          BY <2>7, <2>14, <3>1, <4>1, <5>1
      <4>2. CASE j + 1 \in 1 .. Len(f) /\ i + 1 <= j /\ g[j] = e[j + 1]
        <5>1. j + 1 # i + 1 /\ k < j + 1
          BY <3>1, <4>2, <1>2
        <5> QED
          BY <2>7, <3>1, <4>2, <5>1
      <4> QED
        BY <4>1, <4>2, <2>13
    <3>2. CASE k + 1 \in 1 .. Len(f) /\ i + 1 <= k /\ g[k] = e[k + 1]
      <4>1. j + 1 \in 1 .. Len(f) /\ i + 1 <= j /\ g[j] = e[j + 1]
        BY <2>13, <2>14, <3>2, <1>2
      <4>2. k + 1 < j + 1 /\ j + 1 # i + 1
        BY <2>14, <3>2, <1>2
      <4> QED
        BY <2>7, <3>2, <4>1, <4>2
    <3> QED
      BY <3>1, <3>2, <2>13
  <2>15. Sorted(g)
    BY <2>9, <2>10, <2>14 DEF Sorted
  <2>16. ListOK(g)
    <3>1. \A n \in 1 .. Len(f) : ChunkOK(e[n])
      BY <2>2, <2>5, <1>1
    <3>2. ASSUME NEW k \in 1 .. Len(f) - 1 PROVE ChunkOK(g[k])
      BY <2>13, <3>1
    <3> QED
      BY <3>2, <2>9, <2>10 DEF ListOK
  <2> QED
    BY <2>1, <2>12, <2>15, <2>16, <1>5 DEF g, m
<1> QED
  BY <1>4, <1>5

\* Of a heap that is right: no chunk is held twice, or held and free, and each lies
\* between the heap's beginning and the break.
LEMMA WholeFacts ==
  ASSUME NEW h, NEW L, Whole(h, L)
  PROVE  /\ h \in Heaps /\ h.brk \in Nat /\ HeapEnd <= h.brk /\ h.brk <= Limit
         /\ h.free \in Seq(Chunks) /\ ListOK(h.free)
         /\ \A c \in L : ChunkOK(c)
         /\ \A c \in Range(h.free) : ChunkOK(c)
         /\ \A j \in 1 .. Len(h.free) : h.free[j] \in Range(h.free)
         /\ \A c \in L : \A d \in Range(h.free) : Clear(c, d) /\ c # d
         /\ \A c, d \in L : c # d => Clear(c, d)
         /\ \A c \in L \cup Range(h.free) : HeapEnd + 4 <= c.addr /\ After(c) <= h.brk + 4
<1> USE HeapAssumption DEF HeapAssumption
<1> DEFINE T == TilesOf(h, L)
<1>1. h \in Heaps /\ h.brk \in Nat /\ h.free \in Seq(Chunks) /\ HeapEnd <= h.brk /\ h.brk <= Limit
  BY DEF Whole, Heaps
<1>2. \A j \in 1 .. Len(h.free) : h.free[j] \in Range(h.free)
  BY <1>1, RangeFacts
<1>3. (\A c \in L : ChunkOK(c)) /\ \A c \in Range(h.free) : ChunkOK(c)
  BY DEF Whole
<1>4. ListOK(h.free)
  BY <1>1, <1>2, <1>3 DEF ListOK
<1>5. Disjoint(T) /\ \A t \in T : HeapEnd <= t.from /\ t.to <= h.brk
  BY DEF Whole, Partition
<1>6. (\A c \in L : Tile(c, "live") \in T) /\ \A c \in Range(h.free) : Tile(c, "free") \in T
  BY DEF TilesOf
<1> HIDE DEF T
<1>7. ASSUME NEW c \in L, NEW d \in Range(h.free) PROVE Clear(c, d) /\ c # d
  <2>1. Tile(c, "live") # Tile(d, "free") /\ c \in Chunks /\ d \in Chunks
    BY <1>3, TileFacts DEF ChunkOK
  <2>2. Clear(c, d)
    BY <2>1, <1>5, <1>6, TilesApart DEF Disjoint
  <2> QED
    BY <2>2, <1>3, ChunkFacts DEF Clear
<1>8. ASSUME NEW c \in L, NEW d \in L, c # d PROVE Clear(c, d)
  <2>1. c \in Chunks /\ d \in Chunks
    BY <1>3 DEF ChunkOK
  <2>2. Tile(c, "live") # Tile(d, "live")
    BY <2>1, <1>8, TilesApart
  <2> QED
    BY <2>1, <2>2, <1>5, <1>6, TilesApart DEF Disjoint
<1>9. ASSUME NEW c \in L \cup Range(h.free) PROVE HeapEnd + 4 <= c.addr /\ After(c) <= h.brk + 4
  <2>1. c.addr \in Nat /\ c.size \in Nat /\ After(c) = c.addr + c.size
    BY <1>3, ChunkFacts
  <2>2. HeapEnd <= c.addr - 4 /\ c.addr - 4 + c.size <= h.brk
    BY <1>5, <1>6, TileFacts
  <2> QED
    BY <2>1, <2>2, <1>1
<1> QED
  BY <1>1, <1>2, <1>3, <1>4, <1>7, <1>8, <1>9

\* Two neighbours of the list become one chunk.
LEMMA SwapJoined ==
  ASSUME NEW h, NEW L, Whole(h, L), NEW c \in Range(h.free), NEW d \in Range(h.free),
         After(c) = d.addr, NEW f, ListOK(f),
         Range(f) = (Range(h.free) \ {c, d}) \cup {Join(c, d)}
  PROVE  Swap(h, L, {}, {c, d}, {}, {Join(c, d)}, f, L)
<1>1. ChunkOK(c) /\ ChunkOK(d)
  BY WholeFacts
<1>2. ChunkOK(Join(c, d)) /\ \A x \in Nat : Within(x, Join(c, d)) <=> Within(x, c) \/ Within(x, d)
  BY <1>1, JoinFacts
<1>3. f \in Seq(Chunks)
  BY DEF ListOK
<1>4. \A x \in Nat : (\E e \in {} \cup {c, d} : Within(x, e))
                       <=> (\E e \in {} \cup {Join(c, d)} : Within(x, e))
  BY <1>2
<1> QED
  BY <1>2, <1>3, <1>4 DEF Swap

\* A chunk that is freed goes to the list as it is, or joined with the one before.
LEMMA SwapFreed ==
  ASSUME NEW h, NEW L, Whole(h, L), NEW c \in L, NEW f, ListOK(f),
         Range(f) = Range(h.free) \cup {c}
  PROVE  Swap(h, L, {c}, {}, {}, {c}, f, L \ {c})
<1>1. ChunkOK(c)
  BY WholeFacts
<1>2. f \in Seq(Chunks)
  BY DEF ListOK
<1> QED
  BY <1>1, <1>2 DEF Swap

\* The freed chunk joined with the one of the list it borders on.
LEMMA SwapFreedJoined ==
  ASSUME NEW h, NEW L, Whole(h, L), NEW c \in L, NEW d \in Range(h.free), After(d) = c.addr,
         NEW f, ListOK(f), Range(f) = (Range(h.free) \ {d}) \cup {Join(d, c)}
  PROVE  Swap(h, L, {c}, {d}, {}, {Join(d, c)}, f, L \ {c})
<1>1. ChunkOK(c) /\ ChunkOK(d)
  BY WholeFacts
<1>2. ChunkOK(Join(d, c)) /\ \A x \in Nat : Within(x, Join(d, c)) <=> Within(x, d) \/ Within(x, c)
  BY <1>1, JoinFacts
<1>3. f \in Seq(Chunks)
  BY DEF ListOK
<1>4. \A x \in Nat : (\E e \in {c} \cup {d} : Within(x, e))
                       <=> (\E e \in {} \cup {Join(d, c)} : Within(x, e))
  BY <1>2
<1> QED
  BY <1>2, <1>3, <1>4 DEF Swap

\* What free makes of a heap that is right is right again.
LEMMA FreeChunkGood ==
  ASSUME NEW h, NEW L, Good(h, L), NEW c \in L
  PROVE  Good(FreeChunk(h, c), L \ {c})
<1> DEFINE f == h.free
           i == Place(f, c)
           e == Inserted(f, c, i)
           g == Merged(e, i)
           k == [h EXCEPT !.free = e]
<1>1. Whole(h, L) /\ Sorted(f)
  BY DEF Good
<1>2. /\ h \in Heaps /\ ListOK(f) /\ ChunkOK(c)
      /\ \A j \in 1 .. Len(f) : Clear(c, f[j]) /\ f[j] \in Range(f)
  BY <1>1, WholeFacts
<1>3. /\ ListOK(e) /\ i \in 1 .. Len(e) /\ Nearly(e, i)
      /\ \/ Range(e) = Range(f) \cup {c}
         \/ /\ i \in 1 .. Len(f) /\ After(f[i]) = c.addr
            /\ Range(e) = (Range(f) \ {f[i]}) \cup {Join(f[i], c)}
  <2> HIDE DEF f
  <2> QED
    BY <1>1, <1>2, InsertedFacts
<1>4. FreeChunk(h, c) = [k EXCEPT !.free = g]
  BY <1>2 DEF FreeChunk, Heaps
<1>5. k.free = e /\ k \in Heaps
  BY <1>2, <1>3 DEF Heaps, ListOK
<1> HIDE DEF f, i, e, g
<1>6. Whole(k, L \ {c})
  <2>1. CASE Range(e) = Range(f) \cup {c}
    <3>1. Swap(h, L, {c}, {}, {}, {c}, e, L \ {c})
      BY <1>1, <1>3, <2>1, SwapFreed DEF f
    <3> QED
      BY <3>1, <1>1, Exchange
  <2>2. CASE /\ i \in 1 .. Len(f) /\ After(f[i]) = c.addr
             /\ Range(e) = (Range(f) \ {f[i]}) \cup {Join(f[i], c)}
    <3>1. f[i] \in Range(f)
      BY <2>2, <1>2
    <3>2. Swap(h, L, {c}, {f[i]}, {}, {Join(f[i], c)}, e, L \ {c})
      BY <1>1, <1>3, <2>2, <3>1, SwapFreedJoined DEF f
    <3> QED
      BY <3>2, <1>1, Exchange
  <2> QED
    BY <1>3, <2>1, <2>2
<1>7. /\ ListOK(g) /\ Sorted(g)
      /\ \/ g = e
         \/ /\ i + 1 \in 1 .. Len(e) /\ After(e[i]) = e[i + 1].addr
            /\ Range(g) = (Range(e) \ {e[i], e[i + 1]}) \cup {Join(e[i], e[i + 1])}
  BY <1>3, MergedFacts DEF g
<1> HIDE DEF k
<1>8. Whole([k EXCEPT !.free = g], L \ {c})
  <2>1. CASE g = e
    <3>1. [k EXCEPT !.free = g] = k
      BY <1>5, <2>1 DEF Heaps
    <3> QED
      BY <3>1, <1>6
  <2>2. CASE /\ i + 1 \in 1 .. Len(e) /\ After(e[i]) = e[i + 1].addr
             /\ Range(g) = (Range(e) \ {e[i], e[i + 1]}) \cup {Join(e[i], e[i + 1])}
    <3>1. e[i] \in Range(k.free) /\ e[i + 1] \in Range(k.free)
      BY <1>3, <1>5, <2>2, RangeFacts DEF ListOK
    <3>2. Swap(k, L \ {c}, {}, {e[i], e[i + 1]}, {}, {Join(e[i], e[i + 1])}, g, L \ {c})
      BY <1>5, <1>6, <1>7, <2>2, <3>1, SwapJoined
    <3> QED
      BY <3>2, <1>6, Exchange
  <2> QED
    BY <1>7, <2>1, <2>2
<1>9. [k EXCEPT !.free = g].free = g
  BY <1>5 DEF Heaps
<1> QED
  BY <1>4, <1>7, <1>8, <1>9 DEF Good

-----------------------------------------------------------------------------
(* sbrk.                                                                   *)

\* Where sbrk stops.
LEMMA LimitFacts == Limit \in Nat /\ HeapEnd <= Limit /\ HeapEnd \in Nat /\ 0 < HeapEnd
<1> USE HeapAssumption DEF HeapAssumption
<1> DEFINE I == {HeapEnd + HeapSize, StackEnd}
<1>1. I \subseteq Nat /\ I # {} /\ \A i \in I : HeapEnd <= i
  OBVIOUS
<1> HIDE DEF I
<1>2. Min(I) \in I
  BY <1>1, MinFacts
<1>3. Limit = Min(I)
  BY DEF Limit, I
<1>4. Limit \in Nat /\ HeapEnd <= Limit
  BY ONLY <1>1, <1>2, <1>3
<1> QED
  BY <1>4

\* Where a chunk can begin at or after an address.
LEMMA AlignedFacts ==
  ASSUME NEW a \in Nat
  PROVE  /\ Aligned(a) \in Nat /\ a <= Aligned(a) /\ Aligned(a) < a + 16
         /\ (Aligned(a) + 4) % 16 = 0
         /\ Aligned(a) = a <=> (a + 4) % 16 = 0
<1>1. Aligned(a) = ((a + 19) \div 16) * 16 - 4
  BY DEF Aligned, AlignUp
<1> QED
  BY <1>1

\* A hole or a chunk put above what there is, in tiles.
LEMMA EndsAbove ==
  ASSUME NEW T, NEW brk \in Nat, Partition(T, brk), NEW start \in Nat, NEW top \in Nat,
         Ends(T, start, top), NEW B, NEW t, t \in B, NEW end \in Nat,
         t.from \in Nat, t.from < t.to, t.to = end, brk <= t.from, 0 < t.from,
         \/ Chunky(B) = {} /\ t.of = "lost"
         \/ Chunky(B) = {t}
  PROVE  Ends(T \cup B, IF start = Null /\ Chunky(B) # {} THEN t.from ELSE start, end)
<1> DEFINE U == T \cup B
           first == IF start = Null /\ Chunky(B) # {} THEN t.from ELSE start
<1>1. Chunky(U) = Chunky(T) \cup Chunky(B)
  BY DEF Chunky
<1>2. ASSUME NEW x \in Nat, Covers(Chunky(T), x) PROVE x < brk
  <2>1. PICK u \in T : In(x, u)
    BY <1>2 DEF Covers, Chunky
  <2>2. u.to \in Nat /\ u.to <= brk
    BY DEF Partition, Proper
  <2> QED
    BY <2>1, <2>2 DEF In
<1>3. \A x \in Nat : Covers(Chunky(U), x) => Covers(Chunky(T), x) \/ (Chunky(B) = {t} /\ In(x, t))
  BY <1>1 DEF Covers
<1>4. ASSUME NEW x \in Nat, Covers(Chunky(U), x) PROVE first # Null /\ first <= x /\ x < end
  <2>1. CASE Covers(Chunky(T), x)
    BY <1>2, <2>1 DEF Ends
  <2>2. CASE Chunky(B) = {t} /\ In(x, t)
    <3>1. t.from <= x /\ x < end
      BY <2>2 DEF In
    <3>2. CASE start = Null
      BY <2>2, <3>1, <3>2 DEF Null
    <3>3. CASE start # Null
      <4>1. start < brk
        BY <1>2, <3>3 DEF Ends
      <4> QED
        BY <3>1, <3>3, <4>1
    <3> QED
      BY <3>2, <3>3
  <2> QED
    BY <1>3, <1>4, <2>1, <2>2
<1>5. first # Null => Covers(Chunky(U), first)
  <2>1. CASE start = Null /\ Chunky(B) # {}
    <3>1. Chunky(B) = {t} /\ In(t.from, t)
      BY <2>1 DEF In
    <3> QED
      BY <1>1, <2>1, <3>1 DEF Covers
  <2>2. CASE ~(start = Null /\ Chunky(B) # {})
    <3>1. start # Null => Covers(Chunky(T), start)
      BY DEF Ends
    <3> QED
      BY <1>1, <2>2, <3>1 DEF Covers
  <2> QED
    BY <2>1, <2>2
<1>6. Covers(Mine(U), end - 1)
  <2>1. t \in Mine(U)
    <3>1. t \in Chunky(B) \/ t.of = "lost"
      OBVIOUS
    <3> QED
      BY <3>1 DEF Mine, Chunky
  <2>2. In(end - 1, t)
    BY DEF In
  <2> QED
    BY <2>1, <2>2 DEF Covers
<1> QED
  BY <1>4, <1>5, <1>6 DEF Ends

\* What was lost, put above the rest: nothing else changes.
LEMMA LostGood ==
  ASSUME NEW h, NEW L, Good(h, L), NEW end \in Nat, Aligned(h.brk) # h.brk,
         h.brk + 16 <= end, end <= Limit, Limit - end < 16
  PROVE  Good(Lost(h, end).h, L) /\ Lost(h, end).h.free = h.free /\ Lost(h, end).at = Fail
<1> DEFINE t == Hole(h.brk, end, "lost")
           g == Lost(h, end).h
           T == TilesOf(h, L)
<1>1. Whole(h, L) /\ Sorted(h.free)
  BY DEF Good
<1>2. h \in Heaps /\ h.brk \in Nat /\ HeapEnd <= h.brk /\ h.holes \subseteq Holes
        /\ h.start \in Nat /\ h.top \in Nat
  BY <1>1, WholeFacts DEF Heaps
<1>3. t.from = h.brk /\ t.to = end /\ t.of = "lost" /\ t \in Holes
  BY <1>2 DEF Hole, Holes
<1>4. /\ g.brk = end /\ g.top = end /\ g.start = h.start /\ g.free = h.free
      /\ g.holes = h.holes \cup {t} /\ Lost(h, end).at = Fail
  BY <1>2 DEF Lost, Heaps
<1>5. g \in Heaps
  BY <1>2, <1>3 DEF Lost, Heaps
<1>6. TilesOf(g, L) = T \cup {t}
  BY <1>4 DEF TilesOf
<1> HIDE DEF t, g, T
<1>7. Partition(T \cup {t}, end)
  <2>1. Proper({t}) /\ Disjoint({t})
    BY <1>2, <1>3 DEF Proper, Disjoint
  <2>2. \A x \in Nat : h.brk <= x /\ x < end => Covers({t}, x)
    BY <1>3 DEF Covers, In
  <2>3. Partition(T, h.brk) /\ \A u \in {t} : h.brk <= u.from /\ u.to <= end
    BY <1>1, <1>2, <1>3 DEF Whole, T
  <2>4. h.brk \in Nat /\ end \in Nat /\ h.brk <= end /\ HeapEnd <= h.brk
    BY <1>2
  <2> QED
    BY ONLY <2>1, <2>2, <2>3, <2>4, Extend
<1>8. Ends(T \cup {t}, h.start, end)
  <2>1. Chunky({t}) = {}
    BY <1>3 DEF Chunky
  <2>2. Partition(T, h.brk) /\ Ends(T, h.start, h.top) /\ 0 < h.brk
    BY <1>1, <1>2, LimitFacts DEF Whole, T
  <2>3. Ends(T \cup {t}, IF h.start = Null /\ Chunky({t}) # {} THEN t.from ELSE h.start, end)
    <3>1. /\ h.brk \in Nat /\ h.start \in Nat /\ h.top \in Nat /\ end \in Nat
          /\ t \in {t} /\ t.from \in Nat /\ t.from < t.to /\ t.to = end /\ h.brk <= t.from /\ 0 < t.from
          /\ t.of = "lost"
      BY <1>2, <1>3, <2>2
    <3> QED
      BY ONLY <3>1, <2>1, <2>2, EndsAbove
  <2> QED
    BY <2>1, <2>3
<1>9. HolesOK(g.holes)
  <2>1. (t.from + 4) % 16 # 0 /\ t.from + 16 <= t.to /\ Limit - t.to < 16 /\ t.of = "lost"
    BY <1>2, <1>3, AlignedFacts
  <2>2. \A u \in g.holes : u \in h.holes \/ u = t
    BY <1>4
  <2> QED
    BY <1>1, <2>1, <2>2 DEF Whole, HolesOK
<1>10. Whole(g, L)
  BY <1>1, <1>2, <1>4, <1>5, <1>6, <1>7, <1>8, <1>9, LimitFacts DEF Whole
<1> QED
  BY <1>1, <1>4, <1>10 DEF Good, g

\* A new chunk, above the padding before it if it needs some.
LEMMA HadGood ==
  ASSUME NEW h, NEW L, Good(h, L), NEW at \in Nat, at = Aligned(h.brk),
         NEW s \in Nat, s % 16 = 0, 16 <= s, at + s <= Limit
  PROVE  LET c == [addr |-> at + 4, size |-> s]
             got == Had(h, at, at + s)
         IN  Good(got.h, L \cup {c}) /\ c \notin L /\ got.h.free = h.free /\ got.at = at
<1> DEFINE c == [addr |-> at + 4, size |-> s]
           end == at + s
           t == Tile(c, "live")
           p == Hole(h.brk, at, "pad")
           pads == IF at = h.brk THEN {} ELSE {p}
           B == pads \cup {t}
           g == Had(h, at, end).h
           T == TilesOf(h, L)
<1>1. Whole(h, L) /\ Sorted(h.free)
  BY DEF Good
<1>2. h \in Heaps /\ h.brk \in Nat /\ HeapEnd <= h.brk /\ h.holes \subseteq Holes
        /\ h.start \in Nat /\ h.top \in Nat /\ 0 < h.brk
  BY <1>1, WholeFacts, LimitFacts DEF Heaps
<1>3. h.brk <= at /\ (at + 4) % 16 = 0 /\ (at # h.brk => (h.brk + 4) % 16 # 0)
  BY <1>2, AlignedFacts
<1>4. ChunkOK(c) /\ c.addr = at + 4 /\ c.size = s /\ end \in Nat
  BY <1>2, <1>3 DEF ChunkOK, Chunks
<1>5. t.from = at /\ t.to = end /\ t.of = "live"
  BY <1>4, TileFacts
<1>6. p.from = h.brk /\ p.to = at /\ p.of = "pad" /\ p \in Holes
  BY <1>2 DEF Hole, Holes
<1>7. c \notin L
  <2> SUFFICES ASSUME c \in L PROVE FALSE
    OBVIOUS
  <2>1. After(c) <= h.brk + 4
    BY <1>1, WholeFacts
  <2> QED
    BY <2>1, <1>2, <1>3, <1>4 DEF After
<1>8. /\ g.brk = end /\ g.top = end /\ g.free = h.free /\ g.holes = h.holes \cup pads
      /\ g.start = (IF h.start = Null THEN at ELSE h.start) /\ Had(h, at, end).at = at
  BY <1>2 DEF Had, Heaps
<1>9. g \in Heaps
  <2>1. h.holes \cup pads \subseteq Holes /\ (IF h.start = Null THEN at ELSE h.start) \in Nat
    BY <1>2, <1>6
  <2>2. g = [h EXCEPT !.brk = end, !.top = end, !.start = IF h.start = Null THEN at ELSE h.start,
                      !.holes = h.holes \cup pads]
    BY <1>2 DEF Had, Heaps
  <2> HIDE DEF g, pads, end
  <2> QED
    BY <1>2, <1>4, <2>1, <2>2 DEF Heaps
<1>10. TilesOf(g, L \cup {c}) = T \cup B
  <2> HIDE DEF c, pads, p
  <2> QED
    BY <1>8 DEF TilesOf
<1>11. (\A u \in B : u = t \/ (u = p /\ at # h.brk)) /\ t \in B /\ (at # h.brk => p \in B)
  OBVIOUS
<1> HIDE DEF c, end, t, p, pads, B, g, T
<1>12. Partition(T \cup B, end)
  <2>1. Proper(B) /\ Disjoint(B) /\ \A u \in B : h.brk <= u.from /\ u.to <= end
    <3>1. at < end
      BY <1>4 DEF end
    <3> QED
      BY <1>2, <1>3, <1>4, <1>5, <1>6, <1>11, <3>1 DEF Proper, Disjoint, Apart
  <2>2. \A x \in Nat : h.brk <= x /\ x < end => Covers(B, x)
    <3>1. \A x \in Nat : h.brk <= x /\ x < end => In(x, t) \/ (at # h.brk /\ In(x, p))
      BY <1>2, <1>3, <1>4, <1>5, <1>6 DEF In
    <3> QED
      BY <1>11, <3>1 DEF Covers
  <2>3. Partition(T, h.brk)
    BY <1>1 DEF Whole, T
  <2>4. h.brk \in Nat /\ end \in Nat /\ h.brk <= end /\ HeapEnd <= h.brk
    BY <1>2, <1>3, <1>4 DEF end
  <2> QED
    BY ONLY <2>1, <2>2, <2>3, <2>4, Extend
<1>13. Ends(T \cup B, IF h.start = Null THEN at ELSE h.start, end)
  <2>1. Chunky(B) = {t}
    BY <1>5, <1>6, <1>11 DEF Chunky
  <2>2. Partition(T, h.brk) /\ Ends(T, h.start, h.top)
    BY <1>1 DEF Whole, T
  <2>3. /\ h.brk \in Nat /\ h.start \in Nat /\ h.top \in Nat /\ end \in Nat
        /\ t \in B /\ t.from \in Nat /\ t.from < t.to /\ t.to = end /\ h.brk <= t.from /\ 0 < t.from
    <3>1. at < end /\ h.brk <= at /\ 0 < at
      BY <1>2, <1>3, <1>4 DEF end
    <3> QED
      BY <1>2, <1>4, <1>5, <1>11, <3>1
  <2>4. Ends(T \cup B, IF h.start = Null /\ Chunky(B) # {} THEN t.from ELSE h.start, end)
    BY ONLY <2>1, <2>2, <2>3, EndsAbove
  <2> QED
    BY <2>1, <2>4, <1>5
<1>14. HolesOK(g.holes)
  <2>1. HolesOK(h.holes)
    BY <1>1 DEF Whole
  <2>2. \A u \in g.holes : u \in h.holes \/ (u = p /\ at # h.brk)
    BY <1>8 DEF pads
  <2> QED
    BY <1>3, <1>6, <2>1, <2>2 DEF HolesOK
<1>15. (\A d \in L \cup {c} : ChunkOK(d)) /\ \A d \in Range(g.free) : ChunkOK(d)
  BY <1>1, <1>4, <1>8, WholeFacts
<1>16. HeapEnd <= g.brk /\ g.brk <= Limit
  BY <1>2, <1>3, <1>4, <1>8, LimitFacts DEF end
<1>17. Whole(g, L \cup {c})
  BY <1>8, <1>9, <1>10, <1>12, <1>13, <1>14, <1>15, <1>16 DEF Whole
<1> QED
  BY <1>1, <1>7, <1>8, <1>17 DEF Good, c, end, g

\* What sbrk_aligned answers: nothing, with the heap right as it is, or a new chunk.
LEMMA SbrkAlignedGood ==
  ASSUME NEW h, NEW L, Good(h, L), NEW s \in Nat, s % 16 = 0, 16 <= s
  PROVE  LET got == SbrkAligned(h, s)
             c == [addr |-> got.at + 4, size |-> s]
         IN  /\ got.h.free = h.free
             /\ \/ got.at = Fail /\ Good(got.h, L)
                \/ /\ got.at \in Nat /\ h.brk <= got.at /\ (got.at + 4) % 16 = 0
                   /\ Good(got.h, L \cup {c}) /\ c \notin L
<1> DEFINE got == SbrkAligned(h, s)
<1>1. h.brk \in Nat
  BY WholeFacts DEF Good
<1>2. Aligned(h.brk) \in Nat /\ h.brk <= Aligned(h.brk) /\ Aligned(h.brk) < h.brk + 16
        /\ (Aligned(h.brk) + 4) % 16 = 0
  BY <1>1, AlignedFacts
<1>3. Limit \in Nat
  BY LimitFacts
<1>4. CASE s > PtrdiffMax \/ h.brk + s > Limit
  <2>1. got = [h |-> h, at |-> Fail]
    BY <1>4 DEF SbrkAligned
  <2> QED
    BY <2>1
<1>5. CASE ~(s > PtrdiffMax \/ h.brk + s > Limit) /\ Aligned(h.brk) + s > Limit
  <2>1. got = Lost(h, h.brk + s)
    BY <1>5 DEF SbrkAligned
  <2>2. h.brk + s \in Nat /\ h.brk + 16 <= h.brk + s /\ h.brk + s <= Limit /\ Limit - (h.brk + s) < 16
        /\ Aligned(h.brk) # h.brk
    BY <1>1, <1>2, <1>3, <1>5
  <2>3. Good(got.h, L) /\ got.h.free = h.free /\ got.at = Fail
    BY <2>1, <2>2, LostGood
  <2> QED
    BY <2>3
<1>6. CASE ~(s > PtrdiffMax \/ h.brk + s > Limit) /\ ~(Aligned(h.brk) + s > Limit)
  <2>1. got = Had(h, Aligned(h.brk), Aligned(h.brk) + s)
    BY <1>6 DEF SbrkAligned
  <2>2. Aligned(h.brk) + s <= Limit
    BY <1>2, <1>3, <1>6
  <2>3. LET c == [addr |-> Aligned(h.brk) + 4, size |-> s]
        IN  Good(got.h, L \cup {c}) /\ c \notin L /\ got.h.free = h.free /\ got.at = Aligned(h.brk)
    BY <1>2, <2>1, <2>2, HadGood
  <2> QED
    BY <1>2, <2>3
<1> QED
  BY <1>4, <1>5, <1>6

-----------------------------------------------------------------------------
(* malloc.                                                                 *)

Low(c, k) == [addr |-> c.addr, size |-> k]
High(c, k) == [addr |-> c.addr + k, size |-> c.size - k]

\* A chunk cut in two: two chunks that touch, on the same bytes.
LEMMA SplitFacts ==
  ASSUME NEW c, ChunkOK(c), NEW k \in Nat, k % 16 = 0, 16 <= k, 16 <= c.size - k
  PROVE  /\ ChunkOK(Low(c, k)) /\ Low(c, k).addr = c.addr /\ Low(c, k).size = k
         /\ ChunkOK(High(c, k)) /\ High(c, k).addr = c.addr + k /\ High(c, k).size = c.size - k
         /\ After(Low(c, k)) = High(c, k).addr /\ After(High(c, k)) = After(c)
         /\ Low(c, k) # High(c, k)
         /\ \A a, b \in {Low(c, k), High(c, k)} : a # b => Clear(a, b)
         /\ \A x \in Nat : Within(x, c) <=> Within(x, Low(c, k)) \/ Within(x, High(c, k))
<1>1. c.addr \in Nat /\ c.size \in Nat /\ 16 <= c.addr /\ c.addr % 16 = 0 /\ c.size % 16 = 0
  BY ChunkFacts
<1>2. (c.addr + k) % 16 = 0 /\ (c.size - k) % 16 = 0 /\ c.size - k \in Nat /\ c.addr + k \in Nat
  BY <1>1
<1>3. /\ Low(c, k).addr = c.addr /\ Low(c, k).size = k
      /\ High(c, k).addr = c.addr + k /\ High(c, k).size = c.size - k
      /\ Low(c, k) \in Chunks /\ High(c, k) \in Chunks
  BY <1>1, <1>2 DEF Low, High, Chunks
<1>4. ChunkOK(Low(c, k)) /\ ChunkOK(High(c, k))
  BY <1>1, <1>2, <1>3 DEF ChunkOK
<1>5. After(Low(c, k)) = High(c, k).addr /\ After(High(c, k)) = After(c) /\ Low(c, k) # High(c, k)
  BY <1>1, <1>2, <1>3 DEF After
<1>6. \A x \in Nat : Within(x, c) <=> Within(x, Low(c, k)) \/ Within(x, High(c, k))
  BY <1>1, <1>2, <1>3 DEF Within, Blob
<1>7. Clear(Low(c, k), High(c, k)) /\ Clear(High(c, k), Low(c, k))
  BY <1>1, <1>2, <1>3 DEF Clear, After
<1> QED
  BY <1>3, <1>4, <1>5, <1>6, <1>7

\* A chunk a program holds, cut in two.
LEMMA SplitGood ==
  ASSUME NEW h, NEW L, Good(h, L), NEW c \in L,
         NEW k \in Nat, k % 16 = 0, 16 <= k, 16 <= c.size - k
  PROVE  /\ Good(h, (L \ {c}) \cup {Low(c, k), High(c, k)})
         /\ Low(c, k) \notin L \ {c} /\ High(c, k) \notin L \ {c}
<1>1. Whole(h, L) /\ Sorted(h.free) /\ h \in Heaps /\ ChunkOK(c) /\ h.free \in Seq(Chunks)
  BY WholeFacts DEF Good
<1>2. /\ ChunkOK(Low(c, k)) /\ Low(c, k).addr = c.addr /\ ChunkOK(High(c, k))
      /\ High(c, k).addr = c.addr + k /\ After(Low(c, k)) = High(c, k).addr
      /\ Low(c, k) # High(c, k)
      /\ \A a, b \in {Low(c, k), High(c, k)} : a # b => Clear(a, b)
      /\ \A x \in Nat : Within(x, c) <=> Within(x, Low(c, k)) \/ Within(x, High(c, k))
  BY <1>1, SplitFacts
<1> DEFINE M == (L \ {c}) \cup {Low(c, k), High(c, k)}
<1>3. Swap(h, L, {c}, {}, {Low(c, k), High(c, k)}, {}, h.free, M)
  <2>1. \A a, b \in {Low(c, k), High(c, k)} \cup {} : a # b => Clear(a, b)
    BY <1>2
  <2>2. \A x \in Nat : (\E e \in {c} \cup {} : Within(x, e))
                         <=> (\E e \in {Low(c, k), High(c, k)} \cup {} : Within(x, e))
    BY <1>2
  <2> QED
    BY <1>1, <1>2, <2>1, <2>2 DEF Swap
<1> HIDE DEF M
<1>4. Whole([h EXCEPT !.free = h.free], M)
  BY <1>1, <1>3, Exchange
<1>5. [h EXCEPT !.free = h.free] = h
  BY <1>1 DEF Heaps
<1>6. ASSUME NEW d \in L \ {c} PROVE d # Low(c, k) /\ d # High(c, k)
  <2>1. Clear(c, d) /\ ChunkOK(d)
    BY <1>1, <1>6, WholeFacts
  <2>2. c.addr \in Nat /\ c.size \in Nat /\ After(c) = c.addr + c.size /\ d.addr \in Nat
          /\ After(d) > d.addr /\ After(d) \in Nat
    BY <1>1, <2>1, ChunkFacts
  <2> QED
    BY <1>2, <2>1, <2>2 DEF Clear
<1> QED
  BY <1>1, <1>4, <1>5, <1>6 DEF Good, M

\* A chunk of the list, or its front, is a program's.
LEMMA TakeFreeGood ==
  ASSUME NEW h, NEW L, Good(h, L), NEW i \in 1 .. Len(h.free),
         NEW size \in Nat, size % 16 = 0, 16 <= size, size <= h.free[i].size
  PROVE  LET r == TakeFree(h, i, size)
         IN  Good(r.h, L \cup {r.c}) /\ r.c \notin L /\ size <= r.c.size
<1> DEFINE f == h.free
           c == f[i]
           r == TakeFree(h, i, size)
<1>1. Whole(h, L) /\ Sorted(f) /\ h \in Heaps /\ ListOK(f) /\ f \in Seq(Chunks) /\ c \in Range(f)
        /\ ChunkOK(c) /\ \A d \in L : Clear(d, c) /\ d # c /\ ChunkOK(d)
  BY WholeFacts DEF Good
<1>2. c.addr \in Nat /\ c.size \in Nat /\ After(c) = c.addr + c.size /\ 16 <= c.size /\ c \in Chunks
  BY <1>1, ChunkFacts
<1>3. Distinct(f) /\ Len(f) \in Nat
  BY <1>1, SortedNearly, NearlyDistinct, LenProperties
<1>4. ASSUME NEW d \in L PROVE d.addr # c.addr
  <2>1. Clear(d, c) /\ d.addr \in Nat /\ After(d) > d.addr /\ After(d) \in Nat
    BY <1>1, ChunkFacts
  <2> QED
    BY <1>2, <2>1 DEF Clear
<1> HIDE DEF f, r
<1>5. CASE c.size - size >= 16
  <2> DEFINE e == [f EXCEPT ![i] = High(c, size)]
  <2>1. /\ ChunkOK(Low(c, size)) /\ Low(c, size).addr = c.addr /\ ChunkOK(High(c, size))
        /\ High(c, size).addr = c.addr + size /\ After(Low(c, size)) = High(c, size).addr
        /\ After(High(c, size)) = After(c) /\ Low(c, size).size = size
        /\ Low(c, size) # High(c, size)
        /\ \A a, b \in {Low(c, size), High(c, size)} : a # b => Clear(a, b)
        /\ \A x \in Nat : Within(x, c) <=> Within(x, Low(c, size)) \/ Within(x, High(c, size))
    BY <1>1, <1>2, <1>5, SplitFacts
  <2>2. f \in Seq(Chunks) /\ i \in 1 .. Len(f) /\ High(c, size) \in Chunks /\ Distinct(f)
    BY <1>1, <1>3, <2>1 DEF ChunkOK, f
  <2>3. /\ e \in Seq(Chunks) /\ Len(e) = Len(f) /\ e[i] = High(c, size)
        /\ \A j \in 1 .. Len(f) : j # i => e[j] = f[j]
    BY ONLY <2>2, ExceptSeq
  <2>4. Range(e) = (Range(f) \ {c}) \cup {High(c, size)}
    BY ONLY <2>2, RangeOfExcept
  <2>5. r.h = [h EXCEPT !.free = e] /\ r.c = Low(c, size)
    BY <1>1, <1>5 DEF TakeFree, Heaps, r, f, Low, High
  <2> HIDE DEF e
  <2>6. Sorted(e)
    <3> SUFFICES ASSUME NEW k \in 1 .. Len(f), NEW j \in 1 .. Len(f), k < j
                 PROVE  After(e[k]) < e[j].addr
      BY <2>3 DEF Sorted
    <3>1. After(f[k]) < f[j].addr /\ f[j].addr \in Nat /\ After(f[k]) \in Nat
      BY <1>1, ChunkFacts DEF Sorted, ListOK
    <3>2. After(e[k]) = After(f[k])
      BY <2>1, <2>3
    <3>3. e[j].addr = f[j].addr \/ (j = i /\ e[j].addr = f[j].addr + size)
      BY <2>1, <2>3
    <3> QED
      BY <3>1, <3>2, <3>3
  <2>7. Swap(h, L, {}, {c}, {Low(c, size)}, {High(c, size)}, e, L \cup {Low(c, size)})
    <3>1. \A a, b \in {Low(c, size)} \cup {High(c, size)} : a # b => Clear(a, b)
      BY <2>1
    <3>2. \A x \in Nat : (\E d \in {} \cup {c} : Within(x, d))
                           <=> (\E d \in {Low(c, size)} \cup {High(c, size)} : Within(x, d))
      BY <2>1
    <3>3. Range(e) = (Range(h.free) \ {c}) \cup {High(c, size)} /\ {c} \subseteq Range(h.free)
      BY <1>1, <2>4 DEF f
    <3> HIDE DEF c
    <3> QED
      BY <2>1, <2>3, <3>1, <3>2, <3>3 DEF Swap
  <2>8. Whole([h EXCEPT !.free = e], L \cup {Low(c, size)})
    BY ONLY <1>1, <2>7, Exchange
  <2>9. [h EXCEPT !.free = e].free = e
    BY <1>1 DEF Heaps
  <2>10. Low(c, size) \notin L
    BY <1>4, <2>1
  <2> QED
    BY <2>1, <2>5, <2>6, <2>8, <2>9, <2>10 DEF Good, r
<1>6. CASE ~(c.size - size >= 16)
  <2> DEFINE e == RemoveAt(f, i)
  <2>1. r.h = [h EXCEPT !.free = e] /\ r.c = c
    BY <1>1, <1>6 DEF TakeFree, Heaps, r, f
  <2>2. f \in Seq(Chunks) /\ i \in 1 .. Len(f) /\ Distinct(f)
    BY <1>1, <1>3 DEF f
  <2>3. /\ e \in Seq(Chunks) /\ Len(e) = Len(f) - 1
        /\ \A j \in 1 .. Len(f) - 1 : j < i => e[j] = f[j]
        /\ \A j \in 1 .. Len(f) - 1 : i <= j => e[j] = f[j + 1]
    BY ONLY <2>2, RemoveAtFacts
  <2>4. Range(e) = Range(f) \ {c}
    BY ONLY <2>2, RangeOfRemove
  <2> HIDE DEF e
  <2>5. Sorted(e)
    <3> SUFFICES ASSUME NEW k \in 1 .. Len(f) - 1, NEW j \in 1 .. Len(f) - 1, k < j
                 PROVE  After(e[k]) < e[j].addr
      BY <2>3 DEF Sorted
    <3>1. k \in 1 .. Len(f) /\ k + 1 \in 1 .. Len(f) /\ j \in 1 .. Len(f) /\ j + 1 \in 1 .. Len(f)
            /\ k < j + 1 /\ k + 1 < j + 1
      BY <1>3
    <3>2. (j < i => k < i) /\ (k < i \/ i <= k) /\ (j < i \/ i <= j)
      BY <1>3, <2>2
    <3>3. (k < i => e[k] = f[k]) /\ (i <= k => e[k] = f[k + 1])
            /\ (j < i => e[j] = f[j]) /\ (i <= j => e[j] = f[j + 1])
      BY <2>3
    <3>4. After(f[k]) < f[j].addr /\ After(f[k]) < f[j + 1].addr /\ After(f[k + 1]) < f[j + 1].addr
      BY <1>1, <3>1 DEF Sorted
    <3> QED
      BY <3>2, <3>3, <3>4
  <2>6. Swap(h, L, {}, {c}, {c}, {}, e, L \cup {c})
    <3>1. Range(e) = (Range(h.free) \ {c}) \cup {} /\ {c} \subseteq Range(h.free)
      BY <1>1, <2>4 DEF f
    <3> HIDE DEF c
    <3> QED
      BY <1>1, <2>3, <3>1 DEF Swap
  <2>7. Whole([h EXCEPT !.free = e], L \cup {c})
    BY ONLY <1>1, <2>6, Exchange
  <2>8. [h EXCEPT !.free = e].free = e
    BY <1>1 DEF Heaps
  <2> QED
    BY <1>1, <2>1, <2>5, <2>7, <2>8 DEF Good, r, f
<1> QED
  BY <1>5, <1>6

\* The larger of two numbers.
LEMMA MaxFacts ==
  ASSUME NEW a \in Int, NEW b \in Int
  PROVE  Max({a, b}) = IF a >= b THEN a ELSE b
BY DEF Max

\* A number below the modulus is its own remainder.
LEMMA ModSmall ==
  ASSUME NEW u \in Nat, NEW m \in Nat, u < m
  PROVE  u % m = u
OBVIOUS

\* No size a request that is let through comes to wraps round.
LEMMA ChunkSizeFacts ==
  ASSUME NEW req \in Nat, req <= AllocMax
  PROVE  /\ ChunkSize(req) \in Nat /\ ChunkSize(req) % 16 = 0
         /\ 16 <= ChunkSize(req) /\ req + 4 <= ChunkSize(req) /\ ChunkSize(req) <= req + 19
<1> USE HeapAssumption DEF HeapAssumption
<1> DEFINE u == ((req + 19) \div 16) * 16
<1>1. u \in Nat /\ req + 4 <= u /\ u <= req + 19 /\ u % 16 = 0
  OBVIOUS
<1>2. SizeMax \in Nat /\ req + 36 <= SizeMax
  BY DEF AllocMax
<1>3. AlignUp(req + HeadSize, ChunkAlign) = u
  BY DEF AlignUp
<1> HIDE DEF u
<1>4. u % (SizeMax + 1) = u
  <2>1. SizeMax + 1 \in Nat /\ u < SizeMax + 1
    BY <1>1, <1>2
  <2> QED
    BY <1>1, <2>1, ModSmall
<1>5. ChunkSize(req) = Max({16, u})
  BY <1>3, <1>4 DEF ChunkSize
<1>6. ChunkSize(req) = IF 16 >= u THEN 16 ELSE u
  BY <1>1, <1>5, MaxFacts
<1>7. CASE 16 >= u
  BY <1>1, <1>6, <1>7
<1>8. CASE ~(16 >= u)
  BY <1>1, <1>6, <1>8
<1> QED
  BY <1>7, <1>8

\* Two chunks a program holds that border on each other, put together.
LEMMA JoinGood ==
  ASSUME NEW h, NEW L, Good(h, L), NEW c \in L, NEW d \in L, After(c) = d.addr
  PROVE  Good(h, (L \ {c, d}) \cup {Join(c, d)})
<1>1. Whole(h, L) /\ Sorted(h.free) /\ h \in Heaps /\ ChunkOK(c) /\ ChunkOK(d) /\ h.free \in Seq(Chunks)
  BY WholeFacts DEF Good
<1>2. ChunkOK(Join(c, d)) /\ \A x \in Nat : Within(x, Join(c, d)) <=> Within(x, c) \/ Within(x, d)
  BY <1>1, JoinFacts
<1> DEFINE M == (L \ {c, d}) \cup {Join(c, d)}
<1>3. Swap(h, L, {c, d}, {}, {Join(c, d)}, {}, h.free, M)
  <2>1. \A x \in Nat : (\E e \in {c, d} \cup {} : Within(x, e))
                         <=> (\E e \in {Join(c, d)} \cup {} : Within(x, e))
    BY <1>2
  <2> QED
    BY <1>1, <1>2, <2>1 DEF Swap
<1> HIDE DEF M
<1>4. Whole([h EXCEPT !.free = h.free], M)
  BY <1>1, <1>3, Exchange
<1>5. [h EXCEPT !.free = h.free] = h
  BY <1>1 DEF Heaps
<1> QED
  BY <1>1, <1>4, <1>5 DEF Good, M

\* What grow_chunk does with what sbrk gives it.
LEMMA GrownGood ==
  ASSUME NEW h, NEW L, Good(h, L), NEW add \in Nat, add % 16 = 0, 16 <= add, NEW end \in Nat
  PROVE  LET r == Grown(SbrkAligned(h, add), end, add)
             c == [addr |-> end + 4, size |-> add]
         IN  \/ r.ok = FALSE /\ Good(r.h, L)
             \/ r.ok = TRUE /\ Good(r.h, L \cup {c}) /\ c \notin L /\ (end + 4) % 16 = 0
<1> DEFINE got == SbrkAligned(h, add)
           new == [addr |-> got.at + 4, size |-> add]
           r == Grown(got, end, add)
<1>1. \/ got.at = Fail /\ Good(got.h, L)
      \/ /\ got.at \in Nat /\ (got.at + 4) % 16 = 0 /\ Good(got.h, L \cup {new}) /\ new \notin L
  BY SbrkAlignedGood
<1>2. r.ok = (got.at = end)
      /\ r.h = IF got.at \in {end, Fail} THEN got.h ELSE FreeChunk(got.h, new)
  BY DEF Grown
<1>3. end # Fail
  BY DEF Fail
<1> HIDE DEF got, r
<1>4. CASE got.at = Fail /\ Good(got.h, L)
  BY <1>2, <1>3, <1>4 DEF r, got
<1>5. CASE /\ got.at \in Nat /\ (got.at + 4) % 16 = 0 /\ Good(got.h, L \cup {new}) /\ new \notin L
  <2>1. CASE got.at = end
    BY <1>2, <1>5, <2>1 DEF r, got
  <2>2. CASE got.at # end
    <3>1. got.at # Fail
      BY <1>5 DEF Fail
    <3>2. r.ok = FALSE /\ r.h = FreeChunk(got.h, new)
      BY <1>2, <2>2, <3>1
    <3> HIDE DEF new
    <3>3. Good(FreeChunk(got.h, new), (L \cup {new}) \ {new})
      BY <1>5, FreeChunkGood
    <3>4. (L \cup {new}) \ {new} = L
      BY <1>5
    <3> QED
      BY <3>2, <3>3, <3>4 DEF r, got
  <2> QED
    BY <2>1, <2>2
<1> QED
  BY <1>1, <1>4, <1>5

\* The last chunk of the list is never grown: its end is misread by one.
LEMMA GrowFreeGood ==
  ASSUME NEW h, NEW L, Good(h, L), NEW c, ChunkOK(c),
         NEW size \in Nat, size % 16 = 0, c.size < size
  PROVE  LET r == GrowChunk(h, c, TRUE, size) IN r.ok = FALSE /\ Good(r.h, L)
<1> DEFINE end == ChunkEnd(c, TRUE)
           add == Max({ChunkMin, size - c.size})
           r == GrowChunk(h, c, TRUE, size)
<1>1. c.addr \in Nat /\ c.size \in Nat /\ 16 <= c.addr /\ c.addr % 16 = 0 /\ c.size % 16 = 0
  BY ChunkFacts
<1>2. end = c.addr - 4 + c.size + 1 /\ end \in Nat /\ (end + 4) % 16 # 0
  BY <1>1 DEF ChunkEnd, Blob
<1>3. add \in Nat /\ add % 16 = 0 /\ 16 <= add
  <2>1. add = IF 16 >= size - c.size THEN 16 ELSE size - c.size
    BY <1>1, MaxFacts
  <2>2. size - c.size \in Nat /\ (size - c.size) % 16 = 0 /\ 16 % 16 = 0
    BY <1>1
  <2>3. CASE 16 >= size - c.size
    BY <2>1, <2>2, <2>3
  <2>4. CASE ~(16 >= size - c.size)
    BY <2>1, <2>2, <2>4
  <2> QED
    BY <2>3, <2>4
<1>4. r = IF end # h.top THEN [ok |-> FALSE, h |-> h] ELSE Grown(SbrkAligned(h, add), end, add)
  BY DEF GrowChunk
<1> HIDE DEF end, add, r
<1>5. r.ok = FALSE /\ Good(r.h, L)
  <2>1. CASE end # h.top
    BY <1>4, <2>1
  <2>2. CASE end = h.top
    <3>1. r = Grown(SbrkAligned(h, add), end, add)
      BY <1>4, <2>2
    <3> DEFINE g == Grown(SbrkAligned(h, add), end, add)
    <3>2. Good(h, L) /\ end \in Nat
      BY <1>2
    <3>3. \/ g.ok = FALSE /\ Good(g.h, L)
          \/ g.ok = TRUE /\ (end + 4) % 16 = 0
      BY ONLY <1>3, <3>2, GrownGood
    <3> HIDE DEF g
    <3>4. g.ok = FALSE /\ Good(g.h, L)
      BY <1>2, <3>3, Zenon
    <3> QED
      BY <3>1, <3>4 DEF g
  <2> QED
    BY <2>1, <2>2
<1> QED
  BY <1>5, Zenon DEF r

\* A chunk a program holds is grown in place, or the heap is right without.
LEMMA GrowHeldGood ==
  ASSUME NEW h, NEW L, Good(h, L), NEW c \in L, NEW size \in Nat, size % 16 = 0, c.size < size
  PROVE  LET r == GrowChunk(h, c, FALSE, size)
         IN  \/ r.ok = FALSE /\ Good(r.h, L)
             \/ r.ok = TRUE /\ Good(r.h, (L \ {c}) \cup {[addr |-> c.addr, size |-> size]})
<1> DEFINE end == ChunkEnd(c, FALSE)
           add == Max({ChunkMin, size - c.size})
           r == GrowChunk(h, c, FALSE, size)
           new == [addr |-> end + 4, size |-> add]
<1>1. ChunkOK(c) /\ c.addr \in Nat /\ c.size \in Nat /\ 16 <= c.addr /\ c.addr % 16 = 0 /\ c.size % 16 = 0
        /\ After(c) = c.addr + c.size
  BY ChunkFacts, WholeFacts DEF Good
<1>2. end = c.addr - 4 + c.size /\ end \in Nat
  BY <1>1 DEF ChunkEnd, Blob
<1>3. add = size - c.size /\ add \in Nat /\ add % 16 = 0 /\ 16 <= add
  <2>1. add = IF 16 >= size - c.size THEN 16 ELSE size - c.size
    BY <1>1, MaxFacts
  <2>2. 16 <= size - c.size
    BY <1>1
  <2> QED
    BY <1>1, <2>1, <2>2
<1>4. r = IF end # h.top THEN [ok |-> FALSE, h |-> h] ELSE Grown(SbrkAligned(h, add), end, add)
  BY DEF GrowChunk
<1>5. new.addr = After(c) /\ Join(c, new) = [addr |-> c.addr, size |-> size]
  <2> HIDE DEF end, add
  <2>1. end + 4 = c.addr + c.size /\ c.size + add = size
    BY <1>1, <1>2, <1>3
  <2> QED
    BY <1>1, <2>1 DEF Join
<1> HIDE DEF end, add, r
<1> DEFINE Post == \/ r.ok = FALSE /\ Good(r.h, L)
                   \/ r.ok = TRUE /\ Good(r.h, (L \ {c}) \cup {[addr |-> c.addr, size |-> size]})
<1>6. ASSUME end # h.top PROVE Post
  BY <1>4, <1>6
<1>7. ASSUME end = h.top PROVE Post
  <2>1. \/ r.ok = FALSE /\ Good(r.h, L)
        \/ r.ok = TRUE /\ Good(r.h, L \cup {new}) /\ new \notin L
    BY <1>2, <1>3, <1>4, <1>7, GrownGood
  <2>2. CASE r.ok = FALSE /\ Good(r.h, L)
    BY <2>2
  <2>3. CASE r.ok = TRUE /\ Good(r.h, L \cup {new}) /\ new \notin L
    <3> HIDE DEF new
    <3>1. c \in L \cup {new} /\ new \in L \cup {new} /\ After(c) = new.addr
      BY <1>5
    <3>2. Good(r.h, ((L \cup {new}) \ {c, new}) \cup {Join(c, new)})
      BY <2>3, <3>1, JoinGood
    <3>3. ((L \cup {new}) \ {c, new}) \cup {Join(c, new)} = (L \ {c}) \cup {Join(c, new)}
      BY <2>3
    <3> QED
      BY <1>5, <2>3, <3>2, <3>3
  <2> QED
    BY <2>1, <2>2, <2>3
<1> QED
  BY <1>6, <1>7, Zenon DEF r

\* A call that gets a chunk of a size at least, or none.
Took(r, L, size) ==
  \/ r.c = NoChunk /\ Good(r.h, L)
  \/ /\ r.c # NoChunk /\ r.c \notin L /\ size <= r.c.size
     /\ Good(r.h, L \cup {r.c})

\* A program's chunk is a chunk, so it is not NULL.
LEMMA GoodChunks ==
  ASSUME NEW h, NEW L, Good(h, L), NEW c \in L
  PROVE  ChunkOK(c) /\ c # NoChunk
<1>1. ChunkOK(c)
  BY WholeFacts DEF Good
<1>2. 16 <= c.addr /\ NoChunk.addr = 0
  BY <1>1, ChunkFacts DEF NoChunk, Null
<1> QED
  BY <1>1, <1>2

\* malloc with a chunk from sbrk.
LEMMA TakeNewGood ==
  ASSUME NEW h, NEW L, Good(h, L), NEW size \in Nat, size % 16 = 0, 16 <= size
  PROVE  Took(TakeNew(SbrkAligned(h, size), size), L, size)
<1> DEFINE got == SbrkAligned(h, size)
           new == [addr |-> got.at + 4, size |-> size]
           r == TakeNew(got, size)
<1>1. \/ got.at = Fail /\ Good(got.h, L)
      \/ got.at \in Nat /\ Good(got.h, L \cup {new}) /\ new \notin L
  BY SbrkAlignedGood
<1>2. r.h = got.h /\ r.c = IF got.at = Fail THEN NoChunk ELSE new
  BY DEF TakeNew
<1> HIDE DEF got, r
<1>3. CASE got.at = Fail /\ Good(got.h, L)
  <2>1. Took(r, L, size)
    BY <1>2, <1>3 DEF Took
  <2> QED
    BY <2>1 DEF r, got
<1>4. CASE got.at \in Nat /\ Good(got.h, L \cup {new}) /\ new \notin L
  <2>1. got.at # Fail
    BY <1>4 DEF Fail
  <2>2. r.c = new /\ r.c.size = size
    BY <1>2, <2>1
  <2>3. new # NoChunk
    BY <1>4, GoodChunks
  <2>4. L \cup {r.c} = L \cup {new} /\ size <= size
    BY <2>2
  <2> HIDE DEF new
  <2>5. Took(r, L, size)
    BY <1>2, <1>4, <2>2, <2>3, <2>4 DEF Took
  <2> QED
    BY <2>5 DEF r, got
<1> QED
  BY <1>1, <1>3, <1>4

\* malloc after it has tried to grow the last free chunk, which never works.
LEMMA TakeLastGood ==
  ASSUME NEW h, NEW L, Good(h, L), NEW c, ChunkOK(c),
         NEW size \in Nat, size % 16 = 0, 16 <= size, c.size < size
  PROVE  Took(TakeLast(GrowChunk(h, c, TRUE, size), c, size), L, size)
<1>1. \A g : g.ok = FALSE => TakeLast(g, c, size) = TakeNew(SbrkAligned(g.h, size), size)
  BY DEF TakeLast
<1>2. \A g : g.ok = FALSE /\ Good(g.h, L) => Took(TakeLast(g, c, size), L, size)
  BY <1>1, TakeNewGood
<1>3. GrowChunk(h, c, TRUE, size).ok = FALSE /\ Good(GrowChunk(h, c, TRUE, size).h, L)
  BY GrowFreeGood, Zenon
<1> QED
  BY <1>2, <1>3, Zenon

\* The first chunk that fits, if there is one.
FirstFit(f, size) ==
  LET I == {j \in 1 .. Len(f) : f[j].size >= size} IN IF I # {} THEN Min(I) ELSE 0

\* The first chunk of the list that is large enough.
LEMMA FitFacts ==
  ASSUME NEW f \in Seq(Chunks), NEW size
  PROVE  LET i == FirstFit(f, size)
         IN  \/ i = 0 /\ \A j \in 1 .. Len(f) : ~(f[j].size >= size)
             \/ i # 0 /\ i \in 1 .. Len(f) /\ f[i].size >= size
<1> DEFINE I == {j \in 1 .. Len(f) : f[j].size >= size}
           i == FirstFit(f, size)
<1>1. Len(f) \in Nat
  BY LenProperties
<1>2. i = IF I # {} THEN Min(I) ELSE 0
  BY DEF FirstFit
<1> HIDE DEF i
<1>3. CASE I = {}
  BY <1>2, <1>3 DEF i
<1>4. CASE I # {}
  <2>1. I \subseteq Nat
    BY <1>1
  <2>2. Min(I) \in I
    BY <1>4, <2>1, MinFacts
  <2>3. i \in 1 .. Len(f) /\ f[i].size >= size
    BY <1>2, <1>4, <2>2
  <2> QED
    BY <1>1, <2>3 DEF i
<1> QED
  BY <1>3, <1>4

\* malloc for a size that is a chunk's.
LEMMA TakeGood ==
  ASSUME NEW h, NEW L, Good(h, L), NEW size \in Nat, size % 16 = 0, 16 <= size
  PROVE  Took(Take(h, size), L, size)
<1> DEFINE i == FirstFit(h.free, size)
<1>1. h.free \in Seq(Chunks) /\ ListOK(h.free)
  BY WholeFacts DEF Good
<1>2. \/ i = 0 /\ \A j \in 1 .. Len(h.free) : ~(h.free[j].size >= size)
      \/ i # 0 /\ i \in 1 .. Len(h.free) /\ h.free[i].size >= size
  BY <1>1, FitFacts
<1>3. Take(h, size) = IF i # 0 THEN TakeFree(h, i, size)
                      ELSE IF h.free = <<>> THEN TakeNew(SbrkAligned(h, size), size)
                      ELSE TakeLast(GrowChunk(h, Last(h.free), TRUE, size), Last(h.free), size)
  BY DEF Take, SelectInSeq, FirstFit
<1> HIDE DEF i
<1>4. CASE i # 0 /\ i \in 1 .. Len(h.free) /\ h.free[i].size >= size
  <2>1. h.free[i].size \in Nat
    BY <1>1, <1>4, ChunkFacts DEF ListOK
  <2>2. size <= h.free[i].size
    BY <1>4, <2>1
  <2> DEFINE r == TakeFree(h, i, size)
  <2>3. Good(r.h, L \cup {r.c}) /\ r.c \notin L /\ size <= r.c.size
    BY <1>4, <2>2, TakeFreeGood
  <2> HIDE DEF r
  <2>4. r.c # NoChunk
    BY <2>3, GoodChunks
  <2>5. Took(r, L, size)
    BY <2>3, <2>4 DEF Took
  <2> QED
    BY <1>3, <1>4, <2>5 DEF r
<1>5. CASE i = 0 /\ \A j \in 1 .. Len(h.free) : ~(h.free[j].size >= size)
  <2>1. CASE h.free = <<>>
    BY <1>3, <1>5, <2>1, TakeNewGood
  <2>2. CASE h.free # <<>>
    <3> DEFINE c == Last(h.free)
    <3>1. Len(h.free) \in 1 .. Len(h.free)
      BY <1>1, <2>2, EmptySeq
    <3>2. ChunkOK(c) /\ c.size \in Nat /\ ~(c.size >= size)
      BY <1>1, <1>5, <3>1, ChunkFacts DEF Last, ListOK
    <3>3. c.size < size
      BY <3>2
    <3>4. Take(h, size) = TakeLast(GrowChunk(h, c, TRUE, size), c, size)
      BY <1>3, <1>5, <2>2, Zenon
    <3> HIDE DEF c
    <3>5. Took(TakeLast(GrowChunk(h, c, TRUE, size), c, size), L, size)
      BY <3>2, <3>3, TakeLastGood, Zenon
    <3> QED
      BY <3>4, <3>5, Zenon
  <2> QED
    BY <2>1, <2>2
<1> QED
  BY <1>2, <1>4, <1>5

\* malloc for any size: NULL, or a chunk of its own with room for it.
LEMMA MallocGood ==
  ASSUME NEW h, NEW L, Good(h, L), NEW req \in Nat
  PROVE  Took(Malloc(h, req), L, req + 4)
<1> USE HeapAssumption DEF HeapAssumption
<1>1. AllocMax \in Int
  BY DEF AllocMax
<1> DEFINE r == Malloc(h, req)
<1>2. CASE req > AllocMax
  <2>1. r.h = h /\ r.c = NoChunk
    BY <1>2 DEF Malloc
  <2> QED
    BY <2>1 DEF Took
<1>3. CASE ~(req > AllocMax)
  <2>1. /\ ChunkSize(req) \in Nat /\ ChunkSize(req) % 16 = 0
        /\ 16 <= ChunkSize(req) /\ req + 4 <= ChunkSize(req)
    BY <1>1, <1>3, ChunkSizeFacts
  <2>2. r = Take(h, ChunkSize(req))
    BY <1>3 DEF Malloc
  <2>3. Took(r, L, ChunkSize(req))
    BY <2>1, <2>2, TakeGood
  <2> HIDE DEF r
  <2>4. r.c # NoChunk => r.c.size \in Nat
    BY <2>3, GoodChunks, ChunkFacts DEF Took
  <2>5. Took(r, L, req + 4)
    BY <2>1, <2>3, <2>4 DEF Took
  <2> QED
    BY <2>5 DEF r
<1> QED
  BY <1>2, <1>3

-----------------------------------------------------------------------------
(* realloc.                                                                *)

\* No two chunks have one address.
LEMMA HeldApart ==
  ASSUME NEW h, NEW L, Good(h, L), NEW c \in L, NEW d \in L, c.addr = d.addr
  PROVE  c = d
<1>1. ChunkOK(c) /\ ChunkOK(d) /\ (c # d => Clear(c, d))
  BY WholeFacts DEF Good
<1>2. c.addr \in Nat /\ After(c) > c.addr /\ After(c) \in Nat /\ After(d) > d.addr /\ After(d) \in Nat
  BY <1>1, ChunkFacts
<1> QED
  BY <1>1, <1>2 DEF Clear

\* What is left over of a chunk is freed.
LEMMA CutGood ==
  ASSUME NEW h, NEW L, Good(h, L), NEW c \in L,
         NEW size \in Nat, size % 16 = 0, 16 <= size, size <= c.size
  PROVE  LET r == Cut(h, c, size)
         IN  /\ Good(r.h, (L \ {c}) \cup {r.c}) /\ r.c \notin L \ {c}
             /\ size <= r.c.size /\ r.c.addr = c.addr
<1> DEFINE r == Cut(h, c, size)
           lo == Low(c, size)
           hi == High(c, size)
           M == (L \ {c}) \cup {lo, hi}
<1>1. ChunkOK(c) /\ c.addr \in Nat /\ c.size \in Nat /\ c \in Chunks
  BY WholeFacts, ChunkFacts DEF Good
<1>2. CASE c.size - size >= 16
  <2>1. 16 <= c.size - size
    BY <1>1, <1>2
  <2>2. Good(h, M) /\ lo \notin L \ {c} /\ hi \notin L \ {c}
    BY <2>1, SplitGood
  <2>3. lo # hi /\ lo.addr = c.addr /\ lo.size = size
    BY <1>1, <2>1, SplitFacts
  <2>4. r.h = FreeChunk(h, hi) /\ r.c = lo
    BY <1>1, <1>2 DEF Cut, Low, High, Chunks
  <2> HIDE DEF lo, hi, r
  <2>5. Good(FreeChunk(h, hi), M \ {hi})
    <3>1. hi \in M
      OBVIOUS
    <3> HIDE DEF M
    <3> QED
      BY <2>2, <3>1, FreeChunkGood
  <2>6. M \ {hi} = (L \ {c}) \cup {r.c}
    BY <2>2, <2>3, <2>4
  <2>7. Good(r.h, (L \ {c}) \cup {r.c}) /\ r.c \notin L \ {c} /\ size <= r.c.size /\ r.c.addr = c.addr
    BY <2>2, <2>3, <2>4, <2>5, <2>6
  <2> QED
    BY <2>7 DEF r
<1>3. CASE ~(c.size - size >= 16)
  <2>1. r.h = h /\ r.c = c
    BY <1>3 DEF Cut
  <2>2. (L \ {c}) \cup {c} = L
    OBVIOUS
  <2> HIDE DEF r
  <2>3. (L \ {c}) \cup {r.c} = L
    BY <2>1, <2>2
  <2>4. Good(r.h, (L \ {c}) \cup {r.c}) /\ r.c \notin L \ {c} /\ size <= r.c.size /\ r.c.addr = c.addr
    BY <2>1, <2>3
  <2> QED
    BY <2>4 DEF r
<1> QED
  BY <1>2, <1>3

\* No chunk is ever merged: a header is never at an address of a payload.
LEMMA MergeNextNever ==
  ASSUME NEW h, NEW L, Good(h, L), NEW c, ChunkOK(c)
  PROVE  MergeNext(h, c) = [h |-> h, size |-> c.size]
<1> DEFINE end == Blob(c) + c.size
           I == {j \in 1 .. Len(h.free) : h.free[j].addr = end \/ c.addr < h.free[j].addr}
           i == IF I # {} THEN Min(I) ELSE 0
<1>1. h.free \in Seq(Chunks) /\ ListOK(h.free) /\ Len(h.free) \in Nat
  BY WholeFacts, LenProperties DEF Good
<1>2. MergeNext(h, c) = IF i # 0 /\ h.free[i].addr = end
                        THEN [h |-> [h EXCEPT !.free = RemoveAt(@, i)], size |-> c.size + h.free[i].size]
                        ELSE [h |-> h, size |-> c.size]
  <2>1. ChunkEnd(c, FALSE) = end
    BY ChunkFacts DEF ChunkEnd, Blob
  <2> QED
    BY <2>1 DEF MergeNext, SelectInSeq
<1>3. end % 16 = 12
  BY ChunkFacts DEF Blob
<1>4. i # 0 => h.free[i].addr # end
  <2>1. CASE I = {}
    BY <2>1
  <2>2. CASE I # {}
    <3>1. I \subseteq Nat
      BY <1>1
    <3>2. Min(I) \in I
      BY <2>2, <3>1, MinFacts
    <3>3. h.free[Min(I)].addr % 16 = 0
      BY <1>1, <3>2, ChunkFacts DEF ListOK
    <3>4. i = Min(I)
      BY <2>2
    <3> HIDE DEF i, I, end
    <3> QED
      BY <1>3, <3>3, <3>4
  <2> QED
    BY <2>1, <2>2
<1> HIDE DEF i, end
<1> QED
  BY <1>2, <1>4

\* realloc in place: the chunk has the size it had, or the one asked for.
LEMMA RoomGood ==
  ASSUME NEW h, NEW L, Good(h, L), NEW c \in L, NEW size \in Nat, size % 16 = 0
  PROVE  LET r == Room(h, c, size)
         IN  \/ r.size = c.size /\ Good(r.h, L)
             \/ r.size = size /\ Good(r.h, (L \ {c}) \cup {[addr |-> c.addr, size |-> size]})
<1> DEFINE g == GrowChunk(h, c, FALSE, size)
           r == Room(h, c, size)
           Post == \/ r.size = c.size /\ Good(r.h, L)
                   \/ r.size = size /\ Good(r.h, (L \ {c}) \cup {[addr |-> c.addr, size |-> size]})
<1>1. ChunkOK(c) /\ c.size \in Nat
  BY WholeFacts, ChunkFacts DEF Good
<1>2. r = IF size <= c.size THEN [h |-> h, size |-> c.size]
          ELSE IF g.ok THEN [h |-> g.h, size |-> size] ELSE MergeNext(g.h, c)
  BY Zenon DEF Room
<1>3. c.size < size =>
        \/ g.ok = FALSE /\ Good(g.h, L)
        \/ g.ok = TRUE /\ Good(g.h, (L \ {c}) \cup {[addr |-> c.addr, size |-> size]})
  BY GrowHeldGood, Zenon
<1> HIDE DEF g, r
<1>4. ASSUME size <= c.size PROVE Post
  BY <1>2, <1>4
<1>5. ASSUME ~(size <= c.size) PROVE Post
  <2>1. c.size < size
    BY <1>1, <1>5
  <2>2. CASE g.ok = FALSE /\ Good(g.h, L)
    <3>1. MergeNext(g.h, c) = [h |-> g.h, size |-> c.size]
      BY <1>1, <2>2, MergeNextNever
    <3>2. r = [h |-> g.h, size |-> c.size]
      BY <1>2, <1>5, <2>2, <3>1
    <3> QED
      BY <2>2, <3>2
  <2>3. CASE g.ok = TRUE /\ Good(g.h, (L \ {c}) \cup {[addr |-> c.addr, size |-> size]})
    <3>1. r = [h |-> g.h, size |-> size]
      BY <1>2, <1>5, <2>3
    <3> QED
      BY <2>3, <3>1
  <2> QED
    BY <1>3, <2>1, <2>2, <2>3
<1>6. Post
  BY <1>4, <1>5
<1> QED
  BY <1>6 DEF r

\* What realloc comes to: as it was, or another chunk instead of c.
Moves(r, L, c, size) ==
  \/ r.ok = FALSE /\ r.c = c /\ Good(r.h, L)
  \/ /\ r.ok = TRUE /\ r.c \notin L \ {c} /\ size <= r.c.size
     /\ Good(r.h, (L \ {c}) \cup {r.c})

\* realloc elsewhere: a new chunk for the old, or the old one kept.
LEMMA MovedGood ==
  ASSUME NEW new, NEW L, NEW size, Took(new, L, size), NEW c \in L
  PROVE  Moves(Moved(new, c), L, c, size)
<1> DEFINE r == Moved(new, c)
<1>1. CASE new.c = NoChunk /\ Good(new.h, L)
  <2>1. r.ok = FALSE /\ r.c = c /\ r.h = new.h
    BY <1>1 DEF Moved
  <2> HIDE DEF r
  <2>2. Moves(r, L, c, size)
    BY <1>1, <2>1 DEF Moves
  <2> QED
    BY <2>2 DEF r
<1>2. CASE /\ new.c # NoChunk /\ new.c \notin L /\ size <= new.c.size
           /\ Good(new.h, L \cup {new.c})
  <2>1. r.ok = TRUE /\ r.c = new.c /\ r.h = FreeChunk(new.h, c)
    BY <1>2 DEF Moved
  <2>2. Good(FreeChunk(new.h, c), (L \cup {new.c}) \ {c})
    BY <1>2, FreeChunkGood
  <2>3. (L \cup {new.c}) \ {c} = (L \ {c}) \cup {new.c}
    BY <1>2
  <2> HIDE DEF r
  <2>4. (L \cup {new.c}) \ {c} = (L \ {c}) \cup {r.c}
    BY <2>1, <2>3
  <2>5. Moves(r, L, c, size)
    BY <1>2, <2>1, <2>2, <2>4 DEF Moves
  <2> QED
    BY <2>5 DEF r
<1> QED
  BY <1>1, <1>2 DEF Took

\* realloc for any size.
LEMMA ReallocGood ==
  ASSUME NEW h, NEW L, Good(h, L), NEW c \in L, NEW req \in Nat
  PROVE  Moves(Realloc(h, c, req), L, c, req + 4)
<1> USE HeapAssumption DEF HeapAssumption
<1>1. AllocMax \in Int
  BY DEF AllocMax
<1> DEFINE r == Realloc(h, c, req)
           size == ChunkSize(req)
           room == Room(h, c, size)
           e == [addr |-> c.addr, size |-> room.size]
<1>2. ChunkOK(c) /\ c \in Chunks /\ c.size \in Nat
  BY WholeFacts, ChunkFacts DEF Good
<1>3. CASE req > AllocMax
  <2>1. r.ok = FALSE /\ r.c = c /\ r.h = h
    BY <1>3 DEF Realloc
  <2> HIDE DEF r
  <2>2. Moves(r, L, c, req + 4)
    BY <2>1 DEF Moves
  <2> QED
    BY <2>2 DEF r
<1>4. CASE ~(req > AllocMax)
  <2>1. size \in Nat /\ size % 16 = 0 /\ 16 <= size /\ req + 4 <= size
    BY <1>1, <1>4, ChunkSizeFacts
  <2>2. r = IF size <= e.size THEN InPlace(Cut(room.h, e, size)) ELSE Moved(Malloc(room.h, req), e)
    BY <1>4 DEF Realloc, Resized
  <2> HIDE DEF size
  <2>3. \/ room.size = c.size /\ Good(room.h, L)
        \/ room.size = size /\ Good(room.h, (L \ {c}) \cup {[addr |-> c.addr, size |-> size]})
    BY <2>1, RoomGood
  <2> HIDE DEF room, r
  <2>4. CASE room.size = c.size /\ Good(room.h, L)
    <3>1. e = c
      BY <1>2, <2>4 DEF Chunks
    <3>2. CASE size <= c.size
      <4> DEFINE k == Cut(room.h, c, size)
      <4>1. /\ Good(k.h, (L \ {c}) \cup {k.c}) /\ k.c \notin L \ {c}
            /\ size <= k.c.size
        BY <2>1, <2>4, <3>2, CutGood
      <4> HIDE DEF k
      <4>2. r.ok = TRUE /\ r.c = k.c /\ r.h = k.h
        BY <2>2, <3>1, <3>2 DEF InPlace, k
      <4>3. (L \ {c}) \cup {k.c} = (L \ {c}) \cup {r.c}
        BY <4>2
      <4>4. k.c \in (L \ {c}) \cup {k.c}
        OBVIOUS
      <4>5. k.c.size \in Nat
        BY <4>1, <4>4, GoodChunks, ChunkFacts
      <4>6. req + 4 <= r.c.size
        BY <2>1, <4>1, <4>2, <4>5
      <4> QED
        BY <4>1, <4>2, <4>3, <4>6 DEF Moves, r
    <3>3. CASE ~(size <= c.size)
      <4>1. r = Moved(Malloc(room.h, req), c)
        BY <2>2, <3>1, <3>3
      <4>2. Took(Malloc(room.h, req), L, req + 4)
        BY <2>4, MallocGood
      <4> QED
        BY <4>1, <4>2, MovedGood DEF r
    <3> QED
      BY <3>2, <3>3
  <2>5. CASE room.size = size /\ Good(room.h, (L \ {c}) \cup {[addr |-> c.addr, size |-> size]})
    <3> DEFINE M == (L \ {c}) \cup {e}
               k == Cut(room.h, e, size)
    <3>1. Good(room.h, M) /\ e \in M /\ e.size = size /\ e.addr = c.addr
      BY <2>5
    <3> HIDE DEF e
    <3>2. e \notin L \ {c}
      BY <3>1, HeldApart
    <3>3. M \ {e} = L \ {c}
      BY <3>2
    <3> HIDE DEF M
    <3>4. size <= e.size
      BY <2>1, <3>1
    <3>5. Good(k.h, (M \ {e}) \cup {k.c}) /\ k.c \notin M \ {e} /\ size <= k.c.size
      BY <2>1, <3>1, <3>4, CutGood
    <3> HIDE DEF k
    <3>6. r.ok = TRUE /\ r.c = k.c /\ r.h = k.h
      BY <2>2, <3>4 DEF InPlace, k, e
    <3>7. k.c.size \in Nat
      <4>1. k.c \in (M \ {e}) \cup {k.c}
        OBVIOUS
      <4> QED
        BY <3>5, <4>1, GoodChunks, ChunkFacts
    <3>8. (M \ {e}) \cup {k.c} = (L \ {c}) \cup {r.c}
      BY <3>3, <3>6
    <3>9. req + 4 <= r.c.size
      BY <2>1, <3>5, <3>6, <3>7
    <3> QED
      BY <3>3, <3>5, <3>6, <3>8, <3>9 DEF Moves, r
  <2> QED
    BY <2>3, <2>4, <2>5
<1> QED
  BY <1>3, <1>4

-----------------------------------------------------------------------------
(* memalign.                                                               *)

\* An alignment divides into halves or keeps to that of a chunk.
LEMMA PowerFacts ==
  ASSUME NEW n \in Nat, PowerOf2(n)
  PROVE  n \in {0, 1, 2, 4, 8} \/ (n % 16 = 0 /\ 16 <= n)
<1>1. \A d \in Nat : 1 <= d /\ d <= n /\ n % d = 0 => d = 1 \/ d % 2 = 0
  BY DEF PowerOf2
<1>2. CASE n % 2 = 1
  <2>1. n % n = 0
    BY <1>2
  <2> QED
    BY <1>1, <1>2, <2>1
<1>3. CASE n % 4 = 2
  <2> DEFINE d == n \div 2
  <2>1. d \in Nat /\ n = 2 * d /\ d % 2 = 1
    BY <1>3
  <2> HIDE DEF d
  <2>2. n % d = 0 /\ 1 <= d /\ d <= n
    BY <2>1
  <2> QED
    BY <1>1, <2>1, <2>2
<1>4. CASE n % 8 = 4
  <2> DEFINE d == n \div 4
  <2>1. d \in Nat /\ n = 4 * d /\ d % 2 = 1
    BY <1>4
  <2> HIDE DEF d
  <2>2. n % d = 0 /\ 1 <= d /\ d <= n
    BY <2>1
  <2> QED
    BY <1>1, <2>1, <2>2
<1>5. CASE n % 16 = 8
  <2> DEFINE d == n \div 8
  <2>1. d \in Nat /\ n = 8 * d /\ d % 2 = 1
    BY <1>5
  <2> HIDE DEF d
  <2>2. n % d = 0 /\ 1 <= d /\ d <= n
    BY <2>1
  <2> QED
    BY <1>1, <2>1, <2>2
<1>6. CASE n % 16 = 0
  BY <1>6
<1>7. n % 2 = 1 \/ n % 4 = 2 \/ n % 8 = 4 \/ n % 16 = 8 \/ n % 16 = 0
  OBVIOUS
<1> QED
  BY <1>2, <1>3, <1>4, <1>5, <1>6, <1>7

\* Rounding up to a multiple.
LEMMA AlignUpFacts ==
  ASSUME NEW a \in Nat, NEW n \in Nat, 0 < n
  PROVE  /\ AlignUp(a, n) \in Nat /\ a <= AlignUp(a, n) /\ AlignUp(a, n) < a + n
         /\ AlignUp(a, n) % n = 0
         /\ n \in {4, 8} /\ a % 16 = 0 => AlignUp(a, n) = a
         /\ n % 16 = 0 => AlignUp(a, n) % 16 = 0
<1> DEFINE q == (a + n - 1) \div n
<1>1. q \in Nat /\ AlignUp(a, n) = q * n
  BY DEF AlignUp
<1>2. a <= q * n /\ q * n < a + n
  OBVIOUS
<1>3. n = 4 /\ a % 16 = 0 => q * n = a
  OBVIOUS
<1>4. n = 8 /\ a % 16 = 0 => q * n = a
  OBVIOUS
<1> HIDE DEF q
<1>5. (q * n) % n = 0 /\ q * n \in Nat
  BY <1>1
<1>6. ASSUME n % 16 = 0 PROVE (q * n) % 16 = 0
  <2>1. PICK m \in Nat : n = 16 * m
    BY <1>6
  <2> DEFINE k == q * m
  <2>2. k \in Nat /\ q * n = 16 * k
    BY <1>1, <2>1
  <2> HIDE DEF k
  <2> QED
    BY <2>2
<1> QED
  BY <1>1, <1>2, <1>3, <1>4, <1>5, <1>6

\* The front of a chunk, if there is one to free, is at least a chunk.
LEMMA PadFacts ==
  ASSUME NEW a \in Nat, a % 16 = 0, NEW align \in Nat,
         align \in {4, 8} \/ (align % 16 = 0 /\ 16 <= align)
  PROVE  LET pad == AlignUp(a, align) - a
         IN  /\ pad \in Nat /\ pad % 16 = 0 /\ pad < align
             /\ pad \notin 1 .. 15
             /\ (a + pad) % align = 0
<1> DEFINE up == AlignUp(a, align)
<1>1. 0 < align
  OBVIOUS
<1>2. up \in Nat /\ a <= up /\ up < a + align /\ up % align = 0 /\ up % 16 = 0
  <2>1. up \in Nat /\ a <= up /\ up < a + align /\ up % align = 0
    BY <1>1, AlignUpFacts
  <2>2. up % 16 = 0
    BY <1>1, AlignUpFacts
  <2> QED
    BY <2>1, <2>2
<1> HIDE DEF up
<1>3. up - a \in Nat /\ (up - a) % 16 = 0 /\ up - a < align /\ up - a \notin 1 .. 15
  BY <1>2
<1>4. a + (up - a) = up
  BY <1>2
<1> QED
  BY <1>2, <1>3, <1>4 DEF up

\* memalign frees the front of its chunk; the rest is aligned and large enough.
LEMMA FrontCutGood ==
  ASSUME NEW h, NEW L, Good(h, L), NEW c \in L, NEW align \in Nat,
         align \in {4, 8} \/ (align % 16 = 0 /\ 16 <= align), align + 16 <= c.size
  PROVE  LET r == FrontCut(h, c, align)
         IN  /\ Good(r.h, (L \ {c}) \cup {r.c}) /\ r.c \notin L \ {c}
             /\ c.size - align <= r.c.size /\ r.c.addr % align = 0
<1> DEFINE r == FrontCut(h, c, align)
           pad == AlignUp(c.addr, align) - c.addr
           lo == Low(c, pad)
           hi == High(c, pad)
           M == (L \ {c}) \cup {lo, hi}
<1>1. ChunkOK(c) /\ c.addr \in Nat /\ c.size \in Nat /\ c \in Chunks /\ c.addr % 16 = 0
  BY WholeFacts, ChunkFacts DEF Good
<1>2. pad \in Nat /\ pad % 16 = 0 /\ pad < align /\ pad \notin 1 .. 15 /\ (c.addr + pad) % align = 0
  BY <1>1, PadFacts
<1>3. /\ pad = 0 => r.h = h
      /\ pad # 0 => r.h = FreeChunk(h, [addr |-> c.addr, size |-> pad])
      /\ r.c = [addr |-> c.addr + pad, size |-> c.size - pad]
  BY <1>2 DEF FrontCut
<1> HIDE DEF pad, r
<1>4. CASE pad = 0
  <2>1. r.c = c
    BY <1>1, <1>3, <1>4 DEF Chunks
  <2>2. (L \ {c}) \cup {r.c} = L
    BY <2>1
  <2>3. r.c.addr % align = 0
    BY <1>1, <1>2, <1>4, <2>1
  <2>4. c.size - align <= r.c.size
    BY <1>1, <2>1
  <2> QED
    BY <1>3, <1>4, <2>1, <2>2, <2>3, <2>4 DEF r
<1>5. CASE pad # 0
  <2>1. 16 <= pad /\ 16 <= c.size - pad
    BY <1>1, <1>2, <1>5
  <2>2. Good(h, M) /\ lo \notin L \ {c} /\ hi \notin L \ {c}
    BY <1>2, <2>1, SplitGood
  <2>3. lo # hi /\ hi.addr = c.addr + pad /\ hi.size = c.size - pad
    BY <1>1, <1>2, <2>1, SplitFacts
  <2>4. r.h = FreeChunk(h, lo) /\ r.c = hi
    BY <1>3, <1>5 DEF Low, High
  <2> HIDE DEF lo, hi
  <2>5. Good(FreeChunk(h, lo), M \ {lo})
    <3>1. lo \in M
      OBVIOUS
    <3> HIDE DEF M
    <3> QED
      BY <2>2, <3>1, FreeChunkGood
  <2>6. M \ {lo} = (L \ {c}) \cup {r.c}
    BY <2>2, <2>3, <2>4
  <2>7. c.size - align <= r.c.size /\ r.c.addr % align = 0
    BY <1>1, <1>2, <2>3, <2>4
  <2> QED
    BY <2>2, <2>4, <2>5, <2>6, <2>7 DEF r
<1> QED
  BY <1>4, <1>5

\* memalign cuts front and back off what malloc gave.
LEMMA AlignedCutGood ==
  ASSUME NEW got, NEW L, NEW align \in Nat, NEW size \in Nat, NEW more \in Nat,
         Took(got, L, more), size + align + 16 <= more, size % 16 = 0, 16 <= size,
         align \in {4, 8} \/ (align % 16 = 0 /\ 16 <= align)
  PROVE  LET r == AlignedCut(got, align, size)
         IN  Took(r, L, size) /\ (r.c # NoChunk => r.c.addr % align = 0)
<1> DEFINE r == AlignedCut(got, align, size)
<1>0. /\ align \in Nat /\ (align \in {4, 8} \/ (align % 16 = 0 /\ 16 <= align))
      /\ size \in Nat /\ size % 16 = 0 /\ 16 <= size
  OBVIOUS
<1>1. CASE got.c = NoChunk
  <2>1. r = got
    BY <1>1 DEF AlignedCut
  <2>2. Took(got, L, size)
    BY <1>1 DEF Took
  <2> QED
    BY <1>1, <2>1, <2>2
<1>2. CASE got.c # NoChunk
  <2> DEFINE M == L \cup {got.c}
             rest == FrontCut(got.h, got.c, align)
             K == (M \ {got.c}) \cup {rest.c}
             cut == Cut(rest.h, rest.c, size)
  <2>1. Good(got.h, M) /\ got.c \notin L /\ more <= got.c.size
    BY <1>2 DEF Took
  <2>2. got.c \in M
    OBVIOUS
  <2>2a. M \ {got.c} = L
    BY <2>1
  <2>3. r = cut
    BY <1>2 DEF AlignedCut
  <2> HIDE DEF M, r
  <2>4. ChunkOK(got.c) /\ got.c.size \in Nat
    BY <2>1, <2>2, GoodChunks, ChunkFacts
  <2>5. align + 16 <= got.c.size
    BY <2>1, <2>4
  <2>6. /\ Good(rest.h, K) /\ rest.c \notin M \ {got.c}
        /\ got.c.size - align <= rest.c.size /\ rest.c.addr % align = 0
    <3> DEFINE gh == got.h
               gc == got.c
    <3>1. Good(gh, M) /\ gc \in M /\ align + 16 <= gc.size
      BY <2>1, <2>2, <2>5
    <3> HIDE DEF gh, gc
    <3>2. LET g == FrontCut(gh, gc, align)
          IN  /\ Good(g.h, (M \ {gc}) \cup {g.c}) /\ g.c \notin M \ {gc}
              /\ gc.size - align <= g.c.size /\ g.c.addr % align = 0
      BY ONLY <1>0, <3>1, FrontCutGood
    <3> QED
      BY <3>2 DEF gh, gc
  <2>7. rest.c \in K
    OBVIOUS
  <2>7a. K \ {rest.c} = L
    BY <2>2a, <2>6
  <2> HIDE DEF rest, K
  <2>8. rest.c.size \in Nat
    BY <2>6, <2>7, GoodChunks, ChunkFacts
  <2>9. size <= rest.c.size
    BY <2>1, <2>4, <2>6, <2>8
  <2>10. /\ Good(cut.h, (K \ {rest.c}) \cup {cut.c}) /\ cut.c \notin K \ {rest.c}
         /\ size <= cut.c.size /\ cut.c.addr = rest.c.addr
    <3> DEFINE gh == rest.h
               gc == rest.c
    <3>1. Good(gh, K) /\ gc \in K /\ size <= gc.size
      BY <2>6, <2>7, <2>9
    <3> HIDE DEF gh, gc
    <3>2. LET g == Cut(gh, gc, size)
          IN  /\ Good(g.h, (K \ {gc}) \cup {g.c}) /\ g.c \notin K \ {gc}
              /\ size <= g.c.size /\ g.c.addr = gc.addr
      BY ONLY <1>0, <3>1, CutGood
    <3> QED
      BY <3>2 DEF gh, gc
  <2> HIDE DEF cut
  <2>11. (K \ {rest.c}) \cup {cut.c} = L \cup {r.c}
    BY <2>3, <2>7a
  <2>12. Good(r.h, L \cup {r.c}) /\ r.c \in L \cup {r.c}
    BY <2>3, <2>10, <2>11
  <2>13. r.c # NoChunk
    BY ONLY <2>12, GoodChunks
  <2>14. Took(r, L, size)
    BY <2>3, <2>7a, <2>10, <2>12, <2>13 DEF Took
  <2>15. r.c.addr % align = 0
    BY <2>3, <2>6, <2>10
  <2> QED
    BY <2>14, <2>15 DEF r
<1> QED
  BY <1>1, <1>2

\* memalign for any alignment and size.
LEMMA MemalignGood ==
  ASSUME NEW h, NEW L, Good(h, L), NEW n \in Nat, NEW req \in Nat
  PROVE  LET r == Memalign(h, n, req)
         IN  /\ Took(r, L, req + 4)
             /\ n # 0 /\ r.c # NoChunk => r.c.addr % n = 0
<1> USE HeapAssumption DEF HeapAssumption
<1> DEFINE r == Memalign(h, n, req)
           align == Max({n, 4})
           size == ChunkSize(req)
           got == Malloc(h, size + align + 16)
<1>1. AllocMax \in Int
  BY DEF AllocMax
<1>2. align = (IF n >= 4 THEN n ELSE 4)
  BY MaxFacts
<1> HIDE DEF align
<1>3. CASE ~PowerOf2(n) \/ align > AllocMax \/ req > AllocMax - align
  <2>1. r = [h |-> h, c |-> NoChunk]
    BY <1>3 DEF Memalign, align
  <2> HIDE DEF r
  <2> QED
    BY <2>1 DEF Took, r
<1>4. CASE ~(~PowerOf2(n) \/ align > AllocMax \/ req > AllocMax - align)
  <2>1. r = AlignedCut(got, align, size)
    BY <1>4 DEF Memalign, align
  <2>2. n \in {0, 1, 2, 4, 8} \/ (n % 16 = 0 /\ 16 <= n)
    BY <1>4, PowerFacts
  <2>3. align \in Nat /\ (align \in {4, 8} \/ (align % 16 = 0 /\ 16 <= align))
    BY <1>2, <2>2
  <2>4. req <= AllocMax
    BY <1>1, <1>4, <2>3
  <2>5. size \in Nat /\ size % 16 = 0 /\ 16 <= size /\ req + 4 <= size
    BY <2>4, ChunkSizeFacts
  <2> HIDE DEF size, r
  <2> DEFINE more == size + align + 20
  <2>6. Took(got, L, more)
    <3>1. Took(got, L, (size + align + 16) + 4)
      BY <2>3, <2>5, MallocGood
    <3>2. (size + align + 16) + 4 = more
      BY <2>3, <2>5
    <3> QED
      BY <3>1, <3>2
  <2> HIDE DEF got
  <2>7. more \in Nat /\ size + align + 16 <= more
    BY <2>3, <2>5
  <2> HIDE DEF more
  <2>8. Took(r, L, size) /\ (r.c # NoChunk => r.c.addr % align = 0)
    BY <2>1, <2>3, <2>5, <2>6, <2>7, AlignedCutGood
  <2>9. CASE r.c = NoChunk
    BY <2>8, <2>9 DEF Took, r
  <2>10. CASE r.c # NoChunk
    <3>1. r.c \notin L /\ size <= r.c.size /\ Good(r.h, L \cup {r.c}) /\ r.c \in L \cup {r.c}
      BY <2>8, <2>10 DEF Took
    <3>2. ChunkOK(r.c)
      BY <3>1, GoodChunks
    <3>3. r.c.addr \in Nat /\ r.c.size \in Nat
      BY <3>2, ChunkFacts
    <3>4. req + 4 <= r.c.size
      BY <2>5, <3>1, <3>3
    <3>5. Took(r, L, req + 4)
      BY <2>10, <3>1, <3>4 DEF Took
    <3>6. ASSUME n # 0 PROVE r.c.addr % n = 0
      <4>1. CASE n >= 4
        BY <1>2, <2>8, <2>10, <4>1
      <4>2. CASE n \in {1, 2}
        <5>1. r.c.addr % 16 = 0
          BY <3>2, ChunkFacts
        <5> QED
          BY <3>3, <4>2, <5>1
      <4> QED
        BY <2>2, <3>6, <4>1, <4>2
    <3> QED
      BY <3>5, <3>6 DEF r
  <2> QED
    BY <2>9, <2>10
<1> QED
  BY <1>3, <1>4

-----------------------------------------------------------------------------
(* A program's own calls of sbrk.                                          *)

\* Bytes a program takes from sbrk go to no one else.
LEMMA SbrkGood ==
  ASSUME NEW h, NEW L, Good(h, L), NEW n \in Nat, 0 < n, h.brk + n <= Limit
  PROVE  Good([h EXCEPT !.brk = @ + n,
                        !.holes = @ \cup {Hole(h.brk, h.brk + n, "program")}], L)
<1> DEFINE end == h.brk + n
           t == Hole(h.brk, end, "program")
           g == [h EXCEPT !.brk = @ + n, !.holes = @ \cup {Hole(h.brk, h.brk + n, "program")}]
           T == TilesOf(h, L)
<1>1. Whole(h, L) /\ Sorted(h.free)
  BY DEF Good
<1>2. h \in Heaps /\ h.brk \in Nat /\ HeapEnd <= h.brk /\ h.holes \subseteq Holes
  BY <1>1, WholeFacts DEF Heaps
<1>3. end \in Nat /\ h.brk < end /\ end <= Limit
  BY <1>2
<1>4. t.from = h.brk /\ t.to = end /\ t.of = "program" /\ t \in Holes
  BY <1>2 DEF Hole, Holes
<1>5. /\ g.brk = end /\ g.top = h.top /\ g.start = h.start /\ g.free = h.free
      /\ g.holes = h.holes \cup {t}
  BY <1>2 DEF Heaps
<1>6. g \in Heaps
  <2>1. h.holes \cup {t} \subseteq Holes
    BY <1>2, <1>4
  <2>2. g = [h EXCEPT !.brk = end, !.holes = h.holes \cup {t}]
    BY <1>2 DEF Heaps
  <2> HIDE DEF g, t, end
  <2> QED
    BY <1>2, <1>3, <2>1, <2>2 DEF Heaps
<1>7. TilesOf(g, L) = T \cup {t}
  BY <1>5 DEF TilesOf
<1> HIDE DEF t, g, T, end
<1>8. Partition(T \cup {t}, end)
  <2>1. Proper({t}) /\ Disjoint({t})
    BY <1>2, <1>3, <1>4 DEF Proper, Disjoint
  <2>2. \A x \in Nat : h.brk <= x /\ x < end => Covers({t}, x)
    BY <1>4 DEF Covers, In
  <2>3. Partition(T, h.brk) /\ \A u \in {t} : h.brk <= u.from /\ u.to <= end
    BY <1>1, <1>2, <1>3, <1>4 DEF Whole, T
  <2>4. h.brk \in Nat /\ end \in Nat /\ h.brk <= end /\ HeapEnd <= h.brk
    BY <1>2, <1>3
  <2> QED
    BY ONLY <2>1, <2>2, <2>3, <2>4, Extend
<1>9. Ends(T \cup {t}, h.start, h.top)
  <2>1. Chunky(T \cup {t}) = Chunky(T) /\ Mine(T \cup {t}) = Mine(T)
    BY <1>4 DEF Chunky, Mine
  <2>2. Ends(T, h.start, h.top)
    BY <1>1 DEF Whole, T
  <2> QED
    BY <2>1, <2>2 DEF Ends
<1>10. HolesOK(g.holes)
  BY <1>1, <1>4, <1>5 DEF Whole, HolesOK
<1>11. Whole(g, L)
  BY <1>1, <1>2, <1>3, <1>5, <1>6, <1>7, <1>8, <1>9, <1>10, LimitFacts DEF Whole
<1>12. Good(g, L)
  BY <1>1, <1>5, <1>11 DEF Good
<1> QED
  BY <1>12 DEF g

\* A program gives back its last bytes: no chunk is above them.
LEMMA SbrkBackGood ==
  ASSUME NEW h, NEW L, Good(h, L), NEW t \in h.holes, t.of = "program", t.to = h.brk
  PROVE  Good([h EXCEPT !.brk = t.from, !.holes = @ \ {t}], L)
<1> DEFINE g == [h EXCEPT !.brk = t.from, !.holes = @ \ {t}]
           T == TilesOf(h, L)
<1>1. Whole(h, L) /\ Sorted(h.free)
  BY DEF Good
<1>2. h \in Heaps /\ h.brk \in Nat /\ h.brk <= Limit /\ h.holes \subseteq Holes
  BY <1>1, WholeFacts DEF Heaps
<1>3. t.from \in Nat /\ t \in T
  BY <1>2 DEF Holes, TilesOf
<1>4. /\ g.brk = t.from /\ g.top = h.top /\ g.start = h.start /\ g.free = h.free
      /\ g.holes = h.holes \ {t}
  BY <1>2 DEF Heaps
<1>5. g \in Heaps
  BY <1>2, <1>3 DEF Heaps
<1>6. TilesOf(g, L) = T \ {t}
  <2>1. \A c, s : Tile(c, s).of = s
    BY TileFacts
  <2>2. \A c : Tile(c, "live") # t /\ Tile(c, "free") # t
    BY <2>1
  <2> HIDE DEF g
  <2> QED
    BY <1>4, <2>2 DEF TilesOf
<1>7. Partition(T, h.brk) /\ Ends(T, h.start, h.top)
  BY <1>1 DEF Whole
<1> HIDE DEF g, T
<1>8. Partition(T \ {t}, t.from)
  BY <1>2, <1>3, <1>7, Shrink
<1>9. Ends(T \ {t}, h.start, h.top)
  <2>1. Chunky(T \ {t}) = Chunky(T) /\ Mine(T \ {t}) = Mine(T)
    BY DEF Chunky, Mine
  <2> QED
    BY <1>7, <2>1 DEF Ends
<1>10. HolesOK(g.holes)
  BY <1>1, <1>4 DEF Whole, HolesOK
<1>11. HeapEnd <= t.from /\ t.from <= Limit
  BY <1>2, <1>3, <1>7, LimitFacts DEF Partition, Proper
<1>12. Whole(g, L)
  BY <1>1, <1>4, <1>5, <1>6, <1>8, <1>9, <1>10, <1>11 DEF Whole
<1>13. Good(g, L)
  BY <1>1, <1>4, <1>12 DEF Good
<1> QED
  BY <1>13 DEF g

-----------------------------------------------------------------------------
(* Every call keeps the heap sound.                                        *)

\* Sizes are natural numbers.
LEMMA SizesFacts == Sizes \subseteq Nat
<1> USE HeapAssumption DEF HeapAssumption
<1>1. \A p \in Products : p[1] \in Nat /\ p[2] \in Nat
  OBVIOUS
<1>2. \A a, b \in Nat : a * b \in Nat
  OBVIOUS
<1> QED
  <2>1. ASSUME NEW p \in Products PROVE p[1] * p[2] \in Nat
    <3> DEFINE a == p[1]
               b == p[2]
    <3>1. a \in Nat /\ b \in Nat
      BY <1>1
    <3> HIDE DEF a, b
    <3>2. a * b \in Nat
      BY <1>2, <3>1
    <3> QED
      BY <3>2 DEF a, b
  <2>2. Requests \subseteq Nat
    OBVIOUS
  <2> QED
    BY <2>1, <2>2, Zenon DEF Sizes

\* A block's chunk and what was asked for.
LEMMA BlockFacts ==
  ASSUME NEW c, ChunkOK(c), NEW req
  PROVE  /\ Chunk(Block(c, req)) = c
         /\ Block(c, req).addr = c.addr /\ Block(c, req).size = c.size /\ Block(c, req).req = req
         /\ req \in Sizes => Block(c, req) \in [addr : Nat, size : Nat, req : Sizes]
BY ChunkFacts DEF Chunk, Block, Chunks

\* The chunks of the blocks that are left.
LEMMA ChunksLeft ==
  ASSUME NEW bs, \A b, d \in bs : b.addr = d.addr => b = d, NEW b \in bs
  PROVE  ChunksOf(bs \ {b}) = ChunksOf(bs) \ {Chunk(b)}
<1>1. \A d : Chunk(d).addr = d.addr
  BY DEF Chunk
<1>2. \A d \in bs : Chunk(d) = Chunk(b) => d = b
  BY <1>1
<1> QED
  BY <1>2, Zenon DEF ChunksOf

\* A block more.
LEMMA OneMore ==
  ASSUME NEW h, NEW bs, NEW c, NEW req \in Sizes,
         bs \subseteq [addr : Nat, size : Nat, req : Sizes],
         \A b, d \in bs : b.addr = d.addr => b = d,
         \A b \in bs : b.req + 4 <= b.size,
         c \notin ChunksOf(bs), req + 4 <= c.size, Good(h, ChunksOf(bs) \cup {c})
  PROVE  Sound(h, bs \cup {Block(c, req)})
<1> DEFINE L == ChunksOf(bs)
           new == Block(c, req)
           cs == bs \cup {new}
<1>1. c \in L \cup {c}
  OBVIOUS
<1>2. ChunkOK(c)
  BY <1>1, GoodChunks
<1>3. /\ Chunk(new) = c /\ new.addr = c.addr /\ new.size = c.size /\ new.req = req
      /\ new \in [addr : Nat, size : Nat, req : Sizes]
  BY <1>2, BlockFacts
<1> HIDE DEF new
<1>4. ChunksOf(cs) = L \cup {c}
  BY <1>3 DEF ChunksOf
<1>5. \A d \in bs : Chunk(d) \in L /\ Chunk(d).addr = d.addr
  BY DEF ChunksOf, Chunk
<1> HIDE DEF L
<1>6. ASSUME NEW d \in bs PROVE d.addr # new.addr
  <2> SUFFICES ASSUME d.addr = new.addr PROVE FALSE
    OBVIOUS
  <2> DEFINE e == Chunk(d)
  <2>1. e \in L /\ e.addr = c.addr
    BY <1>3, <1>5
  <2> HIDE DEF e
  <2>2. e \in L \cup {c}
    BY <2>1
  <2>3. Good(h, L \cup {c})
    BY DEF L
  <2>4. e = c
    BY ONLY <1>1, <2>1, <2>2, <2>3, HeldApart
  <2> QED
    BY <2>1, <2>4 DEF L
<1>7. \A b, d \in cs : b.addr = d.addr => b = d
  BY <1>6
<1>8. \A b \in cs : b.req + 4 <= b.size
  BY <1>3
<1>9. cs \subseteq [addr : Nat, size : Nat, req : Sizes]
  BY <1>3
<1>10. Good(h, ChunksOf(cs))
  BY <1>4 DEF L
<1>11. Sound(h, cs)
  BY <1>7, <1>8, <1>9, <1>10 DEF Sound
<1> QED
  BY <1>11 DEF new

\* A call that returns a new chunk, or NULL, keeps all sound.
LEMMA ReturnsSound ==
  ASSUME NEW h, NEW bs, Sound(h, bs), NEW r, NEW req \in Sizes,
         Took(r, ChunksOf(bs), req + 4)
  PROVE  /\ r.c = NoChunk => Sound(r.h, bs)
         /\ r.c # NoChunk => Sound(r.h, bs \cup {Block(r.c, req)})
<1>1. CASE r.c = NoChunk
  <2>1. Took(r, ChunksOf(bs), req + 4) /\ (r.c # NoChunk => FALSE)
    BY <1>1
  <2>2. Good(r.h, ChunksOf(bs))
    BY <2>1 DEF Took
  <2> QED
    BY <1>1, <2>2 DEF Sound
<1>2. CASE r.c # NoChunk
  <2> DEFINE c == r.c
             g == r.h
  <2>1. c \notin ChunksOf(bs) /\ req + 4 <= c.size /\ Good(g, ChunksOf(bs) \cup {c})
    BY <1>2 DEF Took
  <2> HIDE DEF c, g
  <2>2. Sound(g, bs \cup {Block(c, req)})
    BY <2>1, OneMore DEF Sound
  <2> QED
    BY <1>2, <2>2 DEF c, g
<1> QED
  BY <1>1, <1>2

\* So does free,
LEMMA FreeSound ==
  ASSUME NEW h, NEW bs, Sound(h, bs), NEW b \in bs
  PROVE  Sound(FreeChunk(h, Chunk(b)), bs \ {b})
<1> DEFINE c == Chunk(b)
<1>1. c \in ChunksOf(bs) /\ Good(h, ChunksOf(bs))
  BY DEF ChunksOf, Sound
<1> HIDE DEF c
<1>2. Good(FreeChunk(h, c), ChunksOf(bs) \ {c})
  BY <1>1, FreeChunkGood
<1>3. ChunksOf(bs \ {b}) = ChunksOf(bs) \ {c}
  BY ChunksLeft DEF Sound, c
<1> QED
  BY <1>2, <1>3 DEF Sound, c

\* and realloc, which leaves the block as it was when it fails.
LEMMA MovesSound ==
  ASSUME NEW h, NEW bs, Sound(h, bs), NEW b \in bs, NEW r, NEW req \in Sizes,
         Moves(r, ChunksOf(bs), Chunk(b), req + 4)
  PROVE  /\ r.ok \in BOOLEAN
         /\ r.ok = TRUE => Sound(r.h, (bs \ {b}) \cup {Block(r.c, req)})
         /\ r.ok = FALSE => /\ Sound(r.h, (bs \ {b}) \cup {Block(r.c, b.req)})
                            /\ (bs \ {b}) \cup {Block(r.c, b.req)} = bs
<1> DEFINE left == bs \ {b}
           L == ChunksOf(bs)
           c == Chunk(b)
<1>1. ChunksOf(left) = L \ {c}
  BY ChunksLeft DEF Sound
<1>2. CASE r.ok = TRUE
  <2> DEFINE d == r.c
             g == r.h
  <2>1. d \notin L \ {c} /\ req + 4 <= d.size /\ Good(g, (L \ {c}) \cup {d})
    BY <1>2 DEF Moves
  <2> HIDE DEF d, g, L, c
  <2>2. d \notin ChunksOf(left) /\ req + 4 <= d.size /\ Good(g, ChunksOf(left) \cup {d})
    BY <1>1, <2>1
  <2>3. /\ left \subseteq [addr : Nat, size : Nat, req : Sizes]
        /\ \A e, f \in left : e.addr = f.addr => e = f
        /\ \A e \in left : e.req + 4 <= e.size
    BY DEF Sound
  <2> HIDE DEF left
  <2>4. Sound(g, left \cup {Block(d, req)})
    BY <2>2, <2>3, OneMore
  <2> QED
    BY <1>2, <2>4 DEF d, g, left
<1>3. CASE r.ok = FALSE
  <2>1. r.c = c /\ Good(r.h, L)
    BY <1>3 DEF Moves
  <2>2. Block(c, b.req) = b
    <3>1. b \in [addr : Nat, size : Nat, req : Sizes]
      BY DEF Sound
    <3> QED
      BY <3>1 DEF Block, Chunk
  <2>3. left \cup {Block(r.c, b.req)} = bs
    BY <2>1, <2>2
  <2>4. Sound(r.h, bs)
    BY <2>1 DEF Sound
  <2> QED
    BY <1>3, <2>3, <2>4
<1>4. r.ok = TRUE \/ r.ok = FALSE
  BY DEF Moves
<1> QED
  BY <1>2, <1>3, <1>4

\* The heap before the first call.
LEMMA InitSound == Init => HeapInv
<1> SUFFICES ASSUME Init PROVE HeapInv
  OBVIOUS
<1>1. heap = [brk |-> HeapEnd, top |-> Null, start |-> Null, free |-> <<>>, holes |-> {}]
        /\ live = {}
  BY DEF Init
<1>2. heap.brk = HeapEnd /\ heap.top = 0 /\ heap.start = 0 /\ heap.free = <<>> /\ heap.holes = {}
  BY <1>1 DEF Null
<1>3. Range(heap.free) = {}
  BY <1>2 DEF Range
<1>4. ChunksOf(live) = {}
  BY <1>1 DEF ChunksOf
<1>5. heap \in Heaps
  BY <1>1, LimitFacts DEF Heaps, Null
<1>6. TilesOf(heap, {}) = {}
  BY <1>2, <1>3 DEF TilesOf
<1>7. Partition({}, HeapEnd)
  BY LimitFacts DEF Partition, Proper, Disjoint
<1>8. Ends({}, 0, 0)
  BY DEF Ends, Null, Covers, Chunky
<1>9. HolesOK({})
  BY DEF HolesOK
<1>10. Whole(heap, {})
  <2>1. /\ Partition(TilesOf(heap, {}), heap.brk)
        /\ Ends(TilesOf(heap, {}), heap.start, heap.top) /\ HolesOK(heap.holes)
    BY <1>2, <1>6, <1>7, <1>8, <1>9
  <2>2. HeapEnd <= heap.brk /\ heap.brk <= Limit
    BY <1>2, LimitFacts
  <2>3. (\A c \in {} : ChunkOK(c)) /\ \A c \in Range(heap.free) : ChunkOK(c)
    BY <1>3
  <2> QED
    BY ONLY <1>5, <2>1, <2>2, <2>3 DEF Whole
<1>11. Sorted(heap.free)
  BY <1>2 DEF Sorted
<1> QED
  BY <1>1, <1>4, <1>10, <1>11 DEF HeapInv, Sound, Good

\* malloc, for the blocks programs hold;
LEMMA MallocSound ==
  ASSUME NEW h, NEW bs, Sound(h, bs), NEW req \in Sizes
  PROVE  Took(Malloc(h, req), ChunksOf(bs), req + 4)
BY SizesFacts, MallocGood DEF Sound

\* memalign;
LEMMA MemalignSound ==
  ASSUME NEW h, NEW bs, Sound(h, bs), NEW n \in Nat, NEW req \in Sizes
  PROVE  Took(Memalign(h, n, req), ChunksOf(bs), req + 4)
BY SizesFacts, MemalignGood DEF Sound

\* realloc.
LEMMA ReallocSound ==
  ASSUME NEW h, NEW bs, Sound(h, bs), NEW b \in bs, NEW req \in Sizes
  PROVE  Moves(Realloc(h, Chunk(b), req), ChunksOf(bs), Chunk(b), req + 4)
<1> DEFINE c == Chunk(b)
<1>1. c \in ChunksOf(bs) /\ Good(h, ChunksOf(bs)) /\ req \in Nat
  BY SizesFacts DEF ChunksOf, Sound
<1> HIDE DEF c
<1>2. Moves(Realloc(h, c, req), ChunksOf(bs), c, req + 4)
  BY <1>1, ReallocGood
<1> QED
  BY <1>2 DEF c

\* What a call that returns r for req bytes does to the blocks.
LEMMA ReturnsStep ==
  ASSUME HeapInv, NEW r, NEW req \in Sizes, Took(r, ChunksOf(live), req + 4), Returns(r, req)
  PROVE  HeapInv'
<1>1. heap' = r.h
  BY DEF Returns
<1>2. CASE r.c = NoChunk
  <2>1. live' = live
    BY <1>2 DEF Returns
  <2>2. Sound(r.h, live)
    BY <1>2, ReturnsSound DEF HeapInv
  <2> QED
    BY <1>1, <2>1, <2>2 DEF HeapInv
<1>3. CASE r.c # NoChunk
  <2>1. live' = live \cup {Block(r.c, req)}
    BY <1>3 DEF Returns
  <2>2. Sound(r.h, live \cup {Block(r.c, req)})
    BY <1>3, ReturnsSound DEF HeapInv
  <2> QED
    BY <1>1, <2>1, <2>2 DEF HeapInv
<1> QED
  BY <1>2, <1>3

\* One step per call of a program.
LEMMA NextSound == HeapInv /\ [Next]_vars => HeapInv'
<1> SUFFICES ASSUME HeapInv, [Next]_vars PROVE HeapInv'
  OBVIOUS
<1> USE HeapAssumption DEF HeapAssumption
<1>0. Sound(heap, live)
  BY DEF HeapInv
<1>1. CASE CallMalloc
  <2>1. PICK req \in Requests : Returns(Malloc(heap, req), req)
    BY <1>1 DEF CallMalloc
  <2>2. req \in Sizes
    BY DEF Sizes
  <2> QED
    BY <1>0, <2>1, <2>2, MallocSound, ReturnsStep
<1>2. CASE CallCalloc
  <2>1. PICK p \in Products : Returns(Malloc(heap, p[1] * p[2]), p[1] * p[2])
    BY <1>2 DEF CallCalloc
  <2> DEFINE req == p[1] * p[2]
  <2>2. req \in Sizes
    BY Zenon DEF Sizes
  <2>3. Returns(Malloc(heap, req), req)
    BY <2>1
  <2> HIDE DEF req
  <2>4. Took(Malloc(heap, req), ChunksOf(live), req + 4)
    BY <1>0, <2>2, MallocSound
  <2> QED
    BY <2>2, <2>3, <2>4, ReturnsStep
<1>3. CASE CallMemalign
  <2>1. PICK n \in Aligns, req \in Requests : Returns(Memalign(heap, n, req), req)
    BY <1>3 DEF CallMemalign
  <2>2. req \in Sizes
    BY DEF Sizes
  <2>3. n \in Nat
    OBVIOUS
  <2>4. Took(Memalign(heap, n, req), ChunksOf(live), req + 4)
    BY <1>0, <2>2, <2>3, MemalignSound
  <2> QED
    BY <2>1, <2>2, <2>4, ReturnsStep
<1>4. CASE CallFree
  <2>1. PICK b \in live : heap' = FreeChunk(heap, Chunk(b)) /\ live' = live \ {b}
    BY <1>4 DEF CallFree
  <2>2. Sound(FreeChunk(heap, Chunk(b)), live \ {b})
    BY <1>0, FreeSound
  <2> QED
    BY <2>1, <2>2 DEF HeapInv
<1>5. CASE CallRealloc
  <2>1. PICK b \in live, req \in Requests :
          /\ heap' = Realloc(heap, Chunk(b), req).h
          /\ live' = (live \ {b}) \cup {Block(Realloc(heap, Chunk(b), req).c,
                                              IF Realloc(heap, Chunk(b), req).ok THEN req ELSE b.req)}
    BY <1>5, Zenon DEF CallRealloc
  <2>2. req \in Sizes
    BY DEF Sizes
  <2> DEFINE r == Realloc(heap, Chunk(b), req)
  <2>3. Moves(r, ChunksOf(live), Chunk(b), req + 4)
    BY <1>0, <2>2, ReallocSound
  <2>4. heap' = r.h /\ live' = (live \ {b}) \cup {Block(r.c, IF r.ok THEN req ELSE b.req)}
    BY <2>1
  <2> HIDE DEF r
  <2>5. /\ r.ok \in BOOLEAN
        /\ r.ok = TRUE => Sound(r.h, (live \ {b}) \cup {Block(r.c, req)})
        /\ r.ok = FALSE => Sound(r.h, (live \ {b}) \cup {Block(r.c, b.req)})
    BY <1>0, <2>2, <2>3, MovesSound
  <2>6. CASE r.ok = TRUE
    <3>1. live' = (live \ {b}) \cup {Block(r.c, req)}
      BY <2>4, <2>6, Zenon
    <3> QED
      BY <2>4, <2>5, <2>6, <3>1 DEF HeapInv
  <2>7. CASE r.ok = FALSE
    <3>1. live' = (live \ {b}) \cup {Block(r.c, b.req)}
      BY <2>4, <2>7, Zenon
    <3> QED
      BY <2>4, <2>5, <2>7, <3>1 DEF HeapInv
  <2> QED
    BY <2>5, <2>6, <2>7
<1>6. CASE CallSbrk
  <2>1. PICK n \in Increments :
          /\ heap.brk + n <= Limit
          /\ heap' = [heap EXCEPT !.brk = @ + n,
                                  !.holes = @ \cup {Hole(heap.brk, heap.brk + n, "program")}]
    BY <1>6 DEF CallSbrk
  <2>2. live' = live /\ n \in Nat /\ 0 < n /\ Good(heap, ChunksOf(live))
    BY <1>0, <1>6 DEF CallSbrk, Sound
  <2>3. Good(heap', ChunksOf(live))
    BY <2>1, <2>2, SbrkGood
  <2> QED
    BY <1>0, <2>2, <2>3 DEF HeapInv, Sound
<1>7. CASE CallSbrkBack
  <2>1. PICK t \in heap.holes :
          /\ t.of = "program" /\ t.to = heap.brk
          /\ heap' = [heap EXCEPT !.brk = t.from, !.holes = @ \ {t}]
    BY <1>7 DEF CallSbrkBack
  <2>2. live' = live /\ Good(heap, ChunksOf(live))
    BY <1>0, <1>7 DEF CallSbrkBack, Sound
  <2>3. Good(heap', ChunksOf(live))
    BY <2>1, <2>2, SbrkBackGood
  <2> QED
    BY <1>0, <2>2, <2>3 DEF HeapInv, Sound
<1>8. CASE UNCHANGED vars
  BY <1>0, <1>8 DEF vars, HeapInv
<1> QED
  BY <1>1, <1>2, <1>3, <1>4, <1>5, <1>6, <1>7, <1>8 DEF Next

\* What every call of a program keeps: the bytes below the break are shared out by
\* chunks, padding, what was lost and what programs took themselves; the free
\* list is in order and nothing in it touches; malloc's two variables are where
\* its chunks begin and end (malloc.c, free.c, realloc.c, memalign.c over sbrk.c).
THEOREM HeapInvariant == Spec => []HeapInv
<1>1. Init => HeapInv
  BY InitSound
<1>2. HeapInv /\ [Next]_vars => HeapInv'
  BY NextSound
<1> QED
  BY <1>1, <1>2, PTL DEF Spec

-----------------------------------------------------------------------------
(* What the runs check.                                                    *)

\* The tiles of the runs are those of the invariant.
LEMMA TilesAre == Tiles = TilesOf(heap, ChunksOf(live))
<1>1. \A b : Tile(Chunk(b), "live") = Tile(b, "live")
  BY DEF Tile, Blob, Chunk
<1>2. {Tile(b, "live") : b \in live} = {Tile(c, "live") : c \in ChunksOf(live)}
  BY <1>1, Zenon DEF ChunksOf
<1> QED
  BY <1>2, Zenon DEF Tiles, TilesOf

\* The tiles of a partition follow on each other.
LEMMA TilesFollow ==
  ASSUME NEW T, NEW brk \in Nat, HeapEnd <= brk, Partition(T, brk)
  PROVE  {t.to : t \in T} \cup {HeapEnd} = {t.from : t \in T} \cup {brk}
<1>0. HeapEnd \in Nat
  BY LimitFacts
<1>1. \A t \in T : /\ t.from \in Nat /\ t.to \in Nat /\ t.from < t.to
                   /\ HeapEnd <= t.from /\ t.to <= brk
  BY DEF Partition, Proper
<1>2. ASSUME NEW t \in T, t.to # brk PROVE \E u \in T : u.from = t.to
  <2>1. PICK u \in T : In(t.to, u)
    BY <1>0, <1>1, <1>2 DEF Partition, Covers
  <2>2. u # t
    BY <1>1, <2>1 DEF In
  <2>3. Apart(t, u)
    BY <2>2 DEF Partition, Disjoint
  <2> QED
    BY <1>1, <2>1, <2>3 DEF Apart, In
<1>3. ASSUME NEW t \in T, t.from # HeapEnd PROVE \E u \in T : u.to = t.from
  <2>1. t.from - 1 \in Nat /\ HeapEnd <= t.from - 1 /\ t.from - 1 < brk
    BY <1>0, <1>1, <1>3
  <2>2. PICK u \in T : In(t.from - 1, u)
    BY <2>1 DEF Partition, Covers
  <2>3. u # t
    BY <1>1, <2>2 DEF In
  <2>4. Apart(t, u)
    BY <2>3 DEF Partition, Disjoint
  <2> QED
    BY <1>1, <2>2, <2>4 DEF Apart, In
<1>4. ASSUME HeapEnd # brk PROVE (\E u \in T : u.from = HeapEnd) /\ \E u \in T : u.to = brk
  <2>1. PICK u \in T : In(HeapEnd, u)
    BY <1>0, <1>4 DEF Partition, Covers
  <2>2. u.from = HeapEnd
    BY <1>0, <1>1, <2>1 DEF In
  <2>3. brk - 1 \in Nat /\ HeapEnd <= brk - 1 /\ brk - 1 < brk
    BY <1>0, <1>4
  <2>4. PICK w \in T : In(brk - 1, w)
    BY <2>3 DEF Partition, Covers
  <2>5. w.to = brk
    BY <1>1, <2>4 DEF In
  <2> QED
    BY <2>2, <2>5
<1> DEFINE A == {t.to : t \in T} \cup {HeapEnd}
           B == {t.from : t \in T} \cup {brk}
<1>5. ASSUME NEW x \in A PROVE x \in B
  <2>1. CASE x = HeapEnd
    BY <1>4, <2>1
  <2>2. CASE x # HeapEnd
    <3>1. PICK t \in T : x = t.to
      BY <1>5, <2>2
    <3> QED
      BY <1>2, <3>1
  <2> QED
    BY <2>1, <2>2
<1>6. ASSUME NEW x \in B PROVE x \in A
  <2>1. CASE x = brk
    BY <1>4, <2>1
  <2>2. CASE x # brk
    <3>1. PICK t \in T : x = t.from
      BY <1>6, <2>2
    <3> QED
      BY <1>3, <3>1
  <2> QED
    BY <2>1, <2>2
<1> HIDE DEF A, B
<1>7. A = B
  BY <1>5, <1>6
<1> QED
  BY <1>7 DEF A, B

\* Each property follows from the invariant: no byte is in two tiles or in none;
LEMMA InvTiled == HeapInv => Tiled
<1> SUFFICES ASSUME HeapInv PROVE Tiled
  OBVIOUS
<1>1. Whole(heap, ChunksOf(live))
  BY DEF HeapInv, Sound, Good
<1>2. Partition(Tiles, heap.brk)
  BY <1>1, TilesAre DEF Whole
<1>3. heap.brk \in Nat /\ HeapEnd <= heap.brk
  BY <1>1, WholeFacts
<1>4. {t.to : t \in Tiles} \cup {HeapEnd} = {t.from : t \in Tiles} \cup {heap.brk}
  BY <1>2, <1>3, TilesFollow
<1> QED
  BY <1>2, <1>4 DEF Tiled, Partition, Proper, Disjoint, Apart

\* malloc's variables are within the limits, because a chunk begins or ends there;
LEMMA InvTypeOK == HeapInv => TypeOK
<1> SUFFICES ASSUME HeapInv PROVE TypeOK
  OBVIOUS
<1> DEFINE T == TilesOf(heap, ChunksOf(live))
<1>1. /\ Whole(heap, ChunksOf(live)) /\ live \subseteq [addr : Nat, size : Nat, req : Sizes]
  BY DEF HeapInv, Sound, Good
<1>2. /\ heap \in Heaps /\ heap.brk \in Nat /\ HeapEnd <= heap.brk /\ heap.brk <= Limit
      /\ heap.top \in Nat /\ heap.start \in Nat /\ heap.free \in Seq(Chunks)
      /\ heap.holes \subseteq Holes
  BY <1>1, WholeFacts DEF Heaps
<1>3. Partition(T, heap.brk) /\ Ends(T, heap.start, heap.top)
  BY <1>1 DEF Whole
<1> HIDE DEF T
<1>4. \A x \in Nat : Covers(T, x) => HeapEnd <= x /\ x < heap.brk
  <2>1. \A t \in T : t.from \in Nat /\ t.to \in Nat /\ HeapEnd <= t.from /\ t.to <= heap.brk
    BY <1>3 DEF Partition, Proper
  <2> QED
    BY <1>2, <2>1, LimitFacts DEF Covers, In
<1>5. heap.start # 0 => HeapEnd <= heap.start /\ heap.start < heap.brk
  <2>1. heap.start # 0 => Covers(T, heap.start)
    BY <1>3 DEF Ends, Null, Covers, Chunky
  <2> QED
    BY <1>2, <1>4, <2>1
<1>6. heap.top # 0 => HeapEnd <= heap.top /\ heap.top <= heap.brk
  <2>1. heap.top # 0 => Covers(T, heap.top - 1)
    BY <1>3 DEF Ends, Null, Covers, Mine
  <2>2. heap.top # 0 => heap.top - 1 \in Nat
    BY <1>2
  <2>3. heap.top # 0 => HeapEnd <= heap.top - 1 /\ heap.top - 1 < heap.brk
    BY <1>4, <2>1, <2>2
  <2> QED
    BY <1>2, <2>3, LimitFacts
<1>7. live \subseteq [addr : Nat, size : Nat, req : Nat]
  BY <1>1, SizesFacts
<1>8. heap.top \in {Null} \cup (HeapEnd .. Limit) /\ heap.start \in {Null} \cup (HeapEnd .. Limit)
  BY <1>2, <1>5, <1>6, LimitFacts DEF Null
<1> QED
  BY <1>2, <1>7, <1>8, LimitFacts DEF TypeOK

\* the list is sorted;
LEMMA InvFreeInOrder == HeapInv => FreeInOrder
<1> SUFFICES ASSUME HeapInv, NEW i \in 1 .. Len(heap.free) - 1
             PROVE  After(heap.free[i]) < heap.free[i + 1].addr
  BY DEF FreeInOrder
<1>1. Sorted(heap.free) /\ heap.free \in Seq(Chunks)
  BY WholeFacts DEF HeapInv, Sound, Good
<1>2. i \in 1 .. Len(heap.free) /\ i + 1 \in 1 .. Len(heap.free) /\ i < i + 1
  BY <1>1, LenProperties
<1> QED
  BY <1>1, <1>2 DEF Sorted

\* what is lost begins where no chunk and no padding ends, and has no room for another;
LEMMA InvLostOnce == HeapInv => LostOnce
<1> SUFFICES ASSUME HeapInv, NEW t \in heap.holes, t.of = "lost"
             PROVE  /\ t.from = HeapEnd \/ \E u \in heap.holes : u.of = "program" /\ u.to = t.from
                    /\ \A u \in heap.holes : u.of = "lost" => u = t
  BY DEF LostOnce
<1> DEFINE T == Tiles
<1>1. Whole(heap, ChunksOf(live))
  BY DEF HeapInv, Sound, Good
<1>2. heap.brk \in Nat /\ HeapEnd <= heap.brk /\ heap.brk <= Limit /\ heap.holes \subseteq Holes
  BY <1>1, WholeFacts DEF Heaps
<1>3. Partition(T, heap.brk) /\ HolesOK(heap.holes) /\ heap.holes \subseteq T
  BY <1>1, TilesAre DEF Whole, Tiles
<1>4. {u.to : u \in T} \cup {HeapEnd} = {u.from : u \in T} \cup {heap.brk}
  BY <1>2, <1>3, TilesFollow
<1>5. (t.from + 4) % 16 # 0 /\ t.from \in Nat /\ t.to \in Nat /\ t.from + 16 <= t.to
      /\ Limit - t.to < 16
  BY <1>2, <1>3 DEF HolesOK, Holes
<1>6. ASSUME NEW u \in heap.holes, u.of = "lost", u # t
      PROVE  FALSE
  <2>1. u.from \in Nat /\ u.to \in Nat /\ u.from + 16 <= u.to /\ Limit - u.to < 16
    BY <1>2, <1>3, <1>6 DEF HolesOK, Holes
  <2>2. t.to <= Limit /\ u.to <= Limit /\ Limit \in Nat
    BY <1>2, <1>3, <1>5, <2>1, LimitFacts DEF Partition
  <2>3. t.to <= u.from \/ u.to <= t.from
    BY <1>3, <1>6 DEF Partition, Disjoint, Apart
  <2> QED
    BY <1>5, <2>1, <2>2, <2>3
<1>7. ASSUME t.from # HeapEnd
      PROVE  \E u \in heap.holes : u.of = "program" /\ u.to = t.from
  <2>1. PICK u \in T : u.to = t.from
    BY <1>3, <1>4, <1>7
  <2>2. u.from \in Nat /\ u.to \in Nat /\ u.from < u.to /\ u # t
    BY <1>3, <1>5, <2>1 DEF Partition, Proper
  <2>3. u \in heap.holes
    <3> SUFFICES ASSUME u \notin heap.holes
                 PROVE  FALSE
      OBVIOUS
    <3>1. PICK c \in ChunksOf(live) \cup Range(heap.free), who \in {"live", "free"} :
            u = Tile(c, who)
      BY <1>1, TilesAre, Zenon DEF T, TilesOf
    <3>2. ChunkOK(c)
      BY <1>1 DEF Whole
    <3>3. u.to = c.addr - 4 + c.size
      BY <3>1, TileFacts
    <3> DEFINE a == c.addr
               n == c.size
    <3>4. a \in Nat /\ n \in Nat /\ a % 16 = 0 /\ n % 16 = 0 /\ 16 <= n /\ 16 <= a
      BY <3>2 DEF ChunkOK, Chunks
    <3>5. u.to = a - 4 + n
      BY <3>3
    <3> HIDE DEF a, n
    <3>6. (a - 4 + n + 4) % 16 = 0
      BY <3>4
    <3> QED
      BY <1>5, <2>1, <3>5, <3>6
  <2>4. u.of # "pad"
    BY <1>3, <1>5, <2>1, <2>3 DEF HolesOK
  <2>5. u.of # "lost"
    BY <1>6, <2>2, <2>3
  <2>6. u.of \in {"pad", "lost", "program"}
    BY <1>2, <2>3 DEF Holes
  <2> QED
    BY <2>1, <2>3, <2>4, <2>5, <2>6
<1> QED
  BY <1>6, <1>7

\* chunks are large enough, and those of memalign aligned.
LEMMA InvFitsAndAligned == HeapInv => FitsAndAligned
<1> SUFFICES ASSUME HeapInv PROVE FitsAndAligned
  OBVIOUS
<1>1. ASSUME NEW b \in live PROVE b.req <= b.size - HeadSize
  <2>1. b.req + 4 <= b.size /\ b.size \in Nat /\ b.req \in Nat
    BY SizesFacts DEF HeapInv, Sound
  <2> QED
    BY <2>1
<1>2. ASSUME NEW n \in Aligns \ {0}, NEW req \in Requests
      PROVE  LET c == Memalign(heap, n, req).c IN c = NoChunk \/ c.addr % n = 0
  <2>1. n \in Nat /\ n # 0 /\ req \in Nat
    BY HeapAssumption DEF HeapAssumption
  <2>2. Good(heap, ChunksOf(live))
    BY DEF HeapInv, Sound
  <2> QED
    BY ONLY <2>1, <2>2, MemalignGood
<1> QED
  BY <1>1, <1>2 DEF FitsAndAligned

\* Padding begins where no chunk and no padding ends, so only at the heap's begin:
\* two free chunks with nothing else about would touch.
LEMMA InvAllComesBack == HeapInv => AllComesBack
<1> SUFFICES ASSUME HeapInv, live = {}, \A t \in heap.holes : t.of = "pad"
             PROVE  IF Arena = 0 THEN heap.free = <<>>
                    ELSE Len(heap.free) = 1 /\ heap.free[1].size = Arena
  BY DEF AllComesBack
<1> DEFINE T == Tiles
           f == heap.free
<1>1. Whole(heap, ChunksOf(live)) /\ Sorted(f) /\ f \in Seq(Chunks)
  BY WholeFacts DEF HeapInv, Sound, Good
<1>2. /\ heap.brk \in Nat /\ HeapEnd <= heap.brk /\ heap.top \in Nat /\ heap.start \in Nat
      /\ heap.holes \subseteq Holes /\ Len(f) \in Nat
  BY <1>1, WholeFacts, LenProperties DEF Heaps
<1>3. Partition(T, heap.brk) /\ Ends(T, heap.start, heap.top) /\ HolesOK(heap.holes)
  BY <1>1, TilesAre DEF Whole
<1>4. {t.to : t \in T} \cup {HeapEnd} = {t.from : t \in T} \cup {heap.brk}
  BY <1>2, <1>3, TilesFollow
<1>5. ASSUME NEW i \in 1 .. Len(f)
      PROVE  /\ ChunkOK(f[i]) /\ Tile(f[i], "free") \in T
             /\ f[i].addr \in Nat /\ f[i].size \in Nat /\ 16 <= f[i].size /\ 16 <= f[i].addr
             /\ f[i].addr % 16 = 0 /\ f[i].size % 16 = 0
             /\ HeapEnd + 4 <= f[i].addr
             /\ Tile(f[i], "free").from = f[i].addr - 4
             /\ Tile(f[i], "free").to = f[i].addr - 4 + f[i].size
             /\ Tile(f[i], "free").of = "free"
  <2>1. f[i] \in Range(f)
    BY <1>1, RangeFacts
  <2>2. ChunkOK(f[i]) /\ HeapEnd + 4 <= f[i].addr
    BY <1>1, <2>1, WholeFacts
  <2>3. Tile(f[i], "free") \in T
    BY <2>1 DEF Tiles
  <2> QED
    BY <2>2, <2>3, ChunkFacts, TileFacts
<1>6. ASSUME NEW t \in T
      PROVE  \/ \E i \in 1 .. Len(f) : t = Tile(f[i], "free")
             \/ t \in heap.holes
  <2>1. t \in heap.holes \/ \E c \in Range(f) : t = Tile(c, "free")
    BY Zenon DEF Tiles
  <2> QED
    BY <1>1, <2>1, RangeFacts
<1>7. ASSUME NEW t \in heap.holes
      PROVE  /\ t \in T /\ t.of = "pad" /\ t.from \in Nat /\ t.to \in Nat
             /\ (t.from + 4) % 16 # 0 /\ (t.to + 4) % 16 = 0
  BY <1>2, <1>3, Zenon DEF HolesOK, Holes, Tiles
<1> HIDE DEF T, f
<1>8. ASSUME NEW t \in T PROVE t.to \in Nat /\ (t.to + 4) % 16 = 0
  <2>1. CASE \E i \in 1 .. Len(f) : t = Tile(f[i], "free")
    <3>1. PICK i \in 1 .. Len(f) : t = Tile(f[i], "free")
      BY <2>1
    <3>2. /\ t.to = f[i].addr - 4 + f[i].size /\ f[i].addr \in Nat /\ f[i].size \in Nat
          /\ f[i].addr % 16 = 0 /\ f[i].size % 16 = 0 /\ 16 <= f[i].size
      BY <1>5, <3>1
    <3> DEFINE a == f[i].addr
               n == f[i].size
    <3>3. t.to = a - 4 + n /\ a \in Nat /\ n \in Nat /\ a % 16 = 0 /\ n % 16 = 0 /\ 16 <= n
      BY <3>2
    <3> HIDE DEF a, n
    <3>4. a - 4 + n \in Nat /\ (a - 4 + n + 4) % 16 = 0
      BY <3>3
    <3> QED
      BY <3>3, <3>4
  <2>2. CASE t \in heap.holes
    BY <1>7, <2>2
  <2> QED
    BY <1>6, <2>1, <2>2
<1>9. ASSUME NEW t \in heap.holes PROVE t.from = HeapEnd
  <2> SUFFICES ASSUME t.from # HeapEnd PROVE FALSE
    OBVIOUS
  <2>1. t.from \in {u.to : u \in T} \cup {HeapEnd}
    BY <1>4, <1>7
  <2>2. PICK u \in T : u.to = t.from
    BY <2>1
  <2> QED
    BY <1>7, <1>8, <2>2
<1>10. ASSUME 2 <= Len(f) PROVE FALSE
  <2> DEFINE c == f[1]
             d == f[2]
             tc == Tile(c, "free")
             td == Tile(d, "free")
  <2>1. 1 \in 1 .. Len(f) /\ 2 \in 1 .. Len(f) /\ 1 < 2
    BY <1>2, <1>10
  <2>2. After(c) < d.addr
    BY <1>1, <2>1 DEF Sorted
  <2>3. /\ c.addr \in Nat /\ c.size \in Nat /\ d.addr \in Nat /\ 16 <= c.size
        /\ HeapEnd + 4 <= c.addr /\ tc \in T /\ td \in T
        /\ tc.from = c.addr - 4 /\ tc.to = c.addr - 4 + c.size /\ td.from = d.addr - 4
    BY <1>5, <2>1
  <2>4. After(c) = c.addr + c.size
    BY DEF After
  <2>5. td.from \in {u.to : u \in T} \cup {HeapEnd}
    BY <1>4, <2>3
  <2>6. td.from # HeapEnd
    BY <2>2, <2>3, <2>4, LimitFacts
  <2>7. PICK u \in T : u.to = td.from
    BY <2>5, <2>6
  <2>8. CASE \E k \in 1 .. Len(f) : u = Tile(f[k], "free")
    <3>1. PICK k \in 1 .. Len(f) : u = Tile(f[k], "free")
      BY <2>8
    <3>2. /\ u.to = f[k].addr - 4 + f[k].size /\ f[k].addr \in Nat /\ f[k].size \in Nat
          /\ 16 <= f[k].size /\ After(f[k]) = f[k].addr + f[k].size
      BY <1>5, <3>1 DEF After
    <3>3. After(f[k]) = d.addr
      <4> HIDE DEF td, tc, c, d
      <4> DEFINE a == f[k].addr
                 n == f[k].size
      <4>1. u.to = d.addr - 4 /\ u.to = a - 4 + n /\ After(f[k]) = a + n
        BY <2>3, <2>7, <3>2
      <4>2. a \in Nat /\ n \in Nat /\ d.addr \in Nat
        BY <2>3, <3>2
      <4> HIDE DEF a, n
      <4> QED
        BY <4>1, <4>2
    <3>4. k # 2
      BY <3>2, <3>3
    <3>5. CASE k < 2
      <4>1. After(f[k]) < d.addr
        BY <1>1, <2>1, <3>5 DEF Sorted
      <4> QED
        BY <2>3, <3>3, <4>1
    <3>6. CASE 2 < k
      <4>1. After(d) < f[k].addr
        BY <1>1, <2>1, <3>6 DEF Sorted
      <4>2. After(d) = d.addr + d.size /\ d.size \in Nat
        BY <1>5, <2>1 DEF After
      <4> QED
        BY <2>3, <3>2, <3>3, <4>1, <4>2
    <3> QED
      BY <3>4, <3>5, <3>6
  <2>9. CASE u \in heap.holes
    <3>1. u.from = HeapEnd /\ u.to = d.addr - 4
      BY <1>9, <2>3, <2>7, <2>9
    <3>2. u # tc
      BY <1>5, <1>7, <2>1, <2>9
    <3>3. Apart(u, tc)
      BY <1>3, <2>3, <3>2 DEF Partition, Disjoint
    <3> HIDE DEF tc, td, c, d
    <3> QED
      BY <2>2, <2>3, <2>4, <3>1, <3>3, LimitFacts DEF Apart
  <2> QED
    BY <1>6, <2>7, <2>8, <2>9
<1>11. Chunky(T) = {Tile(f[i], "free") : i \in 1 .. Len(f)} /\ Mine(T) = Chunky(T)
  <2>1. \A t \in T : t \in heap.holes => t.of = "pad"
    BY <1>7
  <2>2. \A i \in 1 .. Len(f) : Tile(f[i], "free") \in T /\ Tile(f[i], "free").of = "free"
    BY <1>5
  <2> QED
    BY <1>6, <2>1, <2>2 DEF Chunky, Mine
<1>12. CASE Len(f) = 0
  <2>1. f = <<>>
    BY <1>1, <1>12, EmptySeq
  <2>2. ~Covers(Chunky(T), heap.start)
    BY <1>11, <1>12 DEF Covers
  <2>3. heap.start = Null
    BY <1>3, <2>2 DEF Ends
  <2> QED
    BY <2>1, <2>3 DEF Arena, f
<1>13. CASE Len(f) = 1
  <2> DEFINE c == f[1]
             t == Tile(c, "free")
  <2>1. /\ c.addr \in Nat /\ c.size \in Nat /\ 16 <= c.size /\ 16 <= c.addr
        /\ t.from = c.addr - 4 /\ t.to = c.addr - 4 + c.size
    BY <1>5, <1>13
  <2>2. Chunky(T) = {t} /\ Mine(T) = {t}
    BY <1>11, <1>13
  <2> HIDE DEF t
  <2>3. \A x : Covers(Chunky(T), x) <=> c.addr - 4 <= x /\ x < c.addr - 4 + c.size
    BY <2>1, <2>2 DEF Covers, In
  <2>4. \A x : Covers(Mine(T), x) <=> c.addr - 4 <= x /\ x < c.addr - 4 + c.size
    BY <2>1, <2>2 DEF Covers, In
  <2> DEFINE last == c.addr - 4 + c.size - 1
  <2>5. c.addr - 4 \in Nat /\ last \in Nat /\ Covers(Chunky(T), c.addr - 4) /\ Covers(Chunky(T), last)
    BY <2>1, <2>3
  <2>6. /\ heap.start # 0 /\ heap.start <= c.addr - 4 /\ last < heap.top
    BY <1>3, <2>5 DEF Ends, Null
  <2>7. Covers(Chunky(T), heap.start) /\ Covers(Mine(T), heap.top - 1)
    BY <1>2, <1>3, <2>1, <2>6 DEF Ends, Null
  <2>8. c.addr - 4 <= heap.start /\ heap.top - 1 < c.addr - 4 + c.size
    BY <2>3, <2>4, <2>7
  <2>9. heap.start = c.addr - 4 /\ heap.top = c.addr - 4 + c.size
    <3> DEFINE a == c.addr
               n == c.size
               start == heap.start
               top == heap.top
    <3>1. /\ a \in Nat /\ n \in Nat /\ start \in Nat /\ top \in Nat
          /\ start <= a - 4 /\ a - 4 + n - 1 < top /\ a - 4 <= start /\ top - 1 < a - 4 + n
      BY <1>2, <2>1, <2>6, <2>8
    <3> HIDE DEF a, n, start, top
    <3>2. start = a - 4 /\ top = a - 4 + n
      BY <3>1
    <3> QED
      BY <3>2 DEF a, n, start, top
  <2>10. Arena = c.size /\ Arena # 0
    BY <2>1, <2>6, <2>9 DEF Arena, Null
  <2> QED
    BY <1>13, <2>10 DEF f
<1>14. Len(f) = 0 \/ Len(f) = 1
  <2> DEFINE n == Len(f)
  <2>1. n \in Nat /\ ~(2 <= n)
    BY <1>2, <1>10
  <2> HIDE DEF n
  <2>2. n = 0 \/ n = 1
    BY <2>1
  <2> QED
    BY <2>2 DEF n
<1> QED
  BY <1>12, <1>13, <1>14, Zenon

-----------------------------------------------------------------------------
(* The promise of an allocator.                                            *)

\* A block as a program sees it.
Seen(b) == [addr |-> b.addr, req |-> b.req]
SeenOf(bs) == {Seen(b) : b \in bs}

\* Two blocks have the bytes between their headers to themselves.
LEMMA BlocksApart ==
  ASSUME NEW h, NEW bs, Sound(h, bs), NEW b \in bs
  PROVE  /\ b.addr \in HeapEnd .. Limit /\ b.addr % 16 = 0 /\ b.req \in Sizes
         /\ b.addr + b.req <= Limit
         /\ \A d \in bs : d # b =>
              b.addr # d.addr /\ (b.addr + b.req <= d.addr \/ d.addr + d.req <= b.addr)
<1>1. Whole(h, ChunksOf(bs))
  BY DEF Sound, Good
<1>2. ASSUME NEW d \in bs
      PROVE  /\ Chunk(d) \in ChunksOf(bs) /\ ChunkOK(Chunk(d))
             /\ Chunk(d).addr = d.addr /\ Chunk(d).size = d.size
             /\ After(Chunk(d)) = d.addr + d.size
             /\ HeapEnd + 4 <= d.addr /\ d.addr + d.size <= h.brk + 4
             /\ d.addr \in Nat /\ d.size \in Nat /\ d.req \in Nat /\ d.req \in Sizes
             /\ d.req + 4 <= d.size /\ d.addr % 16 = 0
  <2>1. Chunk(d) \in ChunksOf(bs) /\ Chunk(d).addr = d.addr /\ Chunk(d).size = d.size
    BY DEF ChunksOf, Chunk
  <2>2. ChunkOK(Chunk(d)) /\ HeapEnd + 4 <= Chunk(d).addr /\ After(Chunk(d)) <= h.brk + 4
    BY <1>1, <2>1, WholeFacts
  <2>3. After(Chunk(d)) = d.addr + d.size
    BY <2>1 DEF After
  <2>4. d.addr \in Nat /\ d.size \in Nat /\ d.req \in Sizes /\ d.req + 4 <= d.size /\ d.req \in Nat
    BY SizesFacts DEF Sound
  <2>5. d.addr % 16 = 0
    BY <2>1, <2>2 DEF ChunkOK
  <2> QED
    BY <2>1, <2>2, <2>3, <2>4, <2>5
<1>3. h.brk \in Nat /\ h.brk <= Limit
  BY <1>1, WholeFacts
<1>4. b.addr \in HeapEnd .. Limit /\ b.addr + b.req <= Limit
  <2> DEFINE a == b.addr
             n == b.size
             q == b.req
             k == h.brk
  <2>1. /\ a \in Nat /\ n \in Nat /\ q \in Nat /\ k \in Nat /\ k <= Limit
        /\ HeapEnd + 4 <= a /\ a + n <= k + 4 /\ q + 4 <= n
    BY <1>2, <1>3
  <2> HIDE DEF a, n, q, k
  <2>2. a \in HeapEnd .. Limit /\ a + q <= Limit
    BY <2>1, LimitFacts
  <2> QED
    BY <2>2 DEF a, q
<1>5. ASSUME NEW d \in bs, d # b
      PROVE  b.addr # d.addr /\ (b.addr + b.req <= d.addr \/ d.addr + d.req <= b.addr)
  <2>1. b.addr # d.addr
    BY <1>5 DEF Sound
  <2>2. Chunk(b) # Chunk(d)
    BY <1>2, <2>1
  <2>3. Clear(Chunk(b), Chunk(d))
    BY <1>1, <1>2, <2>2, WholeFacts
  <2>4. b.addr + b.size <= d.addr \/ d.addr + d.size <= b.addr
    BY <1>2, <2>3 DEF Clear
  <2> DEFINE a == b.addr
             n == b.size
             q == b.req
             e == d.addr
             m == d.size
             p == d.req
  <2>5. /\ a \in Nat /\ n \in Nat /\ q \in Nat /\ e \in Nat /\ m \in Nat /\ p \in Nat
        /\ q + 4 <= n /\ p + 4 <= m /\ (a + n <= e \/ e + m <= a)
    BY <1>2, <2>4
  <2> HIDE DEF a, n, q, e, m, p
  <2>6. a + q <= e \/ e + p <= a
    BY <2>5
  <2> QED
    BY <2>1, <2>6 DEF a, q, e, p
<1> QED
  BY <1>2, <1>4, <1>5

\* A block that comes beside others is one the promise allows.
LEMMA Allowed ==
  ASSUME NEW h, NEW bs, NEW b, Sound(h, bs \cup {b}), b \notin bs
  PROVE  Seen(b) \in Promise!Candidates(SeenOf(bs))
<1> DEFINE cs == bs \cup {b}
           v == Seen(b)
<1>1. b \in cs /\ Sound(h, cs)
  OBVIOUS
<1> HIDE DEF cs
<1>2. /\ b.addr \in HeapEnd .. Limit /\ b.addr % 16 = 0 /\ b.req \in Sizes
      /\ b.addr + b.req <= Limit
      /\ \A d \in cs : d # b =>
           b.addr # d.addr /\ (b.addr + b.req <= d.addr \/ d.addr + d.req <= b.addr)
  BY <1>1, BlocksApart
<1>3. v.addr = b.addr /\ v.req = b.req
  BY DEF Seen
<1>4. v \in [addr : Promise!Addresses, req : Sizes]
  BY <1>2 DEF Promise!Addresses, Seen
<1>5. ASSUME NEW o \in SeenOf(bs)
      PROVE  v.addr # o.addr /\ (v.addr + v.req <= o.addr \/ o.addr + o.req <= v.addr)
  <2>1. PICK d \in bs : o = Seen(d)
    BY DEF SeenOf
  <2>2. d \in cs /\ d # b /\ o.addr = d.addr /\ o.req = d.req
    BY <2>1 DEF cs, Seen
  <2> QED
    BY <1>2, <1>3, <2>2
<1>6. Promise!Fits(v, SeenOf(bs))
  BY <1>2, <1>3, <1>5 DEF Promise!Fits
<1>7. Sizes = Requests \cup {p[1] * p[2] : p \in Products}
  BY DEF Sizes
<1> HIDE DEF v
<1> QED
  BY <1>4, <1>6, <1>7 DEF Promise!Candidates, v

\* Blocks with addresses of their own are told apart by what programs see.
LEMMA SeenLeft ==
  ASSUME NEW bs, \A b, d \in bs : b.addr = d.addr => b = d, NEW b \in bs
  PROVE  SeenOf(bs \ {b}) = SeenOf(bs) \ {Seen(b)}
<1>1. \A d \in bs : Seen(d) = Seen(b) => d = b
  <2>1. \A d : Seen(d).addr = d.addr
    BY DEF Seen
  <2> QED
    BY <2>1
<1> QED
  BY <1>1, Zenon DEF SeenOf

\* A block more is seen.
LEMMA SeenMore ==
  ASSUME NEW bs, NEW b
  PROVE  SeenOf(bs \cup {b}) = SeenOf(bs) \cup {Seen(b)}
BY Zenon DEF SeenOf

Held == {[addr |-> b.addr, req |-> b.req] : b \in live}

\* What the refinement maps the blocks to.
LEMMA HeldIs == Held = SeenOf(live) /\ Held' = SeenOf(live')
BY DEF Held, SeenOf, Seen

\* A call that returns hands out a block the promise allows, or nothing.
LEMMA ReturnsAllowed ==
  ASSUME HeapInv, HeapInv', NEW r, NEW req \in Sizes,
         Took(r, ChunksOf(live), req + 4), Returns(r, req)
  PROVE  Promise!Allocate \/ Held' = Held
<1>1. CASE r.c = NoChunk
  BY <1>1 DEF Returns, Held
<1>2. CASE r.c # NoChunk
  <2> DEFINE new == Block(r.c, req)
  <2>1. live' = live \cup {new}
    BY <1>2 DEF Returns
  <2>2. new \notin live
    <3>1. r.c \notin ChunksOf(live) /\ Good(r.h, ChunksOf(live) \cup {r.c})
      BY <1>2 DEF Took
    <3>2. r.c \in ChunksOf(live) \cup {r.c}
      OBVIOUS
    <3>3. ChunkOK(r.c)
      BY ONLY <3>1, <3>2, GoodChunks
    <3>4. Chunk(new) = r.c
      BY <3>3, BlockFacts
    <3> QED
      BY <3>1, <3>4 DEF ChunksOf
  <2> HIDE DEF new
  <2>3. Sound(heap', live \cup {new})
    BY <2>1 DEF HeapInv
  <2>4. Seen(new) \in Promise!Candidates(SeenOf(live))
    BY <2>2, <2>3, Allowed
  <2>5. SeenOf(live') = SeenOf(live) \cup {Seen(new)}
    BY <2>1, SeenMore
  <2>6. Seen(new) \in Promise!Candidates(Held) /\ Held' = Held \cup {Seen(new)}
    BY <2>4, <2>5, HeldIs
  <2>7. Promise!Allocate
          <=> \E b \in Promise!Candidates(Held) : Held' = Held \cup {b}
    BY DEF Promise!Allocate, Held
  <2> QED
    BY <2>6, <2>7, Zenon
<1> QED
  BY <1>1, <1>2

\* Every call of a program is a step of the promise, or changes nothing it speaks of.
LEMMA NextKeeps == HeapInv /\ HeapInv' /\ [Next]_vars => [Promise!Next]_Held
<1> SUFFICES ASSUME HeapInv, HeapInv', [Next]_vars
             PROVE  Promise!Allocate \/ Promise!Release \/ Promise!Resize \/ Held' = Held
  BY DEF Promise!Next
<1> USE HeapAssumption DEF HeapAssumption
<1>0. Sound(heap, live)
  BY DEF HeapInv
<1>1. CASE CallMalloc
  <2>1. PICK req \in Requests : Returns(Malloc(heap, req), req)
    BY <1>1 DEF CallMalloc
  <2>2. req \in Sizes
    BY DEF Sizes
  <2>3. Took(Malloc(heap, req), ChunksOf(live), req + 4)
    BY <1>0, <2>2, MallocSound
  <2> QED
    BY <2>1, <2>2, <2>3, ReturnsAllowed
<1>2. CASE CallCalloc
  <2>1. PICK p \in Products : Returns(Malloc(heap, p[1] * p[2]), p[1] * p[2])
    BY <1>2 DEF CallCalloc
  <2> DEFINE req == p[1] * p[2]
  <2>2. req \in Sizes
    BY Zenon DEF Sizes
  <2>3. Returns(Malloc(heap, req), req)
    BY <2>1
  <2> HIDE DEF req
  <2>4. Took(Malloc(heap, req), ChunksOf(live), req + 4)
    BY <1>0, <2>2, MallocSound
  <2> QED
    BY <2>2, <2>3, <2>4, ReturnsAllowed
<1>3. CASE CallMemalign
  <2>1. PICK n \in Aligns, req \in Requests : Returns(Memalign(heap, n, req), req)
    BY <1>3 DEF CallMemalign
  <2>2. req \in Sizes
    BY DEF Sizes
  <2>3. n \in Nat
    OBVIOUS
  <2>4. Took(Memalign(heap, n, req), ChunksOf(live), req + 4)
    BY <1>0, <2>2, <2>3, MemalignSound
  <2> QED
    BY <2>1, <2>2, <2>4, ReturnsAllowed
<1>4. CASE CallFree
  <2>1. PICK b \in live : live' = live \ {b}
    BY <1>4 DEF CallFree
  <2>2. SeenOf(live \ {b}) = SeenOf(live) \ {Seen(b)}
    BY <1>0, SeenLeft DEF Sound
  <2>3. Seen(b) \in Held /\ Held' = Held \ {Seen(b)}
    BY <2>1, <2>2, HeldIs DEF SeenOf
  <2>4. Promise!Release <=> \E o \in Held : Held' = Held \ {o}
    BY DEF Promise!Release, Held
  <2> QED
    BY <2>3, <2>4, Zenon
<1>5. CASE CallRealloc
  <2>1. PICK b \in live, req \in Requests :
          live' = (live \ {b}) \cup {Block(Realloc(heap, Chunk(b), req).c,
                                           IF Realloc(heap, Chunk(b), req).ok THEN req ELSE b.req)}
    BY <1>5, Zenon DEF CallRealloc
  <2>2. req \in Sizes
    BY DEF Sizes
  <2> DEFINE r == Realloc(heap, Chunk(b), req)
  <2>3. Moves(r, ChunksOf(live), Chunk(b), req + 4)
    BY <1>0, <2>2, ReallocSound
  <2>4. live' = (live \ {b}) \cup {Block(r.c, IF r.ok THEN req ELSE b.req)}
    BY <2>1
  <2> HIDE DEF r
  <2>5. CASE r.ok = FALSE
    <3>1. live' = (live \ {b}) \cup {Block(r.c, b.req)}
      BY <2>4, <2>5, Zenon
    <3>2. live' = live
      BY <1>0, <2>2, <2>3, <2>5, <3>1, MovesSound
    <3> QED
      BY <3>2, HeldIs
  <2>6. CASE r.ok = TRUE
    <3> DEFINE left == live \ {b}
               new == Block(r.c, req)
    <3>1. live' = left \cup {new}
      BY <2>4, <2>6, Zenon
    <3>2. ChunksOf(left) = ChunksOf(live) \ {Chunk(b)}
      BY <1>0, ChunksLeft DEF Sound
    <3>3. new \notin left
      <4> DEFINE M == ChunksOf(live) \ {Chunk(b)}
      <4>1. r.c \notin M /\ Good(r.h, M \cup {r.c})
        BY <2>3, <2>6 DEF Moves
      <4>2. r.c \in M \cup {r.c}
        OBVIOUS
      <4> HIDE DEF M
      <4>3. ChunkOK(r.c)
        BY ONLY <4>1, <4>2, GoodChunks
      <4>4. Chunk(new) = r.c
        BY <4>3, BlockFacts
      <4>5. r.c \notin ChunksOf(left)
        BY <3>2, <4>1 DEF M
      <4> QED
        BY <4>4, <4>5 DEF ChunksOf
    <3> HIDE DEF new
    <3>4. SeenOf(left) = SeenOf(live) \ {Seen(b)}
      BY <1>0, SeenLeft DEF Sound
    <3> HIDE DEF left
    <3>5. Sound(heap', left \cup {new})
      BY <3>1 DEF HeapInv
    <3>6. Seen(new) \in Promise!Candidates(SeenOf(left))
      BY <3>3, <3>5, Allowed
    <3>7. SeenOf(live') = SeenOf(left) \cup {Seen(new)}
      BY <3>1, SeenMore
    <3>8. /\ Seen(b) \in Held /\ Seen(new) \in Promise!Candidates(Held \ {Seen(b)})
          /\ Held' = (Held \ {Seen(b)}) \cup {Seen(new)}
      BY <3>4, <3>6, <3>7, HeldIs DEF SeenOf
    <3>9. Promise!Resize
            <=> \E o \in Held : \E n \in Promise!Candidates(Held \ {o}) :
                  Held' = (Held \ {o}) \cup {n}
      BY DEF Promise!Resize, Held
    <3> QED
      BY <3>8, <3>9, Zenon
  <2>7. r.ok = TRUE \/ r.ok = FALSE
    BY <2>3 DEF Moves
  <2> QED
    BY <2>5, <2>6, <2>7
<1>6. CASE CallSbrk \/ CallSbrkBack
  BY <1>6 DEF CallSbrk, CallSbrkBack, Held
<1>7. CASE UNCHANGED vars
  BY <1>7 DEF vars, Held
<1> QED
  BY <1>1, <1>2, <1>3, <1>4, <1>5, <1>6, <1>7 DEF Next

-----------------------------------------------------------------------------
(* What holds of every heap.                                               *)

\* Start-up leaves, and every call keeps, a break within the limits, malloc's
\* two variables null or within them too, a list of chunks and blocks of sizes that
\* were asked for (sbrk.c:17-31, malloc.c:39-40).
THEOREM HeapTypes == Spec => []TypeOK
BY HeapInvariant, InvTypeOK, PTL

\* No call hands out a byte twice or drops one, whatever a program asks for and in
\* whichever order it frees: up to the break each byte is in one chunk, in padding,
\* in what a failed call lost, or the program's own (malloc.c:49-234,
\* free.c:81-120 and realloc.c:35-140).
THEOREM SharedOut == Spec => []Tiled
BY HeapInvariant, InvTiled, PTL

\* free leaves the list in the order of addresses and merges all that touches,
\* also when what sbrk gave to grow a chunk did not follow on it (free.c:81-120, malloc.c:120-123).
THEOREM ListInOrder == Spec => []FreeInOrder
BY HeapInvariant, InvFreeInOrder, PTL

\* What a program asked for fits in its chunk for every size up to SIZE_MAX, and
\* what memalign cuts out of a larger chunk has every alignment that is a power of 2
\* (malloc.c:138-143 and memalign.c:45-106).
THEOREM AsAskedFor == Spec => []FitsAndAligned
BY HeapInvariant, InvFitsAndAligned, PTL

\* When sbrk cannot give the bytes to align with, what it has given already is lost:
\* once at most, and never above malloc's own chunks (malloc.c:90-93).
THEOREM LosesOnce == Spec => []LostOnce
BY HeapInvariant, InvLostOnce, PTL

\* Once a program has freed all it held there is one free chunk, as large as the
\* arena mallinfo reports, whatever came before (free.c:81-120).
THEOREM OneChunkAgain == Spec => []AllComesBack
BY HeapInvariant, InvAllComesBack, PTL

\* malloc, calloc, realloc, memalign and free over sbrk implement the allocator
\* programs count on: a call hands out a block that lies apart from all others, or
\* resizes or releases the one it is given, and touches no other.
THEOREM Implements == Spec => KeepsPromise
<1>1. Init => Held = {}
  BY DEF Init, Held
<1>2. HeapInv /\ HeapInv' /\ [Next]_vars => [Promise!Next]_Held
  BY NextKeeps
<1>3. Spec => []HeapInv
  BY HeapInvariant
<1>4. Promise!Init <=> Held = {}
  BY DEF Promise!Init, Held
<1> QED
  BY <1>1, <1>2, <1>3, <1>4, PTL DEF Spec, KeepsPromise, Promise!Spec, Held

\* What the comments of malloc.c:202 and realloc.c:89 mean to happen never does, in
\* any heap a program can bring about: a free chunk is not grown, because its end is
\* read with the bit that marks it free, and a held one is not merged with the free
\* chunk above, because that one's header is not where a payload is.
RoomUnused ==
  /\ \A c \in Range(heap.free), size \in Nat :
       size % 16 = 0 /\ c.size < size => GrowChunk(heap, c, TRUE, size).ok = FALSE
  /\ \A b \in live : MergeNext(heap, Chunk(b)) = [h |-> heap, size |-> b.size]

\* No heap of Heap's grows or merges where the code looks for room in place
\* (malloc.c:106 with local-malloc.h:263, realloc.c:93).
THEOREM NeverInPlace == Spec => []RoomUnused
<1>1. HeapInv => RoomUnused
  <2> SUFFICES ASSUME HeapInv PROVE RoomUnused
    OBVIOUS
  <2>1. Good(heap, ChunksOf(live)) /\ Whole(heap, ChunksOf(live))
    BY DEF HeapInv, Sound, Good
  <2>2. ASSUME NEW c \in Range(heap.free), NEW size \in Nat, size % 16 = 0, c.size < size
        PROVE  GrowChunk(heap, c, TRUE, size).ok = FALSE
    <3>1. ChunkOK(c)
      BY <2>1, WholeFacts
    <3>2. 16 <= size
      BY <2>2, <3>1, ChunkFacts
    <3> DEFINE r == GrowChunk(heap, c, TRUE, size)
    <3>3. r.ok = FALSE /\ Good(r.h, ChunksOf(live))
      BY <2>1, <2>2, <3>1, <3>2, GrowFreeGood
    <3> QED
      BY <3>3
  <2>3. ASSUME NEW b \in live
        PROVE  MergeNext(heap, Chunk(b)) = [h |-> heap, size |-> b.size]
    <3> DEFINE c == Chunk(b)
    <3>1. c \in ChunksOf(live) /\ c.size = b.size
      BY DEF ChunksOf, Chunk
    <3> HIDE DEF c
    <3>2. ChunkOK(c)
      BY <2>1, <3>1, GoodChunks
    <3>3. MergeNext(heap, c) = [h |-> heap, size |-> c.size]
      BY ONLY <2>1, <3>2, MergeNextNever
    <3>4. MergeNext(heap, c) = [h |-> heap, size |-> b.size]
      BY <3>1, <3>3
    <3> QED
      BY <3>4 DEF c
  <2> QED
    BY <2>2, <2>3 DEF RoomUnused
<1> QED
  BY <1>1, HeapInvariant, PTL

=============================================================================
