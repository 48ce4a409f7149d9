----------------------------- MODULE ToolProofs -----------------------------
(***************************************************************************)
(* Proofs about the tools: Docskit, for every description of a register,   *)
(* of any number of fields, and every width of a register; and Slip, for   *)
(* any responses and any text (of bytes other than END, ESC and the one    *)
(* that responses begin with), written any number of times.                *)
(*                                                                         *)
(* Docskit.  WordMeansRight rests on the distance total - last between the *)
(* end of the struct and the bit the generator believes it is at: each     *)
(* field is off its bits by that distance after it, the distance never     *)
(* shrinks, and with it the struct is too wide.  FieldsOnTheirBits rests   *)
(* on the order: in a proper register no field that is left begins before  *)
(* the last ended.                                                         *)
(*                                                                         *)
(* Slip.  The invariant divides all bytes the chip has written at the      *)
(* ENDs: each part between two of them is a packet or junk, and the host   *)
(* is in one of them, after as many packets as it has returned (Story).    *)
(* Text makes no packet of junk, unless it comes right behind a piece of a *)
(* packet that it may complete (JunkAndText): the properties are proved    *)
(* for as long as that has not happened.  Check_response refuses all junk, *)
(* for any command (JunkIsRefused).  The codec's facts are proved by       *)
(* induction over the bytes, for which WFMin stands in with a set for the  *)
(* predicate.                                                              *)
(***************************************************************************)
EXTENDS Docskit, Slip, SequenceTheorems, WellFoundedInduction, TLAPS

Copies == [k : Nat, i : Nat, msb : Nat, lsb : Nat]

TypeOK ==
  /\ \E n \in 0 .. MaxFields : reg \in [1 .. n -> Fields]
  /\ pc \in {"expand", "emit", "done", "raised"}
  /\ left \subseteq Copies
  /\ \A p \in placed : p.field \in Copies /\ p.at \in Int
  /\ last \in Int /\ total \in Int

\* No field lies before its bits, and none lies further behind them than the struct is
\* ahead of the generator.
DriftInv ==
  /\ pc \in {"expand", "emit"} =>
       /\ last <= total
       /\ \A p \in placed : 0 <= p.at - p.field.lsb /\ p.at - p.field.lsb <= total - last
  /\ pc = "done" =>
       \A p \in placed : 0 <= p.at - p.field.lsb /\ p.at - p.field.lsb <= total - WordBits

\* A proper register on its way: nothing is lost, nothing drifts, and what is left
\* begins where the last field ended or after.
ProperInv ==
  Proper =>
    /\ pc = "emit" => total = last /\ last <= WordBits
    /\ pc \in {"emit", "done"} =>
         /\ left \cup {p.field : p \in placed} = Expanded
         /\ \A p \in placed : p.at = p.field.lsb
         /\ \A g \in left : last <= g.lsb
    /\ pc = "done" => left = {} /\ total = WordBits

\* Nothing is emitted before all is expanded.
FreshInv == pc = "expand" => placed = {} /\ last = 0 /\ total = 0

DocskitInv == TypeOK /\ FreshInv /\ DriftInv /\ ProperInv

\* A constant the arithmetic needs.
LEMMA Word == WordBits \in Nat
  BY DocskitAssumption

\* What the reserved bits before bit b come to.
LEMMA GapFacts ==
  ASSUME last \in Int, NEW b \in Int
  PROVE  Gap(b) \in Int /\ Gap(b) >= 0 /\ Gap(b) >= b - last /\ (last <= b => Gap(b) = b - last)
  BY DEF Gap

\* A copy that can be read has natural ends.
LEMMA CopiesAreNatural ==
  ASSUME \E n \in 0 .. MaxFields : reg \in [1 .. n -> Fields], AllReadable
  PROVE  Expanded \subseteq Copies
  <1>. SUFFICES ASSUME NEW f \in Expanded PROVE f \in Copies
    OBVIOUS
  <1>1. PICK n \in 0 .. MaxFields : reg \in [1 .. n -> Fields]
    OBVIOUS
  <1>2. PICK k \in DOMAIN reg :
          f \in {Copy(k, i) : i \in 0 .. (IF reg[k].count = Absent THEN 0 ELSE reg[k].count - 1)}
    BY DEF Expanded
  <1>3. reg[k] \in Field /\ k \in Nat
    BY <1>1, DocskitAssumption
  <1>4. PICK i \in 0 .. (IF reg[k].count = Absent THEN 0 ELSE reg[k].count - 1) : f = Copy(k, i)
    BY <1>2
  <1>. DEFINE d == i * Stride(reg[k])
  <1>5. i \in Nat
    BY <1>3, <1>4 DEF Field, Absent
  <1>6. reg[k].msb \in Int /\ reg[k].lsb \in Int /\ Stride(reg[k]) \in Int
    BY <1>3 DEF Field, Stride, Width, Absent, Unreadable
  <1>7. d \in Int
    BY <1>5, <1>6
  <1>8. f = [k |-> k, i |-> i, msb |-> reg[k].msb + d, lsb |-> reg[k].lsb + d]
    BY <1>4 DEF Copy
  <1>9. f.msb >= 0 /\ f.lsb >= 0
    BY DEF AllReadable, Readable
  <1>. HIDE DEF d
  <1>10. reg[k].msb + d \in Nat /\ reg[k].lsb + d \in Nat
    BY <1>6, <1>7, <1>8, <1>9
  <1>. QED
    BY <1>3, <1>5, <1>8, <1>10 DEF Copies

\* All but the generator's own variables depends on the description only.
LEMMA SameReg ==
  ASSUME reg' = reg
  PROVE  Expanded' = Expanded /\ (AllReadable <=> AllReadable') /\ (Proper <=> Proper')
  <1>1. Expanded' = Expanded
    BY DEF Expanded, Copy, Stride, Width
  <1>2. AllReadable <=> AllReadable'
    BY <1>1 DEF AllReadable, Readable
  <1>. QED
    BY <1>1, <1>2 DEF Proper, Bits

\* In a proper register what comes after a field begins after its end.
LEMMA NextBegins ==
  ASSUME Proper, NEW f \in Expanded, NEW g \in Expanded, f # g, Before(f, g),
         f \in Copies, g \in Copies
  PROVE  f.msb + 1 <= g.lsb
  <1>1. g.lsb \in Bits(g)
    BY DEF Proper, Bits, Copies
  <1>2. g.lsb \notin Bits(f)
    BY <1>1 DEF Proper
  <1>3. f.lsb <= g.lsb
    BY DEF Before, Copies
  <1>. QED
    BY <1>2, <1>3 DEF Bits, Copies

\* A field of a proper register is not empty and ends within it.
LEMMA FieldEnds ==
  ASSUME Proper, NEW f \in Expanded, f \in Copies
  PROVE  f.lsb <= f.msb /\ f.msb < WordBits
  <1>1. f.lsb \in Bits(f) /\ f.msb \in Bits(f)
    BY DEF Proper, Bits, Copies
  <1>2. f.msb \in 0 .. WordBits - 1
    BY <1>1 DEF Proper
  <1>. QED
    BY <1>1, <1>2, Word DEF Bits, Copies

LEMMA ExpandStep == DocskitInv /\ Expand => DocskitInv'
  <1>. SUFFICES ASSUME DocskitInv, Expand PROVE DocskitInv'
    OBVIOUS
  <1>1. /\ pc = "expand" /\ pc' = "emit" /\ left' = Expanded
        /\ reg' = reg /\ last' = last /\ placed' = placed /\ total' = total /\ AllReadable
    BY DEF Expand
  <1>2. TypeOK'
    BY <1>1, CopiesAreNatural DEF DocskitInv, TypeOK
  <1>3. DriftInv'
    BY <1>1 DEF DocskitInv, DriftInv
  <1>4. FreshInv'
    BY <1>1 DEF FreshInv
  <1>5. ProperInv'
    <2>. SUFFICES ASSUME Proper
                  PROVE  /\ total' = last' /\ last' <= WordBits
                         /\ left' \cup {p.field : p \in placed'} = Expanded'
                         /\ \A p \in placed' : p.at = p.field.lsb
                         /\ \A g \in left' : last' <= g.lsb
      BY <1>1, SameReg DEF ProperInv
    <2>1. placed' = {} /\ last' = 0 /\ total' = 0
      BY <1>1 DEF DocskitInv, FreshInv
    <2>2. Expanded' = Expanded
      BY <1>1, SameReg
    <2>3. \A g \in left' : last' <= g.lsb
      BY <1>1, <1>2, <2>1 DEF TypeOK, Copies
    <2>. QED
      BY <1>1, <2>1, <2>2, <2>3, Word
  <1>. QED
    BY <1>2, <1>3, <1>4, <1>5 DEF DocskitInv

LEMMA EmitFieldStep == DocskitInv /\ EmitField => DocskitInv'
  <1>. SUFFICES ASSUME DocskitInv, EmitField PROVE DocskitInv'
    OBVIOUS
  <1>1. PICK f \in left :
          /\ \A g \in left \ {f} : Before(f, g)
          /\ left' = left \ {f}
          /\ placed' = placed \cup {[field |-> f, at |-> total + Gap(f.lsb)]}
          /\ total' = total + Gap(f.lsb) + Width(f)
          /\ last' = After(f)
    BY DEF EmitField
  <1>2. pc = "emit" /\ pc' = "emit" /\ reg' = reg
    BY DEF EmitField
  <1>3. /\ f \in Copies /\ f.lsb \in Nat /\ f.msb \in Nat
        /\ last \in Int /\ total \in Int
    BY DEF DocskitInv, TypeOK, Copies
  <1>4. PICK gap \in Int : gap = Gap(f.lsb) /\ gap >= 0 /\ gap >= f.lsb - last
                           /\ (last <= f.lsb => gap = f.lsb - last)
    BY <1>3, GapFacts
  <1>5. PICK P : P = [field |-> f, at |-> total + gap]
    OBVIOUS
  <1>6. P.field = f /\ P.at = total + gap /\ P.at \in Int /\ placed' = placed \cup {P}
    BY <1>1, <1>3, <1>4, <1>5
  <1>7. last' = f.msb + 1 /\ total' = total + gap + (f.msb - f.lsb + 1)
    BY <1>1, <1>4 DEF After, Width
  <1>8. TypeOK'
    BY <1>1, <1>2, <1>3, <1>6, <1>7 DEF DocskitInv, TypeOK
  <1>9. FreshInv'
    BY <1>2 DEF FreshInv
  <1>10. DriftInv'
    <2>1. last <= total /\ \A p \in placed : 0 <= p.at - p.field.lsb
              /\ p.at - p.field.lsb <= total - last
      BY <1>2 DEF DocskitInv, DriftInv
    <2>2. total - last <= total' - last' /\ last' <= total'
      BY <1>3, <1>4, <1>7, <2>1
    <2>3. 0 <= P.at - P.field.lsb /\ P.at - P.field.lsb <= total' - last'
      BY <1>3, <1>4, <1>6, <1>7, <2>1
    <2>4. \A p \in placed : p.at \in Int /\ p.field.lsb \in Int
      BY DEF DocskitInv, TypeOK, Copies
    <2>5. \A p \in placed : 0 <= p.at - p.field.lsb /\ p.at - p.field.lsb <= total' - last'
      BY <1>3, <1>4, <1>7, <2>1, <2>2, <2>4
    <2>. QED
      BY <1>2, <1>6, <2>2, <2>3, <2>5 DEF DriftInv
  <1>11. ProperInv'
    <2>. SUFFICES ASSUME Proper
                  PROVE  /\ total' = last' /\ last' <= WordBits
                         /\ left' \cup {p.field : p \in placed'} = Expanded
                         /\ \A p \in placed' : p.at = p.field.lsb
                         /\ \A g \in left' : last' <= g.lsb
      BY <1>2, SameReg DEF ProperInv
    <2>1. /\ total = last /\ last <= WordBits
          /\ left \cup {p.field : p \in placed} = Expanded
          /\ \A p \in placed : p.at = p.field.lsb
          /\ \A g \in left : last <= g.lsb
      BY <1>2 DEF DocskitInv, ProperInv
    <2>2. f \in Expanded /\ last <= f.lsb
      BY <2>1
    <2>3. gap = f.lsb - last /\ P.at = f.lsb
      BY <1>3, <1>4, <1>6, <2>1, <2>2
    <2>4. total' = last' /\ last' <= WordBits
      <3>1. f.msb < WordBits
        BY <1>3, <2>2, FieldEnds
      <3>. QED
        BY <1>3, <1>7, <2>1, <2>3, <3>1, Word
    <2>5. left' \cup {p.field : p \in placed'} = Expanded
      BY <1>1, <1>6, <2>1
    <2>6. \A p \in placed' : p.at = p.field.lsb
      BY <1>6, <2>1, <2>3
    <2>7. ASSUME NEW g \in left' PROVE last' <= g.lsb
      <3>1. g \in left \ {f} /\ g \in Copies /\ g \in Expanded
        BY <1>1, <2>1 DEF DocskitInv, TypeOK
      <3>2. Before(f, g)
        BY <1>1, <3>1
      <3>. QED
        BY <1>3, <1>7, <2>2, <3>1, <3>2, NextBegins
    <2>. QED
      BY <2>4, <2>5, <2>6, <2>7
  <1>. QED
    BY <1>8, <1>9, <1>10, <1>11 DEF DocskitInv

LEMMA EmitRestStep == DocskitInv /\ EmitRest => DocskitInv'
  <1>. SUFFICES ASSUME DocskitInv, EmitRest PROVE DocskitInv'
    OBVIOUS
  <1>1. /\ pc = "emit" /\ pc' = "done" /\ left = {} /\ left' = left
        /\ reg' = reg /\ last' = last /\ placed' = placed /\ total' = total + Gap(WordBits)
    BY DEF EmitRest
  <1>2. last \in Int /\ total \in Int
    BY DEF DocskitInv, TypeOK
  <1>3. PICK gap \in Int : gap = Gap(WordBits) /\ gap >= 0 /\ gap >= WordBits - last
                           /\ (last <= WordBits => gap = WordBits - last)
    BY <1>2, Word, GapFacts
  <1>4. total' = total + gap
    BY <1>1, <1>3
  <1>5. TypeOK'
    BY <1>1, <1>2, <1>4 DEF DocskitInv, TypeOK
  <1>6. FreshInv'
    BY <1>1 DEF FreshInv
  <1>7. DriftInv'
    <2>1. \A p \in placed : 0 <= p.at - p.field.lsb /\ p.at - p.field.lsb <= total - last
      BY <1>1 DEF DocskitInv, DriftInv
    <2>2. \A p \in placed : p.at \in Int /\ p.field.lsb \in Int
      BY DEF DocskitInv, TypeOK, Copies
    <2>3. total - last <= total' - WordBits
      BY <1>2, <1>3, <1>4, Word
    <2>4. \A p \in placed : 0 <= p.at - p.field.lsb /\ p.at - p.field.lsb <= total' - WordBits
      BY <1>2, <1>3, <1>4, <2>1, <2>2, <2>3, Word
    <2>. QED
      BY <1>1, <2>4 DEF DriftInv
  <1>8. ProperInv'
    <2>. SUFFICES ASSUME Proper
                  PROVE  /\ left' \cup {p.field : p \in placed'} = Expanded
                         /\ \A p \in placed' : p.at = p.field.lsb
                         /\ \A g \in left' : last' <= g.lsb
                         /\ left' = {} /\ total' = WordBits
      BY <1>1, SameReg DEF ProperInv
    <2>1. /\ total = last /\ last <= WordBits
          /\ left \cup {p.field : p \in placed} = Expanded
          /\ \A p \in placed : p.at = p.field.lsb
      BY <1>1 DEF DocskitInv, ProperInv
    <2>2. total' = WordBits
      BY <1>2, <1>3, <1>4, <2>1, Word
    <2>. QED
      BY <1>1, <2>1, <2>2
  <1>. QED
    BY <1>5, <1>6, <1>7, <1>8 DEF DocskitInv

\* A description that cannot be read ends the generator; the end stays.
LEMMA OtherSteps == DocskitInv /\ (Raise \/ Done \/ UNCHANGED vars) => DocskitInv'
  <1>1. ASSUME DocskitInv, Raise PROVE DocskitInv'
    <2>1. /\ pc' = "raised" /\ reg' = reg /\ left' = left /\ last' = last
          /\ placed' = placed /\ total' = total
      BY <1>1 DEF Raise
    <2>2. TypeOK'
      BY <1>1, <2>1 DEF DocskitInv, TypeOK
    <2>3. FreshInv' /\ DriftInv' /\ ProperInv'
      BY <2>1 DEF FreshInv, DriftInv, ProperInv
    <2>. QED
      BY <2>2, <2>3 DEF DocskitInv
  <1>2. ASSUME DocskitInv, UNCHANGED vars PROVE DocskitInv'
    <2>1. pc' = pc /\ reg' = reg /\ left' = left /\ last' = last /\ placed' = placed
          /\ total' = total
      BY <1>2 DEF vars
    <2>2. TypeOK' /\ FreshInv' /\ DriftInv'
      BY <1>2, <2>1 DEF DocskitInv, TypeOK, FreshInv, DriftInv
    <2>3. ProperInv'
      BY <1>2, <2>1, SameReg DEF DocskitInv, ProperInv
    <2>. QED
      BY <2>2, <2>3 DEF DocskitInv
  <1>. QED
    BY <1>1, <1>2 DEF Done

LEMMA InitInv == Init => DocskitInv
  <1>. SUFFICES ASSUME Init PROVE DocskitInv
    OBVIOUS
  <1>1. TypeOK
    BY DEF Init, TypeOK
  <1>2. FreshInv /\ DriftInv /\ ProperInv
    BY DEF Init, FreshInv, DriftInv, ProperInv
  <1>. QED
    BY <1>1, <1>2 DEF DocskitInv

\* The inductive invariant of the generator.
THEOREM Invariant == Spec => []DocskitInv
  <1>1. DocskitInv /\ [Next]_vars => DocskitInv'
    BY ExpandStep, EmitFieldStep, EmitRestStep, OtherSteps DEF Next
  <1>. QED
    BY <1>1, InitInv, PTL DEF Spec

\* The union and the masks of a proper description name the same bits, in whatever
\* order and number its fields are described.
THEOREM UnionMatchesMasks == Spec => []FieldsOnTheirBits
  <1>1. DocskitInv => FieldsOnTheirBits
    BY DEF DocskitInv, ProperInv, FieldsOnTheirBits
  <1>. QED
    BY <1>1, Invariant, PTL

\* A union of one word has every field on its bits, also of a wrong description.
THEOREM SizeVouches == Spec => []WordMeansRight
  <1>1. ASSUME DocskitInv, pc = "done", total = WordBits, NEW p \in placed
        PROVE  p.at = p.field.lsb
    <2>1. p.at \in Int /\ p.field.lsb \in Int
      BY <1>1 DEF DocskitInv, TypeOK, Copies
    <2>2. 0 <= p.at - p.field.lsb /\ p.at - p.field.lsb <= total - WordBits
      BY <1>1 DEF DocskitInv, DriftInv
    <2>. QED
      BY <1>1, <2>1, <2>2, Word
  <1>2. DocskitInv => WordMeansRight
    BY <1>1 DEF WordMeansRight
  <1>. QED
    BY <1>2, Invariant, PTL

-----------------------------------------------------------------------------
(* Slip: induction.                                                        *)

\* The order of the numbers, as a set.
Less == {p \in Nat \X Nat : p[1] < p[2]}

\* Induction over numbers, with a set for the predicate.
LEMMA NumberInduction ==
  ASSUME NEW S, 0 \in S, \A n \in Nat : n \in S => n + 1 \in S
  PROVE  Nat \subseteq S
<1>1. IsWellFoundedOn(Less, Nat)
  BY NatLessThanWellFounded DEF OpToRel, Less
<1>2. SUFFICES ASSUME NEW m \in Nat, m \notin S
               PROVE  FALSE
  OBVIOUS
<1> DEFINE Bad == {n \in Nat : n \notin S}
<1>3. PICK n \in Bad : \A k \in Bad : ~(<<k, n>> \in Less)
  <2>1. Bad \subseteq Nat /\ Bad # {}
    BY <1>2
  <2> QED BY <1>1, <2>1, WFMin
<1>4. n # 0
  OBVIOUS
<1>5. n - 1 \in Nat /\ n - 1 < n
  BY <1>4
<1>6. n - 1 \in S
  <2>1. <<n - 1, n>> \in Less
    <3>1. <<n - 1, n>> \in Nat \X Nat /\ <<n - 1, n>>[1] = n - 1 /\ <<n - 1, n>>[2] = n
      BY <1>5
    <3> QED BY <1>5, <3>1 DEF Less
  <2> QED BY <1>3, <1>5, <2>1
<1> QED BY <1>4, <1>5, <1>6

\* Induction over sequences, of which the last element is taken off.
LEMMA SequenceInduction ==
  ASSUME NEW X, NEW S, <<>> \in S, \A s \in Seq(X) : \A x \in X : s \in S => Append(s, x) \in S
  PROVE  Seq(X) \subseteq S
<1> DEFINE N == {n \in Nat : \A s \in Seq(X) : Len(s) = n => s \in S}
<1>1. 0 \in N
  <2>1. \A s \in Seq(X) : Len(s) = 0 => s = <<>>
    BY EmptySeq
  <2> QED BY <2>1
<1>2. ASSUME NEW n \in Nat, n \in N
      PROVE  n + 1 \in N
  <2>1. SUFFICES ASSUME NEW s \in Seq(X), Len(s) = n + 1
                 PROVE  s \in S
    OBVIOUS
  <2> DEFINE f == SubSeq(s, 1, n)
  <2>2. \A i \in 1 .. n + 1 : s[i] \in X
    BY <2>1, ElementOfSeq
  <2>3. f \in Seq(X) /\ Len(f) = n /\ \A i \in 1 .. n : f[i] = s[i]
    BY <2>2, SubSeqProperties
  <2> HIDE DEF f
  <2>4. Append(f, s[n + 1]) = s
    BY <2>1, <2>2, <2>3
  <2>5. f \in S
    BY <1>2, <2>3
  <2>6. s[n + 1] \in X
    BY <2>2
  <2> QED BY <2>3, <2>4, <2>5, <2>6, Zenon
<1> HIDE DEF N
<1>3. Nat \subseteq N
  BY <1>1, <1>2, NumberInduction
<1>4. ASSUME NEW s \in Seq(X)
      PROVE  s \in S
  BY <1>3 DEF N
<1> QED BY <1>4

-----------------------------------------------------------------------------
\* f is what Encode and Decode have after each number of bytes.
Encodes(f, d) ==
  f = [n \in 0 .. Len(d) |-> IF n = 0 THEN <<>> ELSE f[n - 1] \o EncodeByte(d[n])]

Start == [esc |-> FALSE, data |-> <<>>]

Decodes(f, d) ==
  f = [n \in 0 .. Len(d) |-> IF n = 0 THEN Start ELSE DecodeByte(f[n - 1], d[n])]

\* Encode is the last value of the function its definition chooses.
LEMMA EncodeIs ==
  ASSUME NEW d PROVE Encode(d) = (CHOOSE f : Encodes(f, d))[Len(d)]
  BY Zenon DEF Encode, Encodes

\* So is Decode.
LEMMA DecodeIs ==
  ASSUME NEW d PROVE Decode(d) = (CHOOSE f : Decodes(f, d))[Len(d)]
  BY Zenon DEF Decode, Decodes, Start

\* The recursive functions exist.
LEMMA EncodesExist ==
  ASSUME NEW d \in Seq(Bytes) PROVE \E f : Encodes(f, d)
<1> DEFINE S == {e \in Seq(Bytes) : \E f : Encodes(f, e)}
<1>1. <<>> \in S
  <2> DEFINE f == [n \in 0 .. 0 |-> <<>>]
  <2>1. f = [n \in 0 .. 0 |-> IF n = 0 THEN <<>> ELSE f[n - 1] \o EncodeByte(<<>>[n])]
    OBVIOUS
  <2>2. Encodes(f, <<>>)
    BY <2>1, EmptySeq DEF Encodes
  <2> QED BY <2>2, EmptySeq
<1>2. ASSUME NEW e \in Seq(Bytes), NEW b \in Bytes, e \in S
      PROVE  Append(e, b) \in S
  <2>1. PICK f : Encodes(f, e)
    BY <1>2
  <2> DEFINE m == Len(e)
             a == Append(e, b)
             x == f[m] \o EncodeByte(b)
             g == [n \in 0 .. m + 1 |-> IF n = m + 1 THEN x ELSE f[n]]
  <2>2. m \in Nat /\ a \in Seq(Bytes) /\ Len(a) = m + 1 /\ a[m + 1] = b
        /\ \A i \in 1 .. m : a[i] = e[i]
    BY LenProperties
  <2> HIDE DEF x, m, a
  <2>3. \A n \in 0 .. m : f[n] = IF n = 0 THEN <<>> ELSE f[n - 1] \o EncodeByte(e[n])
    BY <2>1 DEF Encodes, m
  <2>4. ASSUME NEW n \in 0 .. m + 1
        PROVE  g[n] = IF n = 0 THEN <<>> ELSE g[n - 1] \o EncodeByte(a[n])
    <3>1. CASE n = m + 1
      BY <3>1, <2>2 DEF x
    <3>2. CASE n = 0
      BY <3>2, <2>2, <2>3
    <3>3. CASE n \in 1 .. m
      BY <3>3, <2>2, <2>3
    <3> QED BY <2>2, <3>1, <3>2, <3>3
  <2>5. g = [n \in 0 .. m + 1 |-> IF n = 0 THEN <<>> ELSE g[n - 1] \o EncodeByte(a[n])]
    BY <2>4
  <2>6. Encodes(g, a)
    BY <2>5, <2>2 DEF Encodes
  <2> QED BY <2>6, <2>2 DEF a
<1>3. Seq(Bytes) \subseteq S
  <2> HIDE DEF S
  <2> QED BY <1>1, <1>2, SequenceInduction
<1> QED BY <1>3
\* There is such a function for Decode too.
LEMMA DecodesExist ==
  ASSUME NEW d \in Seq(Bytes) PROVE \E f : Decodes(f, d)
<1> DEFINE S == {e \in Seq(Bytes) : \E f : Decodes(f, e)}
<1>1. <<>> \in S
  <2> DEFINE f == [n \in 0 .. 0 |-> Start]
  <2>1. f = [n \in 0 .. 0 |-> IF n = 0 THEN Start ELSE DecodeByte(f[n - 1], <<>>[n])]
    OBVIOUS
  <2>2. Decodes(f, <<>>)
    BY <2>1, EmptySeq DEF Decodes
  <2> QED BY <2>2, EmptySeq
<1>2. ASSUME NEW e \in Seq(Bytes), NEW b \in Bytes, e \in S
      PROVE  Append(e, b) \in S
  <2>1. PICK f : Decodes(f, e)
    BY <1>2
  <2> DEFINE m == Len(e)
             a == Append(e, b)
             x == DecodeByte(f[m], b)
             g == [n \in 0 .. m + 1 |-> IF n = m + 1 THEN x ELSE f[n]]
  <2>2. m \in Nat /\ a \in Seq(Bytes) /\ Len(a) = m + 1 /\ a[m + 1] = b
        /\ \A i \in 1 .. m : a[i] = e[i]
    BY LenProperties
  <2> HIDE DEF x, m, a
  <2>3. \A n \in 0 .. m : f[n] = IF n = 0 THEN Start ELSE DecodeByte(f[n - 1], e[n])
    BY <2>1 DEF Decodes, m
  <2>4. ASSUME NEW n \in 0 .. m + 1
        PROVE  g[n] = IF n = 0 THEN Start ELSE DecodeByte(g[n - 1], a[n])
    <3>1. CASE n = m + 1
      BY <3>1, <2>2 DEF x
    <3>2. CASE n = 0
      BY <3>2, <2>2, <2>3
    <3>3. CASE n \in 1 .. m
      BY <3>3, <2>2, <2>3
    <3> QED BY <2>2, <3>1, <3>2, <3>3
  <2>5. g = [n \in 0 .. m + 1 |-> IF n = 0 THEN Start ELSE DecodeByte(g[n - 1], a[n])]
    BY <2>4
  <2>6. Decodes(g, a)
    BY <2>5, <2>2 DEF Decodes
  <2> QED BY <2>6, <2>2 DEF a
<1>3. Seq(Bytes) \subseteq S
  <2> HIDE DEF S
  <2> QED BY <1>1, <1>2, SequenceInduction
<1> QED BY <1>3

\* What is made of one more byte.
LEMMA EncodeStep ==
  ASSUME NEW d \in Seq(Bytes), NEW b \in Bytes
  PROVE  Encode(<<>>) = <<>> /\ Encode(Append(d, b)) = Encode(d) \o EncodeByte(b)
<1> DEFINE m == Len(d)
           a == Append(d, b)
           f == CHOOSE h : Encodes(h, d)
           g == CHOOSE h : Encodes(h, a)
           z == CHOOSE h : Encodes(h, <<>>)
<1>1. m \in Nat /\ a \in Seq(Bytes) /\ Len(a) = m + 1 /\ a[m + 1] = b
      /\ \A i \in 1 .. m : a[i] = d[i]
  BY LenProperties
<1>2. Encodes(f, d) /\ Encodes(g, a)
  <2>1. (\E h : Encodes(h, d)) /\ (\E h : Encodes(h, a))
    BY <1>1, EncodesExist
  <2> QED BY <2>1, Zenon
<1>3. Encodes(z, <<>>)
  <2>1. \E h : Encodes(h, <<>>)
    BY EmptySeq, EncodesExist
  <2> QED BY <2>1, Zenon
<1>4. Encode(d) = f[m] /\ Encode(a) = g[m + 1] /\ Encode(<<>>) = z[0]
  BY <1>1, EncodeIs, EmptySeq
<1> HIDE DEF m, a, f, g, z
<1>5. z[0] = <<>>
  BY <1>3, EmptySeq DEF Encodes
<1>6. \A n \in 0 .. m : f[n] = IF n = 0 THEN <<>> ELSE f[n - 1] \o EncodeByte(d[n])
  BY <1>2 DEF Encodes, m
<1>7. \A n \in 0 .. m + 1 : g[n] = IF n = 0 THEN <<>> ELSE g[n - 1] \o EncodeByte(a[n])
  BY <1>1, <1>2 DEF Encodes
<1> DEFINE S == {n \in Nat : n <= m => f[n] = g[n]}
<1>8. 0 \in S
  BY <1>1, <1>6, <1>7
<1>9. ASSUME NEW n \in Nat, n \in S
      PROVE  n + 1 \in S
  <2>1. SUFFICES ASSUME n + 1 <= m
                 PROVE  f[n + 1] = g[n + 1]
    OBVIOUS
  <2>2. n + 1 \in 0 .. m /\ n + 1 \in 0 .. m + 1 /\ n + 1 # 0 /\ (n + 1) - 1 = n /\ n + 1 \in 1 .. m
    BY <1>1, <2>1
  <2>3. f[n + 1] = f[n] \o EncodeByte(d[n + 1])
    BY <1>6, <2>2
  <2>4. g[n + 1] = g[n] \o EncodeByte(a[n + 1])
    BY <1>7, <2>2
  <2>5. f[n] = g[n] /\ a[n + 1] = d[n + 1]
    BY <1>1, <1>9, <2>1, <2>2
  <2> QED BY <2>3, <2>4, <2>5, Zenon
<1>10. m \in S
  <2> HIDE DEF S
  <2> QED BY <1>1, <1>8, <1>9, NumberInduction
<1>11. g[m + 1] = g[m] \o EncodeByte(b)
  <2>1. m + 1 \in 0 .. m + 1 /\ m + 1 # 0 /\ (m + 1) - 1 = m
    BY <1>1
  <2>2. a[m + 1] = b
    BY <1>1
  <2> QED BY <1>7, <2>1, <2>2, Zenon
<1>12. f[m] = g[m]
  BY <1>1, <1>10
<1>13. Encode(<<>>) = <<>>
  BY <1>4, <1>5, Zenon
<1>14. Encode(a) = Encode(d) \o EncodeByte(b)
  BY <1>4, <1>11, <1>12, Zenon
<1> QED BY <1>13, <1>14, Zenon DEF a

\* What is made of one more byte.
LEMMA DecodeStep ==
  ASSUME NEW d \in Seq(Bytes), NEW b \in Bytes
  PROVE  Decode(<<>>) = Start /\ Decode(Append(d, b)) = DecodeByte(Decode(d), b)
<1> DEFINE m == Len(d)
           a == Append(d, b)
           f == CHOOSE h : Decodes(h, d)
           g == CHOOSE h : Decodes(h, a)
           z == CHOOSE h : Decodes(h, <<>>)
<1>1. m \in Nat /\ a \in Seq(Bytes) /\ Len(a) = m + 1 /\ a[m + 1] = b
      /\ \A i \in 1 .. m : a[i] = d[i]
  BY LenProperties
<1>2. Decodes(f, d) /\ Decodes(g, a)
  <2>1. (\E h : Decodes(h, d)) /\ (\E h : Decodes(h, a))
    BY <1>1, DecodesExist
  <2> QED BY <2>1, Zenon
<1>3. Decodes(z, <<>>)
  <2>1. \E h : Decodes(h, <<>>)
    BY EmptySeq, DecodesExist
  <2> QED BY <2>1, Zenon
<1>4. Decode(d) = f[m] /\ Decode(a) = g[m + 1] /\ Decode(<<>>) = z[0]
  BY <1>1, DecodeIs, EmptySeq
<1> HIDE DEF m, a, f, g, z
<1>5. z[0] = Start
  BY <1>3, EmptySeq DEF Decodes
<1>6. \A n \in 0 .. m : f[n] = IF n = 0 THEN Start ELSE DecodeByte(f[n - 1], d[n])
  BY <1>2 DEF Decodes, m
<1>7. \A n \in 0 .. m + 1 : g[n] = IF n = 0 THEN Start ELSE DecodeByte(g[n - 1], a[n])
  BY <1>1, <1>2 DEF Decodes
<1> DEFINE S == {n \in Nat : n <= m => f[n] = g[n]}
<1>8. 0 \in S
  BY <1>1, <1>6, <1>7
<1>9. ASSUME NEW n \in Nat, n \in S
      PROVE  n + 1 \in S
  <2>1. SUFFICES ASSUME n + 1 <= m
                 PROVE  f[n + 1] = g[n + 1]
    OBVIOUS
  <2>2. n + 1 \in 0 .. m /\ n + 1 \in 0 .. m + 1 /\ n + 1 # 0 /\ (n + 1) - 1 = n /\ n + 1 \in 1 .. m
    BY <1>1, <2>1
  <2>3. f[n + 1] = DecodeByte(f[n], d[n + 1])
    BY <1>6, <2>2
  <2>4. g[n + 1] = DecodeByte(g[n], a[n + 1])
    BY <1>7, <2>2
  <2>5. f[n] = g[n] /\ a[n + 1] = d[n + 1]
    BY <1>1, <1>9, <2>1, <2>2
  <2> QED BY <2>3, <2>4, <2>5, Zenon
<1>10. m \in S
  <2> HIDE DEF S
  <2> QED BY <1>1, <1>8, <1>9, NumberInduction
<1>11. g[m + 1] = DecodeByte(g[m], b)
  <2>1. m + 1 \in 0 .. m + 1 /\ m + 1 # 0 /\ (m + 1) - 1 = m
    BY <1>1
  <2>2. a[m + 1] = b
    BY <1>1
  <2> QED BY <1>7, <2>1, <2>2, Zenon
<1>12. f[m] = g[m]
  BY <1>1, <1>10
<1>13. Decode(<<>>) = Start
  BY <1>4, <1>5, Zenon
<1>14. Decode(a) = DecodeByte(Decode(d), b)
  BY <1>4, <1>11, <1>12, Zenon
<1> QED BY <1>13, <1>14, Zenon DEF a

-----------------------------------------------------------------------------
\* What the codec does.

Body == Bytes \ {END}
Decoded == [esc : BOOLEAN, data : Seq(Bytes)]

\* What is written for a byte, and that no END is in it.
LEMMA EncodeByteFacts ==
  ASSUME NEW b \in Bytes
  PROVE  /\ EncodeByte(b) \in Seq(Body)
         /\ b = END => EncodeByte(b) = <<ESC, ESC_END>>
         /\ b = ESC => EncodeByte(b) = <<ESC, ESC_ESC>>
         /\ b \notin {END, ESC} => EncodeByte(b) = <<b>>
<1>1. CASE b = END
  BY <1>1 DEF EncodeByte, Body, Bytes, END, ESC, ESC_END, ESC_ESC
<1>2. CASE b = ESC
  BY <1>2 DEF EncodeByte, Body, Bytes, END, ESC, ESC_END, ESC_ESC
<1>3. CASE b \notin {END, ESC}
  <2>1. b # END /\ b # ESC
    BY <1>3
  <2>2. EncodeByte(b) = <<b>>
    BY <2>1, Zenon DEF EncodeByte
  <2>3. <<b>> \in Seq(Body)
    BY <2>1 DEF Body
  <2> QED BY <2>1, <2>2, <2>3
<1> QED BY <1>1, <1>2, <1>3

\* A byte that is read changes the decoder's state in one of these ways.
LEMMA DecodeByteFacts ==
  ASSUME NEW x \in Decoded, NEW b \in Bytes
  PROVE  /\ DecodeByte(x, b) \in Decoded
         /\ ~x.esc /\ b = ESC => DecodeByte(x, b) = [esc |-> TRUE, data |-> x.data]
         /\ ~x.esc /\ b # ESC => DecodeByte(x, b) = [esc |-> FALSE, data |-> Append(x.data, b)]
         /\ x.esc /\ b = ESC_END => DecodeByte(x, b) = [esc |-> FALSE, data |-> Append(x.data, END)]
         /\ x.esc /\ b = ESC_ESC => DecodeByte(x, b) = [esc |-> FALSE, data |-> Append(x.data, ESC)]
         /\ x.esc /\ b \notin {ESC_END, ESC_ESC} => DecodeByte(x, b) = [esc |-> FALSE, data |-> x.data]
<1>1. PICK e \in BOOLEAN, d \in Seq(Bytes) : x = [esc |-> e, data |-> d]
  BY DEF Decoded
<1>2. x.esc = e /\ x.data = d
  BY <1>1
<1>3. END \in Bytes /\ ESC \in Bytes /\ ESC_END # ESC_ESC
  BY DEF Bytes, END, ESC, ESC_END, ESC_ESC
<1>4. d \o <<END>> = Append(d, END) /\ d \o <<ESC>> = Append(d, ESC) /\ d \o <<>> = d
  BY <1>3
<1>5. \A f \in Seq(Bytes) : [esc |-> TRUE, data |-> f] \in Decoded
          /\ [esc |-> FALSE, data |-> f] \in Decoded
  BY DEF Decoded
<1>6. \A a \in Bytes : Append(d, a) \in Seq(Bytes)
  OBVIOUS
<1>7. CASE ~e
  <2>1. CASE b = ESC
    <3>1. DecodeByte(x, b) = [x EXCEPT !.esc = TRUE]
      BY <1>2, <1>7, <2>1, Zenon DEF DecodeByte
    <3>2. [x EXCEPT !.esc = TRUE] = [esc |-> TRUE, data |-> d]
      <4>1. \A f, g, h : [[esc |-> f, data |-> g] EXCEPT !.esc = h] = [esc |-> h, data |-> g]
        OBVIOUS
      <4> QED BY <1>1, <4>1, Zenon
    <3>3. b # ESC_END /\ b # ESC_ESC
      BY <2>1 DEF ESC, ESC_END, ESC_ESC
    <3> QED BY <1>2, <1>5, <1>7, <2>1, <3>1, <3>2, Zenon
  <2>2. CASE b # ESC
    <3>1. DecodeByte(x, b) = [x EXCEPT !.data = Append(x.data, b)]
      BY <1>2, <1>7, <2>2, Zenon DEF DecodeByte
    <3>2. [x EXCEPT !.data = Append(x.data, b)] = [esc |-> FALSE, data |-> Append(d, b)]
      <4>1. \A f, g, h : [[esc |-> f, data |-> g] EXCEPT !.data = h] = [esc |-> f, data |-> h]
        OBVIOUS
      <4>2. e = FALSE
        BY <1>7
      <4>3. x = [esc |-> FALSE, data |-> d]
        BY <1>1, <4>2, Zenon
      <4>4. \A h : [x EXCEPT !.data = h] = [esc |-> FALSE, data |-> h]
        BY <4>1, <4>3, Zenon
      <4> QED BY <1>2, <4>4, Zenon
    <3>3. [esc |-> FALSE, data |-> Append(d, b)] \in Decoded
      BY <1>5, <1>6, Zenon
    <3>4. DecodeByte(x, b) = [esc |-> FALSE, data |-> Append(d, b)]
      BY <3>1, <3>2, Zenon
    <3> QED BY ONLY <1>2, <1>7, <2>2, <3>3, <3>4, Zenon
  <2> QED BY <2>1, <2>2
<1>8. CASE e
  <2>1. CASE b = ESC_END
    <3>1. DecodeByte(x, b) = [esc |-> FALSE, data |-> d \o <<END>>]
      BY <1>2, <1>3, <1>8, <2>1, Zenon DEF DecodeByte
    <3> QED BY <1>2, <1>3, <1>4, <1>5, <1>6, <1>8, <2>1, <3>1, Zenon
  <2>2. CASE b = ESC_ESC
    <3>1. DecodeByte(x, b) = [esc |-> FALSE, data |-> d \o <<ESC>>]
      BY <1>2, <1>3, <1>8, <2>2, Zenon DEF DecodeByte
    <3> QED BY <1>2, <1>3, <1>4, <1>5, <1>6, <1>8, <2>2, <3>1, Zenon
  <2>3. CASE b # ESC_END /\ b # ESC_ESC
    <3>1. DecodeByte(x, b) = [esc |-> FALSE, data |-> d \o <<>>]
      BY <1>2, <1>8, <2>3, Zenon DEF DecodeByte
    <3> QED BY <1>2, <1>4, <1>5, <1>8, <2>3, <3>1, Zenon
  <2> QED BY <2>1, <2>2, <2>3
<1> QED BY <1>2, <1>7, <1>8

\* Nothing stands for nothing.
LEMMA CodecEmpty == Encode(<<>>) = <<>> /\ Decode(<<>>) = Start
<1>1. <<>> \in Seq(Bytes) /\ 0 \in Bytes
  BY EmptySeq DEF Bytes
<1> QED BY <1>1, EncodeStep, DecodeStep, Zenon

\* No END is in anything that is encoded, by induction over the bytes.
LEMMA EncodeType ==
  ASSUME NEW d \in Seq(Bytes) PROVE Encode(d) \in Seq(Body)
<1> DEFINE S == {e \in Seq(Bytes) : Encode(e) \in Seq(Body)}
<1>1. <<>> \in S
  BY EmptySeq, CodecEmpty
<1>2. ASSUME NEW e \in Seq(Bytes), NEW b \in Bytes, e \in S
      PROVE  Append(e, b) \in S
  <2>1. Encode(Append(e, b)) = Encode(e) \o EncodeByte(b)
    BY EncodeStep
  <2>2. Encode(e) \o EncodeByte(b) \in Seq(Body)
    BY <1>2, EncodeByteFacts, ConcatProperties
  <2>3. Append(e, b) \in Seq(Bytes)
    OBVIOUS
  <2> QED BY <2>1, <2>2, <2>3, Zenon
<1> HIDE DEF S
<1>3. Seq(Bytes) \subseteq S
  BY <1>1, <1>2, SequenceInduction
<1> QED BY <1>3 DEF S

\* A sequence without END is one of bytes.
LEMMA BodyIsBytes ==
  ASSUME NEW c \in Seq(Body) PROVE c \in Seq(Bytes)
  BY SeqMonotonic DEF Body

\* The decoder's state after any bytes, by induction over them.
LEMMA DecodeType ==
  ASSUME NEW c \in Seq(Bytes) PROVE Decode(c) \in Decoded
<1> DEFINE S == {e \in Seq(Bytes) : Decode(e) \in Decoded}
<1>1. <<>> \in S
  <2>1. Start \in Decoded
    BY EmptySeq DEF Start, Decoded
  <2> QED BY <2>1, EmptySeq, CodecEmpty
<1>2. ASSUME NEW e \in Seq(Bytes), NEW b \in Bytes, e \in S
      PROVE  Append(e, b) \in S
  BY <1>2, DecodeStep, DecodeByteFacts
<1> HIDE DEF S
<1>3. Seq(Bytes) \subseteq S
  BY <1>1, <1>2, SequenceInduction
<1> QED BY <1>3 DEF S

Plain(data) == [esc |-> FALSE, data |-> data]

\* An encoded byte is decoded to itself, after anything.
LEMMA DecodeEncodedByte ==
  ASSUME NEW c \in Seq(Bytes), ~Decode(c).esc, NEW b \in Bytes
  PROVE  Decode(c \o EncodeByte(b)) = Plain(Append(Decode(c).data, b))
<1> DEFINE x == Decode(c)
           d == x.data
           y == Decode(Append(c, ESC))
<1>1. x \in Decoded /\ d \in Seq(Bytes)
  BY DecodeType DEF Decoded
<1>2. END \in Bytes /\ ESC \in Bytes /\ ESC_END \in Bytes /\ ESC_ESC \in Bytes
  BY DEF Bytes, END, ESC, ESC_END, ESC_ESC
<1>3. Append(c, ESC) \in Seq(Bytes)
  BY <1>2
<1>4. y = [esc |-> TRUE, data |-> d]
  BY <1>1, <1>2, DecodeStep, DecodeByteFacts
<1>5. y \in Decoded /\ y.esc /\ y.data = d
  BY <1>1, <1>4 DEF Decoded
<1>6. CASE b = END
  <2>1. c \o EncodeByte(b) = Append(Append(c, ESC), ESC_END)
    <3>1. EncodeByte(b) = <<ESC, ESC_END>>
      BY <1>6, EncodeByteFacts
    <3>2. c \o <<ESC, ESC_END>> = Append(Append(c, ESC), ESC_END)
      BY <1>2
    <3> QED BY <3>1, <3>2
  <2>2. Decode(Append(Append(c, ESC), ESC_END)) = DecodeByte(y, ESC_END)
    BY <1>2, <1>3, DecodeStep
  <2>3. DecodeByte(y, ESC_END) = [esc |-> FALSE, data |-> Append(y.data, END)]
    BY <1>2, <1>5, DecodeByteFacts
  <2> HIDE DEF x, y, d
  <2> QED BY <1>5, <1>6, <2>1, <2>2, <2>3 DEF Plain, d, x
<1>7. CASE b = ESC
  <2>1. c \o EncodeByte(b) = Append(Append(c, ESC), ESC_ESC)
    <3>1. EncodeByte(b) = <<ESC, ESC_ESC>>
      BY <1>7, EncodeByteFacts
    <3>2. c \o <<ESC, ESC_ESC>> = Append(Append(c, ESC), ESC_ESC)
      BY <1>2
    <3> QED BY <3>1, <3>2
  <2>2. Decode(Append(Append(c, ESC), ESC_ESC)) = DecodeByte(y, ESC_ESC)
    BY <1>2, <1>3, DecodeStep
  <2>3. DecodeByte(y, ESC_ESC) = [esc |-> FALSE, data |-> Append(y.data, ESC)]
    BY <1>2, <1>5, DecodeByteFacts
  <2> HIDE DEF x, y, d
  <2> QED BY <1>5, <1>7, <2>1, <2>2, <2>3 DEF Plain, d, x
<1>8. CASE b \notin {END, ESC}
  <2>1. c \o EncodeByte(b) = Append(c, b)
    <3>1. EncodeByte(b) = <<b>>
      BY <1>8, EncodeByteFacts
    <3>2. c \o <<b>> = Append(c, b)
      OBVIOUS
    <3> QED BY <3>1, <3>2
  <2>2. Decode(Append(c, b)) = DecodeByte(x, b)
    BY DecodeStep
  <2>3. DecodeByte(x, b) = [esc |-> FALSE, data |-> Append(d, b)]
    BY <1>1, <1>8, DecodeByteFacts
  <2> QED BY <2>1, <2>2, <2>3 DEF Plain
<1> QED BY <1>6, <1>7, <1>8

\* Three sequences of bytes, one after the other.
LEMMA BytesAssociate ==
  ASSUME NEW s \in Seq(Bytes), NEW t \in Seq(Bytes), NEW u \in Seq(Bytes)
  PROVE  (s \o t) \o u = s \o (t \o u)
BY ConcatAssociative

\* After whatever has been decoded, but not within an escape, encoded data is decoded.
LEMMA DecodeEncoded ==
  ASSUME NEW c \in Seq(Bytes), ~Decode(c).esc, NEW d \in Seq(Bytes)
  PROVE  Decode(c \o Encode(d)) = Plain(Decode(c).data \o d)
<1> DEFINE x == Decode(c).data
           S == {e \in Seq(Bytes) : Decode(c \o Encode(e)) = Plain(x \o e)}
<1>1. Decode(c) \in Decoded /\ x \in Seq(Bytes)
  BY DecodeType DEF Decoded
<1> HIDE DEF x
<1>2. <<>> \in S
  <2>1. c \o Encode(<<>>) = c /\ x \o <<>> = x
    BY <1>1, CodecEmpty, ConcatEmptySeq
  <2>2. Decode(c) = Plain(x)
    BY <1>1 DEF Decoded, Plain, x
  <2> QED BY <2>1, <2>2, EmptySeq
<1>3. ASSUME NEW e \in Seq(Bytes), NEW b \in Bytes, e \in S
      PROVE  Append(e, b) \in S
  <2>1. Encode(e) \in Seq(Bytes) /\ EncodeByte(b) \in Seq(Bytes)
    BY EncodeType, EncodeByteFacts, BodyIsBytes
  <2> DEFINE f == c \o Encode(e)
  <2>2. f \in Seq(Bytes)
    BY <2>1, ConcatProperties
  <2>3. c \o Encode(Append(e, b)) = f \o EncodeByte(b)
    <3>1. Encode(Append(e, b)) = Encode(e) \o EncodeByte(b)
      BY ONLY e \in Seq(Bytes), b \in Bytes, EncodeStep
    <3>2. f \o EncodeByte(b) = c \o (Encode(e) \o EncodeByte(b))
      BY ONLY c \in Seq(Bytes), <2>1, BytesAssociate
    <3> QED BY <3>1, <3>2, Zenon
  <2>4. Decode(f) = Plain(x \o e)
    BY <1>3
  <2> HIDE DEF f
  <2>5. ~Decode(f).esc /\ Decode(f).data = x \o e
    BY <2>4 DEF Plain
  <2>6. Decode(f \o EncodeByte(b)) = Plain(Append(Decode(f).data, b))
    BY <2>2, <2>5, DecodeEncodedByte
  <2>7. Append(x \o e, b) = x \o Append(e, b)
    <3>1. x \in Seq(Bytes) /\ e \in Seq(Bytes) /\ b \in Bytes
      BY <1>1
    <3>2. <<b>> \in Seq(Bytes) /\ x \o e \in Seq(Bytes)
      BY ONLY <3>1, ConcatProperties
    <3>3. Append(x \o e, b) = (x \o e) \o <<b>>
      BY ONLY <3>1, <3>2, AppendIsConcat
    <3>4. Append(e, b) = e \o <<b>>
      BY ONLY <3>1, AppendIsConcat
    <3>5. (x \o e) \o <<b>> = x \o (e \o <<b>>)
      BY ONLY <3>1, <3>2, BytesAssociate
    <3> QED BY ONLY <3>3, <3>4, <3>5, Zenon
  <2>8. Decode(c \o Encode(Append(e, b))) = Plain(x \o Append(e, b))
    BY <2>3, <2>5, <2>6, <2>7, Zenon
  <2> QED BY <2>8
<1>4. Seq(Bytes) \subseteq S
  <2> HIDE DEF S
  <2> QED BY <1>2, <1>3, SequenceInduction
<1> QED BY <1>4 DEF x

\* A whole frame is decoded to its packet.
LEMMA DecodeWhole ==
  ASSUME NEW d \in Seq(Bytes) PROVE Decode(Encode(d)) = Plain(d)
<1>1. <<>> \in Seq(Bytes) /\ Start.esc = FALSE /\ Start.data = <<>>
  BY EmptySeq DEF Start
<1>2. ~Decode(<<>>).esc /\ Decode(<<>>).data = <<>>
  BY <1>1, CodecEmpty, Zenon
<1>3. Decode(<<>> \o Encode(d)) = Plain(<<>> \o d)
  BY <1>1, <1>2, DecodeEncoded, Zenon
<1>4. <<>> \o Encode(d) = Encode(d) /\ <<>> \o d = d
  BY EncodeType, ConcatEmptySeq
<1> QED BY <1>3, <1>4, Zenon

\* What has been decoded of the encoded d when it breaks off: a part of it that
\* lacks a byte at least, and a special one if it breaks off within an escape.
CutFrom(x, d) ==
  /\ Len(x.data) < Len(d)
  /\ \A i \in 1 .. Len(x.data) : x.data[i] = d[i]
  /\ x.esc => d[Len(x.data) + 1] \in {END, ESC}

\* What breaks off in a packet breaks off in any longer one.
LEMMA CutFromAppend ==
  ASSUME NEW x \in Decoded, NEW d \in Seq(Bytes), NEW b \in Bytes, CutFrom(x, d)
  PROVE  CutFrom(x, Append(d, b))
<1> DEFINE y == x.data
           a == Append(d, b)
<1>1. y \in Seq(Bytes)
  BY DEF Decoded
<1>2. Len(d) \in Nat /\ Len(a) = Len(d) + 1 /\ \A i \in 1 .. Len(d) : a[i] = d[i]
  OBVIOUS
<1> HIDE DEF y, a
<1>3. Len(y) \in Nat /\ Len(y) < Len(d) /\ (\A i \in 1 .. Len(y) : y[i] = d[i])
          /\ (x.esc => d[Len(y) + 1] \in {END, ESC})
  BY <1>1 DEF CutFrom, y
<1>4. Len(y) < Len(a) /\ (\A i \in 1 .. Len(y) : y[i] = a[i]) /\ a[Len(y) + 1] = d[Len(y) + 1]
  BY <1>2, <1>3
<1> QED BY <1>3, <1>4 DEF CutFrom, y, a

\* Beginnings of a sequence that goes on.
LEMMA PrefixFacts ==
  ASSUME NEW s \in Seq(Bytes), NEW t \in Seq(Bytes), NEW n \in Nat
  PROVE  /\ n <= Len(s) => SubSeq(s \o t, 1, n) = SubSeq(s, 1, n) /\ SubSeq(s, 1, n) \in Seq(Bytes)
         /\ SubSeq(s, 1, Len(s)) = s
         /\ t # <<>> => SubSeq(s \o t, 1, Len(s) + 1) = Append(s, t[1])
<1>1. ASSUME n <= Len(s)
      PROVE  SubSeq(s \o t, 1, n) = SubSeq(s, 1, n) /\ SubSeq(s, 1, n) \in Seq(Bytes)
  BY <1>1
<1>2. SubSeq(s, 1, Len(s)) = s
  BY SubSeqFull
<1>3. ASSUME t # <<>>
      PROVE  SubSeq(s \o t, 1, Len(s) + 1) = Append(s, t[1])
  <2>1. Len(t) \in Nat /\ Len(t) >= 1 /\ Len(s) \in Nat
    BY <1>3, EmptySeq
  <2>2. t[1] \in Bytes
    BY <2>1
  <2> QED BY <2>1, <2>2
<1> QED BY <1>1, <1>2, <1>3

\* A frame that is cut at any byte gives less than its packet, by induction over
\* the packet's bytes.
LEMMA DecodeCut ==
  ASSUME NEW d \in Seq(Bytes), NEW n \in Nat, n < Len(Encode(d))
  PROVE  CutFrom(Decode(SubSeq(Encode(d), 1, n)), d)
<1> DEFINE S == {e \in Seq(Bytes) :
                   \A k \in Nat : k < Len(Encode(e)) => CutFrom(Decode(SubSeq(Encode(e), 1, k)), e)}
<1>1. <<>> \in S
  BY EmptySeq, CodecEmpty
<1>2. ASSUME NEW e \in Seq(Bytes), NEW b \in Bytes, e \in S
      PROVE  Append(e, b) \in S
  <2> DEFINE a == Append(e, b)
             E == Encode(e)
             B == EncodeByte(b)
  <2>1. a \in Seq(Bytes) /\ E \in Seq(Bytes) /\ B \in Seq(Bytes)
    BY EncodeType, EncodeByteFacts, BodyIsBytes
  <2>2. Encode(a) = E \o B
    BY EncodeStep
  <2>3. Decode(E) = Plain(e)
    BY DecodeWhole
  <2> DEFINE l == Len(B)
  <2>4. l \in {1, 2} /\ (l = 2 => B[1] = ESC /\ b \in {END, ESC})
    <3>1. CASE b = END
      <4>1. B = <<ESC, ESC_END>>
        BY <3>1, EncodeByteFacts
      <4> QED BY <3>1, <4>1
    <3>2. CASE b = ESC
      <4>1. B = <<ESC, ESC_ESC>>
        BY <3>2, EncodeByteFacts
      <4> QED BY <3>2, <4>1
    <3>3. CASE b \notin {END, ESC}
      <4>1. B = <<b>>
        BY <3>3, EncodeByteFacts
      <4> QED BY <3>3, <4>1
    <3> QED BY <3>1, <3>2, <3>3, Zenon
  <2>5. B # <<>>
    <3>1. Len(<<>>) = 0
      BY EmptySeq
    <3>2. l # 0
      <4> HIDE DEF l
      <4> QED BY <2>4
    <3> QED BY <3>1, <3>2, Zenon
  <2>6. Len(E) \in Nat /\ l \in Nat /\ Len(E \o B) = Len(E) + l
    BY <2>1, <2>4
  <2>7. Len(a) = Len(e) + 1 /\ Len(e) \in Nat /\ (\A i \in 1 .. Len(e) : a[i] = e[i])
            /\ a[Len(e) + 1] = b
    OBVIOUS
  <2>8. \A k \in Nat : k < Len(E) => CutFrom(Decode(SubSeq(E, 1, k)), e)
    BY <1>2
  <2> HIDE DEF a, E, B, S, l
  <2>9. ASSUME NEW k \in Nat, k < Len(E \o B)
        PROVE  CutFrom(Decode(SubSeq(E \o B, 1, k)), a)
    <3>1. CASE k < Len(E)
      <4>1. SubSeq(E \o B, 1, k) = SubSeq(E, 1, k) /\ SubSeq(E, 1, k) \in Seq(Bytes)
        <5>1. k <= Len(E)
          BY <2>6, <3>1
        <5> QED BY ONLY k \in Nat, <2>1, <5>1, PrefixFacts
      <4>2. Decode(SubSeq(E, 1, k)) \in Decoded
        BY <4>1, DecodeType
      <4>3. CutFrom(Decode(SubSeq(E, 1, k)), e)
        BY <2>8, <3>1
      <4> QED BY <4>1, <4>2, <4>3, CutFromAppend DEF a
    <3>2. CASE k = Len(E)
      <4>1. SubSeq(E \o B, 1, k) = E
        <5>1. SubSeq(E \o B, 1, k) = SubSeq(E, 1, k)
          BY <2>1, <2>6, <3>2, PrefixFacts
        <5>2. SubSeq(E, 1, Len(E)) = E
          BY <2>1, <2>6, PrefixFacts
        <5> QED BY <3>2, <5>1, <5>2, Zenon
      <4>2. CutFrom(Plain(e), a)
        BY <2>7 DEF CutFrom, Plain
      <4> QED BY <2>3, <4>1, <4>2, Zenon
    <3>3. CASE k > Len(E)
      <4>1. k = Len(E) + 1 /\ B[1] = ESC /\ b \in {END, ESC}
        <5>1. k < Len(E) + l /\ k \in Nat
          BY <2>6, <2>9, Zenon
        <5>2. l = 2 /\ k = Len(E) + 1
          BY ONLY <2>4, <2>6, <3>3, <5>1
        <5>3. B[1] = ESC /\ b \in {END, ESC}
          BY <2>4, <5>2
        <5> QED BY <5>2, <5>3
      <4>2. SubSeq(E \o B, 1, k) = Append(E, ESC)
        <5>1. SubSeq(E \o B, 1, Len(E) + 1) = Append(E, B[1])
          BY <2>1, <2>5, PrefixFacts
        <5> QED BY <4>1, <5>1, Zenon
      <4>3. Decode(Append(E, ESC)) = DecodeByte(Plain(e), ESC)
        BY <2>1, <2>3, DecodeStep DEF Bytes, ESC
      <4>4. Plain(e) \in Decoded /\ Plain(e).esc = FALSE /\ Plain(e).data = e
        BY DEF Plain, Decoded
      <4>5. DecodeByte(Plain(e), ESC) = [esc |-> TRUE, data |-> e]
        <5>1. ESC \in Bytes
          BY DEF Bytes, ESC
        <5> QED BY <4>4, <5>1, DecodeByteFacts, Zenon
      <4>6. CutFrom([esc |-> TRUE, data |-> e], a)
        BY <2>7, <4>1 DEF CutFrom
      <4> QED BY <4>2, <4>3, <4>5, <4>6, Zenon
    <3> QED BY <2>6, <3>1, <3>2, <3>3
  <2> QED BY <2>1, <2>2, <2>9 DEF S, a
<1>3. Seq(Bytes) \subseteq S
  <2> HIDE DEF S
  <2> QED BY <1>1, <1>2, SequenceInduction
<1> QED BY <1>3

\* What the bytes of a text are not.
LEMMA TextByteFacts ==
  /\ TextBytes \subseteq Bytes
  /\ TextBytes \subseteq Body
  /\ \A b \in TextBytes : b # ESC /\ b # 1
BY DEF TextBytes, Bytes, Body, END, ESC

\* Text is bytes without END.
LEMMA TextIsBytes ==
  ASSUME NEW t \in Seq(TextBytes) PROVE t \in Seq(Bytes) /\ t \in Seq(Body)
BY TextByteFacts, SeqMonotonic

\* Text stands for itself, unless what precedes it breaks off within an escape.
LEMMA DecodeText ==
  ASSUME NEW c \in Seq(Bytes), ~Decode(c).esc, NEW t \in Seq(TextBytes)
  PROVE  Decode(c \o t) = Plain(Decode(c).data \o t)
<1> DEFINE x == Decode(c).data
           S == {e \in Seq(TextBytes) : Decode(c \o e) = Plain(x \o e)}
<1>1. Decode(c) \in Decoded /\ x \in Seq(Bytes)
  BY DecodeType DEF Decoded
<1>2. Decode(c) = Plain(x)
  BY <1>1 DEF Decoded, Plain
<1> HIDE DEF x
<1>3. <<>> \in S
  <2>1. c \o <<>> = c /\ x \o <<>> = x
    BY <1>1, ConcatEmptySeq
  <2> QED BY <1>2, <2>1, EmptySeq
<1>4. ASSUME NEW e \in Seq(TextBytes), NEW b \in TextBytes, e \in S
      PROVE  Append(e, b) \in S
  <2>1. e \in Seq(Bytes) /\ b \in Bytes /\ b # ESC
    BY TextIsBytes, TextByteFacts
  <2>2. c \o e \in Seq(Bytes) /\ x \o e \in Seq(Bytes)
    BY <1>1, <2>1, ConcatProperties
  <2>3. c \o Append(e, b) = Append(c \o e, b) /\ x \o Append(e, b) = Append(x \o e, b)
    BY <1>1, <2>1
  <2>4. Decode(Append(c \o e, b)) = DecodeByte(Plain(x \o e), b)
    <3>1. Decode(Append(c \o e, b)) = DecodeByte(Decode(c \o e), b)
      BY <2>1, <2>2, DecodeStep
    <3> QED BY <1>4, <3>1
  <2>5. Plain(x \o e) \in Decoded /\ Plain(x \o e).esc = FALSE /\ Plain(x \o e).data = x \o e
    BY <2>2 DEF Plain, Decoded
  <2>6. DecodeByte(Plain(x \o e), b) = [esc |-> FALSE, data |-> Append(x \o e, b)]
    BY <2>1, <2>5, DecodeByteFacts, Zenon
  <2>7. Decode(c \o Append(e, b)) = Plain(x \o Append(e, b))
    BY <2>3, <2>4, <2>6, Zenon DEF Plain
  <2>8. Append(e, b) \in Seq(TextBytes)
    OBVIOUS
  <2> QED BY <2>7, <2>8, Zenon
<1>5. Seq(TextBytes) \subseteq S
  <2> HIDE DEF S
  <2> QED BY <1>3, <1>4, SequenceInduction
<1> QED BY <1>5 DEF x

\* If it does, the text's first byte may be taken for an escaped one or be dropped.
LEMMA DecodeTextEscaped ==
  ASSUME NEW c \in Seq(Bytes), Decode(c).esc, NEW t \in Seq(TextBytes), t # <<>>
  PROVE  \E h \in {<<>>, <<END>>, <<ESC>>} :
           Decode(c \o t) = Plain((Decode(c).data \o h) \o Tail(t))
<1> DEFINE x == Decode(c).data
           b == t[1]
           a == Append(c, b)
<1>1. Decode(c) \in Decoded /\ x \in Seq(Bytes)
  BY DecodeType DEF Decoded
<1>2. Len(t) \in Nat \ {0} /\ b \in TextBytes /\ Tail(t) \in Seq(TextBytes)
  BY EmptySeq
<1>3. b \in Bytes /\ END \in Bytes /\ ESC \in Bytes
  <2>1. b \in Bytes
    BY <1>2, TextByteFacts
  <2> QED BY <2>1 DEF Bytes, END, ESC
<1>4. a \in Seq(Bytes)
  BY <1>3
<1>5. c \o t = a \o Tail(t)
  <2>1. t \in Seq(Bytes) /\ Tail(t) \in Seq(Bytes)
    BY <1>2, TextIsBytes
  <2>2. t = <<b>> \o Tail(t)
    BY <1>2
  <2>3. <<b>> \in Seq(Bytes) /\ a = c \o <<b>>
    BY <1>3
  <2>4. (c \o <<b>>) \o Tail(t) = c \o (<<b>> \o Tail(t))
    BY <2>1, <2>3, ConcatAssociative
  <2> QED BY <2>2, <2>3, <2>4, Zenon
<1>6. Decode(a) = DecodeByte(Decode(c), b)
  BY <1>3, DecodeStep
<1> HIDE DEF x, b, a
<1>7. \E h \in {<<>>, <<END>>, <<ESC>>} : Decode(a) = Plain(x \o h)
  <2>1. x \o <<>> = x /\ x \o <<END>> = Append(x, END) /\ x \o <<ESC>> = Append(x, ESC)
    BY <1>1, <1>3
  <2>2. CASE b = ESC_END
    <3>1. DecodeByte(Decode(c), b) = Plain(Append(x, END))
      BY <1>1, <1>3, <2>2, DecodeByteFacts, Zenon DEF Plain, x
    <3> QED BY <1>6, <2>1, <3>1, Zenon
  <2>3. CASE b = ESC_ESC
    <3>1. DecodeByte(Decode(c), b) = Plain(Append(x, ESC))
      BY <1>1, <1>3, <2>3, DecodeByteFacts, Zenon DEF Plain, x
    <3> QED BY <1>6, <2>1, <3>1, Zenon
  <2>4. CASE b \notin {ESC_END, ESC_ESC}
    <3>1. DecodeByte(Decode(c), b) = Plain(x)
      BY <1>1, <1>3, <2>4, DecodeByteFacts, Zenon DEF Plain, x
    <3> QED BY <1>6, <2>1, <3>1, Zenon
  <2> QED BY <2>2, <2>3, <2>4, Zenon
<1>8. PICK h \in {<<>>, <<END>>, <<ESC>>} : Decode(a) = Plain(x \o h)
  BY <1>7
<1>9. ~Decode(a).esc /\ Decode(a).data = x \o h
  BY <1>8 DEF Plain
<1>10. Decode(a \o Tail(t)) = Plain(Decode(a).data \o Tail(t))
  BY <1>2, <1>4, <1>9, DecodeText
<1> QED BY <1>5, <1>9, <1>10, Zenon DEF x

-----------------------------------------------------------------------------
\* What can stand between two ENDs other than a whole packet, and why no command
\* takes it for its response.

\* It is a packet that breaks off.
Short(x) == \E r \in Responses : CutFrom(x, r)

\* It does not begin as a response does.
Foreign(x) == ~x.esc /\ x.data # <<>> /\ x.data[1] # 1

\* It has the size of a response and is longer.
TooLong(x) ==
  ~x.esc /\ \E r \in Responses : Len(x.data) > Len(r) /\ x.data[3] = r[3] /\ x.data[4] = r[4]

\* Whatever text follows it, it stays so.
Settled(x) == Foreign(x) \/ TooLong(x)

Junk(s) == s = <<>> \/ Short(Decode(s)) \/ Settled(Decode(s))

\* The part that no END has ended yet.  If it is not settled, it holds n bytes of a packet.
Open(s, n) == n = Len(Decode(s).data) \/ Settled(Decode(s))

\* What check_response demands of a response, whatever its command.
LEMMA ResponseFacts ==
  ASSUME NEW r \in Responses
  PROVE  /\ r \in Seq(Bytes) /\ Len(r) >= 8 /\ r[1] = 1
         /\ Len(r) = 8 + r[3] + 256 * r[4]
         /\ Encode(r) \in Seq(Body) /\ Encode(r) # <<>>
<1>1. r \in Seq(Bytes) /\ \E c \in Bytes : Valid(r, c)
  BY SlipAssumption
<1>2. Len(r) >= 8 /\ r[1] = 1 /\ Len(r) = 8 + r[3] + 256 * r[4]
  BY <1>1 DEF Valid, Header
<1>3. Encode(r) \in Seq(Body)
  BY <1>1, EncodeType
<1>4. ASSUME Encode(r) = <<>>
      PROVE  FALSE
  <2>1. Plain(r) = Start
    BY <1>1, <1>4, DecodeWhole, CodecEmpty
  <2>2. r = <<>>
    BY <2>1 DEF Plain, Start
  <2> QED BY <1>2, <2>2, EmptySeq
<1> QED BY <1>1, <1>2, <1>3, <1>4

\* What is assumed of text.
LEMMA TextFacts ==
  ASSUME NEW t \in Texts
  PROVE  t \in Seq(TextBytes) /\ t \in Seq(Bytes) /\ t \in Seq(Body)
  BY SlipAssumption, TextIsBytes

\* A cut frame is junk.
LEMMA CutIsJunk ==
  ASSUME NEW r \in Responses, NEW k \in Nat, k < Len(Encode(r))
  PROVE  Junk(SubSeq(Encode(r), 1, k))
  BY ResponseFacts, DecodeCut DEF Junk, Short

\* A packet that breaks off after its size, its missing bytes replaced by more text than
\* a response is long.
LEMMA TextAfterSize ==
  ASSUME NEW r \in Responses, NEW j \in Nat, 4 <= j, NEW u \in Seq(Bytes), j <= Len(u),
         \A i \in 1 .. j : u[i] = r[i],
         NEW w \in Seq(TextBytes), Len(u) + Len(w) > Len(r)
  PROVE  TooLong(Plain(u \o w))
<1> DEFINE y == u \o w
<1>1. w \in Seq(Bytes) /\ Len(u) \in Nat
  BY TextIsBytes
<1>2. Len(y) = Len(u) + Len(w) /\ \A i \in 1 .. Len(u) : y[i] = u[i]
  BY <1>1, ConcatProperties
<1> HIDE DEF y
<1>3. y[3] = r[3] /\ y[4] = r[4]
  BY <1>1, <1>2
<1>4. TooLong(Plain(y))
  BY <1>2, <1>3 DEF TooLong, Plain
<1> QED BY <1>4 DEF y

\* Text makes no packet of what has none, unless there is a piece of one that it may
\* complete.
LEMMA JunkAndText ==
  ASSUME NEW s \in Seq(Body), Junk(s), NEW n \in Nat, Open(s, n), NEW t \in Texts,
         n \notin 1 .. 3, n >= 4 => \A r \in Responses : ~(Len(t) <= Len(r))
  PROVE  Junk(s \o t) /\ Open(s \o t, 0)
<1> DEFINE x == Decode(s)
           d == x.data
           lt == Len(t)
           ld == Len(d)
<1>1. s \in Seq(Bytes) /\ x \in Decoded /\ d \in Seq(Bytes) /\ ld \in Nat
  BY BodyIsBytes, DecodeType DEF Decoded
<1>2. t \in Seq(TextBytes) /\ t \in Seq(Bytes) /\ lt \in Nat
  BY TextFacts
<1>3. SUFFICES Settled(Decode(s \o t)) \/ (s \o t = s /\ ld = 0)
  BY DEF Junk, Open
<1>4. Settled(x) => ~x.esc
  BY DEF Settled, Foreign, TooLong
<1>5. CASE Settled(x)
  <2> DEFINE y == d \o t
  <2>1. Decode(s \o t) = Plain(y)
    BY <1>1, <1>2, <1>4, <1>5, DecodeText
  <2>2. Len(y) = ld + lt /\ \A i \in 1 .. ld : y[i] = d[i]
    BY <1>1, <1>2
  <2> HIDE DEF y, x, d, ld, lt
  <2>3. CASE Foreign(x)
    <3>1. d # <<>> /\ d[1] # 1
      BY <2>3 DEF Foreign, d
    <3>2. ld >= 1
      BY <1>1, <3>1, EmptySeq DEF ld
    <3>3. y # <<>> /\ y[1] # 1
      BY <1>1, <1>2, <2>2, <3>1, <3>2, EmptySeq
    <3> QED BY <2>1, <3>3 DEF Settled, Foreign, Plain
  <2>4. CASE TooLong(x)
    <3>1. PICK r \in Responses : ld > Len(r) /\ d[3] = r[3] /\ d[4] = r[4]
      BY <2>4 DEF TooLong, d, ld
    <3>2. Len(r) >= 8 /\ Len(r) \in Nat
      BY ResponseFacts
    <3>3. Len(y) > Len(r) /\ y[3] = r[3] /\ y[4] = r[4]
      BY <1>1, <1>2, <2>2, <3>1, <3>2
    <3> QED BY <2>1, <3>3 DEF Settled, TooLong, Plain
  <2> QED BY <1>5, <2>3, <2>4 DEF Settled
<1>6. ASSUME ~Settled(x), ld = 0
      PROVE  Settled(Decode(s \o t)) \/ (s \o t = s /\ ld = 0)
  <2>1. CASE t = <<>>
    BY <1>1, <1>6, <2>1, ConcatEmptySeq
  <2>2. CASE t # <<>>
    <3>1. d = <<>>
      BY <1>1, <1>6, EmptySeq
    <3>2. ~x.esc
      <4>1. CASE s = <<>>
        BY <4>1, CodecEmpty DEF Start
      <4>2. CASE s # <<>>
        <5>1. PICK r \in Responses : CutFrom(x, r)
          BY <1>6, <4>2 DEF Junk, Short
        <5>2. r[1] \notin {END, ESC}
          BY ResponseFacts DEF END, ESC
        <5> QED BY <1>6, <5>1, <5>2 DEF CutFrom
      <4> QED BY <4>1, <4>2
    <3>3. Decode(s \o t) = Plain(d \o t)
      BY <1>1, <1>2, <3>2, DecodeText
    <3>4. d \o t = t
      BY <1>2, <3>1, ConcatEmptySeq
    <3>5. t[1] # 1
      <4>1. t[1] \in TextBytes
        BY <1>2, <2>2, EmptySeq
      <4> QED BY <4>1, TextByteFacts
    <3> QED BY <2>2, <3>3, <3>4, <3>5 DEF Settled, Foreign, Plain
  <2> QED BY <2>1, <2>2
<1>7. ASSUME ~Settled(x), ld # 0
      PROVE  Settled(Decode(s \o t))
  <2>1. n = ld /\ ld >= 4 /\ \A r \in Responses : ~(lt <= Len(r))
    <3>1. n = ld
      BY <1>7 DEF Open
    <3>2. n # 0
      BY <1>7, <3>1, Zenon
    <3>3. n >= 4
      BY ONLY n \in Nat, n \notin 1 .. 3, <3>2
    <3> QED BY <3>1, <3>3
  <2>2. s # <<>>
    BY <1>7, CodecEmpty, EmptySeq DEF Start
  <2>3. PICK r \in Responses : CutFrom(x, r)
    BY <1>7, <2>2 DEF Junk, Short
  <2>4. \A i \in 1 .. ld : d[i] = r[i]
    BY <2>3 DEF CutFrom
  <2>5. lt > Len(r) /\ Len(r) \in Nat
    <3>1. Len(r) \in Nat
      BY ResponseFacts
    <3> QED BY <1>2, <2>1, <3>1
  <2>6. \E u \in Seq(Bytes) : \E w \in Seq(TextBytes) :
          /\ Decode(s \o t) = Plain(u \o w) /\ ld <= Len(u) /\ Len(u) + Len(w) >= ld + lt - 1
          /\ \A i \in 1 .. ld : u[i] = d[i]
    <3>1. CASE ~x.esc
      <4>1. Decode(s \o t) = Plain(d \o t)
        BY <1>1, <1>2, <3>1, DecodeText
      <4>2. ld <= Len(d) /\ Len(d) + Len(t) >= ld + lt - 1 /\ \A i \in 1 .. ld : d[i] = d[i]
        BY <1>1, <1>2
      <4> QED BY <1>1, <1>2, <4>1, <4>2
    <3>2. CASE x.esc
      <4>1. t # <<>>
        BY <1>2, <2>5, EmptySeq
      <4>2. PICK h \in {<<>>, <<END>>, <<ESC>>} : Decode(s \o t) = Plain((d \o h) \o Tail(t))
        BY <1>1, <1>2, <3>2, <4>1, DecodeTextEscaped
      <4>3. h \in Seq(Bytes)
        <5>1. <<>> \in Seq(Bytes) /\ <<END>> \in Seq(Bytes) /\ <<ESC>> \in Seq(Bytes)
          BY EmptySeq DEF Bytes, END, ESC
        <5> QED BY <5>1, Zenon
      <4>4. d \o h \in Seq(Bytes) /\ ld <= Len(d \o h) /\ Len(d \o h) \in Nat
            /\ \A i \in 1 .. ld : (d \o h)[i] = d[i]
        BY <1>1, <4>3
      <4>5. Tail(t) \in Seq(TextBytes) /\ Len(Tail(t)) = lt - 1
        BY <1>2, <4>1
      <4>6. Len(d \o h) + Len(Tail(t)) >= ld + lt - 1
        BY <1>1, <1>2, <4>4, <4>5
      <4> QED BY <4>2, <4>4, <4>5, <4>6
    <3> QED BY <3>1, <3>2
  <2>7. PICK u \in Seq(Bytes), w \in Seq(TextBytes) :
          /\ Decode(s \o t) = Plain(u \o w) /\ ld <= Len(u) /\ Len(u) + Len(w) >= ld + lt - 1
          /\ \A i \in 1 .. ld : u[i] = d[i]
    BY <2>6
  <2> HIDE DEF x, d, ld, lt
  <2>8. Len(u) + Len(w) > Len(r)
    <3>1. Len(u) \in Nat /\ Len(w) \in Nat
      BY TextIsBytes
    <3> QED BY <1>1, <1>2, <2>1, <2>5, <2>7, <3>1
  <2>9. \A i \in 1 .. ld : u[i] = r[i]
    BY <2>4, <2>7
  <2>10. TooLong(Plain(u \o w))
    BY <1>1, <2>1, <2>7, <2>8, <2>9, TextAfterSize
  <2> QED BY <2>7, <2>10 DEF Settled
<1> QED BY <1>5, <1>6, <1>7

\* Check_response accepts no junk, for any command.
LEMMA JunkIsRefused ==
  ASSUME NEW s \in Seq(Bytes), s # <<>>, Junk(s), ~Decode(s).esc, NEW c
  PROVE  ~Valid(Decode(s).data, c)
<1> DEFINE x == Decode(s)
           d == x.data
           l == Len(d)
<1>1. d \in Seq(Bytes) /\ l \in Nat
  BY DecodeType DEF Decoded
<1> SUFFICES ASSUME Valid(d, c)
             PROVE  FALSE
  OBVIOUS
<1>2. l >= 8 /\ d[1] = 1 /\ l = 8 + d[3] + 256 * d[4]
  BY DEF Valid, Header
<1>3. \A r \in Responses : Len(r) \in Nat /\ Len(r) >= 8 /\ Len(r) = 8 + r[3] + 256 * r[4]
  BY ResponseFacts
<1>4. Short(x) \/ Foreign(x) \/ TooLong(x)
  BY DEF Junk, Settled
<1> HIDE DEF d, l, x
<1>5. ~Short(x)
  <2> SUFFICES ASSUME NEW r \in Responses, CutFrom(x, r)
               PROVE  FALSE
    BY DEF Short
  <2>1. l < Len(r) /\ \A i \in 1 .. l : d[i] = r[i]
    BY DEF CutFrom, l, d
  <2>2. d[3] = r[3] /\ d[4] = r[4]
    BY <1>1, <1>2, <2>1
  <2> QED BY <1>1, <1>2, <1>3, <2>1, <2>2
<1>6. ~Foreign(x)
  BY <1>2 DEF Foreign, d
<1>7. ~TooLong(x)
  <2> SUFFICES ASSUME NEW r \in Responses, l > Len(r), d[3] = r[3], d[4] = r[4]
               PROVE  FALSE
    BY DEF TooLong, l, d
  <2> QED BY <1>1, <1>2, <1>3
<1> QED BY <1>4, <1>5, <1>6, <1>7

-----------------------------------------------------------------------------
(* The bytes the chip has written, and where the host is among them.       *)

\* All bytes T the chip has written, divided at the ENDs: at[i] of them come before
\* the i-th part, which is segs[i].
Stream(T, segs, at) ==
  /\ T \in Seq(Bytes) /\ segs \in Seq(Seq(Body)) /\ at \in Seq(Nat)
  /\ Len(segs) >= 1 /\ Len(at) = Len(segs)
  /\ \A i \in 1 .. Len(segs) : \A j \in 1 .. Len(segs[i]) : T[at[i] + j] = segs[i][j]
  /\ \A i \in 1 .. Len(segs) : at[i] + Len(segs[i]) <= Len(T)
  /\ \A i \in 1 .. Len(segs) : i < Len(segs) => at[i + 1] = at[i] + Len(segs[i]) + 1
                                              /\ T[at[i + 1]] = END
  /\ Len(T) = at[Len(segs)] + Len(segs[Len(segs)])

\* The parts with an index in whole are the packets, in their order: no[i] of them
\* come before the i-th part.  All others are junk, and so is the part that no END
\* has ended yet.
Packets(segs, no, whole) ==
  /\ segs \in Seq(Seq(Body)) /\ no \in Seq(Nat) /\ Len(no) = Len(segs)
  /\ Len(segs) >= 1 /\ whole \subseteq 1 .. Len(segs) - 1
  /\ no[Len(segs)] = Len(written)
  /\ \A i \in 1 .. Len(segs) : i < Len(segs) => no[i + 1] = IF i \in whole THEN no[i] + 1 ELSE no[i]
  /\ \A i \in 1 .. Len(segs) :
       i \in whole => no[i] < Len(written) /\ segs[i] = Encode(written[no[i] + 1])
  /\ \A i \in 1 .. Len(segs) :
       i \notin whole => Junk(segs[i]) /\ (blemish = 0 => segs[i] = <<>>)
  /\ Open(segs[Len(segs)], begun)

\* The line holds what comes after the first k bytes; the host is in part cur.
Reading(T, k, segs, at, no, cur) ==
  /\ k \in Nat /\ k <= Len(T) /\ Len(line) = Len(T) - k
  /\ \A j \in 1 .. Len(line) : line[j] = T[k + j]
  /\ cur \in 1 .. Len(segs) /\ no[cur] = Len(got)
  /\ place # "collect" => k = at[cur]
  /\ place = "collect" =>
       /\ k = at[cur] + Len(resp) /\ 1 <= Len(resp) /\ Len(resp) <= Len(segs[cur])
       /\ \A j \in 1 .. Len(resp) : resp[j] = segs[cur][j]

Story ==
  \E T, k, segs, at, no, whole, cur :
    Stream(T, segs, at) /\ Packets(segs, no, whole) /\ Reading(T, k, segs, at, no, cur)

SlipTypeOK ==
  /\ line \in Seq(Bytes) /\ resp \in Seq(Body)
  /\ place \in {"idle", "skip", "collect", "raised"}
  /\ raised \in {"none", "SerialTimeoutException", "IndexError", "ValueError"}
  /\ cmd \in Commands
  /\ got \in Seq(Seq(Bytes)) /\ written \in Seq(Responses)
  /\ blemish \in Nat /\ Len(written) + blemish <= MaxWrites
  /\ begun \in Nat /\ passable \in BOOLEAN
  /\ place = "raised" <=> raised # "none"
  /\ place = "skip" => resp = <<>>

GotInv ==
  /\ got \in Seq(Responses) /\ Len(got) <= Len(written)
  /\ \A i \in 1 .. Len(got) : got[i] = written[i]

\* What is known of the host and of the line while no text may have completed a packet.
Told == GotInv /\ RaisedForCause /\ (raised = "none" => Story)

SlipIInv ==
  /\ SlipTypeOK /\ RaisedForCause
  /\ blemish = 0 => ~passable
  /\ ~passable => GotInv /\ (raised = "none" => Story)

\* The types in a divided stream.
LEMMA StreamType ==
  ASSUME NEW T, NEW segs, NEW at, Stream(T, segs, at)
  PROVE  /\ Len(segs) \in Nat /\ Len(segs) >= 1 /\ Len(T) \in Nat
         /\ \A i \in 1 .. Len(segs) : segs[i] \in Seq(Body) /\ Len(segs[i]) \in Nat /\ at[i] \in Nat
<1>1. segs \in Seq(Seq(Body)) /\ at \in Seq(Nat) /\ Len(at) = Len(segs) /\ T \in Seq(Bytes)
      /\ Len(segs) >= 1
  BY DEF Stream
<1>2. Len(segs) \in Nat /\ Len(T) \in Nat
  BY <1>1, LenProperties
<1>3. \A i \in 1 .. Len(segs) : segs[i] \in Seq(Body) /\ at[i] \in Nat
  BY <1>1, ElementOfSeq
<1>4. \A i \in 1 .. Len(segs) : Len(segs[i]) \in Nat
  BY <1>3, LenProperties
<1> QED BY <1>1, <1>2, <1>3, <1>4

\* What comes after q bytes of part i.
LEMMA WhatComes ==
  ASSUME NEW T, NEW segs, NEW at, Stream(T, segs, at),
         NEW i \in 1 .. Len(segs), NEW q \in Nat, q <= Len(segs[i]), at[i] + q < Len(T)
  PROVE  /\ q < Len(segs[i]) => T[at[i] + q + 1] = segs[i][q + 1] /\ T[at[i] + q + 1] # END
         /\ q = Len(segs[i]) => /\ i < Len(segs) /\ i + 1 \in 1 .. Len(segs)
                                /\ T[at[i] + q + 1] = END /\ at[i + 1] = at[i] + q + 1
<1> DEFINE n == Len(segs)
           s == segs[i]
           l == Len(s)
           a == at[i]
<1>1. n \in Nat /\ s \in Seq(Body) /\ l \in Nat /\ a \in Nat
  BY StreamType
<1>2. /\ \A j \in 1 .. l : T[a + j] = s[j]
      /\ i < n => at[i + 1] = a + l + 1 /\ T[at[i + 1]] = END
      /\ Len(T) = at[n] + Len(segs[n])
  BY DEF Stream
<1>3. i = n => Len(T) = a + l
  BY <1>2
<1>4. q <= l /\ a + q < Len(T)
  OBVIOUS
<1>5. \A j \in 1 .. l : s[j] # END
  BY <1>1, ElementOfSeq DEF Body
<1> HIDE DEF n, s, l, a
<1>6. ASSUME q < l
      PROVE  T[a + q + 1] = s[q + 1] /\ T[a + q + 1] # END
  <2>1. q + 1 \in 1 .. l /\ a + (q + 1) = a + q + 1
    BY <1>1, <1>6
  <2> QED BY <1>2, <1>5, <2>1
<1>7. ASSUME q = l
      PROVE  i < n /\ i + 1 \in 1 .. n /\ T[a + q + 1] = END /\ at[i + 1] = a + q + 1
  <2>1. i # n
    BY <1>1, <1>3, <1>4, <1>7
  <2>2. i < n /\ i + 1 \in 1 .. n
    BY <1>1, <2>1 DEF n
  <2> QED BY <1>2, <1>7, <2>2
<1> QED BY <1>6, <1>7 DEF n, s, l, a

\* Where the elements of a concatenation are.
LEMMA ConcatAt ==
  ASSUME NEW S, NEW s \in Seq(S), NEW t \in Seq(S)
  PROVE  /\ s \o t \in Seq(S) /\ Len(s \o t) = Len(s) + Len(t)
         /\ Len(s) \in Nat /\ Len(t) \in Nat
         /\ \A j \in 1 .. Len(s) : (s \o t)[j] = s[j]
         /\ \A j \in 1 .. Len(t) : (s \o t)[Len(s) + j] = t[j]
  OBVIOUS

\* An END and bytes b are written: a new part.
LEMMA StreamNew ==
  ASSUME NEW T, NEW segs, NEW at, Stream(T, segs, at), NEW b \in Seq(Body)
  PROVE  Stream(T \o (<<END>> \o b), Append(segs, b), Append(at, Len(T) + 1))
<1> DEFINE n == Len(segs)
           u == Append(segs, b)
           v == Append(at, Len(T) + 1)
           e == <<END>> \o b
           R == T \o e
<1>1. /\ T \in Seq(Bytes) /\ segs \in Seq(Seq(Body)) /\ at \in Seq(Nat)
      /\ n >= 1 /\ Len(at) = n
      /\ \A i \in 1 .. n : \A j \in 1 .. Len(segs[i]) : T[at[i] + j] = segs[i][j]
      /\ \A i \in 1 .. n : at[i] + Len(segs[i]) <= Len(T)
      /\ \A i \in 1 .. n : i < n => at[i + 1] = at[i] + Len(segs[i]) + 1 /\ T[at[i + 1]] = END
      /\ Len(T) = at[n] + Len(segs[n])
  BY DEF Stream
<1>2. n \in Nat /\ Len(T) \in Nat /\ \A i \in 1 .. n : segs[i] \in Seq(Body)
          /\ Len(segs[i]) \in Nat /\ at[i] \in Nat
  BY StreamType
<1>3. b \in Seq(Bytes) /\ END \in Bytes /\ Len(b) \in Nat
  BY BodyIsBytes DEF Bytes, END
<1>4. e \in Seq(Bytes) /\ Len(e) = Len(b) + 1 /\ e[1] = END
      /\ \A j \in 1 .. Len(b) : e[j + 1] = b[j]
  BY <1>3
<1>5. u \in Seq(Seq(Body)) /\ Len(u) = n + 1 /\ u[n + 1] = b /\ \A i \in 1 .. n : u[i] = segs[i]
  BY <1>1
<1>6. v \in Seq(Nat) /\ Len(v) = n + 1 /\ v[n + 1] = Len(T) + 1 /\ \A i \in 1 .. n : v[i] = at[i]
  BY <1>1, <1>2
<1> HIDE DEF e
<1>7. /\ R \in Seq(Bytes) /\ Len(R) = Len(T) + Len(e)
      /\ \A j \in 1 .. Len(T) : R[j] = T[j]
      /\ \A j \in 1 .. Len(e) : R[Len(T) + j] = e[j]
  <2>1. T \in Seq(Bytes) /\ e \in Seq(Bytes)
    BY <1>1, <1>4
  <2> QED BY ONLY <2>1, ConcatAt
<1> DEFINE t == Len(T)
           l == Len(b)
<1>8. /\ t \in Nat /\ l \in Nat /\ Len(R) = t + l + 1 /\ R[t + 1] = END
      /\ \A j \in 1 .. l : R[(t + 1) + j] = b[j]
  <2>1. t \in Nat /\ l \in Nat /\ Len(R) = t + l + 1
    BY <1>2, <1>3, <1>4, <1>7
  <2> DEFINE f == Len(e)
  <2>2. f = l + 1 /\ \A j \in 1 .. f : R[t + j] = e[j]
    BY <1>4, <1>7
  <2> HIDE DEF t, l, R, f
  <2>3. R[t + 1] = END
    BY <1>4, <2>1, <2>2
  <2>4. ASSUME NEW j \in 1 .. l
        PROVE  R[(t + 1) + j] = b[j]
    <3>1. j + 1 \in 1 .. f /\ t + (j + 1) = (t + 1) + j /\ e[j + 1] = b[j]
      BY <1>4, <2>1, <2>2 DEF l
    <3> QED BY <2>2, <3>1
  <2> QED BY <2>1, <2>3, <2>4
<1> HIDE DEF n, u, v, R, t, l
<1>9. \A i \in 1 .. n : at[i] + Len(segs[i]) <= t
  BY <1>1 DEF t
<1>10. ASSUME NEW i \in 1 .. n + 1
       PROVE  /\ \A j \in 1 .. Len(u[i]) : R[v[i] + j] = u[i][j]
              /\ v[i] + Len(u[i]) <= Len(R)
              /\ i < n + 1 => v[i + 1] = v[i] + Len(u[i]) + 1 /\ R[v[i + 1]] = END
  <2>1. CASE i = n + 1
    <3>1. u[i] = b /\ v[i] = t + 1
      BY <1>5, <1>6, <2>1 DEF t
    <3>2. v[i] + Len(u[i]) <= Len(R)
      BY <1>8, <3>1 DEF l
    <3>3. \A j \in 1 .. Len(u[i]) : R[v[i] + j] = u[i][j]
      BY <1>8, <3>1 DEF l
    <3> QED BY <1>2, <2>1, <3>2, <3>3
  <2>2. CASE i \in 1 .. n
    <3> DEFINE s == segs[i]
               a == at[i]
               m == Len(s)
    <3>1. u[i] = s /\ v[i] = a /\ m \in Nat /\ a \in Nat /\ a + m <= t
      BY <1>2, <1>5, <1>6, <1>9, <2>2
    <3>2. \A j \in 1 .. m : T[a + j] = s[j]
      BY <1>1, <2>2
    <3>3. i < n => /\ at[i + 1] = a + m + 1 /\ T[at[i + 1]] = END
                   /\ i + 1 \in 1 .. n /\ at[i + 1] \in Nat
                   /\ at[i + 1] + Len(segs[i + 1]) <= t /\ Len(segs[i + 1]) \in Nat
      <4>1. SUFFICES ASSUME i < n PROVE <3>3!2
        OBVIOUS
      <4>2. i + 1 \in 1 .. n
        BY <1>2, <2>2, <4>1
      <4>3. at[i + 1] = a + m + 1 /\ T[at[i + 1]] = END
        BY <1>1, <2>2, <4>1
      <4>4. at[i + 1] \in Nat /\ at[i + 1] + Len(segs[i + 1]) <= t /\ Len(segs[i + 1]) \in Nat
        BY <1>2, <1>9, <4>2
      <4> QED BY <4>2, <4>3, <4>4
    <3>4. i = n => t = a + m
      BY <1>1 DEF t
    <3> HIDE DEF s, a, m
    <3>5. \A j \in 1 .. m : R[a + j] = s[j]
      <4>1. ASSUME NEW j \in 1 .. m
            PROVE  R[a + j] = T[a + j]
        <5>1. a + j \in 1 .. t
          BY <1>8, <3>1
        <5> QED BY <1>7, <5>1 DEF t
      <4> QED BY <3>2, <4>1
    <3>6. i < n + 1 => v[i + 1] = a + m + 1 /\ R[v[i + 1]] = END
      <4>1. CASE i = n
        BY <1>6, <1>8, <3>4, <4>1 DEF t
      <4>2. CASE i < n
        <5>1. /\ i + 1 \in 1 .. n /\ at[i + 1] \in Nat /\ at[i + 1] = a + m + 1
              /\ at[i + 1] + Len(segs[i + 1]) <= t /\ Len(segs[i + 1]) \in Nat
          BY <3>3, <4>2
        <5>2. at[i + 1] \in 1 .. t
          <6> DEFINE y == at[i + 1]
                     z == Len(segs[i + 1])
          <6>1. t \in Nat /\ y \in Nat /\ z \in Nat /\ y + z <= t /\ y = a + m + 1
                /\ a \in Nat /\ m \in Nat
            BY <1>8, <3>1, <5>1
          <6> HIDE DEF y, z
          <6>2. y \in 1 .. t
            BY ONLY <6>1
          <6> QED BY <6>2 DEF y
        <5>3. v[i + 1] = at[i + 1]
          BY <1>6, <5>1
        <5> QED BY <1>7, <3>3, <4>2, <5>2, <5>3 DEF t
      <4> QED BY <1>2, <2>2, <4>1, <4>2
    <3>7. a + m <= Len(R)
      BY <1>8, <3>1
    <3> QED BY <3>1, <3>5, <3>6, <3>7 DEF m
  <2> QED BY <1>2, <2>1, <2>2
<1>11. Len(R) = v[n + 1] + Len(u[n + 1])
  BY <1>5, <1>6, <1>8 DEF t, l
<1>12. Stream(R, u, v)
  <2>1. /\ Len(u) >= 1 /\ Len(v) = Len(u)
        /\ Len(R) = v[Len(u)] + Len(u[Len(u)])
    BY <1>2, <1>5, <1>6, <1>11
  <2>2. \A i \in 1 .. Len(u) : \A j \in 1 .. Len(u[i]) : R[v[i] + j] = u[i][j]
    BY <1>5, <1>10
  <2>3. \A i \in 1 .. Len(u) : v[i] + Len(u[i]) <= Len(R)
    BY <1>5, <1>10
  <2>4. \A i \in 1 .. Len(u) : i < Len(u) => v[i + 1] = v[i] + Len(u[i]) + 1 /\ R[v[i + 1]] = END
    BY <1>5, <1>10
  <2> QED BY ONLY <1>5, <1>6, <1>7, <2>1, <2>2, <2>3, <2>4 DEF Stream
<1> QED BY <1>12 DEF R, e, u, v

\* Text is written: the last part grows.
LEMMA StreamMore ==
  ASSUME NEW T, NEW segs, NEW at, Stream(T, segs, at), NEW b \in Seq(Body)
  PROVE  Stream(T \o b, [segs EXCEPT ![Len(segs)] = segs[Len(segs)] \o b], at)
<1> DEFINE n == Len(segs)
           w == segs[n] \o b
           u == [segs EXCEPT ![n] = w]
           R == T \o b
           t == Len(T)
           l == Len(segs[n])
           m == Len(b)
<1>1. /\ T \in Seq(Bytes) /\ segs \in Seq(Seq(Body)) /\ at \in Seq(Nat)
      /\ n >= 1 /\ Len(at) = n
      /\ \A i \in 1 .. n : \A j \in 1 .. Len(segs[i]) : T[at[i] + j] = segs[i][j]
      /\ \A i \in 1 .. n : at[i] + Len(segs[i]) <= Len(T)
      /\ \A i \in 1 .. n : i < n => at[i + 1] = at[i] + Len(segs[i]) + 1 /\ T[at[i + 1]] = END
      /\ Len(T) = at[n] + Len(segs[n])
  BY DEF Stream
<1>2. n \in Nat /\ t \in Nat /\ \A i \in 1 .. n : segs[i] \in Seq(Body)
          /\ Len(segs[i]) \in Nat /\ at[i] \in Nat
  BY StreamType
<1>3. b \in Seq(Bytes) /\ m \in Nat /\ l \in Nat /\ segs[n] \in Seq(Body) /\ at[n] \in Nat
  BY <1>1, <1>2, BodyIsBytes
<1>4. /\ w \in Seq(Body) /\ Len(w) = l + m
      /\ \A j \in 1 .. l : w[j] = segs[n][j]
      /\ \A j \in 1 .. m : w[l + j] = b[j]
  BY ONLY <1>3, ConcatAt
<1>5. /\ R \in Seq(Bytes) /\ Len(R) = t + m
      /\ \A j \in 1 .. t : R[j] = T[j]
      /\ \A j \in 1 .. m : R[t + j] = b[j]
  <2>1. T \in Seq(Bytes)
    BY <1>1
  <2> QED BY ONLY <1>3, <2>1, ConcatAt
<1> HIDE DEF w
<1>6. u \in Seq(Seq(Body)) /\ Len(u) = n /\ u[n] = w /\ \A i \in 1 .. n : i # n => u[i] = segs[i]
  BY <1>1, <1>2, <1>4
<1>7. t = at[n] + l
  BY <1>1
<1>8. \A i \in 1 .. n : at[i] + Len(segs[i]) <= t
  BY <1>1
<1> HIDE DEF n, u, R, t, l, m
<1>9. ASSUME NEW i \in 1 .. n
      PROVE  /\ \A j \in 1 .. Len(u[i]) : R[at[i] + j] = u[i][j]
             /\ at[i] + Len(u[i]) <= Len(R)
             /\ i < n => at[i + 1] = at[i] + Len(u[i]) + 1 /\ R[at[i + 1]] = END
  <2>1. CASE i = n
    <3>1. u[i] = w /\ at[i] + Len(w) <= Len(R)
      BY <1>3, <1>4, <1>5, <1>6, <1>7, <2>1
    <3>2. ASSUME NEW j \in 1 .. Len(w)
          PROVE  R[at[n] + j] = w[j]
      <4>1. CASE j \in 1 .. l
        <5>1. at[n] + j \in 1 .. t
          BY <1>2, <1>3, <1>7, <4>1
        <5>2. T[at[n] + j] = segs[n][j]
          <6>1. n \in 1 .. n
            BY <1>2
          <6> QED BY <1>1, <4>1, <6>1 DEF l
        <5> QED BY <1>4, <1>5, <4>1, <5>1, <5>2
      <4>2. CASE j \notin 1 .. l
        <5>1. j - l \in 1 .. m /\ l + (j - l) = j /\ t + (j - l) = at[n] + j
          BY <1>2, <1>3, <1>4, <1>7, <4>2
        <5>2. w[l + (j - l)] = b[j - l] /\ R[t + (j - l)] = b[j - l]
          BY <1>4, <1>5, <5>1
        <5> QED BY <5>1, <5>2
      <4> QED BY <4>1, <4>2
    <3> QED BY <1>2, <2>1, <3>1, <3>2
  <2>2. CASE i # n
    <3> DEFINE s == segs[i]
               a == at[i]
               q == Len(s)
    <3>1. u[i] = s /\ q \in Nat /\ a \in Nat /\ a + q <= t
      BY <1>2, <1>6, <1>8, <2>2
    <3>2. \A j \in 1 .. q : T[a + j] = s[j]
      BY <1>1, <2>2
    <3>3. i < n /\ i + 1 \in 1 .. n
      BY <1>2, <2>2
    <3>4. at[i + 1] = a + q + 1 /\ T[at[i + 1]] = END
      BY <1>1, <3>3
    <3>5. at[i + 1] \in Nat /\ at[i + 1] + Len(segs[i + 1]) <= t /\ Len(segs[i + 1]) \in Nat
      BY <1>2, <1>8, <3>3
    <3> HIDE DEF s, a, q
    <3>6. \A j \in 1 .. q : R[a + j] = s[j]
      <4>1. ASSUME NEW j \in 1 .. q
            PROVE  R[a + j] = T[a + j]
        <5>1. a + j \in 1 .. t
          BY <1>2, <3>1
        <5> QED BY <1>5, <5>1
      <4> QED BY <3>2, <4>1
    <3>7. R[at[i + 1]] = END
      <4>1. at[i + 1] \in 1 .. t
        <5> DEFINE g == at[i + 1]
                   h == Len(segs[i + 1])
        <5>1. g \in Nat /\ h \in Nat /\ g + h <= t /\ g = a + q + 1 /\ a \in Nat /\ q \in Nat
              /\ t \in Nat
          BY <1>2, <3>1, <3>4, <3>5
        <5> HIDE DEF g, h
        <5>2. g \in 1 .. t
          BY ONLY <5>1
        <5> QED BY <5>2 DEF g
      <4> QED BY <1>5, <3>4, <4>1
    <3>8. a + q <= Len(R)
      BY <1>2, <1>3, <1>5, <3>1
    <3> QED BY <3>1, <3>4, <3>6, <3>7, <3>8 DEF q, a
  <2> QED BY <2>1, <2>2
<1>10. /\ Len(u) >= 1 /\ Len(at) = Len(u) /\ at \in Seq(Nat)
       /\ Len(R) = at[Len(u)] + Len(u[Len(u)])
  <2>1. Len(R) = at[n] + Len(w)
    BY <1>2, <1>3, <1>4, <1>5, <1>7
  <2> QED BY <1>1, <1>6, <2>1
<1>11. Stream(R, u, at)
  <2>1. \A i \in 1 .. Len(u) : \A j \in 1 .. Len(u[i]) : R[at[i] + j] = u[i][j]
    BY <1>6, <1>9
  <2>2. \A i \in 1 .. Len(u) : at[i] + Len(u[i]) <= Len(R)
    BY <1>6, <1>9
  <2>3. \A i \in 1 .. Len(u) : i < Len(u) => at[i + 1] = at[i] + Len(u[i]) + 1 /\ R[at[i + 1]] = END
    BY <1>6, <1>9
  <2> QED BY ONLY <1>5, <1>6, <1>10, <2>1, <2>2, <2>3 DEF Stream
<1> QED BY <1>11 DEF R, u, w, n

\* What is written does not disturb the host.
LEMMA ReadingMore ==
  ASSUME NEW T \in Seq(Bytes), NEW k, NEW segs, NEW at, NEW no, NEW cur,
         Reading(T, k, segs, at, no, cur),
         NEW X \in Seq(Bytes), NEW v, NEW a, NEW p,
         line \in Seq(Bytes), line' = line \o X, UNCHANGED host,
         cur \in 1 .. Len(v), a[cur] = at[cur], p[cur] = no[cur], Len(segs[cur]) \in Nat,
         Len(v[cur]) \in Nat, Len(segs[cur]) <= Len(v[cur]),
         \A j \in 1 .. Len(segs[cur]) : v[cur][j] = segs[cur][j],
         place = "collect" => Len(resp) \in Nat
  PROVE  Reading(T \o X, k, v, a, p, cur)'
<1> DEFINE R == T \o X
           t == Len(T)
           l == Len(line)
           x == Len(X)
<1>1. /\ R \in Seq(Bytes) /\ Len(R) = t + x /\ t \in Nat /\ x \in Nat
      /\ \A j \in 1 .. t : R[j] = T[j]
      /\ \A j \in 1 .. x : R[t + j] = X[j]
  BY ONLY T \in Seq(Bytes), X \in Seq(Bytes), ConcatAt
<1>2. /\ Len(line') = l + x /\ l \in Nat
      /\ \A j \in 1 .. l : line'[j] = line[j]
      /\ \A j \in 1 .. x : line'[l + j] = X[j]
  <2>1. /\ Len(line \o X) = l + x /\ l \in Nat
        /\ \A j \in 1 .. l : (line \o X)[j] = line[j]
        /\ \A j \in 1 .. x : (line \o X)[l + j] = X[j]
    BY ONLY line \in Seq(Bytes), X \in Seq(Bytes), ConcatAt
  <2> QED BY <2>1
<1>3. /\ k \in Nat /\ k <= t /\ l = t - k
      /\ \A j \in 1 .. l : line[j] = T[k + j]
  BY DEF Reading
<1>4. UNCHANGED <<place, resp, got>>
  BY DEF host
<1> HIDE DEF R, t, l, x
<1>5. ASSUME NEW j \in 1 .. l + x
      PROVE  line'[j] = R[k + j]
  <2>1. CASE j \in 1 .. l
    <3>1. k + j \in 1 .. t
      <4>1. k \in Nat /\ l = t - k /\ l \in Nat /\ t \in Nat
        BY <1>1, <1>2, <1>3
      <4> QED BY ONLY <2>1, <4>1
    <3> QED BY <1>1, <1>2, <1>3, <2>1, <3>1
  <2>2. CASE j \notin 1 .. l
    <3>1. j - l \in 1 .. x /\ l + (j - l) = j /\ t + (j - l) = k + j
      <4>1. k \in Nat /\ l = t - k /\ l \in Nat /\ x \in Nat /\ t \in Nat
        BY <1>1, <1>2, <1>3
      <4> QED BY ONLY <2>2, <4>1, j \in 1 .. l + x
    <3>2. line'[l + (j - l)] = X[j - l] /\ R[t + (j - l)] = X[j - l]
      BY <1>1, <1>2, <3>1
    <3> QED BY <3>1, <3>2
  <2> QED BY <2>1, <2>2
<1>6. k <= Len(R) /\ Len(line') = Len(R) - k
  <2>1. /\ k \in Nat /\ k <= t /\ l = t - k /\ t \in Nat /\ x \in Nat
        /\ Len(R) = t + x /\ Len(line') = l + x
    BY <1>1, <1>2, <1>3
  <2> QED BY ONLY <2>1
<1>7. p[cur] = Len(got') /\ (place' # "collect" => k = a[cur])
  BY <1>4 DEF Reading
<1>8. ASSUME place' = "collect"
      PROVE  /\ k = a[cur] + Len(resp') /\ 1 <= Len(resp') /\ Len(resp') <= Len(v[cur])
             /\ \A j \in 1 .. Len(resp') : resp'[j] = v[cur][j]
  <2> DEFINE q == Len(resp)
             y == Len(segs[cur])
             z == Len(v[cur])
  <2>1. /\ k = at[cur] + q /\ 1 <= q /\ q <= y
        /\ \A j \in 1 .. q : resp[j] = segs[cur][j]
    BY <1>4, <1>8 DEF Reading
  <2>2. q \in Nat /\ y \in Nat /\ z \in Nat /\ y <= z /\ \A j \in 1 .. y : v[cur][j] = segs[cur][j]
    BY <1>4, <1>8
  <2>3. Len(resp') = q /\ resp' = resp
    BY <1>4
  <2> HIDE DEF q, y, z
  <2>4. q <= z /\ \A j \in 1 .. q : resp[j] = v[cur][j]
    BY <2>1, <2>2
  <2> QED BY <2>1, <2>3, <2>4 DEF z
<1>9. Reading(R, k, v, a, p, cur)'
  BY <1>2, <1>3, <1>5, <1>6, <1>7, <1>8 DEF Reading
<1> QED BY <1>9 DEF R

\* The types of the parts.
LEMMA PacketsType ==
  ASSUME NEW segs, NEW no, NEW whole, Packets(segs, no, whole)
  PROVE  /\ segs \in Seq(Seq(Body)) /\ no \in Seq(Nat)
         /\ Len(segs) \in Nat /\ Len(segs) >= 1 /\ Len(no) = Len(segs)
         /\ \A i \in 1 .. Len(segs) : segs[i] \in Seq(Body) /\ no[i] \in Nat
<1>1. segs \in Seq(Seq(Body)) /\ no \in Seq(Nat) /\ Len(segs) >= 1 /\ Len(no) = Len(segs)
  BY DEF Packets
<1>2. Len(segs) \in Nat
  BY <1>1, LenProperties
<1>3. \A i \in 1 .. Len(segs) : segs[i] \in Seq(Body) /\ no[i] \in Nat
  BY <1>1, ElementOfSeq
<1> QED BY <1>1, <1>2, <1>3

\* A new part that is no packet.
LEMMA PacketsNewJunk ==
  ASSUME NEW segs, NEW no, NEW whole, Packets(segs, no, whole),
         blemish \in Nat, blemish' = blemish + 1, written' = written,
         NEW p \in Seq(Body), Junk(p), Open(p, begun')
  PROVE  Packets(Append(segs, p), Append(no, no[Len(segs)]), whole)'
<1> DEFINE n == Len(segs)
           u == Append(segs, p)
           o == Append(no, no[n])
<1>1. /\ segs \in Seq(Seq(Body)) /\ no \in Seq(Nat) /\ n \in Nat /\ n >= 1 /\ Len(no) = n
      /\ \A i \in 1 .. n : segs[i] \in Seq(Body) /\ no[i] \in Nat
  BY PacketsType
<1>2. /\ whole \subseteq 1 .. n - 1 /\ no[n] = Len(written)
      /\ \A i \in 1 .. n : i < n => no[i + 1] = IF i \in whole THEN no[i] + 1 ELSE no[i]
      /\ \A i \in 1 .. n : i \in whole => no[i] < Len(written)
             /\ segs[i] = Encode(written[no[i] + 1])
      /\ \A i \in 1 .. n : i \notin whole => Junk(segs[i])
  BY DEF Packets
<1>3. blemish' # 0
  OBVIOUS
<1>4. u \in Seq(Seq(Body)) /\ Len(u) = n + 1 /\ u[n + 1] = p /\ \A i \in 1 .. n : u[i] = segs[i]
  BY <1>1
<1>5. /\ o \in Seq(Nat) /\ Len(o) = n + 1 /\ o[n + 1] = Len(written)
      /\ \A i \in 1 .. n : o[i] = no[i]
  <2>1. no[n] \in Nat
    BY <1>1
  <2> QED BY <1>1, <1>2, <2>1
<1> HIDE DEF n, u, o
<1>6. \A i \in 1 .. n + 1 : i < n + 1 => o[i + 1] = IF i \in whole THEN o[i] + 1 ELSE o[i]
  <2> SUFFICES ASSUME NEW i \in 1 .. n + 1, i < n + 1
               PROVE  o[i + 1] = IF i \in whole THEN o[i] + 1 ELSE o[i]
    OBVIOUS
  <2>1. CASE i = n
    <3>1. n \notin whole /\ n \in 1 .. n
      BY <1>1, <1>2
    <3> QED BY <1>2, <1>5, <2>1, <3>1
  <2>2. CASE i < n
    <3>1. i \in 1 .. n /\ i + 1 \in 1 .. n
      BY <1>1, <2>2
    <3>2. o[i] = no[i] /\ o[i + 1] = no[i + 1]
      BY <1>5, <3>1
    <3> QED BY <1>2, <2>2, <3>1, <3>2
  <2> QED BY <1>1, <2>1, <2>2
<1>7. ASSUME NEW i \in 1 .. n + 1, i \in whole
      PROVE  o[i] < Len(written) /\ u[i] = Encode(written[o[i] + 1])
  <2>1. i \in 1 .. n
    BY <1>1, <1>2, <1>7
  <2> QED BY <1>2, <1>4, <1>5, <1>7, <2>1
<1>8. ASSUME NEW i \in 1 .. n + 1, i \notin whole
      PROVE  Junk(u[i])
  <2>1. CASE i = n + 1
    BY <1>4, <2>1
  <2>2. CASE i \in 1 .. n
    BY <1>2, <1>4, <1>8, <2>2
  <2> QED BY <1>1, <2>1, <2>2
<1>9. /\ Len(u) >= 1 /\ whole \subseteq 1 .. Len(u) - 1 /\ Len(o) = Len(u)
      /\ o[Len(u)] = Len(written)
  BY <1>1, <1>2, <1>4, <1>5
<1>10. Packets(u, o, whole)'
  <2>1. \A i \in 1 .. Len(u) : i < Len(u) => o[i + 1] = IF i \in whole THEN o[i] + 1 ELSE o[i]
    BY <1>4, <1>6
  <2>2. \A i \in 1 .. Len(u) : i \in whole => o[i] < Len(written')
            /\ u[i] = Encode(written'[o[i] + 1])
    BY <1>4, <1>7
  <2>3. \A i \in 1 .. Len(u) : i \notin whole => Junk(u[i])
            /\ (blemish' = 0 => u[i] = <<>>)
    BY <1>3, <1>4, <1>8
  <2>4. o[Len(u)] = Len(written') /\ Open(u[Len(u)], begun')
    BY <1>4, <1>9
  <2> QED BY ONLY <1>4, <1>5, <1>9, <2>1, <2>2, <2>3, <2>4 DEF Packets
<1> QED BY <1>10 DEF u, o, n

\* The last part grows by text.
LEMMA PacketsMore ==
  ASSUME NEW segs, NEW no, NEW whole, Packets(segs, no, whole),
         blemish \in Nat, blemish' = blemish + 1, written' = written, NEW t \in Texts,
         begun \in Nat, ~Completes(t), begun' = 0
  PROVE  Packets([segs EXCEPT ![Len(segs)] = segs[Len(segs)] \o t], no, whole)'
<1> DEFINE n == Len(segs)
           w == segs[n] \o t
           u == [segs EXCEPT ![n] = w]
<1>1. /\ segs \in Seq(Seq(Body)) /\ no \in Seq(Nat) /\ n \in Nat /\ n >= 1 /\ Len(no) = n
      /\ \A i \in 1 .. n : segs[i] \in Seq(Body) /\ no[i] \in Nat
  BY PacketsType
<1>2. /\ whole \subseteq 1 .. n - 1 /\ no[n] = Len(written)
      /\ \A i \in 1 .. n : i < n => no[i + 1] = IF i \in whole THEN no[i] + 1 ELSE no[i]
      /\ \A i \in 1 .. n : i \in whole => no[i] < Len(written)
             /\ segs[i] = Encode(written[no[i] + 1])
      /\ \A i \in 1 .. n : i \notin whole => Junk(segs[i])
      /\ Open(segs[n], begun)
  BY DEF Packets
<1>3. begun \notin 1 .. 3 /\ (begun >= 4 => \A r \in Responses : ~(Len(t) <= Len(r)))
  BY DEF Completes
<1>4. w \in Seq(Body)
  BY <1>1, TextFacts, ConcatProperties
<1>5. Junk(w) /\ Open(w, 0)
  <2>1. n \notin whole /\ n \in 1 .. n
    BY <1>1, <1>2
  <2> QED BY <1>1, <1>2, <1>3, <2>1, JunkAndText
<1> HIDE DEF w
<1>6. u \in Seq(Seq(Body)) /\ Len(u) = n /\ u[n] = w /\ \A i \in 1 .. n : i # n => u[i] = segs[i]
  BY <1>1, <1>4
<1>7. blemish' # 0
  OBVIOUS
<1> HIDE DEF n, u
<1>8. ASSUME NEW i \in 1 .. n, i \in whole
      PROVE  no[i] < Len(written) /\ u[i] = Encode(written[no[i] + 1])
  <2>1. i # n
    BY <1>1, <1>2, <1>8
  <2> QED BY <1>2, <1>6, <1>8, <2>1
<1>9. ASSUME NEW i \in 1 .. n, i \notin whole
      PROVE  Junk(u[i])
  <2>1. CASE i = n
    BY <1>5, <1>6, <2>1
  <2>2. CASE i # n
    BY <1>2, <1>6, <1>9, <2>2
  <2> QED BY <2>1, <2>2
<1>10. Packets(u, no, whole)'
  <2>1. \A i \in 1 .. Len(u) : i < Len(u) => no[i + 1] = IF i \in whole THEN no[i] + 1 ELSE no[i]
    BY <1>2, <1>6
  <2>2. \A i \in 1 .. Len(u) : i \in whole => no[i] < Len(written')
            /\ u[i] = Encode(written'[no[i] + 1])
    BY <1>6, <1>8
  <2>3. \A i \in 1 .. Len(u) : i \notin whole => Junk(u[i])
            /\ (blemish' = 0 => u[i] = <<>>)
    BY <1>6, <1>7, <1>9
  <2>4. /\ Len(u) >= 1 /\ whole \subseteq 1 .. Len(u) - 1 /\ Len(no) = Len(u) /\ no \in Seq(Nat)
        /\ no[Len(u)] = Len(written') /\ Open(u[Len(u)], begun')
    BY <1>1, <1>2, <1>5, <1>6
  <2> QED BY ONLY <1>6, <2>1, <2>2, <2>3, <2>4 DEF Packets
<1> QED BY <1>10 DEF u, w, n

\* A packet in a part of its own, and an empty part after it.
LEMMA PacketsNewWhole ==
  ASSUME NEW segs, NEW no, NEW whole, Packets(segs, no, whole),
         written \in Seq(Responses), blemish \in Nat,
         NEW r \in Responses, blemish' = blemish, written' = Append(written, r), begun' = 0
  PROVE  Packets(Append(Append(segs, Encode(r)), <<>>),
                 Append(Append(no, no[Len(segs)]), no[Len(segs)] + 1),
                 whole \cup {Len(segs) + 1})'
<1> DEFINE n == Len(segs)
           E == Encode(r)
           u == Append(Append(segs, E), <<>>)
           l == Len(written)
           o == Append(Append(no, no[n]), no[n] + 1)
           h == whole \cup {n + 1}
<1>1. /\ segs \in Seq(Seq(Body)) /\ no \in Seq(Nat) /\ n \in Nat /\ n >= 1 /\ Len(no) = n
      /\ \A i \in 1 .. n : segs[i] \in Seq(Body) /\ no[i] \in Nat
  BY PacketsType
<1>2. /\ whole \subseteq 1 .. n - 1 /\ no[n] = l
      /\ \A i \in 1 .. n : i < n => no[i + 1] = IF i \in whole THEN no[i] + 1 ELSE no[i]
      /\ \A i \in 1 .. n : i \in whole => no[i] < l /\ segs[i] = Encode(written[no[i] + 1])
      /\ \A i \in 1 .. n : i \notin whole => Junk(segs[i]) /\ (blemish = 0 => segs[i] = <<>>)
  BY DEF Packets
<1>3. l \in Nat /\ Len(written') = l + 1 /\ written'[l + 1] = r
      /\ \A i \in 1 .. l : written'[i] = written[i]
  OBVIOUS
<1>4. E \in Seq(Body) /\ <<>> \in Seq(Body)
  BY ResponseFacts, EmptySeq
<1> HIDE DEF E, n, l
<1>5. /\ u \in Seq(Seq(Body)) /\ Len(u) = n + 2 /\ u[n + 1] = E /\ u[n + 2] = <<>>
      /\ \A i \in 1 .. n : u[i] = segs[i]
  <2> DEFINE z == Append(segs, E)
  <2>1. z \in Seq(Seq(Body)) /\ Len(z) = n + 1 /\ z[n + 1] = E /\ \A i \in 1 .. n : z[i] = segs[i]
    BY <1>1, <1>4 DEF n
  <2> HIDE DEF z
  <2>2. /\ Append(z, <<>>) \in Seq(Seq(Body)) /\ Len(Append(z, <<>>)) = n + 2
        /\ Append(z, <<>>)[n + 2] = <<>> /\ \A i \in 1 .. n + 1 : Append(z, <<>>)[i] = z[i]
    BY <1>1, <1>4, <2>1
  <2>3. n + 1 \in 1 .. n + 1 /\ \A i \in 1 .. n : i \in 1 .. n + 1
    BY <1>1
  <2> QED BY <2>1, <2>2, <2>3 DEF z
<1>6. /\ o \in Seq(Nat) /\ Len(o) = n + 2 /\ o[n + 1] = l /\ o[n + 2] = l + 1
      /\ \A i \in 1 .. n : o[i] = no[i]
  <2> DEFINE z == Append(no, no[n])
  <2>1. no[n] = l /\ l \in Nat
    BY <1>2, <1>3
  <2>2. z \in Seq(Nat) /\ Len(z) = n + 1 /\ z[n + 1] = l /\ \A i \in 1 .. n : z[i] = no[i]
    BY <1>1, <2>1
  <2>3. o = Append(z, l + 1)
    BY <2>1
  <2> HIDE DEF z, o
  <2>4. o \in Seq(Nat) /\ Len(o) = n + 2 /\ o[n + 2] = l + 1 /\ \A i \in 1 .. n + 1 : o[i] = z[i]
    BY <1>1, <2>1, <2>2, <2>3
  <2>5. n + 1 \in 1 .. n + 1 /\ \A i \in 1 .. n : i \in 1 .. n + 1
    BY <1>1
  <2> QED BY <2>2, <2>4, <2>5
<1> HIDE DEF u, o
<1>7. ASSUME NEW i \in 1 .. n + 2, i < n + 2
      PROVE  o[i + 1] = IF i \in h THEN o[i] + 1 ELSE o[i]
  <2>1. CASE i = n + 1
    <3>1. i \in h /\ i + 1 = n + 2
      BY <1>1, <2>1
    <3> QED BY <1>6, <2>1, <3>1
  <2>2. CASE i = n
    <3>1. n \notin h /\ n \in 1 .. n
      BY <1>1, <1>2
    <3> QED BY <1>2, <1>6, <2>2, <3>1
  <2>3. CASE i < n
    <3>1. i \in 1 .. n /\ i + 1 \in 1 .. n /\ i # n + 1
      BY <1>1, <2>3
    <3>2. o[i] = no[i] /\ o[i + 1] = no[i + 1]
      BY <1>6, <3>1
    <3> QED BY <1>2, <2>3, <3>1, <3>2
  <2> QED BY <1>1, <1>7, <2>1, <2>2, <2>3
<1>8. ASSUME NEW i \in 1 .. n + 2, i \in h
      PROVE  o[i] < l + 1 /\ u[i] = Encode(written'[o[i] + 1])
  <2>1. CASE i = n + 1
    <3>1. o[i] = l /\ u[i] = E /\ written'[l + 1] = r /\ l \in Nat
      BY <1>3, <1>5, <1>6, <2>1
    <3> QED BY <3>1 DEF E
  <2>2. CASE i # n + 1
    <3>1. i \in 1 .. n /\ i \in whole
      BY <1>1, <1>2, <1>8, <2>2
    <3>2. no[i] \in Nat /\ no[i] < l /\ o[i] = no[i] /\ u[i] = Encode(written[no[i] + 1])
      BY <1>1, <1>2, <1>5, <1>6, <3>1
    <3> DEFINE q == no[i]
    <3> HIDE DEF q
    <3>3. q \in Nat /\ q < l /\ o[i] = q /\ u[i] = Encode(written[q + 1])
      BY <3>2 DEF q
    <3>4. q + 1 \in 1 .. l /\ q < l + 1
      BY <1>3, <3>3
    <3> QED BY <1>3, <3>3, <3>4
  <2> QED BY <2>1, <2>2
<1>9. ASSUME NEW i \in 1 .. n + 2, i \notin h
      PROVE  Junk(u[i]) /\ (blemish = 0 => u[i] = <<>>)
  <2>1. CASE i = n + 2
    BY <1>5, <2>1 DEF Junk
  <2>2. CASE i # n + 2
    <3>1. i \in 1 .. n /\ i \notin whole
      BY <1>1, <1>9, <2>2
    <3> QED BY <1>2, <1>5, <3>1
  <2> QED BY <2>1, <2>2
<1>10. Packets(u, o, h)'
  <2>1. \A i \in 1 .. Len(u) : i < Len(u) => o[i + 1] = IF i \in h THEN o[i] + 1 ELSE o[i]
    BY <1>5, <1>7
  <2>2. \A i \in 1 .. Len(u) : i \in h => o[i] < Len(written') /\ u[i] = Encode(written'[o[i] + 1])
    BY <1>3, <1>5, <1>8
  <2>3. \A i \in 1 .. Len(u) : i \notin h => Junk(u[i])
            /\ (blemish' = 0 => u[i] = <<>>)
    BY <1>5, <1>9
  <2>4. /\ Len(u) >= 1 /\ h \subseteq 1 .. Len(u) - 1 /\ Len(o) = Len(u)
        /\ o[Len(u)] = Len(written')
    <3>1. Len(u) = n + 2 /\ Len(o) = n + 2 /\ o[n + 2] = l + 1 /\ Len(written') = l + 1
      BY <1>3, <1>5, <1>6
    <3>2. n + 2 >= 1 /\ n + 2 - 1 = n + 1
      BY <1>1
    <3>3. h \subseteq 1 .. n + 1
      BY <1>1, <1>2
    <3> HIDE DEF h
    <3>4. Len(u) >= 1 /\ Len(u) - 1 = n + 1
      BY ONLY <3>1, <1>1
    <3>5. h \subseteq 1 .. Len(u) - 1
      BY ONLY <3>3, <3>4, Zenon
    <3> QED BY ONLY <3>1, <3>4, <3>5, Zenon
  <2>5. Open(u[Len(u)], begun')
    <3>1. Len(Decode(<<>>).data) = 0
      BY CodecEmpty, EmptySeq DEF Start
    <3> QED BY <1>5, <3>1 DEF Open
  <2> QED BY ONLY <1>5, <1>6, <2>1, <2>2, <2>3, <2>4, <2>5 DEF Packets
<1> QED BY <1>10 DEF u, o, n, E

-----------------------------------------------------------------------------
(* The steps.                                                              *)

\* The chip writes: nothing the host has is disturbed, whatever it writes.
LEMMA WriteKeeps ==
  ASSUME SlipTypeOK, GotInv, RaisedForCause, UNCHANGED host,
         \/ blemish' = blemish /\ \E r \in Responses : written' = Append(written, r)
         \/ blemish' = blemish + 1 /\ written' = written
  PROVE  GotInv' /\ RaisedForCause'
<1>1. cmd' = cmd /\ got' = got /\ raised' = raised
  BY DEF host
<1>2. /\ written \in Seq(Responses) /\ got \in Seq(Responses) /\ blemish \in Nat
      /\ Len(written) \in Nat /\ Len(got) \in Nat /\ Len(got) <= Len(written)
      /\ \A i \in 1 .. Len(got) : got[i] = written[i]
  BY DEF SlipTypeOK, GotInv
<1>3. /\ Len(written') \in Nat /\ Len(written) <= Len(written')
      /\ \A i \in 1 .. Len(written) : written'[i] = written[i]
      /\ blemish' = 0 => blemish = 0
  <2>1. CASE blemish' = blemish /\ \E r \in Responses : written' = Append(written, r)
    <3>1. PICK r \in Responses : written' = Append(written, r)
      BY <2>1
    <3>2. /\ Len(written') = Len(written) + 1
          /\ \A i \in 1 .. Len(written) : written'[i] = written[i]
      BY <1>2, <3>1
    <3> QED BY <1>2, <2>1, <3>2
  <2>2. CASE blemish' = blemish + 1 /\ written' = written
    BY <1>2, <2>2
  <2> QED BY <2>1, <2>2
<1>4. GotInv'
  BY <1>1, <1>2, <1>3 DEF GotInv
<1>5. RaisedForCause'
  <2> SUFFICES ASSUME blemish' = 0, raised \notin {"none", "SerialTimeoutException"}
               PROVE  /\ raised = "ValueError"
                      /\ Len(got) < Len(written') /\ ~Valid(written'[Len(got) + 1], cmd)
    BY <1>1 DEF RaisedForCause
  <2>1. raised = "ValueError" /\ Len(got) < Len(written) /\ ~Valid(written[Len(got) + 1], cmd)
    BY <1>3 DEF RaisedForCause
  <2>2. Len(got) + 1 \in 1 .. Len(written)
    BY <1>2, <2>1
  <2>3. written'[Len(got) + 1] = written[Len(got) + 1] /\ Len(got) < Len(written')
    BY <1>2, <1>3, <2>1, <2>2
  <2> QED BY <2>1, <2>3
<1> QED BY <1>4, <1>5

\* A frame, and what is left of it when it is cut.
LEMMA FramedFacts ==
  ASSUME NEW r \in Responses
  PROVE  /\ Framed(r) \in Seq(Bytes)
         /\ \A T \in Seq(Bytes) : (T \o (<<END>> \o Encode(r))) \o (<<END>> \o <<>>) = T \o Framed(r)
         /\ \A m \in 1 .. Len(Encode(r)) :
              SubSeq(Framed(r), 1, m) = <<END>> \o SubSeq(Encode(r), 1, m - 1)
<1> DEFINE e == Encode(r)
           o == <<END>>
           f == o \o e \o o
<1>1. e \in Seq(Bytes) /\ o \in Seq(Bytes) /\ Len(o) = 1 /\ o[1] = END /\ <<>> \in Seq(Bytes)
  BY ResponseFacts, BodyIsBytes, EmptySeq DEF END, Bytes
<1>2. Framed(r) = f
  BY DEF Framed
<1> HIDE DEF e
<1>3. f \in Seq(Bytes)
  BY <1>1, ConcatProperties
<1>4. ASSUME NEW T \in Seq(Bytes)
      PROVE  (T \o (o \o e)) \o (o \o <<>>) = T \o f
  <2> HIDE DEF o
  <2>1. o \o <<>> = o
    BY <1>1, ConcatEmptySeq
  <2>2. o \o e \in Seq(Bytes)
    BY <1>1, ConcatProperties
  <2>3. (T \o (o \o e)) \o o = T \o ((o \o e) \o o)
    BY <1>1, <2>2, ConcatAssociative
  <2> QED BY <2>1, <2>3, Zenon
<1>5. ASSUME NEW m \in 1 .. Len(e)
      PROVE  SubSeq(f, 1, m) = o \o SubSeq(e, 1, m - 1)
  <2> DEFINE g == SubSeq(f, 1, m)
             c == SubSeq(e, 1, m - 1)
             h == o \o c
  <2>1. Len(e) \in Nat /\ m \in Nat /\ 1 <= m /\ m <= Len(e) /\ Len(f) = Len(e) + 2
    BY <1>1, ConcatProperties
  <2>2. g \in Seq(Bytes) /\ Len(g) = m /\ \A i \in 1 .. m : g[i] = f[i]
    BY <1>3, <2>1
  <2>3. c \in Seq(Bytes) /\ Len(c) = m - 1 /\ \A i \in 1 .. m - 1 : c[i] = e[i]
    BY <1>1, <2>1
  <2>4. h \in Seq(Bytes) /\ Len(h) = m /\ h[1] = END /\ \A i \in 2 .. m : h[i] = c[i - 1]
    <3> HIDE DEF c
    <3> QED BY <1>1, <2>1, <2>3
  <2>5. f[1] = END /\ \A i \in 2 .. m : f[i] = e[i - 1]
    BY <1>1, <2>1
  <2> HIDE DEF g, c, h, f, o
  <2>6. ASSUME NEW i \in 1 .. m
        PROVE  g[i] = h[i]
    <3>1. CASE i = 1
      BY <2>1, <2>2, <2>4, <2>5, <3>1
    <3>2. CASE i # 1
      <4>1. i \in 2 .. m /\ i - 1 \in 1 .. m - 1
        BY <2>1, <3>2
      <4> QED BY <2>2, <2>3, <2>4, <2>5, <4>1
    <3> QED BY <3>1, <3>2
  <2>7. g = h
    BY <2>2, <2>4, <2>6, SeqEqual
  <2> QED BY <2>7 DEF g, h, c
<1> QED BY <1>2, <1>3, <1>4, <1>5 DEF e

\* The same where the host's part does not change.
LEMMA ReadingOn ==
  ASSUME NEW T \in Seq(Bytes), NEW k, NEW segs, NEW at, NEW no, NEW cur,
         Reading(T, k, segs, at, no, cur),
         NEW X \in Seq(Bytes), NEW v, NEW a, NEW p,
         line \in Seq(Bytes), line' = line \o X, UNCHANGED host,
         cur \in 1 .. Len(v), a[cur] = at[cur], p[cur] = no[cur], Len(segs[cur]) \in Nat,
         v[cur] = segs[cur], Len(resp) \in Nat
  PROVE  Reading(T \o X, k, v, a, p, cur)'
<1>1. /\ Len(v[cur]) \in Nat /\ Len(segs[cur]) <= Len(v[cur])
      /\ \A j \in 1 .. Len(segs[cur]) : v[cur][j] = segs[cur][j]
  OBVIOUS
<1> QED BY <1>1, ReadingMore

\* Where the elements of a longer sequence are.
LEMMA AppendAt ==
  ASSUME NEW S, NEW s \in Seq(S), NEW e \in S
  PROVE  /\ Append(s, e) \in Seq(S) /\ Len(Append(s, e)) = Len(s) + 1 /\ Len(s) \in Nat
         /\ Append(s, e)[Len(s) + 1] = e /\ \A i \in 1 .. Len(s) : Append(s, e)[i] = s[i]
  OBVIOUS

\* A packet is written: the stream has two parts more.
LEMMA StoryResponse ==
  ASSUME SlipTypeOK, Told, raised = "none", WriteResponse
  PROVE  Story'
<1>1. PICK T, k, segs, at, no, whole, cur :
        Stream(T, segs, at) /\ Packets(segs, no, whole) /\ Reading(T, k, segs, at, no, cur)
  BY DEF Told, Story
<1>2. PICK r \in Responses : line' = line \o Framed(r) /\ written' = Append(written, r)
  BY DEF WriteResponse
<1>3. blemish' = blemish /\ begun' = 0 /\ UNCHANGED host
  BY DEF WriteResponse
<1>4. line \in Seq(Bytes) /\ written \in Seq(Responses) /\ blemish \in Nat /\ Len(resp) \in Nat
  BY DEF SlipTypeOK
<1> DEFINE n == Len(segs)
           e == Encode(r)
           T1 == T \o (<<END>> \o e)
           T2 == T \o Framed(r)
           a1 == Append(at, Len(T) + 1)
           a2 == Append(a1, Len(T1) + 1)
           s1 == Append(segs, e)
           s2 == Append(s1, <<>>)
           o1 == Append(no, no[n])
           o2 == Append(o1, no[n] + 1)
<1>5. e \in Seq(Body) /\ <<>> \in Seq(Body) /\ Framed(r) \in Seq(Bytes)
  BY ResponseFacts, FramedFacts, EmptySeq
<1>6. /\ T \in Seq(Bytes) /\ segs \in Seq(Seq(Body)) /\ at \in Seq(Nat) /\ Len(at) = n /\ n \in Nat
      /\ Len(T) \in Nat /\ no \in Seq(Nat) /\ Len(no) = n /\ cur \in 1 .. n
      /\ no[n] \in Nat /\ Len(segs[cur]) \in Nat
  <2>1. /\ n \in Nat /\ n >= 1 /\ Len(T) \in Nat
        /\ \A i \in 1 .. n : segs[i] \in Seq(Body) /\ Len(segs[i]) \in Nat /\ at[i] \in Nat
    BY ONLY <1>1, StreamType
  <2>2. no \in Seq(Nat) /\ Len(no) = n /\ \A i \in 1 .. n : no[i] \in Nat
    BY ONLY <1>1, PacketsType
  <2>3. T \in Seq(Bytes) /\ segs \in Seq(Seq(Body)) /\ at \in Seq(Nat) /\ Len(at) = n
    BY ONLY <1>1 DEF Stream
  <2>4. cur \in 1 .. n
    BY ONLY <1>1 DEF Reading
  <2> QED BY <2>1, <2>2, <2>3, <2>4
<1>7. Stream(T1, s1, a1)
  BY <1>1, <1>5, StreamNew
<1>8. T1 \in Seq(Bytes) /\ Len(T1) \in Nat /\ s1 \in Seq(Seq(Body)) /\ a1 \in Seq(Nat)
  BY <1>7, StreamType DEF Stream
<1>9. Stream(T2, s2, a2)
  <2>1. Stream(T1 \o (<<END>> \o <<>>), s2, a2)
    <3> HIDE DEF T1, s1, a1
    <3> QED BY <1>5, <1>7, StreamNew
  <2>2. T1 \o (<<END>> \o <<>>) = T2
    BY <1>6, FramedFacts
  <2> HIDE DEF T1, T2, s2, a2
  <2> QED BY <2>1, <2>2
<1>10. Packets(s2, o2, whole \cup {n + 1})'
  BY <1>1, <1>2, <1>3, <1>4, PacketsNewWhole
<1>11. cur \in 1 .. Len(s2) /\ a2[cur] = at[cur] /\ o2[cur] = no[cur] /\ s2[cur] = segs[cur]
  <2>1. /\ Len(s1) = n + 1 /\ s1[cur] = segs[cur] /\ Len(a1) = n + 1 /\ a1[cur] = at[cur]
        /\ Len(o1) = n + 1 /\ o1[cur] = no[cur] /\ o1 \in Seq(Nat)
    <3> HIDE DEF e, T1
    <3>1. /\ Len(T) + 1 \in Nat /\ cur \in 1 .. Len(at) /\ cur \in 1 .. Len(no)
          /\ at \in Seq(Nat) /\ no \in Seq(Nat) /\ no[n] \in Nat
      BY <1>6
    <3>2. Len(s1) = n + 1 /\ s1[cur] = segs[cur]
      BY ONLY <1>5, <1>6, AppendAt
    <3>3. Len(a1) = Len(at) + 1 /\ a1[cur] = at[cur]
      BY ONLY <3>1, AppendAt
    <3>4. Len(o1) = Len(no) + 1 /\ o1[cur] = no[cur] /\ o1 \in Seq(Nat)
      BY ONLY <3>1, AppendAt
    <3> QED BY ONLY <1>6, <3>2, <3>3, <3>4
  <2> HIDE DEF s1, a1, o1, T1, n
  <2>2. cur \in 1 .. n + 1 /\ cur \in 1 .. n + 2 /\ Len(T1) + 1 \in Nat /\ no[n] + 1 \in Nat
    <3>1. n \in Nat /\ cur \in 1 .. n /\ Len(T1) \in Nat /\ no[n] \in Nat
      BY <1>6, <1>8
    <3> QED BY ONLY <3>1
  <2>3. Len(s2) = n + 2 /\ s2[cur] = s1[cur]
    <3>1. Len(s1) = n + 1 /\ cur \in 1 .. n + 1
      BY <2>1, <2>2
    <3>2. cur \in 1 .. Len(s1) /\ s1 \in Seq(Seq(Body)) /\ <<>> \in Seq(Body)
      BY <1>5, <1>8, <3>1, Zenon
    <3>3. Len(s2) = Len(s1) + 1 /\ s2[cur] = s1[cur]
      BY ONLY <3>2, AppendAt
    <3> QED BY <1>6, <3>1, <3>3
  <2>4. a2[cur] = a1[cur]
    BY <1>6, <1>8, <2>1, <2>2
  <2>5. o2[cur] = o1[cur]
    BY <1>6, <2>1, <2>2
  <2> QED BY <2>1, <2>2, <2>3, <2>4, <2>5
<1> HIDE DEF s2, a2, o2
<1>12. Reading(T2, k, s2, a2, o2, cur)'
  BY ONLY <1>1, <1>2, <1>3, <1>4, <1>5, <1>6, <1>11, ReadingOn
<1> HIDE DEF T2
<1> QED BY <1>9, <1>10, <1>12 DEF Story

\* A cut frame is written: one part more.
LEMMA StoryPart ==
  ASSUME SlipTypeOK, Told, raised = "none", WritePart
  PROVE  Story'
<1>1. PICK T, k, segs, at, no, whole, cur :
        Stream(T, segs, at) /\ Packets(segs, no, whole) /\ Reading(T, k, segs, at, no, cur)
  BY DEF Told, Story
<1>2. PICK r \in Responses : \E m \in 1 .. Len(Encode(r)) :
        /\ line' = line \o SubSeq(Framed(r), 1, m)
        /\ begun' = Len(Decode(SubSeq(Encode(r), 1, m - 1)).data)
  BY DEF WritePart
<1>3. PICK m \in 1 .. Len(Encode(r)) :
        /\ line' = line \o SubSeq(Framed(r), 1, m)
        /\ begun' = Len(Decode(SubSeq(Encode(r), 1, m - 1)).data)
  BY <1>2
<1>4. blemish' = blemish + 1 /\ written' = written /\ UNCHANGED host
  BY DEF WritePart
<1>5. line \in Seq(Bytes) /\ blemish \in Nat /\ Len(resp) \in Nat
  BY DEF SlipTypeOK
<1> DEFINE n == Len(segs)
           p == SubSeq(Encode(r), 1, m - 1)
           X == <<END>> \o p
           s == Append(segs, p)
           a == Append(at, Len(T) + 1)
           o == Append(no, no[n])
<1>6. p \in Seq(Body) /\ Junk(p) /\ Open(p, begun')
  <2>1. Encode(r) \in Seq(Body)
    BY ResponseFacts
  <2>2. Len(Encode(r)) \in Nat
    BY <2>1, LenProperties
  <2>3. m - 1 \in Nat /\ m - 1 < Len(Encode(r))
    BY <2>2
  <2>4. Junk(p) /\ Open(p, begun')
    BY <1>3, <2>3, CutIsJunk DEF Open
  <2>5. p \in Seq(Body)
    BY <2>1, <2>3
  <2> QED BY <2>4, <2>5
<1>7. line' = line \o X
  BY <1>3, FramedFacts
<1> HIDE DEF p
<1>8. X \in Seq(Bytes)
  <2>1. <<END>> \in Seq(Bytes) /\ p \in Seq(Bytes)
    BY <1>6, BodyIsBytes DEF END, Bytes
  <2> QED BY <2>1, ConcatProperties
<1>9. /\ T \in Seq(Bytes) /\ segs \in Seq(Seq(Body)) /\ at \in Seq(Nat) /\ Len(at) = n /\ n \in Nat
      /\ Len(T) \in Nat /\ no \in Seq(Nat) /\ Len(no) = n /\ cur \in 1 .. n
      /\ no[n] \in Nat /\ Len(segs[cur]) \in Nat
  <2>1. /\ n \in Nat /\ n >= 1 /\ Len(T) \in Nat
        /\ \A i \in 1 .. n : segs[i] \in Seq(Body) /\ Len(segs[i]) \in Nat /\ at[i] \in Nat
    BY ONLY <1>1, StreamType
  <2>2. no \in Seq(Nat) /\ Len(no) = n /\ \A i \in 1 .. n : no[i] \in Nat
    BY ONLY <1>1, PacketsType
  <2>3. T \in Seq(Bytes) /\ segs \in Seq(Seq(Body)) /\ at \in Seq(Nat) /\ Len(at) = n
    BY ONLY <1>1 DEF Stream
  <2>4. cur \in 1 .. n
    BY ONLY <1>1 DEF Reading
  <2> QED BY <2>1, <2>2, <2>3, <2>4
<1>10. Stream(T \o X, s, a)
  BY <1>1, <1>6, StreamNew
<1>11. Packets(s, o, whole)'
  BY <1>1, <1>4, <1>5, <1>6, PacketsNewJunk
<1>12. cur \in 1 .. Len(s) /\ a[cur] = at[cur] /\ o[cur] = no[cur] /\ s[cur] = segs[cur]
  <2>1. Len(T) + 1 \in Nat /\ cur \in 1 .. Len(at) /\ cur \in 1 .. Len(no)
    BY <1>9
  <2>2. Len(s) = n + 1 /\ s[cur] = segs[cur]
    BY ONLY <1>6, <1>9, AppendAt
  <2>3. a[cur] = at[cur]
    BY ONLY <1>9, <2>1, AppendAt
  <2>4. o[cur] = no[cur]
    BY ONLY <1>9, <2>1, AppendAt
  <2>5. cur \in 1 .. Len(s)
    BY ONLY <1>9, <2>2
  <2> QED BY <2>2, <2>3, <2>4, <2>5
<1> HIDE DEF s, a, o, X
<1>13. Reading(T \o X, k, s, a, o, cur)'
  BY ONLY <1>1, <1>4, <1>5, <1>7, <1>8, <1>9, <1>12, ReadingOn
<1> QED BY <1>10, <1>11, <1>13 DEF Story

\* Text is written: the last part is longer.
LEMMA StoryText ==
  ASSUME SlipTypeOK, Told, raised = "none", WriteText, ~passable'
  PROVE  Story'
<1>1. PICK T, k, segs, at, no, whole, cur :
        Stream(T, segs, at) /\ Packets(segs, no, whole) /\ Reading(T, k, segs, at, no, cur)
  BY DEF Told, Story
<1>2. PICK t \in Texts : line' = line \o t /\ passable' = (passable \/ Completes(t))
  BY DEF WriteText
<1>3. blemish' = blemish + 1 /\ written' = written /\ begun' = 0 /\ UNCHANGED host
  BY DEF WriteText
<1>4. line \in Seq(Bytes) /\ blemish \in Nat /\ begun \in Nat /\ Len(resp) \in Nat
  BY DEF SlipTypeOK
<1>5. t \in Seq(Bytes) /\ t \in Seq(Body)
  BY TextFacts
<1> DEFINE n == Len(segs)
           w == segs[n] \o t
           s == [segs EXCEPT ![n] = w]
<1>6. /\ T \in Seq(Bytes) /\ segs \in Seq(Seq(Body)) /\ n \in Nat /\ n >= 1
      /\ cur \in 1 .. n /\ segs[cur] \in Seq(Body) /\ Len(segs[cur]) \in Nat
         /\ segs[n] \in Seq(Body)
  <2>1. /\ n \in Nat /\ n >= 1 /\ \A i \in 1 .. n : segs[i] \in Seq(Body) /\ Len(segs[i]) \in Nat
    BY ONLY <1>1, StreamType
  <2>2. T \in Seq(Bytes) /\ segs \in Seq(Seq(Body)) /\ cur \in 1 .. n
    BY ONLY <1>1 DEF Stream, Reading
  <2> QED BY <2>1, <2>2
<1>7. Stream(T \o t, s, at)
  BY <1>1, <1>5, StreamMore
<1>8. Packets(s, no, whole)'
  <2>1. ~Completes(t)
    BY <1>2
  <2> QED BY <1>1, <1>3, <1>4, <2>1, PacketsMore
<1>9. /\ cur \in 1 .. Len(s) /\ Len(s[cur]) \in Nat /\ Len(segs[cur]) <= Len(s[cur])
      /\ \A j \in 1 .. Len(segs[cur]) : s[cur][j] = segs[cur][j]
  <2>1. /\ w \in Seq(Body) /\ Len(w) \in Nat /\ Len(segs[n]) <= Len(w)
        /\ \A j \in 1 .. Len(segs[n]) : w[j] = segs[n][j]
    <3>1. /\ w \in Seq(Body) /\ Len(w) = Len(segs[n]) + Len(t) /\ Len(segs[n]) \in Nat
             /\ Len(t) \in Nat
          /\ \A j \in 1 .. Len(segs[n]) : w[j] = segs[n][j]
      BY <1>5, <1>6, ConcatAt
    <3> QED BY <3>1
  <2> HIDE DEF w
  <2>2. Len(s) = n /\ s[n] = w /\ \A i \in 1 .. n : i # n => s[i] = segs[i]
    BY <1>6, <2>1
  <2> HIDE DEF s, n
  <2>3. CASE cur = n
    BY <1>6, <2>1, <2>2, <2>3
  <2>4. CASE cur # n
    BY <1>6, <2>2, <2>4
  <2> QED BY <2>3, <2>4
<1> HIDE DEF s
<1>10. Reading(T \o t, k, s, at, no, cur)'
  BY <1>1, <1>2, <1>3, <1>4, <1>5, <1>6, <1>9, ReadingMore
<1> QED BY <1>7, <1>8, <1>10 DEF Story

\* The next byte on the line, and where it stands among all that were written.
LEMMA NextByte ==
  ASSUME NEW T, NEW k, NEW segs, NEW at, NEW no, NEW cur,
         Stream(T, segs, at), Reading(T, k, segs, at, no, cur),
         line \in Seq(Bytes), line # <<>>, resp \in Seq(Body),
         NEW q, q = IF place = "collect" THEN Len(resp) ELSE 0
  PROVE  /\ q \in Nat /\ Head(line) \in Bytes
         /\ Head(line) # END => q < Len(segs[cur]) /\ Head(line) = segs[cur][q + 1]
            /\ Head(line) \in Body
         /\ Head(line) = END => /\ q = Len(segs[cur]) /\ cur < Len(segs)
                                /\ cur + 1 \in 1 .. Len(segs) /\ at[cur + 1] = k + 1
         /\ cur \in 1 .. Len(segs) /\ segs[cur] \in Seq(Body) /\ Len(segs[cur]) \in Nat
         /\ k = at[cur] + q /\ at[cur] \in Nat
         /\ Tail(line) \in Seq(Bytes)
         /\ k + 1 \in Nat /\ k + 1 <= Len(T) /\ Len(Tail(line)) = Len(T) - (k + 1)
         /\ \A j \in 1 .. Len(Tail(line)) : Tail(line)[j] = T[k + 1 + j]
<1> DEFINE t == Len(T)
           l == Len(line)
<1>1. /\ Len(segs) \in Nat /\ t \in Nat
      /\ \A i \in 1 .. Len(segs) : segs[i] \in Seq(Body) /\ Len(segs[i]) \in Nat /\ at[i] \in Nat
  BY ONLY Stream(T, segs, at), StreamType
<1>2. /\ k \in Nat /\ k <= t /\ l = t - k
      /\ \A j \in 1 .. l : line[j] = T[k + j]
      /\ cur \in 1 .. Len(segs)
  BY DEF Reading
<1>3. q \in Nat /\ k = at[cur] + q /\ q <= Len(segs[cur])
  <2>1. CASE place = "collect"
    <3>1. q = Len(resp) /\ Len(resp) \in Nat
      BY <2>1
    <3> QED BY <2>1, <3>1 DEF Reading
  <2>2. CASE place # "collect"
    <3>1. q = 0 /\ k = at[cur] /\ at[cur] \in Nat /\ Len(segs[cur]) \in Nat
      BY <1>1, <1>2, <2>2 DEF Reading
    <3> QED BY <3>1
  <2> QED BY <2>1, <2>2
<1>4. l \in Nat /\ l >= 1 /\ Head(line) = line[1] /\ line[1] \in Bytes
  BY EmptySeq
<1>5. /\ Tail(line) \in Seq(Bytes) /\ Len(Tail(line)) = l - 1
      /\ \A j \in 1 .. l - 1 : Tail(line)[j] = line[j + 1]
  BY <1>4
<1>6. k + 1 \in Nat /\ k + 1 <= t /\ l - 1 = t - (k + 1)
  BY <1>1, <1>2, <1>4
<1>7. Head(line) = T[k + 1]
  BY <1>2, <1>4
<1>8. \A j \in 1 .. l - 1 : Tail(line)[j] = T[k + 1 + j]
  <2> SUFFICES ASSUME NEW j \in 1 .. l - 1
               PROVE  Tail(line)[j] = T[k + 1 + j]
    OBVIOUS
  <2>1. j + 1 \in 1 .. l /\ k + (j + 1) = k + 1 + j
    BY <1>2, <1>4
  <2> QED BY <1>2, <1>5, <2>1
<1>9. at[cur] + q < Len(T) /\ at[cur] + q + 1 = k + 1
  BY <1>1, <1>2, <1>3, <1>6
<1>10. /\ q < Len(segs[cur]) => T[k + 1] = segs[cur][q + 1] /\ T[k + 1] # END
       /\ q = Len(segs[cur]) => /\ cur < Len(segs) /\ cur + 1 \in 1 .. Len(segs)
                                /\ T[k + 1] = END /\ at[cur + 1] = k + 1
  BY ONLY Stream(T, segs, at), <1>2, <1>3, <1>9, WhatComes
<1>11. q < Len(segs[cur]) \/ q = Len(segs[cur])
  BY <1>1, <1>2, <1>3
<1>12. Head(line) # END => Head(line) \in Body
  BY <1>4 DEF Body
<1> HIDE DEF t, l
<1>13. Len(Tail(line)) = t - (k + 1) /\ \A j \in 1 .. Len(Tail(line)) : Tail(line)[j] = T[k + 1 + j]
  BY <1>5, <1>6, <1>8
<1> QED BY <1>1, <1>2, <1>3, <1>4, <1>5, <1>6, <1>7, <1>10, <1>11, <1>12, <1>13 DEF t, l

\* What the host has of a part is junk, or the whole of the next packet.
LEMMA PartIs ==
  ASSUME NEW segs, NEW no, NEW whole, Packets(segs, no, whole), NEW cur \in 1 .. Len(segs),
         cur < Len(segs), no[cur] = Len(got), written \in Seq(Responses), Len(got) \in Nat
  PROVE  /\ cur \in whole => /\ Len(got) < Len(written) /\ written[Len(got) + 1] \in Responses
                             /\ segs[cur] = Encode(written[Len(got) + 1])
                             /\ no[cur + 1] = Len(got) + 1
         /\ cur \notin whole => /\ Junk(segs[cur]) /\ (blemish = 0 => segs[cur] = <<>>)
                                /\ no[cur + 1] = Len(got)
<1>1. /\ no[cur + 1] = IF cur \in whole THEN no[cur] + 1 ELSE no[cur]
      /\ cur \in whole => no[cur] < Len(written) /\ segs[cur] = Encode(written[no[cur] + 1])
      /\ cur \notin whole => Junk(segs[cur]) /\ (blemish = 0 => segs[cur] = <<>>)
  BY DEF Packets
<1>2. Len(got) < Len(written) => written[Len(got) + 1] \in Responses
  OBVIOUS
<1> QED BY <1>1, <1>2

\* The host's steps that leave its part of the stream.
LEMMA PacketsSame ==
  ASSUME NEW segs, NEW no, NEW whole, Packets(segs, no, whole), UNCHANGED history
  PROVE  Packets(segs, no, whole)'
<1>1. written' = written /\ blemish' = blemish /\ begun' = begun
  BY DEF history
<1> QED BY ONLY <1>1, Packets(segs, no, whole) DEF Packets

\* A byte is read before the frame has begun.
LEMMA SkipStep ==
  ASSUME SlipTypeOK, Told, Skip
  PROVE  Told'
<1>1. /\ place = "skip" /\ line # <<>> /\ line' = Tail(line)
      /\ UNCHANGED <<cmd, got, raised, history>> /\ written' = written /\ blemish' = blemish
  BY DEF Skip, history
<1>2. /\ line \in Seq(Bytes) /\ resp = <<>> /\ resp \in Seq(Body) /\ raised = "none"
      /\ written \in Seq(Responses) /\ Len(got) \in Nat
  BY <1>1 DEF SlipTypeOK, Told, GotInv
<1>3. PICK T, k, segs, at, no, whole, cur :
        Stream(T, segs, at) /\ Packets(segs, no, whole) /\ Reading(T, k, segs, at, no, cur)
  BY <1>2 DEF Told, Story
<1> DEFINE h == Head(line)
           m == Tail(line)
<1>4. /\ h \in Bytes
      /\ h # END => 0 < Len(segs[cur]) /\ h = segs[cur][0 + 1] /\ h \in Body
      /\ h = END => /\ 0 = Len(segs[cur]) /\ cur < Len(segs)
                    /\ cur + 1 \in 1 .. Len(segs) /\ at[cur + 1] = k + 1
      /\ cur \in 1 .. Len(segs) /\ segs[cur] \in Seq(Body) /\ Len(segs[cur]) \in Nat
      /\ k = at[cur] + 0 /\ at[cur] \in Nat /\ m \in Seq(Bytes)
      /\ k + 1 \in Nat /\ k + 1 <= Len(T) /\ Len(m) = Len(T) - (k + 1)
      /\ \A j \in 1 .. Len(m) : m[j] = T[k + 1 + j]
  <2>1. 0 = IF place = "collect" THEN Len(resp) ELSE 0
    BY <1>1
  <2>2. Stream(T, segs, at) /\ Reading(T, k, segs, at, no, cur) /\ line \in Seq(Bytes)
        /\ line # <<>>
        /\ resp \in Seq(Body)
    BY <1>1, <1>2, <1>3
  <2>3. /\ h # END => 0 < Len(segs[cur]) /\ h = segs[cur][0 + 1] /\ h \in Body
        /\ h = END => /\ 0 = Len(segs[cur]) /\ cur < Len(segs)
                      /\ cur + 1 \in 1 .. Len(segs) /\ at[cur + 1] = k + 1
    BY ONLY <2>1, <2>2, NextByte
  <2>4. /\ h \in Bytes /\ cur \in 1 .. Len(segs) /\ segs[cur] \in Seq(Body)
           /\ Len(segs[cur]) \in Nat
        /\ k = at[cur] + 0 /\ at[cur] \in Nat
    BY ONLY <2>1, <2>2, NextByte
  <2>5. /\ m \in Seq(Bytes) /\ k + 1 \in Nat /\ k + 1 <= Len(T) /\ Len(m) = Len(T) - (k + 1)
        /\ \A j \in 1 .. Len(m) : m[j] = T[k + 1 + j]
    BY ONLY <2>1, <2>2, NextByte
  <2> HIDE DEF h, m
  <2> QED BY ONLY <2>3, <2>4, <2>5
<1> HIDE DEF h, m
<1>5. Story'
  <2>1. CASE h = END
    <3>1. place' = place /\ resp' = resp
      BY <2>1 DEF Skip, h
    <3>2. segs[cur] = <<>>
      BY <1>4, <2>1, EmptySeq
    <3>3. no[cur] = Len(got)
      BY <1>3 DEF Reading
    <3>4. cur \notin whole /\ no[cur + 1] = Len(got)
      <4>1. cur < Len(segs) /\ cur \in 1 .. Len(segs)
        BY <1>4, <2>1
      <4>2. /\ cur \in whole => written[Len(got) + 1] \in Responses
               /\ segs[cur] = Encode(written[Len(got) + 1])
            /\ cur \notin whole => no[cur + 1] = Len(got)
        BY ONLY <1>2, <1>3, <3>3, <4>1, PartIs
      <4> QED BY ONLY <3>2, <4>2, ResponseFacts
    <3>5. line' = m /\ place' = "skip" /\ got' = got
      BY <1>1, <3>1 DEF m
    <3>6. Reading(T, k + 1, segs, at, no, cur + 1)'
      BY ONLY <1>4, <2>1, <3>4, <3>5 DEF Reading
    <3>7. Packets(segs, no, whole)'
      BY <1>1, <1>3, PacketsSame
    <3> QED BY <1>3, <3>6, <3>7 DEF Story
  <2>2. CASE h # END
    <3>1. resp' = Append(resp, h) /\ place' = "collect"
      BY <2>2 DEF Skip, Goto, h
    <3>2. resp' \in Seq(Body) /\ Len(resp') = 1 /\ resp'[1] = h
      BY <1>2, <1>4, <2>2, <3>1
    <3>3. line' = m /\ got' = got
      BY <1>1 DEF m
    <3>4. no[cur] = Len(got)
      BY <1>3 DEF Reading
    <3>5. /\ k + 1 = at[cur] + Len(resp') /\ 1 <= Len(resp') /\ Len(resp') <= Len(segs[cur])
          /\ \A j \in 1 .. Len(resp') : resp'[j] = segs[cur][j]
      <4>1. k + 1 = at[cur] + Len(resp') /\ 1 <= Len(resp') /\ Len(resp') <= Len(segs[cur])
        BY <1>4, <2>2, <3>2
      <4>2. ASSUME NEW j \in 1 .. Len(resp')
            PROVE  resp'[j] = segs[cur][j]
        <5>1. j = 1 /\ 0 + 1 = 1
          BY <3>2
        <5> QED BY ONLY <1>4, <2>2, <3>2, <5>1
      <4> QED BY <4>1, <4>2
    <3>6. Reading(T, k + 1, segs, at, no, cur)'
      BY ONLY <1>4, <3>1, <3>3, <3>4, <3>5 DEF Reading
    <3>7. Packets(segs, no, whole)'
      BY <1>1, <1>3, PacketsSame
    <3> QED BY <1>3, <3>6, <3>7 DEF Story
  <2> QED BY <2>1, <2>2
<1>6. GotInv' /\ RaisedForCause'
  BY <1>1 DEF Told, GotInv, RaisedForCause
<1> QED BY <1>5, <1>6 DEF Told

\* A byte of the frame is read.
LEMMA CollectStep ==
  ASSUME SlipTypeOK, Told, Collect
  PROVE  Told'
<1>1. /\ place = "collect" /\ line # <<>> /\ Head(line) # END /\ line' = Tail(line)
      /\ resp' = Append(resp, Head(line))
      /\ UNCHANGED <<place, cmd, got, raised, history>> /\ written' = written
      /\ blemish' = blemish
  BY DEF Collect, history
<1>2. /\ line \in Seq(Bytes) /\ resp \in Seq(Body) /\ Len(resp) \in Nat /\ raised = "none"
  BY <1>1 DEF SlipTypeOK
<1>3. PICK T, k, segs, at, no, whole, cur :
        Stream(T, segs, at) /\ Packets(segs, no, whole) /\ Reading(T, k, segs, at, no, cur)
  BY <1>2 DEF Told, Story
<1> DEFINE h == Head(line)
           m == Tail(line)
           q == Len(resp)
<1>4. /\ h \in Body /\ q < Len(segs[cur]) /\ h = segs[cur][q + 1]
      /\ cur \in 1 .. Len(segs) /\ segs[cur] \in Seq(Body) /\ Len(segs[cur]) \in Nat
      /\ k = at[cur] + q /\ at[cur] \in Nat /\ m \in Seq(Bytes)
      /\ k + 1 \in Nat /\ k + 1 <= Len(T) /\ Len(m) = Len(T) - (k + 1)
      /\ \A j \in 1 .. Len(m) : m[j] = T[k + 1 + j]
  <2>1. q = IF place = "collect" THEN Len(resp) ELSE 0
    BY <1>1
  <2> HIDE DEF q
  <2>2. Stream(T, segs, at) /\ Reading(T, k, segs, at, no, cur) /\ line \in Seq(Bytes)
        /\ line # <<>>
        /\ resp \in Seq(Body) /\ h # END
    BY <1>1, <1>2, <1>3
  <2> HIDE DEF h
  <2>3. Head(line) = h
    BY DEF h
  <2>4. /\ h \in Body /\ q < Len(segs[cur]) /\ h = segs[cur][q + 1]
        /\ cur \in 1 .. Len(segs) /\ segs[cur] \in Seq(Body) /\ Len(segs[cur]) \in Nat
        /\ k = at[cur] + q /\ at[cur] \in Nat
    BY ONLY <2>1, <2>2, <2>3, NextByte
  <2>5. /\ m \in Seq(Bytes) /\ k + 1 \in Nat /\ k + 1 <= Len(T) /\ Len(m) = Len(T) - (k + 1)
        /\ \A j \in 1 .. Len(m) : m[j] = T[k + 1 + j]
    BY ONLY <2>1, <2>2, NextByte
  <2> QED BY <2>4, <2>5
<1>5. /\ no[cur] = Len(got) /\ 1 <= q /\ \A j \in 1 .. q : resp[j] = segs[cur][j]
  BY <1>1, <1>3 DEF Reading
<1> HIDE DEF h, m
<1>6. resp' = Append(resp, h) /\ line' = m /\ place' = "collect" /\ got' = got
  BY <1>1 DEF h, m
<1>7. /\ resp' \in Seq(Body) /\ Len(resp') = q + 1 /\ resp'[q + 1] = h
      /\ \A j \in 1 .. q : resp'[j] = resp[j]
  BY <1>2, <1>4, <1>6
<1> HIDE DEF q
<1>8. /\ k + 1 = at[cur] + Len(resp') /\ 1 <= Len(resp') /\ Len(resp') <= Len(segs[cur])
      /\ \A j \in 1 .. Len(resp') : resp'[j] = segs[cur][j]
  <2>1. q \in Nat
    BY <1>2 DEF q
  <2>2. ASSUME NEW j \in 1 .. q + 1
        PROVE  resp'[j] = segs[cur][j]
    <3>1. CASE j = q + 1
      BY <1>4, <1>7, <3>1
    <3>2. CASE j \in 1 .. q
      BY <1>5, <1>7, <3>2
    <3> QED BY <2>1, <3>1, <3>2
  <2>3. \A j \in 1 .. Len(resp') : resp'[j] = segs[cur][j]
    BY <1>7, <2>2
  <2>4. k + 1 = at[cur] + Len(resp') /\ 1 <= Len(resp') /\ Len(resp') <= Len(segs[cur])
    <3>1. /\ k = at[cur] + q /\ at[cur] \in Nat /\ 1 <= q /\ q < Len(segs[cur])
          /\ Len(segs[cur]) \in Nat /\ Len(resp') = q + 1
      BY <1>4, <1>5, <1>7
    <3> QED BY ONLY <2>1, <3>1
  <2> QED BY <2>3, <2>4
<1>9. Reading(T, k + 1, segs, at, no, cur)'
  BY ONLY <1>4, <1>5, <1>6, <1>8 DEF Reading
<1>10. Packets(segs, no, whole)'
  BY <1>1, <1>3, PacketsSame
<1>11. Story'
  BY <1>3, <1>9, <1>10 DEF Story
<1>12. GotInv' /\ RaisedForCause'
  BY <1>1 DEF Told, GotInv, RaisedForCause
<1> QED BY <1>11, <1>12 DEF Told

\* A frame has been collected: it is the packet the host awaits, or it is refused.
LEMMA FinishStep ==
  ASSUME SlipTypeOK, Told, Finish
  PROVE  Told'
<1>1. /\ place = "collect" /\ line # <<>> /\ Head(line) = END /\ line' = Tail(line)
      /\ UNCHANGED <<cmd, resp, history>> /\ written' = written /\ blemish' = blemish
  BY DEF Finish, history
<1>2. /\ line \in Seq(Bytes) /\ resp \in Seq(Body) /\ Len(resp) \in Nat /\ raised = "none"
      /\ written \in Seq(Responses) /\ got \in Seq(Responses) /\ Len(got) \in Nat
      /\ Len(written) \in Nat
  BY <1>1 DEF SlipTypeOK, Told, GotInv
<1>3. PICK T, k, segs, at, no, whole, cur :
        Stream(T, segs, at) /\ Packets(segs, no, whole) /\ Reading(T, k, segs, at, no, cur)
  BY <1>2 DEF Told, Story
<1> DEFINE m == Tail(line)
           q == Len(resp)
           d == Decode(resp)
           w == written[Len(got) + 1]
<1>4. /\ q = Len(segs[cur]) /\ cur < Len(segs) /\ cur + 1 \in 1 .. Len(segs) /\ at[cur + 1] = k + 1
      /\ cur \in 1 .. Len(segs) /\ segs[cur] \in Seq(Body) /\ m \in Seq(Bytes)
      /\ k + 1 \in Nat /\ k + 1 <= Len(T) /\ Len(m) = Len(T) - (k + 1)
      /\ \A j \in 1 .. Len(m) : m[j] = T[k + 1 + j]
  <2>1. q = IF place = "collect" THEN Len(resp) ELSE 0
    BY <1>1
  <2> HIDE DEF q
  <2>2. Stream(T, segs, at) /\ Reading(T, k, segs, at, no, cur) /\ line \in Seq(Bytes)
        /\ line # <<>>
        /\ resp \in Seq(Body) /\ Head(line) = END
    BY <1>1, <1>2, <1>3
  <2>3. /\ q = Len(segs[cur]) /\ cur < Len(segs) /\ cur + 1 \in 1 .. Len(segs)
           /\ at[cur + 1] = k + 1
        /\ cur \in 1 .. Len(segs) /\ segs[cur] \in Seq(Body)
    BY ONLY <2>1, <2>2, NextByte
  <2>4. /\ m \in Seq(Bytes) /\ k + 1 \in Nat /\ k + 1 <= Len(T) /\ Len(m) = Len(T) - (k + 1)
        /\ \A j \in 1 .. Len(m) : m[j] = T[k + 1 + j]
    BY ONLY <2>1, <2>2, NextByte
  <2> QED BY <2>3, <2>4
<1>5. no[cur] = Len(got) /\ 1 <= q /\ \A j \in 1 .. q : resp[j] = segs[cur][j]
  BY <1>1, <1>3 DEF Reading
<1>6. resp = segs[cur]
  BY <1>2, <1>4, <1>5, SeqEqual
<1>7. /\ cur \in whole => Len(got) < Len(written) /\ w \in Responses /\ resp = Encode(w)
                          /\ no[cur + 1] = Len(got) + 1
      /\ cur \notin whole => Junk(resp) /\ (blemish = 0 => resp = <<>>)
                             /\ no[cur + 1] = Len(got)
  BY ONLY <1>2, <1>3, <1>4, <1>5, <1>6, PartIs
<1>8. cur \in whole => d = Plain(w)
  BY <1>7, DecodeWhole, ResponseFacts
<1>9. cur \notin whole => blemish # 0 /\ (~d.esc => ~Valid(d.data, cmd))
  <2> SUFFICES ASSUME cur \notin whole
               PROVE  blemish # 0 /\ (~d.esc => ~Valid(d.data, cmd))
    OBVIOUS
  <2>1. resp # <<>>
    BY <1>5, EmptySeq
  <2>2. resp \in Seq(Bytes)
    BY <1>2, BodyIsBytes
  <2>3. Junk(resp)
    BY <1>7
  <2>4. ~d.esc => ~Valid(d.data, cmd)
    BY ONLY <2>1, <2>2, <2>3, JunkIsRefused
  <2> QED BY <1>7, <2>1, <2>4
<1>10. Packets(segs, no, whole)'
  BY <1>1, <1>3, PacketsSame
<1> HIDE DEF m, q, d, w
<1>11. line' = m
  BY <1>1 DEF m
<1>12. CASE d.esc /\ BreakOff("IndexError") /\ UNCHANGED got
  <2>1. cur \notin whole
    BY <1>8, <1>12 DEF Plain
  <2>2. raised' = "IndexError" /\ place' = "raised" /\ got' = got
    BY <1>12 DEF BreakOff, Goto
  <2>3. GotInv'
    BY <1>1, <2>2 DEF Told, GotInv
  <2>4. RaisedForCause'
    BY <1>1, <1>9, <2>1 DEF RaisedForCause
  <2> QED BY <2>2, <2>3, <2>4 DEF Told
<1>13. CASE ~d.esc /\ ~Valid(d.data, cmd) /\ BreakOff("ValueError") /\ UNCHANGED got
  <2>1. raised' = "ValueError" /\ place' = "raised" /\ got' = got
    BY <1>13 DEF BreakOff, Goto
  <2>2. GotInv'
    BY <1>1, <2>1 DEF Told, GotInv
  <2>3. RaisedForCause'
    <3>1. CASE cur \in whole
      <4>1. Len(got) < Len(written) /\ d.data = w
        BY <1>7, <1>8, <3>1 DEF Plain
      <4>2. ~Valid(w, cmd)
        BY <1>13, <4>1
      <4> QED BY <1>1, <2>1, <4>1, <4>2 DEF RaisedForCause, w
    <3>2. CASE cur \notin whole
      BY <1>1, <1>9, <3>2 DEF RaisedForCause
    <3> QED BY <3>1, <3>2
  <2> QED BY <2>1, <2>2, <2>3 DEF Told
<1>14. CASE ~d.esc /\ Valid(d.data, cmd) /\ got' = Append(got, d.data) /\ Goto("idle")
       /\ UNCHANGED raised
  <2>1. cur \in whole
    BY <1>9, <1>14
  <2>2. /\ d.data = w /\ w \in Responses /\ Len(got) < Len(written) /\ no[cur + 1] = Len(got) + 1
    BY <1>7, <1>8, <2>1 DEF Plain
  <2>3. got' = Append(got, w) /\ place' = "idle" /\ raised' = raised
    BY <1>14, <2>2 DEF Goto
  <2>4. /\ got' \in Seq(Responses) /\ Len(got') = Len(got) + 1 /\ got'[Len(got) + 1] = w
        /\ \A i \in 1 .. Len(got) : got'[i] = got[i]
    BY <1>2, <2>2, <2>3
  <2>5. GotInv'
    <3>1. Len(got) <= Len(written) /\ \A i \in 1 .. Len(got) : got[i] = written[i]
      BY DEF Told, GotInv
    <3>2. Len(got') <= Len(written)
      BY <1>2, <2>2, <2>4
    <3>3. ASSUME NEW i \in 1 .. Len(got) + 1
          PROVE  got'[i] = written[i]
      <4>1. CASE i = Len(got) + 1
        BY <2>4, <4>1 DEF w
      <4>2. CASE i \in 1 .. Len(got)
        BY <2>4, <3>1, <4>2
      <4> QED BY <1>2, <4>1, <4>2
    <3> QED BY <1>1, <2>4, <3>2, <3>3 DEF GotInv
  <2>6. RaisedForCause'
    BY <1>2, <2>3 DEF RaisedForCause
  <2>7. no[cur + 1] = Len(got') /\ place' # "collect"
    BY <2>2, <2>3, <2>4
  <2>8. Reading(T, k + 1, segs, at, no, cur + 1)'
    BY ONLY <1>4, <1>11, <2>7 DEF Reading
  <2>9. Story'
    BY <1>3, <1>10, <2>8 DEF Story
  <2> QED BY <2>5, <2>6, <2>9 DEF Told
<1> QED BY <1>12, <1>13, <1>14 DEF Finish, d

\* Recv_response is called, or a timeout ends it before the frame has begun.
LEMMA IdleStep ==
  ASSUME SlipTypeOK, Told, Call \/ SkipTimeout
  PROVE  Told'
<1>1. /\ place # "collect" /\ raised = "none" /\ place' # "collect"
      /\ UNCHANGED <<got, raised, line, history>> /\ written' = written /\ blemish' = blemish
  BY DEF SlipTypeOK, Call, SkipTimeout, Goto, history
<1>2. GotInv' /\ RaisedForCause'
  BY <1>1 DEF Told, GotInv, RaisedForCause
<1>3. PICK T, k, segs, at, no, whole, cur :
        Stream(T, segs, at) /\ Packets(segs, no, whole) /\ Reading(T, k, segs, at, no, cur)
  BY <1>1 DEF Told, Story
<1>4. Packets(segs, no, whole)'
  BY <1>1, <1>3, PacketsSame
<1>5. Reading(T, k, segs, at, no, cur)'
  <2>1. line' = line /\ got' = got
    BY <1>1
  <2> QED BY ONLY <1>1, <1>3, <2>1 DEF Reading
<1>6. Story'
  BY <1>3, <1>4, <1>5 DEF Story
<1> QED BY <1>2, <1>6 DEF Told

\* A timeout within a frame ends the command.
LEMMA CollectTimeoutStep ==
  ASSUME SlipTypeOK, Told, CollectTimeout
  PROVE  Told'
<1>1. /\ raised' = "SerialTimeoutException" /\ got' = got
      /\ written' = written /\ blemish' = blemish
  BY DEF CollectTimeout, BreakOff, history
<1>2. GotInv' /\ RaisedForCause'
  BY <1>1 DEF Told, GotInv, RaisedForCause
<1> QED BY <1>1, <1>2 DEF Told

\* The chip writes, and text does not complete a packet.
LEMMA WriteStep ==
  ASSUME SlipTypeOK, Told, WriteResponse \/ WritePart \/ WriteText, ~passable'
  PROVE  Told'
<1>1. GotInv /\ RaisedForCause /\ UNCHANGED host /\ raised' = raised
  BY DEF Told, WriteResponse, WritePart, WriteText, host
<1>2. \/ blemish' = blemish /\ \E r \in Responses : written' = Append(written, r)
      \/ blemish' = blemish + 1 /\ written' = written
  BY DEF WriteResponse, WritePart, WriteText
<1>3. GotInv' /\ RaisedForCause'
  BY ONLY SlipTypeOK, <1>1, <1>2, WriteKeeps
<1>4. raised' = "none" => Story'
  BY <1>1, StoryResponse, StoryPart, StoryText
<1> QED BY <1>3, <1>4 DEF Told

\* The line holds bytes, whatever is cut off, and every variable keeps its type.
LEMMA TypeStep ==
  ASSUME SlipTypeOK, [SlipNext]_slipVars
  PROVE  SlipTypeOK'
<1>1. CASE WriteResponse
  <2>1. PICK r \in Responses : line' = line \o Framed(r) /\ written' = Append(written, r)
    BY <1>1 DEF WriteResponse
  <2>2. Framed(r) \in Seq(Bytes)
    BY FramedFacts
  <2>3. line' \in Seq(Bytes)
    BY <2>1, <2>2, ConcatProperties DEF SlipTypeOK
  <2>4. written' \in Seq(Responses) /\ Len(written') = Len(written) + 1 /\ Len(written) \in Nat
    BY <2>1 DEF SlipTypeOK
  <2>5. Len(written') + blemish <= MaxWrites
    BY <1>1, <2>4, SlipAssumption DEF SlipTypeOK, WriteResponse, CanWrite
  <2> QED BY <1>1, <2>3, <2>4, <2>5 DEF SlipTypeOK, WriteResponse, host
<1>2. CASE WritePart
  <2>1. PICK r \in Responses : \E m \in 1 .. Len(Encode(r)) :
          /\ line' = line \o SubSeq(Framed(r), 1, m)
          /\ begun' = Len(Decode(SubSeq(Encode(r), 1, m - 1)).data)
    BY <1>2 DEF WritePart
  <2>2. PICK m \in 1 .. Len(Encode(r)) :
          /\ line' = line \o SubSeq(Framed(r), 1, m)
          /\ begun' = Len(Decode(SubSeq(Encode(r), 1, m - 1)).data)
    BY <2>1
  <2>3. SubSeq(Encode(r), 1, m - 1) \in Seq(Bytes)
    <3>1. Encode(r) \in Seq(Bytes) /\ Len(Encode(r)) \in Nat
      BY ResponseFacts, BodyIsBytes, LenProperties
    <3>2. m - 1 \in Nat /\ m - 1 <= Len(Encode(r))
      BY <3>1
    <3> QED BY <3>1, <3>2
  <2>4. line' \in Seq(Bytes)
    <3>1. SubSeq(Framed(r), 1, m) = <<END>> \o SubSeq(Encode(r), 1, m - 1)
      BY FramedFacts
    <3>2. <<END>> \in Seq(Bytes)
      BY DEF END, Bytes
    <3> QED BY <2>2, <2>3, <3>1, <3>2, ConcatProperties DEF SlipTypeOK
  <2>5. begun' \in Nat
    BY <2>2, <2>3, DecodeType DEF Decoded
  <2>6. blemish' \in Nat /\ Len(written) + blemish' <= MaxWrites
    <3>1. Len(written) \in Nat
      BY DEF SlipTypeOK
    <3> QED BY <1>2, <3>1, SlipAssumption DEF SlipTypeOK, WritePart, CanWrite
  <2> QED BY <1>2, <2>4, <2>5, <2>6 DEF SlipTypeOK, WritePart, host
<1>3. CASE WriteText
  <2>1. PICK t \in Texts : line' = line \o t /\ passable' = (passable \/ Completes(t))
    BY <1>3 DEF WriteText
  <2>2. line' \in Seq(Bytes)
    BY <2>1, TextFacts, ConcatProperties DEF SlipTypeOK
  <2>3. blemish' \in Nat /\ Len(written) + blemish' <= MaxWrites
    <3>1. Len(written) \in Nat
      BY DEF SlipTypeOK
    <3> QED BY <1>3, <3>1, SlipAssumption DEF SlipTypeOK, WriteText, CanWrite
  <2>4. passable' \in BOOLEAN
    BY <2>1
  <2> QED BY <1>3, <2>2, <2>3, <2>4 DEF SlipTypeOK, WriteText, host
<1>4. CASE Call
  <2>1. <<>> \in Seq(Body)
    BY EmptySeq
  <2> QED BY <1>4, <2>1 DEF SlipTypeOK, Call, Goto, history
<1>5. CASE SkipTimeout
  BY <1>5 DEF SlipTypeOK, SkipTimeout, Goto, history
<1>6. ASSUME line # <<>>
      PROVE  /\ Tail(line) \in Seq(Bytes)
             /\ Head(line) # END => Append(resp, Head(line)) \in Seq(Body)
  <2>1. Tail(line) \in Seq(Bytes) /\ Head(line) \in Bytes
    BY <1>6, EmptySeq DEF SlipTypeOK
  <2>2. Head(line) # END => Head(line) \in Body
    BY <2>1 DEF Body
  <2> QED BY <2>1, <2>2 DEF SlipTypeOK
<1>7. CASE Skip
  BY <1>6, <1>7 DEF SlipTypeOK, Skip, Goto, history
<1>8. CASE Collect
  BY <1>6, <1>8 DEF SlipTypeOK, Collect, history
<1>9. CASE CollectTimeout
  BY <1>9 DEF SlipTypeOK, CollectTimeout, BreakOff, Goto, history
<1>10. CASE Finish
  <2>1. Decode(resp).data \in Seq(Bytes)
    <3>1. resp \in Seq(Bytes)
      BY BodyIsBytes DEF SlipTypeOK
    <3> QED BY <3>1, DecodeType DEF Decoded
  <2>2. Append(got, Decode(resp).data) \in Seq(Seq(Bytes))
    BY <2>1 DEF SlipTypeOK
  <2> QED BY <1>6, <1>10, <2>2 DEF SlipTypeOK, Finish, BreakOff, Goto, history
<1>11. CASE UNCHANGED slipVars
  BY <1>11 DEF SlipTypeOK, slipVars, host, history
<1> QED BY <1>1, <1>2, <1>3, <1>4, <1>5, <1>7, <1>8, <1>9, <1>10, <1>11
      DEF SlipNext, Host, Stopped

\* At first there is one part, which is empty.
LEMMA StoryBegins ==
  ASSUME SlipInit
  PROVE  SlipIInv
<1> DEFINE e == <<>>
           s == <<e>>
           z == <<0>>
<1>1. /\ line = <<>> /\ written = <<>> /\ blemish = 0 /\ place = "idle" /\ cmd \in Commands
      /\ resp = <<>> /\ got = <<>> /\ raised = "none" /\ begun = 0 /\ passable = FALSE
  BY DEF SlipInit
<1>2. Len(<<>>) = 0 /\ \A S : <<>> \in Seq(S)
  BY EmptySeq
<1>3. MaxWrites \in Nat
  BY SlipAssumption
<1>4. SlipTypeOK /\ GotInv /\ RaisedForCause
  <2>1. /\ line \in Seq(Bytes) /\ resp \in Seq(Body) /\ got \in Seq(Seq(Bytes))
        /\ got \in Seq(Responses) /\ written \in Seq(Responses)
        /\ Len(got) = 0 /\ Len(written) = 0
    BY <1>1, <1>2, Zenon
  <2>2. SlipTypeOK
    <3>1. passable \in BOOLEAN
      BY <1>1, Zenon
    <3>2. blemish \in Nat /\ begun \in Nat /\ Len(written) + blemish <= MaxWrites
      BY <1>1, <1>3, <2>1
    <3>3. /\ place = "raised" <=> raised # "none"
          /\ place = "skip" => resp = <<>>
      BY <1>1
    <3> QED BY <1>1, <2>1, <3>1, <3>2, <3>3, Zenon DEF SlipTypeOK
  <2>3. GotInv
    BY <2>1 DEF GotInv
  <2>4. RaisedForCause
    BY <1>1 DEF RaisedForCause
  <2> QED BY <2>2, <2>3, <2>4
<1> HIDE DEF e
<1>5. e \in Seq(Body) /\ e \in Seq(Bytes) /\ Len(e) = 0 /\ e = <<>>
  BY <1>2 DEF e
<1>6. /\ s \in Seq(Seq(Body)) /\ Len(s) = 1 /\ s[1] = e
      /\ z \in Seq(Nat) /\ Len(z) = 1 /\ z[1] = 0
  BY <1>5
<1> HIDE DEF s, z
<1>7. Stream(e, s, z)
  BY <1>5, <1>6 DEF Stream
<1>8. Packets(s, z, {})
  <2>1. \A i \in 1 .. Len(s) : Junk(s[i]) /\ s[i] = <<>>
    BY <1>5, <1>6 DEF Junk
  <2>2. Open(s[Len(s)], begun)
    <3>1. Len(Decode(<<>>).data) = 0
      BY <1>2, CodecEmpty DEF Start
    <3>2. s[Len(s)] = <<>>
      BY <1>5, <1>6
    <3> QED BY <1>1, <3>1, <3>2 DEF Open
  <2> QED BY <1>1, <1>2, <1>6, <2>1, <2>2 DEF Packets
<1>9. Reading(e, 0, s, z, z, 1)
  BY <1>1, <1>5, <1>6 DEF Reading
<1>10. Story
  BY <1>7, <1>8, <1>9 DEF Story
<1> QED BY <1>1, <1>4, <1>10 DEF SlipIInv

\* Every step keeps the invariant.
LEMMA SlipStep ==
  ASSUME SlipIInv, [SlipNext]_slipVars
  PROVE  SlipIInv'
<1>1. SlipTypeOK /\ SlipTypeOK'
  BY TypeStep DEF SlipIInv
<1>2. ASSUME Told, ~passable'
      PROVE  Told'
  <2>1. CASE WriteResponse \/ WritePart \/ WriteText
    BY <1>1, <1>2, <2>1, WriteStep
  <2>2. CASE Host
    BY <1>1, <1>2, <2>2, IdleStep, SkipStep, CollectStep, CollectTimeoutStep, FinishStep DEF Host
  <2>3. CASE UNCHANGED slipVars
    <3>1. /\ place' = place /\ cmd' = cmd /\ resp' = resp /\ got' = got /\ raised' = raised
          /\ line' = line /\ written' = written /\ blemish' = blemish /\ UNCHANGED history
      BY <2>3 DEF slipVars, host, history
    <3>2. (GotInv /\ RaisedForCause)'
      BY <1>2, <3>1 DEF Told, GotInv, RaisedForCause
    <3>3. ASSUME raised' = "none"
          PROVE  Story'
      <4>1. PICK T, k, segs, at, no, whole, cur :
              Stream(T, segs, at) /\ Packets(segs, no, whole) /\ Reading(T, k, segs, at, no, cur)
        BY <1>2, <3>1, <3>3 DEF Told, Story
      <4>2. Packets(segs, no, whole)'
        BY <3>1, <4>1, PacketsSame
      <4>3. Reading(T, k, segs, at, no, cur)'
        BY ONLY <3>1, <4>1 DEF Reading
      <4> QED BY <4>1, <4>2, <4>3 DEF Story
    <3> QED BY <3>2, <3>3 DEF Told
  <2> QED BY <2>1, <2>2, <2>3 DEF SlipNext, Stopped
<1>3. /\ passable => passable'
      /\ blemish' = 0 => blemish = 0 /\ passable' = passable
  <2>1. CASE WriteResponse \/ WritePart \/ WriteText
    BY <1>1, <2>1 DEF WriteResponse, WritePart, WriteText, SlipTypeOK
  <2>2. CASE Host \/ UNCHANGED slipVars
    BY <2>2 DEF Host, Call, Skip, SkipTimeout, Collect, CollectTimeout, Finish, slipVars, history
  <2> QED BY <2>1, <2>2 DEF SlipNext, Stopped
<1>4. ~passable' => Told'
  BY <1>2, <1>3 DEF SlipIInv, Told
<1>5. blemish' = 0 => ~passable'
  BY <1>3 DEF SlipIInv
<1>6. RaisedForCause'
  BY <1>4, <1>5 DEF Told, RaisedForCause
<1> QED BY <1>1, <1>4, <1>5, <1>6 DEF SlipIInv, Told

\* Whatever the ROM sends and the chip prints, unless text may have completed a piece of
\* a packet: every byte on the line belongs to a packet, or to a part between two ENDs
\* that slip_decode and check_response refuse, and the host is where the packets it has
\* returned say.
THEOREM SlipInvariant == SlipSpec => []SlipIInv
<1>1. SlipInit => SlipIInv
  BY StoryBegins
<1>2. SlipIInv /\ [SlipNext]_slipVars => SlipIInv'
  BY SlipStep
<1> QED BY <1>1, <1>2, PTL DEF SlipSpec

\* Recv_response returns the packets the ROM wrote, in their order, each once, for
\* any responses and any text without SLIP's bytes and the byte a response begins with,
\* however often frames are cut off: until text comes right behind a piece of a packet
\* where it may complete it, no packet it returns is put together from pieces.
THEOREM SlipOnlyWritten == SlipSpec => []OnlyWritten
<1>1. SlipIInv => OnlyWritten
  <2> SUFFICES ASSUME SlipIInv, ~passable
               PROVE  IsPrefix(got, written)
    BY DEF OnlyWritten
  <2> DEFINE n == Len(got)
             g == SubSeq(got, 1, n)
             w == SubSeq(written, 1, n)
  <2>1. /\ got \in Seq(Responses) /\ written \in Seq(Responses) /\ n \in Nat /\ Len(written) \in Nat
        /\ n <= Len(written) /\ \A i \in 1 .. n : got[i] = written[i]
    BY DEF SlipIInv, SlipTypeOK, GotInv
  <2>2. g \in Seq(Responses) /\ Len(g) = n /\ \A i \in 1 .. n : g[i] = got[i]
    BY <2>1
  <2>3. w \in Seq(Responses) /\ Len(w) = n /\ \A i \in 1 .. n : w[i] = written[i]
    BY <2>1
  <2> HIDE DEF g, w
  <2>4. g = w
    BY <2>1, <2>2, <2>3, SeqEqual
  <2> QED BY <2>1, <2>4 DEF IsPrefix, g, w
<1> QED BY <1>1, SlipInvariant, PTL

\* No packet is passed over: when nothing is left on the line and no exception has
\* been raised, all that were written have been returned, unless text may have completed
\* a piece of a packet.
THEOREM SlipNoneSkipped == SlipSpec => []NoneSkipped
<1>1. SlipIInv => NoneSkipped
  <2> SUFFICES ASSUME SlipIInv, ~passable, raised = "none", place # "collect", line = <<>>
               PROVE  got = written
    BY DEF NoneSkipped
  <2>1. PICK T, k, segs, at, no, whole, cur :
          Stream(T, segs, at) /\ Packets(segs, no, whole) /\ Reading(T, k, segs, at, no, cur)
    BY DEF SlipIInv, Story
  <2> DEFINE n == Len(segs)
  <2>2. /\ n \in Nat /\ n >= 1 /\ Len(T) \in Nat
        /\ \A i \in 1 .. n : segs[i] \in Seq(Body) /\ Len(segs[i]) \in Nat /\ at[i] \in Nat
    BY ONLY <2>1, StreamType
  <2>3. k \in Nat /\ k <= Len(T) /\ Len(line) = Len(T) - k /\ cur \in 1 .. n
        /\ no[cur] = Len(got) /\ k = at[cur]
    BY <2>1 DEF Reading
  <2>4. at[cur] = Len(T)
    <3>1. Len(line) = 0
      BY EmptySeq
    <3> QED BY <2>2, <2>3, <3>1
  <2>5. cur = n
    <3> SUFFICES ASSUME cur # n
                 PROVE  FALSE
      OBVIOUS
    <3>1. cur < n /\ cur + 1 \in 1 .. n
      BY <2>2, <2>3
    <3>2. at[cur + 1] = at[cur] + Len(segs[cur]) + 1 /\ at[cur + 1] + Len(segs[cur + 1]) <= Len(T)
      BY <2>1, <2>3, <3>1 DEF Stream
    <3>3. /\ at[cur] \in Nat /\ Len(segs[cur]) \in Nat /\ at[cur + 1] \in Nat
             /\ Len(segs[cur + 1]) \in Nat
      BY ONLY <2>2, <2>3, <3>1
    <3> DEFINE a == at[cur]
               b == Len(segs[cur])
               c == at[cur + 1]
               d == Len(segs[cur + 1])
               t == Len(T)
    <3>4. a \in Nat /\ b \in Nat /\ c \in Nat /\ d \in Nat /\ a = t /\ c = a + b + 1 /\ c + d <= t
      BY ONLY <2>4, <3>2, <3>3
    <3> HIDE DEF a, b, c, d, t
    <3> QED BY ONLY <3>4
  <2>6. Len(got) = Len(written)
    BY <2>1, <2>3, <2>5 DEF Packets
  <2>7. /\ got \in Seq(Responses) /\ written \in Seq(Responses)
           /\ \A i \in 1 .. Len(got) : got[i] = written[i]
    BY DEF SlipIInv, SlipTypeOK, GotInv
  <2> QED BY <2>6, <2>7, SeqEqual
<1> QED BY <1>1, SlipInvariant, PTL

\* As long as the chip writes whole packets only, the host ends a command for no
\* other cause than a byte that comes too slowly or a response to another command.
THEOREM SlipRaisedForCause == SlipSpec => []RaisedForCause
<1>1. SlipIInv => RaisedForCause
  BY DEF SlipIInv
<1> QED BY <1>1, SlipInvariant, PTL

\* Slip_decode undoes slip_encode for every sequence of bytes, after whatever it has
\* decoded before; and no END is left in what slip_encode makes.
THEOREM SlipCodec ==
  ASSUME NEW c \in Seq(Bytes), NEW d \in Seq(Bytes)
  PROVE  /\ Decode(Encode(d)) = Plain(d) /\ Encode(d) \in Seq(Body)
         /\ ~Decode(c).esc => Decode(c \o Encode(d)) = Plain(Decode(c).data \o d)
BY DecodeWhole, DecodeEncoded, EncodeType

\* The codec, of whatever the host has read of a frame at any time.
THEOREM SlipCodecUndone == SlipSpec => []CodecUndone
<1>1. SlipIInv => CodecUndone
  <2> SUFFICES ASSUME SlipIInv, ~Decode(resp).esc, NEW d \in CodecData
               PROVE  /\ Decode(resp \o Encode(d)) = [esc |-> FALSE, data |-> Decode(resp).data \o d]
                      /\ ~Contains(Encode(d), END)
    BY DEF CodecUndone
  <2>1. d \in Seq(Bytes) /\ resp \in Seq(Bytes)
    BY SlipAssumption, BodyIsBytes DEF SlipIInv, SlipTypeOK
  <2>2. Encode(d) \in Seq(Body) /\ Decode(resp \o Encode(d)) = Plain(Decode(resp).data \o d)
    BY <2>1, SlipCodec
  <2>3. \A i \in 1 .. Len(Encode(d)) : Encode(d)[i] # END
    BY <2>2, ElementOfSeq DEF Body
  <2> QED BY <2>2, <2>3 DEF Plain, Contains
<1> QED BY <1>1, SlipInvariant, PTL
=============================================================================
