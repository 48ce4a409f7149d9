------------------------------ MODULE Docskit -------------------------------
(***************************************************************************)
(* tools/docskit/main.py: the union it generates for one register from the *)
(* fields of its description, and the masks next to it.                    *)
(*                                                                         *)
(* The masks and shifts are the bits a description names.  The bit-fields  *)
(* of the union have widths only: where the C compiler puts each is the    *)
(* sum of the widths before it, so that every gap must be filled and the   *)
(* order must be that of the bits.                                         *)
(***************************************************************************)
EXTENDS Integers, Sequences

CONSTANTS
  WordBits,    \* bits of a register, 32
  Fields,      \* the fields a description may have
  MaxFields    \* bound: fields of the register

Absent == -1       \* a key that the description of a field does not have
Unreadable == -1   \* both ends of a range that parse_bit_range cannot read

\* msb and lsb are what parse_bit_range reads of "bits", in either order.
Field == [ msb : Nat \cup {Unreadable}, lsb : Nat \cup {Unreadable},
           count : Nat \cup {Absent}, stride : Nat \cup {Absent} ]

\* What parse_bit_range reads is never negative, and what is negative it cannot read.
Readable(f) == f.msb >= 0 /\ f.lsb >= 0

ASSUME DocskitAssumption ==
  /\ WordBits \in Nat /\ MaxFields \in Nat
  /\ Fields \subseteq Field
  /\ \A f \in Fields : f.msb = Unreadable <=> f.lsb = Unreadable

VARIABLES
  reg,      \* the register's fields
  pc,       \* "expand", "emit", "done", or "raised"
  left,     \* the expanded fields that are not emitted yet
  last,     \* last_lsb
  placed,   \* the expanded fields emitted so far, each at its place in the struct
  total     \* width of the struct so far

vars == <<reg, pc, left, last, placed, total>>

Width(f) == f.msb - f.lsb + 1

Stride(f) == IF f.stride = Absent THEN Width(f) ELSE f.stride

\* Seeded fault: an instance is shifted by its number alone.
Copy_NoStride(k, i) ==
  [k |-> k, i |-> i, msb |-> reg[k].msb + i, lsb |-> reg[k].lsb + i]

\* The i-th of the fields that the k-th of the description stands for.
Copy(k, i) ==
  [ k |-> k, i |-> i, msb |-> reg[k].msb + i * Stride(reg[k]),
    lsb |-> reg[k].lsb + i * Stride(reg[k]) ]

Expanded ==
  UNION { {Copy(k, i) : i \in 0 .. (IF reg[k].count = Absent THEN 0 ELSE reg[k].count - 1)}
          : k \in DOMAIN reg }

\* Seeded fault: the order of the description.
Before_Unsorted(f, g) == f.k < g.k \/ (f.k = g.k /\ f.i < g.i)

\* sorted(..., key=lsb) keeps the order of fields that begin at the same bit.
Before(f, g) ==
  \/ f.lsb < g.lsb
  \/ f.lsb = g.lsb /\ (f.k < g.k \/ (f.k = g.k /\ f.i < g.i))

Init ==
  /\ \E n \in 0 .. MaxFields : reg \in [1 .. n -> Fields]
  /\ pc = "expand" /\ left = {} /\ last = 0 /\ placed = {} /\ total = 0

\* In the description, and in the copies of a range that is written the other way
\* round: the default stride takes them downwards.
AllReadable == (\A k \in DOMAIN reg : Readable(reg[k])) /\ \A f \in Expanded : Readable(f)

\* A range that cannot be read raises TypeError, in expand_fields or in the loop
\* that counts the gaps, before anything is written.
Raise ==
  /\ pc = "expand" /\ ~AllReadable
  /\ pc' = "raised"
  /\ UNCHANGED <<reg, left, last, placed, total>>

Expand ==
  /\ pc = "expand" /\ AllReadable
  /\ left' = Expanded
  /\ pc' = "emit"
  /\ UNCHANGED <<reg, last, placed, total>>

\* The reserved bits before bit b.
Gap(b) == IF last < b THEN b - last ELSE 0

\* Seeded fault: the widths are added up.
After_Sum(f) == last + Gap(f.lsb) + Width(f)

After(f) == f.msb + 1

EmitField ==
  /\ pc = "emit"
  /\ \E f \in left :
       /\ \A g \in left \ {f} : Before(f, g)
       /\ left' = left \ {f}
       /\ placed' = placed \cup {[field |-> f, at |-> total + Gap(f.lsb)]}
       /\ total' = total + Gap(f.lsb) + Width(f)
       /\ last' = After(f)
  /\ UNCHANGED <<reg, pc>>

EmitRest ==
  /\ pc = "emit" /\ left = {}
  /\ total' = total + Gap(WordBits)
  /\ pc' = "done"
  /\ UNCHANGED <<reg, left, last, placed>>

Done == pc \in {"done", "raised"} /\ UNCHANGED vars

Next == Raise \/ Expand \/ EmitField \/ EmitRest \/ Done

Spec == Init /\ [][Next]_vars

-----------------------------------------------------------------------------
(* Properties.                                                             *)

\* The bits of the mask.
Bits(f) == f.lsb .. f.msb

\* A description that makes sense: no field is empty, ends beyond the register or
\* overlaps another.
Proper ==
  /\ AllReadable
  /\ \A f \in Expanded : Bits(f) # {} /\ Bits(f) \subseteq 0 .. WordBits - 1
  /\ \A f, g \in Expanded : f # g => Bits(f) \cap Bits(g) = {}

\* In the order they are described in, with and without counts and strides, the
\* bit-fields of a proper register are where their masks say, none is missing, and
\* the struct is as wide as the register.
FieldsOnTheirBits ==
  pc = "done" /\ Proper =>
    /\ {p.field : p \in placed} = Expanded
    /\ \A p \in placed : p.at = p.field.lsb
    /\ total = WordBits

\* The header vouches for itself: if the bit-fields of the union add up to one word,
\* every one is where its mask says, however wrong the description is.  A misplaced
\* field cannot go unnoticed by an assertion of the union's size.
WordMeansRight ==
  pc = "done" /\ total = WordBits => \A p \in placed : p.at = p.field.lsb
=============================================================================
