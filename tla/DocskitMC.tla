----------------------------- MODULE DocskitMC ------------------------------
(***************************************************************************)
(* Docskit on registers of four bits.                                      *)
(***************************************************************************)
EXTENDS Docskit

\* One and two bits, the last of them beyond the register; none; less than none; not
\* readable.
Ranges ==
  {<<b, b>> : b \in 0 .. 4} \cup {<<b + 1, b>> : b \in 0 .. 3}
  \cup {<<1, 2>>, <<0, 2>>, <<Unreadable, Unreadable>>}

\* Alone, and as none, as two side by side, and as two with a bit in between or
\* overlapping.
SomeFields ==
  {[msb |-> r[1], lsb |-> r[2], count |-> c[1], stride |-> c[2]] :
     r \in Ranges, c \in {<<Absent, Absent>>, <<0, Absent>>, <<2, Absent>>, <<2, 2>>, <<2, 1>>}}
=============================================================================
