------------------------------ MODULE HeapMC -------------------------------
(***************************************************************************)
(* Heap on a heap of seven chunks, with a size_t of ten bits.              *)
(***************************************************************************)
EXTENDS Heap

\* A product of 0, and one that wraps round to 64.
Pairs == {<<0, 5>>, <<64, 17>>}
=============================================================================
