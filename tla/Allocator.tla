----------------------------- MODULE Allocator ------------------------------
(***************************************************************************)
(* What malloc, free and realloc promise a program: the blocks it holds    *)
(* lie apart from each other in the arena, aligned, and none moves or      *)
(* disappears unless the program asks for it.                              *)
(***************************************************************************)
EXTENDS Integers

CONSTANTS
  Lo, Hi,    \* the arena's bounds
  Align,     \* every block's address is a multiple of it
  Sizes      \* the sizes programs ask for

VARIABLE blocks   \* what the program holds: addresses and sizes asked for

Addresses == {a \in Lo .. Hi : a % Align = 0}

\* A block can lie there beside the others.
Fits(b, others) ==
  /\ b.addr + b.req <= Hi
  /\ \A o \in others :
       /\ b.addr # o.addr
       /\ b.addr + b.req <= o.addr \/ o.addr + o.req <= b.addr

Candidates(others) ==
  {b \in [addr : Addresses, req : Sizes] : Fits(b, others)}

Init == blocks = {}

Allocate == \E b \in Candidates(blocks) : blocks' = blocks \cup {b}

Release == \E b \in blocks : blocks' = blocks \ {b}

\* The block is made smaller or larger, where it is or elsewhere.
Resize ==
  \E old \in blocks :
    \E new \in Candidates(blocks \ {old}) : blocks' = (blocks \ {old}) \cup {new}

Next == Allocate \/ Release \/ Resize

Spec == Init /\ [][Next]_blocks
=============================================================================
