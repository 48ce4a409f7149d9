------------------------------ MODULE CharOut -------------------------------
(***************************************************************************)
(* What a transmitting driver of drivers/ promises the program that calls  *)
(* it: the characters come out on the line in the order they were put, each *)
(* once, none lost, and at most Cap of them are held on the way.           *)
(*                                                                         *)
(* The text is NChars characters; a character is its place in the text.    *)
(***************************************************************************)
EXTENDS Integers, Sequences

CONSTANTS
  NChars,  \* a natural number
  Cap      \* a positive one

VARIABLES
  put,   \* characters put so far
  out    \* characters that have come out, in order

vars == <<put, out>>

Init == put = 0 /\ out = <<>>

Put ==
  /\ put < NChars /\ put - Len(out) < Cap
  /\ put' = put + 1
  /\ UNCHANGED out

Deliver ==
  /\ Len(out) < put
  /\ out' = Append(out, Len(out) + 1)
  /\ UNCHANGED put

Next == Put \/ Deliver

Safe == Init /\ [][Next]_vars

Spec == Safe /\ WF_vars(Put) /\ WF_vars(Deliver)
=============================================================================
