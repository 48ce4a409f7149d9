------------------------------- MODULE SlipMC -------------------------------
(***************************************************************************)
(* A few packets and some text for TLC, and every short data for the       *)
(* codec.                                                                  *)
(***************************************************************************)
EXTENDS Slip

\* Data of up to two bytes, of all that are special and one that is not.
Special == {END, ESC, ESC_END, ESC_ESC, 85}
ShortData == UNION {[1 .. n -> Special] : n \in 0 .. 2}

Response(c, value, data) == <<1, c, Len(data), 0>> \o value \o data

\* To SYNC (8) and FLASH_DATA (3): one without data, and one that ends in a special
\* byte after the code of another.
SomeResponses ==
  {Response(8, <<0, END, 0, 0>>, <<>>), Response(3, <<0, 0, 0, 0>>, <<ESC_END, ESC>>)}
SyncOrData == {8, 3}
\* A line of text longer than both, and one character, which may stand for the byte that
\* a cut packet lacks.
SomeText == {[k \in 1 .. 11 |-> 69], <<69>>}
=============================================================================
