-------------------------------- MODULE Uart --------------------------------
(***************************************************************************)
(* drivers/uart/uart.c as targets/tests/uart/main.c drives it: one CPU     *)
(* that polls, and a transmitter that shifts characters out of its FIFO    *)
(* and raises TXFIFO_EMPTY while it holds fewer than Threshold of them.    *)
(*                                                                         *)
(* One action is one access of the CPU to a register, so that the          *)
(* transmitter may act between any two of them.  A polling loop is enabled *)
(* once the value it waits for is there; earlier reads change nothing.     *)
(*                                                                         *)
(* The registers of one channel: the two channels share nothing.           *)
(***************************************************************************)
EXTENDS Integers, Sequences

CONSTANTS
  NChars,     \* the length of main's text
  Cap,        \* what the FIFO holds (128 in the chip)
  Threshold,  \* TXFIFO_EMPTY means fewer characters than this (96 at reset)
  Leftover    \* the most characters the boot ROM leaves in the FIFO

\* The ROM waits for room before it prints, and so leaves room for one more.
ASSUME UartAssumption ==
  /\ NChars \in Nat /\ Cap \in Nat /\ Threshold \in Nat \ {0} /\ Leftover \in Nat
  /\ Threshold <= Cap
  /\ Leftover < Cap

VARIABLES
  pc,     \* the CPU's place in main and the driver
  i,      \* i of main's loop
  update, \* REG_UPDATE.UPDATE: the registers are being synchronised
  ena,    \* INT_ENA.TXFIFO_EMPTY
  raw,    \* the latched TXFIFO_EMPTY; INT_ST reads as raw /\ ena
  old,    \* the ROM's characters, ahead of all others in the FIFO
  fifo,   \* the program's characters in the FIFO
  out     \* the program's characters on the line

cpu == <<pc, i>>
vars == <<cpu, update, ena, raw, old, fifo, out>>

Pcs == {"init", "next", "sync", "disable", "write", "clear", "enable", "poll", "done"}

Held == old + Len(fifo)

Init ==
  /\ pc = "init" /\ i = 0
  /\ update \in BOOLEAN /\ ena \in BOOLEAN /\ raw \in BOOLEAN
  /\ old \in 0 .. Leftover
  /\ fifo = <<>> /\ out = <<>>

Goto(l) == pc' = l

\* uart_init and the start of uart_tx_char: wait_for_update.
WaitForUpdate ==
  /\ pc \in {"init", "sync"} /\ ~update
  /\ Goto(IF pc = "init" THEN "next" ELSE "disable")
  /\ UNCHANGED <<i, update, ena, raw, old, fifo, out>>

\* main's loop: uart_tx_char for each character, then uart_exit and head.S's hang.
Loop ==
  /\ pc = "next"
  /\ Goto(IF i < NChars THEN "sync" ELSE "done")
  /\ UNCHANGED <<i, update, ena, raw, old, fifo, out>>

DisableInt ==
  /\ pc = "disable" /\ Goto("write")
  /\ ena' = FALSE
  /\ UNCHANGED <<i, update, raw, old, fifo, out>>

\* The FIFO drops what it has no room for.
WriteFifo ==
  /\ pc = "write" /\ Goto("clear")
  /\ fifo' = IF Held < Cap THEN Append(fifo, i + 1) ELSE fifo
  /\ UNCHANGED <<i, update, ena, raw, old, out>>

\* Seeded fault: TXFIFO_EMPTY_INT_CLR is not written.
ClearInt_Omitted ==
  /\ pc = "clear" /\ Goto("enable")
  /\ UNCHANGED <<i, update, ena, raw, old, fifo, out>>

ClearInt ==
  /\ pc = "clear" /\ Goto("enable")
  /\ raw' = FALSE
  /\ UNCHANGED <<i, update, ena, old, fifo, out>>

\* Seeded fault: TXFIFO_EMPTY_INT_ENA is not set again.
EnableInt_Omitted ==
  /\ pc = "enable" /\ Goto("poll")
  /\ UNCHANGED <<i, update, ena, raw, old, fifo, out>>

EnableInt ==
  /\ pc = "enable" /\ Goto("poll")
  /\ ena' = TRUE
  /\ UNCHANGED <<i, update, raw, old, fifo, out>>

\* Seeded fault: uart_tx_char returns without waiting.
Poll_NotAwaited ==
  /\ pc = "poll"
  /\ i' = i + 1 /\ Goto("next")
  /\ UNCHANGED <<update, ena, raw, old, fifo, out>>

Poll ==
  /\ pc = "poll" /\ raw /\ ena
  /\ i' = i + 1 /\ Goto("next")
  /\ UNCHANGED <<update, ena, raw, old, fifo, out>>

CpuStep ==
  WaitForUpdate \/ Loop \/ DisableInt \/ WriteFifo \/ ClearInt \/ EnableInt \/ Poll

Updated ==
  /\ update /\ update' = FALSE
  /\ UNCHANGED <<cpu, ena, raw, old, fifo, out>>

Shift ==
  /\ \/ old > 0 /\ old' = old - 1 /\ UNCHANGED <<fifo, out>>
     \/ /\ old = 0 /\ fifo # <<>>
        /\ out' = Append(out, Head(fifo)) /\ fifo' = Tail(fifo)
        /\ UNCHANGED old
  /\ UNCHANGED <<cpu, update, ena, raw>>

RaiseEmpty ==
  /\ ~raw /\ Held < Threshold
  /\ raw' = TRUE
  /\ UNCHANGED <<cpu, update, ena, old, fifo, out>>

Done ==
  /\ pc = "done"
  /\ UNCHANGED vars

Next == CpuStep \/ Updated \/ Shift \/ RaiseEmpty \/ Done

\* The CPU runs one program and no interrupt; the transmitter is clocked.
Spec ==
  /\ Init /\ [][Next]_vars
  /\ WF_vars(CpuStep) /\ WF_vars(Updated) /\ WF_vars(Shift) /\ WF_vars(RaiseEmpty)

-----------------------------------------------------------------------------
(* Properties.                                                             *)

\* Characters written to the FIFO register so far.
Put == IF pc \in {"clear", "enable", "poll"} THEN i + 1 ELSE i

TypeOK ==
  /\ pc \in Pcs /\ i \in 0 .. NChars
  /\ update \in BOOLEAN /\ ena \in BOOLEAN /\ raw \in BOOLEAN
  /\ old \in 0 .. Leftover
  /\ fifo \in Seq(1 .. NChars) /\ out \in Seq(1 .. NChars)

\* uart_tx_char writes without a look at the FIFO: that it has room rests on the
\* TXFIFO_EMPTY the call before waited for being a fresh one.
NoOverrun == pc = "write" => Held < Cap

\* A TXFIFO_EMPTY that is seen after it was cleared tells the FIFO as it is now:
\* the character just written has been counted.
FreshEmpty == pc \in {"enable", "poll"} /\ raw => Held < Threshold

Promise == INSTANCE CharOut WITH put <- Put

\* The driver is a FIFO that loses, repeats and reorders nothing, holds at most
\* Cap characters, and lets all of them out.
Delivers == Promise!Spec

\* main returns: no poll of the driver waits forever.
Returns == <>(pc = "done")

-----------------------------------------------------------------------------
(* The inductive invariant behind NoOverrun and the promise's safety.      *)

\* What is in the FIFO and on the line is what was put, in order.
OrderInv ==
  /\ Put = Len(out) + Len(fifo)
  /\ \A k \in 1 .. Len(out) : out[k] = k
  /\ \A k \in 1 .. Len(fifo) : fifo[k] = Len(out) + k

\* Before the first character the ROM's leave room, and after it TXFIFO_EMPTY does.
RoomInv == pc \in {"init", "next", "sync", "disable", "write", "done"} => Held < Cap

LoopInv == pc \in Pcs \ {"init", "next", "done"} => i < NChars

UartIInv == TypeOK /\ OrderInv /\ RoomInv /\ FreshEmpty /\ LoopInv
=============================================================================
