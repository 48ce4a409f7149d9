---------------------------- MODULE UsbSerialJtag ---------------------------
(***************************************************************************)
(* drivers/usb_serial_jtag/usb_serial_jtag.c, under the printf of          *)
(* targets/tests/usb_serial_jtag/main.c: the CPU puts characters in the    *)
(* endpoint's FIFO and hands them over as packets; the USB host, which may *)
(* come and go, collects the packets.                                      *)
(*                                                                         *)
(* One action is one access of the CPU to a register.  A polling loop is   *)
(* enabled once the value it waits for is there.                           *)
(***************************************************************************)
EXTENDS Integers, Sequences

CONSTANTS
  NChars,   \* the length of the text main prints
  Depth     \* what the endpoint's FIFO holds (64 in the chip)

ASSUME UsbAssumption == NChars \in Nat /\ Depth \in Nat \ {0}

VARIABLES
  pc,         \* the CPU's place in the driver
  i,          \* characters for which usb_serial_jtag_putc has returned
  fifo,       \* characters written to EP1 and not yet handed over
  packet,     \* the packet the host has yet to collect
  stale,      \* a packet of the boot ROM's is still uncollected
  inEmpty,    \* INT_RAW.SERIAL_IN_EMPTY
  inFlush,    \* INT_RAW.JTAG_IN_FLUSH
  out,        \* what the host has collected
  attached    \* a host polls the endpoint

cpu == <<pc, i>>
endpoint == <<fifo, packet, stale, inEmpty, inFlush>>
vars == <<cpu, endpoint, out, attached>>

Pcs == {"wait", "write", "done", "poll", "clear", "hang"}

Init ==
  /\ pc = (IF NChars = 0 THEN "hang" ELSE "wait") /\ i = 0
  /\ fifo = <<>> /\ packet = <<>> /\ out = <<>>
  /\ stale \in BOOLEAN /\ inEmpty \in BOOLEAN /\ inFlush \in BOOLEAN
  /\ attached \in BOOLEAN

Goto(l) == pc' = l

Uncollected == stale \/ packet # <<>>

\* EP1_CONF.IN_EP_DATA_FREE.
DataFree == ~Uncollected /\ Len(fifo) < Depth

\* Seeded fault: the FIFO's state is not looked at.
WaitFree_Omitted ==
  /\ pc = "wait" /\ Goto("write")
  /\ UNCHANGED <<i, endpoint, out, attached>>

WaitFree ==
  /\ pc = "wait" /\ DataFree
  /\ Goto("write")
  /\ UNCHANGED <<i, endpoint, out, attached>>

\* The endpoint drops a character it is not free for.
WriteByte ==
  /\ pc = "write" /\ Goto("done")
  /\ fifo' = IF DataFree THEN Append(fifo, i + 1) ELSE fifo
  /\ UNCHANGED <<i, packet, stale, inEmpty, inFlush, out, attached>>

\* Seeded fault: WR_DONE is left out, as if the FIFO flushed itself.
WriteDone_Omitted ==
  /\ pc = "done" /\ Goto("poll")
  /\ UNCHANGED <<i, endpoint, out, attached>>

\* usb_serial_jtag_flush hands what was written over as a packet.
WriteDone ==
  /\ pc = "done" /\ Goto("poll")
  /\ packet' = packet \o fifo /\ fifo' = <<>>
  /\ UNCHANGED <<i, stale, inEmpty, inFlush, out, attached>>

PollEmpty ==
  /\ pc = "poll" /\ inEmpty
  /\ Goto("clear")
  /\ UNCHANGED <<i, endpoint, out, attached>>

\* Writes the clear bit of JTAG_IN_FLUSH, not that of the SERIAL_IN_EMPTY the loop
\* polled; then back to printf for the next character.
ClearInt ==
  /\ pc = "clear"
  /\ inFlush' = FALSE
  /\ i' = i + 1 /\ Goto(IF i' < NChars THEN "wait" ELSE "hang")
  /\ UNCHANGED <<fifo, packet, stale, inEmpty, out, attached>>

CpuStep == WaitFree \/ WriteByte \/ WriteDone \/ PollEmpty \/ ClearInt

\* An IN token takes the packet; the endpoint is empty and says so.
HostCollects ==
  /\ attached /\ Uncollected
  /\ out' = out \o packet /\ packet' = <<>> /\ stale' = FALSE
  /\ inEmpty' = TRUE
  /\ UNCHANGED <<cpu, fifo, inFlush, attached>>

Plug ==
  /\ attached' = ~attached
  /\ UNCHANGED <<cpu, endpoint, out>>

Next == CpuStep \/ HostCollects \/ Plug

\* The CPU runs, and a host that stays attached polls.
Spec == Init /\ [][Next]_vars /\ WF_vars(CpuStep) /\ WF_vars(HostCollects)

-----------------------------------------------------------------------------
(* Properties.                                                             *)

\* Characters written to EP1 so far.
Put == IF pc \in {"done", "poll", "clear"} THEN i + 1 ELSE i

TypeOK ==
  /\ pc \in Pcs /\ i \in 0 .. NChars
  /\ fifo \in Seq(1 .. NChars) /\ packet \in Seq(1 .. NChars) /\ out \in Seq(1 .. NChars)
  /\ stale \in BOOLEAN /\ inEmpty \in BOOLEAN /\ inFlush \in BOOLEAN
  /\ attached \in BOOLEAN

Promise == INSTANCE CharOut WITH put <- Put, Cap <- 1

\* The host gets the characters in order, each once, and no more than one is ever on
\* its way, whenever the host comes and goes.
DeliversInOrder == Promise!Safe

\* A driver that spins for want of a host goes on when there is one to stay: the
\* whole text comes out and main returns.
HostWakesDriver ==
  <>[]attached => <>(pc = "hang" /\ out = [k \in 1 .. NChars |-> k])

\* usb_serial_jtag_flush waits for SERIAL_IN_EMPTY after it hands a packet over: when
\* it is done, the host has the packet.
FlushWaits == [][pc = "poll" /\ pc' = "clear" => packet = <<>>]_vars

-----------------------------------------------------------------------------
(* The inductive invariant behind the promise's safety.                    *)

\* Where the one character that may be on its way is.
OneInv ==
  /\ pc \in {"write", "done"} => packet = <<>> /\ ~stale
  /\ fifo = (IF pc = "done" THEN <<i + 1>> ELSE <<>>)
  /\ packet \in {<<>>, <<Put>>}
  /\ Len(out) = Put - Len(fifo) - Len(packet)
  /\ \A k \in 1 .. Len(out) : out[k] = k

LoopInv == pc # "hang" => i < NChars

UsbIInv == TypeOK /\ OneInv /\ LoopInv
=============================================================================
