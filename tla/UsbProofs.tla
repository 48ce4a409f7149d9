----------------------------- MODULE UsbProofs ------------------------------
(***************************************************************************)
(* The USB Serial/JTAG driver delivers in order, for every text, every     *)
(* endpoint and every host that comes and goes.                            *)
(***************************************************************************)
EXTENDS UsbSerialJtag, TLAPS

USE UsbAssumption DEF UsbAssumption

\* A queue of at most one, that is appended to.
LEMMA AppendFacts ==
  ASSUME NEW S, NEW q \in Seq(S), NEW e \in S
  PROVE  /\ Append(q, e) \in Seq(S)
         /\ Len(q) \in Nat /\ Len(Append(q, e)) = Len(q) + 1
         /\ \A k \in 1 .. Len(q) : Append(q, e)[k] = q[k]
         /\ Append(q, e)[Len(q) + 1] = e
         /\ q \o <<e>> = Append(q, e)
  OBVIOUS

\* An empty queue, of anything, on either side of another.
LEMMA EmptyFacts ==
  ASSUME NEW S, NEW q \in Seq(S)
  PROVE  <<>> \in Seq(S) /\ Len(<<>>) = 0 /\ q \o <<>> = q /\ <<>> \o q = q
  OBVIOUS

\* A queue of one.
LEMMA OneFacts ==
  ASSUME NEW S, NEW e \in S
  PROVE  <<e>> \in Seq(S) /\ Len(<<e>>) = 1 /\ <<e>> # <<>> /\ Append(<<>>, e) = <<e>>
  OBVIOUS

\* TypeOK without its Boolean registers.
DataOK ==
  /\ pc \in Pcs /\ i \in 0 .. NChars
  /\ fifo \in Seq(1 .. NChars) /\ packet \in Seq(1 .. NChars) /\ out \in Seq(1 .. NChars)
BitsOK ==
  stale \in BOOLEAN /\ inEmpty \in BOOLEAN /\ inFlush \in BOOLEAN /\ attached \in BOOLEAN

\* The invariant in these two parts.
LEMMA Parts == UsbIInv <=> DataOK /\ BitsOK /\ OneInv /\ LoopInv
  BY DEF UsbIInv, TypeOK, DataOK, BitsOK

DataInv == DataOK /\ OneInv /\ LoopInv

\* What the driver's step is to the program above it.
Outcome ==
  \/ Put' = Put + 1 /\ Put < NChars /\ Put - Len(out) < 1 /\ out' = out
  \/ Put' = Put /\ Len(out) < Put /\ out' = Append(out, Len(out) + 1)
  \/ Put' = Put /\ out' = out

\* The steps that move the CPU on and nothing else: the waits and the clearing.
LEMMA CpuMoves ==
  ASSUME DataInv, WaitFree \/ PollEmpty \/ ClearInt
  PROVE  DataInv' /\ Put' = Put /\ out' = out
  <1>1. /\ UNCHANGED <<fifo, packet, out, stale>>
        /\ \/ pc = "wait" /\ pc' = "write" /\ i' = i /\ packet = <<>> /\ ~stale
           \/ pc = "poll" /\ pc' = "clear" /\ i' = i
           \/ pc = "clear" /\ i' = i + 1 /\ pc' = (IF i + 1 < NChars THEN "wait" ELSE "hang")
    BY DEF WaitFree, PollEmpty, ClearInt, Goto, endpoint, DataFree, Uncollected
  <1>2. i' \in 0 .. NChars /\ pc' \in Pcs
    BY <1>1 DEF DataInv, DataOK, LoopInv, Pcs
  <1>3. Put' = Put
    BY <1>1 DEF Put, DataInv, DataOK
  <1>4. LoopInv'
    BY <1>1 DEF LoopInv, DataInv, DataOK
  <1>5. OneInv'
    BY <1>1, <1>3 DEF OneInv, DataInv
  <1>. QED
    BY <1>1, <1>2, <1>3, <1>4, <1>5 DEF DataInv, DataOK

\* A character is written only when the one before it is with the host.
LEMMA Written ==
  ASSUME DataInv, WriteByte
  PROVE  /\ DataInv'
         /\ Put' = Put + 1 /\ Put < NChars /\ Put - Len(out) < 1 /\ out' = out
  <1>1. /\ pc = "write" /\ i < NChars /\ i + 1 \in 1 .. NChars
        /\ fifo = <<>> /\ packet = <<>> /\ ~stale
        /\ Put = i /\ Len(out) = i
    <2>1. pc = "write" /\ i < NChars /\ i + 1 \in 1 .. NChars
      BY DEF WriteByte, DataInv, LoopInv, DataOK
    <2>2. fifo = <<>> /\ packet = <<>> /\ ~stale
      BY <2>1 DEF DataInv, OneInv
    <2>3. Put = i
      BY <2>1 DEF Put
    <2>4. Len(out) = i - 0 - 0
      BY <2>2, <2>3, EmptyFacts DEF DataInv, OneInv
    <2>. QED
      BY <2>1, <2>2, <2>3, <2>4 DEF DataInv, DataOK
  <1>2. DataFree
    BY <1>1, EmptyFacts DEF DataFree, Uncollected
  <1>3. /\ fifo' = <<i + 1>> /\ pc' = "done"
        /\ UNCHANGED <<i, packet, stale, out>>
    BY <1>1, <1>2, OneFacts DEF WriteByte, Goto
  <1>4. fifo' \in Seq(1 .. NChars) /\ Len(fifo') = 1
    BY <1>1, <1>3, OneFacts
  <1>5. DataOK' /\ LoopInv'
    BY <1>1, <1>3, <1>4 DEF DataInv, DataOK, LoopInv, Pcs
  <1>6. Put' = i + 1
    BY <1>3 DEF Put
  <1>7. OneInv'
    <2>1. Len(packet') = 0
      BY <1>1, <1>3, EmptyFacts
    <2>2. Len(out') = Put' - Len(fifo') - Len(packet')
      BY <1>1, <1>3, <1>4, <1>6, <2>1 DEF DataInv, DataOK
    <2>. QED
      BY <1>1, <1>3, <2>2 DEF DataInv, OneInv
  <1>. QED
    BY <1>1, <1>3, <1>5, <1>6, <1>7 DEF DataInv, DataOK

\* It is handed over alone.
LEMMA HandedOver ==
  ASSUME DataInv, WriteDone
  PROVE  DataInv' /\ Put' = Put /\ out' = out
  <1>1. /\ pc = "done" /\ i < NChars /\ i + 1 \in 1 .. NChars
        /\ fifo = <<i + 1>> /\ packet = <<>> /\ Put = i + 1
    BY DEF WriteDone, DataInv, LoopInv, DataOK, OneInv, Put
  <1>2. /\ packet' = <<i + 1>> /\ fifo' = <<>> /\ pc' = "poll"
        /\ UNCHANGED <<i, stale, out>>
    BY <1>1, EmptyFacts, OneFacts DEF WriteDone, Goto
  <1>3. /\ packet' \in Seq(1 .. NChars) /\ Len(packet') = 1 /\ Len(packet) = 0
        /\ fifo' \in Seq(1 .. NChars) /\ Len(fifo') = 0 /\ Len(fifo) = 1
    BY <1>1, <1>2, OneFacts, EmptyFacts
  <1>4. Put' = i + 1
    BY <1>2 DEF Put
  <1>5. DataOK' /\ LoopInv'
    BY <1>1, <1>2, <1>3 DEF DataInv, DataOK, LoopInv, Pcs
  <1>6. OneInv'
    <2>1. Len(out') = Put' - Len(fifo') - Len(packet')
      BY <1>1, <1>2, <1>3, <1>4 DEF DataInv, DataOK, OneInv
    <2>. QED
      BY <1>2, <1>4, <2>1 DEF DataInv, OneInv
  <1>. QED
    BY <1>1, <1>2, <1>4, <1>5, <1>6 DEF DataInv

\* What the host collects is nothing of the program's, or its next character.
LEMMA Collected ==
  ASSUME DataInv, HostCollects
  PROVE  /\ DataInv'
         /\ Put' = Put
         /\ \/ out' = out
            \/ Len(out) < Put /\ out' = Append(out, Len(out) + 1)
  <1>1. /\ UNCHANGED <<pc, i, fifo>> /\ packet' = <<>> /\ stale' = FALSE
        /\ out' = out \o packet
    BY DEF HostCollects, cpu
  <1>2. Put' = Put /\ Put \in Nat
    BY <1>1 DEF Put, DataInv, DataOK
  <1>3. <<>> \in Seq(1 .. NChars) /\ Len(packet') = 0 /\ Len(out) \in Nat
    BY <1>1, EmptyFacts DEF DataInv, DataOK
  <1>4. CASE packet = <<>>
    <2>1. out' = out /\ Len(packet) = 0
      BY <1>1, <1>4, EmptyFacts DEF DataInv, DataOK
    <2>2. DataOK' /\ LoopInv'
      BY <1>1, <1>3, <2>1 DEF DataInv, DataOK, LoopInv
    <2>3. OneInv'
      BY <1>1, <1>2, <1>3, <2>1, <1>4 DEF DataInv, OneInv
    <2>4. DataInv'
      BY <2>2, <2>3 DEF DataInv
    <2>. QED
      BY <1>2, <2>1, <2>4
  <1>5. CASE packet = <<Put>>
    <2>1. Put \in 1 .. NChars
      <3>1. pc \notin {"write", "done"}
        BY <1>5 DEF DataInv, OneInv
      <3>2. Put \in 0 .. NChars
        BY DEF DataInv, LoopInv, Put, DataOK, Pcs
      <3>3. fifo = <<>> /\ Len(fifo) = 0 /\ Len(packet) = 1
        BY <3>1, <1>5, EmptyFacts DEF DataInv, OneInv
      <3>. QED
        BY <1>3, <3>2, <3>3 DEF DataInv, OneInv
    <2>2. Len(packet) = 1 /\ Len(fifo) = 0
      BY <1>5, EmptyFacts DEF DataInv, OneInv
    <2>3. Put = Len(out) + 1
      BY <1>2, <1>3, <2>2 DEF DataInv, OneInv
    <2>4. /\ out' = Append(out, Len(out) + 1)
          /\ out' \in Seq(1 .. NChars) /\ Len(out') = Len(out) + 1
          /\ \A k \in 1 .. Len(out) : out'[k] = out[k]
          /\ out'[Len(out) + 1] = Len(out) + 1
      BY <1>1, <1>5, <2>1, <2>3, AppendFacts DEF DataInv, DataOK
    <2>5. \A k \in 1 .. Len(out') : out'[k] = k
      <3>1. ASSUME NEW k \in 1 .. Len(out') PROVE k \in 1 .. Len(out) \/ k = Len(out) + 1
        BY <1>3, <2>4
      <3>. QED
        BY <2>4, <3>1 DEF DataInv, OneInv
    <2>6. DataOK' /\ LoopInv'
      BY <1>1, <1>3, <2>4 DEF DataInv, DataOK, LoopInv
    <2>7. OneInv'
      <3>1. Len(fifo') = 0
        BY <1>1, <2>2
      <3>2. Len(out') = Put' - Len(fifo') - Len(packet')
        BY <1>2, <1>3, <2>3, <2>4, <3>1
      <3>. QED
        BY <1>1, <2>5, <3>2 DEF DataInv, OneInv
    <2>. QED
      BY <1>2, <1>3, <2>3, <2>4, <2>6, <2>7 DEF DataInv
  <1>. QED
    BY <1>4, <1>5 DEF DataInv, OneInv

\* Every step keeps the invariant and is a put, a delivery or nothing.
LEMMA DataStep == DataInv /\ [Next]_vars => DataInv' /\ Outcome
  <1>. SUFFICES ASSUME DataInv, [Next]_vars PROVE DataInv' /\ Outcome
    OBVIOUS
  <1>1. CASE WaitFree \/ PollEmpty \/ ClearInt
    BY <1>1, CpuMoves DEF Outcome
  <1>2. CASE WriteByte
    BY <1>2, Written DEF Outcome
  <1>3. CASE WriteDone
    BY <1>3, HandedOver DEF Outcome
  <1>4. CASE HostCollects
    BY <1>4, Collected DEF Outcome
  <1>5. CASE Plug \/ UNCHANGED vars
    <2>1. UNCHANGED <<pc, i, fifo, packet, stale, out>>
      BY <1>5 DEF Plug, vars, cpu, endpoint
    <2>. QED
      BY <2>1 DEF DataInv, DataOK, OneInv, LoopInv, Put, Outcome
  <1>. QED
    BY <1>1, <1>2, <1>3, <1>4, <1>5 DEF Next, CpuStep

\* The registers stay Boolean.
LEMMA BitsStep == BitsOK /\ [Next]_vars => BitsOK'
  BY Zenon DEF BitsOK, Next, CpuStep, WaitFree, WriteByte, WriteDone, PollEmpty, ClearInt,
               HostCollects, Plug, vars, cpu, endpoint

\* Nothing is on its way when main starts, whatever the ROM's packet.
LEMMA InitInv == Init => UsbIInv
  <1>. SUFFICES ASSUME Init PROVE UsbIInv
    OBVIOUS
  <1>1. DataOK /\ LoopInv
    BY EmptyFacts DEF Init, DataOK, LoopInv, Pcs
  <1>2. Put = 0 /\ Len(<<>>) = 0
    BY DEF Init, Put
  <1>3. OneInv
    <2>1. pc \notin {"write", "done"} /\ fifo = <<>> /\ packet = <<>> /\ out = <<>>
      BY DEF Init
    <2>2. Len(out) = 0 /\ Len(fifo) = 0 /\ Len(packet) = 0
      BY <1>2, <2>1
    <2>3. \A k \in 1 .. Len(out) : out[k] = k
      BY <2>2
    <2>4. Len(out) = Put - Len(fifo) - Len(packet)
      BY <1>2, <2>2
    <2>. QED
      BY <2>1, <2>3, <2>4, Zenon DEF OneInv
  <1>4. BitsOK
    BY DEF Init, BitsOK
  <1>. QED
    BY <1>1, <1>3, <1>4, Parts

\* The inductive invariant holds of every behaviour.
THEOREM Invariant == Spec => []UsbIInv
  <1>1. UsbIInv /\ [Next]_vars => DataInv' /\ BitsOK'
    BY Parts, DataStep, BitsStep DEF DataInv
  <1>2. UsbIInv /\ [Next]_vars => UsbIInv'
    BY <1>1 DEF DataInv, UsbIInv, TypeOK, DataOK, BitsOK
  <1>. QED
    BY InitInv, <1>2, PTL DEF Spec

\* The driver implements the safety of CharOut with room for one character: what the
\* host has is what was put, in order, or all of it but the last.
THEOREM InOrder == Spec => DeliversInOrder
  <1>1. Init => Promise!Init
    BY DEF Init, Promise!Init, Put
  <1>2. UsbIInv /\ [Next]_vars => [Promise!Next]_(Promise!vars)
    BY Parts, DataStep
       DEF DataInv, Outcome, Promise!Next, Promise!Put, Promise!Deliver, Promise!vars
  <1>. QED
    BY <1>1, <1>2, Invariant, PTL DEF Spec, DeliversInOrder, Promise!Safe
=============================================================================
