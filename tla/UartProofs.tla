----------------------------- MODULE UartProofs -----------------------------
(***************************************************************************)
(* The UART driver keeps its promise for every text, every FIFO and every  *)
(* threshold.                                                              *)
(***************************************************************************)
EXTENDS Uart, TLAPS

USE UartAssumption DEF UartAssumption

\* A queue that is appended to.
LEMMA AppendFacts ==
  ASSUME NEW S, NEW q \in Seq(S), NEW e \in S
  PROVE  /\ Append(q, e) \in Seq(S)
         /\ Len(q) \in Nat /\ Len(Append(q, e)) = Len(q) + 1
         /\ \A k \in 1 .. Len(q) : Append(q, e)[k] = q[k]
         /\ Append(q, e)[Len(q) + 1] = e
  OBVIOUS

\* A queue whose head is taken.
LEMMA TailFacts ==
  ASSUME NEW S, NEW q \in Seq(S), q # <<>>
  PROVE  /\ Head(q) = q[1] /\ Head(q) \in S
         /\ Tail(q) \in Seq(S)
         /\ Len(q) \in Nat /\ Len(q) >= 1 /\ Len(Tail(q)) = Len(q) - 1
         /\ \A k \in 1 .. Len(q) - 1 : Tail(q)[k] = q[k + 1]
  OBVIOUS

\* An empty queue, of anything.
LEMMA EmptyFacts == ASSUME NEW S PROVE <<>> \in Seq(S) /\ Len(<<>>) = 0
  OBVIOUS

\* TypeOK without its Boolean registers, which nothing else is about.
DataOK ==
  /\ pc \in Pcs /\ i \in 0 .. NChars
  /\ old \in 0 .. Leftover
  /\ fifo \in Seq(1 .. NChars) /\ out \in Seq(1 .. NChars)
BitsOK == update \in BOOLEAN /\ ena \in BOOLEAN /\ raw \in BOOLEAN

DataInv == DataOK /\ OrderInv /\ RoomInv /\ FreshEmpty /\ LoopInv

\* The invariant in these two parts.
LEMMA Parts == UartIInv <=> DataInv /\ BitsOK
  BY DEF UartIInv, DataInv, TypeOK, DataOK, BitsOK

\* The steps of the CPU that leave the FIFO and the line alone.
LEMMA QuietStep ==
  ASSUME DataInv, WaitForUpdate \/ Loop \/ DisableInt \/ EnableInt \/ ClearInt \/ Poll
  PROVE  DataInv'
  <1>0. /\ UNCHANGED <<old, fifo, out>>
        /\ Held \in Nat /\ Held' = Held
    BY DEF DataInv, DataOK, WaitForUpdate, Loop, DisableInt, EnableInt, ClearInt, Poll, Held
  <1>1. CASE WaitForUpdate
    BY <1>0, <1>1 DEF DataInv, DataOK, OrderInv, RoomInv, FreshEmpty, LoopInv,
                      WaitForUpdate, Goto, Put, Pcs
  <1>2. CASE Loop
    BY <1>0, <1>2 DEF DataInv, DataOK, OrderInv, RoomInv, FreshEmpty, LoopInv,
                      Loop, Goto, Put, Pcs
  <1>3. CASE DisableInt
    BY <1>0, <1>3 DEF DataInv, DataOK, OrderInv, RoomInv, FreshEmpty, LoopInv,
                      DisableInt, Goto, Put, Pcs
  <1>4. CASE EnableInt
    BY <1>0, <1>4 DEF DataInv, DataOK, OrderInv, RoomInv, FreshEmpty, LoopInv,
                      EnableInt, Goto, Put, Pcs
  <1>5. CASE ClearInt
    BY <1>0, <1>5 DEF DataInv, DataOK, OrderInv, RoomInv, FreshEmpty, LoopInv,
                      ClearInt, Goto, Put, Pcs
  <1>6. CASE Poll
    BY <1>0, <1>6 DEF DataInv, DataOK, OrderInv, RoomInv, FreshEmpty, LoopInv,
                      Poll, Goto, Put, Pcs
  <1>. QED
    BY <1>1, <1>2, <1>3, <1>4, <1>5, <1>6

\* A written character finds room and is the next in order.
LEMMA WriteStep == DataInv /\ WriteFifo => DataInv' /\ Held < Cap
  <1>. SUFFICES ASSUME DataInv, WriteFifo PROVE DataInv' /\ Held < Cap
    OBVIOUS
  <1>1. pc = "write" /\ Held < Cap /\ i < NChars /\ i + 1 \in 1 .. NChars
    BY DEF DataInv, DataOK, RoomInv, LoopInv, Pcs, WriteFifo
  <1>2. /\ fifo' = Append(fifo, i + 1)
        /\ pc' = "clear" /\ UNCHANGED <<i, update, ena, raw, old, out>>
    BY <1>1 DEF WriteFifo, Goto
  <1>3. /\ fifo' \in Seq(1 .. NChars) /\ Len(fifo) \in Nat /\ Len(fifo') = Len(fifo) + 1
        /\ \A k \in 1 .. Len(fifo) : fifo'[k] = fifo[k]
        /\ fifo'[Len(fifo) + 1] = i + 1
    BY <1>1, <1>2, AppendFacts DEF DataInv, DataOK
  <1>4. DataOK' /\ RoomInv' /\ FreshEmpty' /\ LoopInv'
    BY <1>1, <1>2, <1>3 DEF DataInv, DataOK, RoomInv, FreshEmpty, LoopInv, Pcs
  <1>5. Put = i /\ Put' = i + 1 /\ Len(out) \in Nat
    BY <1>1, <1>2 DEF Put, DataInv, DataOK
  <1>6. i = Len(out) + Len(fifo)
    BY <1>5 DEF DataInv, OrderInv
  <1>7. \A k \in 1 .. Len(fifo') : fifo'[k] = Len(out) + k
    <2>1. ASSUME NEW k \in 1 .. Len(fifo') PROVE k \in 1 .. Len(fifo) \/ k = Len(fifo) + 1
      BY <1>3
    <2>2. \A k \in 1 .. Len(fifo) : fifo'[k] = Len(out) + k
      BY <1>3 DEF DataInv, OrderInv
    <2>3. fifo'[Len(fifo) + 1] = Len(out) + (Len(fifo) + 1)
      BY <1>3, <1>5, <1>6
    <2>. QED
      BY <2>1, <2>2, <2>3
  <1>8. OrderInv'
    BY <1>2, <1>3, <1>5, <1>6, <1>7 DEF DataInv, OrderInv
  <1>. QED
    BY <1>1, <1>4, <1>8 DEF DataInv

\* What Shift does to the program's characters.
Shifts ==
  /\ fifo # <<>>
  /\ out' = Append(out, Head(fifo)) /\ fifo' = Tail(fifo)
  /\ UNCHANGED <<old, cpu, raw>>

\* A character that is shifted out is the next one due on the line.
LEMMA ShiftFacts ==
  ASSUME DataInv, Shifts
  PROVE  /\ out' = Append(out, Len(out) + 1) /\ Len(out) < Put
         /\ DataInv'
  <1>1. /\ Head(fifo) = fifo[1] /\ Head(fifo) \in 1 .. NChars
        /\ fifo' \in Seq(1 .. NChars)
        /\ Len(fifo) \in Nat /\ Len(fifo) >= 1 /\ Len(fifo') = Len(fifo) - 1
        /\ \A k \in 1 .. Len(fifo) - 1 : fifo'[k] = fifo[k + 1]
    BY TailFacts DEF Shifts, DataInv, DataOK
  <1>2. /\ out' \in Seq(1 .. NChars)
        /\ Len(out) \in Nat /\ Len(out') = Len(out) + 1
        /\ \A k \in 1 .. Len(out) : out'[k] = out[k]
        /\ out'[Len(out) + 1] = Head(fifo)
    BY <1>1, AppendFacts DEF Shifts, DataInv, DataOK
  <1>3. Head(fifo) = Len(out) + 1
    BY <1>1 DEF DataInv, OrderInv
  <1>4. Put = Len(out) + Len(fifo) /\ Put' = Put
    BY DEF DataInv, OrderInv, Put, Shifts, cpu
  <1>5. DataOK' /\ LoopInv'
    BY <1>1, <1>2 DEF DataInv, DataOK, LoopInv, Shifts, cpu
  <1>6. Held \in Nat /\ Held' < Held
    BY <1>1 DEF Held, Shifts, DataInv, DataOK
  <1>7. RoomInv' /\ FreshEmpty'
    <2>1. (Held < Cap => Held' < Cap) /\ (Held < Threshold => Held' < Threshold)
      BY <1>1, <1>6 DEF Held, Shifts, DataInv, DataOK
    <2>2. UNCHANGED <<pc, raw>>
      BY DEF Shifts, cpu
    <2>. QED
      BY <2>1, <2>2, Zenon DEF DataInv, RoomInv, FreshEmpty
  <1>8. \A k \in 1 .. Len(out') : out'[k] = k
    <2>1. ASSUME NEW k \in 1 .. Len(out') PROVE k \in 1 .. Len(out) \/ k = Len(out) + 1
      BY <1>2
    <2>. QED
      BY <1>2, <1>3, <2>1 DEF DataInv, OrderInv
  <1>9. \A k \in 1 .. Len(fifo') : fifo'[k] = Len(out') + k
    <2>1. ASSUME NEW k \in 1 .. Len(fifo')
          PROVE  k + 1 \in 1 .. Len(fifo) /\ fifo'[k] = fifo[k + 1]
      BY <1>1
    <2>. QED
      BY <1>2, <2>1 DEF DataInv, OrderInv
  <1>10. OrderInv'
    BY <1>1, <1>2, <1>4, <1>8, <1>9 DEF OrderInv
  <1>. QED
    BY <1>1, <1>2, <1>3, <1>4, <1>5, <1>7, <1>10 DEF DataInv, Shifts

\* The steps of the transmitter, and stuttering, other than a shift of the program's
\* characters.
LEMMA RestStep ==
  ASSUME DataInv, UNCHANGED <<cpu, fifo, out>>,
         \/ old' = old /\ raw' = raw
         \/ old > 0 /\ old' = old - 1 /\ raw' = raw
         \/ old' = old /\ Held < Threshold
  PROVE  DataInv'
  <1>1. Held \in Nat /\ Held' \in Nat /\ Held' <= Held
    BY DEF Held, DataInv, DataOK
  <1>2. DataOK' /\ LoopInv' /\ OrderInv'
    BY DEF DataInv, DataOK, LoopInv, OrderInv, Put, cpu
  <1>3. RoomInv'
    BY <1>1 DEF DataInv, RoomInv, cpu
  <1>4. FreshEmpty'
    <2>1. Held < Threshold => Held' < Threshold
      BY <1>1
    <2>2. pc' = pc /\ (raw' = raw \/ Held < Threshold)
      BY DEF cpu
    <2>. QED
      BY <2>1, <2>2, Zenon DEF DataInv, FreshEmpty
  <1>. QED
    BY <1>2, <1>3, <1>4 DEF DataInv

\* What the driver's step is to the program above it.
Outcome ==
  \/ Put' = Put + 1 /\ Put < NChars /\ Put - Len(out) < Cap /\ out' = out
  \/ Put' = Put /\ Len(out) < Put /\ out' = Append(out, Len(out) + 1)
  \/ Put' = Put /\ out' = out

\* Every step keeps the invariant and is a put, a delivery or nothing.
LEMMA DataStep == DataInv /\ [Next]_vars => DataInv' /\ Outcome
  <1>. SUFFICES ASSUME DataInv, [Next]_vars PROVE DataInv' /\ Outcome
    OBVIOUS
  <1>1. CASE WaitForUpdate \/ Loop \/ DisableInt \/ EnableInt \/ ClearInt \/ Poll
    <2>1. Put' = Put /\ out' = out
      BY <1>1 DEF WaitForUpdate, Loop, DisableInt, EnableInt, ClearInt, Poll, Put, Goto,
                  DataInv, DataOK, Pcs
    <2>. QED
      BY <1>1, <2>1, QuietStep DEF Outcome
  <1>2. CASE WriteFifo
    <2>1. Put = i /\ Put' = i + 1 /\ i < NChars /\ out' = out
      BY <1>2 DEF WriteFifo, Put, Goto, DataInv, LoopInv, DataOK, Pcs
    <2>2. Put - Len(out) < Cap
      <3>1. Put = Len(out) + Len(fifo) /\ Len(out) \in Nat /\ Len(fifo) \in Nat /\ old \in Nat
        BY DEF DataInv, OrderInv, DataOK
      <3>. QED
        BY <1>2, <3>1, WriteStep DEF Held
    <2>. QED
      BY <1>2, <2>1, <2>2, WriteStep DEF Outcome
  <1>3. CASE Shift
    <2>1. CASE old > 0 /\ old' = old - 1 /\ UNCHANGED <<fifo, out>>
      BY <1>3, <2>1, RestStep DEF Shift, Outcome, Put, cpu
    <2>2. CASE Shifts
      <3>1. Put' = Put
        BY <2>2 DEF Shifts, cpu, Put
      <3>. QED
        BY <2>2, <3>1, ShiftFacts DEF Outcome
    <2>. QED
      BY <1>3, <2>1, <2>2 DEF Shift, Shifts, cpu
  <1>4. CASE RaiseEmpty \/ Updated \/ UNCHANGED vars
    <2>1. /\ UNCHANGED <<cpu, fifo, out, old>>
          /\ raw' = raw \/ Held < Threshold
      BY <1>4 DEF RaiseEmpty, Updated, vars
    <2>. QED
      BY <2>1, RestStep DEF Outcome, Put, cpu
  <1>. QED
    BY <1>1, <1>2, <1>3, <1>4 DEF Next, CpuStep, Done

\* The registers stay Boolean.
LEMMA BitsStep == BitsOK /\ [Next]_vars => BitsOK'
  BY Zenon DEF BitsOK, Next, CpuStep, WaitForUpdate, Loop, DisableInt, WriteFifo, ClearInt,
         EnableInt, Poll, Updated, Shift, RaiseEmpty, Done, vars

\* Before main starts there is room for a character, whatever the ROM left.
LEMMA InitInv == Init => UartIInv
  <1>. SUFFICES ASSUME Init PROVE UartIInv
    OBVIOUS
  <1>1. DataOK /\ LoopInv /\ FreshEmpty
    BY EmptyFacts DEF Init, DataOK, Pcs, LoopInv, FreshEmpty
  <1>2. OrderInv /\ RoomInv
    BY EmptyFacts DEF Init, OrderInv, RoomInv, Put, Held
  <1>3. BitsOK
    BY DEF Init, BitsOK
  <1>. QED
    BY <1>1, <1>2, <1>3, Parts DEF DataInv

\* The inductive invariant holds of every behaviour.
THEOREM Invariant == Spec => []UartIInv
  <1>1. UartIInv /\ [Next]_vars => UartIInv'
    <2>1. UartIInv /\ [Next]_vars => DataInv' /\ BitsOK'
      BY Parts, DataStep, BitsStep
    <2>. QED
      BY <2>1 DEF UartIInv, DataInv, TypeOK, DataOK, BitsOK
  <1>. QED
    BY InitInv, <1>1, PTL DEF Spec

\* No character is written to a full FIFO.
THEOREM NeverOverrun == Spec => []NoOverrun
  <1>1. UartIInv => NoOverrun
    BY DEF UartIInv, RoomInv, NoOverrun
  <1>. QED
    BY <1>1, Invariant, PTL

\* The driver implements the safety of CharOut: what comes out is a prefix of what was
\* put, in order, and at most Cap characters behind it.
THEOREM Refines == Spec => Promise!Safe
  <1>1. Init => Promise!Init
    BY DEF Init, Promise!Init, Put
  <1>2. UartIInv /\ [Next]_vars => [Promise!Next]_(Promise!vars)
    BY Parts, DataStep
       DEF Outcome, Promise!Next, Promise!Put, Promise!Deliver, Promise!vars
  <1>. QED
    BY <1>1, <1>2, Invariant, PTL DEF Spec, Promise!Safe
=============================================================================
