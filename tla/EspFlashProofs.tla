--------------------------- MODULE EspFlashProofs ---------------------------
(***************************************************************************)
(* The safety of `espctl flash` for every image, every number of attempts  *)
(* and every set of faults.                                                *)
(***************************************************************************)
EXTENDS EspFlash, TLAPS

\* What the proofs need of the constants.
LEMMA Sizes ==
  /\ NBlocks \in Nat
  /\ MaxAttempts \in Nat \ {0}
  /\ SyncReplies \in Nat \ {0}
  /\ BootLines \in Nat
  BY EspAssumption DEF EspAssumption

USE Sizes DEF Blocks, Stale, Erased

\* An empty queue is a queue of anything.
LEMMA EmptyFacts ==
  ASSUME NEW S PROVE <<>> \in Seq(S) /\ Len(<<>>) = 0
  OBVIOUS

\* An element appended to a queue is its last; the others keep their places.
LEMMA AppendFacts ==
  ASSUME NEW S, NEW q \in Seq(S), NEW e \in S
  PROVE  /\ Append(q, e) \in Seq(S)
         /\ Len(Append(q, e)) = Len(q) + 1
         /\ \A i \in 1 .. Len(q) : Append(q, e)[i] = q[i]
         /\ Append(q, e)[Len(q) + 1] = e
  OBVIOUS

\* Taking the head of a queue moves every other element one place forward.
LEMMA TailFacts ==
  ASSUME NEW S, NEW q \in Seq(S), q # <<>>
  PROVE  /\ Head(q) = q[1] /\ Head(q) \in S
         /\ Tail(q) \in Seq(S)
         /\ Len(q) \in Nat /\ Len(q) >= 1
         /\ Len(Tail(q)) = Len(q) - 1
         /\ \A i \in 1 .. Len(q) - 1 : Tail(q)[i] = q[i + 1]
  OBVIOUS

\* Frames that reach the host go to the end of its queue.
LEMMA ConcatFacts ==
  ASSUME NEW S, NEW q \in Seq(S), NEW r \in Seq(S)
  PROVE  /\ q \o r \in Seq(S)
         /\ Len(q \o r) = Len(q) + Len(r)
         /\ \A i \in 1 .. Len(q) : (q \o r)[i] = q[i]
         /\ \A i \in Len(q) + 1 .. Len(q \o r) : (q \o r)[i] = r[i - Len(q)]
  OBVIOUS

-----------------------------------------------------------------------------
(* Type correctness.                                                       *)

\* TypeOK in three parts.  The bound of attempt needs TryInv to be inductive.
ScalarsOK ==
  /\ pc \in Pcs
  /\ attempt \in 0 .. MaxAttempts /\ TryInv
  /\ seq \in Nat /\ sliced \in Nat
  /\ outcome \in Outcomes
  /\ mode \in {"app", "download"}
  /\ lines \in Nat
  /\ flash \in [Blocks -> {Stale, Erased} \cup Nat]
QueuesOK == toRom \in Seq(Request) /\ toHost \in Seq(Frame)
FlagsOK ==
  /\ plugged \in BOOLEAN /\ begun \in BOOLEAN
  /\ ended \in BOOLEAN /\ refused \in BOOLEAN /\ lost \in BOOLEAN

\* The three parts make up TypeOK.
LEMMA TypeParts == TypeOK /\ TryInv <=> ScalarsOK /\ QueuesOK /\ FlagsOK
  BY DEF TypeOK, ScalarsOK, QueuesOK, FlagsOK

\* The host changes what is on its way to it only by reading the first frame.
LEMMA HostReads ==
  HostStep => \/ toHost' = toHost
              \/ toHost # <<>> /\ toHost' = Tail(toHost)
  BY DEF HostStep, Open, OpenFails, EnterDownloadMode, FlushLine, FlushEnd, SendSync,
         SyncGivesUp, SyncRetries, SyncAnswered, Drain, SyncFails, SendAttach, SendBegin,
         SendData, SendEnd, Send, ResponseTimeout, ResponseArrives, ResponseInvalid,
         PortFails, ResetPulse

\* The host changes what is on its way to the chip only by sending one request or
\* by resetting the chip.
LEMMA HostSends ==
  ScalarsOK /\ HostStep => \/ toRom' = toRom
                           \/ toRom' = <<>>
                           \/ \E r \in Request : toRom' = Append(toRom, r)
  <1>. USE DEF SendCommand, Send, Request, Commands
  <1>1. SendSync => \E r \in Request : toRom' = Append(toRom, r)
    BY DEF SendSync
  <1>2. SendAttach => \E r \in Request : toRom' = Append(toRom, r)
    BY DEF SendAttach
  <1>3. SendBegin => \E r \in Request : toRom' = Append(toRom, r)
    BY DEF SendBegin
  <1>4. ScalarsOK /\ SendData => \E r \in Request : toRom' = Append(toRom, r)
    BY DEF SendData, ScalarsOK
  <1>5. SendEnd => \E r \in Request : toRom' = Append(toRom, r)
    BY DEF SendEnd
  <1>6. EnterDownloadMode \/ ResetPulse => toRom' = <<>>
    BY DEF EnterDownloadMode, ResetPulse
  <1>. QED
    BY <1>1, <1>2, <1>3, <1>4, <1>5, <1>6
       DEF HostStep, Open, OpenFails, FlushLine, FlushEnd, SyncGivesUp, SyncRetries,
           SyncAnswered, Drain, SyncFails, ResponseTimeout, ResponseArrives,
           ResponseInvalid, PortFails

\* Every action of the host keeps the types of the queues.
LEMMA HostQueues == ScalarsOK /\ QueuesOK /\ HostStep => QueuesOK'
  <1>1. QueuesOK /\ toHost # <<>> /\ toHost' = Tail(toHost) => toHost' \in Seq(Frame)
    BY TailFacts DEF QueuesOK
  <1>2. ASSUME QueuesOK, NEW r \in Request, toRom' = Append(toRom, r)
        PROVE  toRom' \in Seq(Request)
    BY <1>2, AppendFacts DEF QueuesOK
  <1>3. toRom' = <<>> => toRom' \in Seq(Request)
    BY EmptyFacts
  <1>. QED
    BY <1>1, <1>2, <1>3, HostReads, HostSends DEF QueuesOK

\* Every action of the host keeps the types of the scalars.
LEMMA HostScalars == ScalarsOK /\ HostStep => ScalarsOK'
  <1>. USE DEF ScalarsOK, TryInv, host, chip, Goto, Raise, Pcs, Body, Sending, Waiting, Finally,
               Outcomes
  <1>1. ScalarsOK /\ (Open \/ OpenFails) => ScalarsOK'
    BY DEF Open, OpenFails
  <1>2. ScalarsOK /\ EnterDownloadMode => ScalarsOK'
    BY DEF EnterDownloadMode
  <1>3. ScalarsOK /\ (FlushLine \/ FlushEnd) => ScalarsOK'
    BY DEF FlushLine, FlushEnd, AfterFlush
  <1>4. ScalarsOK /\ (SendSync \/ SyncGivesUp) => ScalarsOK'
    BY DEF SendSync, SyncGivesUp, AttemptsLeft
  <1>5. ScalarsOK /\ SyncRetries => ScalarsOK'
    BY DEF SyncRetries
  <1>6. ScalarsOK /\ (SyncAnswered \/ Drain \/ SyncFails) => ScalarsOK'
    BY DEF SyncAnswered, Drain, SyncFails
  <1>7. ScalarsOK /\ (SendAttach \/ SendBegin \/ SendData \/ SendEnd) => ScalarsOK'
    BY DEF SendAttach, SendBegin, SendData, SendEnd, Send
  <1>8. ScalarsOK /\ pc \in DOMAIN Awaited /\ Proceed =>
          pc' \in Pcs \ {"syncWait"} /\ seq' \in Nat /\ outcome' \in Outcomes
    <2>1. DOMAIN Awaited = {"attachWait", "beginWait", "dataWait", "endWait"}
      BY DEF Awaited
    <2>2. ScalarsOK /\ pc = "beginWait" /\ Proceed =>
            pc' \in {"data", "end"} /\ seq' \in Nat /\ outcome' = outcome
      BY DEF Proceed, NextBlock
    <2>3. ScalarsOK /\ pc = "dataWait" /\ Proceed =>
            pc' \in {"data", "end"} /\ seq' \in Nat /\ outcome' = outcome
      BY DEF Proceed, NextBlock
    <2>4. ScalarsOK /\ pc \in {"attachWait", "endWait"} /\ Proceed =>
            pc' \in {"begin", "reset"} /\ seq' = seq /\ outcome' \in {outcome, "clean"}
      BY DEF Proceed
    <2>. QED
      BY <2>1, <2>2, <2>3, <2>4
  <1>9. ScalarsOK /\ (ResponseTimeout \/ ResponseArrives) => ScalarsOK'
    <2>1. ResponseTimeout \/ ResponseArrives =>
            /\ pc \in DOMAIN Awaited /\ Proceed
            /\ UNCHANGED <<attempt, sliced, mode, lines, flash>>
      BY DEF ResponseTimeout, ResponseArrives
    <2>. QED
      BY <1>8, <2>1
  <1>10. ScalarsOK /\ ResponseInvalid => ScalarsOK'
    BY DEF ResponseInvalid
  <1>11. ScalarsOK /\ (PortFails \/ ResetPulse) => ScalarsOK'
    BY DEF PortFails, ResetPulse
  <1>. QED
    BY <1>1, <1>2, <1>3, <1>4, <1>5, <1>6, <1>7, <1>9, <1>10, <1>11 DEF HostStep

\* Frames that reach the host are frames.
LEMMA ArrivalType ==
  ASSUME QueuesOK, NEW fs \in Seq(Frame), ToHost(fs) PROVE toHost' \in Seq(Frame)
  BY ConcatFacts DEF QueuesOK, ToHost

\* What the ROM answers, whole or cut short, is a frame for the host.
LEMMA AnswerType ==
  ASSUME QueuesOK, NEW c \in Commands, NEW ok \in BOOLEAN, Answer(c, ok)
  PROVE  toHost' \in Seq(Frame)
  <1>1. <<Reply(c, ok)>> \in Seq(Frame) /\ <<Junk>> \in Seq(Frame)
    BY DEF Reply, Junk, Frame
  <1>. QED
    BY <1>1, ArrivalType DEF Answer

\* Taking a request leaves requests in the queue.
LEMMA TakeType ==
  ASSUME QueuesOK, NEW c, RomTakes(c)
  PROVE  Head(toRom) \in Request /\ toRom' \in Seq(Request)
  BY TailFacts DEF QueuesOK, RomTakes

\* What the ROM does with each request.
LEMMA RomTaking ==
  /\ RomSync => RomTakes("SYNC")
  /\ RomAttach => RomTakes("ATTACH")
  /\ RomBegin => RomTakes("BEGIN")
  /\ RomData => RomTakes("DATA")
  /\ RomRefuses => \E c \in {"BEGIN", "DATA"} : RomTakes(c)
  /\ RomEnd => RomTakes("END")
  BY DEF RomSync, RomAttach, RomBegin, RomData, RomRefuses, RomEnd

\* Every action of the chip keeps the types of the queues.
LEMMA ChipQueues == QueuesOK /\ ChipStep => QueuesOK'
  <1>. SUFFICES ASSUME QueuesOK, ChipStep PROVE QueuesOK'
    OBVIOUS
  <1>1. toRom' \in Seq(Request)
    <2>1. ASSUME NEW c, RomTakes(c) PROVE toRom' \in Seq(Request)
      BY <2>1, TakeType
    <2>2. ChipPrints => toRom' \in Seq(Request)
      BY DEF ChipPrints, QueuesOK
    <2>. QED
      BY <2>1, <2>2, RomTaking DEF ChipStep
  <1>2. toHost' \in Seq(Frame)
    <2>1. ASSUME NEW c \in Commands, NEW ok \in BOOLEAN, Answer(c, ok)
          PROVE  toHost' \in Seq(Frame)
      BY <2>1, AnswerType
    <2>2. ASSUME NEW n \in 1 .. SyncReplies,
                 ToHost([i \in 1 .. n |-> Reply("SYNC", TRUE)])
          PROVE  toHost' \in Seq(Frame)
      <3>1. [i \in 1 .. n |-> Reply("SYNC", TRUE)] \in Seq(Frame)
        BY DEF Reply, Frame, Commands
      <3>. QED
        BY <2>2, <3>1, ArrivalType
    <2>3. ASSUME ToHost(<<Junk>>) \/ ToHost(<<Reply("SYNC", FALSE)>>)
          PROVE  toHost' \in Seq(Frame)
      <3>1. <<Junk>> \in Seq(Frame) /\ <<Reply("SYNC", FALSE)>> \in Seq(Frame)
        BY DEF Junk, Reply, Frame, Commands
      <3>. QED
        BY <2>3, <3>1, ArrivalType
    <2>4. RomSync \/ ChipPrints => toHost' \in Seq(Frame)
      BY <2>2, <2>3 DEF RomSync, ChipPrints
    <2>5. RomAttach \/ RomBegin \/ RomData \/ RomRefuses \/ RomEnd => toHost' \in Seq(Frame)
      BY <2>1 DEF RomAttach, RomBegin, RomData, RomRefuses, RomEnd, Commands
    <2>. QED
      BY <2>4, <2>5 DEF ChipStep
  <1>. QED
    BY <1>1, <1>2 DEF QueuesOK

\* Every action of the chip keeps the types of the scalars.
LEMMA ChipScalars == ScalarsOK /\ QueuesOK /\ ChipStep => ScalarsOK'
  <1>. USE DEF ScalarsOK, TryInv, host, chip
  <1>1. ScalarsOK /\ ChipPrints => ScalarsOK'
    BY DEF ChipPrints
  <1>2. ScalarsOK /\ (RomSync \/ RomAttach \/ RomRefuses) => ScalarsOK'
    BY DEF RomSync, RomAttach, RomRefuses
  <1>3. ScalarsOK /\ RomBegin => ScalarsOK'
    BY DEF RomBegin
  <1>4. ScalarsOK /\ QueuesOK /\ RomData => ScalarsOK'
    <2>1. QueuesOK /\ RomData => Head(toRom) \in Request
      BY TakeType, RomTaking
    <2>2. Head(toRom) \in Request => Head(toRom).block \in Nat
      BY DEF Request
    <2>. QED
      BY <2>1, <2>2 DEF RomData
  <1>5. ScalarsOK /\ RomEnd => ScalarsOK'
    BY DEF RomEnd
  <1>. QED
    BY <1>1, <1>2, <1>3, <1>4, <1>5 DEF ChipStep

\* Every step keeps the types of the flags.
LEMMA FlagsType == FlagsOK /\ [Next]_vars => FlagsOK'
  <1>. USE DEF FlagsOK, host, chip
  <1>1. FlagsOK /\ HostStep => FlagsOK'
    BY DEF HostStep, Open, OpenFails, EnterDownloadMode, FlushLine, FlushEnd, SendSync,
           SyncGivesUp, SyncRetries, SyncAnswered, Drain, SyncFails, SendAttach,
           SendBegin, SendData, SendEnd, Send, ResponseTimeout, ResponseArrives,
           ResponseInvalid, PortFails, ResetPulse
  <1>2. FlagsOK /\ ChipStep => FlagsOK'
    BY DEF ChipStep, ChipPrints, RomSync, RomAttach, RomBegin, RomData, RomRefuses, RomEnd
  <1>3. FlagsOK /\ (Lose \/ Unplug) => FlagsOK'
    BY DEF Lose, Unplug
  <1>4. FlagsOK /\ (Done \/ UNCHANGED vars) => FlagsOK'
    BY DEF Done, vars
  <1>. QED
    BY <1>1, <1>2, <1>3, <1>4 DEF Next

\* The types are inductive once the bound on attempt is.
LEMMA TypeStep == TypeOK /\ TryInv /\ [Next]_vars => TypeOK' /\ TryInv'
  <1>1. ScalarsOK /\ QueuesOK /\ (Lose \/ Unplug) => ScalarsOK' /\ QueuesOK'
    BY TailFacts DEF ScalarsOK, QueuesOK, TryInv, Lose, Unplug, host, chip
  <1>2. ScalarsOK /\ QueuesOK /\ (Done \/ UNCHANGED vars) => ScalarsOK' /\ QueuesOK'
    BY DEF Done, ScalarsOK, QueuesOK, TryInv, vars, host, chip
  <1>3. ScalarsOK /\ QueuesOK /\ [Next]_vars => ScalarsOK' /\ QueuesOK'
    BY <1>1, <1>2, HostScalars, HostQueues, ChipScalars, ChipQueues DEF Next
  <1>4. TypeOK' /\ TryInv' <=> ScalarsOK' /\ QueuesOK' /\ FlagsOK'
    BY DEF TypeOK, ScalarsOK, QueuesOK, FlagsOK
  <1>. QED
    BY <1>3, <1>4, TypeParts, FlagsType

\* The initial states have the types.
LEMMA TypeInit == Init => TypeOK /\ TryInv
  <1>1. Init => ScalarsOK
    BY DEF Init, ScalarsOK, TryInv, Pcs, Outcomes
  <1>2. Init => QueuesOK
    BY EmptyFacts DEF Init, QueuesOK
  <1>3. Init => FlagsOK
    BY DEF Init, FlagsOK
  <1>. QED
    BY <1>1, <1>2, <1>3, TypeParts

\* Whatever goes wrong, sync never counts past its attempts, and the host's
\* counters, the queues and the flash stay what the theorems below take them for.
THEOREM TypeCorrect == Spec => []TypeOK
  BY TypeInit, TypeStep, PTL DEF Spec

-----------------------------------------------------------------------------
(* The order of the requests.                                              *)

\* The place of each request, and that a block's place is its FLASH_DATA's only.
LEMMA RankFacts ==
  ASSUME NEW r \in Request
  PROVE  /\ Rank(r) \in Nat
         /\ r.cmd = "SYNC" => Rank(r) = 0
         /\ r.cmd = "ATTACH" => Rank(r) = 1
         /\ r.cmd = "BEGIN" => Rank(r) = 2
         /\ r.cmd = "DATA" => Rank(r) = 3 + r.seq
         /\ r.cmd = "END" => Rank(r) = 3 + NBlocks
         /\ \A b \in Blocks : Rank(r) = 3 + b => r.cmd = "DATA" /\ r.seq = b
  <1>1. r.cmd \in Commands /\ r.seq \in Nat
    BY DEF Request
  <1>. QED
    BY <1>1 DEF Rank, Commands

\* The place of the host's next request is a number.
LEMMA NextRankType == ScalarsOK => NextRank \in Nat /\ NextRank >= 1
  <1>. SUFFICES ASSUME ScalarsOK PROVE NextRank \in Nat /\ NextRank >= 1
    OBVIOUS
  <1>1. seq \in Nat /\ NBlocks \in Nat
    BY DEF ScalarsOK
  <1>. QED
    BY <1>1 DEF NextRank

\* No request comes after FLASH_END.
LEMMA NextRankTop == ScalarsOK /\ LoopInv => NextRank <= 4 + NBlocks
  BY DEF ScalarsOK, LoopInv, NextRank

\* What a step of the host may do to the queue and to its place in the order: go
\* on with the queue as it is, clear it, or send the request whose turn it is.
Keeps ==
  /\ toRom' \in {toRom, <<>>}
  /\ NextRank' \in Nat /\ NextRank' >= NextRank
  /\ Looping' => NextRank' = NextRank /\ (Looping \/ pc = "beginWait") /\ toRom' = toRom
Sends ==
  \E r \in Request :
    /\ toRom' = Append(toRom, r)
    /\ r.cmd = "DATA" => r.seq \in Blocks /\ r.block = r.seq
    /\ \/ Rank(r) = 0 /\ NextRank = 1 /\ NextRank' = 1
       \/ Rank(r) = NextRank /\ NextRank' = NextRank + 1
    /\ Looping' => Looping /\ Rank(r) = NextRank
    /\ Looping \/ Rank(r) <= 2

\* Requests are sent in the order of their ranks.
LEMMA SendStep ==
  ScalarsOK /\ LoopInv /\ (SendSync \/ SendAttach \/ SendBegin \/ SendData \/ SendEnd)
    => Sends
  <1>. SUFFICES ASSUME ScalarsOK, LoopInv,
                       SendSync \/ SendAttach \/ SendBegin \/ SendData \/ SendEnd
                PROVE  Sends
    OBVIOUS
  <1>. DEFINE Req(c, s, b) == [cmd |-> c, seq |-> s, block |-> b]
  <1>1. CASE SendSync
    <2>1. Req("SYNC", 0, 0) \in Request /\ Rank(Req("SYNC", 0, 0)) = 0
      BY DEF Request, Commands, Rank
    <2>2. pc = "sync" /\ pc' = "syncWait" /\ toRom' = Append(toRom, Req("SYNC", 0, 0))
      BY <1>1 DEF SendSync, SendCommand, Goto
    <2>. QED
      BY <2>1, <2>2 DEF Sends, NextRank, Looping
  <1>2. CASE SendAttach
    <2>1. Req("ATTACH", 0, 0) \in Request /\ Rank(Req("ATTACH", 0, 0)) = 1
      BY DEF Request, Commands, Rank
    <2>2. /\ pc = "attach" /\ pc' = "attachWait"
          /\ toRom' = Append(toRom, Req("ATTACH", 0, 0))
      BY <1>2 DEF SendAttach, Send, SendCommand, Goto
    <2>. QED
      BY <2>1, <2>2 DEF Sends, NextRank, Looping
  <1>3. CASE SendBegin
    <2>1. Req("BEGIN", 0, 0) \in Request /\ Rank(Req("BEGIN", 0, 0)) = 2
      BY DEF Request, Commands, Rank
    <2>2. pc = "begin" /\ pc' = "beginWait" /\ toRom' = Append(toRom, Req("BEGIN", 0, 0))
      BY <1>3 DEF SendBegin, Send, SendCommand, Goto
    <2>. QED
      BY <2>1, <2>2 DEF Sends, NextRank, Looping
  <1>4. CASE SendData
    <2>1. pc = "data" /\ seq \in Blocks /\ sliced = seq
      BY <1>4 DEF SendData, Send, LoopInv, ScalarsOK
    <2>2. Req("DATA", seq, sliced) \in Request /\ Rank(Req("DATA", seq, sliced)) = 3 + seq
      BY <2>1 DEF Request, Commands, Rank
    <2>3. /\ pc' = "dataWait" /\ seq' = seq
          /\ toRom' = Append(toRom, Req("DATA", seq, sliced))
      BY <1>4 DEF SendData, Send, SendCommand, Goto
    <2>. QED
      BY <2>1, <2>2, <2>3 DEF Sends, NextRank, Looping
  <1>5. CASE SendEnd
    <2>1. Req("END", 0, 0) \in Request /\ Rank(Req("END", 0, 0)) = 3 + NBlocks
      BY DEF Request, Commands, Rank
    <2>2. pc = "end" /\ pc' = "endWait" /\ toRom' = Append(toRom, Req("END", 0, 0))
      BY <1>5 DEF SendEnd, Send, SendCommand, Goto
    <2>. QED
      BY <2>1, <2>2 DEF Sends, NextRank, Looping
  <1>. QED
    BY <1>1, <1>2, <1>3, <1>4, <1>5

Early == {"open", "enter", "flush", "sync", "syncWait", "drain", "attach"}
Late == {"reset", "pulse", "lastFlush", "done"}

\* Before the first request that counts, and once the last is out of the question,
\* nothing moves in the order.
LEMMA KeepsEarlyLate ==
  /\ pc \in Early /\ pc' \in Early /\ toRom' \in {toRom, <<>>} => Keeps
  /\ ScalarsOK /\ LoopInv /\ pc' \in Late /\ toRom' \in {toRom, <<>>} => Keeps
  <1>1. pc \in Early => NextRank = 1
    BY DEF Early, NextRank
  <1>2. pc' \in Early => NextRank' = 1 /\ ~Looping'
    BY DEF Early, NextRank, Looping
  <1>3. pc' \in Late => NextRank' = 4 + NBlocks /\ ~Looping'
    BY DEF Late, NextRank, Looping
  <1>. QED
    BY <1>1, <1>2, <1>3, NextRankTop, NextRankType DEF Keeps

\* Going on after a response, or without one, moves on by one place at most.
LEMMA KeepsProceed ==
  ScalarsOK /\ LoopInv /\ pc \in DOMAIN Awaited /\ Proceed /\ toRom' = toRom => Keeps
  <1>. SUFFICES ASSUME ScalarsOK, LoopInv, pc \in DOMAIN Awaited, Proceed, toRom' = toRom
                PROVE  Keeps
    OBVIOUS
  <1>1. pc \in {"attachWait", "beginWait", "dataWait", "endWait"}
    BY DEF Awaited
  <1>2. CASE pc = "attachWait"
    <2>1. pc' = "begin"
      BY <1>2 DEF Proceed, Goto
    <2>. QED
      BY <1>2, <2>1 DEF Keeps, NextRank, Looping
  <1>3. CASE pc = "beginWait"
    <2>1. seq' = 0 /\ pc' = IF 0 < NBlocks THEN "data" ELSE "end"
      BY <1>3 DEF Proceed, NextBlock, Goto
    <2>2. NextRank = 3 /\ NextRank' = 3
      BY <1>3, <2>1 DEF NextRank
    <2>. QED
      BY <1>3, <2>2 DEF Keeps
  <1>4. CASE pc = "dataWait"
    <2>1. seq' = seq + 1 /\ pc' = IF seq + 1 < NBlocks THEN "data" ELSE "end"
      BY <1>4 DEF Proceed, NextBlock, Goto
    <2>2. seq \in Nat /\ seq < NBlocks
      BY <1>4 DEF ScalarsOK, LoopInv
    <2>3. NextRank = 4 + seq /\ Looping
      BY <1>4 DEF NextRank, Looping
    <2>4. NextRank' = 4 + seq
      BY <2>1, <2>2 DEF NextRank
    <2>. QED
      BY <2>2, <2>3, <2>4 DEF Keeps
  <1>5. CASE pc = "endWait"
    <2>1. pc' = "reset"
      BY <1>5 DEF Proceed, Raise, Goto
    <2>. QED
      BY <2>1, KeepsEarlyLate DEF Late
  <1>. QED
    BY <1>1, <1>2, <1>3, <1>4, <1>5

\* Every other step of the host leaves the order as it is.
LEMMA KeepStep ==
  ScalarsOK /\ LoopInv /\ HostStep
    => Keeps \/ SendSync \/ SendAttach \/ SendBegin \/ SendData \/ SendEnd
  <1>. USE DEF Goto, Raise, Early, Late
  <1>1. Open => pc \in Early /\ pc' \in Early /\ toRom' = toRom
    BY DEF Open
  <1>2. EnterDownloadMode => pc \in Early /\ pc' \in Early /\ toRom' = <<>>
    BY DEF EnterDownloadMode
  <1>3. ScalarsOK /\ FlushLine => Keeps
    <2>1. FlushLine => /\ NextRank' = NextRank /\ (Looping' <=> Looping)
                       /\ toRom' = toRom
      BY DEF FlushLine, host, NextRank, Looping
    <2>. QED
      BY <2>1, NextRankType DEF Keeps
  <1>4. FlushEnd => /\ (pc \in Early /\ pc' \in Early) \/ pc' \in Late
                    /\ toRom' = toRom
    BY DEF FlushEnd, AfterFlush
  <1>5. SyncRetries \/ SyncAnswered \/ Drain =>
          pc \in Early /\ pc' \in Early /\ toRom' = toRom
    BY DEF SyncRetries, SyncAnswered, Drain
  <1>6. ResponseTimeout \/ ResponseArrives =>
          pc \in DOMAIN Awaited /\ Proceed /\ toRom' = toRom
    BY DEF ResponseTimeout, ResponseArrives
  <1>7. OpenFails \/ SyncGivesUp \/ SyncFails \/ ResponseInvalid \/ PortFails =>
          pc' \in Late /\ toRom' = toRom
    BY DEF OpenFails, SyncGivesUp, SyncFails, ResponseInvalid, PortFails
  <1>8. ResetPulse => pc' \in Late /\ toRom' = <<>>
    BY DEF ResetPulse
  <1>. QED
    BY <1>1, <1>2, <1>3, <1>4, <1>5, <1>6, <1>7, <1>8, KeepsEarlyLate, KeepsProceed
       DEF HostStep

\* seq, sliced and the loop keep agreeing.
LEMMA LoopStep == ScalarsOK /\ LoopInv /\ [Next]_vars => LoopInv'
  <1>. USE DEF LoopInv, Goto, Raise
  <1>1. LoopInv /\ (Open \/ OpenFails \/ EnterDownloadMode \/ PortFails \/ ResetPulse) => LoopInv'
    BY DEF Open, OpenFails, EnterDownloadMode, PortFails, ResetPulse
  <1>2. LoopInv /\ FlushLine => LoopInv'
    BY DEF FlushLine, host
  <1>3. LoopInv /\ FlushEnd => LoopInv'
    BY DEF FlushEnd, AfterFlush
  <1>4. LoopInv /\ (SendSync \/ SyncGivesUp \/ SyncFails) => LoopInv'
    BY DEF SendSync, SyncGivesUp, SyncFails
  <1>5. LoopInv /\ (SyncRetries \/ SyncAnswered \/ Drain) => LoopInv'
    BY DEF SyncRetries, SyncAnswered, Drain
  <1>6. ScalarsOK /\ LoopInv /\ (SendAttach \/ SendBegin \/ SendData \/ SendEnd) => LoopInv'
    BY DEF SendAttach, SendBegin, SendData, SendEnd, Send, ScalarsOK
  <1>7. ScalarsOK /\ LoopInv /\ (ResponseTimeout \/ ResponseArrives) => LoopInv'
    <2>1. ResponseTimeout \/ ResponseArrives =>
            pc \in DOMAIN Awaited /\ Proceed /\ sliced' = sliced
      BY DEF ResponseTimeout, ResponseArrives
    <2>2. DOMAIN Awaited = {"attachWait", "beginWait", "dataWait", "endWait"}
      BY DEF Awaited
    <2>3. LoopInv /\ pc \in {"attachWait", "endWait"} /\ Proceed /\ sliced' = sliced => LoopInv'
      BY DEF Proceed
    <2>4. LoopInv /\ pc = "beginWait" /\ Proceed /\ sliced' = sliced => LoopInv'
      BY DEF Proceed, NextBlock
    <2>5. LoopInv /\ pc = "dataWait" /\ Proceed /\ sliced' = sliced => LoopInv'
      BY DEF Proceed, NextBlock
    <2>. QED
      BY <2>1, <2>2, <2>3, <2>4, <2>5
  <1>8. LoopInv /\ ResponseInvalid => LoopInv'
    BY DEF ResponseInvalid
  <1>9. LoopInv /\ UNCHANGED <<pc, seq, sliced>> => LoopInv'
    OBVIOUS
  <1>10. ChipStep \/ Lose \/ Unplug \/ Done \/ UNCHANGED vars => UNCHANGED <<pc, seq, sliced>>
    BY DEF ChipStep, ChipPrints, RomSync, RomAttach, RomBegin, RomData, RomRefuses, RomEnd,
           Lose, Unplug, Done, vars, host
  <1>. QED
    BY <1>1, <1>2, <1>3, <1>4, <1>5, <1>6, <1>7, <1>8, <1>9, <1>10 DEF Next, HostStep

-----------------------------------------------------------------------------
(* The queue and the flash.                                                *)

OrderInv == PayloadInv /\ SortedInv /\ FrontierInv

\* What is queued are requests.
LEMMA QueuedFacts ==
  QueuesOK => \A i \in Queued : toRom[i] \in Request /\ Rank(toRom[i]) \in Nat
  BY RankFacts DEF QueuesOK, Queued

\* The order survives a step of the host that sends nothing.
LEMMA KeepOrder == ScalarsOK /\ QueuesOK /\ OrderInv /\ Keeps /\ flash' = flash => OrderInv'
  <1>. SUFFICES ASSUME ScalarsOK, QueuesOK, OrderInv, Keeps, flash' = flash PROVE OrderInv'
    OBVIOUS
  <1>. USE DEF OrderInv, PayloadInv, SortedInv, FrontierInv
  <1>1. NextRank' >= NextRank /\ NextRank \in Nat /\ NextRank' \in Nat
    BY NextRankType DEF Keeps
  <1>2. CASE toRom' = toRom
    <2>1. Queued' = Queued /\ \A i \in Queued : toRom'[i] = toRom[i] /\ Rank(toRom[i]) \in Nat
      <3>1. Queued' = Queued /\ \A i \in Queued : toRom'[i] = toRom[i]
        BY <1>2 DEF Queued
      <3>. QED
        BY <3>1, QueuedFacts
    <2>2. PayloadInv'
      BY <1>2, <2>1
    <2>3. SortedInv'
      BY <1>1, <1>2, <2>1
    <2>4. FrontierInv'
      BY <1>1, <1>2, <2>1
    <2>. QED
      BY <2>2, <2>3, <2>4
  <1>3. CASE toRom' = <<>>
    <2>1. Queued' = {}
      BY <1>3, EmptyFacts DEF Queued
    <2>. QED
      BY <1>1, <2>1
  <1>. QED
    BY <1>2, <1>3 DEF Keeps

\* The order survives a request sent in its turn.
LEMMA SendOrder == ScalarsOK /\ QueuesOK /\ OrderInv /\ Sends /\ flash' = flash => OrderInv'
  <1>. SUFFICES ASSUME ScalarsOK, QueuesOK, OrderInv, flash' = flash,
                       NEW r \in Request,
                       toRom' = Append(toRom, r),
                       r.cmd = "DATA" => r.seq \in Blocks /\ r.block = r.seq,
                       \/ Rank(r) = 0 /\ NextRank = 1 /\ NextRank' = 1
                       \/ Rank(r) = NextRank /\ NextRank' = NextRank + 1
                PROVE  OrderInv'
    BY DEF Sends
  <1>. DEFINE n == Len(toRom)
  <1>1. /\ n \in Nat /\ Queued = 1 .. n /\ Queued' = 1 .. n + 1
        /\ \A i \in Queued : toRom'[i] = toRom[i]
        /\ toRom'[n + 1] = r
    BY AppendFacts DEF QueuesOK, Queued
  <1>. HIDE DEF n
  <1>2. \A i \in Queued : Rank(toRom[i]) \in Nat /\ Rank(toRom[i]) < NextRank
    BY QueuedFacts DEF OrderInv, SortedInv
  <1>3. /\ NextRank \in Nat /\ NextRank' \in Nat /\ Rank(r) \in Nat
        /\ NextRank' >= NextRank /\ Rank(r) < NextRank'
        /\ \A i \in Queued : Rank(toRom[i]) < Rank(r) \/ (Rank(toRom[i]) = 0 /\ Rank(r) = 0)
        /\ (Rank(r) = 0 /\ NextRank = 1) \/ Rank(r) = NextRank
    BY NextRankType, RankFacts, <1>2
  <1>4. \A i \in Queued' : i \in Queued \/ i = n + 1
    BY <1>1
  <1>5. PayloadInv'
    BY <1>1, <1>4 DEF OrderInv, PayloadInv
  <1>6. SortedInv'
    <2>1. ASSUME NEW i \in Queued' PROVE Rank(toRom'[i]) < NextRank'
      <3>1. CASE i \in Queued
        <4>1. Rank(toRom[i]) \in Nat /\ Rank(toRom[i]) < NextRank /\ toRom'[i] = toRom[i]
          BY <1>1, <1>2, <3>1
        <4>. QED
          BY <1>3, <4>1
      <3>2. CASE i = n + 1
        BY <1>1, <1>3, <3>2
      <3>. QED
        BY <1>4, <3>1, <3>2
    <2>2. ASSUME NEW i \in Queued', NEW j \in Queued', i < j
          PROVE  \/ Rank(toRom'[i]) < Rank(toRom'[j])
                 \/ Rank(toRom'[i]) = 0 /\ Rank(toRom'[j]) = 0
      <3>1. i \in Queued
        BY <1>1, <2>2
      <3>2. CASE j \in Queued
        BY <1>1, <2>2, <3>1, <3>2 DEF OrderInv, SortedInv
      <3>3. CASE j = n + 1
        BY <1>1, <1>3, <3>1, <3>3
      <3>. QED
        BY <1>4, <3>2, <3>3
    <2>. QED
      BY <2>1, <2>2 DEF SortedInv
  <1>7. FrontierInv'
    <2>1. ASSUME NEW b \in Blocks, flash[b] = b
          PROVE  3 + b < NextRank /\ \A i \in Queued : 3 + b < Rank(toRom[i])
      BY <2>1 DEF OrderInv, FrontierInv
    <2>2. ASSUME NEW b \in Blocks, flash'[b] = b
          PROVE  3 + b < NextRank' /\ \A i \in Queued' : 3 + b < Rank(toRom'[i])
      <3>1. 3 + b < NextRank /\ \A i \in Queued : 3 + b < Rank(toRom'[i])
        BY <1>1, <2>1, <2>2
      <3>2. 3 + b < Rank(r)
        BY <1>3, <3>1
      <3>. QED
        BY <1>1, <1>3, <1>4, <3>1, <3>2
    <2>. QED
      BY <2>2 DEF FrontierInv
  <1>. QED
    BY <1>5, <1>6, <1>7 DEF OrderInv

\* The ROM or the link takes the first request; the host stays where it is.
Pops ==
  /\ toRom # <<>> /\ toRom' = Tail(toRom)
  /\ UNCHANGED <<pc, seq>>

\* Where the requests that stay in the queue are found.
LEMMA PopFacts ==
  ASSUME QueuesOK, Pops
  PROVE  /\ 1 \in Queued /\ Head(toRom) = toRom[1] /\ Head(toRom) \in Request
         /\ \A i \in Queued' : i + 1 \in Queued /\ i + 1 > 1 /\ toRom'[i] = toRom[i + 1]
         /\ \A i \in Queued : i = 1 \/ (i - 1 \in Queued' /\ toRom'[i - 1] = toRom[i])
         /\ Queued \subseteq Nat /\ Queued' \subseteq Nat
         /\ NextRank' = NextRank /\ (Looping' <=> Looping)
  <1>1. /\ Head(toRom) = toRom[1] /\ Head(toRom) \in Request
        /\ Len(toRom) \in Nat /\ Len(toRom) >= 1 /\ Len(toRom') = Len(toRom) - 1
        /\ \A i \in 1 .. Len(toRom) - 1 : toRom'[i] = toRom[i + 1]
    BY TailFacts DEF QueuesOK, Pops
  <1>2. \A i \in Queued : i = 1 \/ (i - 1 \in Queued' /\ toRom'[i - 1] = toRom[i])
    <2>1. ASSUME NEW i \in Queued, i # 1 PROVE i - 1 \in 1 .. Len(toRom) - 1 /\ (i - 1) + 1 = i
      BY <1>1, <2>1 DEF Queued
    <2>. QED
      BY <1>1, <2>1 DEF Queued
  <1>3. NextRank' = NextRank /\ (Looping' <=> Looping)
    BY DEF Pops, NextRank, Looping
  <1>. QED
    BY <1>1, <1>2, <1>3 DEF Queued

\* The order survives a request's being taken, as long as a block it puts in place
\* is its own.
LEMMA PopOrder ==
  ASSUME ScalarsOK, QueuesOK, OrderInv, Pops,
         \A b \in Blocks : flash'[b] = b => flash[b] = b \/ Rank(Head(toRom)) = 3 + b
  PROVE  OrderInv'
  <1>1. PayloadInv'
    BY PopFacts DEF OrderInv, PayloadInv
  <1>2. SortedInv'
    <2>1. ASSUME NEW i \in Queued' PROVE Rank(toRom'[i]) < NextRank'
      BY PopFacts DEF OrderInv, SortedInv
    <2>2. ASSUME NEW i \in Queued', NEW j \in Queued', i < j
          PROVE  \/ Rank(toRom'[i]) < Rank(toRom'[j])
                 \/ Rank(toRom'[i]) = 0 /\ Rank(toRom'[j]) = 0
      <3>1. /\ i + 1 \in Queued /\ toRom'[i] = toRom[i + 1]
            /\ j + 1 \in Queued /\ toRom'[j] = toRom[j + 1]
            /\ i \in Nat /\ j \in Nat
        BY PopFacts
      <3>2. i + 1 < j + 1
        BY <2>2, <3>1
      <3>. QED
        BY <3>1, <3>2 DEF OrderInv, SortedInv
    <2>. QED
      BY <2>1, <2>2 DEF SortedInv
  <1>3. FrontierInv'
    <2>1. ASSUME NEW b \in Blocks, flash'[b] = b
          PROVE  3 + b < NextRank' /\ \A i \in Queued' : 3 + b < Rank(toRom'[i])
      <3>1. CASE flash[b] = b
        BY <3>1, PopFacts DEF OrderInv, FrontierInv
      <3>2. CASE Rank(Head(toRom)) = 3 + b
        <4>1. 3 + b < NextRank'
          BY <3>2, PopFacts DEF OrderInv, SortedInv
        <4>2. ASSUME NEW i \in Queued' PROVE 3 + b < Rank(toRom'[i])
          <5>1. i + 1 \in Queued /\ 1 \in Queued /\ 1 < i + 1 /\ toRom'[i] = toRom[i + 1]
            BY PopFacts
          <5>2. \/ Rank(toRom[1]) < Rank(toRom[i + 1])
                \/ Rank(toRom[1]) = 0 /\ Rank(toRom[i + 1]) = 0
            BY <5>1 DEF OrderInv, SortedInv
          <5>. QED
            BY <3>2, <5>1, <5>2, PopFacts
        <4>. QED
          BY <4>1, <4>2
      <3>. QED
        BY <2>1, <3>1, <3>2
    <2>. QED
      BY <2>1 DEF FrontierInv
  <1>. QED
    BY <1>1, <1>2, <1>3 DEF OrderInv

\* A block that has been sent stays sent when a request is taken and carried out.
LEMMA PopArrived ==
  ASSUME QueuesOK, Pops, NEW b \in Blocks, Arrived(b),
         flash[b] = b \/ (Head(toRom).cmd = "DATA" /\ Head(toRom).seq = b) => flash'[b] = b
  PROVE  Arrived(b)'
  <1>1. CASE flash[b] = b
    BY <1>1 DEF Arrived
  <1>2. ASSUME NEW i \in Queued, toRom[i].cmd = "DATA", toRom[i].seq = b
        PROVE  Arrived(b)'
    <2>1. CASE i = 1
      BY <1>2, <2>1, PopFacts DEF Arrived
    <2>2. CASE i - 1 \in Queued' /\ toRom'[i - 1] = toRom[i]
      BY <1>2, <2>2 DEF Arrived
    <2>. QED
      BY <2>1, <2>2, PopFacts
  <1>. QED
    BY <1>1, <1>2 DEF Arrived

\* What has been sent is not lost when a request is taken and carried out.
LEMMA PopArrival ==
  ASSUME ScalarsOK, QueuesOK, OrderInv, ArrivalInv, Pops,
         refused' = refused, lost' = lost,
         \A b \in Blocks :
           flash[b] = b \/ (Head(toRom).cmd = "DATA" /\ Head(toRom).seq = b) => flash'[b] = b,
         EndAnswered' => EndAnswered \/ Loaded'
  PROVE  ArrivalInv'
  <1>. SUFFICES ASSUME ~refused, ~lost
                PROVE  /\ Looping' => \A b \in Blocks : 3 + b < NextRank' => Arrived(b)'
                       /\ \A i \in Queued' : \A b \in Blocks :
                            3 + b < Rank(toRom'[i]) => Arrived(b)'
                       /\ EndAnswered' => Loaded'
    BY DEF ArrivalInv
  <1>1. \A b \in Blocks : Arrived(b) => Arrived(b)'
    BY PopArrived
  <1>2. Looping' => \A b \in Blocks : 3 + b < NextRank' => Arrived(b)'
    BY <1>1, PopFacts DEF ArrivalInv
  <1>3. ASSUME NEW i \in Queued', NEW b \in Blocks, 3 + b < Rank(toRom'[i])
        PROVE  Arrived(b)'
    BY <1>1, <1>3, PopFacts DEF ArrivalInv
  <1>4. EndAnswered' => Loaded'
    BY DEF ArrivalInv, Loaded
  <1>. QED
    BY <1>2, <1>3, <1>4

\* A step of the host that sends nothing leaves what it sent on its way, unless it
\* resets the chip, after which it has nothing to expect.
LEMMA KeepArrival ==
  ASSUME ScalarsOK, QueuesOK, ArrivalInv, Keeps,
         UNCHANGED <<flash, refused, lost>>, EndAnswered' => EndAnswered
  PROVE  ArrivalInv'
  <1>. SUFFICES ASSUME ~refused, ~lost
                PROVE  /\ Looping' => \A b \in Blocks : 3 + b < NextRank' => Arrived(b)'
                       /\ \A i \in Queued' : \A b \in Blocks :
                            3 + b < Rank(toRom'[i]) => Arrived(b)'
                       /\ EndAnswered' => Loaded'
    BY DEF ArrivalInv
  <1>1. toRom' = toRom => \A b \in Blocks : Arrived(b) => Arrived(b)'
    BY DEF Arrived, Queued
  <1>2. Looping' => \A b \in Blocks : 3 + b < NextRank' => Arrived(b)'
    <2>1. pc = "beginWait" => NextRank = 3
      BY DEF NextRank
    <2>. QED
      BY <1>1, <2>1 DEF Keeps, ArrivalInv
  <1>3. \A i \in Queued' : \A b \in Blocks : 3 + b < Rank(toRom'[i]) => Arrived(b)'
    <2>1. CASE toRom' = toRom
      <3>1. Queued' = Queued
        BY <2>1 DEF Queued
      <3>. QED
        BY <1>1, <2>1, <3>1 DEF ArrivalInv
    <2>2. CASE toRom' = <<>>
      <3>1. Queued' = {}
        BY <2>2, EmptyFacts DEF Queued
      <3>. QED
        BY <3>1
    <2>. QED
      BY <2>1, <2>2 DEF Keeps
  <1>4. EndAnswered' => Loaded'
    BY DEF ArrivalInv, Loaded
  <1>. QED
    BY <1>2, <1>3, <1>4

\* A request sent in its turn leaves the ones before it on their way.
LEMMA SendArrival ==
  ASSUME ScalarsOK, QueuesOK, OrderInv, ArrivalInv, Sends,
         UNCHANGED <<flash, refused, lost>>, EndAnswered' => EndAnswered
  PROVE  ArrivalInv'
  <1>. PICK r \in Request :
         /\ toRom' = Append(toRom, r)
         /\ \/ Rank(r) = 0 /\ NextRank = 1 /\ NextRank' = 1
            \/ Rank(r) = NextRank /\ NextRank' = NextRank + 1
         /\ Looping' => Looping /\ Rank(r) = NextRank
         /\ Looping \/ Rank(r) <= 2
    BY DEF Sends
  <1>. SUFFICES ASSUME ~refused, ~lost
                PROVE  /\ Looping' => \A b \in Blocks : 3 + b < NextRank' => Arrived(b)'
                       /\ \A i \in Queued' : \A b \in Blocks :
                            3 + b < Rank(toRom'[i]) => Arrived(b)'
                       /\ EndAnswered' => Loaded'
    BY DEF ArrivalInv
  <1>. DEFINE n == Len(toRom)
  <1>1. /\ n \in Nat /\ Queued = 1 .. n /\ Queued' = 1 .. n + 1
        /\ Queued \subseteq Queued'
        /\ \A i \in Queued : toRom'[i] = toRom[i]
        /\ toRom'[n + 1] = r
    BY AppendFacts DEF QueuesOK, Queued
  <1>. HIDE DEF n
  <1>2. NextRank \in Nat /\ Rank(r) \in Nat
    BY NextRankType, RankFacts
  <1>3. ASSUME NEW b \in Blocks, Arrived(b) PROVE Arrived(b)'
    <2>1. CASE flash[b] = b
      BY <2>1 DEF Arrived
    <2>2. ASSUME NEW i \in Queued, toRom[i].cmd = "DATA", toRom[i].seq = b
          PROVE  Arrived(b)'
      <3>1. i \in Queued' /\ toRom'[i] = toRom[i]
        BY <1>1
      <3>. QED
        BY <2>2, <3>1 DEF Arrived
    <2>. QED
      BY <1>3, <2>1, <2>2 DEF Arrived
  <1>4. \A b \in Blocks : Rank(r) = 3 + b => Arrived(b)'
    <2>1. n + 1 \in Queued'
      BY <1>1
    <2>2. \A b \in Blocks : Rank(r) = 3 + b => r.cmd = "DATA" /\ r.seq = b
      BY RankFacts
    <2>. QED
      BY <1>1, <2>1, <2>2 DEF Arrived
  <1>5. Looping => \A b \in Blocks : 3 + b < NextRank => Arrived(b)
    BY DEF ArrivalInv
  <1>6. ASSUME Looping', NEW b \in Blocks, 3 + b < NextRank' PROVE Arrived(b)'
    <2>1. Looping /\ (3 + b < NextRank \/ Rank(r) = 3 + b)
      BY <1>2, <1>6
    <2>. QED
      BY <1>3, <1>4, <1>5, <2>1
  <1>7. ASSUME NEW i \in Queued', NEW b \in Blocks, 3 + b < Rank(toRom'[i])
        PROVE  Arrived(b)'
    <2>1. CASE i \in Queued
      BY <1>1, <1>3, <1>7, <2>1 DEF ArrivalInv
    <2>2. CASE i = n + 1
      <3>1. 3 + b < Rank(r)
        BY <1>1, <1>7, <2>2
      <3>2. Looping /\ 3 + b < NextRank
        BY <1>2, <3>1
      <3>. QED
        BY <1>3, <1>5, <3>2
    <2>. QED
      BY <1>1, <2>1, <2>2
  <1>8. EndAnswered' => Loaded'
    BY DEF ArrivalInv, Loaded
  <1>. QED
    BY <1>6, <1>7, <1>8

\* Only an answered FLASH_END is an answer to FLASH_END.
LEMMA HostEnd == QueuesOK /\ HostStep /\ EndAnswered' => EndAnswered
  <1>. SUFFICES ASSUME QueuesOK, HostStep, EndAnswered' PROVE EndAnswered
    OBVIOUS
  <1>1. \/ toHost' = toHost
        \/ toHost # <<>> /\ toHost' = Tail(toHost)
    BY HostReads
  <1>2. ASSUME NEW i \in 1 .. Len(toHost'), toHost'[i].kind = "reply", toHost'[i].cmd = "END"
        PROVE  EndAnswered
    <2>1. CASE toHost' = toHost
      BY <1>2, <2>1 DEF EndAnswered
    <2>2. CASE toHost # <<>> /\ toHost' = Tail(toHost)
      <3>1. i + 1 \in 1 .. Len(toHost) /\ toHost'[i] = toHost[i + 1]
        BY <2>2, TailFacts DEF QueuesOK
      <3>. QED
        BY <1>2, <3>1 DEF EndAnswered
    <2>. QED
      BY <1>1, <2>1, <2>2
  <1>3. ended' => ended \/ EndAnswered
    <2>1. ASSUME ResponseArrives PROVE ended' => ended \/ EndAnswered
      <3>1. CASE pc = "endWait"
        <4>1. Awaited[pc] = "END"
          BY <3>1 DEF Awaited
        <4>2. PICK ok \in BOOLEAN : Head(toHost) = Reply("END", ok)
          BY <2>1, <4>1 DEF ResponseArrives
        <4>3. toHost[1].kind = "reply" /\ toHost[1].cmd = "END" /\ 1 \in 1 .. Len(toHost)
          BY <2>1, <4>2, TailFacts DEF ResponseArrives, QueuesOK, Reply
        <4>. QED
          BY <4>3 DEF EndAnswered
      <3>2. CASE pc # "endWait"
        BY <2>1, <3>2 DEF ResponseArrives
      <3>. QED
        BY <3>1, <3>2
    <2>. QED
      BY <2>1
         DEF HostStep, Open, OpenFails, EnterDownloadMode, FlushLine, FlushEnd, SendSync,
             SyncGivesUp, SyncRetries, SyncAnswered, Drain, SyncFails, SendAttach,
             SendBegin, SendData, SendEnd, Send, ResponseTimeout, ResponseInvalid,
             PortFails, ResetPulse, host
  <1>. QED
    BY <1>2, <1>3 DEF EndAnswered

\* An image's block stands at its own place and, until the ROM refuses or misses a
\* request, behind all the blocks before it.
LEMMA PopFlash ==
  ASSUME ScalarsOK, QueuesOK, OrderInv, ArrivalInv, RightPlace, PrefixWritten, Pops,
         refused' = refused, lost' = lost,
         \/ flash' = flash
         \/ /\ Head(toRom).cmd = "DATA"
            /\ flash' = [flash EXCEPT ![Head(toRom).seq] = Head(toRom).block]
         \/ flash' = [b \in Blocks |-> Erased]
  PROVE  RightPlace' /\ PrefixWritten'
  <1>1. Head(toRom).cmd = "DATA" =>
          Head(toRom).seq \in Blocks /\ Head(toRom).block = Head(toRom).seq
    BY PopFacts DEF OrderInv, PayloadInv
  <1>2. flash \in [Blocks -> {Stale, Erased} \cup Nat]
    BY DEF ScalarsOK
  <1>3. CASE flash' = flash
    BY <1>3 DEF RightPlace, PrefixWritten
  <1>4. CASE flash' = [b \in Blocks |-> Erased]
    BY <1>4 DEF RightPlace, PrefixWritten
  <1>5. CASE /\ Head(toRom).cmd = "DATA"
             /\ flash' = [flash EXCEPT ![Head(toRom).seq] = Head(toRom).block]
    <2>. DEFINE c == Head(toRom).seq
    <2>1. c \in Blocks /\ flash' = [flash EXCEPT ![c] = c]
      BY <1>1, <1>5
    <2>2. Rank(Head(toRom)) = 3 + c
      BY <1>5, PopFacts, RankFacts
    <2>. HIDE DEF c
    <2>3. RightPlace'
      BY <1>2, <2>1 DEF RightPlace
    <2>4. ASSUME ~refused, ~lost, NEW b \in Blocks, flash'[b] = b, NEW a \in 0 .. b
          PROVE  flash'[a] = a
      <3>0. a \in Blocks
        BY <2>4
      <3>1. CASE b # c
        BY <1>2, <2>1, <2>4, <3>0, <3>1 DEF PrefixWritten
      <3>2. CASE b = c /\ a = c
        BY <1>2, <2>1, <3>2
      <3>3. CASE b = c /\ a # c
        <4>1. Arrived(a)
          BY <2>1, <2>2, <2>4, <3>0, <3>3, PopFacts DEF ArrivalInv
        <4>2. ASSUME NEW i \in Queued, toRom[i].cmd = "DATA", toRom[i].seq = a PROVE FALSE
          <5>1. toRom[i] \in Request /\ Rank(toRom[i]) = 3 + a
            BY <4>2, QueuedFacts, RankFacts
          <5>2. i # 1
            BY <2>2, <3>0, <3>3, <5>1, <2>1, PopFacts
          <5>3. 1 < i
            BY <5>2, PopFacts DEF Queued
          <5>4. 3 + c < 3 + a \/ 3 + c = 0
            BY <2>2, <5>1, <5>3, PopFacts DEF OrderInv, SortedInv
          <5>. QED
            BY <2>1, <2>4, <3>3, <5>4
        <4>3. flash[a] = a
          BY <4>1, <4>2 DEF Arrived
        <4>. QED
          BY <1>2, <2>1, <3>0, <3>3, <4>3
      <3>. QED
        BY <3>1, <3>2, <3>3
    <2>. QED
      BY <2>3, <2>4 DEF PrefixWritten
  <1>. QED
    BY <1>3, <1>4, <1>5

-----------------------------------------------------------------------------
(* The inductive step.                                                     *)

FlashInv == OrderInv /\ RightPlace /\ PrefixWritten /\ ArrivalInv

\* The frames the chip sends.
LEMMA FrameFacts ==
  /\ Junk \in Frame /\ Junk.kind = "junk"
  /\ \A c \in Commands, ok \in BOOLEAN : Reply(c, ok) \in Frame /\ Reply(c, ok).cmd = c
  BY DEF Junk, Reply, Frame

\* Frames that do not answer FLASH_END leave it as unanswered as it was.
LEMMA QuietFrames ==
  ASSUME QueuesOK, NEW fs \in Seq(Frame), ToHost(fs), ended' = ended, EndAnswered',
         \A i \in 1 .. Len(fs) : fs[i].kind = "reply" => fs[i].cmd # "END"
  PROVE  EndAnswered
  <1>1. ASSUME NEW i \in 1 .. Len(toHost'), toHost'[i].kind = "reply", toHost'[i].cmd = "END"
        PROVE  EndAnswered
    <2>1. /\ Len(toHost) \in Nat /\ Len(fs) \in Nat
          /\ Len(toHost') = Len(toHost) + Len(fs)
          /\ \A k \in 1 .. Len(toHost) : toHost'[k] = toHost[k]
          /\ \A k \in Len(toHost) + 1 .. Len(toHost') : toHost'[k] = fs[k - Len(toHost)]
      BY ConcatFacts DEF QueuesOK, ToHost
    <2>2. CASE i \in 1 .. Len(toHost)
      BY <1>1, <2>1, <2>2 DEF EndAnswered
    <2>3. CASE i \in Len(toHost) + 1 .. Len(toHost')
      <3>1. i - Len(toHost) \in 1 .. Len(fs) /\ toHost'[i] = fs[i - Len(toHost)]
        BY <2>1, <2>3
      <3>. QED
        BY <1>1, <3>1
    <2>. QED
      BY <2>1, <2>2, <2>3
  <1>. QED
    BY <1>1 DEF EndAnswered

\* The same of a single frame.
LEMMA QuietFrame ==
  ASSUME QueuesOK, NEW f \in Frame, ToHost(<<f>>), ended' = ended, EndAnswered',
         f.kind = "reply" => f.cmd # "END"
  PROVE  EndAnswered
  <1>1. PICK fs \in Seq(Frame) : fs = <<f>> /\ Len(fs) = 1 /\ fs[1] = f
    OBVIOUS
  <1>2. \A i \in 1 .. Len(fs) : fs[i].kind = "reply" => fs[i].cmd # "END"
    BY <1>1
  <1>. QED
    BY <1>1, <1>2, QuietFrames

\* An answer to another request is no answer to FLASH_END.
LEMMA QuietAnswer ==
  ASSUME QueuesOK, NEW c \in Commands, NEW ok \in BOOLEAN, Answer(c, ok), c # "END",
         ended' = ended, EndAnswered'
  PROVE  EndAnswered
  <1>1. Reply(c, ok) \in Frame /\ Reply(c, ok).cmd # "END"
    BY FrameFacts
  <1>2. Junk \in Frame /\ Junk.kind # "reply"
    BY FrameFacts
  <1>. QED
    BY <1>1, <1>2, QuietFrame DEF Answer

\* A step of the host keeps the order of the image.
LEMMA HostFlash == ScalarsOK /\ QueuesOK /\ LoopInv /\ FlashInv /\ HostStep => FlashInv'
  <1>. SUFFICES ASSUME ScalarsOK, QueuesOK, LoopInv, FlashInv, HostStep PROVE FlashInv'
    OBVIOUS
  <1>1. UNCHANGED <<flash, refused, lost>>
    BY DEF HostStep, Open, OpenFails, EnterDownloadMode, FlushLine, FlushEnd, SendSync,
           SyncGivesUp, SyncRetries, SyncAnswered, Drain, SyncFails, SendAttach, SendBegin,
           SendData, SendEnd, Send, ResponseTimeout, ResponseArrives, ResponseInvalid,
           PortFails, ResetPulse, chip
  <1>2. Keeps \/ Sends
    BY KeepStep, SendStep
  <1>3. OrderInv'
    BY <1>1, <1>2, KeepOrder, SendOrder DEF FlashInv
  <1>4. ArrivalInv'
    BY <1>1, <1>2, HostEnd, KeepArrival, SendArrival DEF FlashInv
  <1>5. RightPlace' /\ PrefixWritten'
    BY <1>1 DEF FlashInv, RightPlace, PrefixWritten
  <1>. QED
    BY <1>3, <1>4, <1>5 DEF FlashInv

\* What every request the ROM takes has in common.
LEMMA RomPops == ASSUME NEW c, RomTakes(c), UNCHANGED host PROVE Pops /\ Head(toRom).cmd = c
  BY DEF RomTakes, Pops, host

\* A request taken without an effect on the flash keeps the order of the image.
LEMMA IdlePop ==
  ASSUME ScalarsOK, QueuesOK, FlashInv, Pops, flash' = flash,
         \/ refused' = refused /\ lost' = lost /\ Head(toRom).cmd # "DATA"
                               /\ (EndAnswered' => EndAnswered \/ Loaded')
         \/ refused' = TRUE
         \/ lost' = TRUE
  PROVE  FlashInv'
  <1>1. OrderInv'
    BY PopOrder DEF FlashInv
  <1>2. RightPlace'
    BY DEF FlashInv, RightPlace
  <1>3. CASE /\ refused' = refused /\ lost' = lost /\ Head(toRom).cmd # "DATA"
             /\ (EndAnswered' => EndAnswered \/ Loaded')
    <2>1. ArrivalInv'
      BY <1>3, PopArrival DEF FlashInv
    <2>2. PrefixWritten'
      BY <1>3 DEF FlashInv, PrefixWritten
    <2>. QED
      BY <1>1, <1>2, <2>1, <2>2 DEF FlashInv
  <1>4. CASE refused' = TRUE \/ lost' = TRUE
    BY <1>1, <1>2, <1>4 DEF FlashInv, ArrivalInv, PrefixWritten
  <1>. QED
    BY <1>3, <1>4

\* A step of the chip keeps the order of the image.
LEMMA ChipFlash == ScalarsOK /\ QueuesOK /\ FlashInv /\ ChipStep => FlashInv'
  <1>. SUFFICES ASSUME ScalarsOK, QueuesOK, FlashInv, ChipStep PROVE FlashInv'
    OBVIOUS
  <1>1. CASE ChipPrints
    <2>1. Keeps /\ UNCHANGED <<flash, refused, lost, ended>> /\ ToHost(<<Junk>>)
      BY <1>1, NextRankType DEF ChipPrints, Keeps, NextRank, Looping, host
    <2>2. Junk \in Frame /\ Junk.kind # "reply"
      BY FrameFacts
    <2>3. EndAnswered' => EndAnswered
      BY <2>1, <2>2, QuietFrame
    <2>4. OrderInv' /\ ArrivalInv'
      BY <2>1, <2>3, KeepOrder, KeepArrival DEF FlashInv
    <2>. QED
      BY <2>1, <2>4 DEF FlashInv, RightPlace, PrefixWritten
  <1>2. CASE RomSync
    <2>1. /\ Pops /\ Head(toRom).cmd = "SYNC"
          /\ UNCHANGED <<flash, refused, lost, ended>>
      BY <1>2, RomTaking, RomPops DEF RomSync, host, chip
    <2>2. EndAnswered' => EndAnswered
      <3>1. ASSUME NEW n \in 1 .. SyncReplies,
                   ToHost([i \in 1 .. n |-> Reply("SYNC", TRUE)]), EndAnswered'
            PROVE  EndAnswered
        <4>. DEFINE fs == [i \in 1 .. n |-> Reply("SYNC", TRUE)]
        <4>1. fs \in Seq(Frame) /\ Len(fs) = n /\ \A i \in 1 .. n : fs[i].cmd # "END"
          BY DEF Reply, Frame, Commands
        <4>. QED
          BY <2>1, <3>1, <4>1, QuietFrames
      <3>2. ASSUME ToHost(<<Junk>>), EndAnswered' PROVE EndAnswered
        <4>1. Junk \in Frame /\ Junk.kind # "reply"
          BY FrameFacts
        <4>. QED
          BY <2>1, <3>2, <4>1, QuietFrame
      <3>3. ASSUME ToHost(<<Reply("SYNC", FALSE)>>), EndAnswered' PROVE EndAnswered
        <4>1. Reply("SYNC", FALSE) \in Frame /\ Reply("SYNC", FALSE).cmd # "END"
          BY FrameFacts DEF Commands
        <4>. QED
          BY <2>1, <3>3, <4>1, QuietFrame
      <3>. QED
        BY <1>2, <3>1, <3>2, <3>3 DEF RomSync
    <2>. QED
      BY <2>1, <2>2, IdlePop
  <1>3. CASE RomAttach
    <2>1. /\ Pops /\ Head(toRom).cmd = "ATTACH"
          /\ UNCHANGED <<flash, refused, lost, ended>>
      BY <1>3, RomTaking, RomPops DEF RomAttach, host, chip
    <2>2. EndAnswered' => EndAnswered
      BY <1>3, <2>1, QuietAnswer DEF RomAttach, Commands
    <2>. QED
      BY <2>1, <2>2, IdlePop
  <1>4. CASE RomBegin
    <2>1. /\ Pops /\ Head(toRom).cmd = "BEGIN"
          /\ UNCHANGED <<refused, lost, ended>> /\ flash' = [b \in Blocks |-> Erased]
      BY <1>4, RomTaking, RomPops DEF RomBegin, host
    <2>2. EndAnswered' => EndAnswered
      BY <1>4, <2>1, QuietAnswer DEF RomBegin, Commands
    <2>3. \A b \in Blocks : flash'[b] # b /\ flash[b] # b
      <3>1. Rank(Head(toRom)) = 2
        BY <2>1, PopFacts, RankFacts
      <3>2. \A b \in Blocks : flash[b] = b => 3 + b < 2
        BY <2>1, <3>1, PopFacts DEF FlashInv, OrderInv, FrontierInv
      <3>. QED
        BY <2>1, <3>2
    <2>4. OrderInv'
      BY <2>1, <2>3, PopOrder DEF FlashInv
    <2>5. ArrivalInv'
      BY <2>1, <2>2, <2>3, PopArrival DEF FlashInv
    <2>6. RightPlace' /\ PrefixWritten'
      BY <2>1, PopFlash DEF FlashInv
    <2>. QED
      BY <2>4, <2>5, <2>6 DEF FlashInv
  <1>5. CASE RomData
    <2>1. /\ Pops /\ Head(toRom).cmd = "DATA"
          /\ UNCHANGED <<refused, lost, ended>>
          /\ flash' = [flash EXCEPT ![Head(toRom).seq] = Head(toRom).block]
      BY <1>5, RomTaking, RomPops DEF RomData, host
    <2>2. EndAnswered' => EndAnswered
      BY <1>5, <2>1, QuietAnswer DEF RomData, Commands
    <2>3. /\ Head(toRom).seq \in Blocks /\ Head(toRom).block = Head(toRom).seq
          /\ Rank(Head(toRom)) = 3 + Head(toRom).seq
      BY <2>1, PopFacts, RankFacts DEF FlashInv, OrderInv, PayloadInv
    <2>4. \A b \in Blocks : flash'[b] = IF b = Head(toRom).seq THEN b ELSE flash[b]
      BY <2>1, <2>3 DEF ScalarsOK
    <2>5. OrderInv'
      BY <2>1, <2>3, <2>4, PopOrder DEF FlashInv
    <2>6. ArrivalInv'
      BY <2>1, <2>2, <2>3, <2>4, PopArrival DEF FlashInv
    <2>7. RightPlace' /\ PrefixWritten'
      BY <2>1, PopFlash DEF FlashInv
    <2>. QED
      BY <2>5, <2>6, <2>7 DEF FlashInv
  <1>6. CASE RomRefuses
    <2>1. Pops /\ flash' = flash /\ refused' = TRUE
      BY <1>6, RomTaking, RomPops DEF RomRefuses
    <2>. QED
      BY <2>1, IdlePop
  <1>7. CASE RomEnd
    <2>1. /\ Pops /\ Head(toRom).cmd = "END"
          /\ UNCHANGED <<flash, refused, lost>>
      BY <1>7, RomTaking, RomPops DEF RomEnd
    <2>2. CASE refused \/ lost
      <3>1. OrderInv' /\ RightPlace'
        BY <2>1, PopOrder DEF FlashInv, RightPlace
      <3>. QED
        BY <2>1, <2>2, <3>1 DEF FlashInv, ArrivalInv, PrefixWritten
    <2>3. CASE ~refused /\ ~lost
      <3>1. Rank(Head(toRom)) = 3 + NBlocks
        BY <2>1, PopFacts, RankFacts
      <3>2. ASSUME NEW b \in Blocks PROVE flash[b] = b
        <4>1. Arrived(b)
          BY <2>1, <2>3, <3>1, PopFacts DEF FlashInv, ArrivalInv
        <4>2. ASSUME NEW i \in Queued, toRom[i].cmd = "DATA", toRom[i].seq = b PROVE FALSE
          <5>1. toRom[i] \in Request /\ Rank(toRom[i]) = 3 + b
            BY <4>2, QueuedFacts, RankFacts
          <5>2. i # 1
            BY <2>1, <4>2, PopFacts
          <5>3. 1 < i
            BY <5>2, PopFacts DEF Queued
          <5>4. 3 + NBlocks < 3 + b \/ 3 + NBlocks = 0
            BY <2>1, <3>1, <5>1, <5>3, PopFacts DEF FlashInv, OrderInv, SortedInv
          <5>. QED
            BY <5>4
        <4>. QED
          BY <4>1, <4>2 DEF Arrived
      <3>3. Loaded'
        BY <2>1, <3>2 DEF Loaded
      <3>. QED
        BY <2>1, <3>3, IdlePop
    <2>. QED
      BY <2>2, <2>3
  <1>. QED
    BY <1>1, <1>2, <1>3, <1>4, <1>5, <1>6, <1>7 DEF ChipStep

\* So does the link, the cable, and the end of the host.
LEMMA RestFlash ==
  ASSUME ScalarsOK, QueuesOK, FlashInv, Lose \/ Unplug \/ UNCHANGED vars
  PROVE  FlashInv'
  <1>1. CASE Lose
    <2>1. Pops /\ flash' = flash /\ lost' = TRUE
      BY <1>1 DEF Lose, Pops, host
    <2>. QED
      BY <2>1, IdlePop
  <1>2. CASE Unplug \/ UNCHANGED vars
    <2>1. UNCHANGED <<host, chip, toRom, toHost>>
      BY <1>2 DEF Unplug, vars
    <2>2. /\ Keeps /\ UNCHANGED <<flash, refused, lost>>
          /\ (EndAnswered' => EndAnswered)
      BY <2>1, NextRankType DEF Keeps, NextRank, Looping, EndAnswered, host, chip
    <2>3. OrderInv' /\ ArrivalInv'
      BY <2>2, KeepOrder, KeepArrival DEF FlashInv
    <2>. QED
      BY <2>2, <2>3 DEF FlashInv, RightPlace, PrefixWritten
  <1>. QED
    BY <1>1, <1>2

\* Before the loader and after it, the application runs with nothing on its way.
LEMMA OutsideStep == ScalarsOK /\ QueuesOK /\ OutsideInv /\ [Next]_vars => OutsideInv'
  <1>. SUFFICES ASSUME ScalarsOK, QueuesOK, OutsideInv, [Next]_vars PROVE OutsideInv'
    OBVIOUS
  <1>. DEFINE Out == {"open", "enter", "lastFlush", "done"}
  <1>1. CASE HostStep
    <2>1. CASE FlushEnd
      <3>1. CASE pc = "lastFlush"
        BY <2>1, <3>1 DEF FlushEnd, OutsideInv, AfterFlush, Goto, ReadTimeout, chip
      <3>2. CASE pc # "lastFlush"
        <4>1. pc' \in {"sync", "pulse"}
          BY <2>1, <3>2 DEF FlushEnd, AfterFlush, Goto
        <4>. QED
          BY <4>1 DEF OutsideInv
      <3>. QED
        BY <3>1, <3>2
    <2>2. CASE ResetPulse
      BY <2>2 DEF ResetPulse, OutsideInv
    <2>3. CASE OpenFails
      BY <2>3 DEF OpenFails, OutsideInv, chip
    <2>4. CASE PortFails
      BY <2>4 DEF PortFails, OutsideInv
    <2>5. CASE Open
      BY <2>5 DEF Open, OutsideInv, Goto, chip
    <2>6. CASE FlushLine
      BY <2>6 DEF FlushLine, OutsideInv, host, chip
    <2>7. CASE ResponseTimeout \/ ResponseArrives
      <3>1. pc' \in {"begin", "data", "end", "reset"}
        BY <2>7 DEF ResponseTimeout, ResponseArrives, Proceed, NextBlock, Goto, Raise, Awaited
      <3>. QED
        BY <3>1 DEF OutsideInv
    <2>8. CASE EnterDownloadMode
      BY <2>8 DEF EnterDownloadMode, OutsideInv, Goto
    <2>9. ASSUME \/ SendSync \/ SyncGivesUp \/ SyncRetries \/ SyncAnswered \/ Drain
                 \/ SyncFails \/ SendAttach \/ SendBegin \/ SendData \/ SendEnd
                 \/ ResponseInvalid
          PROVE  pc' \notin Out
      BY <2>9 DEF SendSync, SyncGivesUp, SyncRetries, SyncAnswered, Drain, SyncFails,
                  SendAttach, SendBegin, SendData, SendEnd, Send, ResponseInvalid, Goto, Raise
    <2>. QED
      BY <1>1, <2>1, <2>2, <2>3, <2>4, <2>5, <2>6, <2>7, <2>8, <2>9 DEF HostStep, OutsideInv
  <1>2. CASE ChipPrints
    BY <1>2 DEF ChipPrints, OutsideInv, host
  <1>3. ASSUME ChipStep, ~ChipPrints PROVE OutsideInv'
    <2>1. /\ mode = "download" /\ toRom # <<>>
          /\ UNCHANGED <<pc, plugged>>
      BY <1>3 DEF ChipStep, RomSync, RomAttach, RomBegin, RomData, RomRefuses, RomEnd,
                  RomTakes, host
    <2>. QED
      BY <2>1 DEF OutsideInv
  <1>4. CASE Lose
    BY <1>4 DEF Lose, OutsideInv, host
  <1>5. CASE Unplug
    BY <1>5 DEF Unplug, OutsideInv
  <1>6. CASE UNCHANGED vars
    BY <1>6 DEF vars, host, chip, OutsideInv
  <1>. QED
    BY <1>1, <1>2, <1>3, <1>4, <1>5, <1>6 DEF Next, Done

-----------------------------------------------------------------------------
(* The theorems.                                                           *)

\* The invariant in the parts the lemmas preserve.
LEMMA InvParts ==
  EspIInv <=> ScalarsOK /\ QueuesOK /\ FlagsOK /\ LoopInv /\ FlashInv /\ OutsideInv
  BY TypeParts DEF EspIInv, FlashInv, OrderInv

\* The invariant holds before anything has been sent.
LEMMA InvInit == Init => EspIInv
  <1>. SUFFICES ASSUME Init PROVE EspIInv
    OBVIOUS
  <1>1. TypeOK /\ TryInv
    BY TypeInit
  <1>2. Queued = {} /\ 1 .. Len(toHost) = {}
    BY EmptyFacts DEF Init, Queued
  <1>3. \A b \in Blocks : flash[b] = Stale
    BY DEF Init
  <1>4. LoopInv /\ OutsideInv
    BY DEF Init, LoopInv, OutsideInv
  <1>5. PayloadInv /\ SortedInv /\ FrontierInv /\ RightPlace /\ PrefixWritten
    BY <1>2, <1>3 DEF PayloadInv, SortedInv, FrontierInv, RightPlace, PrefixWritten
  <1>6. ~Looping /\ ~EndAnswered
    BY <1>2 DEF Init, Looping, EndAnswered
  <1>7. ArrivalInv
    BY <1>2, <1>6 DEF ArrivalInv
  <1>. QED
    BY <1>1, <1>4, <1>5, <1>7 DEF EspIInv

\* Every step keeps it.
LEMMA InvStep == EspIInv /\ [Next]_vars => EspIInv'
  <1>. SUFFICES ASSUME EspIInv, [Next]_vars PROVE EspIInv'
    OBVIOUS
  <1>1. ScalarsOK /\ QueuesOK /\ FlagsOK /\ LoopInv /\ FlashInv /\ OutsideInv
    BY InvParts
  <1>2. TypeOK' /\ TryInv'
    BY TypeStep DEF EspIInv
  <1>3. LoopInv'
    BY <1>1, LoopStep
  <1>4. FlashInv'
    BY <1>1, HostFlash, ChipFlash, RestFlash DEF Next, Done
  <1>5. OutsideInv'
    BY <1>1, OutsideStep
  <1>. QED
    BY <1>2, <1>3, <1>4, <1>5 DEF EspIInv, FlashInv, OrderInv

\* The inductive invariant holds of every behaviour.
THEOREM Invariant == Spec => []EspIInv
  BY InvInit, InvStep, PTL DEF Spec

\* An answer to FLASH_END vouches for the whole image, if the ROM refused and
\* missed nothing, however late it answered.
THEOREM EndVouches == Spec => []AnsweredEndMeansLoaded
  <1>1. EspIInv => AnsweredEndMeansLoaded
    BY DEF EspIInv, ArrivalInv, EndAnswered, AnsweredEndMeansLoaded
  <1>. QED
    BY <1>1, Invariant, PTL

\* No block is written at another's place, whatever goes wrong.
THEOREM BlocksInPlace == Spec => []RightPlace
  <1>1. EspIInv => RightPlace
    BY DEF EspIInv
  <1>. QED
    BY <1>1, Invariant, PTL

\* What is written is a prefix of the image, unless the ROM refused or missed a
\* request.
THEOREM PrefixInFlash == Spec => []PrefixWritten
  <1>1. EspIInv => PrefixWritten
    BY DEF EspIInv
  <1>. QED
    BY <1>1, Invariant, PTL

\* The command leaves a connected chip in its application.
THEOREM AppAtExit == Spec => []ExitLeavesApp
  <1>1. EspIInv => ExitLeavesApp
    BY DEF EspIInv, OutsideInv, ExitLeavesApp
  <1>. QED
    BY <1>1, Invariant, PTL

\* No step erases or overwrites a block that is in place.
LEMMA StayStep ==
  EspIInv /\ [Next]_vars => \A b \in Blocks : flash[b] = b => flash'[b] = b
  <1>. SUFFICES ASSUME EspIInv, [Next]_vars, NEW b \in Blocks, flash[b] = b
                PROVE  flash'[b] = b
    OBVIOUS
  <1>1. QueuesOK /\ flash \in [Blocks -> {Stale, Erased} \cup Nat]
    BY InvParts DEF ScalarsOK
  <1>2. toRom # <<>> => 3 + b < Rank(Head(toRom)) /\ Head(toRom) \in Request
    BY <1>1, TailFacts DEF EspIInv, FrontierInv, Queued, QueuesOK
  <1>3. ASSUME RomBegin PROVE FALSE
    <2>1. toRom # <<>> /\ Head(toRom).cmd = "BEGIN"
      BY <1>3, RomTaking DEF RomBegin
    <2>. QED
      BY <1>2, <2>1, RankFacts
  <1>4. CASE RomData
    <2>1. /\ toRom # <<>> /\ Head(toRom).cmd = "DATA"
          /\ flash' = [flash EXCEPT ![Head(toRom).seq] = Head(toRom).block]
      BY <1>4 DEF RomData, RomTakes
    <2>2. Head(toRom).seq # b
      BY <1>2, <2>1, RankFacts
    <2>. QED
      BY <1>1, <2>1, <2>2
  <1>5. \/ RomBegin \/ RomData \/ flash' = flash
    BY DEF Next, Done, HostStep, Open, OpenFails, EnterDownloadMode, FlushLine, FlushEnd,
           SendSync, SyncGivesUp, SyncRetries, SyncAnswered, Drain, SyncFails, SendAttach,
           SendBegin, SendData, SendEnd, Send, ResponseTimeout, ResponseArrives,
           ResponseInvalid, PortFails, ResetPulse, ChipStep, ChipPrints, RomSync,
           RomAttach, RomRefuses, RomEnd, Lose, Unplug, vars, chip
  <1>. QED
    BY <1>3, <1>4, <1>5

\* A block in place stays there: late requests neither erase nor overwrite it.
THEOREM WrittenStaysWritten == Spec => WrittenStays
  BY Invariant, StayStep, PTL DEF Spec, WrittenStays

\* The flash changes only by a request the loader has.
LEMMA SilentStep ==
  EspIInv /\ [Next]_vars => ((pc \in {"lastFlush", "done"} /\ plugged) => flash' = flash)
  <1>. SUFFICES ASSUME EspIInv, [Next]_vars, pc \in {"lastFlush", "done"}, plugged
                PROVE  flash' = flash
    OBVIOUS
  <1>1. mode = "app"
    BY DEF EspIInv, OutsideInv
  <1>2. ~RomBegin /\ ~RomData
    BY <1>1 DEF RomBegin, RomData, RomTakes
  <1>. QED
    BY <1>2
       DEF Next, Done, HostStep, Open, OpenFails, EnterDownloadMode, FlushLine, FlushEnd,
           SendSync, SyncGivesUp, SyncRetries, SyncAnswered, Drain, SyncFails, SendAttach,
           SendBegin, SendData, SendEnd, Send, ResponseTimeout, ResponseArrives,
           ResponseInvalid, PortFails, ResetPulse, ChipStep, ChipPrints, RomSync,
           RomAttach, RomRefuses, RomEnd, Lose, Unplug, vars, chip

\* Once the chip is reset no request that was left behind writes to its flash.
THEOREM NoLateWrite == Spec => NoWriteAfterReset
  BY Invariant, SilentStep, PTL DEF Spec, NoWriteAfterReset
=============================================================================
