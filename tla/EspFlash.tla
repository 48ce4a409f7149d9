------------------------------ MODULE EspFlash ------------------------------
(***************************************************************************)
(* `espctl flash`: the host process of tools/espctl/espctl.py writes an    *)
(* image to the flash of the chip through the chip's ROM loader.           *)
(*                                                                         *)
(* Three parties: the host, which runs esp_flash; the serial link, a FIFO  *)
(* in each direction; and the chip, whose ROM loader is external to the    *)
(* repository and is modelled from the requests the host makes of it.      *)
(*                                                                         *)
(* A SLIP frame is one element of a FIFO.  A block of the image is its     *)
(* index in the file, so that flash[b] = b says that block b is in place.  *)
(***************************************************************************)
EXTENDS Integers, Sequences

CONSTANTS
  NBlocks,      \* nr_blocks, the image's length in blocks of MAX_BLOCK_SIZE
  MaxAttempts,  \* SYNC requests before sync gives up (10 in the code)
  SyncReplies,  \* the most frames the ROM answers one SYNC request with
  BootLines,    \* the most lines the chip prints when it starts
  FaultSets     \* the sets of faults of which a run has one

FaultKinds ==
  { "busy",     \* the port cannot be opened
    "late",     \* the chip answers after the port's read timeout
    "nak",      \* the ROM answers a request with a non-zero status
    "loss",     \* the ROM receives a request garbled, and drops it
    "cut",      \* a reply reaches the host without its end
    "unplug" }  \* the cable is pulled

ASSUME EspAssumption ==
  /\ NBlocks \in Nat
  /\ MaxAttempts \in Nat \ {0}
  /\ SyncReplies \in Nat \ {0}
  /\ BootLines \in Nat
  /\ FaultSets \subseteq SUBSET FaultKinds

Blocks == 0 .. NBlocks - 1
Stale == -2    \* the flash holds what it held before
Erased == -1

VARIABLES
  faults,    \* what may go wrong in this run
  pc,        \* the host's place in esp_flash
  attempt,   \* i of sync's loop
  seq,       \* seq of esp_flash's loop
  sliced,    \* blocks already cut off the front of input_bin
  outcome,   \* how esp_flash ends: what it prints or raises
  toRom,     \* requests on their way to the chip
  toHost,    \* frames and text on their way to the host
  plugged,   \* the cable is connected
  mode,      \* what the chip runs: the application or the ROM loader
  lines,     \* lines the chip has yet to print since it started
  begun,     \* the ROM has accepted a FLASH_BEGIN
  flash,     \* contents of the image's region of the flash
  ended,     \* history: the host got the ROM's answer to FLASH_END
  refused,   \* history: the ROM refused a FLASH_BEGIN or a FLASH_DATA
  lost       \* history: the ROM dropped a request

host == <<pc, attempt, seq, sliced, outcome, ended>>
chip == <<mode, lines, begun, flash, refused, lost>>
vars == <<faults, host, chip, toRom, toHost, plugged>>

Commands == {"SYNC", "ATTACH", "BEGIN", "DATA", "END"}
Request == [cmd: Commands, seq: Nat, block: Nat]
Frame == [kind: {"reply"}, cmd: Commands, ok: BOOLEAN] \cup [kind: {"junk"}]

Junk == [kind |-> "junk"]   \* text, or a frame without its end
Reply(c, ok) == [kind |-> "reply", cmd |-> c, ok |-> ok]

Sending == {"sync", "attach", "begin", "data", "end"}
Waiting == {"syncWait", "drain", "attachWait", "beginWait", "dataWait", "endWait"}
Body == {"enter", "flush"} \cup Sending \cup Waiting   \* the try of esp_flash
Finally == {"reset", "pulse", "lastFlush"}
Pcs == {"open", "done"} \cup Body \cup Finally

Outcomes == {"running", "clean", "SerialException", "ValueError", "uncaught"}

Init ==
  /\ faults \in FaultSets
  /\ pc = "open" /\ attempt = 0 /\ seq = 0 /\ sliced = 0
  /\ outcome = "running" /\ ended = FALSE
  /\ toRom = <<>> /\ toHost = <<>> /\ plugged = TRUE
  /\ mode = "app" /\ lines = 0 /\ begun = FALSE
  /\ flash = [b \in Blocks |-> Stale]
  /\ refused = FALSE /\ lost = FALSE

-----------------------------------------------------------------------------
(* The host.                                                               *)

Goto(l) == pc' = l
Raise(o) == outcome' = o /\ Goto("reset")

\* The chip still has something to say: a request to answer or a line to print.
Owing == lines > 0 \/ toRom # <<>>

\* ser.read or ser.readline returns nothing within the port's timeout.
ReadTimeout ==
  /\ plugged
  /\ toHost = <<>>
  /\ Owing => "late" \in faults

Open ==
  /\ pc = "open"
  /\ Goto("enter")
  /\ UNCHANGED <<attempt, seq, sliced, outcome, ended, chip, toRom, toHost, plugged>>

\* serial.Serial raises; the handler prints, and the finally clause fails on
\* `protocol`, which was never bound.
OpenFails ==
  /\ pc = "open"
  /\ "busy" \in faults \/ ~plugged
  /\ outcome' = "uncaught" /\ Goto("done")
  /\ UNCHANGED <<attempt, seq, sliced, ended, chip, toRom, toHost, plugged>>

\* The DTR and RTS sequence resets the chip into the ROM loader.
EnterDownloadMode ==
  /\ pc = "enter" /\ plugged
  /\ Goto("flush")
  /\ mode' = "download" /\ begun' = FALSE /\ toRom' = <<>>
  /\ lines' \in 0 .. BootLines
  /\ UNCHANGED <<attempt, seq, sliced, outcome, ended, flash, refused, lost, toHost, plugged>>

\* Seeded faults: no RTS pulse; a loop that never breaks.
AfterFlush_NoPulse == [flush |-> "sync", reset |-> "lastFlush", lastFlush |-> "done"]
AfterFlush_NoBreak == [flush |-> "sync", reset |-> "pulse", lastFlush |-> "lastFlush"]

AfterFlush == [flush |-> "sync", reset |-> "pulse", lastFlush |-> "done"]

FlushLine ==
  /\ pc \in DOMAIN AfterFlush /\ plugged
  /\ toHost # <<>> /\ toHost' = Tail(toHost)
  /\ UNCHANGED <<host, chip, toRom, plugged>>

FlushEnd ==
  /\ pc \in DOMAIN AfterFlush
  /\ ReadTimeout
  /\ Goto(AfterFlush[pc])
  /\ UNCHANGED <<attempt, seq, sliced, outcome, ended, chip, toRom, toHost, plugged>>

SendCommand(c, s, b) ==
  toRom' = Append(toRom, [cmd |-> c, seq |-> s, block |-> b])

AttemptsLeft == attempt < MaxAttempts

SendSync ==
  /\ pc = "sync" /\ plugged
  /\ AttemptsLeft
  /\ SendCommand("SYNC", 0, 0)
  /\ Goto("syncWait")
  /\ UNCHANGED <<attempt, seq, sliced, outcome, ended, chip, toHost, plugged>>

\* RuntimeError, which esp_flash does not catch.
SyncGivesUp ==
  /\ pc = "sync" /\ ~AttemptsLeft
  /\ Raise("uncaught")
  /\ UNCHANGED <<attempt, seq, sliced, ended, chip, toRom, toHost, plugged>>

\* recv_response returns None, or a response with a non-zero status.
SyncRetries ==
  /\ pc = "syncWait"
  /\ \/ ReadTimeout /\ UNCHANGED toHost
     \/ /\ plugged /\ toHost # <<>>
        /\ Head(toHost) = Reply("SYNC", FALSE)
        /\ toHost' = Tail(toHost)
  /\ attempt' = attempt + 1
  /\ Goto("sync")
  /\ UNCHANGED <<seq, sliced, outcome, ended, chip, toRom, plugged>>

SyncAnswered ==
  /\ pc = "syncWait" /\ plugged
  /\ toHost # <<>> /\ Head(toHost) = Reply("SYNC", TRUE)
  /\ toHost' = Tail(toHost)
  /\ Goto("drain")
  /\ UNCHANGED <<attempt, seq, sliced, outcome, ended, chip, toRom, plugged>>

\* Every further SYNC response is read and dropped until none comes in time.
Drain ==
  /\ pc = "drain"
  /\ \/ ReadTimeout /\ UNCHANGED toHost /\ Goto("attach")
     \/ /\ plugged /\ toHost # <<>>
        /\ Head(toHost) \in {Reply("SYNC", ok) : ok \in BOOLEAN}
        /\ toHost' = Tail(toHost) /\ UNCHANGED pc
  /\ UNCHANGED <<attempt, seq, sliced, outcome, ended, chip, toRom, plugged>>

\* Anything else raises in sync's try.  Its except clause names an undefined
\* SerialTimeoutException, so a NameError replaces whatever was raised.
SyncFails ==
  /\ pc \in {"syncWait", "drain"} /\ plugged
  /\ toHost # <<>>
  /\ Head(toHost) \notin {Reply("SYNC", ok) : ok \in BOOLEAN}
  /\ toHost' = Tail(toHost)
  /\ Raise("uncaught")
  /\ UNCHANGED <<attempt, seq, sliced, ended, chip, toRom, plugged>>

Send(at, c, s, b) ==
  /\ pc = at /\ plugged
  /\ SendCommand(c, s, b)
  /\ UNCHANGED <<attempt, seq, outcome, ended, chip, toHost, plugged>>

SendAttach == Send("attach", "ATTACH", 0, 0) /\ Goto("attachWait") /\ UNCHANGED sliced
SendBegin == Send("begin", "BEGIN", 0, 0) /\ Goto("beginWait") /\ UNCHANGED sliced
SendEnd == Send("end", "END", 0, 0) /\ Goto("endWait") /\ UNCHANGED sliced

\* Seeded faults: input_bin is not cut; it is cut before it is sent, and seq runs
\* from 1.
SendData_NotCut ==
  /\ Send("data", "DATA", seq, sliced)
  /\ Goto("dataWait")
  /\ UNCHANGED sliced
SendData_OneBased ==
  /\ Send("data", "DATA", seq + 1, sliced + 1)
  /\ Goto("dataWait")
  /\ sliced' = sliced + 1

\* The payload is the first block of what is left of input_bin.  The loop cuts
\* it off once flash_data returns, which nothing can observe before then.
SendData ==
  /\ Send("data", "DATA", seq, sliced)
  /\ Goto("dataWait")
  /\ sliced' = sliced + 1

\* Seeded fault: the last, partial block is not counted.
NextBlock_SkipsLast(s) ==
  /\ seq' = s
  /\ Goto(IF s + 1 < NBlocks THEN "data" ELSE "end")

\* `for seq in range(...)`: to the next block, or to FLASH_END after the last.
NextBlock(s) ==
  /\ seq' = s
  /\ Goto(IF s < NBlocks THEN "data" ELSE "end")

\* Seeded fault: flash_begin is called within the loop.
Proceed_BeginsAgain ==
  CASE pc = "attachWait" -> Goto("begin") /\ UNCHANGED <<seq, outcome>>
    [] pc = "beginWait" -> Goto("data") /\ UNCHANGED <<seq, outcome>>
    [] pc = "dataWait" -> /\ seq' = seq + 1
                          /\ Goto(IF seq' < NBlocks THEN "begin" ELSE "end")
                          /\ UNCHANGED outcome
    [] pc = "endWait" -> Raise("clean") /\ UNCHANGED seq

\* The statement after the one that waited: esp_flash looks at no result.
Proceed ==
  CASE pc = "attachWait" -> Goto("begin") /\ UNCHANGED <<seq, outcome>>
    [] pc = "beginWait" -> NextBlock(0) /\ UNCHANGED outcome
    [] pc = "dataWait" -> NextBlock(seq + 1) /\ UNCHANGED outcome
    [] pc = "endWait" -> Raise("clean") /\ UNCHANGED seq

Awaited == [attachWait |-> "ATTACH", beginWait |-> "BEGIN",
            dataWait |-> "DATA", endWait |-> "END"]

\* recv_response returns None: the command prints a timeout, returns False, and
\* esp_flash goes on.
ResponseTimeout ==
  /\ pc \in DOMAIN Awaited
  /\ ReadTimeout
  /\ Proceed
  /\ UNCHANGED <<attempt, sliced, ended, chip, toRom, toHost, plugged>>

\* A response to the command, whatever its status.
ResponseArrives ==
  /\ pc \in DOMAIN Awaited /\ plugged
  /\ toHost # <<>>
  /\ Head(toHost) \in {Reply(Awaited[pc], ok) : ok \in BOOLEAN}
  /\ toHost' = Tail(toHost)
  /\ ended' = (ended \/ pc = "endWait")
  /\ Proceed
  /\ UNCHANGED <<attempt, sliced, chip, toRom, plugged>>

\* check_response raises ValueError on a response to another command.  Junk is
\* such a response if more bytes end it in time (an uncaught IndexError of
\* slip_decode if it then ends in SLIP_ESC), and a timeout within a packet
\* (SerialTimeoutException, a SerialException) if not.
ResponseInvalid ==
  /\ pc \in DOMAIN Awaited /\ plugged
  /\ toHost # <<>>
  /\ Head(toHost) \notin {Reply(Awaited[pc], ok) : ok \in BOOLEAN}
  /\ toHost' = Tail(toHost)
  /\ \/ Raise("ValueError")
     \/ Head(toHost) = Junk /\ (Raise("SerialException") \/ Raise("uncaught"))
  /\ UNCHANGED <<attempt, seq, sliced, ended, chip, toRom, plugged>>

\* A read, a write or a modem line fails with SerialException.  In sync it ends
\* as a NameError; in the finally clause nothing catches it.
PortFails ==
  /\ ~plugged
  /\ \/ /\ pc \in Body
        /\ Raise(IF pc \in {"sync", "syncWait", "drain"} THEN "uncaught"
                 ELSE "SerialException")
     \/ /\ pc \in Finally
        /\ outcome' = "uncaught" /\ Goto("done")
  /\ UNCHANGED <<attempt, seq, sliced, ended, chip, toRom, toHost, plugged>>

\* reset pulses RTS with DTR low: the chip restarts into its application.
ResetPulse ==
  /\ pc = "pulse" /\ plugged
  /\ Goto("lastFlush")
  /\ mode' = "app" /\ begun' = FALSE /\ toRom' = <<>>
  /\ lines' \in 0 .. BootLines
  /\ UNCHANGED <<attempt, seq, sliced, outcome, ended, flash, refused, lost, toHost, plugged>>

HostStep ==
  /\ \/ Open \/ OpenFails \/ EnterDownloadMode \/ FlushLine \/ FlushEnd
     \/ SendSync \/ SyncGivesUp \/ SyncRetries \/ SyncAnswered \/ Drain \/ SyncFails
     \/ SendAttach \/ SendBegin \/ SendData \/ SendEnd
     \/ ResponseTimeout \/ ResponseArrives \/ ResponseInvalid
     \/ PortFails \/ ResetPulse
  /\ UNCHANGED faults

-----------------------------------------------------------------------------
(* The chip and the link.                                                  *)

ToHost(fs) == toHost' = toHost \o fs

ChipPrints ==
  /\ lines > 0
  /\ lines' = lines - 1
  /\ ToHost(<<Junk>>)
  /\ UNCHANGED <<host, mode, begun, flash, refused, lost, toRom, plugged>>

\* The ROM loader takes requests once it has printed its banner.
RomTakes(c) ==
  /\ mode = "download" /\ lines = 0
  /\ toRom # <<>> /\ Head(toRom).cmd = c
  /\ toRom' = Tail(toRom)

\* A frame may lose its end on the way to the host.
Answer(c, ok) ==
  \/ ToHost(<<Reply(c, ok)>>)
  \/ "cut" \in faults /\ ToHost(<<Junk>>)

\* The loader answers one SYNC with several responses.
RomSync ==
  /\ RomTakes("SYNC")
  /\ \/ \E n \in 1 .. SyncReplies : ToHost([i \in 1 .. n |-> Reply("SYNC", TRUE)])
     \/ "cut" \in faults /\ ToHost(<<Junk>>)
     \/ "nak" \in faults /\ ToHost(<<Reply("SYNC", FALSE)>>)
  /\ UNCHANGED <<host, chip, plugged>>

RomAttach ==
  /\ RomTakes("ATTACH")
  /\ \E ok \in BOOLEAN : (~ok => "nak" \in faults) /\ Answer("ATTACH", ok)
  /\ UNCHANGED <<host, chip, plugged>>

\* FLASH_BEGIN erases the region it names.
RomBegin ==
  /\ RomTakes("BEGIN")
  /\ begun' = TRUE
  /\ flash' = [b \in Blocks |-> Erased]
  /\ Answer("BEGIN", TRUE)
  /\ UNCHANGED <<host, mode, lines, refused, lost, plugged>>

RomData ==
  /\ RomTakes("DATA") /\ begun
  /\ flash' = [flash EXCEPT ![Head(toRom).seq] = Head(toRom).block]
  /\ Answer("DATA", TRUE)
  /\ UNCHANGED <<host, mode, lines, begun, refused, lost, plugged>>

RomRefuses ==
  /\ \E c \in {"BEGIN", "DATA"} :
       /\ RomTakes(c) /\ Answer(c, FALSE)
       /\ "nak" \in faults \/ (c = "DATA" /\ ~begun)
  /\ refused' = TRUE
  /\ UNCHANGED <<host, mode, lines, begun, flash, lost, plugged>>

\* Whether the loader starts the application here is the ROM's affair.
RomEnd ==
  /\ RomTakes("END")
  /\ \E ok \in BOOLEAN : (~ok => "nak" \in faults) /\ Answer("END", ok)
  /\ \/ UNCHANGED <<mode, lines, begun>>
     \/ mode' = "app" /\ begun' = FALSE /\ lines' \in 0 .. BootLines
  /\ UNCHANGED <<host, flash, refused, lost, plugged>>

ChipStep ==
  /\ \/ ChipPrints
     \/ RomSync \/ RomAttach \/ RomBegin \/ RomData \/ RomRefuses \/ RomEnd
  /\ UNCHANGED faults

Lose ==
  /\ "loss" \in faults
  /\ toRom # <<>> /\ mode = "download"
  /\ toRom' = Tail(toRom)
  /\ lost' = TRUE
  /\ UNCHANGED <<faults, host, mode, lines, begun, flash, refused, toHost, plugged>>

Unplug ==
  /\ "unplug" \in faults
  /\ plugged /\ pc # "done"
  /\ plugged' = FALSE
  /\ UNCHANGED <<faults, host, chip, toRom, toHost>>

Done ==
  /\ pc = "done"
  /\ UNCHANGED vars

Next == HostStep \/ ChipStep \/ Lose \/ Unplug \/ Done

\* Reads are timed, so the host always gets to its next step; the chip runs.
Fairness == WF_vars(HostStep) /\ WF_vars(ChipStep)

Spec == Init /\ [][Next]_vars /\ Fairness

-----------------------------------------------------------------------------
(* Properties.                                                             *)

TypeOK ==
  /\ pc \in Pcs
  /\ attempt \in 0 .. MaxAttempts
  /\ seq \in Nat /\ sliced \in Nat
  /\ outcome \in Outcomes
  /\ toRom \in Seq(Request) /\ toHost \in Seq(Frame)
  /\ plugged \in BOOLEAN
  /\ mode \in {"app", "download"}
  /\ lines \in Nat
  /\ begun \in BOOLEAN
  /\ flash \in [Blocks -> {Stale, Erased} \cup Nat]
  /\ ended \in BOOLEAN /\ refused \in BOOLEAN /\ lost \in BOOLEAN

Loaded == \A b \in Blocks : flash[b] = b

\* If the host got an answer to FLASH_END, and the ROM has refused and missed
\* nothing, the whole image is in the flash: however late the answers to the
\* blocks were, and whether or not esp_flash waited for them.
AnsweredEndMeansLoaded == ended /\ ~refused /\ ~lost => Loaded

\* A block is never written at another block's place.
RightPlace == \A b \in Blocks : flash[b] \in {Stale, Erased, b}

\* Unless the ROM refused or missed a request, what is written of the image is
\* a prefix of it, also when esp_flash is broken off between two blocks.
PrefixWritten ==
  ~refused /\ ~lost =>
    \A b \in Blocks : flash[b] = b => \A a \in 0 .. b : flash[a] = a

\* A block that is in place is neither erased nor overwritten: not by a request
\* the host sent before it gave up waiting, nor by one that arrives late.
WrittenStays ==
  [][\A b \in Blocks : flash[b] = b => flash'[b] = b]_vars

\* However esp_flash ends, a chip that is still connected runs its application
\* and not the loader.
ExitLeavesApp == pc = "done" /\ plugged => mode = "app"

\* Nothing is written to the flash once the chip has been reset, unless the cable
\* came out before the reset could be sent: esp_flash does not race with requests
\* it left behind.
NoWriteAfterReset ==
  [][(pc \in {"lastFlush", "done"} /\ plugged) => flash' = flash]_vars

\* `espctl flash` comes to an end, whatever goes wrong.
Terminates == <>(pc = "done")

\* With nothing going wrong the image gets into the flash, the chip starts, and
\* esp_flash ends without complaint.
LoadsWhenHealthy ==
  faults = {} => <>(pc = "done" /\ outcome = "clean" /\ Loaded /\ mode = "app")

\* The help of the command: "Load image to ESP32C6 flash".  Ending without
\* complaint means that it was loaded.
CleanMeansLoaded == pc = "done" /\ outcome = "clean" => Loaded

-----------------------------------------------------------------------------
(* The inductive invariant behind the safety properties.                   *)

\* The place of a request in the order in which esp_flash sends them.
Rank(r) ==
  CASE r.cmd = "SYNC" -> 0
    [] r.cmd = "ATTACH" -> 1
    [] r.cmd = "BEGIN" -> 2
    [] r.cmd = "DATA" -> 3 + r.seq
    [] r.cmd = "END" -> 3 + NBlocks

\* Every request sent so far ranks below this.
NextRank ==
  CASE pc \in {"open", "enter", "flush", "sync", "syncWait", "drain", "attach"} -> 1
    [] pc \in {"attachWait", "begin"} -> 2
    [] pc = "beginWait" -> 3
    [] pc = "data" -> 3 + seq
    [] pc = "dataWait" -> 4 + seq
    [] pc = "end" -> 3 + NBlocks
    [] OTHER -> 4 + NBlocks

Queued == 1 .. Len(toRom)

\* sync waits for an answer only while it has attempts left to count.
TryInv == pc = "syncWait" => attempt < MaxAttempts

\* seq, sliced and the loop of esp_flash agree.
LoopInv ==
  /\ pc \in {"open", "enter", "flush", "sync", "syncWait", "drain", "attach",
            "attachWait", "begin", "beginWait"} => sliced = 0
  /\ pc = "data" => seq < NBlocks /\ sliced = seq
  /\ pc = "dataWait" => seq < NBlocks /\ sliced = seq + 1

\* A FLASH_DATA request carries the block its seq names.
PayloadInv ==
  \A i \in Queued : toRom[i].cmd = "DATA" =>
    toRom[i].seq \in Blocks /\ toRom[i].block = toRom[i].seq

\* Requests are sent, and stay, in the order of the image.
SortedInv ==
  /\ \A i \in Queued : Rank(toRom[i]) < NextRank
  /\ \A i, j \in Queued : i < j =>
       Rank(toRom[i]) < Rank(toRom[j]) \/ (Rank(toRom[i]) = 0 /\ Rank(toRom[j]) = 0)

\* A block that is in place comes before every request yet to be handled or sent.
FrontierInv ==
  \A b \in Blocks : flash[b] = b =>
    3 + b < NextRank /\ \A i \in Queued : 3 + b < Rank(toRom[i])

\* A block that has been sent is in place or still in the queue.
Arrived(b) ==
  \/ flash[b] = b
  \/ \E i \in Queued : toRom[i].cmd = "DATA" /\ toRom[i].seq = b

EndAnswered ==
  \/ ended
  \/ \E i \in 1 .. Len(toHost) : toHost[i].kind = "reply" /\ toHost[i].cmd = "END"

Looping == pc \in {"data", "dataWait", "end", "endWait"}

\* Nothing the host has sent is missing, as long as the ROM refuses and misses
\* nothing: neither what comes before the host's next request, nor what comes
\* before a queued one, nor what comes before an answered FLASH_END.
ArrivalInv ==
  ~refused /\ ~lost =>
    /\ Looping => \A b \in Blocks : 3 + b < NextRank => Arrived(b)
    /\ \A i \in Queued : \A b \in Blocks : 3 + b < Rank(toRom[i]) => Arrived(b)
    /\ EndAnswered => Loaded

\* Before the chip is taken into the loader and after it is reset out of it, the
\* application runs and no request is on its way.
OutsideInv ==
  pc \in {"open", "enter", "lastFlush", "done"} /\ plugged =>
    mode = "app" /\ toRom = <<>>

\* What every reachable state satisfies and every step preserves: enough to get
\* each safety property above, none of which is inductive alone.
EspIInv ==
  /\ TypeOK
  /\ TryInv
  /\ LoopInv
  /\ PayloadInv
  /\ SortedInv
  /\ FrontierInv
  /\ RightPlace
  /\ PrefixWritten
  /\ ArrivalInv
  /\ OutsideInv
=============================================================================
