-------------------------------- MODULE Slip --------------------------------
(***************************************************************************)
(* The bytes under EspFlash's frames: slip_encode, slip_decode,            *)
(* check_response and recv_response of tools/espctl/espctl.py, which reads *)
(* the line byte by byte while the chip writes frames, pieces of frames    *)
(* and text on it.                                                         *)
(***************************************************************************)
EXTENDS Integers, Sequences, SequencesExt

CONSTANTS
  Responses,   \* packets the ROM may send, each a sequence of bytes
  Commands,    \* the commands the host may await the response of
  Texts,       \* what else the chip may print, sequences of bytes
  CodecData,   \* sequences of bytes to check the codec with
  MaxWrites    \* how often the chip writes: a bound of the model

END == 192        \* SLIP_END, 0xC0
ESC == 219        \* SLIP_ESC, 0xDB
ESC_END == 220
ESC_ESC == 221
Header == 8       \* bytes before the data

Bytes == 0 .. 255

\* Seeded fault: the size is not compared with the length.
Valid_NoSize(packet, cmd) ==
  Len(packet) >= Header /\ packet[1] = 1 /\ packet[2] = cmd

\* check_response of a packet, for the command cmd.
Valid(packet, cmd) ==
  /\ Len(packet) >= Header
  /\ packet[1] = 1 /\ packet[2] = cmd
  /\ Len(packet) = Header + packet[3] + 256 * packet[4]

\* What text is made of: ASCII has neither SLIP's special bytes nor the byte that every
\* response begins with.
TextBytes == Bytes \ {1, END, ESC}

ASSUME SlipAssumption ==
  /\ MaxWrites \in Nat /\ Commands \subseteq Bytes
  /\ \A d \in CodecData : d \in Seq(Bytes)
  /\ \A r \in Responses : r \in Seq(Bytes) /\ \E c \in Bytes : Valid(r, c)
  /\ \A t \in Texts : t \in Seq(TextBytes)

\* Seeded fault: SLIP_ESC is not escaped.
EncodeByte_EndOnly(b) == IF b = END THEN <<ESC, ESC_END>> ELSE <<b>>

\* One byte of slip_encode.
EncodeByte(b) ==
  CASE b = END -> <<ESC, ESC_END>>
    [] b = ESC -> <<ESC, ESC_ESC>>
    [] OTHER   -> <<b>>

\* slip_encode, which the ROM does as well: after n bytes of the data, upTo[n].
Encode(data) ==
  LET upTo[n \in 0 .. Len(data)] ==
        IF n = 0 THEN <<>> ELSE upTo[n - 1] \o EncodeByte(data[n])
  IN  upTo[Len(data)]

\* One byte of slip_decode.  An unknown byte after SLIP_ESC is dropped with it.
DecodeByte(acc, b) ==
  IF acc.esc
  THEN [esc |-> FALSE,
        data |-> acc.data \o CASE b = ESC_END -> <<END>>
                               [] b = ESC_ESC -> <<ESC>>
                               [] OTHER -> <<>>]
  ELSE IF b = ESC THEN [acc EXCEPT !.esc = TRUE] ELSE [acc EXCEPT !.data = Append(@, b)]

\* slip_decode: data, and whether it reads past the end of what it is given.
Decode(coded) ==
  LET upTo[n \in 0 .. Len(coded)] ==
        IF n = 0 THEN [esc |-> FALSE, data |-> <<>>] ELSE DecodeByte(upTo[n - 1], coded[n])
  IN  upTo[Len(coded)]

VARIABLES
  line,     \* bytes the chip has written or is about to, first to arrive first
  place,    \* the host's place in recv_response
  cmd,      \* the command it awaits the response of
  resp,     \* bytes of the frame so far
  got,      \* packets recv_response has returned
  raised,   \* the exception that has ended the command
  written,  \* history: the packets the chip has written to their last byte
  blemish,  \* history: writes that were no whole packet
  begun,    \* history: bytes of a packet that stand last on the line, without its end
  passable  \* history: text has come where it may have completed such a packet

host == <<place, cmd, resp, got, raised>>
history == <<written, blemish, begun, passable>>
slipVars == <<host, line, history>>

SlipInit ==
  /\ line = <<>> /\ written = <<>> /\ blemish = 0 /\ begun = 0 /\ passable = FALSE
  /\ place = "idle" /\ cmd \in Commands
  /\ resp = <<>> /\ got = <<>> /\ raised = "none"

Framed(packet) == <<END>> \o Encode(packet) \o <<END>>

CanWrite == Len(written) + blemish < MaxWrites

WriteResponse ==
  /\ CanWrite
  /\ \E r \in Responses :
       line' = line \o Framed(r) /\ written' = Append(written, r)
  /\ begun' = 0
  /\ UNCHANGED <<host, blemish, passable>>

\* The chip breaks off: part of a packet is lost with the end of its frame.
WritePart ==
  /\ CanWrite
  /\ \E r \in Responses : \E n \in 1 .. Len(Encode(r)) :
       /\ line' = line \o SubSeq(Framed(r), 1, n)
       /\ begun' = Len(Decode(SubSeq(Encode(r), 1, n - 1)).data)
  /\ blemish' = blemish + 1
  /\ UNCHANGED <<host, written, passable>>

\* A packet whose size stands on the line is not completed by text that is longer than
\* all of a response; any other piece of a packet may be.
Completes(t) ==
  begun \in 1 .. 3 \/ (begun >= 4 /\ \E r \in Responses : Len(t) <= Len(r))

WriteText ==
  /\ CanWrite
  /\ \E t \in Texts :
       line' = line \o t /\ passable' = (passable \/ Completes(t))
  /\ blemish' = blemish + 1 /\ begun' = 0
  /\ UNCHANGED <<host, written>>

-----------------------------------------------------------------------------

Goto(l) == place' = l
BreakOff(e) == raised' = e /\ Goto("raised")

\* Seeded fault: what has arrived is thrown away first.
Call_Flushes ==
  /\ place = "idle" /\ Goto("skip")
  /\ cmd' \in Commands /\ resp' = <<>> /\ line' = <<>>
  /\ UNCHANGED <<got, raised, history>>

\* recv_response is called.
Call ==
  /\ place = "idle" /\ Goto("skip")
  /\ cmd' \in Commands /\ resp' = <<>>
  /\ UNCHANGED <<got, raised, line, history>>

\* Seeded fault: the frame's leading END is taken for its first byte.
Skip_Not ==
  /\ place = "skip" /\ line # <<>>
  /\ line' = Tail(line)
  /\ resp' = Append(resp, Head(line)) /\ Goto("collect")
  /\ UNCHANGED <<cmd, got, raised, history>>

\* The first loop: ENDs are skipped.
Skip ==
  /\ place = "skip" /\ line # <<>>
  /\ line' = Tail(line)
  /\ IF Head(line) = END
     THEN UNCHANGED <<place, resp>>
     ELSE resp' = Append(resp, Head(line)) /\ Goto("collect")
  /\ UNCHANGED <<cmd, got, raised, history>>

\* At any byte the chip may be slower than the port's timeout.
SkipTimeout ==
  /\ place = "skip" /\ Goto("idle")   \* returns None
  /\ UNCHANGED <<cmd, resp, got, raised, line, history>>

Collect ==
  /\ place = "collect" /\ line # <<>> /\ Head(line) # END
  /\ line' = Tail(line)
  /\ resp' = Append(resp, Head(line))
  /\ UNCHANGED <<place, cmd, got, raised, history>>

CollectTimeout ==
  /\ place = "collect" /\ BreakOff("SerialTimeoutException")
  /\ UNCHANGED <<cmd, resp, got, line, history>>

\* The end of the frame: it is decoded, checked and returned.
Finish ==
  /\ place = "collect" /\ line # <<>> /\ Head(line) = END
  /\ line' = Tail(line)
  /\ LET d == Decode(resp) IN
       \/ d.esc /\ BreakOff("IndexError") /\ UNCHANGED got
       \/ ~d.esc /\ ~Valid(d.data, cmd) /\ BreakOff("ValueError") /\ UNCHANGED got
       \/ ~d.esc /\ Valid(d.data, cmd) /\ got' = Append(got, d.data)
            /\ Goto("idle") /\ UNCHANGED raised
  /\ UNCHANGED <<cmd, resp, history>>

Host == Call \/ Skip \/ SkipTimeout \/ Collect \/ CollectTimeout \/ Finish

\* The command has been broken off by the exception.
Stopped ==
  /\ place = "raised"
  /\ UNCHANGED slipVars

SlipNext == WriteResponse \/ WritePart \/ WriteText \/ Host \/ Stopped

SlipSpec == SlipInit /\ [][SlipNext]_slipVars

-----------------------------------------------------------------------------
(* Properties.                                                             *)

\* slip_decode undoes slip_encode after whatever has been read of a frame, unless that
\* breaks off within an escape; and what slip_encode makes holds no END.  Neither an
\* END nor an escape in the data is ever taken for the protocol's own.
CodecUndone ==
  ~Decode(resp).esc =>
    \A d \in CodecData :
      /\ Decode(resp \o Encode(d)) = [esc |-> FALSE, data |-> Decode(resp).data \o d]
      /\ ~Contains(Encode(d), END)

\* recv_response returns the packets the ROM wrote, byte for byte, in their order,
\* each once: never one it put together from the pieces of others or from text.  There
\* is one exception and no other: text right behind a piece of a packet may supply just
\* the bytes that are missing, and as a frame has no checksum, check_response passes it.
OnlyWritten == ~passable => IsPrefix(got, written)

\* A packet is not passed over: as long as no exception has ended the command, all
\* that were written have been returned or are still on the line, text that may have
\* completed a piece of a packet again excepted.
NoneSkipped ==
  ~passable /\ raised = "none" /\ place # "collect" /\ line = <<>> => got = written

\* While the chip writes nothing but whole packets, it takes one that comes too
\* slowly, or the answer to another command, to end the command.
RaisedForCause ==
  blemish = 0 /\ raised \notin {"none", "SerialTimeoutException"} =>
    /\ raised = "ValueError"
    /\ Len(got) < Len(written) /\ ~Valid(written[Len(got) + 1], cmd)
=============================================================================
