----------------------------- MODULE StubProofs -----------------------------
(***************************************************************************)
(* The functions of lib/stub: io.c under the streams, for every size of    *)
(* the buffers, every offset and any number of characters, and math.c, for *)
(* every number.                                                           *)
(***************************************************************************)
EXTENDS Stdio, SoftFloat, SequenceTheorems, TLAPS

USE StdioAssumption DEF StdioAssumption

\* Every field of a stream, which TypeOK takes one by one.
Files ==
  [ open : {TRUE}, fd : -1 .. 1, rd : BOOLEAN, wr : BOOLEAN, dir : {"none", "rd", "wr"},
    mem : Memory, ball : BOOLEAN, lbf : BOOLEAN, size : Nat \ {0},
    buf : Seq(Nat), off : Nat, pos : Int, unget : BOOLEAN ]

\* The calls that are made of more than one step.
Requests ==
  [name : {"fputc", "fgetc", "fflush", "fclose"}]
    \cup [name : {"fseek", "ftell"}, from : {"SET", "CUR", "END"}, offset : Int]
    \cup [name : {"setvbuf"}, user : BOOLEAN, mode : {"FBF", "LBF", "NBF", "none"}, size : Nat]

DataOK ==
  /\ file \in Files \cup {NoFile}
  /\ blocks \subseteq Memory
  /\ pc \in {"idle", "flush", "write", "flushed"}
  /\ call \in Requests \cup {NoCall}
  /\ out \in Seq(1 .. MaxPut)
  /\ sent \in Nat /\ in \in 0 .. MaxIn /\ undone \in 0 .. MaxIn
  /\ put \in 0 .. MaxPut /\ told \in 0 .. MaxPut

\* Where in a call the program is, and which way the stream goes there: it is
\* flushed while it writes, and what is then done to it finds nothing to write.
PcInv ==
  /\ pc = "idle" <=> call = NoCall
  /\ pc # "idle" => Buffered
  /\ pc = "write" => file.fd = 1
  /\ pc # "write" => sent = 0
  /\ pc \in {"flush", "write"} => file.dir = "wr"
  /\ pc = "flushed" /\ call.name \in Reading => file.dir = "rd"
  /\ pc = "flushed" /\ call.name \notin Reading => file.buf = <<>>

\* The buffer as characters that are to be written: ascending, and what write's
\* loop has passed is out already, the rest above all that is out.
ToWrite ==
  file.open /\ file.dir = "wr" =>
    /\ sent <= Len(file.buf)
    /\ \A i \in 1 .. Len(file.buf) : file.buf[i] \in 1 .. put
    /\ \A i, j \in 1 .. Len(file.buf) : i < j => file.buf[i] < file.buf[j]
    /\ \A i \in 1 .. sent : file.buf[i] \in Taken(out)
    /\ \A i \in sent + 1 .. Len(file.buf) : \A k \in 1 .. Len(out) : out[k] < file.buf[i]

OutInv ==
  /\ OutInOrder
  /\ \A k \in 1 .. Len(out) : out[k] <= put
  /\ told <= put

\* LossIsTold within the calls: only fclose goes on after a failed flush, and tells
\* at its end.
Accounted(c) ==
  \/ c \in Taken(out) \/ c <= told
  \/ file.open /\ file.dir = "wr" /\ c \in Taken(file.buf)
LossInv ==
  ~(pc = "flushed" /\ call.name = "fclose") => \A c \in 1 .. put : Accounted(c)

\* The buffer as a window on the input, whichever way the stream goes.
WindowInv ==
  /\ undone <= in
  /\ file.open =>
       /\ file.dir # "rd" => file.off = 0
       /\ file.dir = "none" => file.buf = <<>>
       /\ file.fd = -1 => file.dir = "none"
       /\ file.dir = "rd" =>
            /\ file.off <= Len(file.buf) /\ undone + Len(file.buf) <= in
            /\ \A i \in 1 .. Len(file.buf) : file.buf[i] = in - Len(file.buf) + i
       /\ file.fd = 0 => file.pos = in - undone

StdioInv ==
  DataOK /\ PcInv /\ ToWrite /\ OutInv /\ LossInv /\ WindowInv /\ BufferLives

-----------------------------------------------------------------------------
(* Types.                                                                  *)

LEMMA FilesFields ==
  ASSUME NEW f \in Files
  PROVE  /\ f.open = TRUE /\ f.fd \in -1 .. 1 /\ f.dir \in {"none", "rd", "wr"}
         /\ f.rd \in BOOLEAN /\ f.wr \in BOOLEAN /\ f.ball \in BOOLEAN
         /\ f.lbf \in BOOLEAN /\ f.unget \in BOOLEAN
         /\ f.mem \in Memory /\ f.size \in Nat \ {0}
         /\ f.buf \in Seq(Nat) /\ f.off \in Nat /\ f.pos \in Int
  BY DEF Files

LEMMA StreamType ==
  ASSUME NEW fd \in -1 .. 1, NEW rd \in BOOLEAN, NEW wr \in BOOLEAN,
         NEW dir \in {"none", "rd", "wr"}
  PROVE  Stream(fd, rd, wr, dir) \in Files
  <1>1. <<"file", BufSiz>> \in Memory
    BY DEF Memory
  <1>2. <<>> \in Seq(Nat)
    OBVIOUS
  <1>. QED
    BY <1>1, <1>2 DEF Stream, Files, FileBlock

LEMMA RewoundType ==
  ASSUME file \in Files
  PROVE  Unread \in Int /\ Rewound \in Files
  <1>1. file.buf \in Seq(Nat) /\ file.off \in Nat /\ file.pos \in Int
    BY FilesFields
  <1>2. Unread \in Int
    BY <1>1, LenProperties DEF Unread
  <1>3. <<>> \in Seq(Nat)
    OBVIOUS
  <1>4. file.pos - Unread \in Int
    BY <1>1, <1>2
  <1>. QED
    BY <1>2, <1>3, <1>4 DEF Rewound, Files

LEMMA TurnedType ==
  ASSUME NEW f \in Files
  PROVE  Turned(f) \in Files
  BY DEF Turned, Files

FileVars == <<blocks, sent, out, in, put, told, undone>>

\* The steps that leave the device and the characters alone, whatever they do to the
\* stream.
LEMMA FlushTypes ==
  ASSUME DataOK, PcInv, pc \in {"flush", "write"}, NEW n \in Int, n <= Len(file.buf), Written(n)
  PROVE  /\ file' \in Files /\ pc' \in {"idle", "flush", "flushed"}
         /\ call' \in Requests \cup {NoCall} /\ told' \in {told, put}
  <1>1. file \in Files /\ Buffered
    BY DEF DataOK, PcInv, Buffered, NoFile
  <1>2. [file EXCEPT !.buf = <<>>, !.unget = @ /\ call.name # "fflush"] \in Files
    <2>1. <<>> \in Seq(Nat)
      OBVIOUS
    <2>. QED
      BY <1>1, <2>1 DEF Files
  <1>3. CASE Stuck(n)
    <2>1. FlushFailed
      BY <1>3 DEF Written
    <2>. QED
      BY <1>2, <2>1, TurnedType DEF FlushFailed, Fail, Return, DataOK
  <1>4. CASE ~Stuck(n)
    <2>1. file.buf \in Seq(Nat) /\ file.pos \in Int
      BY <1>1, FilesFields
    <2>2. Rest(n) \in Seq(Nat)
      BY <1>4, <2>1, SubSeqProperties DEF Rest, Stuck
    <2>3. file.pos + n \in Int
      BY <2>1
    <2>4. [file EXCEPT !.buf = Rest(n), !.pos = @ + n] \in Files
      BY <1>1, <2>2, <2>3 DEF Files
    <2>. QED
      BY <1>4, <2>4 DEF Written, DataOK
  <1>. QED
    BY <1>3, <1>4

LEMMA BeginTypes ==
  ASSUME DataOK, NEW c \in Requests, NEW dir \in {"none", "rd", "wr"}, Begin(c, dir)
  PROVE  /\ file' \in Files /\ pc' \in {"flush", "flushed"} /\ call' = c
         /\ undone' = IF file.dir = "wr" THEN undone ELSE undone + Unread
  <1>1. file \in Files
    BY DEF DataOK, Begin, Buffered, NoFile
  <1>2. [Rewound EXCEPT !.dir = dir] \in Files
    BY <1>1, RewoundType DEF Files
  <1>. QED
    BY <1>1, <1>2 DEF Begin

LEMMA UnreadBound ==
  ASSUME DataOK, WindowInv, file.open
  PROVE  Unread \in Nat /\ undone + Unread \in 0 .. MaxIn /\ undone + Unread <= in
  <1>1. file \in Files
    BY DEF DataOK, NoFile
  <1>2. file.off \in Nat /\ Len(file.buf) \in Nat
    BY <1>1, FilesFields, LenProperties
  <1>3. undone \in Nat /\ in \in Nat /\ undone <= in /\ in <= MaxIn
    BY DEF DataOK, WindowInv
  <1>4. file.dir = "rd" => file.off <= Len(file.buf) /\ undone + Len(file.buf) <= in
    BY DEF WindowInv
  <1>5. Unread \in Nat /\ undone + Unread <= in
    BY <1>2, <1>3, <1>4 DEF Unread
  <1>. QED
    BY <1>3, <1>5

LEMMA TurnTypes ==
  ASSUME DataOK, WindowInv, NEW c \in Requests, NEW dir \in {"none", "rd", "wr"}, Turn(c, dir)
  PROVE  /\ file' \in Files /\ pc' \in {"flush", "flushed"} /\ call' = c
         /\ undone' \in 0 .. MaxIn
  <1>1. file \in Files /\ file.open
    BY DEF DataOK, Turn, Buffered, NoFile
  <1>2. CASE file.dir # dir
    <2>1. Begin(c, dir)
      BY <1>2 DEF Turn
    <2>. QED
      BY <1>1, <2>1, BeginTypes, UnreadBound DEF DataOK
  <1>3. CASE file.dir = dir
    BY <1>1, <1>3 DEF Turn, DataOK
  <1>. QED
    BY <1>2, <1>3

LEMMA CallTypes == DataOK /\ WindowInv /\ Calls => DataOK'
  <1>. SUFFICES ASSUME DataOK, WindowInv PROVE Calls => DataOK'
    OBVIOUS
  <1>0. file \in Files \/ (file = NoFile /\ ~file.open)
    BY DEF DataOK, NoFile
  <1>1. ASSUME NEW fd \in 0 .. 1, NEW m \in Modes, Fdopen(fd, m) PROVE DataOK'
    <2>1. m.rd \in BOOLEAN /\ m.wr \in BOOLEAN /\ m.append \in BOOLEAN
      BY DEF Modes
    <2>2. file' \in Files
      BY <1>1, <2>1, StreamType DEF Fdopen
    <2>3. FileBlock \in Memory
      BY DEF FileBlock, Memory
    <2>. QED
      BY <1>1, <2>2, <2>3 DEF Fdopen, DataOK
  <1>2. ASSUME NEW rd \in BOOLEAN, UseDevice(rd) PROVE DataOK'
    <2>1. (~rd) \in BOOLEAN
      BY Zenon
    <2>2. file' \in Files
      <3>1. -1 \in -1 .. 1 /\ "none" \in {"none", "rd", "wr"}
        OBVIOUS
      <3>. QED
        BY <1>2, <2>1, <3>1, StreamType, Zenon DEF UseDevice
    <2>. QED
      BY <1>2, <2>2 DEF UseDevice, DataOK
  <1>3. CASE LeaveDevice
    BY <1>3 DEF LeaveDevice, DataOK
  <1>4. ASSUME NEW newline \in BOOLEAN, Fputc(newline) PROVE DataOK'
    <2>1. file \in Files /\ file.open /\ put' \in 1 .. MaxPut
      BY <1>0, <1>4 DEF Fputc, Buffered, DataOK
    <2>2. [Rewound EXCEPT !.dir = "wr"] \in Files
      BY <2>1, RewoundType DEF Files
    <2>. DEFINE f == IF file.dir = "wr" THEN file ELSE [Rewound EXCEPT !.dir = "wr"]
                b == Append(f.buf, put')
    <2>3. f \in Files
      BY <2>1, <2>2
    <2>. HIDE DEF f
    <2>4. f.buf \in Seq(Nat)
      BY <2>3, FilesFields
    <2>5. b \in Seq(Nat)
      <3>1. put' \in Nat
        BY <2>1
      <3>. QED
        BY <2>4, <3>1, AppendProperties
    <2>. HIDE DEF b
    <2>6. [f EXCEPT !.buf = b] \in Files
      BY <2>3, <2>5 DEF Files
    <2>7. file' = [f EXCEPT !.buf = b]
      BY <1>4 DEF Fputc, f, b
    <2>8. [name |-> "fputc"] \in Requests
      BY DEF Requests
    <2>9. pc' \in {pc, "flush"} /\ call' \in {call, [name |-> "fputc"]}
      BY <1>4 DEF Fputc
    <2>10. undone' \in 0 .. MaxIn
      BY <1>4, <2>1, UnreadBound DEF Fputc
    <2>11. UNCHANGED <<blocks, sent, out, in, told>>
      BY <1>4 DEF Fputc
    <2>. QED
      BY <2>1, <2>6, <2>7, <2>8, <2>9, <2>10, <2>11 DEF DataOK
  <1>5. CASE FputcDevice
    <2>1. put' \in 1 .. MaxPut
      BY <1>5 DEF FputcDevice, DataOK
    <2>2. Append(out, put') \in Seq(1 .. MaxPut)
      BY <2>1, AppendProperties DEF DataOK
    <2>3. out' \in {out, Append(out, put')} /\ told' \in {told, put'}
      BY <1>5, Zenon DEF FputcDevice
    <2>4. UNCHANGED <<file, blocks, pc, call, sent, in, undone>>
      BY <1>5 DEF FputcDevice
    <2>5. out' \in Seq(1 .. MaxPut) /\ told' \in 0 .. MaxPut
      <3>1. out \in Seq(1 .. MaxPut) /\ told \in 0 .. MaxPut
        BY DEF DataOK
      <3>2. put' \in 0 .. MaxPut
        BY <2>1
      <3>. QED
        BY <2>2, <2>3, <3>1, <3>2, Zenon
    <2>. QED
      BY <2>1, <2>4, <2>5 DEF DataOK
  <1>6. CASE Fgetc
    <2>1. [name |-> "fgetc"] \in Requests
      BY DEF Requests
    <2>. QED
      BY <1>6, <2>1, TurnTypes DEF Fgetc, DataOK
  <1>7. CASE FgetcUnget \/ Ungetc \/ FflushDevice
    <2>1. file \in Files
      BY <1>0, <1>7 DEF FgetcUnget, Ungetc, FflushDevice
    <2>2. [file EXCEPT !.unget = FALSE] \in Files /\ [file EXCEPT !.unget = TRUE] \in Files
      BY <2>1 DEF Files
    <2>3. file' \in Files
      BY <1>7, <2>2 DEF FgetcUnget, Ungetc, FflushDevice
    <2>. QED
      BY <1>7, <2>3 DEF FgetcUnget, Ungetc, FflushDevice, DataOK
  <1>8. CASE FgetcDevice
    BY <1>8 DEF FgetcDevice, DataOK
  <1>9. CASE Fflush
    <2>1. [name |-> "fflush"] \in Requests /\ file \in Files
      BY <1>0, <1>9 DEF Requests, Fflush, Buffered
    <2>. QED
      BY <1>9, <2>1, BeginTypes, FilesFields, UnreadBound DEF Fflush, Buffered, DataOK
  <1>10. ASSUME NEW to \in Places, Fseek(to) PROVE DataOK'
    <2>1. to.from \in {"SET", "CUR", "END"} /\ to.offset \in Int
      <3>1. CASE to \in [from : {"SET", "CUR"}, offset : Offsets]
        BY <3>1
      <3>2. CASE to = [from |-> "END", offset |-> 0]
        BY <3>2
      <3>. QED
        BY <3>1, <3>2 DEF Places
    <2>2. [name |-> "fseek", from |-> to.from, offset |-> to.offset] \in Requests
      BY <2>1 DEF Requests
    <2>. QED
      BY <1>10, <2>2, TurnTypes DEF Fseek, DataOK
  <1>11. CASE Ftell
    <2>1. [name |-> "ftell", from |-> "CUR", offset |-> 0] \in Requests
      BY DEF Requests
    <2>. QED
      BY <1>11, <2>1, TurnTypes DEF Ftell, DataOK
  <1>12. ASSUME NEW user \in BOOLEAN, NEW mode \in {"FBF", "LBF", "NBF", "none"},
                NEW size \in Sizes, Setvbuf(user, mode, size)
         PROVE  DataOK'
    <2>1. [name |-> "setvbuf", user |-> user, mode |-> mode, size |-> size] \in Requests
      BY DEF Requests
    <2>2. file \in Files
      BY <1>0, <1>12 DEF Setvbuf, Buffered
    <2>. QED
      BY <1>12, <2>1, <2>2, BeginTypes, FilesFields, UnreadBound DEF Setvbuf, Buffered, DataOK
  <1>13. CASE Fclose
    <2>1. [name |-> "fclose"] \in Requests /\ file \in Files
      BY <1>0, <1>13 DEF Requests, Fclose, Buffered
    <2>. QED
      BY <1>13, <2>1, BeginTypes, FilesFields, UnreadBound DEF Fclose, Buffered, DataOK
  <1>. QED
    BY <1>1, <1>2, <1>3, <1>4, <1>5, <1>6, <1>7, <1>8, <1>9, <1>10, <1>11, <1>12, <1>13
       DEF Calls

\* Within a call there is a stream.
LEMMA InCall ==
  ASSUME DataOK, PcInv, pc # "idle"
  PROVE  file \in Files /\ file.open /\ file.fd >= 0 /\ call \in Requests
  BY DEF DataOK, PcInv, Buffered, NoFile

\* What setvbuf was asked for.
LEMMA SetvbufRequest ==
  ASSUME call \in Requests, call.name = "setvbuf"
  PROVE  /\ call.user \in BOOLEAN /\ call.size \in Nat
         /\ call.mode \in {"FBF", "LBF", "NBF", "none"}
  BY DEF Requests

LEMMA SeekRequest ==
  ASSUME call \in Requests, call.name \in {"fseek", "ftell"}
  PROVE  call.from \in {"SET", "CUR", "END"} /\ call.offset \in Int
  BY DEF Requests

LEMMA WantedType ==
  ASSUME file \in Files, NEW size \in Nat
  PROVE  Wanted(size) \in Nat \ {0}
  <1>1. file.size \in Nat \ {0}
    BY FilesFields
  <1>. QED
    BY <1>1 DEF Wanted

LEMMA FilledType ==
  ASSUME file \in Files, in \in Nat, NEW n \in Nat
  PROVE  /\ Filled(n) \in Files /\ [Filled(n) EXCEPT !.off = @ + 1] \in Files
         /\ Filled(n).off = 0 /\ Len(Filled(n).buf) = n
         /\ \A i \in 1 .. n : Filled(n).buf[i] = in + i
  <1>. DEFINE b == [i \in 1 .. n |-> in + i]
  <1>1. b \in Seq(Nat) /\ Len(b) = n
    BY IsASeq
  <1>2. \A i \in 1 .. n : b[i] = in + i
    OBVIOUS
  <1>. HIDE DEF b
  <1>3. file.pos \in Int
    BY FilesFields
  <1>4. Filled(n) = [file EXCEPT !.buf = b, !.off = 0, !.pos = file.pos + n]
    BY DEF Filled, b
  <1>5. Filled(n) \in Files /\ Filled(n).off = 0 /\ Filled(n).buf = b
    <2>1. PICK p \in Int : p = file.pos + n
      BY <1>3
    <2>2. [file EXCEPT !.buf = b, !.off = 0, !.pos = p] \in Files
      BY <1>1 DEF Files
    <2>3. Filled(n) = [file EXCEPT !.buf = b, !.off = 0, !.pos = p]
      BY <1>4, <2>1
    <2>4. Filled(n) \in Files
      BY <2>2, <2>3
    <2>5. [file EXCEPT !.buf = b, !.off = 0, !.pos = p].off = 0
      BY DEF Files
    <2>6. [file EXCEPT !.buf = b, !.off = 0, !.pos = p].buf = b
      BY DEF Files
    <2>. QED
      BY <2>3, <2>4, <2>5, <2>6
  <1>6. [Filled(n) EXCEPT !.off = 1] \in Files
    BY <1>5 DEF Files
  <1>. QED
    BY <1>1, <1>2, <1>5, <1>6

LEMMA StepTypes == DataOK /\ PcInv /\ ToWrite /\ WindowInv /\ Steps => DataOK'
  <1>. SUFFICES ASSUME DataOK, PcInv, ToWrite, WindowInv PROVE Steps => DataOK'
    OBVIOUS
  <1>1. CASE Flush
    <2>1. pc = "flush" /\ file \in Files
      BY <1>1, InCall DEF Flush
    <2>2. CASE file.fd = 1
      BY <1>1, <2>2 DEF Flush, DataOK
    <2>3. CASE file.fd # 1
      <3>1. Written(-1) /\ -1 \in Int /\ -1 <= Len(file.buf)
        BY <1>1, <2>1, <2>3, FilesFields, LenProperties DEF Flush
      <3>. QED
        BY <1>1, <2>1, <3>1, FlushTypes DEF Flush, DataOK
    <2>. QED
      BY <2>2, <2>3
  <1>2. CASE FlushDone
    <2>1. Turned(file) \in Files
      BY <1>2, InCall, TurnedType DEF FlushDone
    <2>. QED
      BY <1>2, <2>1 DEF FlushDone, DataOK
  <1>3. CASE PutChar
    <2>1. file.buf \in Seq(Nat)
      BY <1>3, InCall, FilesFields DEF PutChar
    <2>2. file.buf[sent + 1] \in 1 .. MaxPut
      <3>1. file.open /\ file.dir = "wr" /\ sent \in Nat /\ sent < Len(file.buf)
        BY <1>3, InCall DEF PutChar, PcInv, DataOK
      <3>2. sent + 1 \in 1 .. Len(file.buf) /\ put \in 0 .. MaxPut
        BY <2>1, <3>1, LenProperties DEF DataOK
      <3>3. file.buf[sent + 1] \in 1 .. put
        BY <3>1, <3>2 DEF ToWrite
      <3>. QED
        BY <3>2, <3>3
    <2>3. Append(out, file.buf[sent + 1]) \in Seq(1 .. MaxPut)
      BY <2>2, AppendProperties DEF DataOK
    <2>. QED
      BY <1>3, <2>3 DEF PutChar, DataOK
  <1>4. CASE WriteReturns
    <2>1. sent \in Int /\ sent <= Len(file.buf)
      BY <1>4, InCall DEF WriteReturns, PcInv, ToWrite, DataOK
    <2>. QED
      BY <1>4, <2>1, FlushTypes DEF WriteReturns, DataOK
  <1>5. CASE FlushReturns
    <2>1. file \in Files /\ file' = [file EXCEPT !.unget = @ /\ call.name # "fflush"]
      BY <1>5, InCall DEF FlushReturns
    <2>2. file' \in Files
      BY <2>1 DEF Files
    <2>. QED
      BY <1>5, <2>2 DEF FlushReturns, Succeed, Return, DataOK
  <1>6. CASE GetBuffered
    <2>1. file \in Files /\ file' = [file EXCEPT !.off = @ + 1]
      BY <1>6, InCall DEF GetBuffered
    <2>2. file.off \in Nat
      BY <2>1, FilesFields
    <2>3. file' \in Files
      <3>1. file.off + 1 \in Nat
        BY <2>2
      <3>. QED
        BY <2>1, <3>1 DEF Files
    <2>. QED
      BY <1>6, <2>3 DEF GetBuffered, Succeed, Return, DataOK
  <1>7. CASE Fill
    <2>1. file \in Files /\ in \in Nat
      BY <1>7, InCall DEF Fill, DataOK
    <2>2. PICK n \in IF file.fd = 0 THEN 0 .. file.size ELSE {0} :
            /\ in + n <= MaxIn /\ in' = in + n
            /\ IF n = 0 THEN file' = Filled(0) /\ Fail
               ELSE file' = [Filled(n) EXCEPT !.off = @ + 1] /\ Succeed
      BY <1>7 DEF Fill
    <2>3. n \in Nat /\ in' \in 0 .. MaxIn
      BY <2>1, <2>2, FilesFields
    <2>4. file' \in Files /\ Return /\ told' \in {told, put}
      BY <2>1, <2>2, <2>3, FilledType DEF Fail, Succeed
    <2>. QED
      BY <1>7, <2>3, <2>4 DEF Fill, Return, DataOK
  <1>8. CASE Seek
    <2>1. /\ file \in Files /\ file.pos \in Int /\ file.off \in Nat /\ Len(file.buf) \in Nat
          /\ call.from \in {"SET", "CUR", "END"} /\ call.offset \in Int
      BY <1>8, InCall, FilesFields, LenProperties, SeekRequest DEF Seek
    <2>. DEFINE start == file.pos - Len(file.buf)
                place == IF call.from = "CUR" THEN call.offset + start + file.off
                         ELSE call.offset
                unget == file.unget /\ (call.name = "ftell" \/ place < 0)
    <2>2. start \in Int /\ place \in Int
      BY <2>1
    <2>3. CASE call.from # "END" /\ place \in start .. file.pos
      <3>1. file' = [file EXCEPT !.off = place - start, !.unget = unget] /\ (Fail \/ Succeed)
        BY <1>8, <2>3 DEF Seek
      <3>2. place - start \in Nat
        BY <2>1, <2>2, <2>3
      <3>3. unget \in BOOLEAN
        OBVIOUS
      <3>. HIDE DEF unget
      <3>4. file' \in Files
        BY <2>1, <3>1, <3>2, <3>3 DEF Files
      <3>. QED
        BY <1>8, <3>1, <3>4 DEF Seek, Fail, Succeed, Return, DataOK
    <2>4. CASE ~(call.from # "END" /\ place \in start .. file.pos)
      <3>1. file' = [file EXCEPT !.buf = <<>>, !.off = 0] /\ Fail
        BY <1>8, <2>4 DEF Seek
      <3>2. <<>> \in Seq(Nat)
        OBVIOUS
      <3>3. file' \in Files
        BY <2>1, <3>1, <3>2 DEF Files
      <3>. QED
        BY <1>8, <3>1, <3>3 DEF Seek, Fail, Return, DataOK
    <2>. QED
      BY <2>3, <2>4
  <1>9. CASE Resize
    <2>1. /\ file \in Files /\ call.user \in BOOLEAN /\ call.size \in Nat
          /\ call.mode \in {"FBF", "LBF", "NBF", "none"}
      BY <1>9, InCall, SetvbufRequest DEF Resize
    <2>. DEFINE f == [file EXCEPT !.lbf = call.mode = "LBF"]
                size == IF call.mode = "NBF" THEN 1 ELSE Wanted(call.size)
    <2>2. f \in Files
      BY <2>1 DEF Files
    <2>3. size \in Nat \ {0}
      BY <2>1, WantedType
    <2>4. \/ file' = f /\ blocks' = blocks /\ (Fail \/ Succeed)
          \/ Replace(f, size)
          \/ Allocate(f, size)
      BY <1>9 DEF Resize
    <2>5. UNCHANGED <<sent, out, in, put, undone>>
      BY <1>9 DEF Resize
    <2>. HIDE DEF f, size
    <2>6. <<"user", size>> \in Memory /\ <<"heap", size>> \in Memory
      BY <2>3 DEF Memory
    <2>7. [f EXCEPT !.mem = <<"user", size>>, !.size = size, !.ball = FALSE] \in Files
      BY <2>2, <2>3, <2>6 DEF Files
    <2>8. [f EXCEPT !.mem = <<"heap", size>>, !.size = size, !.ball = TRUE] \in Files
      BY <2>2, <2>3, <2>6 DEF Files
    <2>9. /\ file' \in Files /\ blocks' \subseteq Memory
          /\ (Fail \/ Succeed)
      BY <2>2, <2>4, <2>6, <2>7, <2>8 DEF Replace, Allocate, Without, DataOK
    <2>. QED
      BY <2>5, <2>9 DEF Fail, Succeed, Return, DataOK
  <1>10. CASE Close
    BY <1>10 DEF Close, Fail, Return, Without, DataOK
  <1>. QED
    BY <1>1, <1>2, <1>3, <1>4, <1>5, <1>6, <1>7, <1>8, <1>9, <1>10 DEF Steps

-----------------------------------------------------------------------------
(* The steps, by what they do to the stream.                               *)

StreamInv == PcInv /\ ToWrite /\ OutInv /\ LossInv /\ WindowInv /\ BufferLives

\* g is the open stream but for what no invariant speaks of.
SameContents(g) ==
  /\ g.open = file.open /\ g.fd = file.fd /\ g.dir = file.dir /\ g.buf = file.buf
  /\ g.off = file.off /\ g.pos = file.pos
  /\ g.mem = file.mem /\ g.ball = file.ball /\ g.size = file.size

LEMMA RequestIsCall ==
  ASSUME NEW c \in Requests
  PROVE  c # NoCall /\ c.name \in Names
  BY DEF Requests, NoCall, Names

LEMMA EmptyBuffer == Len(<<>>) = 0 /\ Taken(<<>>) = {}
  BY DEF Taken

LEMMA SizePositive ==
  ASSUME NEW f \in Files
  PROVE  f.size \in Nat /\ 0 < f.size /\ Len(f.buf) \in Nat /\ f.off \in Nat /\ f.pos \in Int
  <1>1. f.size \in Nat \ {0} /\ f.buf \in Seq(Nat) /\ f.off \in Nat /\ f.pos \in Int
    BY FilesFields
  <1>. QED
    BY <1>1, LenProperties

\* Between calls, a push-back changes nothing else.
LEMMA UngetStep ==
  ASSUME StdioInv, FgetcUnget \/ Ungetc \/ FflushDevice
  PROVE  StreamInv'
  <1>. USE DEF StdioInv
  <1>1. file \in Files /\ UNCHANGED <<blocks, pc, call, sent, out, in, put, told, undone>>
    BY DEF FgetcUnget, Ungetc, FflushDevice, DataOK, NoFile
  <1>2. SameContents(file')
    BY <1>1 DEF FgetcUnget, Ungetc, FflushDevice, Files, SameContents
  <1>3. PcInv'
    BY <1>1, <1>2 DEF SameContents, PcInv, Buffered
  <1>4. ToWrite' /\ OutInv'
    BY <1>1, <1>2 DEF SameContents, ToWrite, OutInv, OutInOrder, Taken
  <1>5. LossInv'
    BY <1>1, <1>2 DEF SameContents, LossInv, Accounted, Taken
  <1>6. WindowInv'
    BY <1>1, <1>2 DEF SameContents, WindowInv
  <1>7. BufferLives'
    BY <1>1, <1>2 DEF SameContents, BufferLives
  <1>. QED
    BY <1>3, <1>4, <1>5, <1>6, <1>7 DEF StreamInv

\* A stream has just been opened, in a state no other was open in.
LEMMA OpenStep ==
  ASSUME StdioInv, DataOK',
         NEW fd \in -1 .. 1, NEW rd \in BOOLEAN, NEW wr \in BOOLEAN, NEW dir \in {"none", "rd", "wr"},
         fd = -1 => dir = "none", dir # "wr",
         pc = "idle", ~file.open, file' = Stream(fd, rd, wr, dir),
         blocks' = IF fd = -1 THEN blocks ELSE blocks \cup {FileBlock},
         in' = 0, undone' = 0, UNCHANGED <<pc, call, sent, out, put, told>>
  PROVE  StreamInv'
  <1>. USE DEF StdioInv
  <1>1. file' = [open |-> TRUE, fd |-> fd, rd |-> rd, wr |-> wr, dir |-> dir,
                 mem |-> <<"file", BufSiz>>, ball |-> FALSE, lbf |-> FALSE, size |-> BufSiz,
                 buf |-> <<>>, off |-> 0, pos |-> 0, unget |-> FALSE]
    BY DEF Stream, FileBlock
  <1>2. /\ file'.open /\ file'.fd = fd /\ file'.dir = dir /\ file'.mem = <<"file", BufSiz>>
        /\ file'.ball = FALSE /\ file'.size = BufSiz /\ file'.buf = <<>> /\ file'.off = 0
        /\ file'.pos = 0
    BY <1>1
  <1>3. PcInv'
    BY <1>2 DEF PcInv, Buffered
  <1>4. ToWrite' /\ OutInv'
    BY <1>2 DEF ToWrite, OutInv, OutInOrder
  <1>5. LossInv'
    BY <1>2 DEF LossInv, Accounted, Taken
  <1>6. WindowInv'
    BY <1>2, EmptyBuffer DEF WindowInv
  <1>7. BufferLives'
    BY <1>2, EmptyBuffer DEF BufferLives, FileBlock
  <1>. QED
    BY <1>3, <1>4, <1>5, <1>6, <1>7 DEF StreamInv

\* No stream is left: what fclose could not write it tells of.
LEMMA CloseStep ==
  ASSUME StdioInv, DataOK', LeaveDevice \/ Close
  PROVE  StreamInv'
  <1>. USE DEF StdioInv
  <1>1. file' = NoFile /\ ~file'.open /\ UNCHANGED <<sent, out, in, put, undone>>
    BY DEF LeaveDevice, Close, NoFile
  <1>2. pc' = "idle" /\ call' = NoCall /\ pc # "write" /\ file \in Files
    <2>1. CASE LeaveDevice
      BY <2>1 DEF LeaveDevice, PcInv, DataOK, NoFile
    <2>2. CASE Close
      BY <2>2, InCall DEF Close, Fail, Return
    <2>. QED
      BY <2>1, <2>2
  <1>3. PcInv'
    BY <1>1, <1>2 DEF PcInv
  <1>4. ToWrite' /\ OutInv'
    <2>1. told' \in {told, put}
      BY DEF LeaveDevice, Close, Fail
    <2>. QED
      BY <1>1, <2>1 DEF ToWrite, OutInv, OutInOrder, DataOK
  <1>5. LossInv'
    <2>1. CASE LeaveDevice
      <3>1. file.dir # "wr" /\ told' = told /\ pc = "idle"
        BY <2>1 DEF LeaveDevice, WindowInv
      <3>. QED
        BY <1>1, <3>1 DEF LossInv, Accounted
    <2>2. CASE Close
      BY <1>1, <2>2 DEF Close, Fail, LossInv, Accounted, DataOK
    <2>. QED
      BY <2>1, <2>2
  <1>6. WindowInv'
    BY <1>1 DEF WindowInv
  <1>7. blocks' = {}
    <2>1. CASE LeaveDevice
      BY <2>1 DEF LeaveDevice, BufferLives
    <2>2. CASE Close
      BY <2>2, InCall DEF Close, Without, BufferLives
    <2>. QED
      BY <2>1, <2>2
  <1>8. BufferLives'
    BY <1>1, <1>7 DEF BufferLives
  <1>. QED
    BY <1>3, <1>4, <1>5, <1>6, <1>8 DEF StreamInv

\* The calls of more than one step.
Starts ==
  \/ Fgetc \/ Fflush \/ Ftell \/ Fclose
  \/ \E to \in Places : Fseek(to)
  \/ \E user \in BOOLEAN, mode \in {"FBF", "LBF", "NBF", "none"}, size \in Sizes :
       Setvbuf(user, mode, size)

\* What Begin and Turn come to: the stream has something to write first; or has not,
\* and nothing unread either; or it reads already and goes on with what is unread.
Started ==
  \/ pc' = "flush" /\ file.dir = "wr" /\ UNCHANGED <<file, undone>>
  \/ /\ pc' = "flushed" /\ file.dir # "wr"
     /\ undone' = undone + Unread
     /\ \E dir \in {"none", "rd", "wr"} :
          /\ dir = file.dir \/ dir = "rd"
          /\ file' = [Rewound EXCEPT !.dir = dir]
     /\ call'.name \in Reading => file'.dir = "rd"
  \/ pc' = "flushed" /\ file.dir = "rd" /\ call'.name \in Reading /\ UNCHANGED <<file, undone>>

LEMMA BeginIsStart ==
  ASSUME DataOK, NEW c \in Requests, NEW dir \in {"none", "rd", "wr"}, Begin(c, dir),
         c.name \in Reading => dir = "rd", dir \in {file.dir, "rd"}
  PROVE  Started /\ pc = "idle" /\ Buffered /\ call' = c
  <1>1. file \in Files
    BY DEF DataOK, Begin, Buffered, NoFile
  <1>2. [Rewound EXCEPT !.dir = dir].dir = dir
    BY <1>1, RewoundType DEF Files
  <1>. QED
    BY <1>2 DEF Begin, Started

LEMMA TurnIsStart ==
  ASSUME DataOK, NEW c \in Requests, c.name \in Reading, Turn(c, "rd")
  PROVE  Started /\ pc = "idle" /\ Buffered /\ call' = c
  <1>1. CASE file.dir # "rd"
    BY <1>1, BeginIsStart DEF Turn
  <1>2. CASE file.dir = "rd"
    BY <1>2 DEF Turn, Started
  <1>. QED
    BY <1>1, <1>2

LEMMA StartsStart ==
  ASSUME DataOK, Starts
  PROVE  /\ Started /\ pc = "idle" /\ Buffered /\ call' \in Requests
         /\ UNCHANGED <<blocks, sent, out, in, put, told>>
  <1>1. CASE Fgetc
    <2>1. [name |-> "fgetc"] \in Requests /\ [name |-> "fgetc"].name \in Reading
      BY DEF Requests, Reading
    <2>. QED
      BY <1>1, <2>1, TurnIsStart DEF Fgetc
  <1>2. CASE Ftell
    <2>. DEFINE c == [name |-> "ftell", from |-> "CUR", offset |-> 0]
    <2>1. c \in Requests /\ c.name \in Reading
      BY DEF Requests, Reading
    <2>. HIDE DEF c
    <2>2. Turn(c, "rd") /\ UNCHANGED <<blocks, sent, out, in, put, told>>
      BY <1>2 DEF Ftell, c
    <2>. QED
      BY <2>1, <2>2, TurnIsStart
  <1>3. ASSUME NEW to \in Places, Fseek(to)
        PROVE  /\ Started /\ pc = "idle" /\ Buffered /\ call' \in Requests
               /\ UNCHANGED <<blocks, sent, out, in, put, told>>
    <2>. DEFINE c == [name |-> "fseek", from |-> to.from, offset |-> to.offset]
    <2>1. to.from \in {"SET", "CUR", "END"} /\ to.offset \in Int
      <3>1. CASE to \in [from : {"SET", "CUR"}, offset : Offsets]
        BY <3>1
      <3>2. CASE to = [from |-> "END", offset |-> 0]
        BY <3>2
      <3>. QED
        BY <3>1, <3>2 DEF Places
    <2>2. c \in Requests /\ c.name \in Reading
      BY <2>1 DEF Requests, Reading
    <2>. HIDE DEF c
    <2>3. Turn(c, "rd") /\ UNCHANGED <<blocks, sent, out, in, put, told>>
      BY <1>3 DEF Fseek, c
    <2>. QED
      BY <2>2, <2>3, TurnIsStart
  <1>4. ASSUME NEW user \in BOOLEAN, NEW mode \in {"FBF", "LBF", "NBF", "none"},
               NEW size \in Sizes, Setvbuf(user, mode, size)
        PROVE  /\ Started /\ pc = "idle" /\ Buffered /\ call' \in Requests
               /\ UNCHANGED <<blocks, sent, out, in, put, told>>
    <2>. DEFINE c == [name |-> "setvbuf", user |-> user, mode |-> mode, size |-> size]
    <2>1. c \in Requests /\ c.name \notin Reading
      BY DEF Requests, Reading
    <2>. HIDE DEF c
    <2>2. Begin(c, file.dir) /\ Buffered /\ UNCHANGED <<blocks, sent, out, in, put, told>>
      BY <1>4 DEF Setvbuf, c
    <2>3. file.dir \in {"none", "rd", "wr"}
      <3>1. file \in Files
        BY <2>2 DEF Buffered, DataOK, NoFile
      <3>. QED
        BY <3>1, FilesFields
    <2>. QED
      BY <2>1, <2>2, <2>3, BeginIsStart
  <1>5. CASE Fflush \/ Fclose
    <2>1. PICK n \in {"fflush", "fclose"} :
            Begin([name |-> n], file.dir) /\ Buffered /\ UNCHANGED <<blocks, sent, out, in, put, told>>
      BY <1>5 DEF Fflush, Fclose
    <2>2. [name |-> n] \in Requests /\ [name |-> n].name \notin Reading
      BY DEF Requests, Reading
    <2>3. file.dir \in {"none", "rd", "wr"}
      <3>1. file \in Files
        BY <2>1 DEF Buffered, DataOK, NoFile
      <3>. QED
        BY <3>1, FilesFields
    <2>. QED
      BY <2>1, <2>2, <2>3, BeginIsStart
  <1>. QED
    BY <1>1, <1>2, <1>3, <1>4, <1>5 DEF Starts

\* A call begins: nothing that is to be written is touched, and what is thrown away
\* unread is counted.
LEMMA StartsStep ==
  ASSUME StdioInv, Starts, DataOK'
  PROVE  StreamInv'
  <1>. USE DEF StdioInv
  <1>1. /\ Started /\ pc = "idle" /\ Buffered /\ call' \in Requests /\ file \in Files
        /\ UNCHANGED <<blocks, sent, out, in, put, told>>
    BY StartsStart DEF Buffered, DataOK, NoFile
  <1>2. call' # NoCall /\ sent = 0 /\ file.open /\ file.fd >= 0
    BY <1>1, RequestIsCall DEF PcInv, Buffered
  <1>3. CASE pc' = "flush" /\ file.dir = "wr" /\ UNCHANGED <<file, undone>>
    <2>1. PcInv'
      BY <1>1, <1>2, <1>3 DEF PcInv, Buffered
    <2>2. ToWrite' /\ OutInv' /\ WindowInv'
      BY <1>1, <1>3 DEF ToWrite, OutInv, OutInOrder, Taken, WindowInv
    <2>3. LossInv'
      BY <1>1, <1>3 DEF LossInv, Accounted, Taken
    <2>4. BufferLives'
      BY <1>1, <1>3 DEF BufferLives
    <2>. QED
      BY <2>1, <2>2, <2>3, <2>4 DEF StreamInv
  <1>4. CASE /\ pc' = "flushed" /\ file.dir # "wr"
             /\ undone' = undone + Unread
             /\ \E dir \in {"none", "rd", "wr"} :
                  /\ dir = file.dir \/ dir = "rd"
                  /\ file' = [Rewound EXCEPT !.dir = dir]
             /\ call'.name \in Reading => file'.dir = "rd"
    <2>1. PICK dir \in {"none", "rd", "wr"} :
            (dir = file.dir \/ dir = "rd") /\ file' = [Rewound EXCEPT !.dir = dir]
      BY <1>4
    <2>2. /\ file'.open /\ file'.fd = file.fd /\ file'.dir = dir /\ file'.buf = <<>>
          /\ file'.off = 0 /\ file'.pos = file.pos - Unread
          /\ file'.size = file.size /\ file'.mem = file.mem /\ file'.ball = file.ball
      BY <1>1, <2>1 DEF Rewound, Files
    <2>3. PcInv'
      BY <1>1, <1>2, <1>4, <2>2 DEF PcInv, Buffered
    <2>4. ToWrite' /\ OutInv'
      BY <1>1, <1>4, <2>1, <2>2 DEF ToWrite, OutInv, OutInOrder
    <2>5. LossInv'
      BY <1>1, <1>4 DEF LossInv, Accounted, Taken
    <2>6. WindowInv'
      <3>1. /\ undone' = undone + Unread /\ in' = in /\ undone + Unread <= in
            /\ undone \in Int /\ Unread \in Int /\ file.pos \in Int /\ in \in Int
        BY <1>1, <1>2, <1>4, UnreadBound, SizePositive DEF DataOK
      <3>2. file'.fd = 0 => file'.pos = in - undone'
        BY <1>2, <1>4, <2>2, <3>1 DEF WindowInv
      <3>3. Len(file'.buf) = 0 /\ file'.off = 0
        BY <2>2, EmptyBuffer, Zenon
      <3>. QED
        BY <1>1, <1>2, <2>2, <3>1, <3>2, <3>3 DEF WindowInv
    <2>7. BufferLives'
      BY <1>1, <1>2, <1>4, <2>2, EmptyBuffer, SizePositive DEF BufferLives
    <2>. QED
      BY <2>3, <2>4, <2>5, <2>6, <2>7 DEF StreamInv
  <1>5. CASE /\ pc' = "flushed" /\ file.dir = "rd" /\ call'.name \in Reading
             /\ UNCHANGED <<file, undone>>
    <2>1. PcInv'
      BY <1>1, <1>2, <1>5 DEF PcInv, Buffered
    <2>2. ToWrite' /\ OutInv' /\ WindowInv'
      BY <1>1, <1>5 DEF ToWrite, OutInv, OutInOrder, WindowInv
    <2>3. LossInv'
      BY <1>1, <1>5 DEF LossInv, Accounted, Taken
    <2>4. BufferLives'
      BY <1>1, <1>5 DEF BufferLives
    <2>. QED
      BY <2>1, <2>2, <2>3, <2>4 DEF StreamInv
  <1>. QED
    BY <1>1, <1>3, <1>4, <1>5 DEF Started

LEMMA TurnedFields ==
  ASSUME NEW f \in Files
  PROVE  /\ Turned(f).open = f.open /\ Turned(f).fd = f.fd /\ Turned(f).buf = f.buf
         /\ Turned(f).off = f.off /\ Turned(f).pos = f.pos /\ Turned(f).size = f.size
         /\ Turned(f).mem = f.mem /\ Turned(f).ball = f.ball
         /\ Turned(f).dir = IF call.name \in Reading THEN "rd" ELSE f.dir
  BY DEF Turned, Files

\* write could not go on: what was in the buffer is told of, by fclose at its end.
LEMMA FlushFailedStep ==
  ASSUME StdioInv, DataOK', pc \in {"flush", "write"}, FlushFailed,
         sent' = 0, UNCHANGED <<blocks, out, in, put, undone>>
  PROVE  StreamInv'
  <1>. USE DEF StdioInv
  <1>1. file \in Files /\ file.open /\ file.fd >= 0 /\ call \in Requests /\ file.dir = "wr"
    BY InCall DEF PcInv
  <1>. DEFINE f == [file EXCEPT !.buf = <<>>, !.unget = @ /\ call.name # "fflush"]
  <1>2. f \in Files
    <2>1. <<>> \in Seq(Nat)
      OBVIOUS
    <2>. QED
      BY <1>1, <2>1 DEF Files
  <1>3. /\ f.open /\ f.fd = file.fd /\ f.dir = "wr" /\ f.buf = <<>> /\ f.off = file.off
        /\ f.pos = file.pos /\ f.size = file.size /\ f.mem = file.mem /\ f.ball = file.ball
    BY <1>1 DEF Files
  <1>4. file' = Turned(f)
    BY DEF FlushFailed
  <1>. HIDE DEF f
  <1>5. /\ file'.open /\ file'.fd = file.fd /\ file'.buf = <<>> /\ file'.off = file.off
        /\ file'.pos = file.pos /\ file'.size = file.size /\ file'.mem = file.mem
        /\ file'.ball = file.ball
        /\ file'.dir = IF call.name \in Reading THEN "rd" ELSE "wr"
    BY <1>2, <1>3, <1>4, TurnedFields
  <1>6. \/ pc' = "flushed" /\ call' = call /\ call.name = "fclose" /\ told' = told
        \/ pc' = "idle" /\ call' = NoCall /\ told' = put
    BY DEF FlushFailed, Fail, Return
  <1>7. PcInv'
    BY <1>1, <1>5, <1>6, RequestIsCall DEF PcInv, Buffered, Reading
  <1>8. ToWrite'
    BY <1>5, EmptyBuffer DEF ToWrite
  <1>9. OutInv'
    BY <1>6 DEF OutInv, OutInOrder, DataOK
  <1>10. LossInv'
    BY <1>6 DEF LossInv, Accounted, DataOK
  <1>11. WindowInv'
    BY <1>1, <1>5, EmptyBuffer DEF WindowInv, DataOK
  <1>12. BufferLives'
    BY <1>1, <1>5, EmptyBuffer, SizePositive DEF BufferLives
  <1>. QED
    BY <1>7, <1>8, <1>9, <1>10, <1>11, <1>12 DEF StreamInv

\* write has moved some characters: what is left is the end of the buffer.
LEMMA WrittenStep ==
  ASSUME StdioInv, DataOK', pc = "write", Written(sent), ~Stuck(sent),
         sent' = 0, UNCHANGED <<blocks, out, in, put, undone>>
  PROVE  StreamInv'
  <1>. USE DEF StdioInv
  <1>1. /\ file \in Files /\ file.open /\ file.fd >= 0 /\ file.fd = 1 /\ file.dir = "wr"
        /\ call \in Requests
    BY InCall DEF PcInv
  <1>2. /\ file' = [file EXCEPT !.buf = Rest(sent), !.pos = @ + sent]
        /\ pc' = "flush" /\ call' = call /\ told' = told
    BY DEF Written
  <1>3. /\ file'.open /\ file'.fd = 1 /\ file'.dir = "wr" /\ file'.buf = Rest(sent)
        /\ file'.off = file.off /\ file'.size = file.size /\ file'.mem = file.mem
        /\ file'.ball = file.ball
    BY <1>1, <1>2 DEF Files
  <1>4. sent \in Nat /\ 0 < sent /\ sent <= Len(file.buf) /\ file.buf \in Seq(Nat)
    <2>1. file.buf \in Seq(Nat) /\ sent \in Nat
      BY <1>1, FilesFields DEF DataOK
    <2>2. sent <= Len(file.buf)
      BY <1>1 DEF ToWrite
    <2>. QED
      BY <2>1, <2>2 DEF Stuck
  <1>5. /\ Len(Rest(sent)) = Len(file.buf) - sent
        /\ \A i \in 1 .. Len(Rest(sent)) : Rest(sent)[i] = file.buf[sent + i]
    <2>1. sent + 1 \in Nat /\ sent + 1 \in 1 .. Len(file.buf) + 1 /\ Len(file.buf) \in Nat
      BY <1>4, LenProperties
    <2>. QED
      BY <1>4, <2>1, SubSeqProperties DEF Rest
  <1>6. PcInv'
    BY <1>1, <1>2, <1>3, RequestIsCall DEF PcInv, Buffered
  <1>7. ToWrite'
    <2>. DEFINE b == Rest(sent)
    <2>1. Len(b) \in Nat /\ Len(file.buf) \in Nat
      BY <1>4, <1>5, LenProperties
    <2>2. \A i \in 1 .. Len(b) : sent + i \in sent + 1 .. Len(file.buf) /\ sent + i \in 1 .. Len(file.buf)
      BY <1>4, <1>5, <2>1
    <2>3. \A i \in 1 .. Len(b) : b[i] \in 1 .. put
      BY <1>1, <1>5, <2>2 DEF ToWrite
    <2>4. \A i, j \in 1 .. Len(b) : i < j => b[i] < b[j]
      <3>. SUFFICES ASSUME NEW i \in 1 .. Len(b), NEW j \in 1 .. Len(b), i < j PROVE b[i] < b[j]
        OBVIOUS
      <3>1. b[i] = file.buf[sent + i] /\ b[j] = file.buf[sent + j]
        BY <1>5
      <3>2. sent + i < sent + j
        BY <1>4, <2>1
      <3>. QED
        BY <1>1, <2>2, <3>1, <3>2 DEF ToWrite
    <2>5. \A i \in 1 .. Len(b), k \in 1 .. Len(out) : out[k] < b[i]
      BY <1>1, <1>5, <2>2 DEF ToWrite
    <2>. QED
      BY <1>3, <2>1, <2>3, <2>4, <2>5 DEF ToWrite
  <1>8. OutInv'
    BY <1>2 DEF OutInv, OutInOrder
  <1>9. LossInv'
    <2>. SUFFICES ASSUME NEW c \in 1 .. put, Accounted(c) PROVE Accounted(c)'
      BY <1>2 DEF LossInv
    <2>1. CASE c \in Taken(out) \/ c <= told
      BY <1>2, <2>1 DEF Accounted, Taken
    <2>2. CASE c \in Taken(file.buf)
      <3>1. PICK i \in 1 .. Len(file.buf) : c = file.buf[i]
        BY <2>2 DEF Taken
      <3>2. CASE i <= sent
        <4>1. c \in Taken(out)
          BY <1>1, <1>4, <3>1, <3>2 DEF ToWrite
        <4>. QED
          BY <4>1 DEF Accounted, Taken
      <3>3. CASE ~(i <= sent)
        <4>1. i - sent \in 1 .. Len(Rest(sent)) /\ sent + (i - sent) = i
          BY <1>4, <1>5, <3>1, <3>3
        <4>2. c = Rest(sent)[i - sent]
          BY <1>5, <3>1, <4>1
        <4>. QED
          BY <1>3, <4>1, <4>2 DEF Accounted, Taken
      <3>. QED
        BY <3>2, <3>3
    <2>. QED
      BY <2>1, <2>2 DEF Accounted
  <1>10. WindowInv'
    BY <1>1, <1>3 DEF WindowInv
  <1>11. BufferLives'
    <2>1. Len(Rest(sent)) \in Int /\ Len(Rest(sent)) <= Len(file.buf) /\ Len(file.buf) \in Nat
      BY <1>4, <1>5, LenProperties
    <2>. QED
      BY <1>1, <1>2, <1>3, <2>1, SizePositive DEF BufferLives
  <1>. QED
    BY <1>6, <1>7, <1>8, <1>9, <1>10, <1>11 DEF StreamInv

LEMMA FlushStep ==
  ASSUME StdioInv, DataOK', Flush \/ WriteReturns
  PROVE  StreamInv'
  <1>. USE DEF StdioInv
  <1>1. CASE Flush /\ file.fd = 1
    <2>1. /\ pc = "flush" /\ pc' = "write" /\ sent = 0
          /\ UNCHANGED <<file, blocks, call, sent, out, in, put, told, undone>>
      BY <1>1 DEF Flush, PcInv
    <2>2. PcInv' /\ BufferLives'
      BY <1>1, <2>1 DEF PcInv, Buffered, BufferLives
    <2>3. ToWrite' /\ OutInv' /\ WindowInv'
      BY <2>1 DEF ToWrite, OutInv, OutInOrder, WindowInv, Taken
    <2>4. LossInv'
      BY <2>1 DEF LossInv, Accounted, Taken
    <2>. QED
      BY <2>2, <2>3, <2>4 DEF StreamInv
  <1>2. CASE Flush /\ file.fd # 1
    <2>1. pc = "flush" /\ Written(-1) /\ sent' = 0 /\ UNCHANGED <<blocks, out, in, put, undone>>
      BY <1>2 DEF Flush, PcInv
    <2>2. FlushFailed
      BY <2>1 DEF Written, Stuck
    <2>. QED
      BY <2>1, <2>2, FlushFailedStep
  <1>3. CASE WriteReturns
    <2>1. pc = "write" /\ Written(sent) /\ sent' = 0 /\ UNCHANGED <<blocks, out, in, put, undone>>
      BY <1>3 DEF WriteReturns
    <2>2. CASE Stuck(sent)
      BY <2>1, <2>2, FlushFailedStep DEF Written
    <2>. QED
      BY <2>1, <2>2, WrittenStep
  <1>. QED
    BY <1>1, <1>2, <1>3

LEMMA FlushDoneStep ==
  ASSUME StdioInv, DataOK', FlushDone
  PROVE  StreamInv'
  <1>. USE DEF StdioInv
  <1>1. /\ file \in Files /\ file.open /\ file.fd >= 0 /\ call \in Requests
        /\ file.dir = "wr" /\ file.buf = <<>> /\ file.off = 0 /\ sent = 0
        /\ pc' = "flushed" /\ UNCHANGED <<blocks, call, sent, out, in, put, told, undone>>
    BY InCall DEF FlushDone, PcInv, WindowInv
  <1>2. /\ file'.open /\ file'.fd = file.fd /\ file'.buf = <<>> /\ file'.off = 0
        /\ file'.pos = file.pos /\ file'.size = file.size /\ file'.mem = file.mem
        /\ file'.ball = file.ball
        /\ file'.dir = IF call.name \in Reading THEN "rd" ELSE "wr"
    BY <1>1, TurnedFields DEF FlushDone
  <1>3. PcInv'
    BY <1>1, <1>2, RequestIsCall DEF PcInv, Buffered
  <1>4. ToWrite' /\ OutInv'
    BY <1>1, <1>2, EmptyBuffer DEF ToWrite, OutInv, OutInOrder
  <1>5. LossInv'
    BY <1>1, EmptyBuffer DEF LossInv, Accounted, Taken, FlushDone
  <1>6. WindowInv'
    BY <1>1, <1>2, EmptyBuffer DEF WindowInv, DataOK
  <1>7. BufferLives'
    BY <1>1, <1>2, EmptyBuffer, SizePositive DEF BufferLives
  <1>. QED
    BY <1>3, <1>4, <1>5, <1>6, <1>7 DEF StreamInv

\* A character at the end of what is out.
LEMMA AppendOut ==
  ASSUME out \in Seq(1 .. MaxPut), NEW c \in 1 .. MaxPut, out' = Append(out, c)
  PROVE  /\ Len(out') = Len(out) + 1 /\ out'[Len(out) + 1] = c
         /\ \A i \in 1 .. Len(out) : out'[i] = out[i]
         /\ Taken(out') = Taken(out) \cup {c}
         /\ OutInOrder /\ (\A k \in 1 .. Len(out) : out[k] < c) => OutInOrder'
  <1>1. /\ Len(out) \in Nat /\ Len(out') = Len(out) + 1 /\ out'[Len(out) + 1] = c
        /\ \A i \in 1 .. Len(out) : out'[i] = out[i]
    BY LenProperties, AppendProperties
  <1>2. Taken(out') = Taken(out) \cup {c}
    <2>1. ASSUME NEW x \in Taken(out') PROVE x \in Taken(out) \cup {c}
      <3>1. PICK i \in 1 .. Len(out) + 1 : x = out'[i]
        BY <1>1 DEF Taken
      <3>2. CASE i = Len(out) + 1
        BY <1>1, <3>1, <3>2
      <3>3. CASE i \in 1 .. Len(out)
        BY <1>1, <3>1, <3>3 DEF Taken
      <3>. QED
        BY <1>1, <3>2, <3>3
    <2>2. ASSUME NEW x \in Taken(out) PROVE x \in Taken(out')
      <3>1. PICK i \in 1 .. Len(out) : x = out[i]
        BY DEF Taken
      <3>2. i \in 1 .. Len(out) + 1 /\ x = out'[i]
        BY <1>1, <3>1
      <3>. QED
        BY <1>1, <3>2 DEF Taken
    <2>3. c \in Taken(out')
      <3>1. Len(out) + 1 \in 1 .. Len(out) + 1
        BY <1>1
      <3>. QED
        BY <1>1, <3>1 DEF Taken
    <2>. QED
      BY <2>1, <2>2, <2>3
  <1>3. ASSUME OutInOrder, \A k \in 1 .. Len(out) : out[k] < c PROVE OutInOrder'
    <2>. SUFFICES ASSUME NEW i \in 1 .. Len(out) + 1, NEW j \in 1 .. Len(out) + 1, i < j
                  PROVE  out'[i] < out'[j]
      BY <1>1 DEF OutInOrder
    <2>1. i \in 1 .. Len(out)
      BY <1>1
    <2>2. CASE j \in 1 .. Len(out)
      BY <1>1, <1>3, <2>1, <2>2 DEF OutInOrder
    <2>3. CASE j = Len(out) + 1
      BY <1>1, <1>3, <2>1, <2>3
    <2>4. j \in 1 .. Len(out) \/ j = Len(out) + 1
      BY <1>1
    <2>. QED
      BY <2>2, <2>3, <2>4, Zenon
  <1>. QED
    BY <1>1, <1>2, <1>3

LEMMA PutCharStep ==
  ASSUME StdioInv, DataOK', PutChar
  PROVE  StreamInv'
  <1>. USE DEF StdioInv
  <1>1. /\ file \in Files /\ file.open /\ file.fd >= 0 /\ file.dir = "wr" /\ pc = "write"
        /\ sent \in Nat /\ sent < Len(file.buf) /\ Len(file.buf) \in Nat
        /\ sent' = sent + 1
        /\ UNCHANGED <<file, blocks, pc, call, in, put, told, undone>>
    BY InCall, SizePositive DEF PutChar, PcInv, DataOK
  <1>. DEFINE c == file.buf[sent + 1]
  <1>2. sent + 1 \in 1 .. Len(file.buf) /\ sent + 1 \in sent + 1 .. Len(file.buf)
    BY <1>1
  <1>3. /\ c \in 1 .. put /\ put \in 0 .. MaxPut /\ out \in Seq(1 .. MaxPut)
        /\ \A k \in 1 .. Len(out) : out[k] < c
    BY <1>1, <1>2 DEF ToWrite, DataOK
  <1>4. c \in 1 .. MaxPut /\ out' = Append(out, c)
    BY <1>3 DEF PutChar
  <1>5. /\ Len(out') = Len(out) + 1 /\ out'[Len(out) + 1] = c
        /\ \A i \in 1 .. Len(out) : out'[i] = out[i]
        /\ Taken(out') = Taken(out) \cup {c}
        /\ OutInOrder' /\ Len(out) \in Nat
    BY <1>3, <1>4, AppendOut, LenProperties DEF OutInv
  <1>6. PcInv' /\ BufferLives'
    BY <1>1 DEF PcInv, Buffered, BufferLives
  <1>7. OutInv'
    <2>1. \A k \in 1 .. Len(out) + 1 : out'[k] <= put
      <3>. SUFFICES ASSUME NEW k \in 1 .. Len(out) + 1 PROVE out'[k] <= put
        OBVIOUS
      <3>1. CASE k \in 1 .. Len(out)
        BY <1>5, <3>1 DEF OutInv
      <3>2. CASE k = Len(out) + 1
        BY <1>3, <1>5, <3>2
      <3>3. k \in 1 .. Len(out) \/ k = Len(out) + 1
        BY <1>5
      <3>. QED
        BY <3>1, <3>2, <3>3, Zenon
    <2>. QED
      BY <1>1, <1>5, <2>1 DEF OutInv
  <1>8. ToWrite'
    <2>1. \A i \in 1 .. sent + 1 : file.buf[i] \in Taken(out')
      <3>. SUFFICES ASSUME NEW i \in 1 .. sent + 1 PROVE file.buf[i] \in Taken(out')
        OBVIOUS
      <3>1. CASE i \in 1 .. sent
        BY <1>1, <1>5, <3>1 DEF ToWrite
      <3>2. CASE i = sent + 1
        BY <1>5, <3>2
      <3>. QED
        BY <1>1, <3>1, <3>2
    <2>2. \A i \in sent + 2 .. Len(file.buf) : \A k \in 1 .. Len(out) + 1 : out'[k] < file.buf[i]
      <3>. SUFFICES ASSUME NEW i \in sent + 2 .. Len(file.buf), NEW k \in 1 .. Len(out) + 1
                    PROVE  out'[k] < file.buf[i]
        OBVIOUS
      <3>1. i \in sent + 1 .. Len(file.buf) /\ i \in 1 .. Len(file.buf) /\ sent + 1 < i
        BY <1>1
      <3>2. CASE k \in 1 .. Len(out)
        BY <1>1, <1>5, <3>1, <3>2 DEF ToWrite
      <3>3. CASE k = Len(out) + 1
        BY <1>1, <1>2, <1>5, <3>1, <3>3 DEF ToWrite
      <3>. QED
        BY <1>5, <3>2, <3>3
    <2>3. sent + 1 + 1 = sent + 2 /\ sent + 1 <= Len(file.buf)
      BY <1>1
    <2>. QED
      BY <1>1, <1>5, <2>1, <2>2, <2>3 DEF ToWrite
  <1>9. LossInv'
    BY <1>1, <1>5 DEF LossInv, Accounted, Taken
  <1>10. WindowInv'
    BY <1>1 DEF WindowInv
  <1>. QED
    BY <1>6, <1>7, <1>8, <1>9, <1>10 DEF StreamInv

\* fputc: a stream that was read is turned, and what was unread counted.
LEMMA FputcStep ==
  ASSUME StdioInv, DataOK', NEW newline \in BOOLEAN, Fputc(newline)
  PROVE  StreamInv'
  <1>. USE DEF StdioInv
  <1>. DEFINE f == IF file.dir = "wr" THEN file ELSE [Rewound EXCEPT !.dir = "wr"]
  <1>1. /\ file \in Files /\ file.open /\ file.fd >= 0 /\ pc = "idle" /\ sent = 0
        /\ put \in Nat /\ put + 1 <= MaxPut /\ put' = put + 1 /\ undone' = undone + Unread
        /\ UNCHANGED <<blocks, sent, out, in, told>>
    BY DEF Fputc, Buffered, PcInv, DataOK, NoFile
  <1>2. /\ f \in Files /\ f.open /\ f.fd = file.fd /\ f.dir = "wr" /\ f.off = 0
        /\ f.size = file.size /\ f.mem = file.mem /\ f.ball = file.ball
        /\ f.buf = IF file.dir = "wr" THEN file.buf ELSE <<>>
        /\ f.pos = file.pos - Unread
    <2>1. CASE file.dir = "wr"
      <3>1. Unread = 0 /\ file.pos \in Int /\ file.off = 0
        BY <1>1, <2>1, FilesFields DEF Unread, WindowInv
      <3>. QED
        BY <1>1, <2>1, <3>1
    <2>2. CASE file.dir # "wr"
      <3>1. Rewound \in Files
        BY <1>1, RewoundType
      <3>2. f = [file EXCEPT !.pos = @ - Unread, !.buf = <<>>, !.off = 0, !.dir = "wr"]
        BY <2>2 DEF Rewound
      <3>3. f \in Files
        BY <2>2, <3>1 DEF Files
      <3>. QED
        BY <1>1, <2>2, <3>2, <3>3 DEF Files
    <2>. QED
      BY <2>1, <2>2
  <1>3. file' = [f EXCEPT !.buf = Append(f.buf, put + 1)]
    BY <1>1 DEF Fputc
  <1>4. \/ pc' = "flush" /\ call' = [name |-> "fputc"]
        \/ pc' = "idle" /\ call' = NoCall /\ ~(Len(file'.buf) >= file'.size)
    BY <1>1 DEF Fputc, PcInv
  <1>. HIDE DEF f
  <1>. DEFINE b == Append(f.buf, put + 1)
  <1>5. /\ file'.open /\ file'.fd = file.fd /\ file'.dir = "wr" /\ file'.off = 0 /\ file'.buf = b
        /\ file'.size = file.size /\ file'.mem = file.mem /\ file'.ball = file.ball
        /\ file'.pos = file.pos - Unread
    BY <1>2, <1>3 DEF Files
  <1>6. /\ Len(f.buf) \in Nat /\ Len(b) = Len(f.buf) + 1 /\ b[Len(f.buf) + 1] = put + 1
        /\ \A i \in 1 .. Len(f.buf) : b[i] = f.buf[i]
    <2>1. f.buf \in Seq(Nat)
      BY <1>2, FilesFields
    <2>2. put + 1 \in Nat
      BY <1>1
    <2>. QED
      BY <2>1, <2>2, LenProperties, AppendProperties
  <1>7. /\ \A i \in 1 .. Len(f.buf) : f.buf[i] \in 1 .. put
        /\ \A i, j \in 1 .. Len(f.buf) : i < j => f.buf[i] < f.buf[j]
        /\ \A i \in 1 .. Len(f.buf) : \A k \in 1 .. Len(out) : out[k] < f.buf[i]
    BY <1>1, <1>2, EmptyBuffer DEF ToWrite
  <1>8. Len(f.buf) + 1 <= file.size /\ file.size \in Nat
    <2>1. file.size \in Nat /\ 0 < file.size
      BY <1>1, SizePositive
    <2>2. CASE file.dir = "wr"
      BY <1>1, <1>2, <1>6, <2>1, <2>2 DEF BufferLives
    <2>3. CASE file.dir # "wr"
      BY <1>2, <2>1, <2>3, EmptyBuffer
    <2>. QED
      BY <2>1, <2>2, <2>3
  <1>. HIDE DEF b
  <1>9. PcInv'
    <2>1. [name |-> "fputc"] # NoCall /\ [name |-> "fputc"].name \notin Reading
      BY DEF NoCall, Reading
    <2>. QED
      BY <1>1, <1>4, <1>5, <2>1 DEF PcInv, Buffered
  <1>10. ToWrite'
    <2>1. \A i \in 1 .. Len(f.buf) + 1 : i \in 1 .. Len(f.buf) \/ i = Len(f.buf) + 1
      BY <1>6
    <2>2. \A i \in 1 .. Len(f.buf) + 1 : b[i] \in 1 .. put + 1
      <3>. SUFFICES ASSUME NEW i \in 1 .. Len(f.buf) + 1 PROVE b[i] \in 1 .. put + 1
        OBVIOUS
      <3>1. CASE i \in 1 .. Len(f.buf)
        BY <1>1, <1>6, <1>7, <3>1
      <3>2. CASE i = Len(f.buf) + 1
        BY <1>1, <1>6, <3>2
      <3>. QED
        BY <2>1, <3>1, <3>2
    <2>3. \A i, j \in 1 .. Len(f.buf) + 1 : i < j => b[i] < b[j]
      <3>. SUFFICES ASSUME NEW i \in 1 .. Len(f.buf) + 1, NEW j \in 1 .. Len(f.buf) + 1, i < j
                    PROVE  b[i] < b[j]
        OBVIOUS
      <3>1. i \in 1 .. Len(f.buf)
        BY <1>6
      <3>2. CASE j \in 1 .. Len(f.buf)
        BY <1>6, <1>7, <3>1, <3>2
      <3>3. CASE j = Len(f.buf) + 1
        BY <1>1, <1>6, <1>7, <3>1, <3>3
      <3>. QED
        BY <2>1, <3>2, <3>3
    <2>4. \A i \in 1 .. Len(f.buf) + 1 : \A k \in 1 .. Len(out) : out[k] < b[i]
      <3>. SUFFICES ASSUME NEW i \in 1 .. Len(f.buf) + 1, NEW k \in 1 .. Len(out)
                    PROVE  out[k] < b[i]
        OBVIOUS
      <3>1. CASE i \in 1 .. Len(f.buf)
        BY <1>6, <1>7, <3>1
      <3>2. CASE i = Len(f.buf) + 1
        <4>1. out[k] <= put /\ out[k] \in Int
          BY ElementOfSeq DEF OutInv, DataOK
        <4>. QED
          BY <1>1, <1>6, <3>2, <4>1
      <3>. QED
        BY <2>1, <3>1, <3>2
    <2>. QED
      BY <1>1, <1>5, <1>6, <2>2, <2>3, <2>4 DEF ToWrite
  <1>11. OutInv'
    <2>1. told \in Int /\ \A k \in 1 .. Len(out) : out[k] \in Int
      BY ElementOfSeq DEF DataOK
    <2>. QED
      BY <1>1, <2>1 DEF OutInv, OutInOrder
  <1>12. LossInv'
    <2>. SUFFICES ASSUME NEW c \in 1 .. put + 1 PROVE Accounted(c)'
      BY <1>1 DEF LossInv
    <2>1. CASE c \in 1 .. put
      <3>1. Accounted(c)
        BY <1>1, <2>1 DEF LossInv
      <3>2. CASE c \in Taken(out) \/ c <= told
        BY <1>1, <3>2 DEF Accounted, Taken
      <3>3. CASE file.dir = "wr" /\ c \in Taken(file.buf)
        <4>1. PICK i \in 1 .. Len(f.buf) : c = f.buf[i]
          BY <1>2, <3>3 DEF Taken
        <4>2. i \in 1 .. Len(b) /\ c = b[i]
          BY <1>6, <4>1
        <4>. QED
          BY <1>5, <4>2 DEF Accounted, Taken
      <3>. QED
        BY <3>1, <3>2, <3>3 DEF Accounted
    <2>2. CASE c = put + 1
      <3>1. Len(f.buf) + 1 \in 1 .. Len(b) /\ c = b[Len(f.buf) + 1]
        BY <1>6, <2>2
      <3>. QED
        BY <1>5, <3>1 DEF Accounted, Taken
    <2>. QED
      BY <1>1, <2>1, <2>2
  <1>13. WindowInv'
    <2>1. undone + Unread <= in /\ Unread \in Int /\ undone \in Int /\ file.pos \in Int /\ in \in Int
      BY <1>1, UnreadBound, SizePositive DEF DataOK
    <2>2. file'.fd = 0 => file'.pos = in - undone'
      BY <1>1, <1>5, <2>1 DEF WindowInv
    <2>. QED
      BY <1>1, <1>5, <2>1, <2>2 DEF WindowInv
  <1>14. BufferLives'
    BY <1>1, <1>4, <1>5, <1>6, <1>8 DEF BufferLives
  <1>. QED
    BY <1>9, <1>10, <1>11, <1>12, <1>13, <1>14 DEF StreamInv

\* A character goes straight to the device, or is refused and told of.
LEMMA FputcDeviceStep ==
  ASSUME StdioInv, DataOK', FputcDevice
  PROVE  StreamInv'
  <1>. USE DEF StdioInv
  <1>1. /\ file.dir # "wr" /\ pc = "idle" /\ put \in Nat /\ put' = put + 1 /\ put + 1 \in 1 .. MaxPut
        /\ UNCHANGED <<file, blocks, pc, call, sent, in, undone>>
        /\ out \in Seq(1 .. MaxPut) /\ told \in Int /\ told <= put
    BY DEF FputcDevice, WindowInv, OutInv, DataOK
  <1>2. \A k \in 1 .. Len(out) : out[k] \in Int /\ out[k] < put + 1
    BY <1>1, ElementOfSeq DEF OutInv
  <1>3. PcInv' /\ ToWrite' /\ WindowInv' /\ BufferLives'
    BY <1>1 DEF PcInv, Buffered, ToWrite, WindowInv, BufferLives
  <1>4. CASE out' = Append(out, put + 1) /\ told' = told
    <2>1. /\ Len(out') = Len(out) + 1 /\ out'[Len(out) + 1] = put + 1
          /\ \A i \in 1 .. Len(out) : out'[i] = out[i]
          /\ Taken(out') = Taken(out) \cup {put + 1}
          /\ OutInOrder' /\ Len(out) \in Nat
      BY <1>1, <1>2, <1>4, AppendOut, LenProperties DEF OutInv
    <2>2. \A k \in 1 .. Len(out) + 1 : out'[k] <= put + 1
      <3>. SUFFICES ASSUME NEW k \in 1 .. Len(out) + 1 PROVE out'[k] <= put + 1
        OBVIOUS
      <3>1. CASE k \in 1 .. Len(out)
        BY <1>1, <1>2, <2>1, <3>1
      <3>2. CASE k = Len(out) + 1
        BY <1>1, <2>1, <3>2
      <3>3. k \in 1 .. Len(out) \/ k = Len(out) + 1
        BY <2>1
      <3>. QED
        BY <3>1, <3>2, <3>3, Zenon
    <2>3. OutInv'
      BY <1>1, <1>4, <2>1, <2>2 DEF OutInv
    <2>4. LossInv'
      BY <1>1, <1>4, <2>1 DEF LossInv, Accounted
    <2>. QED
      BY <1>3, <2>3, <2>4 DEF StreamInv
  <1>5. CASE told' = put + 1 /\ out' = out
    <2>1. OutInv'
      BY <1>1, <1>2, <1>5 DEF OutInv, OutInOrder
    <2>2. LossInv'
      BY <1>1, <1>5 DEF LossInv, Accounted
    <2>. QED
      BY <1>3, <2>1, <2>2 DEF StreamInv
  <1>. QED
    BY <1>1, <1>4, <1>5 DEF FputcDevice

LEMMA FgetcDeviceStep ==
  ASSUME StdioInv, DataOK', FgetcDevice
  PROVE  StreamInv'
  <1>. USE DEF StdioInv
  <1>1. /\ file.fd = -1 /\ file.dir = "none" /\ pc = "idle" /\ in \in Nat /\ in' = in + 1
        /\ undone \in Nat /\ undone <= in
        /\ UNCHANGED <<file, blocks, pc, call, sent, out, put, told, undone>>
    BY DEF FgetcDevice, WindowInv, DataOK
  <1>2. PcInv' /\ ToWrite' /\ BufferLives'
    BY <1>1 DEF PcInv, Buffered, ToWrite, BufferLives
  <1>3. OutInv' /\ LossInv'
    BY <1>1 DEF OutInv, OutInOrder, LossInv, Accounted, Taken
  <1>4. WindowInv'
    <2>1. undone' <= in'
      BY <1>1
    <2>2. /\ file'.dir # "rd" /\ file'.fd # 0 /\ file'.off = 0 /\ file'.buf = <<>>
          /\ file'.dir = "none"
      BY <1>1 DEF WindowInv, FgetcDevice
    <2>. QED
      BY <2>1, <2>2, Zenon DEF WindowInv
  <1>. QED
    BY <1>2, <1>3, <1>4 DEF StreamInv

\* A call returns with the stream as it is, but for what was pushed back.
LEMMA FlushReturnsStep ==
  ASSUME StdioInv, DataOK', FlushReturns
  PROVE  StreamInv'
  <1>. USE DEF StdioInv
  <1>1. /\ file \in Files /\ pc = "flushed" /\ call.name \in {"fputc", "fflush"}
        /\ pc' = "idle" /\ call' = NoCall /\ file.buf = <<>>
        /\ UNCHANGED <<blocks, sent, out, in, put, told, undone>>
    BY InCall DEF FlushReturns, Succeed, Return, PcInv, Reading
  <1>2. SameContents(file')
    BY <1>1 DEF FlushReturns, Files, SameContents
  <1>3. PcInv'
    BY <1>1, <1>2 DEF SameContents, PcInv
  <1>4. ToWrite' /\ OutInv'
    BY <1>1, <1>2 DEF SameContents, ToWrite, OutInv, OutInOrder, Taken
  <1>5. LossInv'
    BY <1>1, <1>2 DEF SameContents, LossInv, Accounted, Taken
  <1>6. WindowInv'
    BY <1>1, <1>2 DEF SameContents, WindowInv
  <1>7. BufferLives'
    BY <1>1, <1>2, EmptyBuffer, SizePositive DEF SameContents, BufferLives
  <1>. QED
    BY <1>3, <1>4, <1>5, <1>6, <1>7 DEF StreamInv

\* A reading call returns: it may have moved in the buffer, filled or emptied it, and
\* nothing that is to be written is concerned.
LEMMA ReadReturns ==
  ASSUME StdioInv, DataOK', pc = "flushed", call.name \in Reading,
         Return, told' \in {told, put}, UNCHANGED <<blocks, sent, out, put, undone>>,
         file'.open, file'.fd = file.fd, file'.dir = "rd", file'.size = file.size,
         file'.mem = file.mem, file'.ball = file.ball, Len(file'.buf) <= file.size,
         WindowInv'
  PROVE  StreamInv'
  <1>. USE DEF StdioInv
  <1>1. /\ file \in Files /\ file.open /\ file.fd >= 0 /\ file.dir = "rd" /\ sent = 0
        /\ pc' = "idle" /\ call' = NoCall
    BY InCall DEF PcInv, Return
  <1>2. PcInv'
    BY <1>1 DEF PcInv
  <1>3. ToWrite' /\ OutInv'
    BY DEF ToWrite, OutInv, OutInOrder, DataOK
  <1>4. LossInv'
    <2>1. \A c \in 1 .. put : Accounted(c)
      BY DEF LossInv, Reading
    <2>. QED
      BY <1>1, <2>1 DEF LossInv, Accounted, DataOK
  <1>5. BufferLives'
    BY <1>1 DEF BufferLives
  <1>. QED
    BY <1>2, <1>3, <1>4, <1>5 DEF StreamInv

LEMMA GetStep ==
  ASSUME StdioInv, DataOK', GetBuffered
  PROVE  StreamInv'
  <1>. USE DEF StdioInv
  <1>1. /\ file \in Files /\ file.open /\ file.fd >= 0 /\ file.dir = "rd" /\ pc = "flushed"
        /\ call.name = "fgetc" /\ file.off \in Nat /\ Len(file.buf) \in Nat
        /\ file.off + 1 <= Len(file.buf) /\ Return /\ told' = told
        /\ file' = [file EXCEPT !.off = @ + 1]
        /\ UNCHANGED <<blocks, sent, out, in, put, undone>>
    <2>1. file \in Files /\ pc = "flushed" /\ call.name = "fgetc"
      BY InCall DEF GetBuffered
    <2>2. file.off \in Nat /\ Len(file.buf) \in Nat
      BY <2>1, SizePositive
    <2>. QED
      BY <2>1, <2>2, InCall DEF GetBuffered, Succeed, PcInv, Reading
  <1>2. /\ file'.open /\ file'.fd = file.fd /\ file'.dir = "rd" /\ file'.size = file.size
        /\ file'.mem = file.mem /\ file'.ball = file.ball /\ file'.buf = file.buf
        /\ file'.off = file.off + 1 /\ file'.pos = file.pos
    BY <1>1 DEF Files
  <1>3. WindowInv'
    BY <1>1, <1>2 DEF WindowInv
  <1>4. Len(file'.buf) <= file.size
    BY <1>1, <1>2 DEF BufferLives
  <1>. QED
    BY <1>1, <1>2, <1>3, <1>4, ReadReturns DEF Reading

LEMMA FillStep ==
  ASSUME StdioInv, DataOK', Fill
  PROVE  StreamInv'
  <1>. USE DEF StdioInv
  <1>1. /\ file \in Files /\ file.open /\ file.fd >= 0 /\ file.dir = "rd" /\ pc = "flushed"
        /\ call.name = "fgetc" /\ in \in Nat /\ undone \in Nat /\ undone <= in
        /\ UNCHANGED <<blocks, sent, out, put, undone>>
    BY InCall DEF Fill, PcInv, Reading, WindowInv, DataOK
  <1>2. file.size \in Nat /\ file.pos \in Int
    BY <1>1, SizePositive
  <1>3. PICK n \in IF file.fd = 0 THEN 0 .. file.size ELSE {0} :
          /\ in' = in + n
          /\ IF n = 0 THEN file' = Filled(0) /\ Fail
             ELSE file' = [Filled(n) EXCEPT !.off = @ + 1] /\ Succeed
    BY DEF Fill
  <1>4. n \in Nat /\ n <= file.size
    BY <1>2, <1>3
  <1>5. /\ Filled(n) \in Files /\ Filled(n).off = 0 /\ Len(Filled(n).buf) = n
        /\ \A i \in 1 .. n : Filled(n).buf[i] = in + i
    BY <1>1, <1>4, FilledType
  <1>6. /\ Filled(n).open /\ Filled(n).fd = file.fd /\ Filled(n).dir = "rd"
        /\ Filled(n).size = file.size /\ Filled(n).mem = file.mem
        /\ Filled(n).ball = file.ball /\ Filled(n).pos = file.pos + n
    BY <1>1 DEF Filled, Files
  <1>7. /\ file'.open /\ file'.fd = file.fd /\ file'.dir = "rd" /\ file'.size = file.size
        /\ file'.mem = file.mem /\ file'.ball = file.ball /\ file'.buf = Filled(n).buf
        /\ file'.pos = file.pos + n /\ file'.off = IF n = 0 THEN 0 ELSE 1
        /\ Return /\ told' \in {told, put}
    <2>1. CASE n = 0
      BY <1>3, <1>5, <1>6, <2>1 DEF Fail
    <2>2. CASE n # 0
      <3>1. file' = [Filled(n) EXCEPT !.off = @ + 1] /\ Succeed
        BY <1>3, <2>2
      <3>2. file'.off = 0 + 1
        BY <1>5, <3>1 DEF Files
      <3>. QED
        BY <1>5, <1>6, <2>2, <3>1, <3>2 DEF Succeed, Files
    <2>. QED
      BY <2>1, <2>2
  <1>8. WindowInv'
    <2>1. file'.off <= n
      BY <1>4, <1>7
    <2>2. \A i \in 1 .. n : file'.buf[i] = (in + n) - n + i
      BY <1>1, <1>4, <1>5, <1>7
    <2>3. file'.fd = 0 => file'.pos = (in + n) - undone
      BY <1>1, <1>2, <1>4, <1>7 DEF WindowInv
    <2>. QED
      BY <1>1, <1>3, <1>4, <1>5, <1>7, <2>1, <2>2, <2>3 DEF WindowInv
  <1>. QED
    BY <1>1, <1>4, <1>5, <1>7, <1>8, ReadReturns DEF Reading

LEMMA SeekStep ==
  ASSUME StdioInv, DataOK', Seek
  PROVE  StreamInv'
  <1>. USE DEF StdioInv
  <1>1. /\ file \in Files /\ file.open /\ file.fd >= 0 /\ file.dir = "rd" /\ pc = "flushed"
        /\ call.name \in Reading /\ UNCHANGED <<blocks, sent, out, in, put, undone>>
    BY InCall DEF Seek, PcInv, Reading
  <1>2. /\ file.pos \in Int /\ file.off \in Nat /\ Len(file.buf) \in Nat
        /\ call.from \in {"SET", "CUR", "END"} /\ call.offset \in Int
    BY InCall, FilesFields, LenProperties, SeekRequest DEF Seek
  <1>. DEFINE start == file.pos - Len(file.buf)
              place == IF call.from = "CUR" THEN call.offset + start + file.off
                       ELSE call.offset
  <1>3. start \in Int /\ place \in Int
    BY <1>2
  <1>4. Return /\ told' \in {told, put}
    BY DEF Seek, Fail, Succeed
  <1>5. CASE call.from # "END" /\ place \in start .. file.pos
    <2>. DEFINE unget == file.unget /\ (call.name = "ftell" \/ place < 0)
    <2>1. file' = [file EXCEPT !.off = place - start, !.unget = unget]
      BY <1>5 DEF Seek
    <2>. HIDE DEF unget
    <2>2. /\ file'.open /\ file'.fd = file.fd /\ file'.dir = "rd" /\ file'.size = file.size
          /\ file'.mem = file.mem /\ file'.ball = file.ball /\ file'.buf = file.buf
          /\ file'.pos = file.pos /\ file'.off = place - start
      BY <1>1, <2>1 DEF Files
    <2>3. place - start <= Len(file.buf)
      BY <1>2, <1>3, <1>5
    <2>. HIDE DEF place, start
    <2>4. WindowInv'
      BY <1>1, <2>2, <2>3 DEF WindowInv
    <2>5. Len(file'.buf) <= file.size
      BY <1>1, <2>2 DEF BufferLives
    <2>. QED
      BY <1>1, <1>4, <2>2, <2>4, <2>5, ReadReturns
  <1>6. CASE ~(call.from # "END" /\ place \in start .. file.pos)
    <2>1. file' = [file EXCEPT !.buf = <<>>, !.off = 0]
      BY <1>6 DEF Seek
    <2>2. /\ file'.open /\ file'.fd = file.fd /\ file'.dir = "rd" /\ file'.size = file.size
          /\ file'.mem = file.mem /\ file'.ball = file.ball /\ file'.buf = <<>>
          /\ file'.pos = file.pos /\ file'.off = 0
      BY <1>1, <2>1 DEF Files
    <2>3. WindowInv'
      BY <1>1, <2>2, EmptyBuffer DEF WindowInv, DataOK
    <2>4. Len(file'.buf) <= file.size
      BY <1>1, <2>2, EmptyBuffer, SizePositive
    <2>. QED
      BY <1>1, <1>4, <2>2, <2>3, <2>4, ReadReturns
  <1>. QED
    BY <1>5, <1>6

\* setvbuf returns: the stream has the old buffer or the new one, and nothing in it.
LEMMA ResizeStep ==
  ASSUME StdioInv, DataOK', Resize
  PROVE  StreamInv'
  <1>. USE DEF StdioInv
  <1>. DEFINE f == [file EXCEPT !.lbf = call.mode = "LBF"]
              size == IF call.mode = "NBF" THEN 1 ELSE Wanted(call.size)
  <1>1. /\ file \in Files /\ file.open /\ file.fd >= 0 /\ pc = "flushed" /\ call.name = "setvbuf"
        /\ file.buf = <<>> /\ sent = 0 /\ call \in Requests
        /\ UNCHANGED <<sent, out, in, put, undone>>
    BY InCall DEF Resize, PcInv, Reading
  <1>2. size \in Nat \ {0}
    BY <1>1, SetvbufRequest, WantedType
  <1>3. \/ file' = f /\ blocks' = blocks /\ (Fail \/ Succeed)
        \/ Replace(f, size)
        \/ Allocate(f, size)
    BY DEF Resize
  <1>4. /\ f \in Files /\ f.open /\ f.fd = file.fd /\ f.dir = file.dir /\ f.buf = <<>>
        /\ f.off = file.off /\ f.pos = file.pos /\ f.size = file.size /\ f.mem = file.mem
        /\ f.ball = file.ball
    BY <1>1 DEF Files
  <1>. HIDE DEF f, size
  <1>5. /\ pc' = "idle" /\ call' = NoCall /\ told' \in {told, put}
    BY <1>3 DEF Replace, Allocate, Fail, Succeed, Return
  <1>6. \/ file' = f /\ blocks' = blocks
        \/ /\ file' = [f EXCEPT !.mem = <<"user", size>>, !.size = size, !.ball = FALSE]
           /\ blocks' = Without(f.ball)
        \/ /\ file' = [f EXCEPT !.mem = <<"heap", size>>, !.size = size, !.ball = TRUE]
           /\ blocks' = Without(f.ball) \cup {<<"heap", size>>}
    BY <1>3 DEF Replace, Allocate
  <1>7. /\ file'.open /\ file'.fd = file.fd /\ file'.dir = file.dir /\ file'.buf = <<>>
        /\ file'.off = file.off /\ file'.pos = file.pos
    BY <1>4, <1>6 DEF Files
  <1>8. PcInv'
    BY <1>1, <1>5 DEF PcInv
  <1>9. ToWrite' /\ OutInv'
    BY <1>1, <1>5, <1>7, EmptyBuffer DEF ToWrite, OutInv, OutInOrder, DataOK
  <1>10. LossInv'
    <2>1. \A c \in 1 .. put : Accounted(c)
      BY <1>1 DEF LossInv
    <2>2. Taken(file.buf) = {}
      BY <1>1, EmptyBuffer
    <2>. QED
      BY <1>1, <1>5, <2>1, <2>2 DEF LossInv, Accounted, DataOK
  <1>11. WindowInv'
    BY <1>1, <1>7, EmptyBuffer DEF WindowInv
  <1>12. BufferLives'
    <2>1. /\ blocks = {FileBlock} \cup (IF file.ball THEN {file.mem} ELSE {})
          /\ file.mem[1] = "heap" <=> file.ball
          /\ file.mem[2] = file.size
      BY <1>1 DEF BufferLives
    <2>2. Without(f.ball) = {FileBlock}
      <3>1. file.ball => file.mem # FileBlock
        BY <2>1 DEF FileBlock
      <3>. QED
        BY <1>4, <2>1, <3>1 DEF Without
    <2>3. Len(file'.buf) = 0
      BY <1>7, EmptyBuffer, Zenon
    <2>4. CASE file' = f /\ blocks' = blocks
      <3>1. file.size \in Nat /\ 0 < file.size
        BY <1>1, SizePositive
      <3>. QED
        BY <1>1, <1>4, <1>7, <2>1, <2>3, <2>4, <3>1 DEF BufferLives
    <2>5. CASE /\ file' = [f EXCEPT !.mem = <<"user", size>>, !.size = size, !.ball = FALSE]
               /\ blocks' = Without(f.ball)
      <3>1. file'.mem = <<"user", size>> /\ file'.size = size /\ file'.ball = FALSE
        BY <1>4, <2>5 DEF Files
      <3>2. file'.mem[1] # "heap" /\ file'.mem[2] = size
        BY <3>1
      <3>. QED
        BY <1>1, <1>2, <1>7, <2>2, <2>3, <2>5, <3>1, <3>2 DEF BufferLives
    <2>6. CASE /\ file' = [f EXCEPT !.mem = <<"heap", size>>, !.size = size, !.ball = TRUE]
               /\ blocks' = Without(f.ball) \cup {<<"heap", size>>}
      <3>1. file'.mem = <<"heap", size>> /\ file'.size = size /\ file'.ball = TRUE
        BY <1>4, <2>6 DEF Files
      <3>2. file'.mem[1] = "heap" /\ file'.mem[2] = size
        BY <3>1
      <3>. QED
        BY <1>1, <1>2, <1>7, <2>2, <2>3, <2>6, <3>1, <3>2 DEF BufferLives
    <2>. QED
      BY <1>6, <2>4, <2>5, <2>6
  <1>. QED
    BY <1>8, <1>9, <1>10, <1>11, <1>12 DEF StreamInv

LEMMA FdopenStep ==
  ASSUME StdioInv, DataOK', NEW fd \in 0 .. 1, NEW m \in Modes, Fdopen(fd, m)
  PROVE  StreamInv'
  <1>1. m.rd \in BOOLEAN /\ m.wr \in BOOLEAN
    BY DEF Modes
  <1>. DEFINE dir == IF m.append THEN "rd" ELSE "none"
  <1>2. dir \in {"none", "rd", "wr"} /\ dir # "wr" /\ fd \in -1 .. 1 /\ fd # -1
    OBVIOUS
  <1>3. /\ file' = Stream(fd, m.rd, m.wr, dir) /\ pc = "idle" /\ ~file.open
        /\ blocks' = blocks \cup {FileBlock} /\ in' = 0 /\ undone' = 0
        /\ UNCHANGED <<pc, call, sent, out, put, told>>
    BY DEF Fdopen
  <1>. HIDE DEF dir
  <1>. QED
    BY <1>1, <1>2, <1>3, OpenStep

LEMMA UseDeviceStep ==
  ASSUME StdioInv, DataOK', NEW rd \in BOOLEAN, UseDevice(rd)
  PROVE  StreamInv'
  <1>1. -1 \in -1 .. 1 /\ "none" \in {"none", "rd", "wr"} /\ "none" # "wr"
    OBVIOUS
  <1>2. (~rd) \in BOOLEAN
    BY Zenon
  <1>3. /\ file' = Stream(-1, rd, ~rd, "none") /\ pc = "idle" /\ ~file.open
        /\ blocks' = IF -1 = -1 THEN blocks ELSE blocks \cup {FileBlock}
        /\ in' = 0 /\ undone' = 0
        /\ UNCHANGED <<pc, call, sent, out, put, told>>
    BY Zenon DEF UseDevice
  <1>. QED
    BY <1>1, <1>2, <1>3, OpenStep, Zenon

LEMMA StepKeeps == StdioInv /\ DataOK' /\ [Next]_vars => StreamInv'
  <1>. SUFFICES ASSUME StdioInv, DataOK', [Next]_vars PROVE StreamInv'
    OBVIOUS
  <1>1. CASE Calls
    BY <1>1, FdopenStep, UseDeviceStep, CloseStep, FputcStep, FputcDeviceStep, FgetcDeviceStep,
       UngetStep, StartsStep DEF Calls, Starts
  <1>2. CASE Steps
    BY <1>2, FlushStep, FlushDoneStep, PutCharStep, FlushReturnsStep, GetStep, FillStep,
       SeekStep, ResizeStep, CloseStep DEF Steps
  <1>3. CASE UNCHANGED vars
    BY <1>3 DEF vars, StdioInv, StreamInv, PcInv, Buffered, ToWrite, OutInv, OutInOrder, LossInv,
       Accounted, Taken, WindowInv, BufferLives
  <1>. QED
    BY <1>1, <1>2, <1>3 DEF Next

LEMMA DataKeeps == StdioInv /\ [Next]_vars => DataOK'
  <1>. SUFFICES ASSUME StdioInv, [Next]_vars PROVE DataOK'
    OBVIOUS
  <1>1. CASE Next
    BY <1>1, CallTypes, StepTypes DEF Next, StdioInv
  <1>2. CASE UNCHANGED vars
    BY <1>2 DEF vars, StdioInv, DataOK
  <1>. QED
    BY <1>1, <1>2

LEMMA InitInv == Init => StdioInv
  <1>. SUFFICES ASSUME Init PROVE StdioInv
    OBVIOUS
  <1>1. ~file.open /\ file = NoFile
    BY DEF Init, NoFile
  <1>2. DataOK
    BY DEF Init, DataOK
  <1>3. PcInv /\ ToWrite /\ OutInv /\ LossInv
    BY <1>1, EmptyBuffer DEF Init, PcInv, ToWrite, OutInv, OutInOrder, LossInv
  <1>4. WindowInv /\ BufferLives
    BY <1>1 DEF Init, WindowInv, BufferLives
  <1>. QED
    BY <1>2, <1>3, <1>4 DEF StdioInv

-----------------------------------------------------------------------------
(* What holds of every program.                                            *)

\* The inductive invariant of the streams, of fdopen, setvbuf and fclose at any time,
\* and of every way a call can fail.
THEOREM StdioInvariant == Spec => []StdioInv
  <1>1. StdioInv /\ [Next]_vars => StdioInv'
    BY DataKeeps, StepKeeps DEF StdioInv, StreamInv
  <1>. QED
    BY InitInv, <1>1, PTL DEF Spec

\* Characters written by putc, fputs or printf come out in their order, each once at
\* most, wherever write stops.
THEOREM InOrder == Spec => []OutInOrder
  <1>1. StdioInv => OutInOrder
    BY DEF StdioInv, OutInv
  <1>. QED
    BY <1>1, StdioInvariant, PTL

\* No character is dropped in silence: between calls each is out, in the buffer, or was
\* handed over before a call that reported failure.
THEOREM LossTold == Spec => []LossIsTold
  <1>1. StdioInv => LossIsTold
    BY DEF StdioInv, LossInv, Accounted, LossIsTold
  <1>. QED
    BY <1>1, StdioInvariant, PTL

\* What a stream reads is where it says it is, whatever seeks and flushes came before.
THEOREM WindowHolds == Spec => []ReadWindow
  <1>1. StdioInv => ReadWindow
    BY DEF StdioInv, WindowInv, ReadWindow, Buffered
  <1>. QED
    BY <1>1, StdioInvariant, PTL

\* The stream's buffer is its own or the caller's, never too small, freed once.
THEOREM BuffersLive == Spec => []BufferLives
  <1>1. StdioInv => BufferLives
    BY DEF StdioInv
  <1>. QED
    BY <1>1, StdioInvariant, PTL

\* The types of the model, which are part of the invariant.
THEOREM StdioTypes == Spec => []TypeOK
  <1>1. StdioInv => TypeOK
    <2>. SUFFICES ASSUME StdioInv PROVE TypeOK
      OBVIOUS
    <2>1. call = NoCall \/ call.name \in Names
      BY RequestIsCall DEF StdioInv, DataOK
    <2>2. file # NoFile => file \in Files
      BY DEF StdioInv, DataOK
    <2>3. file # NoFile =>
            /\ file.fd \in -1 .. 1 /\ file.dir \in {"none", "rd", "wr"}
            /\ {file.rd, file.wr, file.ball, file.lbf, file.unget} \subseteq BOOLEAN
            /\ file.mem \in Memory /\ file.size \in Nat \ {0}
            /\ file.buf \in Seq(Nat) /\ file.off \in Nat /\ file.pos \in Int
      BY <2>2, FilesFields
    <2>. QED
      BY <2>1, <2>3 DEF StdioInv, DataOK, TypeOK
  <1>. QED
    BY <1>1, StdioInvariant, PTL

-----------------------------------------------------------------------------
(* math.c: what ldexp and frexp come to.                                   *)

\* All the proofs need to know of the two exponents.
LEMMA Exponents == ExpMax \in Int /\ Half \in Int /\ 0 < Half /\ Half < ExpMax
  BY DEF ExpMax, Half

USE Exponents

\* The type the arithmetic needs.
LEMMA ExpIsInt ==
  ASSUME NEW x \in Doubles
  PROVE  x.e \in Int /\ 0 <= x.e /\ x.e <= ExpMax
  <1>1. x.e \in 0 .. ExpMax
    BY DEF Doubles
  <1>. QED
    BY <1>1

\* What ldexp returns is a double.
LEMMA LdexpType ==
  ASSUME NEW x \in Doubles, NEW n \in Int
  PROVE  ldexp(x, n) \in Doubles
  <1>1. x.neg \in BOOLEAN /\ x.e \in 0 .. ExpMax /\ x.m \in Nat
    BY DEF Doubles
  <1>2. CASE ~Normal(x)
    BY <1>2 DEF ldexp
  <1>3. CASE Normal(x) /\ x.e + n >= ExpMax
    <2>1. ExpMax \in 0 .. ExpMax /\ 0 \in Nat
      OBVIOUS
    <2>. QED
      BY <1>1, <1>3, <2>1 DEF ldexp, Infinity, Doubles
  <1>4. CASE Normal(x) /\ ~(x.e + n >= ExpMax) /\ x.e + n <= 0
    <2>1. 0 \in 0 .. ExpMax /\ 0 \in Nat
      OBVIOUS
    <2>. QED
      BY <1>1, <1>4, <2>1 DEF ldexp, Zero, Doubles
  <1>5. CASE Normal(x) /\ ~(x.e + n >= ExpMax) /\ ~(x.e + n <= 0)
    <2>1. PICK e \in Int : e = x.e
      BY ExpIsInt
    <2>2. e + n \in 0 .. ExpMax
      BY <1>5, <2>1
    <2>. QED
      BY <1>1, <1>5, <2>1, <2>2 DEF ldexp, Doubles
  <1>. QED
    BY <1>2, <1>3, <1>4, <1>5

\* frexp splits a normal number into one from 1/2 to 1 and a power of two, and ldexp
\* puts any number together again, those included that frexp leaves as they are.
THEOREM RoundTrip ==
  ASSUME NEW x \in Doubles
  PROVE  /\ Normal(x) => frexp(x).d.e = Half
         /\ ldexp(frexp(x).d, frexp(x).ep) = x
  <1>1. x.e \in Int /\ x = [neg |-> x.neg, e |-> x.e, m |-> x.m] /\ x.e \in 0 .. ExpMax
    BY DEF Doubles
  <1>2. CASE ~Normal(x)
    BY <1>2 DEF frexp, ldexp
  <1>3. CASE Normal(x)
    <2>. DEFINE d == [neg |-> x.neg, e |-> Half, m |-> x.m]
    <2>1. frexp(x) = [d |-> d, ep |-> x.e - Half]
      BY <1>3 DEF frexp
    <2>2. Normal(d) /\ d.e + (x.e - Half) = x.e /\ 0 < x.e /\ x.e < ExpMax
      BY <1>1, <1>3 DEF Normal, Half
    <2>3. ldexp(d, x.e - Half) = [neg |-> x.neg, e |-> x.e, m |-> x.m]
      BY <1>1, <2>2 DEF ldexp
    <2>. QED
      BY <1>1, <2>1, <2>3
  <1>. QED
    BY <1>2, <1>3

\* Two scalings in one direction are the scaling by their sum, past the ends of the
\* range too: an infinity, once reached, stays, and so does a zero.
THEOREM ScalingsAdd ==
  ASSUME NEW x \in Doubles, NEW a \in Int, NEW b \in Int,
         (a >= 0 /\ b >= 0) \/ (a <= 0 /\ b <= 0)
  PROVE  ldexp(ldexp(x, a), b) = ldexp(x, a + b)
  <1>1. x.e \in Int /\ 0 <= x.e /\ x.e <= ExpMax
    BY ExpIsInt
  <1>2. CASE ~Normal(x)
    <2>1. ldexp(x, a) = x /\ ldexp(x, b) = x /\ ldexp(x, a + b) = x
      BY <1>2, Zenon DEF ldexp
    <2>. QED
      BY <2>1, Zenon
  <1>3. CASE Normal(x) /\ x.e + a >= ExpMax
    <2>1. ldexp(x, a) = Infinity(x.neg)
      BY <1>3 DEF ldexp
    <2>2. ldexp(Infinity(x.neg), b) = Infinity(x.neg)
      BY DEF ldexp, Normal, Infinity
    <2>3. x.e + (a + b) >= ExpMax
      BY <1>1, <1>3 DEF Normal
    <2>. QED
      BY <1>3, <2>1, <2>2, <2>3 DEF ldexp
  <1>4. CASE Normal(x) /\ ~(x.e + a >= ExpMax) /\ x.e + a <= 0
    <2>1. ldexp(x, a) = Zero(x.neg)
      BY <1>4 DEF ldexp
    <2>2. ldexp(Zero(x.neg), b) = Zero(x.neg)
      BY DEF ldexp, Normal, Zero
    <2>3. x.e + (a + b) <= 0 /\ ~(x.e + (a + b) >= ExpMax)
      BY <1>1, <1>4 DEF Normal
    <2>. QED
      BY <1>4, <2>1, <2>2, <2>3 DEF ldexp
  <1>5. CASE Normal(x) /\ ~(x.e + a >= ExpMax) /\ ~(x.e + a <= 0)
    <2>. DEFINE y == [neg |-> x.neg, e |-> x.e + a, m |-> x.m]
    <2>1. ldexp(x, a) = y
      BY <1>5 DEF ldexp
    <2>2. Normal(y)
      BY <1>1, <1>5 DEF Normal
    <2>3. y.e + b = x.e + (a + b)
      BY <1>1
    <2>4. y.neg = x.neg /\ y.m = x.m
      OBVIOUS
    <2>. HIDE DEF y
    <2>. QED
      BY <1>5, <2>1, <2>2, <2>3, <2>4 DEF ldexp
  <1>. QED
    BY <1>2, <1>3, <1>4, <1>5
=============================================================================
