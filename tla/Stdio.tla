------------------------------- MODULE Stdio --------------------------------
(***************************************************************************)
(* lib/stub/io.c under the streams of picolibc: any program that opens one *)
(* stream at a time, buffered over a file descriptor (fdopen) or the       *)
(* unbuffered stdin and stdout, and calls the functions of stdio on it.    *)
(*                                                                         *)
(* The device is behind stub_putc and stub_getc: it takes a character or   *)
(* refuses it, and has a next character or none.  There is nothing to seek *)
(* in and nothing to close: the lseek and close of lib/stub/syscalls.c     *)
(* fail, always.                                                           *)
(*                                                                         *)
(* The n-th character written is n, the n-th character of the input is n.  *)
(***************************************************************************)
EXTENDS Integers, Sequences

CONSTANTS
  BufSiz,   \* BUFSIZ, the size of the buffer fdopen allocates
  Sizes,    \* sizes the program passes to setvbuf
  Offsets,  \* offsets the program passes to fseek
  MaxPut,   \* characters the program writes
  MaxIn     \* characters of the input of one stream

ASSUME StdioAssumption ==
  /\ BufSiz \in Nat \ {0}
  /\ Sizes \subseteq Nat /\ Offsets \subseteq Int
  /\ MaxPut \in Nat /\ MaxIn \in Nat

VARIABLES
  file,    \* the open stream, or NoFile
  blocks,  \* blocks the streams have allocated and not freed
  pc,      \* "idle", or where in a call the program is
  call,    \* the call it is in
  sent,    \* i of write's loop
  out,     \* characters the device has taken
  in,      \* characters the stream has taken from the device
  put,     \* history: characters handed to stdio so far
  told,    \* history: characters handed over when a call last reported failure
  undone   \* history: characters of the input a flush has thrown away

vars == <<file, blocks, pc, call, sent, out, in, put, told, undone>>

\* A piece of memory: what it is and how much it holds.
Memory == {"file", "heap", "user"} \X (Nat \ {0})
FileBlock == <<"file", BufSiz>>

NoFile == [open |-> FALSE]
NoCall == [name |-> "none"]

\* fd is -1 for stdin and stdout, which io.c binds to the device directly.
Stream(fd, rd, wr, dir) ==
  [ open |-> TRUE, fd |-> fd, rd |-> rd, wr |-> wr, dir |-> dir,
    mem |-> FileBlock, ball |-> FALSE, lbf |-> FALSE, size |-> BufSiz,
    buf |-> <<>>, off |-> 0, pos |-> 0, unget |-> FALSE ]

\* "r", "w", "a" and "r+".
Modes ==
  {m \in [rd : BOOLEAN, wr : BOOLEAN, append : BOOLEAN] :
     (m.rd \/ m.wr) /\ (m.append => ~m.rd)}

Buffered == file.open /\ file.fd >= 0

Init ==
  /\ file = NoFile /\ blocks = {} /\ pc = "idle" /\ call = NoCall
  /\ sent = 0 /\ out = <<>> /\ in = 0
  /\ put = 0 /\ told = 0 /\ undone = 0

-----------------------------------------------------------------------------
(* Steps of the calls.                                                     *)

Return == pc' = "idle" /\ call' = NoCall
Succeed == Return /\ UNCHANGED told
Fail == Return /\ told' = put

\* __bufio_flush_locked of a stream that reads: what is unread goes, and pos goes
\* back to it, as if lseek had succeeded.
Unread == IF file.dir = "rd" THEN Len(file.buf) - file.off ELSE 0
Rewound == [file EXCEPT !.pos = @ - Unread, !.buf = <<>>, !.off = 0]

\* A call on a buffered stream first flushes it: a stream that writes in steps of
\* its own, the others at once.  dir is what __bufio_setdir_locked sets.
Begin(c, dir) ==
  /\ pc = "idle" /\ Buffered
  /\ call' = c
  /\ IF file.dir = "wr"
     THEN pc' = "flush" /\ UNCHANGED <<file, undone>>
     ELSE /\ pc' = "flushed"
          /\ file' = [Rewound EXCEPT !.dir = dir]
          /\ undone' = undone + Unread

\* The same, if the stream goes the other way: otherwise nothing is flushed.
Turn(c, dir) ==
  /\ pc = "idle" /\ Buffered
  /\ IF file.dir # dir THEN Begin(c, dir)
     ELSE call' = c /\ pc' = "flushed" /\ UNCHANGED <<file, undone>>

\* Seeded fault: write's caller does not move on in the buffer.
Rest_Again(n) == SubSeq(file.buf, 1, Len(file.buf) - n)

\* What is left to write when n characters have been.
Rest(n) == SubSeq(file.buf, n + 1, Len(file.buf))

\* The functions that turn a stream to reading.
Reading == {"fgetc", "fseek", "ftell"}

\* A flush that fails has turned the stream nevertheless.
Turned(f) == IF call.name \in Reading THEN [f EXCEPT !.dir = "rd"] ELSE f

\* Seeded fault: getc reads on after a failed flush.
FlushFailed_Unlooked ==
  /\ file' = Turned([file EXCEPT !.buf = <<>>])
  /\ IF call.name \in {"fclose", "fgetc"}
     THEN pc' = "flushed" /\ UNCHANGED <<call, told>>
     ELSE Fail

\* The contents are dropped and the call fails, but for fclose, which goes on.
FlushFailed ==
  /\ file' = Turned([file EXCEPT !.buf = <<>>, !.unget = @ /\ call.name # "fflush"])
  /\ IF call.name = "fclose"
     THEN pc' = "flushed" /\ UNCHANGED <<call, told>>
     ELSE Fail

\* Seeded fault: a write of nothing is tried again.
Stuck_Negative(n) == n < 0

Stuck(n) == n <= 0

\* write has returned n.
Written(n) ==
  IF Stuck(n) THEN FlushFailed
  ELSE /\ file' = [file EXCEPT !.buf = Rest(n), !.pos = @ + n]
       /\ pc' = "flush" /\ UNCHANGED <<call, told>>

\* write(fd, buf, len), which knows no descriptor but 1 and 2.
Flush ==
  /\ pc = "flush" /\ file.buf # <<>>
  /\ IF file.fd = 1
     THEN pc' = "write" /\ UNCHANGED <<file, call, told>>
     ELSE Written(-1)
  /\ UNCHANGED <<blocks, sent, out, in, put, undone>>

FlushDone ==
  /\ pc = "flush" /\ file.buf = <<>>
  /\ file' = Turned(file)
  /\ pc' = "flushed"
  /\ UNCHANGED <<blocks, call, sent, out, in, put, told, undone>>

\* stub_putc takes the next character.
PutChar ==
  /\ pc = "write" /\ sent < Len(file.buf)
  /\ out' = Append(out, file.buf[sent + 1])
  /\ sent' = sent + 1
  /\ UNCHANGED <<file, blocks, pc, call, in, put, told, undone>>

\* write returns: after the last character, or because stub_putc fails.
WriteReturns ==
  /\ pc = "write"
  /\ Written(sent)
  /\ sent' = 0
  /\ UNCHANGED <<blocks, out, in, put, undone>>

\* fputc after the flush and fflush have nothing left to do.
FlushReturns ==
  /\ pc = "flushed" /\ call.name \in {"fputc", "fflush"}
  /\ Succeed
  /\ file' = [file EXCEPT !.unget = @ /\ call.name # "fflush"]
  /\ UNCHANGED <<blocks, sent, out, in, put, undone>>

-----------------------------------------------------------------------------
(* The calls.  One that is refused without a change is no step.            *)

\* calloc fails or gives the block of the stream and its buffer.  "a" seeks to the
\* end, which fails and leaves the stream reading.
Fdopen(fd, m) ==
  /\ pc = "idle" /\ ~file.open
  /\ file' = Stream(fd, m.rd, m.wr, IF m.append THEN "rd" ELSE "none")
  /\ blocks' = blocks \cup {FileBlock}
  /\ in' = 0 /\ undone' = 0
  /\ UNCHANGED <<pc, call, sent, out, put, told>>

\* stdin or stdout, which nobody allocates or closes.
UseDevice(rd) ==
  /\ pc = "idle" /\ ~file.open
  /\ file' = Stream(-1, rd, ~rd, "none")
  /\ in' = 0 /\ undone' = 0
  /\ UNCHANGED <<blocks, pc, call, sent, out, put, told>>

\* fclose of them does nothing; the program goes on with another stream.
LeaveDevice ==
  /\ pc = "idle" /\ file.open /\ file.fd = -1 /\ ~file.unget
  /\ file' = NoFile
  /\ UNCHANGED <<blocks, pc, call, sent, out, in, put, told, undone>>

\* __bufio_put: the flush if the buffer is full, or at a newline.
Fputc(newline) ==
  /\ pc = "idle" /\ Buffered /\ file.wr
  /\ put < MaxPut /\ put' = put + 1
  /\ LET f == [Rewound EXCEPT !.dir = "wr"]
         g == [IF file.dir = "wr" THEN file ELSE f EXCEPT !.buf = Append(@, put')]
     IN  /\ file' = g
         /\ IF Len(g.buf) >= g.size \/ (newline /\ g.lbf)
            THEN pc' = "flush" /\ call' = [name |-> "fputc"]
            ELSE UNCHANGED <<pc, call>>
  /\ undone' = undone + Unread
  /\ UNCHANGED <<blocks, sent, out, in, told>>

\* stdio_put.
FputcDevice ==
  /\ pc = "idle" /\ file.open /\ file.fd = -1 /\ file.wr
  /\ put < MaxPut /\ put' = put + 1
  /\ \/ out' = Append(out, put') /\ UNCHANGED told
     \/ told' = put' /\ UNCHANGED out
  /\ UNCHANGED <<file, blocks, pc, call, sent, in, undone>>

Fgetc ==
  /\ file.open /\ file.rd /\ ~file.unget
  /\ Turn([name |-> "fgetc"], "rd")
  /\ UNCHANGED <<blocks, sent, out, in, put, told>>

\* What was pushed back comes first, whatever the stream does.
FgetcUnget ==
  /\ pc = "idle" /\ file.open /\ file.rd /\ file.unget
  /\ file' = [file EXCEPT !.unget = FALSE]
  /\ UNCHANGED <<blocks, pc, call, sent, out, in, put, told, undone>>

\* stdio_get.
FgetcDevice ==
  /\ pc = "idle" /\ file.open /\ file.fd = -1 /\ file.rd /\ ~file.unget
  /\ in < MaxIn /\ in' = in + 1
  /\ UNCHANGED <<file, blocks, pc, call, sent, out, put, told, undone>>

GetBuffered ==
  /\ pc = "flushed" /\ call.name = "fgetc" /\ file.off < Len(file.buf)
  /\ Succeed
  /\ file' = [file EXCEPT !.off = @ + 1]
  /\ UNCHANGED <<blocks, sent, out, in, put, undone>>

\* Seeded fault: the read pointer is not reset.
Filled_NotReset(n) ==
  [file EXCEPT !.buf = [i \in 1 .. n |-> in + i], !.pos = @ + n]

\* The buffer after read has returned n characters.
Filled(n) ==
  [file EXCEPT !.buf = [i \in 1 .. n |-> in + i], !.off = 0, !.pos = @ + n]

\* __bufio_fill_locked: read stops at the first stub_getc that has nothing, and
\* knows no descriptor but 0.
Fill ==
  /\ pc = "flushed" /\ call.name = "fgetc" /\ file.off >= Len(file.buf)
  /\ \E n \in IF file.fd = 0 THEN 0 .. file.size ELSE {0} :
       /\ in + n <= MaxIn
       /\ in' = in + n
       /\ IF n = 0 THEN file' = Filled(0) /\ Fail
          ELSE file' = [Filled(n) EXCEPT !.off = @ + 1] /\ Succeed
  /\ UNCHANGED <<blocks, sent, out, put, undone>>

Ungetc ==
  /\ pc = "idle" /\ file.open /\ file.rd /\ ~file.unget
  /\ file' = [file EXCEPT !.unget = TRUE]
  /\ UNCHANGED <<blocks, pc, call, sent, out, in, put, told, undone>>

Fflush ==
  /\ Buffered
  /\ Begin([name |-> "fflush"], file.dir)
  /\ UNCHANGED <<blocks, sent, out, in, put, told>>

\* stdin and stdout have nothing to flush, but lose what was pushed back.
FflushDevice ==
  /\ pc = "idle" /\ file.open /\ file.fd = -1 /\ file.unget
  /\ file' = [file EXCEPT !.unget = FALSE]
  /\ UNCHANGED <<blocks, pc, call, sent, out, in, put, told, undone>>

Fseek(to) ==
  /\ Turn([name |-> "fseek", from |-> to.from, offset |-> to.offset], "rd")
  /\ UNCHANGED <<blocks, sent, out, in, put, told>>

\* ftell is a seek to where the stream is.
Ftell ==
  /\ Turn([name |-> "ftell", from |-> "CUR", offset |-> 0], "rd")
  /\ UNCHANGED <<blocks, sent, out, in, put, told>>

\* __bufio_seek: within the buffer, or lseek, whose failure empties the buffer.  A
\* negative place is reached and reported as a failure.
Seek ==
  /\ pc = "flushed" /\ call.name \in {"fseek", "ftell"}
  /\ LET start == file.pos - Len(file.buf)
         place == IF call.from = "CUR" THEN call.offset + start + file.off ELSE call.offset
     IN  IF call.from # "END" /\ place \in start .. file.pos
         THEN /\ file' = [file EXCEPT !.off = place - start,
                                      !.unget = @ /\ (call.name = "ftell" \/ place < 0)]
              /\ IF place < 0 THEN Fail ELSE Succeed
         ELSE file' = [file EXCEPT !.buf = <<>>, !.off = 0] /\ Fail
  /\ UNCHANGED <<blocks, sent, out, in, put, undone>>

Setvbuf(user, mode, size) ==
  /\ Buffered
  /\ Begin([name |-> "setvbuf", user |-> user, mode |-> mode, size |-> size], file.dir)
  /\ UNCHANGED <<blocks, sent, out, in, put, told>>

\* The new size of the buffer.
Wanted(size) ==
  IF size > 0 THEN size ELSE IF file.size > 1 THEN file.size ELSE BufSiz

Without(ball) == IF ball THEN blocks \ {file.mem} ELSE blocks

\* Seeded fault: the stream goes on taking the buffer for its own.
Replace_KeepsFlag(f, size) ==
  /\ file' = [f EXCEPT !.mem = <<"user", size>>, !.size = size]
  /\ blocks' = Without(f.ball)
  /\ Succeed

\* The caller's buffer replaces the one there was.
Replace(f, size) ==
  /\ file' = [f EXCEPT !.mem = <<"user", size>>, !.size = size, !.ball = FALSE]
  /\ blocks' = Without(f.ball)
  /\ Succeed

\* malloc, or realloc of the buffer the stream has allocated before, may fail.
Allocate(f, size) ==
  \/ /\ file' = [f EXCEPT !.mem = <<"heap", size>>, !.size = size, !.ball = TRUE]
     /\ blocks' = Without(f.ball) \cup {<<"heap", size>>}
     /\ Succeed
  \/ file' = f /\ UNCHANGED blocks /\ Fail

\* __bufio_setvbuf: line buffering is off by the time anything can fail.
Resize ==
  /\ pc = "flushed" /\ call.name = "setvbuf"
  /\ LET f == [file EXCEPT !.lbf = call.mode = "LBF"]
         user == call.user /\ call.mode # "NBF"
         size == IF call.mode = "NBF" THEN 1 ELSE Wanted(call.size)
         refused == call.mode = "none" \/ (user /\ call.size = 0)
     IN  \/ refused /\ file' = f /\ UNCHANGED blocks /\ Fail
         \/ ~refused /\ size = f.size /\ file' = f /\ UNCHANGED blocks /\ Succeed
         \/ ~refused /\ size # f.size /\ user /\ Replace(f, size)
         \/ ~refused /\ size # f.size /\ ~user /\ Allocate(f, size)
  /\ UNCHANGED <<sent, out, in, put, undone>>

Fclose ==
  /\ Buffered
  /\ Begin([name |-> "fclose"], file.dir)
  /\ UNCHANGED <<blocks, sent, out, in, put, told>>

\* The result is that of close, which fails.
Close ==
  /\ pc = "flushed" /\ call.name = "fclose"
  /\ blocks' = Without(file.ball) \ {FileBlock}
  /\ file' = NoFile
  /\ Fail
  /\ UNCHANGED <<sent, out, in, put, undone>>

Places == [from : {"SET", "CUR"}, offset : Offsets] \cup {[from |-> "END", offset |-> 0]}

Calls ==
  \/ \E fd \in 0 .. 1, m \in Modes : Fdopen(fd, m)
  \/ \E rd \in BOOLEAN : UseDevice(rd)
  \/ LeaveDevice
  \/ \E newline \in BOOLEAN : Fputc(newline)
  \/ FputcDevice \/ Fgetc \/ FgetcUnget \/ FgetcDevice \/ Ungetc \/ Fflush \/ FflushDevice
  \/ \E to \in Places : Fseek(to)
  \/ Ftell
  \/ \E user \in BOOLEAN, mode \in {"FBF", "LBF", "NBF", "none"}, size \in Sizes :
       Setvbuf(user, mode, size)
  \/ Fclose

Steps ==
  \/ Flush \/ FlushDone \/ PutChar \/ WriteReturns \/ FlushReturns
  \/ GetBuffered \/ Fill \/ Seek \/ Resize \/ Close

Next == Calls \/ Steps

\* The program is the only one there is, and stub_putc and stub_getc return.
Spec == Init /\ [][Next]_vars /\ WF_vars(Steps)

-----------------------------------------------------------------------------
(* Properties.                                                             *)

Names == {"fputc", "fgetc", "fflush", "fseek", "ftell", "setvbuf", "fclose"}

TypeOK ==
  /\ file # NoFile =>
       /\ file.fd \in -1 .. 1 /\ file.dir \in {"none", "rd", "wr"}
       /\ {file.rd, file.wr, file.ball, file.lbf, file.unget} \subseteq BOOLEAN
       /\ file.mem \in Memory /\ file.size \in Nat \ {0}
       /\ file.buf \in Seq(Nat) /\ file.off \in Nat /\ file.pos \in Int
  /\ blocks \subseteq Memory
  /\ pc \in {"idle", "flush", "write", "flushed"}
  /\ call = NoCall \/ call.name \in Names
  /\ out \in Seq(1 .. MaxPut)
  /\ sent \in Nat /\ in \in 0 .. MaxIn /\ undone \in 0 .. MaxIn
  /\ put \in 0 .. MaxPut /\ told \in 0 .. MaxPut

Taken(s) == {s[i] : i \in 1 .. Len(s)}

\* What the device gets is in the order in which it was written and nothing comes
\* twice: however often write stops in the middle and the flush goes on.
OutInOrder == \A i, j \in 1 .. Len(out) : i < j => out[i] < out[j]

\* Between calls, a character that is neither out nor in the buffer was dropped by a
\* call that reported failure, after it was handed over.
LossIsTold ==
  pc = "idle" => \A c \in 1 .. put :
    c \in Taken(out) \/ c <= told \/ (file.open /\ c \in Taken(file.buf))

\* A buffer that is read is the end of what the stream has taken from the device,
\* and the position differs from the device's by what flushes have thrown away, and
\* by nothing else: seeks within the buffer arrive where they say.
ReadWindow ==
  Buffered /\ file.dir = "rd" /\ file.fd = 0 =>
    /\ file.off <= Len(file.buf)
    /\ \A i \in 1 .. Len(file.buf) : file.buf[i] = in - Len(file.buf) + i
    /\ file.pos = in - undone

\* The stream's buffer is memory it has or was given, and as large as the stream
\* takes it for; what it allocated is not lost, and is given back when it is closed.
BufferLives ==
  IF file.open /\ file.fd >= 0
  THEN /\ blocks = {FileBlock} \cup (IF file.ball THEN {file.mem} ELSE {})
       /\ file.mem[1] = "heap" <=> file.ball
       /\ file.mem[2] = file.size
       /\ Len(file.buf) < file.size \/ pc # "idle" \/ file.dir = "rd"
       /\ Len(file.buf) <= file.size
  ELSE blocks = {}

\* Every call returns, also if the device takes nothing from some point on.
Returns == pc # "idle" ~> pc = "idle"
=============================================================================
