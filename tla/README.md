# Verification of esp32c6-fw

TLA+ models of the firmware and of the tools that put it on the chip, TLC
configurations that check them on small instances, and TLAPS proofs of their
safety properties for all values of the constants. `PROJECT.json` lists the
components, runs, theorems, hazards and findings, and maps each definition to
the lines it models.

    tlc -workers 2 -config EspFlashFaulty.cfg EspFlashMC    # a run
    tlapm EspFlashProofs.tla                                # a proof

## 1. Inventory

The repository holds bare-metal firmware for the RISC-V core of the ESP32-C6
(start-up code, a few polled drivers, stubs below a vendored C library, two
test targets) and three Python tools: `imager` wraps a binary into an image,
`espctl` writes it to the chip, `docskit` generates register headers. Nothing
in the firmware is interrupt-driven and there is one core; what runs
concurrently with the code is hardware, and in `espctl` the chip.

| Component | State it keeps | Operations | What is hard | What makes it correct |
|---|---|---|---|---|
| `espctl flash` (`tools/espctl/espctl.py` 170-314, 400-447) | place in `esp_flash`, `attempt`, `seq`, what is left of `input_bin`; requests and responses in flight; the ROM's flash | open, `enter_download_mode`, `flush`, `sync`, `spi_attach`, `flash_begin/data/end`, `reset` | 0.1 s timeout on requests that take longer; no result is looked at; late answers; cut frames; the reset in `finally` overtakes queued requests | the image is in place when the ROM has acknowledged the end; blocks only at their place, in order, never undone; the chip always ends in its application; the command ends |
| SLIP, `check_response` (`espctl.py` 53-134) | bytes of the frame, escape state | `slip_encode`, `slip_decode`, `recv_response` | frames joined in the middle, text between frames, timeouts at every byte | returns what was sent, in order; skips nothing; no packet made of pieces |
| UART (`drivers/uart/uart.c`) | FIFO, `INT_ENA`, `INT_RAW`, `REG_UPDATE` | `uart_init`, `uart_tx_char`, `uart_exit` | the transmitter acts between any two register accesses; writes do not look at the FIFO; characters of the ROM in it | no overrun, order kept, every poll ends |
| USB Serial/JTAG (`drivers/usb_serial_jtag/usb_serial_jtag.c`) | FIFO, packet, `IN_EMPTY` and `IN_FLUSH` events | `putc`, `flush` | the host collects at any time, or never | order kept, at most one character held, continues when a host stays |
| Watchdogs (`drivers/wdt/wdt.c`) | keys, configuration and configuration in force of MAIN0, MAIN1, RTC; the super watchdog's register | lock, unlock, enable, disable, flash-boot mode, feed, auto-feed | write protection that ignores writes silently; configuration that takes effect on an update bit; bits of several functions in one register | a timer does what it was last asked; a locked one does not change |
| Start-up (`head.S`, `lscript.ld`, `init_wdt` of the targets) | `.bss`, `.data` and heap in RAM, registers of the watchdogs | hart check, clearing of `.bss`, `init_wdt`, `main` | a watchdog expires in the middle and everything starts again in used RAM, with registers that may survive | `.bss` is zero (small statics are not, section 7), nothing else is cleared, no watchdog is left to interrupt `main` |
| `sbrk` and `malloc` (`lib/stub/sbrk.c`, `lib/picolibc/libc/stdlib`) | the break; the free list, the start and the end of malloc's memory | `sbrk`, `malloc`, `calloc`, `memalign`, `realloc`, `free` | `sbrk`'s limits on no chunk's boundary; the second, aligning `sbrk` fails after the first succeeded; a program that calls `sbrk` in between; sizes near `SIZE_MAX` | live blocks are disjoint, inside the heap, large enough and aligned; what is freed can be had again |
| stdio stubs and streams (`lib/stub/io.c`, `lib/picolibc/libc/stdio`) | per stream: buffer, direction, position, pushed-back character, who owns the buffer | `write`, `read`, `stdio_put`, `stdio_get`; `fdopen`, `fputc`, `fgetc`, `ungetc`, `fflush`, `fseek`, `ftell`, `setvbuf`, `fclose` | partial writes; a flush that fails in the middle of another call; `lseek` and `close` that always fail; a buffer that changes hands | output in order and not doubled, no silent loss, the read position, no stale buffer, every call returns |
| `ldexp`, `frexp`, `finitef` (`lib/stub/math.c`) | none | pure | both ends of the exponent, subnormals | inverse of each other; scalings add up |
| system-call stubs (`lib/stub/syscalls.c`) | `errno` | return -1 | nothing | - |
| `imager` (`tools/imager/main.py`) | none | pure | padding at the boundary | checksum is the last byte of a 16-byte row |
| `docskit` (`tools/docskit/main.py`) | fields left to emit, the bit it believes it is at | expand, sort, emit | bit-fields have widths only: order, gaps, arrays with strides, overlaps, unreadable ranges | bit-fields land on the bits the masks name |
| picolibc, register headers, make rules | - | - | vendored, data, or no run-time behaviour | - |

Interactions. `main` calls `init_wdt` (watchdog driver), then `stub_putc`
through `printf`, which the target binds to a transmit driver; the driver
shares its registers with the peripheral. `espctl` talks to the ROM loader
over the serial port, request by request, and resets the chip with DTR/RTS;
after the reset the chip runs `head.S` from RAM where the ROM has loaded the
image of `imager`. `malloc` of picolibc calls `sbrk`; its streams call `write`,
`read`, `lseek` and `close` of `lib/stub`, which call `stub_putc` and
`stub_getc` of the target.

The hazards - what is hard to test - are listed at their lines in
`PROJECT.json`, each with the properties that would catch it.

## 2. Plan

| Order | Module | Content | State |
|---|---|---|---|
| 1 | `EspFlash` (+ `EspFlashMC`, `EspFlashProofs`) | host, link and ROM during `espctl flash` | done, proved |
| 2 | `CharOut` | abstract: a transmitter that loses, repeats and reorders nothing | done |
| 3 | `Uart` (+ `UartProofs`) | refines `CharOut` | done, proved |
| 4 | `UsbSerialJtag` (+ `UsbProofs`) | refines `CharOut` with one place | done, proved |
| 5 | `Wdt`, `WdtCalls` (+ `WdtProofs`) | registers and functions; any program over them | done, proved |
| 6 | `Boot` (+ `BootProofs`) | composes start-up code with `Wdt` | done, proved |
| 7 | `Slip` (+ `SlipMC`, `ToolProofs`) | the bytes below `EspFlash`'s frames | done, proved |
| 8 | `Heap` (+ `HeapMC`, `HeapProofs`), `Allocator` | `sbrk` and the malloc family over it; the abstract allocator it refines | done, proved, the refinement too |
| 9 | `Stdio` (+ `StdioMC`, `StubProofs`) | `lib/stub/io.c` under picolibc's streams, over a device that may refuse | done, safety proved |
| 10 | `Docskit` (+ `DocskitMC`, `ToolProofs`) | the union and the masks of a register | done, proved |
| 11 | `SoftFloat` (+ `StubProofs`) | `lib/stub/math.c` on the fields of a number | done, proved |
| 12 | `BootLines` | DTR/RTS wave forms of `enter_download_mode` and `reset` against the strapping logic, refining the one-step reset of `EspFlash` | open: the strapping logic is the board's, not the repository's |

Further theorems worth proving: that `EspFlash`, when the ROM answers in time
and refuses nothing, implements "the image is copied in one step". That `Slip` is
a link that delivers whole packets, in order, is what `SlipOnlyWritten` and
`SlipNoneSkipped` say together, as long as no text may have completed a cut packet.

## 3. Modules and code

**EspFlash.** A SLIP frame is one element of a FIFO, a block of the image is
its index. `pc` is the host's place in `esp_flash`; `Body` is the `try`,
`Finally` the `finally`. Each `Send*` action is the
`send_command` of one method,
each `*Wait` place is its `recv_response`. A read that times out
(`ReadTimeout`) is possible when the chip owes nothing, or at any time when
`"late"` is among the faults. `SyncFails` models the `except` clause that
names `SerialTimeoutException` without importing it: whatever was raised in
`sync` leaves it as a `NameError`. `ResponseInvalid` has the three ways a
`recv_response` can raise. `OpenFails` is the failing `finally` (line 445) of a
port that could not be opened. The ROM (`Rom*`) is external: it handles
requests in order, refuses data before a begin, and may start the application
on FLASH_END. A reset drops the requests it had not read. Which faults can happen
is chosen once, at the start (`faults`, from `FaultSets`), so that one run
holds both the faulty system and the healthy one, of which more is asked.

**Slip.** One action per byte read. `EncodeByte` and `DecodeByte` are the bodies
of the loops of `slip_encode` and `slip_decode`, `Encode` and `Decode` the loops,
as functions of the number of bytes done; `Valid` is `check_response`. The chip
writes whole frames, frames cut at any byte, and text (`TextBytes`) of any length;
the host awaits any command at each call, and `place` is where it is in
`recv_response`. Since a frame has no checksum, text right behind a cut one may
supply just the bytes it lacks, and the host cannot tell. The chip does write so:
`begun` counts the bytes of a packet that stand last on the line, and `passable`
says that text has come where it may complete them (`Completes`). Both are
histories, on which no step depends.

**CharOut.** The promise both drivers are held to. `put` counts characters
handed over, `out` is the line.

**Uart, UsbSerialJtag.** One action is one register access, so that the
peripheral can act between any two; a polling loop is one action that is
enabled when the polled value is there. The registers are those the driver
touches. `CharOut` is instantiated with `put <- Put`, which is read off `pc`
and `i`; `Cap` is the FIFO's size for the UART, 1 for USB. For USB, `stale` says
that a packet of the boot ROM's is still to be collected; the host may come and
go at any time (`Plug`).

**Wdt** has registers as records and each driver function as an operator from
registers to registers; the key registers keep their 32-bit values, because
two functions set bits of the super watchdog's key. **WdtCalls** calls the
functions in any order, from one program, with histories of what was asked.
**Boot** runs them as `init_wdt` does, one access at a time, after `head.S` has
cleared `.bss` word by word. `Statics` are the words of `.bss` and those of
`.sbss`, which the linker script does not name and `head.S` does not clear. A watchdog that is `Active` may expire before any
step; RAM stays as it is, and the low-power domain's registers are reset or
stay (`AfterReset`).

**Heap** has each function as an operator from heap to heap, since `realloc`
and `memalign` are put together from `malloc` and `free`, and the calls of any
program as actions. Addresses and sizes are bytes; a `size_t` wraps round at
`SizeMax`. `holes` keeps apart what no chunk of malloc's is: padding, what a
failed call lost, what the program took from `sbrk` itself. `chunk_end` is as
in the code: for a free chunk it is one off. `posix_memalign`, `valloc` and
`pvalloc` are checks of arguments before `memalign`. **Allocator** is the
promise: blocks appear disjoint and within the heap, disappear when they are
freed, and otherwise stay as they are.

**Stdio** has a call as a first action, then its steps (`pc`, `call`), so that
`write` is broken off at any character. A stream is a descriptor and a buffer
over it, or the unbuffered `stdin` and `stdout` of `io.c`; one stream is open at
a time. Characters are numbered, so that order and loss can be read off. The
flags that `ferror` and `feof` report are left out; `fwrite` and `fread` are
`fputc` and `fgetc` in a loop; `fopen` always fails, because `open` does.

**Docskit** emits the union of one register, field by field: `last` is the bit
the generator believes it is at, `total` where the compiler is. Ranges are
what `parse_bit_range` reads of them. Offsets, names, text layout and the hash
are left out.

**SoftFloat** has numbers as sign, exponent and mantissa.

## 4. Runs

| Run | Shows | Bounds |
|---|---|---|
| `esp_faulty` | with every fault possible at every step: the flash properties, that the command ends, and the inductive invariant; with none possible, that the image gets into the flash (`LoadsWhenHealthy`) | 2 blocks, 2 tries of SYNC, 2 replies, 1 line of text; no fault or any |
| `esp_refused` | finding, section 7 | as `esp_faulty`, refusals only |
| `slip` | frames, cut frames and text in any order, a timeout at any byte; the codec undoes itself on every short data after every frame so far | 3 writes; two responses, one without data that holds an END, one that ends in an ESC after the code of an END; a text of 11 bytes, longer than both, and one of a single byte, which completes a packet cut by one; for the codec all data of up to 2 bytes over the four special bytes and one other (the decoder remembers one byte) |
| `uart_small` | no overrun, fresh events, refinement of `CharOut` with its liveness, `Returns` | 7 characters, FIFO of 4, threshold 3, up to 3 characters of the ROM |
| `usb_any_host` | refinement of `CharOut!Safe`, `HostWakesDriver` | 8 characters |
| `usb_flush` | finding | 4 characters |
| `wdt_any` | calls in any order: timers obey, locks hold | none: the state is finite |
| `wdt_super` | finding | none |
| `boot_resets` | watchdogs expire at any access: `NoWatchdogInText`, `BssZero`, `OnlyBss`, `Settles` | 3 words of `.bss`, 1 of `.sbss`, 2 resets |
| `heap` | any program over the malloc family and `sbrk`: `Tiled`, `FreeInOrder`, `FitsAndAligned`, `LostOnce`, `AllComesBack`, refinement of `Allocator` | 132 bytes, of which the last 12 make no chunk; `size_t` of 10 bits; requests of one to eight chunks, larger than the heap and wrapping round; alignments 3 (refused) and 32; products 0 and wrapping round |
| `stdio` | any program over a stream: `OutInOrder`, `LossIsTold`, `ReadWindow`, `BufferLives`, `Returns` | buffers of 1 to 3, 3 characters out, 3 in, offsets -1, 0 and 1 |
| `docskit` | every register of up to three descriptions: `FieldsOnTheirBits`, `WordMeansRight` | 4 bits; fields of 1 and 2 bits, beyond the register, empty, reversed, unreadable; alone and in arrays of none and two with four strides |

Why the bounds are enough. Two blocks have a first, a last, one before and one
after the other, and BEGIN, both blocks and END can be queued together. The
UART text is as long as FIFO and threshold together, so the FIFO fills, drains and the event is
raised on both sides of a write; the ROM's characters fill it to the last
place. One character is in flight over USB, and eight let it pass all states
several times. A third word of `.bss` is a middle one; a second reset meets
what the first left. In `slip` the second write meets what any piece of
the first has left, and a third brings the END that ends both: with two, a frame
joined with text is never ended and what it might be taken for never seen.
The short text makes a packet of one cut by a byte. The heap holds seven chunks: a free one between two live
ones on both sides of another, and every rest a split can leave. Three
characters fill a buffer of two and go on in the next, and let `write` stop
before, between and after. Three descriptions make five fields, enough for two
arrays that interleave around a third field. The safety properties of every module are proved without the bounds.

Names of the bounds: `NBlocks`, `MaxAttempts`, `SyncReplies`, `BootLines`,
`NChars`, `Cap`, `Threshold`, `Leftover`, `Depth`, `BssWords`, `SbssWords`, `MaxResets`,
`MaxWrites`, `HeapEnd`, `HeapSize`, `StackEnd`, `SizeMax`, `Requests`, `Aligns`,
`Products`, `Increments`, `BufSiz`, `Sizes`, `Offsets`, `MaxPut`, `MaxIn`,
`WordBits`, `Fields`, `MaxFields`. `BootLines`, `MaxResets`, `MaxWrites`,
`MaxPut`, `MaxIn` and the sets bound what the environment or the program does;
the others are parameters of the code or the chip.

Deadlock is checked everywhere: a program that has ended stutters in an action of
its own (`Done`, `Hang`, `Stopped`); the programs of `Heap` and `Stdio` always have
another call.

## 5. Fairness

- `EspFlash`: weak fairness of the host and of the chip. Every read of the
  host has a timeout, so it always has a step; the ROM runs a loop.
- `Uart`: weak fairness of the CPU, which runs one program without interrupts,
  and of the transmitter and the register synchronisation, which are clocked.
- `UsbSerialJtag`: weak fairness of the CPU and of `HostCollects`, which needs
  an attached host: a host polls IN endpoints. None of `Plug`: liveness is
  claimed only under `<>[]attached`.
- `Boot`: weak fairness of the core. None of `Bite`.
- `Stdio`: weak fairness of the steps of a call (`Steps`), not of the calls:
  one program, no interrupts, and `stub_putc` and `stub_getc` return.
- `WdtCalls`, `Slip`, `Heap`, `Docskit`: none; only safety is claimed.

## 6. Proofs

| Module | Theorem | Property |
|---|---|---|
| `EspFlashProofs` | `TypeCorrect`, `Invariant` | `TypeOK`, `EspIInv` |
| `EspFlashProofs` | `EndVouches` | `AnsweredEndMeansLoaded` |
| `EspFlashProofs` | `BlocksInPlace`, `PrefixInFlash`, `AppAtExit` | `RightPlace`, `PrefixWritten`, `ExitLeavesApp` |
| `EspFlashProofs` | `WrittenStaysWritten`, `NoLateWrite` | `WrittenStays`, `NoWriteAfterReset` |
| `UartProofs` | `Invariant`, `NeverOverrun`, `Refines` | `UartIInv`, `NoOverrun`, `Promise!Safe` (the safety part of `Delivers`) |
| `UsbProofs` | `Invariant`, `InOrder` | `UsbIInv`, `DeliversInOrder` |
| `WdtProofs` | `Invariant`, `TimersObey`, `LocksHold` | `TimersAsAsked`, `LockHolds` |
| `BootProofs` | `Invariant`, `ClearsOnlyBss`, `BssIsZero`, `TextIsSafe` | `OnlyBss`, `BssZero`, `NoWatchdogInText` |
| `ToolProofs` | `Invariant`, `UnionMatchesMasks`, `SizeVouches` | of `Docskit`: `FieldsOnTheirBits`, `WordMeansRight` |
| `ToolProofs` | `SlipInvariant` | the inductive invariant `SlipIInv` of `Slip` |
| `ToolProofs` | `SlipOnlyWritten`, `SlipNoneSkipped`, `SlipRaisedForCause` | `OnlyWritten`, `NoneSkipped`, `RaisedForCause` |
| `ToolProofs` | `SlipCodec`, `SlipCodecUndone` | about `Encode` and `Decode` themselves; `CodecUndone` |
| `HeapProofs` | `HeapInvariant`, `HeapTypes` | the inductive invariant `HeapInv`, `TypeOK` |
| `HeapProofs` | `SharedOut`, `ListInOrder`, `AsAskedFor` | `Tiled`, `FreeInOrder`, `FitsAndAligned` |
| `HeapProofs` | `LosesOnce`, `OneChunkAgain` | `LostOnce`, `AllComesBack` |
| `HeapProofs` | `Implements` | `KeepsPromise`: `Heap` implements `Allocator` |
| `HeapProofs` | `NeverInPlace` | `RoomUnused`, two of the observations of section 7 |
| `StubProofs` | `StdioInvariant`, `StdioTypes` | the inductive invariant `StdioInv`, `TypeOK` |
| `StubProofs` | `InOrder`, `LossTold`, `WindowHolds`, `BuffersLive` | `OutInOrder`, `LossIsTold`, `ReadWindow`, `BufferLives` |
| `StubProofs` | `RoundTrip`, `ScalingsAdd` | about the functions of `SoftFloat` themselves |

All rest only on the modules' `ASSUME`s: the constants are naturals, the
FIFO's threshold is at most its size, the ROM leaves one place in the FIFO
free, `FaultSets` is a set of sets of fault kinds, a range that cannot be read has
neither end; the heap begins on a chunk's boundary and not above the stack, as
the linker script has it, and a `size_t` wraps round at a multiple of 16; a
response is one that `check_response` accepts for its command, and what is assumed
of text is in section 8.

*EspFlash.* None of the properties is inductive: whether a queued request may
spoil the flash depends on what is queued with it. `EspIInv` orders requests
by a rank (SYNC, ATTACH, BEGIN, DATA by number, END). Requests rank below the
next one to be sent and are sorted in the queue (`SortedInv`); a DATA carries
the block its number names (`PayloadInv`, from `LoopInv`, which ties `seq` to
the slices cut); a block that is in place ranks below everything queued
(`FrontierInv`), so no BEGIN or DATA can undo it; and unless the ROM refused
or missed something, all blocks that rank below a queued request are in place
or queued before it (`ArrivalInv`), so that when END has been answered all are
in place. `OutsideInv` says the queue is empty outside the loader. Each is
preserved action by action; the actions that leave the queue and the flash
alone share a lemma.

*Uart.* `OrderInv` says FIFO and line are the text's prefix; `RoomInv` needs
`FreshEmpty`, i.e. that a latched TXFIFO_EMPTY seen after the clear was
raised after the write: the clear comes after the write, and between the two
the FIFO can only shrink. Each step is then a `Put`, a `Deliver` or a stutter
of `CharOut`.

*Usb.* `OneInv` locates the only character that can be on its way.

*Wdt.* The invariant relates each timer's configuration to the one in force
and each key to the history of lock calls; the key of the super watchdog is
one of four values, of which only one unlocks.

*Boot.* The invariant describes the registers after every access of
`init_wdt` (`step`), for both outcomes of a reset of the low-power domain, and
the part of `.bss` below `t0` that is zero. It says nothing of `.sbss`, which is
not cleared (section 7).

*Docskit.* `WordMeansRight` rests on `total - last`, the distance between where
the struct is and where the generator believes it is: a field is off its bits by
just that distance after it, no step shrinks it, and at the end it is what the
union is too wide by (`DriftInv`). `FieldsOnTheirBits` needs the order: in a
proper register whatever is left begins where the last field ended or later
(`ProperInv`), because two fields that share no bit and begin in order do not
overlap.

*Slip.* What the host makes of a byte depends on all that came before it since
the last END, so the invariant speaks of all bytes the chip has ever written,
`T`, divided at the ENDs (`Stream`). Each part is the next packet, encoded, or
junk (`Packets`), and the host stands in one of them, behind as many packets as
it has returned (`Reading`). What makes this inductive is `Junk`: decoded, such a
part breaks off within a packet (`Short`), or does not begin as one (`Foreign`), or
has the size of a response and is longer (`TooLong`). The last two are `Settled`: no
text makes a packet of them any more. The parts a cut frame leaves are `Short`
(`CutIsJunk`, which needs that a cut may fall within an escape), and the part that
no END has ended yet holds `begun` bytes of a packet if it is not settled (`Open`).
Text behind it settles it unless it may complete it (`JunkAndText`, which also
minds what the decoder does with the byte after an escape that lost its second
half; `TextAfterSize` for a packet cut behind its size), and `check_response`
refuses junk of all three kinds (`JunkIsRefused`). So what the host returns is
bound to what was written (`Story`, `Told`) until `passable`, and no length of any
text is limited. The codec
itself is a function of the number of bytes done, and its facts go by induction
over the bytes: the library's rule for that has an operator for its predicate,
which the provers cannot instantiate, but for a set in its place the rule follows
from the least element of a well-founded order (`NumberInduction`,
`SequenceInduction`), and a set can be given.

*Heap.* `Tiled` alone is not inductive: that a freed chunk may be merged or a
chunk cut needs to be known of the chunks. `HeapInv` says of a heap and the
blocks in it that every chunk has an address and a size of multiples of 16 and
that the tiles of chunks, padding, lost bytes and the program's own are a
partition of the bytes up to the break (`Partition`): they are apart, and each
byte is covered, which is easier to keep than that one tile follows on the
other; `TilesFollow` gets this back. Almost every call comes down to one
lemma, `Exchange`: if some chunks are given up, by programs or by the list, and
others taken that cover the same bytes, the partition stays; `Extend` and
`Shrink` are for the calls that move the break. free is then two steps on the
list, `InsertedFacts`, after which only one pair may touch (`Nearly`), and
`MergedFacts`. malloc, memalign and realloc are put together from the lemmas
of their parts, each in the same form: `Took`, what a call that hands out a
chunk leaves behind, and `Moves`, what one that resizes does. Two clauses are
there for single properties: `HolesOK`, by which padding begins where no chunk
can have ended, so at the heap's begin or above bytes that are no chunk's, and
`Ends`, which ties malloc's two variables to its first and last chunk; without
them neither `LostOnce` nor `AllComesBack` follows, since two free chunks might have padding
between them and the arena be larger than what is in it. The refinement maps
each call that hands out a chunk to `Allocate`, free to `Release`, a realloc
that succeeds to `Resize`, and everything else to a stutter.

*Stdio.* What the properties say between calls must be kept within them, where
`write` may be broken off at any character. `ToWrite` has the buffer ascending
and above all that is out, but for the first `sent` characters, which are out
already; without the second half a flush that resumes could write one twice.
`LossInv` accounts for each character: it is out, told of, or in the buffer;
only in a `fclose` whose flush has failed does it not hold, and that call
always fails at its end. `WindowInv` has the buffer as a window on the input
whichever way the stream goes, which a turn from writing to reading needs, and
`PcInv` ties the place within a call to the stream's direction, so that no
step of a flush meets input. `BufferLives` is inductive with these. Steps that only
begin a call share one lemma (`StartsStep`).

*SoftFloat.* By the cases of the exponent. The theorems say what the functions
do instead of the standard's: a subnormal is returned as it is, and what would
be subnormal becomes zero, which stays.

**Only model-checked.** Liveness (`Terminates`, `LoadsWhenHealthy`, `Returns`,
the fairness part of `Delivers`, `HostWakesDriver`, `Settles`, `Returns` of
`Stdio`): the prover
handles neither fairness nor ENABLED. No safety property is only model-checked.

## 7. Findings

1. `esp_refused` - `espctl flash` ends without complaint when the ROM refused
   a block: no status is looked at, though the command's help says it loads
   the image. With `FaultSets = {{"late"}}` instead, TLC finds the same of answers
   that miss the port's timeout: the methods print it and return False, nobody
   looks, and the reset in `finally` overtakes what is queued.
2. `usb_flush` - `usb_serial_jtag_flush` returns before the host has the
   packet: it polls `SERIAL_IN_EMPTY`, which an earlier packet left set, and
   clears `JTAG_IN_FLUSH`.
3. `wdt_super` - `wdt_enable`/`wdt_disable` of the super watchdog change its
   write-protection key instead of its configuration register.

Also seen while modelling; the models have the code as it is, and no run is
spent on them:

- "SYNC Retrying" (`espctl.py:203`) is never reached by a frame that breaks
  off: the handler (202) names an exception that is not imported, and a
  `NameError` ends the command (`SyncFails`).
- Feeding the super watchdog (`wdt.c:160` and 165) overwrites its configuration
  register, `AUTO_FEED_EN` included (`AfterFeed`).
- Small statics are not zero when `main` starts after a reset in used RAM: the
  toolchain that the Dockerfile pins puts those of up to 8 bytes into `.sbss`, the
  linker script collects `.bss` alone between the bounds that `head.S` clears
  (`lscript.ld:41`), and picolibc expects both to be zero (`linking.md:198`, 206).
  `malloc`'s free list is one of them; `Heap` starts with it empty. `BssZero` is
  about `.bss` only, and `OnlyBss` counts `.sbss` with what keeps its contents.
  The section is an orphan; that it comes behind `.bss` is GNU ld's placement.
- `malloc` never grows a last chunk that is free, though it means to
  (`malloc.c:202`): `chunk_end` (`local-malloc.h:263`) does not mask the bit that
  marks it free, and the comparison at `malloc.c:106` fails (`ChunkEnd`); theorem
  `NeverInPlace` says so of every heap.
- `realloc` never merges with the free chunk above: it compares a payload's
  address with a header's (`realloc.c:93`, `MergeNext`; the same theorem).
- On a fresh heap a request whose chunk needs the last 12 bytes takes the whole
  heap and fails, and every later `malloc` fails with it (`malloc.c:92`, `Lost`).
- `fflush`, `setvbuf` and the turn from reading to writing drop unread input
  and report success, because `lseek` always fails and `bufio.c:76` does not look
  (`Rewound`). A `fseek` that fails drops it too (`bufio.c:239`).
- `fclose` reports `close`'s failure, always (`bufio_close.c:57`); only that makes a
  failed last flush visible (`Close`).
- A `setvbuf` that fails has already switched line buffering off
  (`bufio_setvbuf.c:49`, `Resize`); `fseek` relative to the current position does not
  count a pushed-back character, as `ftell` does (`ftell.c:50`).
- A range that `docskit` cannot read ends it with a `TypeError`; the two places
  that would skip it (`docskit/main.py:172` and 199) are never reached by one.

## 8. Assumptions and limits

- The ROM loader, the peripherals and the host's USB stack are external and
  modelled from what the code in the repository does with them. TXFIFO_EMPTY
  is latched while the FIFO holds fewer than the threshold. The boot ROM waits
  for room before it prints.
- The link keeps order; frames are lost or cut, not reordered. Text contains no
  byte that SLIP treats specially and none of value 1, with which every response
  begins: it is ASCII without that control character (`TextBytes`,
  `SlipAssumption`). Text of any length is allowed. One that completes a cut
  response passes for the packet, since responses have no checksum; this is in the
  model, `OnlyWritten` and `NoneSkipped` except it (`passable`), and without the
  exception TLC finds both violated.
- The flash-boot protection exists for MAIN0 and RTC only. Counters and
  timeouts of the watchdogs are not modelled: an active one may expire at any
  time. `MaxResets` bounds how often, without which nothing terminates.
- The chip prints finitely many lines after a reset (`BootLines`). An
  application that prints without a pause keeps `flush` from returning.
- Not modelled, with reasons, in `PROJECT.json`: the RAM-download and register
  commands of `espctl`, which no command reaches; `monitor`; system-call
  stubs other than `lseek` and `close`, which hold nothing; `imager`, a pure
  function of one length whose every case sixteen unit tests reach; register offsets
  in `docskit`; headers; build files; of picolibc everything but the malloc
  family and the streams: it is vendored, and nothing in the firmware's own
  code changes state in it.
- `Heap` has one program and no interrupts, and where the stack pointer is below
  the stack's top is not known: `sbrk` lets the heap grow up to the top. A program
  gives back to `sbrk` only what it took. `LostOnce` bounds how often memory is
  lost, not how much: it may be the whole of a fresh heap (section 7). `Stdio`
  has one open stream at a time; its buffers come from an allocator that may
  fail at any call, not from `Heap`.
