-------------------------------- MODULE Boot --------------------------------
(***************************************************************************)
(* From reset to main's text: arch/rv32imac/head.S, then init_wdt of the   *)
(* targets (the same in both), over the registers and functions of Wdt.    *)
(* Until they are off the watchdogs run, and a watchdog that expires       *)
(* starts everything again in a memory that has been used before.          *)
(***************************************************************************)
EXTENDS Wdt, Sequences

CONSTANTS
  Hart,       \* mhartid of the core
  BssWords,   \* words from __bss_start__ to __bss_end__
  SbssWords,  \* words of .sbss, where the compiler puts statics of up to 8 bytes
  MaxResets   \* how often a watchdog may expire: a bound of the model

ASSUME BootAssumption ==
  Hart \in Nat /\ BssWords \in Nat /\ SbssWords \in Nat /\ MaxResets \in Nat

VARIABLES
  pc,      \* the core's place: head.S, init_wdt, the text of main, hang
  t0,      \* the word bss_init is at
  step,    \* the register access init_wdt is at
  mem,     \* RAM from the last word of .data to the first of the heap
  regs,    \* the watchdogs' registers
  resets   \* resets so far

vars == <<pc, t0, step, mem, regs, resets>>

Pcs == {"start", "bss_init", "init_wdt", "text", "hang"}
Bss == 0 .. BssWords - 1

\* The script does not name .sbss: the linker puts it behind .bss, out of its bounds.
Statics == 0 .. BssWords + SbssWords - 1
Ram == -1 .. BssWords + SbssWords   \* .data ends below, the heap starts above

\* RAM is not cleared by a reset: anything may be in it.
Init ==
  /\ pc = "start" /\ t0 = 0 /\ step = 1
  /\ mem \in [Ram -> {"zero", "used"}]
  /\ regs = ResetRegs
  /\ resets = 0

Goto(l) == pc' = l

\* Only hart 0 goes on; it takes the stack and the bounds of .bss.
Start ==
  /\ pc = "start"
  /\ Goto(IF Hart = 0 THEN "bss_init" ELSE "hang")
  /\ t0' = 0
  /\ UNCHANGED <<step, mem, regs, resets>>

\* Seeded faults: bgtu for bgeu; __bss_start__ + 4 for __bss_start__; no addi.
BssInit_Beyond ==
  /\ pc = "bss_init"
  /\ IF t0 > BssWords
     THEN Goto("init_wdt") /\ step' = 1 /\ UNCHANGED <<t0, mem>>
     ELSE mem' = [mem EXCEPT ![t0] = "zero"] /\ t0' = t0 + 1 /\ UNCHANGED <<pc, step>>
  /\ UNCHANGED <<regs, resets>>
BssInit_FromSecond ==
  /\ pc = "bss_init"
  /\ IF t0 + 1 >= BssWords
     THEN Goto("init_wdt") /\ step' = 1 /\ UNCHANGED <<t0, mem>>
     ELSE mem' = [mem EXCEPT ![t0 + 1] = "zero"] /\ t0' = t0 + 1 /\ UNCHANGED <<pc, step>>
  /\ UNCHANGED <<regs, resets>>

BssInit_NoAdvance ==
  /\ pc = "bss_init"
  /\ IF t0 >= BssWords
     THEN Goto("init_wdt") /\ step' = 1 /\ UNCHANGED <<t0, mem>>
     ELSE mem' = [mem EXCEPT ![t0] = "zero"] /\ UNCHANGED <<pc, t0, step>>
  /\ UNCHANGED <<regs, resets>>

\* A word of .bss is cleared, or main is called.
BssInit ==
  /\ pc = "bss_init"
  /\ IF t0 >= BssWords
     THEN Goto("init_wdt") /\ step' = 1 /\ UNCHANGED <<t0, mem>>
     ELSE mem' = [mem EXCEPT ![t0] = "zero"] /\ t0' = t0 + 1 /\ UNCHANGED <<pc, step>>
  /\ UNCHANGED <<regs, resets>>

Off(id) == << <<"unlock", id>>, <<"flashboot_off", id>>, <<"disable", id>>, <<"lock", id>> >>

\* Seeded faults: MAIN0 is forgotten; MAIN0 is left unlocked.
Script_RtcOnly ==
  Off("RTC") \o << <<"unlock", "SUPER">>, <<"auto_feed", "SUPER">>, <<"lock", "SUPER">> >>

\* The register accesses of init_wdt, those of wdt_swd_enable_auto_feed last.
Script ==
  Off("RTC") \o Off("MAIN0")
    \o << <<"unlock", "SUPER">>, <<"auto_feed", "SUPER">>, <<"lock", "SUPER">> >>

Access(c) ==
  CASE c[1] = "unlock" -> AfterUnlock(regs, c[2])
    [] c[1] = "flashboot_off" -> AfterFlashboot(regs, c[2], FALSE)
    [] c[1] = "disable" -> AfterDisable(regs, c[2])
    [] c[1] = "lock" -> AfterLock(regs, c[2])
    [] c[1] = "auto_feed" -> AutoFeedSet(regs)

InitWdt ==
  /\ pc = "init_wdt"
  /\ regs' = Access(Script[step])
  /\ step' = step + 1
  /\ Goto(IF step < Len(Script) THEN "init_wdt" ELSE "text")
  /\ UNCHANGED <<t0, mem, resets>>

\* The rest of main prints, uses its statics, and returns to hang.
Text ==
  /\ pc = "text" /\ Goto("hang")
  /\ \E used \in SUBSET Statics : mem' = [w \in Ram |-> IF w \in used THEN "used" ELSE mem[w]]
  /\ UNCHANGED <<t0, step, regs, resets>>

Core == Start \/ BssInit \/ InitWdt \/ Text

\* The registers in the low-power domain may outlive a reset of the rest.
AfterReset ==
  { ResetRegs,
    [wprotect |-> [ResetRegs.wprotect EXCEPT !["RTC"] = regs.wprotect["RTC"],
                                             !["SUPER"] = regs.wprotect["SUPER"]],
     config |-> [ResetRegs.config EXCEPT !["RTC"] = regs.config["RTC"]],
     live |-> [ResetRegs.live EXCEPT !["RTC"] = regs.live["RTC"]],
     swd |-> regs.swd] }

\* A watchdog expires, wherever the core is.
Bite ==
  /\ \E id \in WdtIds : Active(regs, id)
  /\ resets < MaxResets
  /\ resets' = resets + 1
  /\ Goto("start")
  /\ regs' \in AfterReset
  /\ UNCHANGED <<t0, step, mem>>

Hang ==
  /\ pc = "hang"
  /\ UNCHANGED vars

Next == Core \/ Bite \/ Hang

\* The core runs.
Spec == Init /\ [][Next]_vars /\ WF_vars(Core)

-----------------------------------------------------------------------------
(* Properties.                                                             *)

Fields == [en : BOOLEAN, flashboot : BOOLEAN]

TypeOK ==
  /\ pc \in Pcs /\ t0 \in 0 .. BssWords /\ step \in 1 .. Len(Script) + 1
  /\ mem \in [Ram -> {"zero", "used"}]
  /\ regs.wprotect \in [WdtIds -> {LockKey, UnlockKey}]
  /\ regs.config \in [Timers -> Fields] /\ regs.live \in [Timers -> Fields]
  /\ regs.swd \in [autoFeed : BOOLEAN, disable : BOOLEAN, width : Nat]
  /\ resets \in 0 .. MaxResets

InText == pc = "text" \/ (pc = "hang" /\ Hart = 0)

\* Once main gets to its text no watchdog is left that could break it off, neither
\* one init_wdt turned off nor MAIN1, which it does not touch; and none of those it
\* touched is left unlocked, wherever the last reset hit.
NoWatchdogInText ==
  InText =>
    /\ \A id \in WdtIds : ~Active(regs, id)
    /\ \A id \in {"RTC", "MAIN0", "SUPER"} : ~Unlocked(regs, id)

\* main finds every word from __bss_start__ to __bss_end__ zero, whatever an earlier
\* run left in RAM.  Its small statics, in .sbss, are not among them.
BssZero == pc = "init_wdt" => \A w \in Bss : mem[w] = "zero"

\* Clearing .bss changes no word outside it: nothing of .data below,
\* nothing of the heap above, and none of the small statics in .sbss either.
OnlyBss == [][pc = "bss_init" => \A w \in Ram \ Bss : mem'[w] = mem[w]]_vars

\* As long as watchdogs stop expiring the program gets to its end and stays there.
Settles == <>[](pc = "hang")
=============================================================================
