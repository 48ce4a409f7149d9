-------------------------------- MODULE Wdt ---------------------------------
(***************************************************************************)
(* drivers/wdt/wdt.c: the registers of the four watchdogs and what each    *)
(* function of the driver makes of them.  A function is an operator from   *)
(* registers to registers, so that programs can be put together from it.   *)
(*                                                                         *)
(* Of a watchdog's registers the model keeps what switches it on and off   *)
(* and what protects it; the timeouts and the counters are left out.       *)
(***************************************************************************)
EXTENDS Integers

Main == {"MAIN0", "MAIN1"}
Timers == Main \cup {"RTC"}       \* the ones with a CONFIG0 register
WdtIds == Timers \cup {"SUPER"}

UnlockKey == 1356348065      \* 0x50D83AA1
LockKey == 0
DisableMask == 1073741824    \* bit 30 of a 32-bit register

\* Seeded fault: bit 29.
SetDisableBit_WrongBit(v) ==
  IF (v \div 536870912) % 2 = 1 THEN v ELSE v + 536870912

SetDisableBit(v) == IF (v \div DisableMask) % 2 = 1 THEN v ELSE v + DisableMask
ClearDisableBit(v) == IF (v \div DisableMask) % 2 = 1 THEN v - DisableMask ELSE v

\* The registers after a reset, which leaves only the timer groups unlocked.
ResetRegs ==
  [ wprotect |-> [MAIN0 |-> UnlockKey, MAIN1 |-> UnlockKey, RTC |-> LockKey, SUPER |-> LockKey],
    config   |-> [id \in Timers |-> [en |-> FALSE, flashboot |-> TRUE]],
    live     |-> [id \in Timers |-> [en |-> FALSE, flashboot |-> TRUE]],
    swd      |-> [autoFeed |-> FALSE, disable |-> FALSE, width |-> 300] ]

Unlocked(r, id) == r.wprotect[id] = UnlockKey

\* The watchdog may reset the chip.  Flash boot protection is MAIN0's and RTC's.
Active(r, id) ==
  IF id = "SUPER" THEN ~r.swd.disable /\ ~r.swd.autoFeed
  ELSE r.live[id].en \/ (r.live[id].flashboot /\ id # "MAIN1")

\* Seeded fault: the timer groups' configuration is not put into force.
Configured_NoUpdate(r, id, field, value) ==
  IF Unlocked(r, id)
  THEN LET c == [r.config EXCEPT ![id][field] = value]
       IN  [r EXCEPT !.config = c, !.live["RTC"] = c["RTC"]]
  ELSE r

\* A read-modify-write of CONFIG0 changes one field.  The hardware ignores it while
\* the watchdog is locked, and CONF_UPDATE_EN puts it into force.
Configured(r, id, field, value) ==
  IF Unlocked(r, id)
  THEN LET c == [r.config EXCEPT ![id][field] = value]
       IN  [r EXCEPT !.config = c, !.live[id] = c[id]]
  ELSE r

\* Seeded fault: SUPER's entry of the table is RTC's register.
AfterLock_WrongRegister(r, id) ==
  [r EXCEPT !.wprotect[IF id = "SUPER" THEN "RTC" ELSE id] = LockKey]

AfterLock(r, id) == [r EXCEPT !.wprotect[id] = LockKey]

AfterUnlock(r, id) == [r EXCEPT !.wprotect[id] = UnlockKey]

\* For SUPER the table names WPROTECT, where the bit of SWD_CONFIG is not.
AfterEnable(r, id) ==
  IF id = "SUPER" THEN [r EXCEPT !.wprotect["SUPER"] = ClearDisableBit(@)]
  ELSE Configured(r, id, "en", TRUE)

AfterDisable(r, id) ==
  IF id = "SUPER" THEN [r EXCEPT !.wprotect["SUPER"] = SetDisableBit(@)]
  ELSE Configured(r, id, "en", FALSE)

\* Not for SUPER, which wdt_set_flashboot_mode refuses.
AfterFlashboot(r, id, enable) == Configured(r, id, "flashboot", enable)

\* SUPER's FEED is a bit of SWD_CONFIG, all of which is written; the others have a
\* register for it.
AfterFeed(r, id) ==
  IF id = "SUPER" /\ Unlocked(r, "SUPER")
  THEN [r EXCEPT !.swd = [autoFeed |-> FALSE, disable |-> FALSE, width |-> 0]]
  ELSE r

AutoFeedSet(r) == IF Unlocked(r, "SUPER") THEN [r EXCEPT !.swd.autoFeed = TRUE] ELSE r

AfterAutoFeed(r) == AfterLock(AutoFeedSet(AfterUnlock(r, "SUPER")), "SUPER")
=============================================================================
