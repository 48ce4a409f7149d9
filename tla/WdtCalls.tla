------------------------------ MODULE WdtCalls ------------------------------
(***************************************************************************)
(* Any program over the watchdog driver: it calls the functions of wdt.c   *)
(* in any order, also those that make no sense in that order.              *)
(***************************************************************************)
EXTENDS Wdt

VARIABLES
  regs,    \* the registers
  asked,   \* history: what the calls made while unlocked asked of each watchdog
  locked,  \* history: wdt_lock was called for it, and no wdt_unlock since
  called   \* history: the function last called and its watchdog

vars == <<regs, asked, locked, called>>

Asks == [en : BOOLEAN, flashboot : BOOLEAN]

Init ==
  /\ regs = ResetRegs
  /\ asked = [id \in WdtIds |-> [en |-> id = "SUPER", flashboot |-> id # "SUPER"]]
  /\ locked = [id \in WdtIds |-> ~Unlocked(regs, id)]
  /\ called = <<"none", "none">>

\* The watchdog is told to change, if the caller has unlocked it.
Ask(id, field, value) ==
  asked' = IF locked[id] THEN asked ELSE [asked EXCEPT ![id][field] = value]

Lock(id) ==
  /\ called' = <<"wdt_lock", id>>
  /\ regs' = AfterLock(regs, id)
  /\ locked' = [locked EXCEPT ![id] = TRUE]
  /\ UNCHANGED asked

Unlock(id) ==
  /\ called' = <<"wdt_unlock", id>>
  /\ regs' = AfterUnlock(regs, id)
  /\ locked' = [locked EXCEPT ![id] = FALSE]
  /\ UNCHANGED asked

Enable(id) ==
  /\ called' = <<"wdt_enable", id>>
  /\ regs' = AfterEnable(regs, id)
  /\ Ask(id, "en", TRUE)
  /\ UNCHANGED locked

Disable(id) ==
  /\ called' = <<"wdt_disable", id>>
  /\ regs' = AfterDisable(regs, id)
  /\ Ask(id, "en", FALSE)
  /\ UNCHANGED locked

\* A call the function refuses, here for SUPER, changes nothing and is no step.
SetFlashbootMode(id, enable) ==
  /\ called' = <<"wdt_set_flashboot_mode", id>>
  /\ id # "SUPER"
  /\ regs' = AfterFlashboot(regs, id, enable)
  /\ Ask(id, "flashboot", enable)
  /\ UNCHANGED locked

Feed(id) ==
  /\ called' = <<"wdt_feed", id>>
  /\ regs' = AfterFeed(regs, id)
  /\ UNCHANGED <<asked, locked>>

SwdEnableAutoFeed ==
  /\ called' = <<"wdt_swd_enable_auto_feed", "SUPER">>
  /\ regs' = AfterAutoFeed(regs)
  /\ locked' = [locked EXCEPT !["SUPER"] = TRUE]
  /\ UNCHANGED asked

Next ==
  \/ \E id \in WdtIds :
       \/ Lock(id) \/ Unlock(id) \/ Enable(id) \/ Disable(id) \/ Feed(id)
       \/ \E enable \in BOOLEAN : SetFlashbootMode(id, enable)
  \/ SwdEnableAutoFeed

Spec == Init /\ [][Next]_vars

-----------------------------------------------------------------------------
(* Properties.                                                             *)

\* The values the keys of SUPER can be brought to.
Keys == {LockKey, UnlockKey, LockKey + DisableMask, UnlockKey - DisableMask}

TypeOK ==
  /\ regs.wprotect \in [WdtIds -> Keys]
  /\ regs.config \in [Timers -> Asks] /\ regs.live \in [Timers -> Asks]
  /\ regs.swd \in [autoFeed : BOOLEAN, disable : BOOLEAN, width : {0, 300}]
  /\ asked \in [WdtIds -> Asks] /\ locked \in [WdtIds -> BOOLEAN]

\* The timers do as the last call made of an unlocked timer said, whatever was
\* called of it or of the others since: each function changes its own bit, puts it
\* into force, and loses no other.
TimersAsAsked == \A id \in Timers : regs.live[id] = asked[id]

\* What switches a watchdog on or off.
Switches(id) == IF id = "SUPER" THEN regs.swd ELSE regs.live[id]

\* Between wdt_lock and the next wdt_unlock no function switches the watchdog, not
\* even those that change SUPER's key by mistake: they never arrive at the key.
\* wdt_swd_enable_auto_feed unlocks it itself.
LockHolds ==
  [][\A id \in WdtIds :
       locked[id] /\ called'[1] # "wdt_swd_enable_auto_feed" => Switches(id)' = Switches(id)]_vars

\* wdt_enable and wdt_disable do to SUPER what they do to the others.
SuperAsAsked == regs.swd.disable <=> ~asked["SUPER"].en
=============================================================================
