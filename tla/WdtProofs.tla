----------------------------- MODULE WdtProofs ------------------------------
(***************************************************************************)
(* The watchdog driver under any program: every sequence of calls, of any  *)
(* length.                                                                 *)
(***************************************************************************)
EXTENDS WdtCalls, TLAPS

\* The keys that keep a watchdog locked, and those the others arrive at: enable and
\* disable of SUPER move within each pair, and no timer's key is ever mistaken.
LockedKeys(id) == IF id = "SUPER" THEN {LockKey, LockKey + DisableMask} ELSE {LockKey}
OtherKeys(id) == IF id = "SUPER" THEN {UnlockKey, UnlockKey - DisableMask} ELSE {UnlockKey}

KeyInv ==
  \A id \in WdtIds : regs.wprotect[id] \in IF locked[id] THEN LockedKeys(id) ELSE OtherKeys(id)

\* A timer's configuration is in force.
InForce == regs.config = regs.live

RegsRecord ==
  regs = [wprotect |-> regs.wprotect, config |-> regs.config, live |-> regs.live, swd |-> regs.swd]

CallsInv == TypeOK /\ RegsRecord /\ KeyInv /\ InForce /\ TimersAsAsked

\* Bit 30 is set in the unlocking key and not in the locking one.
LEMMA KeyFacts ==
  /\ SetDisableBit(LockKey) = LockKey + DisableMask
  /\ SetDisableBit(LockKey + DisableMask) = LockKey + DisableMask
  /\ SetDisableBit(UnlockKey) = UnlockKey
  /\ SetDisableBit(UnlockKey - DisableMask) = UnlockKey
  /\ ClearDisableBit(LockKey) = LockKey
  /\ ClearDisableBit(LockKey + DisableMask) = LockKey
  /\ ClearDisableBit(UnlockKey) = UnlockKey - DisableMask
  /\ ClearDisableBit(UnlockKey - DisableMask) = UnlockKey - DisableMask
  BY DEF SetDisableBit, ClearDisableBit, LockKey, UnlockKey, DisableMask

\* None of the keys of a locked watchdog unlocks it.
LEMMA LockedKeysLock ==
  /\ \A id \in WdtIds : UnlockKey \notin LockedKeys(id)
  /\ \A id \in Timers : OtherKeys(id) = {UnlockKey}
  BY DEF LockedKeys, OtherKeys, LockKey, UnlockKey, DisableMask, Timers, Main, WdtIds

\* A locked watchdog ignores what is asked of it, an unlocked timer does not.
LEMMA WhoListens ==
  ASSUME CallsInv
  PROVE  /\ \A id \in WdtIds : locked[id] => ~Unlocked(regs, id)
         /\ \A id \in Timers : Unlocked(regs, id) <=> ~locked[id]
  BY LockedKeysLock DEF CallsInv, KeyInv, Unlocked, WdtIds

\* What a call that changes one field of a timer, in force at once, does.
LEMMA ConfiguredStep ==
  ASSUME CallsInv, NEW id \in Timers, NEW field \in {"en", "flashboot"}, NEW value \in BOOLEAN,
         regs' = Configured(regs, id, field, value), Ask(id, field, value), UNCHANGED locked
  PROVE  CallsInv'
  <1>1. CASE locked[id]
    <2>1. regs' = regs /\ asked' = asked
      BY <1>1, WhoListens DEF Configured, Ask, WdtIds
    <2>. QED
      BY <2>1 DEF CallsInv, TypeOK, RegsRecord, KeyInv, InForce, TimersAsAsked
  <1>2. CASE ~locked[id]
    <2> DEFINE new == [regs.config EXCEPT ![id][field] = value]
    <2>1. /\ regs' = [wprotect |-> regs.wprotect, config |-> new,
                      live |-> [regs.live EXCEPT ![id] = new[id]], swd |-> regs.swd]
          /\ asked' = [asked EXCEPT ![id][field] = value]
      BY <1>2, WhoListens DEF Configured, Ask, CallsInv, RegsRecord
    <2>2. /\ regs'.wprotect = regs.wprotect /\ regs'.swd = regs.swd
          /\ regs'.config = new /\ regs'.live = [regs.live EXCEPT ![id] = new[id]]
          /\ RegsRecord'
      BY <2>1 DEF RegsRecord
    <2>3. /\ new \in [Timers -> Asks]
          /\ \A j \in Timers : new[j] = IF j = id THEN [regs.config[id] EXCEPT ![field] = value]
                                        ELSE regs.config[j]
      BY DEF CallsInv, TypeOK, Asks
    <2>4. /\ asked' \in [WdtIds -> Asks]
          /\ \A j \in Timers : asked'[j] = IF j = id THEN [asked[id] EXCEPT ![field] = value]
                                           ELSE asked[j]
      BY <2>1 DEF CallsInv, TypeOK, Asks, WdtIds
    <2>5. regs'.live = new
      BY <2>2, <2>3 DEF CallsInv, InForce, TypeOK
    <2>6. TypeOK' /\ InForce'
      BY <2>2, <2>3, <2>4, <2>5 DEF CallsInv, TypeOK, InForce
    <2>7. TimersAsAsked'
      BY <2>3, <2>4, <2>5 DEF CallsInv, InForce, TimersAsAsked
    <2>8. KeyInv'
      BY <2>2 DEF CallsInv, KeyInv
    <2>. QED
      BY <2>2, <2>6, <2>7, <2>8 DEF CallsInv
  <1>. QED
    BY <1>1, <1>2

\* What a call that writes one key does.
LEMMA KeyStep ==
  ASSUME CallsInv, NEW id \in WdtIds, NEW key \in Keys, NEW l \in BOOLEAN,
         key \in IF l THEN LockedKeys(id) ELSE OtherKeys(id),
         regs' = [regs EXCEPT !.wprotect[id] = key],
         locked' = [locked EXCEPT ![id] = l],
         asked' \in [WdtIds -> Asks], \A j \in Timers : asked'[j] = asked[j]
  PROVE  CallsInv' /\ regs'.live = regs.live /\ regs'.swd = regs.swd
  <1>1. regs' = [wprotect |-> [regs.wprotect EXCEPT ![id] = key], config |-> regs.config,
                 live |-> regs.live, swd |-> regs.swd]
    BY DEF CallsInv, RegsRecord
  <1>2. /\ regs'.wprotect = [regs.wprotect EXCEPT ![id] = key]
        /\ regs'.config = regs.config /\ regs'.live = regs.live /\ regs'.swd = regs.swd
        /\ RegsRecord'
    BY <1>1 DEF RegsRecord
  <1>3. /\ regs'.wprotect \in [WdtIds -> Keys] /\ locked' \in [WdtIds -> BOOLEAN]
        /\ \A j \in WdtIds : /\ regs'.wprotect[j] = IF j = id THEN key ELSE regs.wprotect[j]
                             /\ locked'[j] = IF j = id THEN l ELSE locked[j]
    BY <1>2 DEF CallsInv, TypeOK
  <1>4. TypeOK'
    BY <1>2, <1>3 DEF CallsInv, TypeOK
  <1>5. KeyInv'
    BY <1>3 DEF CallsInv, KeyInv
  <1>6. InForce' /\ TimersAsAsked'
    BY <1>2 DEF CallsInv, InForce, TimersAsAsked
  <1>. QED
    BY <1>2, <1>4, <1>5, <1>6 DEF CallsInv

\* What a call that writes SWD_CONFIG alone does.
LEMMA SwdStep ==
  ASSUME CallsInv, NEW r, NEW s \in [autoFeed : BOOLEAN, disable : BOOLEAN, width : {0, 300}],
         r = [regs EXCEPT !.swd = s], regs' = r, UNCHANGED <<asked, locked>>
  PROVE  CallsInv' /\ regs'.live = regs.live
  <1>1. regs' = [wprotect |-> regs.wprotect, config |-> regs.config, live |-> regs.live, swd |-> s]
    BY DEF CallsInv, RegsRecord
  <1>. QED
    BY <1>1 DEF CallsInv, TypeOK, RegsRecord, KeyInv, InForce, TimersAsAsked

\* The calls that write a key.
LEMMA LockStep ==
  ASSUME CallsInv, NEW id \in WdtIds, Lock(id) \/ Unlock(id)
  PROVE  CallsInv' /\ regs'.live = regs.live /\ regs'.swd = regs.swd
  <1>1. LockKey \in Keys /\ LockKey \in LockedKeys(id) /\ UnlockKey \in Keys /\ UnlockKey \in OtherKeys(id)
    BY DEF Keys, LockedKeys, OtherKeys
  <1>2. asked' = asked /\ asked \in [WdtIds -> Asks]
    BY DEF Lock, Unlock, CallsInv, TypeOK
  <1>3. CASE Lock(id)
    BY <1>1, <1>2, <1>3, KeyStep DEF Lock, AfterLock
  <1>4. CASE Unlock(id)
    BY <1>1, <1>2, <1>4, KeyStep DEF Unlock, AfterUnlock
  <1>. QED
    BY <1>3, <1>4

\* enable and disable of SUPER.
LEMMA SuperStep ==
  ASSUME CallsInv, Enable("SUPER") \/ Disable("SUPER")
  PROVE  CallsInv' /\ regs'.live = regs.live /\ regs'.swd = regs.swd
  <1> DEFINE old == regs.wprotect["SUPER"]
             key == IF Enable("SUPER") THEN ClearDisableBit(old) ELSE SetDisableBit(old)
             keys == IF locked["SUPER"] THEN LockedKeys("SUPER") ELSE OtherKeys("SUPER")
  <1>1. "SUPER" \in WdtIds /\ "SUPER" \notin Timers
    BY DEF WdtIds, Timers, Main
  <1>2. old \in keys
    BY <1>1 DEF CallsInv, KeyInv
  <1>3. PICK k \in keys : regs' = [regs EXCEPT !.wprotect["SUPER"] = k]
    <2>1. ClearDisableBit(old) \in keys /\ SetDisableBit(old) \in keys
      BY <1>2, KeyFacts DEF LockedKeys, OtherKeys
    <2>2. \/ regs' = [regs EXCEPT !.wprotect["SUPER"] = ClearDisableBit(old)]
          \/ regs' = [regs EXCEPT !.wprotect["SUPER"] = SetDisableBit(old)]
      BY DEF Enable, Disable, AfterEnable, AfterDisable
    <2>. QED
      BY <2>1, <2>2
  <1>4. k \in Keys
    BY <1>3 DEF LockedKeys, OtherKeys, Keys
  <1>5. locked["SUPER"] \in BOOLEAN /\ locked' = [locked EXCEPT !["SUPER"] = locked["SUPER"]]
    <2>1. locked \in [WdtIds -> BOOLEAN] /\ locked' = locked
      BY DEF Enable, Disable, CallsInv, TypeOK
    <2>. QED
      BY <1>1, <2>1
  <1>6. asked' \in [WdtIds -> Asks] /\ \A j \in Timers : asked'[j] = asked[j]
    <2>1. PICK v \in BOOLEAN :
            asked' = IF locked["SUPER"] THEN asked ELSE [asked EXCEPT !["SUPER"].en = v]
      BY DEF Enable, Disable, Ask
    <2>2. [asked["SUPER"] EXCEPT !.en = v] \in Asks
      BY <1>1 DEF CallsInv, TypeOK, Asks
    <2>3. \A j \in Timers : j \in WdtIds /\ j # "SUPER"
      BY <1>1 DEF WdtIds
    <2>. QED
      BY <1>1, <2>1, <2>2, <2>3 DEF CallsInv, TypeOK
  <1>. QED
    BY <1>1, <1>3, <1>4, <1>5, <1>6, KeyStep

\* A change of the timer, which its lock stops, and no other's.
LEMMA OneTimer ==
  ASSUME CallsInv, NEW id \in Timers, NEW field \in {"en", "flashboot"}, NEW value \in BOOLEAN,
         regs' = Configured(regs, id, field, value)
  PROVE  /\ regs'.swd = regs.swd
         /\ \A j \in Timers : locked[j] => regs'.live[j] = regs.live[j]
  BY WhoListens DEF Configured, CallsInv, TypeOK, WdtIds

\* wdt_feed.
LEMMA FeedStep ==
  ASSUME CallsInv, NEW id \in WdtIds, Feed(id)
  PROVE  /\ CallsInv' /\ regs'.live = regs.live
         /\ locked["SUPER"] => regs'.swd = regs.swd
  <1>1. CASE id = "SUPER" /\ Unlocked(regs, "SUPER")
    <2> DEFINE s == [autoFeed |-> FALSE, disable |-> FALSE, width |-> 0]
    <2>1. s \in [autoFeed : BOOLEAN, disable : BOOLEAN, width : {0, 300}]
      OBVIOUS
    <2>2. regs' = [regs EXCEPT !.swd = s] /\ UNCHANGED <<asked, locked>>
      BY <1>1 DEF Feed, AfterFeed
    <2>3. CallsInv' /\ regs'.live = regs.live
      BY <2>1, <2>2, SwdStep
    <2>4. ~locked["SUPER"]
      BY <1>1, WhoListens
    <2>. QED
      BY <2>3, <2>4
  <1>2. CASE ~(id = "SUPER" /\ Unlocked(regs, "SUPER"))
    <2>1. UNCHANGED <<regs, asked, locked>>
      BY <1>2 DEF Feed, AfterFeed
    <2>. QED
      BY <2>1 DEF CallsInv, TypeOK, RegsRecord, KeyInv, InForce, TimersAsAsked
  <1>. QED
    BY <1>1, <1>2

\* wdt_swd_enable_auto_feed.
LEMMA AutoFeedStep ==
  ASSUME CallsInv, SwdEnableAutoFeed
  PROVE  CallsInv' /\ regs'.live = regs.live
  <1>1. "SUPER" \in WdtIds
    BY DEF WdtIds
  <1>2. regs' = [wprotect |-> [regs.wprotect EXCEPT !["SUPER"] = LockKey], config |-> regs.config,
                 live |-> regs.live, swd |-> [regs.swd EXCEPT !.autoFeed = TRUE]]
    <2>1. PICK u : u = AfterUnlock(regs, "SUPER")
      OBVIOUS
    <2>2. u = [wprotect |-> [regs.wprotect EXCEPT !["SUPER"] = UnlockKey], config |-> regs.config,
               live |-> regs.live, swd |-> regs.swd]
      BY <2>1 DEF AfterUnlock, CallsInv, RegsRecord
    <2>3. Unlocked(u, "SUPER")
      BY <1>1, <2>2 DEF Unlocked, CallsInv, TypeOK
    <2>4. PICK f : f = AutoFeedSet(u)
      OBVIOUS
    <2>5. f = [wprotect |-> [regs.wprotect EXCEPT !["SUPER"] = UnlockKey], config |-> regs.config,
               live |-> regs.live, swd |-> [regs.swd EXCEPT !.autoFeed = TRUE]]
      BY <2>2, <2>3, <2>4 DEF AutoFeedSet
    <2>6. regs' = [f EXCEPT !.wprotect["SUPER"] = LockKey]
      BY <2>1, <2>4, Zenon DEF SwdEnableAutoFeed, AfterAutoFeed, AfterLock
    <2>7. regs' = [wprotect |-> [f.wprotect EXCEPT !["SUPER"] = LockKey], config |-> f.config,
                   live |-> f.live, swd |-> f.swd]
      BY <2>5, <2>6
    <2>8. /\ f.wprotect = [regs.wprotect EXCEPT !["SUPER"] = UnlockKey] /\ f.config = regs.config
          /\ f.live = regs.live /\ f.swd = [regs.swd EXCEPT !.autoFeed = TRUE]
      BY <2>5
    <2>9. [f.wprotect EXCEPT !["SUPER"] = LockKey] = [regs.wprotect EXCEPT !["SUPER"] = LockKey]
      BY <2>8 DEF CallsInv, TypeOK
    <2>. QED
      BY <2>7, <2>8, <2>9
  <1>3. /\ regs'.wprotect = [regs.wprotect EXCEPT !["SUPER"] = LockKey]
        /\ regs'.config = regs.config /\ regs'.live = regs.live
        /\ regs'.swd = [regs.swd EXCEPT !.autoFeed = TRUE]
        /\ RegsRecord'
    BY <1>2 DEF RegsRecord
  <1>4. locked' = [locked EXCEPT !["SUPER"] = TRUE] /\ asked' = asked
    BY DEF SwdEnableAutoFeed
  <1>5. LockKey \in Keys /\ LockKey \in LockedKeys("SUPER")
    BY DEF Keys, LockedKeys
  <1>6. TypeOK'
    <2>1. regs'.swd \in [autoFeed : BOOLEAN, disable : BOOLEAN, width : {0, 300}]
      <3>1. regs.swd \in [autoFeed : BOOLEAN, disable : BOOLEAN, width : {0, 300}]
        BY DEF CallsInv, TypeOK
      <3>2. PICK d : d = [regs.swd EXCEPT !.autoFeed = TRUE]
        OBVIOUS
      <3>3. d \in [autoFeed : BOOLEAN, disable : BOOLEAN, width : {0, 300}]
        BY <3>1, <3>2
      <3>. QED
        BY <1>3, <3>2, <3>3
    <2>2. regs'.wprotect \in [WdtIds -> Keys] /\ locked' \in [WdtIds -> BOOLEAN]
      <3>1. regs.wprotect \in [WdtIds -> Keys] /\ locked \in [WdtIds -> BOOLEAN]
        BY DEF CallsInv, TypeOK
      <3>. QED
        BY <1>1, <1>3, <1>4, <1>5, <3>1
    <2>. QED
      BY <1>3, <1>4, <2>1, <2>2 DEF CallsInv, TypeOK
  <1>7. KeyInv'
    BY <1>1, <1>3, <1>4, <1>5 DEF CallsInv, TypeOK, KeyInv
  <1>8. InForce' /\ TimersAsAsked'
    BY <1>3, <1>4 DEF CallsInv, InForce, TimersAsAsked
  <1>. QED
    BY <1>3, <1>6, <1>7, <1>8 DEF CallsInv

\* What a lock holds in a step.
Held ==
  \A id \in WdtIds :
    locked[id] /\ called'[1] # "wdt_swd_enable_auto_feed" => Switches(id)' = Switches(id)

\* Which registers make a watchdog's switches.
LEMMA SwitchFacts ==
  /\ "SUPER" \in WdtIds
  /\ \A id \in WdtIds : id \in Timers \/ id = "SUPER"
  /\ Switches("SUPER") = regs.swd /\ Switches("SUPER")' = regs'.swd
  /\ \A id \in Timers : Switches(id) = regs.live[id] /\ Switches(id)' = regs'.live[id]
  BY DEF Switches, WdtIds, Timers, Main

\* Every call keeps the invariant and honours the locks.
LEMMA CallStep == CallsInv /\ Next => CallsInv' /\ Held
  <1>. SUFFICES ASSUME CallsInv, Next PROVE CallsInv' /\ Held
    OBVIOUS
  <1>1. ASSUME NEW id \in WdtIds, Lock(id) \/ Unlock(id) PROVE CallsInv' /\ Held
    BY <1>1, LockStep, SwitchFacts DEF Held
  <1>2. ASSUME NEW id \in WdtIds, Enable(id) \/ Disable(id) PROVE CallsInv' /\ Held
    <2>1. CASE id = "SUPER"
      BY <1>2, <2>1, SuperStep, SwitchFacts DEF Held
    <2>2. CASE id \in Timers
      <3>1. PICK value \in BOOLEAN :
              /\ regs' = Configured(regs, id, "en", value)
              /\ Ask(id, "en", value) /\ UNCHANGED locked
        BY <1>2, <2>2 DEF Enable, Disable, AfterEnable, AfterDisable, Timers, Main
      <3>. QED
        BY <2>2, <3>1, ConfiguredStep, OneTimer, SwitchFacts DEF Held
    <2>. QED
      BY <2>1, <2>2, SwitchFacts
  <1>3. ASSUME NEW id \in WdtIds, NEW enable \in BOOLEAN, SetFlashbootMode(id, enable)
        PROVE  CallsInv' /\ Held
    <2>1. /\ id \in Timers
          /\ regs' = Configured(regs, id, "flashboot", enable)
          /\ Ask(id, "flashboot", enable) /\ UNCHANGED locked
      BY <1>3, SwitchFacts DEF SetFlashbootMode, AfterFlashboot
    <2>. QED
      BY <2>1, ConfiguredStep, OneTimer, SwitchFacts DEF Held
  <1>4. ASSUME NEW id \in WdtIds, Feed(id) PROVE CallsInv' /\ Held
    BY <1>4, FeedStep, SwitchFacts DEF Held
  <1>5. CASE SwdEnableAutoFeed
    <2>1. called'[1] = "wdt_swd_enable_auto_feed"
      BY <1>5 DEF SwdEnableAutoFeed
    <2>. QED
      BY <1>5, <2>1, AutoFeedStep DEF Held
  <1>. QED
    BY <1>1, <1>2, <1>3, <1>4, <1>5 DEF Next

\* The registers after a reset.
LEMMA InitInv == Init => CallsInv
  <1>. SUFFICES ASSUME Init PROVE CallsInv
    OBVIOUS
  <1>1. LockKey # UnlockKey /\ {LockKey, UnlockKey} \subseteq Keys
    BY DEF LockKey, UnlockKey, Keys
  <1>2. RegsRecord /\ TypeOK
    BY <1>1 DEF Init, ResetRegs, RegsRecord, TypeOK, Asks, Unlocked, WdtIds, Timers, Main
  <1>3. KeyInv
    <2>1. ASSUME NEW id \in WdtIds
          PROVE  regs.wprotect[id] = IF locked[id] THEN LockKey ELSE UnlockKey
      <3>1. regs.wprotect[id] \in {LockKey, UnlockKey}
        BY DEF Init, ResetRegs, WdtIds, Timers, Main
      <3>2. locked[id] <=> regs.wprotect[id] # UnlockKey
        BY Zenon DEF Init, Unlocked
      <3>. QED
        BY <1>1, <3>1, <3>2
    <2>2. \A id \in WdtIds : LockKey \in LockedKeys(id) /\ UnlockKey \in OtherKeys(id)
      BY DEF LockedKeys, OtherKeys
    <2>. QED
      BY <2>1, <2>2 DEF KeyInv
  <1>4. InForce /\ TimersAsAsked
    BY DEF Init, ResetRegs, InForce, TimersAsAsked, WdtIds, Timers, Main
  <1>. QED
    BY <1>2, <1>3, <1>4 DEF CallsInv

\* The inductive invariant of every program over the driver.
THEOREM Invariant == Spec => []CallsInv
  <1>1. CallsInv /\ UNCHANGED vars => CallsInv'
    BY DEF vars, CallsInv, TypeOK, RegsRecord, KeyInv, InForce, TimersAsAsked
  <1>. QED
    BY InitInv, CallStep, <1>1, PTL DEF Spec

\* The timers do as they were last told while unlocked, in every program.
THEOREM TimersObey == Spec => []TimersAsAsked
  <1>1. CallsInv => TimersAsAsked
    BY DEF CallsInv
  <1>. QED
    BY <1>1, Invariant, PTL

\* Between a lock and the next unlock nothing switches a watchdog, in every program.
THEOREM LocksHold == Spec => LockHolds
  <1>1. CallsInv /\ [Next]_vars => [Held]_vars
    BY CallStep
  <1>2. Spec => [][Held]_vars
    BY <1>1, Invariant, PTL DEF Spec
  <1>. QED
    BY <1>2 DEF LockHolds, Held
=============================================================================
