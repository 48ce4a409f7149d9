----------------------------- MODULE BootProofs -----------------------------
(***************************************************************************)
(* Start-up, for every size of .bss, every content of RAM and every number *)
(* of resets, wherever they hit.                                           *)
(***************************************************************************)
EXTENDS Boot, SequenceTheorems, TLAPS

USE BootAssumption DEF BootAssumption

RegsRecord ==
  regs = [wprotect |-> regs.wprotect, config |-> regs.config, live |-> regs.live, swd |-> regs.swd]

\* Nobody enables a timer: only flash boot protection can make one expire.
NoneEnabled == \A id \in Timers : ~regs.config[id].en /\ ~regs.live[id].en

\* The words bss_init has passed are zero, and it stays within .bss.
ClearedInv ==
  /\ pc = "bss_init" => \A w \in Bss : w < t0 => mem[w] = "zero"
  /\ BssZero

\* init_wdt has been entered since the last reset.
Entered == pc = "init_wdt" \/ InText

\* The four accesses that turn a timer off, the first of which is number b + 1.
OffInv(id, b) ==
  /\ step \in b + 2 .. b + 4 => Unlocked(regs, id)
  /\ step > b + 2 => ~regs.config[id].flashboot /\ ~regs.live[id].flashboot
  /\ step > b + 4 => regs.wprotect[id] = LockKey

ScriptInv ==
  /\ pc = "init_wdt" => step <= 11
  /\ InText => step = 12
  /\ Entered => /\ OffInv("RTC", 0) /\ OffInv("MAIN0", 4)
                /\ step \in {10, 11} => Unlocked(regs, "SUPER")
                /\ step > 10 => regs.swd.autoFeed
                /\ step > 11 => regs.wprotect["SUPER"] = LockKey

BootInv == TypeOK /\ RegsRecord /\ NoneEnabled /\ ClearedInv /\ ScriptInv

\* ab is a and then b.
Joined(a, b, ab) ==
  /\ Len(ab) = Len(a) + Len(b)
  /\ \A k \in 1 .. Len(a) + Len(b) : ab[k] = IF k <= Len(a) THEN a[k] ELSE b[k - Len(a)]

\* Two sequences in a row.
LEMMA ConcatFacts ==
  ASSUME NEW S, NEW a \in Seq(S), NEW b \in Seq(S)
  PROVE  a \o b \in Seq(S) /\ Joined(a, b, a \o b)
  BY ConcatProperties, Zenon DEF Joined

\* Two sequences of four and one of three in a row.
LEMMA ThreeFacts ==
  ASSUME NEW S, NEW a \in Seq(S), NEW b \in Seq(S), NEW c \in Seq(S),
         Len(a) = 4, Len(b) = 4, Len(c) = 3,
         NEW ab, NEW all, Joined(a, b, ab), Joined(ab, c, all)
  PROVE  /\ Len(all) = 11
         /\ all[1] = a[1] /\ all[2] = a[2] /\ all[3] = a[3] /\ all[4] = a[4]
         /\ all[5] = b[1] /\ all[6] = b[2] /\ all[7] = b[3] /\ all[8] = b[4]
         /\ all[9] = c[1] /\ all[10] = c[2] /\ all[11] = c[3]
  <1>1. Len(ab) = 8 /\ \A k \in 1 .. 8 : ab[k] = IF k <= 4 THEN a[k] ELSE b[k - 4]
    BY DEF Joined
  <1>2. Len(all) = 11 /\ \A k \in 1 .. 11 : all[k] = IF k <= 8 THEN ab[k] ELSE c[k - 8]
    BY <1>1 DEF Joined
  <1>3. /\ ab[1] = a[1] /\ ab[2] = a[2] /\ ab[3] = a[3] /\ ab[4] = a[4]
        /\ ab[5] = b[1] /\ ab[6] = b[2] /\ ab[7] = b[3] /\ ab[8] = b[4]
    BY <1>1
  <1>. QED
    BY <1>2, <1>3

\* The accesses that turn a timer off.
LEMMA OffFacts ==
  ASSUME NEW id \in Timers, NEW T, T = {"unlock", "flashboot_off", "disable", "lock"} \X Timers
  PROVE  /\ Off(id) \in Seq(T) /\ Len(Off(id)) = 4
         /\ Off(id)[1] = <<"unlock", id>> /\ Off(id)[2] = <<"flashboot_off", id>>
         /\ Off(id)[3] = <<"disable", id>> /\ Off(id)[4] = <<"lock", id>>
  <1>1. /\ <<"unlock", id>> \in T /\ <<"flashboot_off", id>> \in T
        /\ <<"disable", id>> \in T /\ <<"lock", id>> \in T
    OBVIOUS
  <1>. QED
    BY <1>1 DEF Off

\* The accesses of init_wdt, one by one.
LEMMA ScriptFacts ==
  /\ Len(Script) = 11
  /\ Script[1] = <<"unlock", "RTC">> /\ Script[2] = <<"flashboot_off", "RTC">>
  /\ Script[3] = <<"disable", "RTC">> /\ Script[4] = <<"lock", "RTC">>
  /\ Script[5] = <<"unlock", "MAIN0">> /\ Script[6] = <<"flashboot_off", "MAIN0">>
  /\ Script[7] = <<"disable", "MAIN0">> /\ Script[8] = <<"lock", "MAIN0">>
  /\ Script[9] = <<"unlock", "SUPER">> /\ Script[10] = <<"auto_feed", "SUPER">>
  /\ Script[11] = <<"lock", "SUPER">>
  <1>1. PICK rtc : rtc = Off("RTC")
    OBVIOUS
  <1>2. PICK main : main = Off("MAIN0")
    OBVIOUS
  <1>3. PICK super : super = << <<"unlock", "SUPER">>, <<"auto_feed", "SUPER">>, <<"lock", "SUPER">> >>
    OBVIOUS
  <1>4. PICK T : T = {"unlock", "flashboot_off", "disable", "lock"} \X Timers
    OBVIOUS
  <1>5. PICK S : S = T \cup {<<"unlock", "SUPER">>, <<"auto_feed", "SUPER">>, <<"lock", "SUPER">>}
    OBVIOUS
  <1>6. /\ rtc \in Seq(T) /\ Len(rtc) = 4 /\ main \in Seq(T) /\ Len(main) = 4
        /\ rtc[1] = <<"unlock", "RTC">> /\ rtc[2] = <<"flashboot_off", "RTC">>
        /\ rtc[3] = <<"disable", "RTC">> /\ rtc[4] = <<"lock", "RTC">>
        /\ main[1] = <<"unlock", "MAIN0">> /\ main[2] = <<"flashboot_off", "MAIN0">>
        /\ main[3] = <<"disable", "MAIN0">> /\ main[4] = <<"lock", "MAIN0">>
    BY <1>1, <1>2, <1>4, OffFacts DEF Timers, Main
  <1>7. T \subseteq S
    BY <1>5
  <1>8. rtc \in Seq(S) /\ main \in Seq(S)
    BY <1>6, <1>7
  <1>9. super \in Seq(S)
    BY <1>3, <1>5
  <1>10. /\ Len(super) = 3
         /\ super[1] = <<"unlock", "SUPER">> /\ super[2] = <<"auto_feed", "SUPER">>
         /\ super[3] = <<"lock", "SUPER">>
    BY <1>3
  <1>11. PICK ab : ab = rtc \o main
    OBVIOUS
  <1>12. ab \in Seq(S) /\ Joined(rtc, main, ab)
    BY <1>8, <1>11, ConcatFacts, Zenon
  <1>13. Script = ab \o super
    BY <1>1, <1>2, <1>3, <1>11, Zenon DEF Script
  <1>14. Joined(ab, super, Script)
    BY <1>9, <1>12, <1>13, ConcatFacts, Zenon
  <1>15. /\ Len(Script) = 11
         /\ Script[1] = rtc[1] /\ Script[2] = rtc[2] /\ Script[3] = rtc[3] /\ Script[4] = rtc[4]
         /\ Script[5] = main[1] /\ Script[6] = main[2] /\ Script[7] = main[3]
         /\ Script[8] = main[4]
         /\ Script[9] = super[1] /\ Script[10] = super[2] /\ Script[11] = super[3]
    BY <1>6, <1>8, <1>9, <1>10, <1>12, <1>14, ThreeFacts
  <1>. QED
    BY <1>6, <1>10, <1>15

LEMMA Keys == LockKey # UnlockKey
  BY DEF LockKey, UnlockKey

\* What the functions make of registers r: a key, a field in force, or auto feed.
NewKey(r, id, key) ==
  /\ r'.wprotect = [r.wprotect EXCEPT ![id] = key]
  /\ r'.config = r.config /\ r'.live = r.live /\ r'.swd = r.swd
NewField(r, id, field) ==
  /\ r'.wprotect = r.wprotect /\ r'.swd = r.swd
  /\ r'.config = [r.config EXCEPT ![id][field] = FALSE]
  /\ r'.live = [r.live EXCEPT ![id] = r'.config[id]]

\* The parts of a record of registers.
LEMMA RecordFacts ==
  ASSUME NEW r, NEW w, NEW c, NEW l, NEW s,
         r = [wprotect |-> w, config |-> c, live |-> l, swd |-> s]
  PROVE  /\ r.wprotect = w /\ r.config = c /\ r.live = l /\ r.swd = s
         /\ r = [wprotect |-> r.wprotect, config |-> r.config, live |-> r.live, swd |-> r.swd]
  OBVIOUS

\* A key that is written.
LEMMA KeyStep ==
  ASSUME BootInv, NEW id \in WdtIds, NEW key \in {LockKey, UnlockKey},
         regs' = [regs EXCEPT !.wprotect[id] = key]
  PROVE  RegsRecord' /\ NewKey(regs, id, key)
  <1>1. regs' = [wprotect |-> [regs.wprotect EXCEPT ![id] = key], config |-> regs.config,
                 live |-> regs.live, swd |-> regs.swd]
    BY DEF BootInv, RegsRecord
  <1>. QED
    BY <1>1 DEF RegsRecord, NewKey

\* A field that is switched off, in force at once.
LEMMA FieldStep ==
  ASSUME BootInv, NEW id \in Timers, NEW field \in {"en", "flashboot"}, Unlocked(regs, id),
         regs' = Configured(regs, id, field, FALSE)
  PROVE  RegsRecord' /\ NewField(regs, id, field)
  <1>1. PICK c : c = [regs.config EXCEPT ![id][field] = FALSE]
    OBVIOUS
  <1>2. PICK l : l = [regs.live EXCEPT ![id] = c[id]]
    OBVIOUS
  <1>3. regs' = [wprotect |-> regs.wprotect, config |-> c, live |-> l, swd |-> regs.swd]
    BY <1>1, <1>2 DEF BootInv, RegsRecord, Configured
  <1>4. PICK r : r = regs'
    OBVIOUS
  <1>5. r = [wprotect |-> regs.wprotect, config |-> c, live |-> l, swd |-> regs.swd]
    BY <1>3, <1>4, Zenon
  <1>6. r.wprotect = regs.wprotect /\ r.swd = regs.swd /\ r.config = c /\ r.live = l
    BY <1>5
  <1>7. RegsRecord'
    BY <1>3 DEF RegsRecord
  <1>. QED
    BY <1>1, <1>2, <1>4, <1>6, <1>7, Zenon DEF NewField

\* What is left alone when a key is written.
LEMMA KeyFacts ==
  ASSUME BootInv, NEW id \in WdtIds, NEW key, NewKey(regs, id, key)
  PROVE  /\ regs'.wprotect[id] = key
         /\ \A j \in WdtIds : j # id => regs'.wprotect[j] = regs.wprotect[j]
         /\ regs'.config = regs.config /\ regs'.live = regs.live /\ regs'.swd = regs.swd
  BY DEF NewKey, BootInv, TypeOK

\* And when a field is switched off; the other field is now in force too.
LEMMA FieldFacts ==
  ASSUME BootInv, NEW id \in Timers, NEW field \in {"en", "flashboot"}, NewField(regs, id, field)
  PROVE  /\ regs'.wprotect = regs.wprotect /\ regs'.swd = regs.swd
         /\ \A j \in Timers : j # id => /\ regs'.config[j] = regs.config[j]
                                       /\ regs'.live[j] = regs.live[j]
         /\ field = "flashboot" => ~regs'.config[id].flashboot /\ ~regs'.live[id].flashboot
         /\ field = "en" /\ ~regs.config[id].flashboot =>
              ~regs'.config[id].flashboot /\ ~regs'.live[id].flashboot
  BY DEF NewField, BootInv, TypeOK, Fields

\* The access init_wdt makes: which it is and what it does.
LEMMA AccessStep ==
  ASSUME BootInv, InitWdt
  PROVE  /\ RegsRecord' /\ step \in 1 .. 11
         /\ step = 1 => NewKey(regs, "RTC", UnlockKey)
         /\ step = 2 => NewField(regs, "RTC", "flashboot")
         /\ step = 3 => NewField(regs, "RTC", "en")
         /\ step = 4 => NewKey(regs, "RTC", LockKey)
         /\ step = 5 => NewKey(regs, "MAIN0", UnlockKey)
         /\ step = 6 => NewField(regs, "MAIN0", "flashboot")
         /\ step = 7 => NewField(regs, "MAIN0", "en")
         /\ step = 8 => NewKey(regs, "MAIN0", LockKey)
         /\ step = 9 => NewKey(regs, "SUPER", UnlockKey)
         /\ step = 10 => /\ regs'.wprotect = regs.wprotect /\ regs'.config = regs.config
                         /\ regs'.live = regs.live
                         /\ regs'.swd = [regs.swd EXCEPT !.autoFeed = TRUE]
         /\ step = 11 => NewKey(regs, "SUPER", LockKey)
  <1>1. /\ {"RTC", "MAIN0"} \subseteq Timers /\ {"RTC", "MAIN0", "SUPER"} \subseteq WdtIds
        /\ "RTC" # "SUPER" /\ "MAIN0" # "SUPER"
    BY DEF WdtIds, Timers, Main
  <1>2. step \in 1 .. 11 /\ Entered /\ regs' = Access(Script[step])
    BY ScriptFacts DEF BootInv, TypeOK, ScriptInv, InitWdt, Entered
  <1>3. /\ step \in {2, 3} => Unlocked(regs, "RTC")
        /\ step \in {6, 7} => Unlocked(regs, "MAIN0")
        /\ step = 10 => Unlocked(regs, "SUPER")
    BY <1>2 DEF BootInv, ScriptInv, OffInv
  <1>4. ASSUME NEW id \in WdtIds, regs' = Access(<<"unlock", id>>)
        PROVE  RegsRecord' /\ NewKey(regs, id, UnlockKey)
    <2>1. regs' = [regs EXCEPT !.wprotect[id] = UnlockKey]
      BY <1>4 DEF Access, AfterUnlock
    <2>. QED
      BY <2>1, KeyStep
  <1>5. ASSUME NEW id \in WdtIds, regs' = Access(<<"lock", id>>)
        PROVE  RegsRecord' /\ NewKey(regs, id, LockKey)
    <2>1. regs' = [regs EXCEPT !.wprotect[id] = LockKey]
      BY <1>5 DEF Access, AfterLock
    <2>. QED
      BY <2>1, KeyStep
  <1>6. ASSUME NEW id \in Timers, Unlocked(regs, id), regs' = Access(<<"flashboot_off", id>>)
        PROVE  RegsRecord' /\ NewField(regs, id, "flashboot")
    <2>1. regs' = Configured(regs, id, "flashboot", FALSE)
      BY <1>6 DEF Access, AfterFlashboot
    <2>. QED
      BY <1>6, <2>1, FieldStep
  <1>7. ASSUME NEW id \in Timers, id # "SUPER", Unlocked(regs, id),
               regs' = Access(<<"disable", id>>)
        PROVE  RegsRecord' /\ NewField(regs, id, "en")
    <2>1. regs' = Configured(regs, id, "en", FALSE)
      BY <1>7 DEF Access, AfterDisable
    <2>. QED
      BY <1>7, <2>1, FieldStep
  <1>8. CASE step \in {1, 4, 5, 8, 9, 11}
    <2>1. CASE step = 1
      <3>1. regs' = Access(<<"unlock", "RTC">>)
        BY <1>2, <2>1, ScriptFacts
      <3>. QED
        BY <1>1, <1>4, <2>1, <3>1
    <2>2. CASE step = 4
      <3>1. regs' = Access(<<"lock", "RTC">>)
        BY <1>2, <2>2, ScriptFacts
      <3>. QED
        BY <1>1, <1>5, <2>2, <3>1
    <2>3. CASE step = 5
      <3>1. regs' = Access(<<"unlock", "MAIN0">>)
        BY <1>2, <2>3, ScriptFacts
      <3>. QED
        BY <1>1, <1>4, <2>3, <3>1
    <2>4. CASE step = 8
      <3>1. regs' = Access(<<"lock", "MAIN0">>)
        BY <1>2, <2>4, ScriptFacts
      <3>. QED
        BY <1>1, <1>5, <2>4, <3>1
    <2>5. CASE step = 9
      <3>1. regs' = Access(<<"unlock", "SUPER">>)
        BY <1>2, <2>5, ScriptFacts
      <3>. QED
        BY <1>1, <1>4, <2>5, <3>1
    <2>6. CASE step = 11
      <3>1. regs' = Access(<<"lock", "SUPER">>)
        BY <1>2, <2>6, ScriptFacts
      <3>. QED
        BY <1>1, <1>5, <2>6, <3>1
    <2>. QED
      BY <1>8, <2>1, <2>2, <2>3, <2>4, <2>5, <2>6
  <1>9. CASE step \in {2, 3, 6, 7}
    <2>1. CASE step = 2
      <3>1. regs' = Access(<<"flashboot_off", "RTC">>)
        BY <1>2, <2>1, ScriptFacts
      <3>. QED
        BY <1>1, <1>3, <1>6, <2>1, <3>1
    <2>2. CASE step = 3
      <3>1. regs' = Access(<<"disable", "RTC">>)
        BY <1>2, <2>2, ScriptFacts
      <3>. QED
        BY <1>1, <1>3, <1>7, <2>2, <3>1
    <2>3. CASE step = 6
      <3>1. regs' = Access(<<"flashboot_off", "MAIN0">>)
        BY <1>2, <2>3, ScriptFacts
      <3>. QED
        BY <1>1, <1>3, <1>6, <2>3, <3>1
    <2>4. CASE step = 7
      <3>1. regs' = Access(<<"disable", "MAIN0">>)
        BY <1>2, <2>4, ScriptFacts
      <3>. QED
        BY <1>1, <1>3, <1>7, <2>4, <3>1
    <2>. QED
      BY <1>9, <2>1, <2>2, <2>3, <2>4
  <1>10. CASE step = 10
    <2>1. regs' = AutoFeedSet(regs)
      BY <1>2, <1>10, ScriptFacts DEF Access
    <2>2. regs' = [wprotect |-> regs.wprotect, config |-> regs.config, live |-> regs.live,
                   swd |-> [regs.swd EXCEPT !.autoFeed = TRUE]]
      BY <1>3, <1>10, <2>1 DEF AutoFeedSet, BootInv, RegsRecord
    <2>. QED
      BY <1>10, <2>2 DEF RegsRecord
  <1>. QED
    BY <1>2, <1>8, <1>9, <1>10

\* A configuration with a field switched off is one.
LEMMA FieldOff ==
  ASSUME NEW f \in Fields, NEW field \in {"en", "flashboot"}
  PROVE  [f EXCEPT ![field] = FALSE] \in Fields
  <1>1. CASE field = "en"
    BY <1>1 DEF Fields
  <1>2. CASE field = "flashboot"
    BY <1>2 DEF Fields
  <1>. QED
    BY <1>1, <1>2

\* A key or a field written keeps the registers' types and enables no timer.
LEMMA RegsTypes ==
  ASSUME BootInv, InitWdt
  PROVE  /\ regs'.wprotect \in [WdtIds -> {LockKey, UnlockKey}]
         /\ regs'.config \in [Timers -> Fields] /\ regs'.live \in [Timers -> Fields]
         /\ regs'.swd \in [autoFeed : BOOLEAN, disable : BOOLEAN, width : Nat]
         /\ NoneEnabled'
  <1>1. {"RTC", "MAIN0"} \subseteq Timers /\ {"RTC", "MAIN0", "SUPER"} \subseteq WdtIds
    BY DEF WdtIds, Timers, Main
  <1>2. ASSUME NEW id \in WdtIds, NEW key \in {LockKey, UnlockKey}, NewKey(regs, id, key)
        PROVE  /\ regs'.wprotect \in [WdtIds -> {LockKey, UnlockKey}]
               /\ regs'.config = regs.config /\ regs'.live = regs.live /\ regs'.swd = regs.swd
    BY <1>2 DEF NewKey, BootInv, TypeOK
  <1>3. ASSUME NEW id \in Timers, NEW field \in {"en", "flashboot"}, NewField(regs, id, field)
        PROVE  /\ regs'.wprotect = regs.wprotect /\ regs'.swd = regs.swd
               /\ regs'.config \in [Timers -> Fields] /\ regs'.live \in [Timers -> Fields]
               /\ NoneEnabled'
    <2>1. [regs.config[id] EXCEPT ![field] = FALSE] \in Fields
      <3>1. regs.config[id] \in Fields
        BY DEF BootInv, TypeOK
      <3>. QED
        BY <3>1, FieldOff
    <2>2. regs'.config \in [Timers -> Fields] /\ regs'.live \in [Timers -> Fields]
      BY <1>3, <2>1 DEF NewField, BootInv, TypeOK
    <2>3. \A j \in Timers : ~regs'.config[j].en /\ ~regs'.live[j].en
      BY <1>3, <2>1 DEF NewField, BootInv, TypeOK, NoneEnabled, Fields
    <2>. QED
      BY <1>3, <2>2, <2>3 DEF NewField, NoneEnabled
  <1>4. CASE step \in {1, 4, 5, 8, 9, 11}
    <2>1. PICK id \in WdtIds, key \in {LockKey, UnlockKey} : NewKey(regs, id, key)
      BY <1>1, <1>4, AccessStep
    <2>. QED
      BY <1>2, <2>1 DEF BootInv, TypeOK, NoneEnabled
  <1>5. CASE step \in {2, 3, 6, 7}
    <2>1. PICK id \in Timers, field \in {"en", "flashboot"} : NewField(regs, id, field)
      BY <1>1, <1>5, AccessStep
    <2>. QED
      BY <1>3, <2>1 DEF BootInv, TypeOK
  <1>6. CASE step = 10
    BY <1>6, AccessStep DEF BootInv, TypeOK, NoneEnabled
  <1>. QED
    BY <1>4, <1>5, <1>6, AccessStep

\* An access is about one watchdog.
LEMMA OthersAlone ==
  ASSUME BootInv, InitWdt, NEW id \in {"RTC", "MAIN0"},
         step \in IF id = "RTC" THEN 5 .. 11 ELSE (1 .. 4) \cup (9 .. 11)
  PROVE  /\ regs'.wprotect[id] = regs.wprotect[id]
         /\ regs'.config[id] = regs.config[id] /\ regs'.live[id] = regs.live[id]
  <1>1. /\ {"RTC", "MAIN0"} \subseteq Timers /\ {"RTC", "MAIN0", "SUPER"} \subseteq WdtIds
    BY DEF WdtIds, Timers, Main
  <1>2. CASE step \in {1, 4, 5, 8, 9, 11}
    <2>1. PICK other \in WdtIds, key \in {LockKey, UnlockKey} :
            other # id /\ NewKey(regs, other, key)
      BY <1>1, <1>2, AccessStep
    <2>. QED
      BY <1>1, <2>1, KeyFacts
  <1>3. CASE step \in {2, 3, 6, 7}
    <2>1. PICK other \in Timers, field \in {"en", "flashboot"} :
            other # id /\ NewField(regs, other, field)
      BY <1>1, <1>3, AccessStep
    <2>. QED
      BY <1>1, <2>1, FieldFacts
  <1>4. CASE step = 10
    BY <1>4, AccessStep
  <1>. QED
    BY <1>2, <1>3, <1>4, AccessStep

\* The accesses turn off what they are there to turn off.
LEMMA ScriptStep == BootInv /\ InitWdt => ScriptInv'
  <1>. SUFFICES ASSUME BootInv, InitWdt PROVE ScriptInv'
    OBVIOUS
  <1>1. {"RTC", "MAIN0"} \subseteq Timers /\ {"RTC", "MAIN0", "SUPER"} \subseteq WdtIds
    BY DEF WdtIds, Timers, Main
  <1>2. /\ Entered /\ step \in 1 .. 11 /\ step' = step + 1
        /\ pc' = IF step < 11 THEN "init_wdt" ELSE "text"
    BY ScriptFacts, AccessStep DEF InitWdt, Goto, Entered
  <1>3. /\ pc' = "init_wdt" => step' <= 11
        /\ InText' => step' = 12
    BY <1>2 DEF InText
  <1>4. /\ OffInv("RTC", 0) /\ OffInv("MAIN0", 4)
        /\ step \in {10, 11} => Unlocked(regs, "SUPER")
        /\ step > 10 => regs.swd.autoFeed
        /\ step > 11 => regs.wprotect["SUPER"] = LockKey
    BY <1>2 DEF BootInv, ScriptInv
  <1>5. OffInv("RTC", 0)'
    <2>1. CASE step = 1
      <3>1. regs'.wprotect["RTC"] = UnlockKey
        BY <1>1, <2>1, AccessStep, KeyFacts
      <3>. QED
        BY <1>2, <2>1, <3>1 DEF OffInv, Unlocked
    <2>2. CASE step = 2
      <3>1. /\ regs'.wprotect = regs.wprotect
            /\ ~regs'.config["RTC"].flashboot /\ ~regs'.live["RTC"].flashboot
        BY <1>1, <2>2, AccessStep, FieldFacts
      <3>. QED
        BY <1>2, <1>4, <2>2, <3>1 DEF OffInv, Unlocked
    <2>3. CASE step = 3
      <3>1. ~regs.config["RTC"].flashboot
        BY <1>4, <2>3 DEF OffInv
      <3>2. /\ regs'.wprotect = regs.wprotect
            /\ ~regs'.config["RTC"].flashboot /\ ~regs'.live["RTC"].flashboot
        BY <1>1, <2>3, <3>1, AccessStep, FieldFacts
      <3>. QED
        BY <1>2, <1>4, <2>3, <3>2 DEF OffInv, Unlocked
    <2>4. CASE step = 4
      <3>1. /\ regs'.wprotect["RTC"] = LockKey
            /\ regs'.config = regs.config /\ regs'.live = regs.live
        BY <1>1, <2>4, AccessStep, KeyFacts
      <3>. QED
        BY <1>2, <1>4, <2>4, <3>1 DEF OffInv, Unlocked
    <2>5. CASE step \in 5 .. 11
      <3>1. /\ regs'.wprotect["RTC"] = regs.wprotect["RTC"]
            /\ regs'.config["RTC"] = regs.config["RTC"] /\ regs'.live["RTC"] = regs.live["RTC"]
        BY <1>1, <2>5, OthersAlone
      <3>. QED
        BY <1>2, <1>4, <2>5, <3>1 DEF OffInv, Unlocked
    <2>. QED
      BY <1>2, <2>1, <2>2, <2>3, <2>4, <2>5
  <1>6. OffInv("MAIN0", 4)'
    <2>1. CASE step = 5
      <3>1. regs'.wprotect["MAIN0"] = UnlockKey
        BY <1>1, <2>1, AccessStep, KeyFacts
      <3>. QED
        BY <1>2, <2>1, <3>1 DEF OffInv, Unlocked
    <2>2. CASE step = 6
      <3>1. /\ regs'.wprotect = regs.wprotect
            /\ ~regs'.config["MAIN0"].flashboot /\ ~regs'.live["MAIN0"].flashboot
        BY <1>1, <2>2, AccessStep, FieldFacts
      <3>. QED
        BY <1>2, <1>4, <2>2, <3>1 DEF OffInv, Unlocked
    <2>3. CASE step = 7
      <3>1. ~regs.config["MAIN0"].flashboot
        BY <1>4, <2>3 DEF OffInv
      <3>2. /\ regs'.wprotect = regs.wprotect
            /\ ~regs'.config["MAIN0"].flashboot /\ ~regs'.live["MAIN0"].flashboot
        BY <1>1, <2>3, <3>1, AccessStep, FieldFacts
      <3>. QED
        BY <1>2, <1>4, <2>3, <3>2 DEF OffInv, Unlocked
    <2>4. CASE step = 8
      <3>1. /\ regs'.wprotect["MAIN0"] = LockKey
            /\ regs'.config = regs.config /\ regs'.live = regs.live
        BY <1>1, <2>4, AccessStep, KeyFacts
      <3>. QED
        BY <1>2, <1>4, <2>4, <3>1 DEF OffInv, Unlocked
    <2>5. CASE step \in 1 .. 4 \/ step \in 9 .. 11
      <3>1. /\ regs'.wprotect["MAIN0"] = regs.wprotect["MAIN0"]
            /\ regs'.config["MAIN0"] = regs.config["MAIN0"]
            /\ regs'.live["MAIN0"] = regs.live["MAIN0"]
        BY <1>1, <2>5, OthersAlone
      <3>. QED
        BY <1>2, <1>4, <2>5, <3>1 DEF OffInv, Unlocked
    <2>. QED
      BY <1>2, <2>1, <2>2, <2>3, <2>4, <2>5
  <1>7. /\ step' \in {10, 11} => Unlocked(regs, "SUPER")'
        /\ step' > 10 => regs'.swd.autoFeed
        /\ step' > 11 => regs'.wprotect["SUPER"] = LockKey
    <2>1. CASE step \in {9, 11}
      <3>1. /\ step = 9 => regs'.wprotect["SUPER"] = UnlockKey
            /\ step = 11 => regs'.wprotect["SUPER"] = LockKey /\ regs'.swd = regs.swd
        BY <1>1, AccessStep, KeyFacts
      <3>. QED
        BY <1>2, <1>4, <2>1, <3>1 DEF Unlocked
    <2>2. CASE step = 10
      BY <1>1, <1>2, <1>4, <2>2, AccessStep DEF Unlocked, BootInv, TypeOK
    <2>3. CASE step < 9
      BY <1>2, <2>3
    <2>. QED
      BY <1>2, <2>1, <2>2, <2>3
  <1>. QED
    BY <1>3, <1>5, <1>6, <1>7 DEF ScriptInv

\* A reset leaves each watchdog as it was or as it is after power-on.
LEMMA BiteStep == BootInv /\ Bite => BootInv'
  <1>. SUFFICES ASSUME BootInv, Bite PROVE BootInv'
    OBVIOUS
  <1>1. /\ RegsRecord' /\ NoneEnabled'
        /\ regs'.wprotect \in [WdtIds -> {LockKey, UnlockKey}]
        /\ regs'.config \in [Timers -> Fields] /\ regs'.live \in [Timers -> Fields]
        /\ regs'.swd \in [autoFeed : BOOLEAN, disable : BOOLEAN, width : Nat]
    <2>1. CASE regs' = ResetRegs
      BY <2>1 DEF ResetRegs, RegsRecord, NoneEnabled, Fields, WdtIds, Timers, Main
    <2>2. CASE regs' # ResetRegs
      <3> DEFINE w == [ResetRegs.wprotect EXCEPT !["RTC"] = regs.wprotect["RTC"],
                                                 !["SUPER"] = regs.wprotect["SUPER"]]
                 c == [ResetRegs.config EXCEPT !["RTC"] = regs.config["RTC"]]
                 l == [ResetRegs.live EXCEPT !["RTC"] = regs.live["RTC"]]
      <3>1. regs' = [wprotect |-> w, config |-> c, live |-> l, swd |-> regs.swd]
        BY <2>2, Zenon DEF Bite, AfterReset
      <3>2. /\ regs'.wprotect = w /\ regs'.config = c /\ regs'.live = l /\ regs'.swd = regs.swd
            /\ RegsRecord'
        BY <3>1, RecordFacts, Zenon DEF RegsRecord
      <3>3. w \in [WdtIds -> {LockKey, UnlockKey}]
        BY DEF BootInv, TypeOK, ResetRegs, WdtIds, Timers, Main
      <3>4. c \in [Timers -> Fields] /\ l \in [Timers -> Fields]
        BY DEF BootInv, TypeOK, ResetRegs, Fields, Timers, Main
      <3>5. \A id \in Timers : ~c[id].en /\ ~l[id].en
        BY DEF BootInv, NoneEnabled, ResetRegs, Timers, Main
      <3>. QED
        BY <3>2, <3>3, <3>4, <3>5 DEF BootInv, TypeOK, NoneEnabled
    <2>. QED
      BY <2>1, <2>2
  <1>2. /\ pc' = "start" /\ UNCHANGED <<t0, step, mem>>
        /\ resets' \in 0 .. MaxResets
    BY DEF Bite, Goto, BootInv, TypeOK
  <1>3. TypeOK'
    BY <1>1, <1>2 DEF BootInv, TypeOK, Pcs
  <1>4. ClearedInv' /\ ScriptInv'
    BY <1>2 DEF BootInv, ClearedInv, BssZero, ScriptInv, Entered, InText
  <1>. QED
    BY <1>1, <1>3, <1>4 DEF BootInv

\* The steps that leave the watchdogs alone.
LEMMA MemStep == BootInv /\ (Start \/ BssInit \/ Text) => BootInv'
  <1>. SUFFICES ASSUME BootInv, Start \/ BssInit \/ Text PROVE BootInv'
    OBVIOUS
  <1>1. regs' = regs /\ resets' = resets
    BY DEF Start, BssInit, Text
  <1>2. RegsRecord' /\ NoneEnabled'
    BY <1>1 DEF BootInv, RegsRecord, NoneEnabled
  <1>3. Bss \subseteq Ram
    BY DEF Ram, Bss
  <1>4. CASE Start
    <2>1. /\ pc = "start" /\ pc' \in {"bss_init", "hang"} /\ t0' = 0 /\ UNCHANGED <<step, mem>>
          /\ pc' = "hang" => Hart # 0
      BY <1>4 DEF Start, Goto
    <2>2. TypeOK'
      BY <1>1, <2>1 DEF BootInv, TypeOK, Pcs
    <2>3. ClearedInv' /\ ScriptInv'
      BY <2>1 DEF BootInv, ClearedInv, BssZero, ScriptInv, Entered, InText, Bss
    <2>. QED
      BY <1>2, <2>2, <2>3 DEF BootInv
  <1>5. CASE BssInit /\ t0 >= BssWords
    <2>1. pc = "bss_init" /\ pc' = "init_wdt" /\ step' = 1 /\ UNCHANGED <<t0, mem>>
      BY <1>5 DEF BssInit, Goto
    <2>2. TypeOK'
      BY <1>1, <2>1, ScriptFacts DEF BootInv, TypeOK, Pcs
    <2>3. ClearedInv'
      BY <1>5, <2>1 DEF BootInv, TypeOK, ClearedInv, BssZero, Bss
    <2>4. ScriptInv'
      BY <2>1 DEF ScriptInv, Entered, InText, OffInv
    <2>. QED
      BY <1>2, <2>2, <2>3, <2>4 DEF BootInv
  <1>6. CASE BssInit /\ ~(t0 >= BssWords)
    <2>1. /\ pc = "bss_init" /\ UNCHANGED <<pc, step>>
          /\ mem' = [mem EXCEPT ![t0] = "zero"] /\ t0' = t0 + 1
      BY <1>6 DEF BssInit
    <2>2. t0 \in Bss /\ t0 + 1 \in 0 .. BssWords
      BY <1>6 DEF BootInv, TypeOK, Bss
    <2>3. /\ mem' \in [Ram -> {"zero", "used"}]
          /\ \A w \in Ram : mem'[w] = IF w = t0 THEN "zero" ELSE mem[w]
      BY <2>1 DEF BootInv, TypeOK
    <2>4. TypeOK'
      BY <1>1, <2>1, <2>2, <2>3 DEF BootInv, TypeOK
    <2>5. \A w \in Bss : w < t0' => mem'[w] = "zero"
      BY <1>3, <2>1, <2>2, <2>3 DEF BootInv, ClearedInv, Bss
    <2>6. ClearedInv'
      BY <1>3, <2>1, <2>2, <2>3, <2>5 DEF BootInv, ClearedInv, BssZero
    <2>7. ScriptInv'
      BY <2>1 DEF BootInv, ScriptInv, Entered, InText
    <2>. QED
      BY <1>2, <2>4, <2>6, <2>7 DEF BootInv
  <1>7. CASE Text
    <2>1. pc = "text" /\ pc' = "hang" /\ UNCHANGED <<t0, step>>
      BY <1>7 DEF Text, Goto
    <2>2. PICK used \in SUBSET Statics : mem' = [w \in Ram |-> IF w \in used THEN "used" ELSE mem[w]]
      BY <1>7 DEF Text
    <2>3. TypeOK'
      BY <1>1, <2>1, <2>2 DEF BootInv, TypeOK, Pcs
    <2>4. ClearedInv'
      BY <1>3, <2>1, <2>2 DEF BootInv, ClearedInv, BssZero
    <2>5. ScriptInv'
      BY <1>1, <2>1 DEF BootInv, ScriptInv, Entered, InText, OffInv, Unlocked
    <2>. QED
      BY <1>2, <2>3, <2>4, <2>5 DEF BootInv
  <1>. QED
    BY <1>4, <1>5, <1>6, <1>7

LEMMA BootStep == BootInv /\ [Next]_vars => BootInv'
  <1>. SUFFICES ASSUME BootInv, [Next]_vars PROVE BootInv'
    OBVIOUS
  <1>1. CASE InitWdt
    <2>1. /\ pc = "init_wdt" /\ UNCHANGED <<t0, mem, resets>> /\ step' = step + 1
          /\ step \in 1 .. 11 /\ pc' \in {"init_wdt", "text"}
      BY <1>1, AccessStep DEF InitWdt, Goto
    <2>2. TypeOK'
      BY <1>1, <2>1, RegsTypes, ScriptFacts DEF BootInv, TypeOK, Pcs
    <2>3. ClearedInv'
      BY <2>1 DEF BootInv, ClearedInv, BssZero
    <2>. QED
      BY <1>1, <2>2, <2>3, RegsTypes, ScriptStep, AccessStep DEF BootInv
  <1>2. CASE UNCHANGED vars
    BY <1>2 DEF vars, BootInv, TypeOK, RegsRecord, NoneEnabled, ClearedInv, BssZero,
                ScriptInv, Entered, InText, OffInv, Unlocked
  <1>. QED
    BY <1>1, <1>2, BiteStep, MemStep DEF Next, Core, Hang

LEMMA InitInv == Init => BootInv
  <1>. SUFFICES ASSUME Init PROVE BootInv
    OBVIOUS
  <1>1. RegsRecord /\ NoneEnabled
    BY DEF Init, ResetRegs, RegsRecord, NoneEnabled, Timers, Main
  <1>2. /\ regs.wprotect \in [WdtIds -> {LockKey, UnlockKey}]
        /\ regs.config \in [Timers -> Fields] /\ regs.live \in [Timers -> Fields]
        /\ regs.swd \in [autoFeed : BOOLEAN, disable : BOOLEAN, width : Nat]
    BY DEF Init, ResetRegs, Fields, WdtIds, Timers, Main
  <1>3. pc \in Pcs /\ t0 \in 0 .. BssWords /\ step \in 1 .. Len(Script) + 1 /\ resets \in 0 .. MaxResets
    BY ScriptFacts DEF Init, Pcs
  <1>4. TypeOK
    BY <1>2, <1>3 DEF Init, TypeOK
  <1>5. ClearedInv /\ ScriptInv
    BY DEF Init, ClearedInv, BssZero, ScriptInv, Entered, InText
  <1>. QED
    BY <1>1, <1>4, <1>5 DEF BootInv

\* The inductive invariant of start-up.
THEOREM Invariant == Spec => []BootInv
  BY InitInv, BootStep, PTL DEF Spec

\* Clearing .bss touches nothing else, whatever its size.
THEOREM ClearsOnlyBss == Spec => OnlyBss
  <1>1. ASSUME BootInv, [Next]_vars
        PROVE  [pc = "bss_init" => \A w \in Ram \ Bss : mem'[w] = mem[w]]_vars
    <2>. SUFFICES ASSUME ~UNCHANGED vars, pc = "bss_init", NEW w \in Ram \ Bss
                  PROVE  mem'[w] = mem[w]
      OBVIOUS
    <2>1. CASE BssInit
      <3>1. CASE t0 >= BssWords
        BY <2>1, <3>1 DEF BssInit
      <3>2. CASE ~(t0 >= BssWords)
        <4>1. mem' = [mem EXCEPT ![t0] = "zero"]
          BY <2>1, <3>2 DEF BssInit
        <4>2. t0 \in Bss /\ mem \in [Ram -> {"zero", "used"}]
          BY <1>1, <3>2 DEF BootInv, TypeOK, Bss
        <4>. QED
          BY <4>1, <4>2
      <3>. QED
        BY <3>1, <3>2
    <2>2. CASE Bite
      BY <2>2 DEF Bite
    <2>. QED
      BY <1>1, <2>1, <2>2 DEF Next, Core, Hang, Start, InitWdt, Text
  <1>. QED
    BY <1>1, Invariant, PTL DEF Spec, OnlyBss

\* main finds all words of .bss zero, after every reset.
THEOREM BssIsZero == Spec => []BssZero
  <1>1. BootInv => BssZero
    BY DEF BootInv, ClearedInv
  <1>. QED
    BY <1>1, Invariant, PTL

\* No watchdog can break off main's text, and those init_wdt unlocked are locked again.
THEOREM TextIsSafe == Spec => []NoWatchdogInText
  <1>1. BootInv => NoWatchdogInText
    <2>. SUFFICES ASSUME BootInv, InText
                  PROVE  /\ \A id \in WdtIds : ~Active(regs, id)
                         /\ \A id \in {"RTC", "MAIN0", "SUPER"} : ~Unlocked(regs, id)
      BY DEF NoWatchdogInText
    <2>1. /\ ~regs.live["RTC"].flashboot /\ ~regs.live["MAIN0"].flashboot /\ regs.swd.autoFeed
          /\ regs.wprotect["RTC"] = LockKey /\ regs.wprotect["MAIN0"] = LockKey
          /\ regs.wprotect["SUPER"] = LockKey
      BY DEF BootInv, ScriptInv, Entered, OffInv
    <2>. QED
      BY <2>1, Keys DEF Active, Unlocked, BootInv, NoneEnabled, WdtIds, Timers, Main
  <1>. QED
    BY <1>1, Invariant, PTL
=============================================================================
