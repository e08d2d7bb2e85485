------------------------ MODULE SurfaceSidBatteryAlarm ------------------------
(***************************************************************************)
(* The data path of the battery's alarm (surface_sam_sid_power.c): the     *)
(* value user space writes to the "alarm" file in uWh (kstrtoul, / 1000,   *)
(* narrowed to the u32 parameter of spwr_battery_set_alarm), bat->alarm,   *)
(* the BTP request to the EC, the re-initialisation from the BIX warning   *)
(* capacity when a battery is attached, and spwr_battery_alarm_show, which *)
(* prints bat->alarm * 1000 with %d.  Threads and the lock are the         *)
(* subject of SurfaceSidBattery; here every call is one step.              *)
(*                                                                         *)
(* The C values are wider than TLC's integers, so a number is a tuple of   *)
(* 16-bit limbs, least significant first: two for a u32, four for an       *)
(* unsigned long.                                                          *)
(***************************************************************************)
EXTENDS Integers

CONSTANTS
    Inputs,     \* strings written to the alarm file: a 4-limb number or Bad
    Bad,        \* a string kstrtoul rejects (-EINVAL or -ERANGE)
    WarnVals,   \* design_cap_warn values the EC reports, 2-limb numbers
    Fallible,   \* "ec" if SSAM requests may fail
    MaxUser,    \* writes to the alarm file
    MaxEc       \* battery attach/detach events

B == 2^16
U32 == [1..2 -> 0..B - 1]
ULong == [1..4 -> 0..B - 1]

\* A u32 as an unsigned long, and the narrowing of an unsigned long to u32.
Widen(x) == <<x[1], x[2], 0, 0>>
Narrow(x) == <<x[1], x[2]>>

\* value / 1000 on an unsigned long: long division, most significant limb
\* first; every partial dividend is below 1000 * 2^16.
Div1000(x) ==
    LET t4 == x[4]
        t3 == (t4 % 1000) * B + x[3]
        t2 == (t3 % 1000) * B + x[2]
        t1 == (t2 % 1000) * B + x[1]
    IN  <<t1 \div 1000, t2 \div 1000, t3 \div 1000, t4 \div 1000>>

\* x * 1000 in u32 arithmetic (bat->alarm * 1000 wraps modulo 2^32).
Mul1000(x) ==
    LET p1 == x[1] * 1000
    IN  <<p1 % B, (x[2] * 1000 + p1 \div B) % B>>

\* The int that %d prints for a u32 bit pattern (two's complement).
AsInt(x) == IF x[2] < B \div 2 THEN x[2] * B + x[1] ELSE (x[2] - B) * B + x[1]

Outcome(kind) == IF kind \in Fallible THEN BOOLEAN ELSE {TRUE}

VARIABLES
    ecSta,      \* the EC reports a battery present (_STA)
    ecWarn,     \* the design_cap_warn the EC reports in BIX
    sta,        \* bat->sta: spwr_battery_present
    warn,       \* bat->bix.design_cap_warn
    alarm,      \* bat->alarm (u32)
    want,       \* the alarm, in mWh, of the last call that reported success
    n           \* attach/detach events and writes so far

vars == <<ecSta, ecWarn, sta, warn, alarm, want, n>>

TypeOK ==
    /\ ecSta \in BOOLEAN /\ sta \in BOOLEAN
    /\ ecWarn \in WarnVals /\ warn \in WarnVals \cup {<<0, 0>>}
    /\ alarm \in U32
    /\ want \in ULong
    /\ n \in [ec : 0..MaxEc, usr : 0..MaxUser]

\* A bound battery device: spwr_battery_register read _STA and BIX and, if
\* a battery is present, set the alarm to its warning capacity (a failed
\* request fails the probe); otherwise bat->alarm is kzalloc'ed zero.
Init ==
    /\ ecSta \in BOOLEAN
    /\ ecWarn \in WarnVals
    /\ sta = ecSta
    /\ warn = IF sta THEN ecWarn ELSE <<0, 0>>
    /\ alarm = warn
    /\ want = Widen(warn)
    /\ n = [ec |-> 0, usr |-> 0]

-----------------------------------------------------------------------------
(* The EC: a battery is attached (with its warning capacity) or detached.  *)

ec_attach(w) ==
    /\ ~ecSta /\ n.ec < MaxEc
    /\ ecSta' = TRUE /\ ecWarn' = w
    /\ n' = [n EXCEPT !.ec = @ + 1]
    /\ UNCHANGED <<sta, warn, alarm, want>>

ec_detach ==
    /\ ecSta /\ n.ec < MaxEc
    /\ ecSta' = FALSE
    /\ n' = [n EXCEPT !.ec = @ + 1]
    /\ UNCHANGED <<ecWarn, sta, warn, alarm, want>>

-----------------------------------------------------------------------------
(* The driver.                                                             *)

\* spwr_battery_set_alarm(_unlocked): bat->alarm is assigned before the
\* BTP request is sent, whatever the request's outcome.
SetAlarm(value) == alarm' = value

\* The u32 argument of spwr_battery_set_alarm(bat, value / 1000).
AlarmArg(v) == Narrow(Div1000(v))

\* spwr_battery_alarm_store: kstrtoul fails for Bad; the unlocked
\* spwr_battery_present check returns -ENODEV; spwr_battery_set_alarm then
\* assigns bat->alarm and sends BTP, whose error is returned to the writer.
spwr_battery_alarm_store(v) ==
    /\ n.usr < MaxUser
    /\ n' = [n EXCEPT !.usr = @ + 1]
    /\ IF v = Bad \/ ~sta
         THEN UNCHANGED <<alarm, want>>
         ELSE \E ok \in Outcome("ec") :
                /\ SetAlarm(AlarmArg(v))
                /\ want' = IF ok THEN Div1000(v) ELSE want
    /\ UNCHANGED <<ecSta, ecWarn, sta, warn>>

\* spwr_battery_recheck on a BIX event: spwr_battery_update_bix loads _STA,
\* then BIX and BST if a battery is present (each failure returns); if the
\* battery was not present before and is now, the alarm is set to the
\* warning capacity.  (The unit comparison and re-add are SurfaceSidBattery's.)
spwr_battery_recheck ==
    \E okSta, okBix, okBst, okBtp \in Outcome("ec") :
      LET present == sta
          loaded  == okSta /\ (ecSta => okBix /\ okBst)
          attach  == loaded /\ ~present /\ ecSta
      IN  /\ sta' = IF okSta THEN ecSta ELSE sta
          /\ warn' = IF okSta /\ ecSta /\ okBix THEN ecWarn ELSE warn
          /\ IF attach THEN SetAlarm(ecWarn) ELSE UNCHANGED alarm
          /\ want' = IF attach /\ okBtp THEN Widen(ecWarn) ELSE want
          /\ UNCHANGED <<ecSta, ecWarn, n>>

\* spwr_battery_alarm_show: the int that sprintf("%d", bat->alarm * 1000)
\* prints.
AlarmShown == AsInt(Mul1000(alarm))

Next ==
    \/ \E w \in WarnVals : ec_attach(w)
    \/ ec_detach
    \/ \E v \in Inputs : spwr_battery_alarm_store(v)
    \/ spwr_battery_recheck

Spec == Init /\ [][Next]_vars

-----------------------------------------------------------------------------
(* Properties                                                              *)

\* Reading the alarm file (spwr_battery_alarm_show) prints, in uWh, the
\* alarm of the last write that succeeded (value / 1000, whole mWh) or of
\* the last successful re-initialisation from BIX: the store's / 1000 and
\* narrowing, set_alarm's assignment before the BTP request and the show's
\* u32 product printed with %d must not change it.
AlarmReadsBack ==
    /\ want[3] = 0 /\ want[4] = 0
    /\ want[2] <= 32 /\ want[2] * B + want[1] <= 2147483
    /\ AlarmShown = (want[2] * B + want[1]) * 1000
====
