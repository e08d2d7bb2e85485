--------------------------- MODULE SurfaceSidBattery ---------------------------
(***************************************************************************)
(* The battery half of src/module/src/clients/surface_sam_sid_power.c: one *)
(* spwr_battery_device and the five execution contexts that touch it.      *)
(*                                                                         *)
(*   EVT  the SSAM event worker running spwr_notify_bat                    *)
(*   WQ   the system workqueue running spwr_battery_update_bst_workfn      *)
(*   PM   the PM core running surface_sam_sid_battery_resume               *)
(*   USR  user space: spwr_battery_get_property, spwr_battery_alarm_store  *)
(*   DRV  the driver core: surface_sam_sid_battery_probe / _remove         *)
(*                                                                         *)
(* A section run under bat->lock is one step unless an unlocked reader    *)
(* can tell its intermediate states apart (update_bix: sta, then bix).     *)
(* Every SSAM request may fail when "ec" is in Fallible; the data it       *)
(* returns is the EC's current state (ec).                                 *)
(***************************************************************************)
EXTENDS Naturals

CONSTANTS
  Bix,          \* battery packs the EC can report (_BIX records), model values
  ZeroBix,      \* the all-zero _BIX of a freshly kzalloc'ed device
  UnitOf,       \* [Bix \cup {ZeroBix} -> {0, 1}]: bix.power_unit
  WarnOf,       \* [Bix \cup {ZeroBix} -> Nat]: bix.design_cap_warn
  AlarmValues,  \* values reaching spwr_battery_set_alarm from the alarm file
  EventKinds,   \* SUBSET {"BIX", "BST", "ADAPTER"}: events the EC sends
  Fallible,     \* SUBSET {"ec", "psy", "notif", "file"}: calls that may fail
  MaxEnv,       \* bound on battery attach/detach steps of the EC
  MaxEvents,    \* bound on events delivered to spwr_notify_bat
  MaxResumes,   \* bound on system resumes
  MaxUser,      \* bound on user-space property reads and alarm writes
  MaxProbes     \* bound on probe attempts

ASSUME UnitOf \in [Bix \cup {ZeroBix} -> {0, 1}]
ASSUME WarnOf \in [Bix \cup {ZeroBix} -> Nat]
ASSUME EventKinds \subseteq {"BIX", "BST", "ADAPTER"}
ASSUME Fallible \subseteq {"ec", "psy", "notif", "file"}

EVT == "evt"
WQ  == "wq"
PM  == "pm"
USR == "usr"
DRV == "drv"
Threads == {EVT, WQ, PM, USR, DRV}
NoOne == "none"

\* SAM_BATTERY_POWER_UNIT_MA selects spwr_battery_props_chg, else _eng.
SAM_BATTERY_POWER_UNIT_MA == 1
PropsFor(unit) == IF unit = SAM_BATTERY_POWER_UNIT_MA THEN "chg" ELSE "eng"

VARIABLES
  ec,       \* the EC: [ok, present, bix, btp] (sta OK bits, pack, trip point)
  sta,      \* bat->sta & SAM_BATTERY_STA_PRESENT
  bix,      \* bat->bix
  hot,      \* bat->timestamp set and still inside cache_time
  alarm,    \* bat->alarm
  lock,     \* owner of bat->lock
  work,     \* bat->update_work: "idle" or "pending" (queued, not yet run)
  notif,    \* bat->notif registered with the controller
  psy,      \* registered power supply: "none", "chg" or "eng" property table
  file,     \* the alarm attribute exists
  dev,      \* driver-core view: "unbound", "probing", "bound", "removing"
  pc,       \* program counter of each context
  loc,      \* locals: [present, unit] of spwr_battery_recheck, [val] of store
  status,   \* the status the running function will return: "ok" or "err"
  n,        \* budget counters
  alarmDue, \* history: bat->sta went absent->present, no trip point written
            \* since, and no absent sta seen since
  torn      \* history: a teardown step ran on an object already torn down

vars == <<ec, sta, bix, hot, alarm, lock, work, notif, psy, file, dev, pc,
          loc, status, n, alarmDue, torn>>
bat  == <<sta, bix, hot, alarm, lock, work, notif, psy, file>>

Outcome(k) == IF k \in Fallible THEN BOOLEAN ELSE {TRUE}
Idle(t) == pc[t] = "idle"
Goto(t, l) == pc' = [pc EXCEPT ![t] = l]
Spend(c) == n' = [n EXCEPT ![c] = @ + 1]
NoLocals == [present |-> FALSE, unit |-> 0, val |-> 0]
\* The locals of t die when its function returns.
Drop(t) == loc' = [loc EXCEPT ![t] = NoLocals]
Warn == WarnOf[bix]
\* bat->alarm only ever holds zero, a design_cap_warn or a stored value.
AlarmRange == {0} \cup AlarmValues \cup {WarnOf[x] : x \in Bix \cup {ZeroBix}}

\* bat->sta loaded from the EC by spwr_battery_load_sta.
LoadSta(v) ==
  /\ sta' = v
  /\ alarmDue' = (v /\ (alarmDue \/ ~sta))

\* Trip point written to the EC by ssam_bat_set_btp (when ok).
WriteBtp(v, ok) ==
  /\ ec' = IF ok THEN [ec EXCEPT !.btp = v] ELSE ec
  /\ alarmDue' = (alarmDue /\ ~ok)

TypeOK ==
  /\ ec \in [ok : BOOLEAN, present : BOOLEAN, bix : Bix, btp : Nat]
  /\ sta \in BOOLEAN /\ hot \in BOOLEAN /\ notif \in BOOLEAN
  /\ file \in BOOLEAN /\ alarmDue \in BOOLEAN /\ torn \in BOOLEAN
  /\ bix \in Bix \cup {ZeroBix}
  /\ alarm \in AlarmRange
  /\ loc \in [Threads -> [present : BOOLEAN, unit : {0, 1}, val : AlarmRange]]
  /\ lock \in Threads \cup {NoOne}
  /\ work \in {"idle", "pending"}
  /\ psy \in {"none", "chg", "eng"}
  /\ dev \in {"unbound", "probing", "bound", "removing"}
  /\ status \in [Threads -> {"ok", "err"}]
  /\ n \in [{"env", "evt", "pm", "usr", "probe"} -> Nat]

Init ==
  /\ \E ok \in BOOLEAN, p \in BOOLEAN, b \in Bix :
        ec = [ok |-> ok, present |-> p, bix |-> b, btp |-> 0]
  /\ sta = FALSE /\ bix = ZeroBix /\ hot = FALSE /\ alarm = 0
  /\ lock = NoOne /\ work = "idle" /\ notif = FALSE /\ psy = "none"
  /\ file = FALSE /\ dev = "unbound"
  /\ pc = [t \in Threads |-> "idle"]
  /\ loc = [t \in Threads |-> NoLocals]
  /\ status = [t \in Threads |-> "ok"]
  /\ n = [c \in {"env", "evt", "pm", "usr", "probe"} |-> 0]
  /\ alarmDue = FALSE /\ torn = FALSE

-----------------------------------------------------------------------------
(* The EC and time.                                                        *)

EcAttach(b) ==
  /\ ~ec.present /\ n.env < MaxEnv
  /\ ec' = [ec EXCEPT !.present = TRUE, !.bix = b]
  /\ Spend("env")
  /\ UNCHANGED <<bat, dev, pc, loc, status, alarmDue, torn>>

EcDetach ==
  /\ ec.present /\ n.env < MaxEnv
  /\ ec' = [ec EXCEPT !.present = FALSE]
  /\ Spend("env")
  /\ UNCHANGED <<bat, dev, pc, loc, status, alarmDue, torn>>

\* jiffies passes bat->timestamp + cache_time.
CacheExpire ==
  /\ hot /\ hot' = FALSE
  /\ UNCHANGED <<ec, sta, bix, alarm, lock, work, notif, psy, file, dev, pc,
                 loc, status, n, alarmDue, torn>>

-----------------------------------------------------------------------------
(* spwr_battery_update_bst(bat, cached) as one locked section: load_sta,   *)
(* then load_bst if present, then the timestamp.  For t # USR the caller   *)
(* (spwr_notify_bst, the work function) then calls power_supply_changed.   *)
UpdateBst(t, cached) ==
  /\ lock = NoOne
  /\ IF cached /\ hot
       THEN UNCHANGED <<sta, hot, alarmDue>>
       ELSE \E okSta \in Outcome("ec"), okBst \in Outcome("ec") :
              LET present == IF okSta THEN ec.present ELSE sta
              IN /\ LoadSta(present)
                 /\ hot' = (hot \/ (okSta /\ (~present \/ okBst)))

spwr_notify_bst(t) ==
  /\ pc[t] = "bst"
  /\ UpdateBst(t, FALSE)
  /\ Goto(t, "idle")
  /\ UNCHANGED <<ec, bix, alarm, lock, work, notif, psy, file, dev, loc,
                 status, n, torn>>

spwr_battery_get_property ==
  /\ Idle(USR) /\ psy # "none" /\ n.usr < MaxUser
  /\ UpdateBst(USR, TRUE)
  /\ Spend("usr")
  /\ UNCHANGED <<ec, bix, alarm, lock, work, notif, psy, file, dev, pc, loc,
                 status, torn>>

\* Mutant: the value stored without the division by 1000.
spwr_battery_alarm_store_raw(v) ==
  /\ Idle(USR) /\ file /\ n.usr < MaxUser
  /\ IF sta THEN /\ Goto(USR, "store")
                 /\ loc' = [loc EXCEPT ![USR].val = v * 1000]
            ELSE UNCHANGED <<pc, loc>>
  /\ Spend("usr")
  /\ UNCHANGED <<ec, bat, dev, status, alarmDue, torn>>

\* spwr_battery_alarm_store: kstrtoul, value / 1000 (AlarmValues are the
\* quotients), then the unlocked spwr_battery_present check.
spwr_battery_alarm_store(v) ==
  /\ Idle(USR) /\ file /\ n.usr < MaxUser
  /\ IF sta THEN /\ Goto(USR, "store")
                 /\ loc' = [loc EXCEPT ![USR].val = v]
            ELSE UNCHANGED <<pc, loc>>
  /\ Spend("usr")
  /\ UNCHANGED <<ec, bat, dev, status, alarmDue, torn>>

\* ... then spwr_battery_set_alarm under the lock.
spwr_battery_set_alarm ==
  /\ pc[USR] = "store" /\ lock = NoOne
  /\ alarm' = loc[USR].val
  /\ \E ok \in Outcome("ec") : WriteBtp(loc[USR].val, ok)
  /\ Goto(USR, "idle") /\ Drop(USR)
  /\ UNCHANGED <<sta, bix, hot, lock, work, notif, psy, file, dev,
                 status, n, torn>>

-----------------------------------------------------------------------------
(* spwr_notify_bat: the handler the controller calls for an event.  An     *)
(* adapter event is handled for every battery: spwr_notify_adapter_bat     *)
(* reads bix/bst without the lock and, if remaining_cap >= last_full_cap   *)
(* (an unconstrained data comparison here), queues the delayed work.      *)
spwr_notify_bat(e) ==
  /\ Idle(EVT) /\ notif /\ e \in EventKinds /\ n.evt < MaxEvents
  /\ Spend("evt")
  /\ CASE e = "ADAPTER" ->
            /\ \E full \in BOOLEAN :
                 work' = IF full THEN "pending" ELSE work
            /\ UNCHANGED <<pc, loc>>
       [] e = "BIX" -> Goto(EVT, "rc_read") /\ UNCHANGED <<work, loc>>
       [] e = "BST" -> Goto(EVT, "bst") /\ UNCHANGED <<work, loc>>
  /\ UNCHANGED <<ec, sta, bix, hot, alarm, lock, notif, psy, file, dev,
                 status, alarmDue, torn>>

\* spwr_battery_update_bst_workfn picks the queued work up.
spwr_battery_update_bst_workfn ==
  /\ Idle(WQ) /\ work = "pending"
  /\ work' = "idle"
  /\ Goto(WQ, "bst")
  /\ UNCHANGED <<ec, sta, bix, hot, alarm, lock, notif, psy, file, dev, loc,
                 status, n, alarmDue, torn>>

surface_sam_sid_battery_resume ==
  /\ Idle(PM) /\ Idle(DRV) /\ dev = "bound" /\ n.pm < MaxResumes
  /\ Goto(PM, "rc_read")
  /\ Spend("pm")
  /\ UNCHANGED <<ec, bat, dev, loc, status, alarmDue, torn>>

-----------------------------------------------------------------------------
(* spwr_battery_recheck(bat), run by EVT (spwr_notify_bix) and PM.         *)

\* Read present and power_unit without the lock.
spwr_battery_recheck_read(t) ==
  /\ pc[t] = "rc_read"
  /\ loc' = [loc EXCEPT ![t] = [@ EXCEPT !.present = sta,
                                         !.unit = UnitOf[bix]]]
  /\ Goto(t, "rc_sta")
  /\ UNCHANGED <<ec, bat, dev, status, n, alarmDue, torn>>

\* spwr_battery_update_bix: lock, load_sta ...
spwr_battery_update_bix_sta(t) ==
  /\ pc[t] = "rc_sta" /\ lock = NoOne
  /\ \E ok \in Outcome("ec") :
       IF ok THEN /\ LoadSta(ec.present) /\ lock' = t
                  /\ Goto(t, "rc_bix") /\ UNCHANGED status
             ELSE /\ Goto(t, "rc_done") /\ UNCHANGED <<sta, lock, alarmDue>>
                  /\ status' = [status EXCEPT ![t] = "err"]
  /\ UNCHANGED <<ec, bix, hot, alarm, work, notif, psy, file, dev, loc, n,
                 torn>>

\* ... load_bix and load_bst if present, timestamp, unlock.
LoadBixBst(okBix, okBst) ==
  /\ bix' = IF sta /\ okBix THEN ec.bix ELSE bix
  /\ hot' = (hot \/ ~sta \/ (okBix /\ okBst))
BixLoaded(okBix, okBst) == ~sta \/ (okBix /\ okBst)

\* Mutant: mutex_unlock missing after the update.
spwr_battery_update_bix_rest_nounlock(t) ==
  /\ pc[t] = "rc_bix"
  /\ \E okBix \in Outcome("ec"), okBst \in Outcome("ec") :
       /\ LoadBixBst(okBix, okBst)
       /\ IF BixLoaded(okBix, okBst)
            THEN Goto(t, "rc_alarm") /\ UNCHANGED status
            ELSE Goto(t, "rc_done") /\ status' = [status EXCEPT ![t] = "err"]
  /\ UNCHANGED <<ec, sta, alarm, lock, work, notif, psy, file, dev, loc, n,
                 alarmDue, torn>>

spwr_battery_update_bix_rest(t) ==
  /\ pc[t] = "rc_bix"
  /\ \E okBix \in Outcome("ec"), okBst \in Outcome("ec") :
       /\ LoadBixBst(okBix, okBst)
       /\ IF BixLoaded(okBix, okBst)
            THEN Goto(t, "rc_alarm") /\ UNCHANGED status
            ELSE Goto(t, "rc_done") /\ status' = [status EXCEPT ![t] = "err"]
  /\ lock' = NoOne
  /\ UNCHANGED <<ec, sta, alarm, work, notif, psy, file, dev, loc, n, alarmDue,
                 torn>>

\* If the battery has been attached, (re-)initialise the alarm.
spwr_battery_recheck_alarm(t) ==
  /\ pc[t] = "rc_alarm"
  /\ IF ~loc[t].present /\ sta
       THEN /\ lock = NoOne
            /\ alarm' = Warn
            /\ \E ok \in Outcome("ec") :
                 /\ WriteBtp(Warn, ok)
                 /\ IF ok THEN Goto(t, "rc_unit") /\ UNCHANGED status
                          ELSE /\ Goto(t, "rc_done")
                               /\ status' = [status EXCEPT ![t] = "err"]
       ELSE Goto(t, "rc_unit") /\ UNCHANGED <<alarm, ec, alarmDue, status>>
  /\ UNCHANGED <<sta, bix, hot, lock, work, notif, psy, file, dev, loc, n,
                 torn>>

\* Mutant: the re-add branch dropped.
spwr_battery_recheck_unit_noreadd(t) ==
  /\ pc[t] = "rc_unit"
  /\ Goto(t, "rc_done")
  /\ UNCHANGED <<ec, bat, dev, loc, status, n, alarmDue, torn>>

\* If the unit has changed, re-add the battery: unregister, then register.
spwr_battery_recheck_unit(t) ==
  /\ pc[t] = "rc_unit"
  /\ Goto(t, IF loc[t].unit # UnitOf[bix] THEN "un_notif" ELSE "rc_done")
  /\ UNCHANGED <<ec, bat, dev, loc, status, n, alarmDue, torn>>

\* Return of spwr_battery_recheck; spwr_notify_bix calls
\* power_supply_changed on success, resume returns the status.
spwr_battery_recheck_done(t) ==
  /\ pc[t] = "rc_done"
  /\ Goto(t, "idle") /\ Drop(t)
  /\ status' = [status EXCEPT ![t] = "ok"]
  /\ UNCHANGED <<ec, bat, dev, n, alarmDue, torn>>

-----------------------------------------------------------------------------
(* spwr_battery_register(bat, ...), run by DRV (probe) and by a recheck    *)
(* that re-adds the battery.  The first update_bix runs without the lock.  *)

\* Leave spwr_battery_register with status ok/err: probe returns it to the
\* driver core (a failed probe frees the devm-allocated device); a recheck
\* returns it.
RegisterReturn(t, ok) ==
  IF t = DRV
    THEN /\ Goto(t, "idle")
         /\ dev' = IF ok THEN "bound" ELSE "unbound"
         /\ UNCHANGED status
    ELSE /\ Goto(t, "rc_done")
         /\ status' = [status EXCEPT ![t] = IF ok THEN "ok" ELSE "err"]
         /\ UNCHANGED dev

\* ssam_bat_get_sta into a local; -ENODEV unless the OK bits are all set.
spwr_battery_register_sta(t) ==
  /\ pc[t] = "reg_sta"
  /\ \E ok \in Outcome("ec") :
       IF ok /\ ec.ok THEN Goto(t, "reg_load_sta") /\ UNCHANGED <<dev, status>>
                      ELSE RegisterReturn(t, FALSE)
  /\ UNCHANGED <<ec, bat, loc, n, alarmDue, torn>>

spwr_battery_register_load_sta(t) ==
  /\ pc[t] = "reg_load_sta"
  /\ \E ok \in Outcome("ec") :
       IF ok THEN /\ LoadSta(ec.present)
                  /\ Goto(t, "reg_load_bix") /\ UNCHANGED <<dev, status>>
             ELSE RegisterReturn(t, FALSE) /\ UNCHANGED <<sta, alarmDue>>
  /\ UNCHANGED <<ec, bix, hot, alarm, lock, work, notif, psy, file, loc, n,
                 torn>>

spwr_battery_register_load_bix(t) ==
  /\ pc[t] = "reg_load_bix"
  /\ \E okBix \in Outcome("ec"), okBst \in Outcome("ec") :
       /\ LoadBixBst(okBix, okBst)
       /\ IF BixLoaded(okBix, okBst)
            THEN Goto(t, "reg_alarm") /\ UNCHANGED <<dev, status>>
            ELSE RegisterReturn(t, FALSE)
  /\ UNCHANGED <<ec, sta, alarm, lock, work, notif, psy, file, loc, n, alarmDue,
                 torn>>

\* If present: spwr_battery_set_alarm_unlocked(bat, design_cap_warn).
spwr_battery_register_alarm(t) ==
  /\ pc[t] = "reg_alarm"
  /\ IF sta
       THEN /\ alarm' = Warn
            /\ \E ok \in Outcome("ec") :
                 /\ WriteBtp(Warn, ok)
                 /\ IF ok THEN Goto(t, "reg_psy") /\ UNCHANGED <<dev, status>>
                          ELSE RegisterReturn(t, FALSE)
       ELSE Goto(t, "reg_psy") /\ UNCHANGED <<alarm, ec, alarmDue, dev, status>>
  /\ UNCHANGED <<sta, bix, hot, lock, work, notif, psy, file, loc, n, torn>>

\* Property table from power_unit, mutex_init, INIT_DELAYED_WORK,
\* power_supply_register (err_psy: mutex_destroy, return).
spwr_battery_register_psy(t) ==
  /\ pc[t] = "reg_psy"
  /\ \E ok \in Outcome("psy") :
       IF ok THEN /\ psy' = PropsFor(UnitOf[bix]) /\ work' = "idle"
                  /\ Goto(t, "reg_notif") /\ UNCHANGED <<dev, status>>
             ELSE RegisterReturn(t, FALSE) /\ UNCHANGED <<psy, work>>
  /\ UNCHANGED <<ec, sta, bix, hot, alarm, lock, notif, file, loc, n, alarmDue,
                 torn>>

\* ssam_notifier_register (err_notif: power_supply_unregister, ...).
spwr_battery_register_notif(t) ==
  /\ pc[t] = "reg_notif"
  /\ \E ok \in Outcome("notif") :
       IF ok THEN /\ notif' = TRUE /\ UNCHANGED psy
                  /\ Goto(t, "reg_file") /\ UNCHANGED <<dev, status>>
             ELSE /\ psy' = "none" /\ UNCHANGED notif
                  /\ RegisterReturn(t, FALSE)
  /\ UNCHANGED <<ec, sta, bix, hot, alarm, lock, work, file, loc, n, alarmDue,
                 torn>>

\* device_create_file for the alarm attribute.
spwr_battery_register_file(t) ==
  /\ pc[t] = "reg_file"
  /\ \E ok \in Outcome("file") :
       IF ok THEN /\ file' = TRUE
                  /\ RegisterReturn(t, TRUE)
             ELSE /\ Goto(t, "reg_err_file") /\ UNCHANGED <<file, dev, status>>
  /\ UNCHANGED <<ec, sta, bix, hot, alarm, lock, work, notif, psy, loc, n,
                 alarmDue, torn>>

\* Mutant: err_file without ssam_notifier_unregister.
spwr_battery_register_err_file_nounreg(t) ==
  /\ pc[t] = "reg_err_file"
  /\ psy' = "none"
  /\ RegisterReturn(t, FALSE)
  /\ UNCHANGED <<ec, sta, bix, hot, alarm, lock, work, notif, file, loc, n,
                 alarmDue, torn>>

\* err_file: ssam_notifier_unregister, which returns only when no handler
\* of the notifier is running; err_notif: power_supply_unregister; err_psy.
spwr_battery_register_err_file(t) ==
  /\ pc[t] = "reg_err_file"
  /\ Idle(EVT)
  /\ notif' = FALSE /\ psy' = "none"
  /\ RegisterReturn(t, FALSE)
  /\ UNCHANGED <<ec, sta, bix, hot, alarm, lock, work, file, loc, n, alarmDue,
                 torn>>

-----------------------------------------------------------------------------
(* spwr_battery_unregister(bat), run by DRV (remove) and by a recheck.     *)
(* Each call waits for the callbacks it retires: the notifier's handler,   *)
(* the running work item, the sysfs/power-supply callers.                  *)

UnregisterNext(t) == IF t = DRV THEN "remove_done" ELSE "reg_sta"

\* Mutant: the notifier removed without waiting for a running handler.
spwr_battery_unregister_notif_nowait(t) ==
  /\ pc[t] = "un_notif"
  /\ notif' = FALSE
  /\ torn' = (torn \/ ~notif)
  /\ Goto(t, "un_work")
  /\ UNCHANGED <<ec, sta, bix, hot, alarm, lock, work, psy, file, dev, loc,
                 status, n, alarmDue>>

spwr_battery_unregister_notif(t) ==
  /\ pc[t] = "un_notif"
  /\ Idle(EVT)
  /\ notif' = FALSE
  /\ torn' = (torn \/ ~notif)
  /\ Goto(t, "un_work")
  /\ UNCHANGED <<ec, sta, bix, hot, alarm, lock, work, psy, file, dev, loc,
                 status, n, alarmDue>>

\* Mutant: cancel_delayed_work, which does not wait for a running instance.
spwr_battery_unregister_work_nosync(t) ==
  /\ pc[t] = "un_work"
  /\ work' = "idle"
  /\ Goto(t, "un_psy")
  /\ UNCHANGED <<ec, sta, bix, hot, alarm, lock, notif, psy, file, dev, loc,
                 status, n, alarmDue, torn>>

\* cancel_delayed_work_sync(&bat->update_work)
spwr_battery_unregister_work(t) ==
  /\ pc[t] = "un_work"
  /\ Idle(WQ)
  /\ work' = "idle"
  /\ Goto(t, "un_psy")
  /\ UNCHANGED <<ec, sta, bix, hot, alarm, lock, notif, psy, file, dev, loc,
                 status, n, alarmDue, torn>>

\* device_remove_file, power_supply_unregister, mutex_destroy.
spwr_battery_unregister_psy(t) ==
  /\ pc[t] = "un_psy"
  /\ Idle(USR)
  /\ file' = FALSE /\ psy' = "none"
  /\ torn' = (torn \/ psy = "none")
  /\ Goto(t, UnregisterNext(t))
  /\ UNCHANGED <<ec, sta, bix, hot, alarm, lock, work, notif, dev, loc,
                 status, n, alarmDue>>

-----------------------------------------------------------------------------
(* The driver core.                                                        *)

\* ssam_client_bind: -ENXIO becomes -EPROBE_DEFER; otherwise a zeroed
\* spwr_battery_device is allocated and registered.
surface_sam_sid_battery_probe ==
  /\ Idle(DRV) /\ dev = "unbound" /\ n.probe < MaxProbes
  /\ Spend("probe")
  /\ \/ UNCHANGED <<bat, dev, pc>>
     \/ /\ sta' = FALSE /\ bix' = ZeroBix /\ hot' = FALSE /\ alarm' = 0
        /\ lock' = NoOne /\ work' = "idle" /\ notif' = FALSE
        /\ psy' = "none" /\ file' = FALSE
        /\ dev' = "probing"
        /\ Goto(DRV, "reg_sta")
  /\ UNCHANGED <<ec, loc, status, alarmDue, torn>>

\* Remove and the PM callbacks are serialised by the device lock.
surface_sam_sid_battery_remove ==
  /\ Idle(DRV) /\ Idle(PM) /\ dev = "bound"
  /\ dev' = "removing"
  /\ Goto(DRV, "un_notif")
  /\ UNCHANGED <<ec, bat, loc, status, n, alarmDue, torn>>

surface_sam_sid_battery_remove_done ==
  /\ pc[DRV] = "remove_done"
  /\ dev' = "unbound"
  /\ Goto(DRV, "idle")
  /\ UNCHANGED <<ec, bat, loc, status, n, alarmDue, torn>>

-----------------------------------------------------------------------------
Recheck(t) ==
  \/ spwr_battery_recheck_read(t)
  \/ spwr_battery_update_bix_sta(t)
  \/ spwr_battery_update_bix_rest(t)
  \/ spwr_battery_recheck_alarm(t)
  \/ spwr_battery_recheck_unit(t)
  \/ spwr_battery_recheck_done(t)

Register(t) ==
  \/ spwr_battery_register_sta(t)
  \/ spwr_battery_register_load_sta(t)
  \/ spwr_battery_register_load_bix(t)
  \/ spwr_battery_register_alarm(t)
  \/ spwr_battery_register_psy(t)
  \/ spwr_battery_register_notif(t)
  \/ spwr_battery_register_file(t)
  \/ spwr_battery_register_err_file(t)

Unregister(t) ==
  \/ spwr_battery_unregister_notif(t)
  \/ spwr_battery_unregister_work(t)
  \/ spwr_battery_unregister_psy(t)

\* One step of context t (fairness is stated per context).
Step(t) ==
  \/ t \in {EVT, PM} /\ (Recheck(t) \/ Register(t) \/ Unregister(t))
  \/ t \in {EVT, WQ} /\ spwr_notify_bst(t)
  \/ t = WQ /\ spwr_battery_update_bst_workfn
  \/ t = USR /\ spwr_battery_set_alarm
  \/ t = DRV /\ (Register(t) \/ Unregister(t)
                 \/ surface_sam_sid_battery_remove_done)

Environment ==
  \/ \E b \in Bix : EcAttach(b)
  \/ EcDetach
  \/ CacheExpire
  \/ \E e \in {"BIX", "BST", "ADAPTER"} : spwr_notify_bat(e)
  \/ surface_sam_sid_battery_resume
  \/ spwr_battery_get_property
  \/ \E v \in AlarmValues : spwr_battery_alarm_store(v)
  \/ surface_sam_sid_battery_probe
  \/ surface_sam_sid_battery_remove

Next == Environment \/ \E t \in Threads : Step(t)

\* A context that has started a call keeps running it (the kernel schedules
\* every runnable thread; bat->lock is a sleeping mutex that is handed to
\* waiters, so a waiter that keeps finding it free eventually gets it).
Fairness == \A t \in Threads : SF_vars(Step(t))

Spec == Init /\ [][Next]_vars /\ Fairness

-----------------------------------------------------------------------------
(* Properties.                                                             *)

Quiescent == \A t \in Threads : Idle(t)

\* Once probe has failed or remove has returned, the devm-allocated device
\* is freed: the delayed work must be neither queued nor running, or
\* spwr_battery_update_bst_workfn runs on freed memory.  Queued by an
\* adapter event, cancelled only by spwr_battery_unregister.
WorkGoneWhenFreed == dev = "unbound" => (work = "idle" /\ Idle(WQ))

\* Once the device is freed no notifier is registered and no handler is
\* running: ssam_notifier_unregister precedes the free on every path
\* (remove, err_file), and the controller never calls spwr_notify_bat again.
NotifierGoneWhenFreed == dev = "unbound" => (~notif /\ Idle(EVT))

\* spwr_battery_unregister never tears down a notifier or power supply that
\* is already gone (a double unregister / use after free); a recheck whose
\* re-add failed leaves the battery unregistered while still bound.
TeardownOnce == ~torn

\* When nothing is running, the registered power supply uses the property
\* table (charge or energy) of the power unit in bat->bix: the point of the
\* "re-add the battery" branch of spwr_battery_recheck.
PropsMatchUnit ==
  (Quiescent /\ psy # "none") => psy = PropsFor(UnitOf[bix])

\* "if battery has been attached, (re-)initialize alarm": when the alarm
\* step of spwr_battery_recheck completes, no attach the driver has seen
\* (bat->sta absent -> present) is still without a trip point.  The step
\* decides from `present`, read before the update; a BST event or a
\* property read may already have loaded the new sta.
AlarmInitialisedOnAttach ==
  [][\A t \in {EVT, PM} :
       (pc[t] = "rc_alarm" /\ pc'[t] = "rc_unit") => ~alarmDue']_vars

\* Every call the driver has started returns: event handlers, the work
\* item, resume, probe and remove never block forever.
CallsReturn == \A t \in Threads : ~Idle(t) ~> Idle(t)

====
