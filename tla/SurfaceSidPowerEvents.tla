------------------------ MODULE SurfaceSidPowerEvents ------------------------
(***************************************************************************)
(* Power events of surface_sam_sid_power.c as the SSAM event dispatcher    *)
(* delivers them: the battery notifiers (spwr_notify_bat) and the AC      *)
(* driver (the spwr_ac_ and surface_sam_sid_ac_ functions) on one chain.  *)
(*                                                                         *)
(* The dispatcher is not in this repository; it is modelled from spec.md  *)
(* section 4.4: the registrations matching the event's registry are       *)
(* called in descending priority, and within a priority tier the first    *)
(* "handled" result ends that tier.  spec.md leaves the order inside a    *)
(* tier open, so any order is possible.  A registration's instance id (0  *)
(* for all of these drivers) only enables the event on the EC: the        *)
(* handlers filter channel and instance themselves, and with an exact     *)
(* instance match no battery event (instance >= 1) would reach them.      *)
(*                                                                         *)
(* Threads: "evt" runs the dispatch and the handlers, "usr" calls         *)
(* spwr_ac_get_property, the AC device's probe and remove run on the      *)
(* driver-core thread (dpc).  Battery probe and remove are single steps   *)
(* here; their inner steps are in SurfaceSidBattery.                       *)
(***************************************************************************)
EXTENDS Integers, FiniteSets

CONSTANTS
    Bats,           \* battery devices
    RegOf,          \* p->registry of each battery
    ChanOf,         \* p->channel
    InstOf,         \* p->instance
    Events,         \* events the EC may send: [kind, reg, chan, inst]
    PsrcVals,       \* answers of the PSRC request
    Fallible,       \* which of "ec", "bind", "psy", "notif" may fail
    MaxEvents, MaxEnv, MaxUser, MaxProbes, MaxBatOps

AC == "ac"          \* the AC device's notifier
SAM == "sam"        \* SSAM_EVENT_REGISTRY_SAM
NoEvent == [kind |-> "none", reg |-> "none", chan |-> 0, inst |-> 0]

VARIABLES
    reg,        \* notifier blocks registered with the controller
    ev,         \* event being dispatched
    todo,       \* matching notifiers not yet called in this dispatch
    called,     \* notifiers whose handler this dispatch called
    stayed,     \* notifiers registered since this dispatch began
    epc,        \* "evt": idle, pick, or inside spwr_notify_ac
    upc,        \* "usr": idle, or inside spwr_ac_get_property
    dpc,        \* AC device: unbound, probing steps, bound, removing steps
    acLock,     \* owner of ac->lock
    acState,    \* ac->state, the cached power source
    acPsy,      \* ac->psy is registered
    psrc,       \* what the EC answers to PSRC now
    n           \* environment steps taken

vars == <<reg, ev, todo, called, stayed, epc, upc, dpc, acLock, acState,
          acPsy, psrc, n>>

Outcome(kind) == IF kind \in Fallible THEN BOOLEAN ELSE {TRUE}

\* Priority of every notifier block: notif.base.priority = 1 for both the
\* battery and the AC.
Prio(x) == 1

Registry(x) == IF x = AC THEN SAM ELSE RegOf[x]

TypeOK ==
    /\ reg \subseteq Bats \cup {AC}
    /\ ev \in Events \cup {NoEvent}
    /\ todo \subseteq reg
    /\ called \subseteq Bats \cup {AC}
    /\ epc \in {"idle", "pick", "ac_lock", "ac_update", "ac_changed"}
    /\ upc \in {"idle", "lock", "update"}
    /\ dpc \in {"unbound", "sta", "psy", "notif", "err_notif", "bound",
                "rm_notif", "rm_psy"}
    /\ acLock \in {"none", "evt", "usr"}
    /\ acState \in PsrcVals \cup {0}
    /\ acPsy \in BOOLEAN

Init ==
    /\ reg = {}
    /\ ev = NoEvent
    /\ todo = {}
    /\ called = {}
    /\ stayed = {}
    /\ epc = "idle"
    /\ upc = "idle"
    /\ dpc = "unbound"
    /\ acLock = "none"
    /\ acState = 0
    /\ acPsy = FALSE
    /\ psrc \in PsrcVals
    /\ n = [ev |-> 0, env |-> 0, usr |-> 0, probe |-> 0, bat |-> 0]

Count(k) == n' = [n EXCEPT ![k] = @ + 1]

-----------------------------------------------------------------------------
(* The handlers.                                                           *)

\* Mutant: the channel comparison is dropped.
spwr_notify_bat_nochan(b, e) ==
    \/ e.kind = "adapter"
    \/ e.inst = InstOf[b] /\ e.kind \in {"bix", "bst"}

\* Whether spwr_notify_bat returns SSAM_NOTIF_HANDLED for event e: adapter
\* events on every channel and instance (the delayed update_work it may
\* schedule is modelled in SurfaceSidBattery), BIX and BST only for the
\* battery's own channel and instance, anything else passes through.
spwr_notify_bat(b, e) ==
    \/ e.kind = "adapter"
    \/ e.chan = ChanOf[b] /\ e.inst = InstOf[b] /\ e.kind \in {"bix", "bst"}

\* The checks at the top of spwr_notify_ac: only adapter events of
\* instance 0 go on to spwr_notify_adapter_ac, the rest return 0.
spwr_notify_ac_takes(e) == e.inst = 0 /\ e.kind = "adapter"

\* What is left to call after notifier x returned: a handled result ends
\* x's priority tier.
AfterCall(x, handled) ==
    IF handled THEN {y \in todo \ {x} : Prio(y) # Prio(x)} ELSE todo \ {x}

\* spwr_notify_adapter_ac -> spwr_ac_update: mutex_lock(&ac->lock).
spwr_ac_update_lock ==
    /\ epc = "ac_lock"
    /\ acLock = "none"
    /\ acLock' = "evt"
    /\ epc' = "ac_update"
    /\ UNCHANGED <<reg, ev, todo, called, stayed, upc, dpc, acState, acPsy,
                   psrc, n>>

\* ssam_bat_get_psrc into ac->state, then mutex_unlock.  On an error the
\* handler returns errno | HANDLED without power_supply_changed.
spwr_ac_update_rqst ==
    /\ epc = "ac_update"
    /\ \E ok \in Outcome("ec") :
         /\ acState' = IF ok THEN psrc ELSE acState
         /\ acLock' = "none"
         /\ epc' = IF ok THEN "ac_changed" ELSE "pick"
         /\ todo' = IF ok THEN todo ELSE AfterCall(AC, TRUE)
    /\ UNCHANGED <<reg, ev, called, stayed, upc, dpc, acPsy, psrc, n>>

\* power_supply_changed(ac->psy), then return SSAM_NOTIF_HANDLED.
spwr_notify_adapter_ac_changed ==
    /\ epc = "ac_changed"
    /\ epc' = "pick"
    /\ todo' = AfterCall(AC, TRUE)
    /\ UNCHANGED <<reg, ev, called, stayed, upc, dpc, acLock, acState, acPsy,
                   psrc, n>>
-----------------------------------------------------------------------------
(* The dispatcher (spec.md 4.4, spec-modelled).                            *)

\* An event arrives: the registrations of its registry form the chain.
ssam_event_dispatch(e) ==
    /\ epc = "idle"
    /\ n.ev < MaxEvents
    /\ ev' = e
    /\ todo' = {x \in reg : Registry(x) = e.reg}
    /\ stayed' = todo'
    /\ called' = {}
    /\ epc' = "pick"
    /\ Count("ev")
    /\ UNCHANGED <<reg, upc, dpc, acLock, acState, acPsy, psrc>>

\* Call notifier x, one of the highest priority still to be called.
ssam_event_call(x) ==
    /\ epc = "pick"
    /\ x \in todo
    /\ \A y \in todo : Prio(y) <= Prio(x)
    /\ called' = called \cup {x}
    /\ \/ /\ x \in Bats
          /\ todo' = AfterCall(x, spwr_notify_bat(x, ev))
          /\ UNCHANGED epc
       \/ /\ x = AC
          /\ ~spwr_notify_ac_takes(ev)
          /\ todo' = AfterCall(AC, FALSE)
          /\ UNCHANGED epc
       \/ /\ x = AC
          /\ spwr_notify_ac_takes(ev)
          /\ epc' = "ac_lock"
          /\ UNCHANGED todo
    /\ UNCHANGED <<reg, ev, stayed, upc, dpc, acLock, acState, acPsy, psrc, n>>

\* The chain is exhausted.
ssam_event_done ==
    /\ epc = "pick"
    /\ todo = {}
    /\ epc' = "idle"
    /\ ev' = NoEvent
    /\ called' = {}
    /\ stayed' = {}
    /\ UNCHANGED <<reg, todo, upc, dpc, acLock, acState, acPsy, psrc, n>>

\* AC handler steps; ssam_notifier_unregister waits while one runs.
ACRunning == epc \in {"ac_lock", "ac_update", "ac_changed"}

\* A notifier leaves the chain, also the one being walked.
Unregistered(x) ==
    /\ reg' = reg \ {x}
    /\ todo' = todo \ {x}
    /\ stayed' = stayed \ {x}

-----------------------------------------------------------------------------
(* The battery notifiers: registered last in spwr_battery_register (its    *)
(* err_file path and spwr_battery_unregister remove it first).            *)

spwr_battery_register_notif(b) ==
    /\ b \notin reg
    /\ n.bat < MaxBatOps
    /\ reg' = reg \cup {b}
    /\ Count("bat")
    /\ UNCHANGED <<ev, todo, called, stayed, epc, upc, dpc, acLock, acState,
                   acPsy, psrc>>

spwr_battery_unregister_notif(b) ==
    /\ b \in reg
    /\ n.bat < MaxBatOps
    /\ Unregistered(b)
    /\ Count("bat")
    /\ UNCHANGED <<ev, called, epc, upc, dpc, acLock, acState, acPsy, psrc>>

-----------------------------------------------------------------------------
(* spwr_ac_get_property, called by userspace on the registered supply.     *)
(* power_supply_unregister drains calls in flight.                         *)

spwr_ac_get_property_call ==
    /\ upc = "idle"
    /\ acPsy
    /\ n.usr < MaxUser
    /\ upc' = "lock"
    /\ Count("usr")
    /\ UNCHANGED <<reg, ev, todo, called, stayed, epc, dpc, acLock, acState,
                   acPsy, psrc>>

spwr_ac_get_property_lock ==
    /\ upc = "lock"
    /\ acLock = "none"
    /\ acLock' = "usr"
    /\ upc' = "update"
    /\ UNCHANGED <<reg, ev, todo, called, stayed, epc, dpc, acState, acPsy,
                   psrc, n>>

\* Mutant: the error path returns without mutex_unlock.
spwr_ac_get_property_nounlock ==
    /\ upc = "update"
    /\ \E ok \in Outcome("ec") :
         /\ acState' = IF ok THEN psrc ELSE acState
         /\ acLock' = IF ok THEN "none" ELSE acLock
    /\ upc' = "idle"
    /\ UNCHANGED <<reg, ev, todo, called, stayed, epc, dpc, acPsy, psrc, n>>

\* spwr_ac_update_unlocked, the ONLINE case (state == 1) or the error,
\* and the mutex_unlock at out:.
spwr_ac_get_property_update ==
    /\ upc = "update"
    /\ \E ok \in Outcome("ec") : acState' = IF ok THEN psrc ELSE acState
    /\ acLock' = "none"
    /\ upc' = "idle"
    /\ UNCHANGED <<reg, ev, todo, called, stayed, epc, dpc, acPsy, psrc, n>>

-----------------------------------------------------------------------------
(* The AC device: surface_sam_sid_ac_probe/remove with spwr_ac_register    *)
(* and spwr_ac_unregister, one action per step another thread can see.    *)

UnchangedDispatch == UNCHANGED <<ev, todo, called, stayed, epc>>

\* ssam_client_bind (-ENXIO becomes -EPROBE_DEFER) and devm_kzalloc: on
\* failure the probe ends; on success ac is fresh zeroed memory.
surface_sam_sid_ac_probe ==
    /\ dpc = "unbound"
    /\ n.probe < MaxProbes
    /\ \E ok \in Outcome("bind") :
         /\ dpc' = IF ok THEN "sta" ELSE "unbound"
         /\ acState' = IF ok THEN 0 ELSE acState
    /\ Count("probe")
    /\ UnchangedDispatch
    /\ UNCHANGED <<reg, upc, acLock, acPsy, psrc>>

\* ssam_bat_get_sta and the SAM_BATTERY_STA_OK check (-ENODEV), one
\* outcome: either failure returns before anything is set up.
spwr_ac_register_sta ==
    /\ dpc = "sta"
    /\ \E ok \in Outcome("ec") : dpc' = IF ok THEN "psy" ELSE "unbound"
    /\ UnchangedDispatch
    /\ UNCHANGED <<reg, upc, acLock, acState, acPsy, psrc, n>>

\* mutex_init, power_supply_register; err_psy: mutex_destroy.
spwr_ac_register_psy ==
    /\ dpc = "psy"
    /\ \E ok \in Outcome("psy") :
         /\ acPsy' = ok
         /\ dpc' = IF ok THEN "notif" ELSE "unbound"
    /\ acLock' = "none"
    /\ UnchangedDispatch
    /\ UNCHANGED <<reg, upc, acState, psrc, n>>

\* ssam_notifier_register; on failure to err_notif.
spwr_ac_register_notif ==
    /\ dpc = "notif"
    /\ \E ok \in Outcome("notif") :
         /\ reg' = IF ok THEN reg \cup {AC} ELSE reg
         /\ dpc' = IF ok THEN "bound" ELSE "err_notif"
    /\ UnchangedDispatch
    /\ UNCHANGED <<upc, acLock, acState, acPsy, psrc, n>>

\* err_notif: power_supply_unregister, which waits for get_property calls
\* in flight; then mutex_destroy and the probe fails.
spwr_ac_register_err_notif ==
    /\ dpc = "err_notif"
    /\ upc = "idle"
    /\ acPsy' = FALSE
    /\ dpc' = "unbound"
    /\ UnchangedDispatch
    /\ UNCHANGED <<reg, upc, acLock, acState, psrc, n>>

surface_sam_sid_ac_remove ==
    /\ dpc = "bound"
    /\ dpc' = "rm_notif"
    /\ UnchangedDispatch
    /\ UNCHANGED <<reg, upc, acLock, acState, acPsy, psrc, n>>

\* Mutant: the notifier is taken off the controller's list only, not off
\* the chain being walked.
spwr_ac_unregister_notif_keep ==
    /\ dpc = "rm_notif"
    /\ ~ACRunning
    /\ reg' = reg \ {AC}
    /\ stayed' = stayed \ {AC}
    /\ dpc' = "rm_psy"
    /\ UNCHANGED <<ev, todo, called, epc, upc, acLock, acState, acPsy, psrc, n>>

\* Mutant: the notifier is unregistered without waiting for its handler.
spwr_ac_unregister_notif_nowait ==
    /\ dpc = "rm_notif"
    /\ Unregistered(AC)
    /\ dpc' = "rm_psy"
    /\ UNCHANGED <<ev, called, epc, upc, acLock, acState, acPsy, psrc, n>>

\* ssam_notifier_unregister: waits for a running AC handler.
spwr_ac_unregister_notif ==
    /\ dpc = "rm_notif"
    /\ ~ACRunning
    /\ Unregistered(AC)
    /\ dpc' = "rm_psy"
    /\ UNCHANGED <<ev, called, epc, upc, acLock, acState, acPsy, psrc, n>>

\* power_supply_unregister (drains get_property), mutex_destroy; remove
\* returns and devm frees ac.
spwr_ac_unregister_psy ==
    /\ dpc = "rm_psy"
    /\ upc = "idle"
    /\ acPsy' = FALSE
    /\ dpc' = "unbound"
    /\ UnchangedDispatch
    /\ UNCHANGED <<reg, upc, acLock, acState, psrc, n>>

\* The EC's power source changes (adapter plugged or pulled).
ec_psrc_change ==
    /\ n.env < MaxEnv
    /\ psrc' \in PsrcVals \ {psrc}
    /\ Count("env")
    /\ UnchangedDispatch
    /\ UNCHANGED <<reg, upc, dpc, acLock, acState, acPsy>>

-----------------------------------------------------------------------------
EvtStep ==
    \/ \E x \in Bats \cup {AC} : ssam_event_call(x)
    \/ ssam_event_done
    \/ spwr_ac_update_lock
    \/ spwr_ac_update_rqst
    \/ spwr_notify_adapter_ac_changed

UsrStep == spwr_ac_get_property_lock \/ spwr_ac_get_property_update

DrvStep ==
    \/ spwr_ac_register_sta
    \/ spwr_ac_register_psy
    \/ spwr_ac_register_notif
    \/ spwr_ac_register_err_notif
    \/ spwr_ac_unregister_notif
    \/ spwr_ac_unregister_psy

Env ==
    \/ \E e \in Events : ssam_event_dispatch(e)
    \/ \E b \in Bats : spwr_battery_register_notif(b)
    \/ \E b \in Bats : spwr_battery_unregister_notif(b)
    \/ spwr_ac_get_property_call
    \/ surface_sam_sid_ac_probe
    \/ surface_sam_sid_ac_remove
    \/ ec_psrc_change

Next == EvtStep \/ UsrStep \/ DrvStep \/ Env

\* The workqueue running the dispatch, the user thread and the driver core
\* are each eventually scheduled, and a released ac->lock or a finished
\* handler is eventually seen by its waiter: strong fairness per thread.
Fairness == SF_vars(EvtStep) /\ SF_vars(UsrStep) /\ SF_vars(DrvStep)

Spec == Init /\ [][Next]_vars /\ Fairness

-----------------------------------------------------------------------------
(* Properties                                                              *)

\* The chain of the current event has been walked to its end.
Dispatched == epc = "pick" /\ todo = {}

\* The battery an event addresses by registry, channel and instance.
Owns(b, e) == e.reg = RegOf[b] /\ e.chan = ChanOf[b] /\ e.inst = InstOf[b]

\* A BIX or BST event reaches the handler of the battery it is addressed
\* to whenever that battery's notifier stayed registered: no other battery
\* and not the AC (all in the same priority tier) returns HANDLED for it
\* (the channel and instance checks of spwr_notify_bat, the instance and
\* command checks of spwr_notify_ac).
BatteryEventsReachOwner ==
    Dispatched /\ ev.kind \in {"bix", "bst"} =>
        \A b \in stayed \cap Bats : Owns(b, ev) => b \in called

\* The comment in spwr_notify_bat: adapter events need to be handled for
\* all channels and instances.  Every notifier registered throughout the
\* dispatch of an adapter event has its handler called: the AC updates its
\* power source, every battery may schedule its update_work.
AdapterReachesAll ==
    Dispatched /\ ev.kind = "adapter" => stayed \subseteq called

\* The AC driver implements SurfaceSidAcSupply: ac->state is zeroed when
\* the device is allocated, the supply is registered with that zero, and
\* the state is only rewritten while the supply is registered, with the
\* EC's answer (remove unregisters the notifier, waiting for the handler,
\* before the supply; power_supply_unregister drains get_property).
AcSupply == INSTANCE SurfaceSidAcSupply
                WITH present <- acPsy, online <- acState

AcRefines == AcSupply!Spec

\* Every dispatch, every get_property call and every probe or remove of
\* the AC eventually returns, despite ac->lock and the unregister waits.
AcCallsReturn ==
    /\ epc # "idle" ~> epc = "idle"
    /\ upc # "idle" ~> upc = "idle"
    /\ dpc \notin {"unbound", "bound"} ~> dpc \in {"unbound", "bound"}
====
