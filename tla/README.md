# TLA+ models of the Surface Aggregator power, thermal and debug clients

This directory holds TLA+ models of the client drivers in `src/`. They are checked with TLC.

## 1. The system and its parts

The Surface System Aggregator Module (SSAM) is an embedded controller (EC). The host talks to it through a serial protocol. `spec.md` describes the SSAM core: the controller, the request multiplexer, event registration and dispatch, and client device lifecycle. That core is **not** part of `src/`. The code under `src/` is made of clients of that core, plus one debug interface:

| part | source | what it does |
|---|---|---|
| battery driver | `src/module/src/clients/surface_sam_sid_power.c` 1-1045 (`spwr_battery_*`, `surface_sam_sid_battery_*`) | It registers a `power_supply` for a battery channel and an `alarm` sysfs file. It subscribes to BIX (static info), BST (status) and adapter events. It keeps cached EC data (`sta`, `bix`, `bst`, `alarm`) under `bat->lock`. A BIX event rechecks the battery: it reloads data, re-initialises the alarm when the battery was attached, and re-adds the power supply when the power unit (mA or mW) changed. Adapter events queue a delayed `update_work`. |
| AC driver | same file (`spwr_ac_*`, `surface_sam_sid_ac_*`) | An AC `power_supply` that reads the power source on adapter events. Its notifier has the same priority (1) as the battery's. |
| power property conversions | same file, `spwr_battery_prop_*` and `get_property` | u32 arithmetic from the EC's fields to power_supply values (`*1000`, capacity percent). |
| surface_temp hwmon | same file, 1054-1275 | Probe reads a sensor mask, then the name of each sensor using `ssam_retry`. Read converts deci-Kelvin to milli-Celsius. |
| surface_thermal zone | `src/module/src/clients/surface_thermal.c` | One tripless thermal zone per sensor instance. The instance is checked against the mask with `BIT(instance-1)`. |
| SSH debug sysfs | `src/module/surfacegen5_acpi_ssh_sysfs.c` | A binary attribute `rqst`. A write sends a raw request. A read returns the last response. Three static buffers with no lock. |
| ssam-modprobe | `src/scripts/ssam-modprobe` | A shell script that loads or unloads the modules in dependency order. |

How the parts interact:
- The battery and AC drivers receive events from the SSAM dispatcher through notifier callbacks.
- They issue synchronous requests through the core's `submit`, and each request can fail. SsamRequest models, from spec.md, what happens inside `submit`: sequence numbers, retransmission over a lossy link, and the lifecycle.
- Userspace calls `get_property` and `alarm_store` from arbitrary threads.
- PM resume and platform remove come from the driver core and are serialised by the device lock.
- The delayed work runs on the system workqueue.
- The thermal and hwmon drivers share no memory. Both read the EC's sensor mask and address its sensors, so the two views must agree.

So up to five activities touch one battery concurrently: the event handler, the work item, PM resume, a user call, and the driver core's probe and remove.

## 2. Modules

### SurfaceSidBattery (the battery driver) and MC_SurfaceSidBattery

**State.**
- `sta`, `bix`, `alarm`, `lock`, `work`, `notif`, `psy`, `file` mirror the fields of `struct spwr_battery_device` and the objects it registers.
  - `bix` is a model value standing for a battery. Its power unit is `UnitOf[bix]` and its warning capacity is `WarnOf[bix]`.
  - `psy` records which property table was registered: `chg` for mA, `eng` for mW.
- `hot` is the BST cache, either valid or expired.
- `ec` is the EC's side: whether a battery is present, which one, the last alarm it was sent (`btp`), and whether requests succeed.
- `dev` is the platform device: unbound, probing, bound or removing. "unbound" after a bind means devm memory has been freed.
- Each thread has a program counter `pc[t]`, locals `loc[t]` (the `present` and `unit` the recheck sampled, the alarm value being stored), and the `status` of its nested register call.
- `n` counts what the environment has done.
- Two history variables:
  - `alarmDue` is true while the EC has seen a battery attach and has not yet been sent its alarm.
  - `torn` records a teardown of something already torn down.

**Threads.**

| thread | source activity |
|---|---|
| `evt` | the notifier callback `spwr_notify_bat` |
| `wq` | `spwr_battery_update_bst_workfn` |
| `pm` | `surface_sam_sid_battery_resume` |
| `usr` | `get_property` and `alarm_store` |
| `drv` | probe and remove |

**Actions.** Each function becomes an action, or a chain of actions at the points where another thread can interleave: a lock acquisition, a release, or a wait.
- `spwr_battery_recheck` is split into:
  - `_read`, which samples without the lock;
  - `_update_bix_sta`, which takes the lock and loads sta;
  - `_update_bix_rest`, which loads bix and bst and unlocks;
  - `_alarm`;
  - `_unit`;
  - `_done`.
- `spwr_battery_register` is split into one action per step. Each step's error path jumps to the code's unwind label.
- `spwr_battery_unregister` is split into three actions:
  - `_notif` blocks until no handler runs;
  - `_work` is `cancel_delayed_work_sync`, which blocks until the work has finished;
  - `_psy` is `power_supply_unregister`, which blocks until running property calls have drained.
- Every request that can fail is drawn from `Outcome(kind)`. `Fallible` selects which kinds of request can fail in a run.

**Spec-modelled SSAM core.** These behaviours come from `spec.md`:
- `ssam_notifier_unregister` waits for running handlers.
- A request fails with an error and leaves the target unchanged.
- `ssam_client_bind` may defer the probe.

### SshSysfs (the debug passthrough) and MC_SshSysfs

**State.**
- `bufSysfs`, `bufPld` and the response buffer are the static arrays at lines 8-10. They are functions from byte indices starting at 0, like the C arrays.
- `attr` records whether the attribute is registered.
- `sent` is the last request handed to `surfacegen5_ec_rqst`.
- `answer` is the last response the EC gave successfully.
- `rd` is the result of the last read.
- `oob` is a history variable: the set of buffers some call wrote outside their bounds.

**Actions.** Each of `rqst_read` and `rqst_write` is one action.
- `rqst_write` covers the whole function:
  - the offset and size check;
  - the `buf[4] + 5 != count` check, as `Accepts`;
  - the payload memcpy;
  - the EC call, which either succeeds with any response up to `result.cap` or fails;
  - the length byte, the response memcpy and the padding memset.
- The kernfs layer calls these functions. It is not in this repository. Two of its behaviours matter here:
  - it clamps `count` to the attribute size of line 66 (`Clamp`);
  - it passes the written bytes in a `kmalloc(count + 1)` buffer with a NUL at `[count]` (`WriteByte`).
- A byte beyond that NUL is uninitialised memory: undefined behaviour. The model chooses it from `Garbage`, the signed char values such a byte can hold.
- spec.md says the endpoint has "no concurrency support", so calls are atomic.

**Bounds.**
- `MAX_RESPONSE = 5` and `MAX_PAYLOAD = 1`. These are the smallest values at which a full request (5 header bytes plus payload) fits the attribute.
- Writes are every byte string over `{0, 1}` of every length up to the attribute size.
- Responses are every length from 0 to 5.

### SurfaceSidPowerEvents (event routing and the AC driver) and MC_SurfaceSidPowerEvents

This module puts the battery notifiers and the whole AC driver on one dispatch chain of the SSAM event dispatcher.

**Spec-modelled dispatcher (spec.md §4.4).**
- An event's chain is every registration of its registry.
- Handlers are called in descending priority. The first "handled" result ends its priority tier, and dispatch continues with the next tier.
- spec.md leaves the order inside a tier open, so `ssam_event_call(x)` may pick any notifier of the highest remaining priority.
- All three notifiers have priority 1 (`Prio`, lines 800 and 885) and register for instance 0. That instance id only enables the event on the EC. The handlers filter channel and instance themselves; under an exact instance match, no battery event (instance 1) would ever reach them.
- `ssam_notifier_unregister` removes the notifier from the chain being walked, and waits while its handler runs (`ACRunning`).
- Duplicate suppression of sequenced events is not modelled. Every event here is delivered once.

**State.**
- Dispatch: `reg` (the registered notifiers), `ev` (the event), `todo` (the notifiers still to call) and `epc` (the event worker's step).
- Two history variables: `called` holds the handlers this dispatch invoked, and `stayed` the notifiers registered since it began.
- The AC device: `dpc` (probe and remove steps), `acLock` (`ac->lock`), `acState` (`ac->state`) and `acPsy` (the supply is registered).
- The user thread in `spwr_ac_get_property` has its step in `upc`.
- `psrc` is the EC's power source.

**Actions.**
- `spwr_notify_bat` is a pure operator. It says whether the battery returns HANDLED, and its side effects are those of SurfaceSidBattery.
- The AC handler is three steps: take the lock, request PSRC into `ac->state` and unlock, then `power_supply_changed`.
- `surface_sam_sid_ac_probe` and `spwr_ac_register` are one action per step, with the `err_notif` and `err_psy` paths. `spwr_ac_register_err_notif` and `spwr_ac_unregister_psy` wait until no `get_property` call is in flight, as `power_supply_unregister` drains sysfs readers.
- Battery notifier registration and removal are single steps here.

### SurfaceSidAcSupply (the abstract AC supply)

This module states what the AC driver promises, with no threads, locks or notifiers:
- the supply is registered and unregistered;
- a new device's state is zeroed memory (`Alloc`), and the supply is only registered over a zeroed state;
- `ac->state` is only rewritten (`Refresh`) while the supply is registered, and then with the EC's current answer.

SurfaceSidPowerEvents instantiates it as `AcSupply == INSTANCE SurfaceSidAcSupply WITH present <- acPsy, online <- acState`, and power_main checks `AcRefines == AcSupply!Spec`.

### SurfaceTemp (the thermal-zone and hwmon drivers) and MC_SurfaceTemp

Both drivers read the EC's 16-bit sensor mask and address the same sensors, with two index conventions:
- surface_thermal has one device per hub instance and checks `BIT(instance - 1)`; its zone reads iid `instance` (`ThermalHasSensor`, `TzIid`);
- surface_temp has one device with 16 channels; channel `c` is visible when `BIT(c)` is set, and it reads and names sensor `c + 1` (`Visible`, `HwIid`, `Label`).

The state is `tpc`/`tzs` (each thermal device's probe step and its zone), `hpc`, `hwChan`, `names` and `hwSensors` (the hwmon probe, its name loop and `struct ssam_temp`), and `n`, a bound on probes. The thermal probe is three actions: the checks and allocation, zone registration, and enable with `err_enable`. Remove is one more action. The hwmon probe is the mask request with the allocation, one action per loop iteration, and the registration. The driver has no remove, so unbinding is the devm release. Every SSAM request and registration may fail (`Fallible`). The mask and the names are constants; reading a temperature changes no state.

MC_SurfaceTemp: the EC reports sensors 1 and 3 (bits 0 and 2), and the hub creates instances 0-3. That gives the hub instance, one instance without a sensor and two with one. Five probes let both kinds of device fail, re-probe and bind.

### SurfaceSidBatteryAlarm (the alarm attribute's data path) and MC_SurfaceSidBatteryAlarm

SurfaceSidBattery abstracts the alarm to a few model values. This module keeps its arithmetic:
- `spwr_battery_alarm_store`: `kstrtoul` (the constant `Bad` for a string it rejects), the lockless present check, and `value / 1000` narrowed to the u32 parameter (`Div1000`, `Narrow`);
- `SetAlarm`: `spwr_battery_set_alarm` assigns `bat->alarm` before the BTP request, which may fail;
- `spwr_battery_recheck`: `_STA`, BIX and BST are loaded, each able to fail, and on attach the alarm is re-initialised to the warning capacity;
- `AlarmShown`: the int `sprintf("%d", bat->alarm * 1000)` prints (`Mul1000` in u32 arithmetic, then `AsInt`).

C values are wider than TLC's integers, so a number is a tuple of 16-bit limbs, least significant first: two for a u32, four for an unsigned long. `want` is the alarm, in mWh, of the last call that reported success. Each call is one step: the lock is SurfaceSidBattery's subject.

### SsamRequest (the request multiplexer) and SsamRequestSpec, MC_SsamRequest

This part is written from spec.md §4.2, §4.3, §4.5, §5 and §7, because the SSAM core is not in `src/`. Every map entry of the module is marked spec_modelled.

State:
- `ctl`: the controller's lifecycle state.
- `next`: the next sequence number, in `0..SeqMod-1`.
- Per caller: `st`, `seq`, `ack` (expects a response), `tries` and `res`.
- `wire`: the set of command and response frames in flight.

A caller is in one of four states:
- `idle`;
- `queued`: inside `submit`, with its frame waiting for the serialized write path;
- `wait`: the frame is written and the deadline is running;
- `done`: the answer is there, not yet taken.

`Pending(c)` is the PendingRequestEntry: queued or waiting, and expecting a response.

Actions:
- `submit`: fails fast outside `running` (`FailFast`). Otherwise it takes `next`, which must not be held by a pending entry (`SeqAvailable`), and advances it with `NextSeq`. spec.md §8's "no two pending requests share a sequence number" follows from this guard alone, because a pending entry's number never changes, so it is not stated as a property.
- `transmit`: writes the frame. A request expecting no response completes here.
- `timeout`: retransmits with the same number until `MaxRetries`, then fails with TimeoutError.
- `collect`: the caller takes its answer.
- `ec_receive`: the EC answers a command, a retransmitted one included.
- `lose`: a frame is lost or fails its checksum.
- `receive`: a response claims the pending entry with its number. The response length is chosen here, and one that is too long gives BufferTooSmall. A response no entry holds goes to the dispatcher.
- `start`, `suspend`, `resume`, `stop` and `transport_failure` change the lifecycle state; `FailAll` fails every outstanding call on the changes that require it.

A request that expects no response is not kept on the wire, because the EC's handling of it changes nothing the model observes.

SsamRequestSpec is what `submit` promises a client:
- a call is accepted or rejected at once;
- an accepted call gets exactly one answer, and a lifecycle change may answer all of them at once;
- the caller then takes the answer.

`RequestRefines` checks that SsamRequest implements SsamRequestSpec. The mapping sends `queued` and `wait` to `busy`.

MC_SsamRequest has two callers `c1` and `c2`, with these bounds:
- `SeqMod = 2`, so the numbers wrap after two requests;
- `MaxRetries = 1`;
- two calls per caller;
- two lifecycle changes.

These bounds give a call that keeps its number across a retransmission while the other caller's calls wrap onto that number. They also give suspend followed by resume, and a stop or link failure with calls outstanding.

## 3. Runs

The battery runs use `MC_SurfaceSidBattery`. It has two batteries, `b1` and `b2`, plus the zero BIX `z`:
- `MCUnitSame` gives both batteries the same unit.
- `MCUnitMixed` gives `b2` the other unit.
- The only alarm a user writes is 3.

Common bounds are `MaxEnv = 2` (EC attach/detach), `MaxEvents = 2` (1 in battery_main, whose liveness check is the costly one) and `MaxUser = 1`. EC request failures (`Fallible = {"ec"}`) are checked in battery_main, registration failures in battery_faults; both together make the state space too large for the time budget, so a probe that meets an EC failure and then a registration failure is not checked. These are enough for the scenarios that matter: a battery attached, an event, then a concurrent remove; or a detach and an attach of a battery of the other unit. A third event adds only repetitions.

| run | expect | properties | what it shows |
|---|---|---|---|
| battery_main | pass | WorkGoneWhenFreed, NotifierGoneWhenFreed, CallsReturn | Any EC request may fail, both packs are in one unit, and one event of any kind arrives. Remove never leaves work or a notifier behind, whatever races with it. Every handler, work item, PM callback, user call, probe and remove returns, despite the lock and the unregister waits. The liveness tableau limits this run to one event. |
| battery_faults | pass | TypeOK, NotifierGoneWhenFreed, PropsMatchUnit | `b2` is in the other unit, and power-supply, notifier and sysfs registration can fail, with two probes. The error paths never leave the notifier registered on freed memory. When a pack of the other unit is attached, the adapter/BST paths and the resume recheck end with the property table that matches the unit. |
| battery_err_file_work | violation | WorkGoneWhenFreed | **Bug.** The `err_file` path (line 902) does not cancel `update_work` that an adapter event queued after the notifier was registered. The work runs after the devm free. |
| battery_readd_failure | violation | TeardownOnce | **Bug.** A failing re-add in the recheck (line 393) leaves nothing registered, and remove unregisters it all a second time. |
| battery_recheck_partial | violation | PropsMatchUnit | **Bug.** An error after the new BIX is loaded (line 385) returns before the unit comparison. The mA/mW tables stay swapped for good. |
| battery_bix_unit_change | violation | CallsReturn | **Bug.** On a BIX event with a new unit, the handler unregisters its own notifier (line 392) and waits for itself. |
| battery_alarm_attach | violation | AlarmInitialisedOnAttach | **Bug.** The attach test samples `sta` before reloading (line 374). When `get_property` or a BST event saw the new battery first, the alarm is never re-initialised. |

The run of `MC_SshSysfs` follows. It uses the bounds above. `Garbage` is any signed char, including the values that make a short write pass the length check.

| run | expect | properties | what it shows |
|---|---|---|---|
| sysfs_main | pass | TypeOK, ReadsSeeLastResponse | Every accepted read returns the spec's image of the last successful response, whatever rejected or failed writes came in between. |

**Defects found while modelling, with no run.** Each shows in a single write, so no run is spent on them; `rqst_write` records both in `oob`.
- A 1-3 byte write whose stale `buf[4]` reads as `count - 5` passes the check at line 37. The memcpy at line 47 then copies a huge size.
- The padding memset (line 60) starts at `len + 1` and clears `MAX_RESPONSE + 1 - len` bytes, so it ends one byte past `sg5_ssh_debug_rqst_buf_sysfs` on every successful write. `MemsetEnd` gives the last byte it writes.

The bound check of `rqst_read` (line 16) also rejects every read that includes the attribute's last byte. The attribute is `MAX_RESPONSE + 1` bytes, so `cat` of the attribute fails with EINVAL, although spec.md says a read returns the padded response. The model keeps this as `rd.einval`. The first read of the attribute shows it, so no run is spent on it.

The runs of `MC_SurfaceSidPowerEvents` follow. `b1` and `b2` share the SAM registry and instance 1, and sit on channels 1 and 2, so only the channel check of `spwr_notify_bat` separates their events. The EC sends an adapter event (instance 0) or a BIX event for either battery, and `PsrcVals = {0, 1}`. In power_main, `Fallible` is every kind of request and registration the AC makes. There are two events, one EC change, one `get_property`, two AC probes, and two battery notifier registrations or removals. These bounds cover a remove racing a running handler or a `get_property` call, a failing probe with a call in flight, and a re-probe after remove.

| run | expect | properties | what it shows |
|---|---|---|---|
| power_main | pass | TypeOK, BatteryEventsReachOwner, AcRefines, AcCallsReturn | BIX events reach the battery they address, whichever handler the dispatcher calls first. The AC driver implements SurfaceSidAcSupply. Every dispatch, `get_property`, probe and remove returns. |
| power_adapter | violation | AdapterReachesAll | **Divergence from spec.md.** `spwr_notify_bat` returns HANDLED for every adapter event (line 463), and the AC and both batteries sit in one tier. Under §4.4's stop-at-handled policy, the first battery called hides the event from the other battery and from the AC, although the comment at line 460 says every instance must handle it. |

The run of `MC_SurfaceTemp`:

| run | expect | properties | what it shows |
|---|---|---|---|
| temp_main | pass | TypeOK, SensorViewsAgree, ZoneOwned | With the thermal and hwmon devices probing, failing at any step and unbinding in any order, every visible hwmon channel is labelled with the name of the sensor it reads. Every registered thermal zone reads a sensor the bound hwmon device shows, and no zone outlives a failed enable or a remove. |

The run of `MC_SsamRequest`:

| run | expect | properties | what it shows |
|---|---|---|---|
| ssam_main | pass | TypeOK, RequestRefines, SubmitReturns | The link may lose any frame, and suspend, resume, stop or link failure may happen at any time. Every accepted call is answered exactly once: a late or duplicate response, a timeout racing a response, and a lifecycle failure never answer a call twice. Every call returns. |

**Found while modelling, with no checked run.** These are not among the runs above. The cfgs on disk reproduce them with `tlc -config <cfg> <MC module>`.
- *SurfaceSidBatteryAlarm, `alarm_readback.cfg`, `AlarmReadsBack`.* This is a bug. `spwr_battery_set_alarm_unlocked` (line 277) assigns `bat->alarm` before the BTP request. A write whose request fails returns the error, yet the file then reads back the rejected value: 5000 instead of 3000000. The LOW test of `capacity_level` (line 591) uses the rejected value too. AlarmReadsBack also fails on wide values with no request failing:
  - a write of 2147484000 µWh reads back as -2147483296, because the u32 product is printed with `%d`;
  - a write of 1000 · 2^32 + 5000 µWh reads back as 5000, because the quotient is narrowed to u32.

  These values are `MCWideInputs`, with `Fallible = {}`. Each of these traces is one write deep.
- *SsamRequest, `ssam_stale_response.cfg`, `NoResponseBeforeSent`.* This is a gap in spec.md. §4.3 keeps a sequence number from reuse only until its entry retires, and an entry that timed out retires while the EC may still answer its command. TLC's 12-state trace:
  1. `c1` times out after its retransmission.
  2. `c1` and `c2` submit again, and `c2` gets number 0.
  3. The EC answers `c1`'s old command.
  4. That answer completes `c2`'s call before `c2`'s frame is written.

  In this code, `ssam_retry` (line 1234) retries a name request after such a timeout. The controller in the real kernel is not in this repository and may match responses on more than the sequence number, so this is not counted as a checked finding.

`CHECK_DEADLOCK FALSE` is set in temp_main and ssam_main because once the probe, call and lifecycle bounds are used up, every device and caller rests. It is also set in every battery cfg. The driver is reactive: once the bounded environment is used up and all threads are idle, the system waits for the next event. That is not a deadlock. Real blocking is what `CallsReturn` checks, in both directions: battery_main passes it, and battery_bix_unit_change finds the self-wait.

**Mutants.** Each property of a passing run is violated by a plausible bug in the code it guards:

| mutant | property it breaks |
|---|---|
| cancel without sync | WorkGoneWhenFreed |
| unregister without waiting for handlers | NotifierGoneWhenFreed |
| `update_bix` returning without unlock | CallsReturn |
| recheck not re-adding | PropsMatchUnit |
| alarm store without the `/1000` | TypeOK |
| `err_file` path not unregistering the notifier | NotifierGoneWhenFreed |
| padding starting at `len` instead of `len + 1` | ReadsSeeLastResponse |
| the length byte counting itself | TypeOK |
| AC notifier left on the chain being walked when unregistered | TypeOK (power) |
| `spwr_notify_bat` without the channel check | BatteryEventsReachOwner |
| AC notifier unregistered without waiting for its handler | AcRefines |
| `spwr_ac_get_property` error path without `mutex_unlock` | AcCallsReturn |
| hwmon name loop running to `channel <= 16` | TypeOK (temp) |
| thermal sensor check `BIT(instance)` without the `- 1` | SensorViewsAgree |
| `err_enable` returning without unregistering the zone | ZoneOwned |
| next sequence number not wrapped | TypeOK (ssam) |
| timer firing against an entry that is not waiting | RequestRefines |
| exhausted retries waiting on instead of failing | SubmitReturns |

## 4. Fairness

`Fairness` is strong fairness on each thread's step. The kernel eventually schedules every runnable thread. `mutex_lock` and the waits in unregister and drain are granted to a waiter once the resource becomes free, and it stays free while the waiter is runnable, even though it can be taken and released between. So a thread that is enabled infinitely often eventually moves. Weak fairness would allow a waiter to starve while another thread keeps retaking the lock, and the code does not allow that with a bounded number of callers. The environment (EC, user, events) has no fairness: it may stop at any time.

SurfaceSidPowerEvents uses the same rule, with one fairness condition per thread. The event worker is a workqueue item, the user thread is in a system call, and probe and remove run on the driver core. Each of them is eventually scheduled, and the lock or the unregister wait they block on is released by the others. The starts of probe, remove, events and user calls are environment steps without fairness. `CHECK_DEADLOCK FALSE` is set for the same reason as for the battery.

SsamRequest gives weak fairness to `transmit` and `timeout` of each caller. The serialized write path keeps writing queued frames, and a running timer fires while its entry waits. The link (`ec_receive`, `lose`, `receive`), the callers' new calls and `collect`, and the lifecycle have no fairness. So SubmitReturns holds even if the link loses every frame: the bounded retries end in TimeoutError.

## 5. Not modelled, and why

- The `get_property` conversions (capacity percent, the `*1000` fields, status, level, technology) are not modelled. spec.md puts unit conversion out of scope. The one overflow among them, `remaining_cap * 100` in u32 (line 574), needs a capacity above 42949672 mWh. The EC's "unknown" value 0xFFFFFFFF is above `last_full_cap` anyway, and it yields a meaningless percentage whether or not the product overflows.
- hwmon's `HWMON_C_REGISTER_TZ` has the hwmon core register a thermal zone per visible channel too, so each sensor has two zones. That is the hwmon core's behaviour, not code in `src/`.
- In the drivers, `ssam_retry` is modelled by its final outcome. The name request is a read, so a retry has no effect the model could tell apart there. What a retry after a timeout means for the multiplexer is SsamRequest's subject.
- SSAM core: only the parts the drivers depend on are modelled, from spec.md:
  - request failure;
  - notifier unregister waiting for handlers;
  - the event dispatcher.

  SsamRequest adds the request multiplexer, the write path, link loss and the lifecycle. The rest of the core is not modelled:
  - the frame codec (byte framing and resynchronisation): it is data formatting, and in the model a corrupt frame is a lost frame;
  - the link-level ACK of each frame;
  - the deduplication of sequenced events;
  - client bind/unbind reference counting.

  No code in `src/` depends on the inner steps of these parts.
- The battery side effects of `spwr_notify_bat` (update_work, rechecks) are left to SurfaceSidBattery. In SurfaceSidPowerEvents only its HANDLED result matters.
- Data is abstracted as follows:
  - BIX and BST contents are a model value per battery (its unit and warning capacity), not the packed structs;
  - `name`, `psy_desc` and logging are left out;
  - the BST cache deadline is the `CacheExpire` action, which may happen at any time.
- `spwr_notify_adapter_bat` reads `bix` and `bst` without the lock. This is modelled as a nondeterministic choice to queue the work or not, which covers every value the race can produce.
- `ssam-modprobe` is load/unload glue with no concurrency.
