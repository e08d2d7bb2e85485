----------------------------- MODULE SurfaceTemp -----------------------------
(***************************************************************************)
(* The two drivers of the EC's temperature sensors (target category TMP):  *)
(*  - surface_thermal.c: one ssam device per sensor instance; probe checks *)
(*    the sensor against the EC's 16-bit sensor mask with                 *)
(*    BIT(instance - 1) and registers and enables a tripless thermal zone *)
(*    that reads the temperature of that instance;                        *)
(*  - surface_temp (the hwmon part of surface_sam_sid_power.c): one hub   *)
(*    device; probe reads the same mask, fetches the name of every        *)
(*    present sensor with ssam_retry, and registers an hwmon device whose *)
(*    channel c is visible when BIT(channel) is set and reads sensor      *)
(*    c + 1.                                                               *)
(* Both read the same EC mask and address the same sensors with two index *)
(* conventions.  The EC's mask and sensor names are constants; reading a  *)
(* temperature changes no driver state and appears in the properties as   *)
(* the sensor a read addresses.                                           *)
(***************************************************************************)
EXTENDS Integers

CONSTANTS
    Mask,           \* bits set in the EC's available-sensors mask
    NameOf,         \* name the EC gives sensor iid (name_rsp.name)
    Instances,      \* instance ids of the TMP devices the hub creates
    Fallible,       \* which of "ec", "mem", "tz", "enable", "hwmon" may fail
    MaxProbes       \* probes of all devices together

\* SSAM_TMP_SENSOR_MAX_COUNT: the hwmon driver's channels.
SSAM_TMP_SENSOR_MAX_COUNT == 16
Chans == 0..SSAM_TMP_SENSOR_MAX_COUNT - 1
NoName == "none"    \* a zeroed names[] entry

ASSUME Mask \subseteq Chans /\ DOMAIN NameOf = {c + 1 : c \in Mask}

VARIABLES
    tpc,        \* thermal device of each instance: idle, register, enable, bound
    tzs,        \* its thermal zone: none, registered, enabled
    hpc,        \* hwmon device: idle, names (the name loop), bound
    hwChan,     \* the name loop's channel
    names,      \* ssam_temp->names
    hwSensors,  \* ssam_temp->sensors
    n           \* probes so far

vars == <<tpc, tzs, hpc, hwChan, names, hwSensors, n>>

Outcome(kind) == IF kind \in Fallible THEN BOOLEAN ELSE {TRUE}

TypeOK ==
    /\ tpc \in [Instances -> {"idle", "register", "enable", "bound"}]
    /\ tzs \in [Instances -> {"none", "registered", "enabled"}]
    /\ hpc \in {"idle", "names", "bound"}
    /\ hwChan \in 0..SSAM_TMP_SENSOR_MAX_COUNT
    /\ names \in [Chans -> {NoName} \cup {NameOf[i] : i \in DOMAIN NameOf}]
    /\ hwSensors \subseteq Chans
    /\ n \in 0..MaxProbes

Init ==
    /\ tpc = [i \in Instances |-> "idle"]
    /\ tzs = [i \in Instances |-> "none"]
    /\ hpc = "idle"
    /\ hwChan = 0
    /\ names = [c \in Chans |-> NoName]
    /\ hwSensors = {}
    /\ n = 0

-----------------------------------------------------------------------------
(* surface_thermal.c                                                       *)

\* Mutant: the sensor bit tested without the - 1.
ThermalHasSensor_noshift(i) == i \in Mask

\* sensors & BIT(sdev->uid.instance - 1).
ThermalHasSensor(i) == (i - 1) \in Mask

\* The iid ssam_tmp_get_temperature asks for on behalf of zone i.
TzIid(i) == i

UnchangedHwmon == UNCHANGED <<hpc, hwChan, names, hwSensors>>

\* ssam_thermal_sensor_probe up to the zone registration: instance 0 is
\* the hub (-ENODEV), the mask request, the bit check (-ENODEV) and the
\* devm_kzalloc of the sensor (-ENOMEM) end the probe.
ssam_thermal_sensor_probe(i) ==
    /\ tpc[i] = "idle"
    /\ n < MaxProbes
    /\ \E ok \in Outcome("ec"), mem \in Outcome("mem") :
         tpc' = [tpc EXCEPT ![i] =
                   IF i # 0 /\ ok /\ ThermalHasSensor(i) /\ mem
                   THEN "register" ELSE "idle"]
    /\ n' = n + 1
    /\ UNCHANGED tzs
    /\ UnchangedHwmon

\* thermal_tripless_zone_device_register; on error the probe returns.
ssam_thermal_sensor_register(i) ==
    /\ tpc[i] = "register"
    /\ \E ok \in Outcome("tz") :
         /\ tzs' = [tzs EXCEPT ![i] = IF ok THEN "registered" ELSE "none"]
         /\ tpc' = [tpc EXCEPT ![i] = IF ok THEN "enable" ELSE "idle"]
    /\ UNCHANGED n
    /\ UnchangedHwmon

\* Mutant: err_enable returns without unregistering the zone.
ssam_thermal_sensor_enable_nounreg(i) ==
    /\ tpc[i] = "enable"
    /\ \E ok \in Outcome("enable") :
         /\ tzs' = [tzs EXCEPT ![i] = IF ok THEN "enabled" ELSE "registered"]
         /\ tpc' = [tpc EXCEPT ![i] = IF ok THEN "bound" ELSE "idle"]
    /\ UNCHANGED n
    /\ UnchangedHwmon

\* thermal_zone_device_enable and ssam_device_set_drvdata; err_enable
\* unregisters the zone.
ssam_thermal_sensor_enable(i) ==
    /\ tpc[i] = "enable"
    /\ \E ok \in Outcome("enable") :
         /\ tzs' = [tzs EXCEPT ![i] = IF ok THEN "enabled" ELSE "none"]
         /\ tpc' = [tpc EXCEPT ![i] = IF ok THEN "bound" ELSE "idle"]
    /\ UNCHANGED n
    /\ UnchangedHwmon

ssam_thermal_sensor_remove(i) ==
    /\ tpc[i] = "bound"
    /\ tzs' = [tzs EXCEPT ![i] = "none"]
    /\ tpc' = [tpc EXCEPT ![i] = "idle"]
    /\ UNCHANGED n
    /\ UnchangedHwmon

-----------------------------------------------------------------------------
(* surface_temp (hwmon)                                                    *)

UnchangedThermal == UNCHANGED <<tpc, tzs>>

\* ssam_tmp_get_available_sensors and the devm_kzalloc of ssam_temp: the
\* names start zeroed and the loop at channel 0.
ssam_temp_probe_sensors ==
    /\ hpc = "idle"
    /\ n < MaxProbes
    /\ \E ok \in Outcome("ec"), mem \in Outcome("mem") :
         hpc' = IF ok /\ mem THEN "names" ELSE "idle"
    /\ hwChan' = 0
    /\ names' = [c \in Chans |-> NoName]
    /\ hwSensors' = {}
    /\ n' = n + 1
    /\ UnchangedThermal

\* Mutant: the loop runs while channel <= SSAM_TMP_SENSOR_MAX_COUNT.
ssam_temp_probe_name_le ==
    /\ hpc = "names"
    /\ hwChan <= SSAM_TMP_SENSOR_MAX_COUNT
    /\ \/ /\ hwChan \notin Mask
          /\ hwChan' = hwChan + 1
          /\ UNCHANGED <<hpc, names>>
       \/ /\ hwChan \in Mask
          /\ \E ok \in Outcome("ec") :
               /\ hwChan' = IF ok THEN hwChan + 1 ELSE hwChan
               /\ names' = IF ok THEN [names EXCEPT ![hwChan] = NameOf[hwChan + 1]]
                           ELSE names
               /\ hpc' = IF ok THEN "names" ELSE "idle"
    /\ UNCHANGED <<hwSensors, n>>
    /\ UnchangedThermal

\* One iteration of the name loop: a channel not in the mask is skipped;
\* otherwise ssam_retry(__ssam_tmp_get_name, ..., channel + 1) either
\* fails (the probe returns, devm frees ssam_temp) or its name is copied
\* with strscpy into names[channel].
ssam_temp_probe_name ==
    /\ hpc = "names"
    /\ hwChan < SSAM_TMP_SENSOR_MAX_COUNT
    /\ \/ /\ hwChan \notin Mask
          /\ hwChan' = hwChan + 1
          /\ UNCHANGED <<hpc, names>>
       \/ /\ hwChan \in Mask
          /\ \E ok \in Outcome("ec") :
               /\ hwChan' = IF ok THEN hwChan + 1 ELSE hwChan
               /\ names' = IF ok THEN [names EXCEPT ![hwChan] = NameOf[hwChan + 1]]
                           ELSE names
               /\ hpc' = IF ok THEN "names" ELSE "idle"
    /\ UNCHANGED <<hwSensors, n>>
    /\ UnchangedThermal

\* After the loop: sdev and sensors are stored and the hwmon device is
\* registered; on error the probe returns.
ssam_temp_probe_register ==
    /\ hpc = "names"
    /\ hwChan = SSAM_TMP_SENSOR_MAX_COUNT
    /\ hwSensors' = Mask
    /\ \E ok \in Outcome("hwmon") : hpc' = IF ok THEN "bound" ELSE "idle"
    /\ UNCHANGED <<hwChan, names, n>>
    /\ UnchangedThermal

\* The driver has no remove: unbinding releases the devm hwmon device.
ssam_temp_unbind ==
    /\ hpc = "bound"
    /\ hpc' = "idle"
    /\ UNCHANGED <<hwChan, names, hwSensors, n>>
    /\ UnchangedThermal

\* ssam_temp_hwmon_is_visible: channel c shows when BIT(channel) is set.
Visible(c) == c \in hwSensors

\* The iid ssam_temp_hwmon_read asks for on channel c.
HwIid(c) == c + 1

\* ssam_temp_hwmon_read_string: the label of channel c.
Label(c) == names[c]

-----------------------------------------------------------------------------
Next ==
    \/ \E i \in Instances :
         \/ ssam_thermal_sensor_probe(i)
         \/ ssam_thermal_sensor_register(i)
         \/ ssam_thermal_sensor_enable(i)
         \/ ssam_thermal_sensor_remove(i)
    \/ ssam_temp_probe_sensors
    \/ ssam_temp_probe_name
    \/ ssam_temp_probe_register
    \/ ssam_temp_unbind

Spec == Init /\ [][Next]_vars

-----------------------------------------------------------------------------
(* Properties                                                              *)

\* The two drivers show the same sensors: every hwmon channel is labelled
\* with the name of the sensor its temperature is read from (the name
\* loop's channel + 1 and ssam_temp_hwmon_read's channel + 1), and the
\* sensor of every thermal zone (surface_thermal's BIT(instance - 1)
\* check) is one the hwmon device shows.
SensorViewsAgree ==
    hpc = "bound" =>
        /\ \A c \in Chans : Visible(c) => Label(c) = NameOf[HwIid(c)]
        /\ \A i \in Instances :
             tzs[i] # "none" => \E c \in Chans : Visible(c) /\ HwIid(c) = TzIid(i)

\* A thermal zone is registered only while its device is being probed or
\* is bound: a failed enable unregisters the zone (err_enable), remove
\* unregisters it.
ZoneOwned ==
    \A i \in Instances : tzs[i] # "none" => tpc[i] \in {"enable", "bound"}
====
