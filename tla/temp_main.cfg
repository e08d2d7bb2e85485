\* Thermal zones and the hwmon device over the same EC sensor mask, with
\* every step that can fail failing.
CONSTANTS
    Mask <- MCMask
    NameOf <- MCNameOf
    Instances <- MCInstances
    Fallible = {"ec", "mem", "tz", "enable", "hwmon"}
    MaxProbes = 5
SPECIFICATION Spec
INVARIANTS
    TypeOK
    SensorViewsAgree
    ZoneOwned
CHECK_DEADLOCK FALSE
