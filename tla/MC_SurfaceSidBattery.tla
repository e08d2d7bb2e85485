------------------------- MODULE MC_SurfaceSidBattery -------------------------
EXTENDS SurfaceSidBattery

CONSTANTS b1, b2, z

MCBix == {b1, b2}
\* Every pack reports the unit of the zeroed _BIX (0, energy).
MCUnitSame == [x \in {b1, b2, z} |-> 0]
\* Pack b2 reports SAM_BATTERY_POWER_UNIT_MA.
MCUnitMixed == [x \in {b1, b2, z} |-> IF x = b2 THEN 1 ELSE 0]
MCWarn == [x \in {b1, b2, z} |-> IF x = b1 THEN 1 ELSE IF x = b2 THEN 2 ELSE 0]
====
