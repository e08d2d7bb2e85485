----------------------- MODULE MC_SurfaceSidBatteryAlarm -----------------------
(* Writes of 5000 uWh (an ordinary alarm) and of a string kstrtoul        *)
(* rejects; warning capacities of 3000 and 4500 mWh.  MCWideInputs adds    *)
(* 2147484000 uWh (the first whole mWh whose product with 1000 passes     *)
(* INT_MAX) and 1000 * 2^32 + 5000 uWh (a quotient that does not fit the   *)
(* u32 parameter).                                                         *)
EXTENDS SurfaceSidBatteryAlarm

MCInputs == {<<5000, 0, 0, 0>>, Bad}
\* 2147484000 = 0x80000260; 1000 * 2^32 + 5000 = 0x3E8_00001388.
MCWideInputs == MCInputs \cup {<<608, 32768, 0, 0>>, <<5000, 0, 1000, 0>>}
MCWarnVals == {<<3000, 0>>, <<4500, 0>>}
====
