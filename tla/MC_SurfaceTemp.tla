---------------------------- MODULE MC_SurfaceTemp ----------------------------
(* The EC reports sensors 1 and 3 (mask bits 0 and 2); the hub creates    *)
(* TMP devices with instances 0 to 3, so one instance has no sensor, one  *)
(* is the hub's own instance and two have a sensor.                        *)
EXTENDS SurfaceTemp, TLC

MCMask == {0, 2}
MCNameOf == (1 :> "n1") @@ (3 :> "n3")
MCInstances == 0..3
====
