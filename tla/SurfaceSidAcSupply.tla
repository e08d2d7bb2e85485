------------------------- MODULE SurfaceSidAcSupply -------------------------
(***************************************************************************)
(* What the AC driver of surface_sam_sid_power.c promises to the           *)
(* power_supply class, stated without threads, locks or notifiers: the    *)
(* "ADP0" supply appears and disappears, and the power source it caches   *)
(* (ac->state) is only ever rewritten while the supply is registered, and *)
(* then with what the EC reports at that moment.  While no supply is      *)
(* registered the only change is a new zeroed device (devm_kzalloc), and  *)
(* a supply is registered only over a zeroed state.                        *)
(***************************************************************************)
CONSTANT PsrcVals   \* values the EC's power-source query (PSRC) answers with

VARIABLES
    present,    \* the AC power_supply is registered
    online,     \* ac->state
    psrc        \* what the EC would answer to PSRC now

avars == <<present, online, psrc>>

Init ==
    /\ present = FALSE
    /\ online = 0
    /\ psrc \in PsrcVals

\* A new device: its state is zeroed memory.
Alloc ==
    /\ ~present
    /\ online' = 0
    /\ UNCHANGED <<present, psrc>>

Register ==
    /\ ~present
    /\ online = 0
    /\ present' = TRUE
    /\ UNCHANGED <<online, psrc>>

Unregister ==
    /\ present
    /\ present' = FALSE
    /\ UNCHANGED <<online, psrc>>

\* A successful PSRC request stores the EC's answer.
Refresh ==
    /\ present
    /\ online' = psrc
    /\ UNCHANGED <<present, psrc>>

EcChange ==
    /\ psrc' \in PsrcVals \ {psrc}
    /\ UNCHANGED <<present, online>>

Next == Alloc \/ Register \/ Unregister \/ Refresh \/ EcChange

Spec == Init /\ [][Next]_avars
====
