--------------------- MODULE MC_SurfaceSidPowerEvents ---------------------
(***************************************************************************)
(* Two batteries on the SAM registry, in one instance and on channels 1   *)
(* and 2, so only spwr_notify_bat's channel check tells their BIX and BST *)
(* events apart; the AC on the same registry.  The EC sends an adapter    *)
(* event (instance 0) or a BIX event of either battery.                   *)
(***************************************************************************)
EXTENDS SurfaceSidPowerEvents, TLC

CONSTANTS b1, b2

MCBats == {b1, b2}
MCRegOf == [b \in MCBats |-> "sam"]
MCChanOf == (b1 :> 1) @@ (b2 :> 2)
MCInstOf == [b \in MCBats |-> 1]

MCEvents ==
    { [kind |-> "adapter", reg |-> "sam", chan |-> 1, inst |-> 0] } \cup
    { [kind |-> "bix", reg |-> "sam", chan |-> MCChanOf[b], inst |-> 1] :
        b \in MCBats }
====
