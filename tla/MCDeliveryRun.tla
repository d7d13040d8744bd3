----------------------------- MODULE MCDeliveryRun -----------------------------
(* Instances of DeliveryRun for TLC.                                       *)
EXTENDS DeliveryRun

(* One phase of each kind the orchestrator tells apart.                    *)
FivePhases == <<"implement", "resolve", "e2e", "review", "patch">>
=============================================================================
