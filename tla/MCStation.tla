----------------------------- MODULE MCStation -----------------------------
(* A station that records without an operator: the instance TLC checks of    *)
(* SentryStrategy and of Camera, which it records from.  The strategy's      *)
(* frames carry nothing, so the two run side by side.                        *)
EXTENDS SentryStrategy, Camera

VARIABLE part  (* what runs: "strategy" or "camera"                          *)

StationInit == Init /\ CameraInit /\ part \in {"strategy", "camera"}

StrategyStep == part = "strategy" /\ Next /\ UNCHANGED <<part, cameraVars>>
CameraStep   == part = "camera" /\ CameraNext /\ UNCHANGED <<part, vars>>

StationNext == StrategyStep \/ CameraStep

StationSpec ==
  /\ StationInit /\ [][StationNext]_<<part, vars, cameraVars>>
  /\ part = "strategy" => Fairness

=============================================================================
