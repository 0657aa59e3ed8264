------------------------------ MODULE MCSensors ------------------------------
(* Sensors for TLC. *)
EXTENDS Sensors

=============================================================================
