----------------------------- MODULE MCDucoESP32 -----------------------------
(* DucoESP32 for TLC: two cores, as on the ESP32 and the ESP32-S3. *)
EXTENDS DucoESP32

=============================================================================
