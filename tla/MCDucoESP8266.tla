---------------------------- MODULE MCDucoESP8266 ----------------------------
(* DucoESP8266 for TLC. *)
EXTENDS DucoESP8266, TLC

Symmetry == Permutations(Nodes)

=============================================================================
