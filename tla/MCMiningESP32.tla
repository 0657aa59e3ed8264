---------------------------- MODULE MCMiningESP32 ----------------------------
(* MiningESP32 for TLC: the cores are interchangeable. *)
EXTENDS MiningESP32, TLC

CONSTANTS core0, core1

Symmetry == Permutations({core0, core1})

=============================================================================
