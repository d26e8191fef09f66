------------------------------- MODULE MC_Imsic -------------------------------
(* Instantiates Imsic for TLC: the QEMU virt value of riscv,num-ids (63,   *)
(* so the second EIP word is partial), MSIs on ids 5 and 31 (bit 31 of     *)
(* word 0, the sign bit) and 33 (word 1).                                  *)
EXTENDS Imsic, TLC

CONSTANTS c1, c2

NumIds63 == 63
Ids == {5, 31, 33}
OneCpu == {c1}
TwoCpus == {c1, c2}
Thresholds == {0, 32}
=============================================================================
