---------------------------- MODULE MC_MsiAlloc ----------------------------
(***************************************************************************)
(* Instantiation of MsiAlloc for TLC.                                      *)
(***************************************************************************)
EXTENDS MsiAlloc, TLC

CONSTANTS d1, d2, t1, t2

\* Two devices sharing the MSI domain, one lifecycle thread each
TwoDevices  == {d1, d2}
TwoThreads  == {t1, t2}
DevPerThread == (t1 :> d1) @@ (t2 :> d2)

\* One device, two threads allocating and freeing concurrently
OneDevice   == {d1}
SameDevice  == (t1 :> d1) @@ (t2 :> d1)

\* One device and one caller mixing the descriptor API with the allocator
OneThread   == {t1}
OnlyT1      == t1 :> d1

Slots       == 1..3
HwirqSpace  == 0..3
Requests    == {1, 2, 3, 33}
=============================================================================
