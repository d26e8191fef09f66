-------------------------------- MODULE Ffs --------------------------------
(***************************************************************************)
(* ffs() of lib/ffs.c (src/unnamed/part_000): 1 + the index of the lowest  *)
(* set bit of a C int, 0 for 0, by a halving scan over 16/8/4/2/1-bit      *)
(* windows.                                                                *)
(*                                                                         *)
(* An int is an integer in -2^31 .. 2^31-1; "i & mask" with mask = 2^w-1   *)
(* is i % 2^w (TLA+ % is the two's-complement low bits).  "i >>= w" on a   *)
(* negative int is implementation-defined: the build either shifts in the  *)
(* sign (arithmetic) or zeros (logical), so the shift is a parameter.      *)
(***************************************************************************)
EXTENDS Integers, SequencesExt

IntMin == -2147483647 - 1

ShiftModes == {"arithmetic", "logical"}

\* i >> w for a C int under either implementation of the shift (w >= 1)
Shr(v, w, mode) ==
  IF v >= 0 \/ mode = "arithmetic" THEN v \div 2^w
  ELSE ((v - IntMin) \div 2^w) + 2^(31 - w)

\* One window test of the scan:
\*   if ((i & (2^w - 1)) == 0) { n += w; i >>= w; }
\* (the last window, w = 1, does not shift; its shifted value is unused)
FfsStage(st, w, mode) ==
  IF st.i % 2^w = 0 THEN [i |-> Shr(st.i, w, mode), n |-> st.n + w]
  ELSE st

FfsWindows == <<16, 8, 4, 2, 1>>

\* Fault-injection variant of ffs: n starts at 0 (a 0-based index).
ffsZeroBased(x, mode) ==
  IF x = 0 THEN 0
  ELSE FoldLeft(LAMBDA st, w : FfsStage(st, w, mode),
                [i |-> x, n |-> 0], FfsWindows).n

ffs(x, mode) ==
  IF x = 0 THEN 0
  ELSE FoldLeft(LAMBDA st, w : FfsStage(st, w, mode),
                [i |-> x, n |-> 1], FfsWindows).n

-----------------------------------------------------------------------------
(* Reference definition (spec 4.2, 8.6)                                    *)

\* Bit k of the two's-complement representation of x (bit 31: the sign)
Bit(x, k) == IF k = 31 THEN (IF x < 0 THEN 1 ELSE 0) ELSE (x \div 2^k) % 2

FfsReference(x) ==
  IF x = 0 THEN 0
  ELSE 1 + Min({k \in 0..31 : Bit(x, k) = 1})

\* The int whose only set bit is k (bit 31 is the sign bit)
BitValue(k) == IF k = 31 THEN IntMin ELSE 2^k

=============================================================================
