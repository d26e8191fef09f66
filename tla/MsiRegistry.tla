----------------------------- MODULE MsiRegistry -----------------------------
(***************************************************************************)
(* What the MSI registry and allocator promise (spec 3, 4.3, 4.4), with    *)
(* every operation atomic: each device that opted into MSI owns a sequence *)
(* of hwirqs; msi_alloc_vectors appends a block of consecutive hwirqs of   *)
(* power-of-two size that no device owns, or changes nothing;              *)
(* msi_free_vectors and msi_device_cleanup drain the sequence.  MsiAlloc   *)
(* is shown to implement this module (MsiAlloc!RefinesRegistry).           *)
(***************************************************************************)
EXTENDS Integers, Sequences, SequencesExt

CONSTANTS Devices, Hwirqs, InitRegistered, MSI_MAX_VECTORS

VARIABLES
  absReg,   \* absReg[d]: d has a registry (dev->msi_data # NULL)
  vectors   \* vectors[d]: hwirqs of d's descriptors in list order

absVars == <<absReg, vectors>>

\* hwirqs owned by some device
Owned == UNION {ToSet(vectors[d]) : d \in Devices}

\* <<b, b+1, ..., b+n-1>>
BlockSeq(b, n) == [k \in 1..n |-> b + k - 1]

Init ==
  /\ absReg = [d \in Devices |-> d \in InitRegistered]
  /\ vectors = [d \in Devices |-> <<>>]

DeviceInit(d) ==
  /\ ~absReg[d]
  /\ absReg' = [absReg EXCEPT ![d] = TRUE]
  /\ vectors' = [vectors EXCEPT ![d] = <<>>]

DeviceCleanup(d) ==
  /\ absReg[d]
  /\ absReg' = [absReg EXCEPT ![d] = FALSE]
  /\ vectors' = [vectors EXCEPT ![d] = <<>>]

\* Block sizes msi_alloc_vectors can return
Pow2Sizes == {n \in {2^k : k \in 0..5} : n <= MSI_MAX_VECTORS}

AllocVectors(d, n, b) ==
  /\ absReg[d] /\ n \in Pow2Sizes
  /\ vectors' = [vectors EXCEPT ![d] = @ \o BlockSeq(b, n)]
  /\ ToSet(BlockSeq(b, n)) \subseteq Hwirqs \ Owned
  /\ UNCHANGED absReg

FreeVectors(d) ==
  /\ absReg[d]
  /\ vectors' = [vectors EXCEPT ![d] = <<>>]
  /\ UNCHANGED absReg

Next ==
  \E d \in Devices :
    \/ DeviceInit(d)
    \/ DeviceCleanup(d)
    \/ FreeVectors(d)
    \/ \E n \in Pow2Sizes, b \in Hwirqs : AllocVectors(d, n, b)

Spec == Init /\ [][Next]_absVars

=============================================================================
