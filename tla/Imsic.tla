-------------------------------- MODULE Imsic --------------------------------
(***************************************************************************)
(* The RISC-V IMSIC driver of kernel/drivers/irqchip/riscv-imsic.c         *)
(* (src/unnamed/part_003) with the one interrupt file it drives.           *)
(*                                                                         *)
(* The file's EIP (pending) and EIE (enable) bitmaps are sets of ids.  The *)
(* hardware side: devices write SETEIPNUM (RaiseMsi), and the hart traps   *)
(* into imsic_handle_irq while some id is pending, enabled and below the   *)
(* threshold.  The driver side: imsic_attach, imsic_irq_domain_map, the    *)
(* IRQ-chip operations (a read-modify-write of an EIE word, one step per   *)
(* MMIO access, issued by the CPUs in Cpus under the per-IRQ descriptor    *)
(* lock), imsic_set_threshold, and the three steps of imsic_handle_irq:    *)
(* scan EIP, generic_handle_irq, write CLREIPNUM.                          *)
(***************************************************************************)
EXTENDS Integers, FiniteSets, Ffs

CONSTANTS
  NumIds,        \* riscv,num-ids of the device node (the file's id space)
  MsiIds,        \* ids devices send MSIs to
  Cpus,          \* contexts issuing IRQ-chip operations
  ThresholdVals, \* values passed to imsic_set_threshold
  ShiftMode      \* the build's >> on negative ints (see Ffs)

ASSUME NumIds \in Nat /\ NumIds > 0
\* Id 0 is not a valid interrupt identity: SETEIPNUM ignores it.
ASSUME MsiIds \subseteq 1..(NumIds - 1)
ASSUME ShiftMode \in ShiftModes

VARIABLES
  initialized,  \* imsic_initialized
  ctl,          \* primary_imsic_data: [num_ids, domain (non-NULL)]
  mapped,       \* hwirqs with a virq mapping in the IMSIC domain
  eip,          \* pending ids of the file
  eie,          \* enabled ids of the file
  threshold,    \* EITHRESHOLD
  hpc,          \* imsic_handle_irq: "idle", "dispatch" or "clear"
  hwirq,        \* its local hwirq
  cpc,          \* cpc[c]: "idle" or "rmw" inside imsic_set_enabled
  cid, cen,     \* id and enable flag of c's imsic_set_enabled
  cval,         \* the EIE word c read (as a set of ids)
  requested,    \* requested[h]: enable state last requested for h (history)
  unserved,     \* mapped ids raised since the last generic_handle_irq for them
  raised,       \* ids raised since the last generic_handle_irq for them
  attach_ret    \* value the last imsic_attach returned

vars == <<initialized, ctl, mapped, eip, eie, threshold, hpc, hwirq, cpc,
          cid, cen, cval, requested, unserved, raised, attach_ret>>
chipVars == <<cpc, cid, cen, cval, requested>>
drvVars == <<initialized, ctl, mapped, attach_ret>>

-----------------------------------------------------------------------------
(* riscv-imsic.h and register encoding                                     *)

\* Number of ids attach assumes when the node has no riscv,num-ids
IMSIC_MAX_IDS == 256

\* struct imsic_data as the driver uses it: the id count and whether the
\* domain pointer is non-NULL (files, num_harts, base_ppn and msi_domain
\* are constants of the single-file driver)
ImsicData == [num_ids: {0, NumIds, IMSIC_MAX_IDS}, domain: BOOLEAN]

\* The ids a 32-bit EIP/EIE word k covers
WordIds(k) == (32 * k)..(32 * k + 31)

\* The int the driver reads from word k of a bitmap S (bit 31 is the sign)
Word(S, k) == SumSet({BitValue(h - 32 * k) : h \in S \cap WordIds(k)})

\* Words 0 .. (num_ids + 31) / 32 - 1 scanned by imsic_handle_irq
ScanWords(n) == 0..((n + 31) \div 32 - 1)

\* The hart takes the external interrupt: some id pending, enabled and
\* under a non-zero threshold (eidelivery is assumed on)
Deliverable == {h \in eip \cap eie : threshold = 0 \/ h < threshold}

-----------------------------------------------------------------------------

Init ==
  /\ initialized = FALSE
  /\ ctl = [num_ids |-> 0, domain |-> FALSE]
  /\ mapped = {}
  /\ eip = {}
  /\ eie = {}
  /\ threshold = 0
  /\ hpc = "idle"
  /\ hwirq = 0
  /\ cpc = [c \in Cpus |-> "idle"]
  /\ cid = [c \in Cpus |-> 0]
  /\ cen = [c \in Cpus |-> FALSE]
  /\ cval = [c \in Cpus |-> {}]
  /\ requested = [h \in MsiIds |-> FALSE]
  /\ unserved = {}
  /\ raised = {}
  /\ attach_ret = 0

\* imsic_attach: refuse a second controller; need MMIO resource 0; fill the
\* file and controller (num_ids from riscv,num-ids, IMSIC_MAX_IDS when the
\* property is absent) after a memset; create
\* the linear domain of num_ids ids; only then publish and set
\* imsic_initialized.  A failed domain creation leaves the controller
\* filled in with a NULL domain.
imsic_attach(hasRes, hasProp, domOk) ==
  /\ \/ /\ initialized \/ ~hasRes
        /\ attach_ret' = -1
        /\ UNCHANGED <<initialized, ctl, mapped>>
     \/ /\ ~initialized /\ hasRes
        /\ ctl' = [num_ids |-> IF hasProp THEN NumIds ELSE IMSIC_MAX_IDS,
                   domain |-> domOk]
        /\ mapped' = {}
        /\ initialized' = domOk
        /\ attach_ret' = IF domOk THEN 0 ELSE -1
  /\ UNCHANGED <<eip, eie, threshold, hpc, hwirq, chipVars, unserved, raised>>

\* irq_create_mapping on the IMSIC domain calls imsic_irq_domain_map, which
\* installs imsic_irq_chip and the primary file on the virq's descriptor.
imsic_irq_domain_map(h) ==
  /\ ctl.domain /\ h < ctl.num_ids /\ h \notin mapped
  /\ mapped' = mapped \cup {h}
  /\ UNCHANGED <<initialized, ctl, attach_ret, eip, eie, threshold, hpc,
                 hwirq, chipVars, unserved, raised>>

\* A device (or imsic_set_pending) writes id h to SETEIPNUM.
imsic_set_pending(h) ==
  /\ eip' = eip \cup {h}
  /\ unserved' = IF h \in mapped THEN unserved \cup {h} ELSE unserved
  /\ raised' = raised \cup {h}
  /\ UNCHANGED <<drvVars, eie, threshold, hpc, hwirq, chipVars>>

imsic_set_threshold(v) ==
  /\ threshold' = v
  /\ UNCHANGED <<drvVars, eip, eie, hpc, hwirq, chipVars, unserved, raised>>

-----------------------------------------------------------------------------
(* IRQ-chip operations: imsic_irq_enable / unmask (en = TRUE) and          *)
(* imsic_irq_disable / mask (en = FALSE) call imsic_set_enabled, whose     *)
(* read and write of the EIE word are separate MMIO accesses.  The caller  *)
(* holds the descriptor lock of its own irq only.                          *)

\* Fault-injection variant of Mask: a build that folds the overflowing
\* shift to 0.
MaskOverflowZero(id) == IF id % 32 = 31 THEN 0 ELSE BitValue(id % 32)

\* uint32_t mask = 1 << (id % 32).  The shift is of the int 1: for
\* id % 32 = 31 it overflows into the sign bit, which C leaves undefined;
\* the RISC-V build (sllw) yields INT_MIN, whose conversion to uint32_t is
\* 0x80000000.  A uint32_t is held as the int with the same 32 bits.
Mask(id) == BitValue(id % 32)

\* The set bits of a 32-bit word
WordBits(v) == {j \in 0..31 : Bit(v, j) = 1}

\* The ids of EIE word k after writing a word with bits B
EieAfterWrite(k, B) == (eie \ WordIds(k)) \cup {32 * k + j : j \in B}

\* val = imsic_read_reg(file, EIE_BASE + (id / 32) * 4)
imsic_set_enabled_read(c, h, en) ==
  /\ cpc[c] = "idle" /\ h \in mapped
  /\ \A o \in Cpus : cpc[o] = "rmw" => cid[o] # h
  /\ cpc' = [cpc EXCEPT ![c] = "rmw"]
  /\ cid' = [cid EXCEPT ![c] = h]
  /\ cen' = [cen EXCEPT ![c] = en]
  /\ cval' = [cval EXCEPT ![c] = Word(eie, h \div 32)]
  /\ requested' = [requested EXCEPT ![h] = en]
  /\ UNCHANGED <<drvVars, eip, eie, threshold, hpc, hwirq, unserved, raised>>

\* Fault-injection variant of imsic_set_enabled_write: the word written is
\* the mask alone (val = mask / val = ~mask instead of val |= / &= mask).
imsic_set_enabled_write_MaskOnly(c) ==
  LET m == WordBits(Mask(cid[c])) IN
  /\ cpc[c] = "rmw"
  /\ eie' = EieAfterWrite(cid[c] \div 32, IF cen[c] THEN m ELSE (0..31) \ m)
  /\ cpc' = [cpc EXCEPT ![c] = "idle"]
  /\ UNCHANGED <<drvVars, eip, threshold, hpc, hwirq, cid, cen, cval,
                 requested, unserved, raised>>

\* Fault-injection variant of imsic_set_enabled_write: enabling writes the
\* mask alone (val = mask instead of val |= mask).
imsic_set_enabled_write_NoOr(c) ==
  LET m == WordBits(Mask(cid[c]))
      v == WordBits(cval[c])
  IN
  /\ cpc[c] = "rmw"
  /\ eie' = EieAfterWrite(cid[c] \div 32, IF cen[c] THEN m ELSE v \ m)
  /\ cpc' = [cpc EXCEPT ![c] = "idle"]
  /\ UNCHANGED <<drvVars, eip, threshold, hpc, hwirq, cid, cen, cval,
                 requested, unserved, raised>>

\* val |= mask or val &= ~mask; imsic_write_reg(file, reg, val)
imsic_set_enabled_write(c) ==
  LET m == WordBits(Mask(cid[c]))
      v == WordBits(cval[c])
  IN
  /\ cpc[c] = "rmw"
  /\ eie' = EieAfterWrite(cid[c] \div 32, IF cen[c] THEN v \cup m ELSE v \ m)
  /\ cpc' = [cpc EXCEPT ![c] = "idle"]
  /\ UNCHANGED <<drvVars, eip, threshold, hpc, hwirq, cid, cen, cval,
                 requested, unserved, raised>>

-----------------------------------------------------------------------------
(* imsic_handle_irq                                                        *)

\* Fault-injection variant of ScanHwirq: the loop bound is num_ids / 32,
\* dropping a partial last word.
ScanHwirqFloorWords ==
  LET W == {k \in 0..(ctl.num_ids \div 32 - 1) : Word(eip, k) # 0}
      k == Min(W)
  IN IF W = {} THEN 0 ELSE k * 32 + ffs(Word(eip, k), ShiftMode) - 1

\* The scan loop: read EIP words in order until one is non-zero and take
\* hwirq = 32 * k + ffs(word) - 1; 0 when every scanned word is zero.
ScanHwirq ==
  LET W == {k \in ScanWords(ctl.num_ids) : Word(eip, k) # 0}
      k == Min(W)
  IN IF W = {} THEN 0 ELSE k * 32 + ffs(Word(eip, k), ShiftMode) - 1

\* The hart traps into imsic_handle_irq.  hwirq = 0 returns without
\* dispatch or clear, a step that changes nothing.  irq_find_mapping
\* decides whether generic_handle_irq runs.
imsic_handle_irq_scan ==
  /\ hpc = "idle" /\ Deliverable # {}
  /\ ScanHwirq # 0
  /\ hwirq' = ScanHwirq
  /\ hpc' = IF ScanHwirq \in mapped THEN "dispatch" ELSE "clear"
  /\ UNCHANGED <<drvVars, eip, eie, threshold, chipVars, unserved, raised>>

\* generic_handle_irq(virq): the flow handler may first ack through
\* imsic_irq_ack (CLREIPNUM), then the device handler runs.
imsic_handle_irq_dispatch ==
  /\ hpc = "dispatch"
  /\ \E ack \in BOOLEAN : eip' = IF ack THEN eip \ {hwirq} ELSE eip
  /\ unserved' = unserved \ {hwirq}
  /\ raised' = raised \ {hwirq}
  /\ hpc' = "clear"
  /\ UNCHANGED <<drvVars, eie, threshold, hwirq, chipVars>>

\* Fault-injection variant of imsic_handle_irq_clear: CLREIPNUM is written
\* only when irq_find_mapping found no virq (the clear inside an else).
imsic_handle_irq_clear_OnlyUnmapped ==
  /\ hpc = "clear"
  /\ eip' = IF hwirq \in mapped THEN eip ELSE eip \ {hwirq}
  /\ hpc' = "idle"
  /\ hwirq' = 0
  /\ UNCHANGED <<drvVars, eie, threshold, chipVars, unserved, raised>>

\* imsic_clear_pending(file, hwirq): CLREIPNUM after the dispatch
imsic_handle_irq_clear ==
  /\ hpc = "clear"
  /\ eip' = eip \ {hwirq}
  /\ hpc' = "idle"
  /\ hwirq' = 0
  /\ UNCHANGED <<drvVars, eie, threshold, chipVars, unserved, raised>>

-----------------------------------------------------------------------------

Next ==
  \/ \E hasRes, hasProp, domOk \in BOOLEAN :
       imsic_attach(hasRes, hasProp, domOk)
  \/ \E h \in MsiIds : imsic_irq_domain_map(h)
  \/ \E h \in MsiIds : imsic_set_pending(h)
  \/ \E v \in ThresholdVals : imsic_set_threshold(v)
  \/ \E c \in Cpus, h \in MsiIds, en \in BOOLEAN :
       imsic_set_enabled_read(c, h, en)
  \/ \E c \in Cpus : imsic_set_enabled_write(c)
  \/ imsic_handle_irq_scan
  \/ imsic_handle_irq_dispatch
  \/ imsic_handle_irq_clear

Spec == Init /\ [][Next]_vars

-----------------------------------------------------------------------------
(* Properties                                                              *)

TypeOK ==
  /\ initialized \in BOOLEAN
  /\ ctl \in ImsicData
  /\ mapped \subseteq MsiIds
  /\ eip \subseteq MsiIds /\ eie \subseteq MsiIds /\ unserved \subseteq MsiIds
  /\ raised \subseteq MsiIds
  /\ hpc \in {"idle", "dispatch", "clear"}
  /\ hwirq \in 0..(NumIds - 1)
  /\ cpc \in [Cpus -> {"idle", "rmw"}]
  /\ requested \in [MsiIds -> BOOLEAN]
  /\ attach_ret \in {0, -1}

\* The handler serves the lowest pending id (spec 4.5 steps 1-2, test S8):
\* whenever the hart would trap, the hwirq imsic_handle_irq computes from
\* the EIP words with ffs is the smallest id pending in the file, in
\* whichever word it lies, including bit 31 of a word (a negative int)
\* and ids of the partial last word when num_ids is not a multiple of 32.
HandlerTakesLowestPending ==
  Deliverable # {} => ScanHwirq = Min(eip)

\* Each id's EIE bit is what the last enable/disable/mask/unmask of that id
\* asked for, once no imsic_set_enabled on it is in progress; a
\* read-modify-write of another id in the same EIE word must not undo it.
EnableMatchesRequest ==
  \A h \in MsiIds :
    (\A c \in Cpus : cpc[c] = "rmw" => cid[c] # h) =>
      (h \in eie <=> requested[h])

\* Each MSI is dispatched at most once (spec 4.5): when imsic_handle_irq is
\* about to call generic_handle_irq for an id, that id was raised since
\* its previous dispatch.  The CLREIPNUM at the end of every handler round
\* is what keeps a served id from being found again by the next scan; a
\* round that skips it runs the device handler again for the same MSI.
DispatchOncePerMsi == hpc = "dispatch" => hwirq \in raised

\* No MSI is lost: an id raised while mapped, and not dispatched since,
\* is still pending in EIP.  imsic_handle_irq writes CLREIPNUM after
\* generic_handle_irq returns, so an MSI arriving while the handler runs is
\* cleared without being dispatched.
NoLostMsi == unserved \subseteq eip

=============================================================================
