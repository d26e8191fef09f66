# TLA+ models of the ProtoKernel MSI allocator and RISC-V IMSIC driver

This directory checks the interrupt code of ProtoKernel with TLC. Two pieces of
code are covered:

- `src/kernel/irq/msi.c`: the MSI descriptor API, the per-device registry and
  the vector allocator;
- `src/unnamed/part_003`: the current `kernel/drivers/irqchip/riscv-imsic.c`.
  It uses `ffs()` from `src/unnamed/part_000` (`lib/ffs.c`).

## The system

| Part | Code | State | Operations |
|---|---|---|---|
| Descriptor | msi.c 10-102 | `refcount`, `list` links, `hwirq`, `irq` | `msi_desc_alloc`, `msi_desc_free`, `msi_desc_list_add(_locked)` |
| Registry | msi.c 105-163 | per device: sentinel list, `num_vectors`, spin lock | `msi_device_init`, `msi_device_cleanup` |
| Allocator | msi.c 166-283 | registry, and the hwirqs and virq mappings of the device's `msi_domain` | `msi_alloc_vectors` (size selection, reserve, populate, rollback), `msi_free_vectors` |
| ffs | part_000 | none | 16/8/4/2/1 halving scan |
| IMSIC | part_003 | `imsic_initialized`, `primary_imsic_data` (`num_ids`, domain), the file's EIP/EIE/EITHRESHOLD registers | attach, domain map, chip ops, `set_pending`, `set_threshold`, `handle_irq` |

How the parts interact:

- Devices call the allocator. It reserves a range in an IRQ domain, which
  several devices may share, and publishes descriptors on the device's list.
- A device raises an MSI by writing an id to SETEIPNUM of the IMSIC file.
- The hart traps into `imsic_handle_irq`. It scans EIP with `ffs`, maps the
  hwirq to a virq through the linear domain that attach created, calls
  `generic_handle_irq`, and finally writes CLREIPNUM.
- The IRQ core calls chip ops (enable/disable/mask/unmask). Each one is a
  read-modify-write of one 32-bit EIE word, done under that irq's descriptor
  lock.

## Modules

### `MsiAlloc.tla`, and `MC_MsiAlloc.tla` for TLC

**State.** `registered`, `list`, `num_vectors` and `lock` hold the registry of
each device. `desc` is the descriptor memory: one slot per kmalloc'able
descriptor, with a `live` flag. `reserved` and `irqmap` are the domain's view.
Every thread has:

- a `pc` ("idle", "alloc_enter", "alloc_loop", "alloc_cleanup", "free_enter",
  "free_loop");
- the locals of `msi_alloc_vectors` (`req`, `nvec`, `base`, `i`);
- its return value `ret`;
- `handle`, a descriptor held through the public API.

`snap` is a history variable: the device list at the moment the lock was taken.

**Actions.** `msi_alloc_vectors` is split at the points where another thread or
a failure can intervene:

- `AllocRejects` covers the early returns (lines 174-191).
- `AllocEnter` passes those checks, reads `dev->msi_data` and computes
  `nvec`, all before the lock ("alloc_enter").
- `AllocReserves` takes the lock and reserves a range (193-198). When the
  domain has no free range it unlocks and returns -1.
- `AllocStep` is one loop iteration that succeeds (200-220). It includes the
  tail insert of `msi_desc_list_add_locked`.
- `AllocStepFails`: kmalloc or mapping fails.
- `AllocDone`.
- `AllocRollback` is one iteration of the cleanup loop (225-243), including its
  list search by hwirq.
- `AllocRollbackDone` (244-246).

`msi_free_vectors` is four actions: the `msi_data` read (or the early return),
the lock, one walk iteration, the unlock. The other functions are one atomic
action each. Lock acquisition is the guard `lock[d] = NoThread`.

**Caller contract.** Neither the code nor the spec says whether
`msi_device_cleanup` may run while another call on the same device is under
way. The constant `CallersQuiesceCleanup` decides. When it is TRUE, cleanup
runs only when every other thread of the device is idle. All passing runs
assume this. The registry_race run sets it to FALSE.

**The domain.** `irq_domain_alloc_hwirq_range`, `irq_create_mapping` and
`irq_dispose_mapping` are not under `src/`, so they are modelled from spec §6:

- any free contiguous range can be returned;
- a mapping returns a non-zero virq, the same one again for a hwirq that is
  already mapped.

**Refinement.** `MsiRegistry.tla` is the abstract contract from spec §3-§4.4,
with every operation atomic. A device either has a registry or not. It owns a
sequence of hwirqs. An alloc appends a block of free, consecutive hwirqs whose
size is a power of two. A free or a cleanup drains the sequence. `MsiAlloc`
maps onto it with `RefinesRegistry`:

- `absReg` is `registered`;
- `vectors[d]` is the hwirqs of d's list;
- while an alloc is in flight, `vectors[d]` is the list at lock time (`snap`).
  The in-flight alloc becomes visible only when it returns. A rolled-back alloc
  is a stutter;
- while a free walk is running, `vectors[d]` is already empty. The abstract
  free happens when the lock is taken.

**Fairness.** `FairSpec` assumes weak fairness for `LockedSteps(t)`, the steps
a thread takes while it holds the registry lock: the loop iterations, the
rollback and the unlocks. The justification is that `spin_lock_irqsave`
disables local interrupts, so the holder cannot be preempted and keeps running.
Nothing is assumed about acquiring the lock: the spin lock is not a ticket lock
and may starve a waiter.

### `Ffs.tla` and `FfsCheck.tla`

`ffs` is a `FoldLeft` of one stage per window. The `>>` of a negative int is
implementation-defined, so `Shr` takes the build's shift mode as a parameter.
`FfsReference` is the spec's definition: 1 + the lowest set bit of the
two's-complement word. `FfsCheck` enumerates test words and compares the two.

### `Imsic.tla`, and `MC_Imsic.tla` for TLC

EIP and EIE are sets of ids. The words the driver reads are built from them by
`Word(S, k)`, where bit 31 is the sign. `imsic_set_enabled` is two steps per
CPU, a read and a write, because these are separate MMIO accesses. The chip-op
caller holds only the lock of its own irq.

The write step follows the C word by word. It computes `mask = 1 << (id % 32)`
(`Mask`), takes the set bits of the word it read (`WordBits`), ORs the mask in
or clears it, and writes the word back (`EieAfterWrite`). For id 31 the shift
overflows the int `1` into the sign bit, which is undefined in C. The RISC-V
build produces INT_MIN, which is 0x80000000 as a `uint32_t`, and that is what
`Mask` returns. A uint32 is held as the int with the same 32 bits, because TLC
integers are 32-bit signed.

`imsic_handle_irq` is three steps:

1. the scan (`ScanHwirq`, lines 243-249) and `irq_find_mapping`;
2. `generic_handle_irq`, where the flow handler may call `imsic_irq_ack` first;
3. the CLREIPNUM write.

The hardware side is modelled as follows:

- `imsic_set_pending` stands for any write to SETEIPNUM.
- The hart traps while some id is pending, enabled and under the threshold.
  This is `Deliverable`; the driver never writes EIDELIVERY, so delivery is
  assumed on.

Three history variables support the properties. `requested` is the last enable
state asked for each id. `unserved` holds the ids raised while mapped and not
dispatched since. `raised` holds the ids raised, mapped or not, since their
last dispatch; DispatchOncePerMsi says the handler only dispatches an id in
`raised`, so no MSI runs its device handler twice. When the flow handler does
not ack, the final CLREIPNUM is what guarantees this.

## Runs

| Run | Config | Expect | What it shows |
|---|---|---|---|
| shared_domain | 2 devices share the domain; each has a thread that inits, allocates (1, 2 or 3 vectors), frees and cleans up | pass | DomainAccounting, MappingAccounting, RegistryIntegrity and AllocOutcome hold, with failures at any iteration |
| same_device | 2 threads on one device that init, allocate, free and clean up, with cleanup only when the other is idle | pass | a `msi_free_vectors` cannot empty the list under an alloc or rollback in progress, which only the lock prevents (AllocOutcome; the mutant that skips the lock in free breaks it); the code refines `MsiRegistry` (RefinesRegistry); every locked operation returns (LockHolderReturns) |
| desc_api | 1 thread using the public descriptor API and the allocator | pass | `num_vectors` tracks the list; a held descriptor on a list keeps the list's reference, so `msi_desc_free`'s lock-free unlink never touches a live list (ListedHeldHasListRef) |
| rollback_wrong_desc | as desc_api | violation of AllocOutcome | rollback removes a descriptor the caller added |
| dangling_ref | as desc_api | violation of NoDanglingHandle | `free_vectors` kfrees a descriptor that is still referenced |
| registry_race | as same_device, without the caller contract | violation of RegistryFreedUnused | cleanup kfrees the registry while the other thread has read `dev->msi_data` and is about to lock it |
| cleanup_leak | as shared_domain | violation of NoLeak | cleanup after alloc leaks descriptors (refcount 2 → 1) |
| stale_links | 1 thread, public API plus init/cleanup | violation of HeldLinksValid | after alloc, list_add and cleanup, the caller's descriptor is still linked to the kfree'd registry; `msi_desc_free` writes through those links |
| ffs_reference | 0, -1 and all words with one or two bits set, under both shift modes | pass | `ffs` equals the reference, including on negative ints |
| imsic_one_cpu | `num_ids` = 63, ids 5, 31, 33; 1 CPU; thresholds 0 and 32 | pass | HandlerTakesLowestPending, DispatchOncePerMsi, EnableMatchesRequest |
| imsic_eie_lost_update | as imsic_one_cpu with 2 CPUs | violation of EnableMatchesRequest | the EIE read-modify-write loses an update |
| imsic_lost_msi | as imsic_one_cpu | violation of NoLostMsi | CLREIPNUM after dispatch drops an MSI raised during the handler |

`PROJECT.json` lists, for every property of a passing run, a mutant of the
mapped code that TLC reports as a violation. The mutants include:

- the rollback without its `i > 0` guard;
- a head insert in place of the tail insert;
- a missing `num_vectors--`;
- an EIE write of the mask alone;
- a build that folds `1 << 31` to 0;
- a `msi_desc_list_add` that takes no reference;
- the scan bound `num_ids / 32`;
- a 0-based `ffs`;
- a handler that writes CLREIPNUM only for unmapped ids (breaks
  DispatchOncePerMsi);
- a cleanup that does not unlink (breaks the refinement);
- a rollback iteration that does not advance when it finds nothing (breaks
  LockHolderReturns).

## Bounds and why they are enough

**MsiAlloc.**

- 3 descriptor slots and hwirqs 0..3.
- Requests of 1, 2 or 3 vectors, plus 33, which the code rejects.
- Two threads.

This covers every outcome of `msi_alloc_vectors`:

- early rejection (33 > MSI_MAX_VECTORS);
- domain exhaustion;
- kmalloc exhaustion, when the third slot is taken;
- a failure at every iteration 0..nvec-1;
- rollback with and without foreign descriptors on the list;
- unaligned bases (2 vectors at hwirq 1), which the code accepts; spec §6
  leaves alignment to the domain, so no property is checked for it.

**Imsic.**

- `num_ids` = 63 is not a multiple of 32. It makes the second
  EIP word partial, which is exactly where a wrong scan bound bites.
- Id 31 is the sign bit of word 0, and id 33 lies in word 1.
- Ids 5 and 31 share an EIE word, so two CPUs can race on that word.

## Fairness

Only the same_device run uses fairness, through `FairSpec` (see MsiAlloc
above). Its one liveness property is `LockHolderReturns`: a thread that holds
the lock inside `msi_alloc_vectors` or `msi_free_vectors` eventually returns. The registry's
spin lock grants the lock in no particular order, so no claim is made that a
waiting thread eventually acquires it. The refinement is checked only in
same_device because evaluating the abstract step through the mapping on every
transition is too slow for the two-device state space.

The IMSIC model has no liveness property. "Every pending, enabled MSI is
eventually served" holds only once devices stop raising MSIs: the scan
always takes the lowest id, so a low id raised over and over starves the
others. Stating it needs a quiescence antecedent (`<>[][~Stimulus]_vars`),
and TLC's tableau for it did not finish on the 500k-state imsic_one_cpu
space within the time a run may take. The failure it would catch, a
handler round that leaves the served id pending, is checked instead as the
safety property DispatchOncePerMsi.

## Not modelled

- `msi_compose_msg` and `msi_write_msg` copy data.
- `msi_mask_irq` and `msi_unmask_irq` forward to the external IRQ core.
- `msi_set_affinity` and `msi_create_domain` are stubs.
- `imsic_probe` is a string match, and detach and `driver_init` are
  registration.
- The older IMSIC skeleton (`part_002`).
- The boot-time APLIC MSI init, which writes placeholder values. Spec §1
  includes the APLIC only as an MSI producer, and `imsic_set_pending` already
  stands for its writes.
- The unit tests (`part_001`).
- The flash script (`part_004`).

The hazards without a covering property are listed with a note in
`PROJECT.json`:

- a masked id below the trapping one being dispatched. Spec §4.5 prescribes
  the EIP-only scan, so this is the specified behaviour and no run checks it;
- `imsic_handle_irq` always scans `files[0]`. The driver attaches one file
  and the model has one file;
- `msi_free_vectors` returning hwirq 0 for a descriptor added with
  `msi_desc_list_add`. DomainAccounting states this, but no run combines a
  legacy caller with that property;
- `msi_desc_free`'s lock-free unlink racing a list walk on another CPU.
  The model takes `msi_desc_free` as one atomic step and no run frees a
  held descriptor concurrently with a walk;
- a failed domain creation in `imsic_attach`, which leaves the controller
  with a NULL domain. The model sees the NULL domain only as "no mapping";
- the APLIC's EIIDs, which are not checked against `num_ids`.

`IMSIC_MAX_IDS` (riscv-imsic.h) is the `num_ids` that attach falls back to
when the device tree has no `riscv,num-ids`. `imsic_attach` chooses among the
three outcomes (missing reg, missing property, domain failure).
