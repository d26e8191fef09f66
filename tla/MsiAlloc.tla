------------------------------ MODULE MsiAlloc ------------------------------
(***************************************************************************)
(* The generic MSI vector allocator and per-device MSI registry of         *)
(* src/kernel/irq/msi.c.                                                   *)
(*                                                                         *)
(* A device owns a registry (struct msi_device_data): a list of            *)
(* descriptors, a counter num_vectors and an IRQ-safe spin lock.  Threads  *)
(* call msi_alloc_vectors / msi_free_vectors on their device and, for the  *)
(* lifecycle threads, msi_device_init / msi_device_cleanup.  "Legacy"      *)
(* threads use the public descriptor API msi_desc_alloc /                  *)
(* msi_desc_list_add / msi_desc_free directly.  All devices share one MSI  *)
(* IRQ domain, whose hwirq reservations and hwirq->virq mappings are the   *)
(* variables reserved and irqmap (the domain itself is not in this         *)
(* repository; its behaviour is the contract the spec quotes).            *)
(*                                                                         *)
(* Steps are cut where another thread can observe state: the allocator     *)
(* loop and its rollback run one descriptor per step under the device      *)
(* lock, because the domain is shared across devices and msi_desc_free     *)
(* takes no lock.                                                          *)
(***************************************************************************)
EXTENDS Integers, Sequences, FiniteSets, SequencesExt

CONSTANTS
  Devices,          \* devices that may opt into MSI
  Threads,          \* kernel threads calling the MSI API
  DevOf,            \* DevOf[t]: the device thread t works on
  Lifecycle,        \* threads that call msi_device_init / msi_device_cleanup
  LegacyThreads,    \* threads that use msi_desc_alloc / list_add / desc_free
  InitRegistered,   \* devices whose registry exists in the initial state
  DescIds,          \* kmalloc slots a struct msi_desc can occupy
  Hwirqs,           \* hwirq space of the shared MSI domain
  ReqVals,          \* values callers pass as min_vecs / max_vecs
  MSI_MAX_VECTORS,  \* 32 in include/irq/msi.h
  CallersQuiesceCleanup, \* callers never run cleanup during another call
  NoThread, NoDesc, NoDevice

ASSUME DevOf \in [Threads -> Devices]
ASSUME Lifecycle \subseteq Threads /\ LegacyThreads \subseteq Threads
ASSUME InitRegistered \subseteq Devices
ASSUME Hwirqs = 0..(Cardinality(Hwirqs) - 1)
ASSUME ReqVals \subseteq Nat
ASSUME CallersQuiesceCleanup \in BOOLEAN

VARIABLES
  registered,   \* registered[d]: dev->msi_data != NULL
  list,         \* list[d]: descriptor ids in list order from the sentinel
  num_vectors,  \* num_vectors[d]
  lock,         \* lock[d]: holder of msi_data->lock, or NoThread
  desc,         \* desc[x]: the struct msi_desc in slot x
  reserved,     \* hwirqs the MSI domain has handed out
  irqmap,       \* irqmap[h]: virq mapped to hwirq h, 0 when unmapped
  pc,           \* pc[t]: where thread t is inside an MSI call
  req,          \* req[t]: <<min_vecs, max_vecs>> of t's msi_alloc_vectors
  nvec, base, i,\* locals nvec, hwirq_base, i of msi_alloc_vectors
  ret,          \* ret[t]: value the last call of t returned
  handle,       \* handle[t]: descriptor a legacy caller holds a reference to
  hlisted,      \* hlisted[t]: the caller has passed handle[t] to list_add
  snap          \* snap[t]: list[DevOf[t]] when t took the lock (history)

vars == <<registered, list, num_vectors, lock, desc, reserved, irqmap,
          pc, req, nvec, base, i, ret, handle, hlisted, snap>>
regVars == <<registered, list, num_vectors, lock>>
domVars == <<reserved, irqmap>>
locals  == <<req, nvec, base, i, snap>>
apiVars == <<handle, hlisted>>

-----------------------------------------------------------------------------
(* Descriptors and helpers                                                 *)

DescRec == [live: BOOLEAN, hwirq: Hwirqs, irq: Nat, refcount: Nat,
            owner: Devices \cup {NoDevice}]

\* kfree'd memory: what a fresh KM_ZERO kmalloc would hand out
FreeSlot == [live |-> FALSE, hwirq |-> 0, irq |-> 0, refcount |-> 0,
             owner |-> NoDevice]

LiveDescs == {x \in DescIds : desc[x].live}

\* kmalloc of a struct msi_desc: any free slot; NoDesc models a NULL return
KmallocDesc == IF LiveDescs = DescIds THEN NoDesc
               ELSE Min(DescIds \ LiveDescs)

\* hwirq_base .. hwirq_base + n - 1
Block(b, n) == b..(b + n - 1)

IsPow2(n) == \E k \in 0..6 : n = 2^k

\* irq_create_mapping: non-zero virq for hwirq h, the existing one if any
Virq(h) == h + 1
CreateMapping(h) == IF irqmap[h] # 0 THEN irqmap[h] ELSE Virq(h)

\* irq_dispose_mapping(v): drop whatever hwirq is mapped to v
DisposeMapping(v) == [h \in Hwirqs |-> IF irqmap[h] = v THEN 0 ELSE irqmap[h]]

\* The size-selection loop of msi_alloc_vectors:
\*   nvec = 1; while (nvec <= max_vecs) nvec <<= 1; nvec >>= 1;
RECURSIVE ShiftUntilAbove(_, _)
ShiftUntilAbove(n, max) == IF n <= max THEN ShiftUntilAbove(2 * n, max) ELSE n
SelectNvec(max) == ShiftUntilAbove(1, max) \div 2

\* The early-return guard of msi_alloc_vectors (dev and msi_domain are
\* non-NULL for every modelled device)
AllocArgsValid(t, lo, hi) ==
  /\ registered[DevOf[t]]
  /\ lo # 0 /\ lo <= hi /\ hi <= MSI_MAX_VECTORS
  /\ SelectNvec(hi) >= lo

\* Removal of the descriptor at list position k (list_del on the element)
Unlink(d, k) == list' = [list EXCEPT ![d] = RemoveAt(@, k)]

\* Locals of a thread that is not inside msi_alloc_vectors
NoLocals(t) ==
  /\ req'  = [req EXCEPT ![t] = <<0, 0>>]
  /\ nvec' = [nvec EXCEPT ![t] = 0]
  /\ base' = [base EXCEPT ![t] = 0]
  /\ i'    = [i EXCEPT ![t] = 0]
  /\ snap' = [snap EXCEPT ![t] = <<>>]

-----------------------------------------------------------------------------
(* msi_device_init / msi_device_cleanup                                    *)

Init ==
  /\ registered  = [d \in Devices |-> d \in InitRegistered]
  /\ list        = [d \in Devices |-> <<>>]
  /\ num_vectors = [d \in Devices |-> 0]
  /\ lock        = [d \in Devices |-> NoThread]
  /\ desc        = [x \in DescIds |-> FreeSlot]
  /\ reserved    = {}
  /\ irqmap      = [h \in Hwirqs |-> 0]
  /\ pc          = [t \in Threads |-> "idle"]
  /\ req         = [t \in Threads |-> <<0, 0>>]
  /\ nvec        = [t \in Threads |-> 0]
  /\ base        = [t \in Threads |-> 0]
  /\ i           = [t \in Threads |-> 0]
  /\ ret         = [t \in Threads |-> 0]
  /\ handle      = [t \in Threads |-> NoDesc]
  /\ hlisted     = [t \in Threads |-> FALSE]
  /\ snap        = [t \in Threads |-> <<>>]

\* msi_device_init: a zeroed registry with an empty sentinel list and a
\* fresh lock.  The caller must not init a device twice without cleanup.
msi_device_init(t) ==
  LET d == DevOf[t] IN
  /\ t \in Lifecycle /\ pc[t] = "idle"
  /\ ~registered[d]
  /\ registered'  = [registered EXCEPT ![d] = TRUE]
  /\ list'        = [list EXCEPT ![d] = <<>>]
  /\ num_vectors' = [num_vectors EXCEPT ![d] = 0]
  /\ lock'        = [lock EXCEPT ![d] = NoThread]
  /\ ret'         = [ret EXCEPT ![t] = 0]
  /\ UNCHANGED <<desc, domVars, pc, locals, apiVars>>

\* Fault-injection variant of msi_device_cleanup: the walk drops the
\* references but does not unlink the descriptors.
msi_device_cleanup_NoUnlink(t) ==
  LET d == DevOf[t]
      L == ToSet(list[d])
  IN
  /\ t \in Lifecycle /\ pc[t] = "idle"
  /\ registered[d] /\ lock[d] = NoThread
  /\ CallersQuiesceCleanup => \A u \in Threads : DevOf[u] = d => pc[u] = "idle"
  /\ desc' = [x \in DescIds |->
               IF x \notin L THEN desc[x]
               ELSE IF desc[x].refcount = 1 THEN FreeSlot
               ELSE [desc[x] EXCEPT !.refcount = @ - 1]]
  /\ registered' = [registered EXCEPT ![d] = FALSE]
  /\ UNCHANGED <<list, num_vectors, lock, domVars, pc, locals, ret, apiVars>>

\* msi_device_cleanup: under the lock, unlink every descriptor and drop one
\* reference, kfree'ing those that reach zero; then kfree the registry.
\* The unlinked descriptors keep their stale list pointers (owner).
msi_device_cleanup(t) ==
  LET d == DevOf[t]
      L == ToSet(list[d])
  IN
  /\ t \in Lifecycle /\ pc[t] = "idle"
  /\ registered[d] /\ lock[d] = NoThread
  /\ CallersQuiesceCleanup => \A u \in Threads : DevOf[u] = d => pc[u] = "idle"
  /\ desc' = [x \in DescIds |->
               IF x \notin L THEN desc[x]
               ELSE IF desc[x].refcount = 1 THEN FreeSlot
               ELSE [desc[x] EXCEPT !.refcount = @ - 1]]
  /\ registered' = [registered EXCEPT ![d] = FALSE]
  /\ list'       = [list EXCEPT ![d] = <<>>]
  /\ UNCHANGED <<num_vectors, lock, domVars, pc, locals, ret, apiVars>>

-----------------------------------------------------------------------------
(* msi_alloc_vectors                                                       *)

\* Early return -1: bad arguments, no registry, or no power of two fits.
AllocRejects(t, lo, hi) ==
  /\ pc[t] = "idle"
  /\ ~AllocArgsValid(t, lo, hi)
  /\ ret' = [ret EXCEPT ![t] = -1]
  /\ UNCHANGED <<regVars, desc, domVars, pc, locals, apiVars>>

\* The checks pass: msi_data = dev->msi_data is read and nvec computed,
\* before the lock is taken.
AllocEnter(t, lo, hi) ==
  /\ pc[t] = "idle"
  /\ AllocArgsValid(t, lo, hi)
  /\ req'  = [req EXCEPT ![t] = <<lo, hi>>]
  /\ nvec' = [nvec EXCEPT ![t] = SelectNvec(hi)]
  /\ pc'   = [pc EXCEPT ![t] = "alloc_enter"]
  /\ UNCHANGED <<regVars, desc, domVars, base, i, snap, ret, apiVars>>

\* Take the lock and ask the domain for nvec consecutive hwirqs; when the
\* domain has no such range, unlock and return -1.
AllocReserves(t) ==
  LET d == DevOf[t]
      n == nvec[t]
      Bases == {b \in Hwirqs : Block(b, n) \subseteq Hwirqs \ reserved}
  IN
  /\ pc[t] = "alloc_enter"
  /\ lock[d] = NoThread
  /\ \/ /\ Bases = {}
        /\ ret' = [ret EXCEPT ![t] = -1]
        /\ pc'  = [pc EXCEPT ![t] = "idle"]
        /\ NoLocals(t)
        /\ UNCHANGED <<lock, reserved>>
     \/ \E b \in Bases :
          /\ snap'     = [snap EXCEPT ![t] = list[d]]
          /\ base'     = [base EXCEPT ![t] = b]
          /\ reserved' = reserved \cup Block(b, n)
          /\ lock'     = [lock EXCEPT ![d] = t]
          /\ pc'       = [pc EXCEPT ![t] = "alloc_loop"]
          /\ UNCHANGED <<ret, req, nvec, i>>
  /\ UNCHANGED <<registered, list, num_vectors, desc, irqmap, apiVars>>

\* Fault-injection variant of AllocStep: the descriptor is inserted at the
\* head of the list (list_add instead of a tail insert).
AllocStepHeadInsert(t) ==
  LET d == DevOf[t]
      x == KmallocDesc
      h == base[t] + i[t]
      v == CreateMapping(h)
  IN
  /\ pc[t] = "alloc_loop" /\ i[t] < nvec[t]
  /\ x # NoDesc
  /\ desc'   = [desc EXCEPT ![x] = [live |-> TRUE, hwirq |-> h, irq |-> v,
                                    refcount |-> 2, owner |-> d]]
  /\ irqmap' = [irqmap EXCEPT ![h] = v]
  /\ list'   = [list EXCEPT ![d] = <<x>> \o @]
  /\ num_vectors' = [num_vectors EXCEPT ![d] = @ + 1]
  /\ i'      = [i EXCEPT ![t] = @ + 1]
  /\ UNCHANGED <<registered, lock, reserved, pc, req, nvec, base, ret, snap,
                 apiVars>>

\* One iteration of the population loop that succeeds: a fresh descriptor
\* for hwirq_base + i, mapped, then msi_desc_list_add_locked (tail insert,
\* num_vectors++, refcount++).
AllocStep(t) ==
  LET d == DevOf[t]
      x == KmallocDesc
      h == base[t] + i[t]
      v == CreateMapping(h)
  IN
  /\ pc[t] = "alloc_loop" /\ i[t] < nvec[t]
  /\ x # NoDesc
  /\ desc'   = [desc EXCEPT ![x] = [live |-> TRUE, hwirq |-> h, irq |-> v,
                                    refcount |-> 2, owner |-> d]]
  /\ irqmap' = [irqmap EXCEPT ![h] = v]
  /\ list'   = [list EXCEPT ![d] = Append(@, x)]
  /\ num_vectors' = [num_vectors EXCEPT ![d] = @ + 1]
  /\ i'      = [i EXCEPT ![t] = @ + 1]
  /\ UNCHANGED <<registered, lock, reserved, pc, req, nvec, base, ret, snap,
                 apiVars>>

\* An iteration that fails: kmalloc returns NULL, or irq_create_mapping
\* returns 0 and the fresh descriptor is kfree'd; goto cleanup.
AllocStepFails(t) ==
  /\ pc[t] = "alloc_loop" /\ i[t] < nvec[t]
  /\ pc' = [pc EXCEPT ![t] = "alloc_cleanup"]
  /\ UNCHANGED <<regVars, desc, domVars, locals, ret, apiVars>>

\* All nvec descriptors published: unlock, return nvec.
AllocDone(t) ==
  /\ pc[t] = "alloc_loop" /\ i[t] = nvec[t]
  /\ lock' = [lock EXCEPT ![DevOf[t]] = NoThread]
  /\ pc'   = [pc EXCEPT ![t] = "idle"]
  /\ ret'  = [ret EXCEPT ![t] = nvec[t]]
  /\ NoLocals(t)
  /\ UNCHANGED <<registered, list, num_vectors, desc, domVars, apiVars>>

\* Fault-injection variants of AllocRollback: the loop condition lets i
\* step below zero (the uint32_t wraps to 2^32 - 1, out of 0..nvec just as
\* -1 is); the mapping is not disposed; num_vectors is
\* not decremented.
AllocRollbackUnsignedWrap(t) ==
  LET d == DevOf[t]
      h == base[t] + i[t] - 1
      k == SelectInSeq(list[d], LAMBDA y : desc[y].hwirq = h)
      x == list[d][k]
  IN
  /\ pc[t] = "alloc_cleanup"
  /\ i' = [i EXCEPT ![t] = @ - 1]
  /\ IF k = 0
       THEN UNCHANGED <<list, num_vectors, desc, irqmap>>
       ELSE /\ irqmap' = DisposeMapping(desc[x].irq)
            /\ Unlink(d, k)
            /\ num_vectors' = [num_vectors EXCEPT ![d] = @ - 1]
            /\ desc' = [desc EXCEPT ![x] = FreeSlot]
  /\ UNCHANGED <<registered, lock, reserved, pc, req, nvec, base, ret, snap,
                 apiVars>>

AllocRollbackKeepsMapping(t) ==
  LET d == DevOf[t]
      h == base[t] + i[t] - 1
      k == SelectInSeq(list[d], LAMBDA y : desc[y].hwirq = h)
      x == list[d][k]
  IN
  /\ pc[t] = "alloc_cleanup" /\ i[t] > 0
  /\ i' = [i EXCEPT ![t] = @ - 1]
  /\ IF k = 0
       THEN UNCHANGED <<list, num_vectors, desc>>
       ELSE /\ Unlink(d, k)
            /\ num_vectors' = [num_vectors EXCEPT ![d] = @ - 1]
            /\ desc' = [desc EXCEPT ![x] = FreeSlot]
  /\ UNCHANGED <<registered, lock, reserved, irqmap, pc, req, nvec, base,
                 ret, snap, apiVars>>

AllocRollbackNoCount(t) ==
  LET d == DevOf[t]
      h == base[t] + i[t] - 1
      k == SelectInSeq(list[d], LAMBDA y : desc[y].hwirq = h)
      x == list[d][k]
  IN
  /\ pc[t] = "alloc_cleanup" /\ i[t] > 0
  /\ i' = [i EXCEPT ![t] = @ - 1]
  /\ IF k = 0
       THEN UNCHANGED <<list, desc, irqmap>>
       ELSE /\ irqmap' = DisposeMapping(desc[x].irq)
            /\ Unlink(d, k)
            /\ desc' = [desc EXCEPT ![x] = FreeSlot]
  /\ UNCHANGED <<registered, num_vectors, lock, reserved, pc, req, nvec,
                 base, ret, snap, apiVars>>

\* Fault-injection variant of AllocRollback: the list search never advances
\* past a descriptor that does not match (d = d->list.next missing), so it
\* spins when the head is not the one sought.
AllocRollbackNoAdvance(t) ==
  LET d == DevOf[t]
      h == base[t] + i[t] - 1
      k == SelectInSeq(list[d], LAMBDA y : desc[y].hwirq = h)
      x == list[d][k]
  IN
  /\ pc[t] = "alloc_cleanup" /\ i[t] > 0
  /\ list[d] = <<>> \/ k = 1
  /\ i' = [i EXCEPT ![t] = @ - 1]
  /\ IF k = 0
       THEN UNCHANGED <<list, num_vectors, desc, irqmap>>
       ELSE /\ irqmap' = DisposeMapping(desc[x].irq)
            /\ Unlink(d, k)
            /\ num_vectors' = [num_vectors EXCEPT ![d] = @ - 1]
            /\ desc' = [desc EXCEPT ![x] = FreeSlot]
  /\ UNCHANGED <<registered, lock, reserved, pc, req, nvec, base, ret, snap,
                 apiVars>>

\* One rollback iteration: i--, then walk the list from the sentinel for the
\* first descriptor whose hwirq is hwirq_base + i; if found, dispose its
\* mapping, unlink it, num_vectors-- and kfree it.
AllocRollback(t) ==
  LET d == DevOf[t]
      h == base[t] + i[t] - 1
      k == SelectInSeq(list[d], LAMBDA y : desc[y].hwirq = h)
      x == list[d][k]
  IN
  /\ pc[t] = "alloc_cleanup" /\ i[t] > 0
  /\ i' = [i EXCEPT ![t] = @ - 1]
  /\ IF k = 0
       THEN UNCHANGED <<list, num_vectors, desc, irqmap>>
       ELSE /\ irqmap' = DisposeMapping(desc[x].irq)
            /\ Unlink(d, k)
            /\ num_vectors' = [num_vectors EXCEPT ![d] = @ - 1]
            /\ desc' = [desc EXCEPT ![x] = FreeSlot]
  /\ UNCHANGED <<registered, lock, reserved, pc, req, nvec, base, ret, snap,
                 apiVars>>

\* Fault-injection variant of AllocRollbackDone: the range handed back to
\* the domain is one hwirq short.
AllocRollbackDoneShort(t) ==
  /\ pc[t] = "alloc_cleanup" /\ i[t] = 0
  /\ reserved' = reserved \ Block(base[t], nvec[t] - 1)
  /\ lock' = [lock EXCEPT ![DevOf[t]] = NoThread]
  /\ pc'   = [pc EXCEPT ![t] = "idle"]
  /\ ret'  = [ret EXCEPT ![t] = -1]
  /\ NoLocals(t)
  /\ UNCHANGED <<registered, list, num_vectors, desc, irqmap, apiVars>>

\* Rollback finished: give the whole block back to the domain, unlock,
\* return -1.
AllocRollbackDone(t) ==
  /\ pc[t] = "alloc_cleanup" /\ i[t] = 0
  /\ reserved' = reserved \ Block(base[t], nvec[t])
  /\ lock' = [lock EXCEPT ![DevOf[t]] = NoThread]
  /\ pc'   = [pc EXCEPT ![t] = "idle"]
  /\ ret'  = [ret EXCEPT ![t] = -1]
  /\ NoLocals(t)
  /\ UNCHANGED <<registered, list, num_vectors, desc, irqmap, apiVars>>

-----------------------------------------------------------------------------
(* msi_free_vectors                                                        *)

\* Fault-injection variant of FreeVectorsBegin: the walk starts without
\* waiting for the lock.
FreeVectorsBeginNoLock(t) ==
  LET d == DevOf[t] IN
  /\ pc[t] = "free_enter"
  /\ lock' = [lock EXCEPT ![d] = t]
  /\ pc'   = [pc EXCEPT ![t] = "free_loop"]
  /\ UNCHANGED <<registered, list, num_vectors, desc, domVars, locals, ret,
                 apiVars>>

\* Without a registry the call returns at once; otherwise msi_data =
\* dev->msi_data is read before the lock is taken.
FreeVectorsEnter(t) ==
  LET d == DevOf[t] IN
  /\ pc[t] = "idle"
  /\ pc' = [pc EXCEPT ![t] = IF registered[d] THEN "free_enter" ELSE "idle"]
  /\ ret' = [ret EXCEPT ![t] = 0]
  /\ UNCHANGED <<registered, list, num_vectors, lock, desc, domVars, locals,
                 apiVars>>

\* spin_lock_irqsave(&msi_data->lock)
FreeVectorsBegin(t) ==
  LET d == DevOf[t] IN
  /\ pc[t] = "free_enter" /\ lock[d] = NoThread
  /\ lock' = [lock EXCEPT ![d] = t]
  /\ pc'   = [pc EXCEPT ![t] = "free_loop"]
  /\ UNCHANGED <<registered, list, num_vectors, desc, domVars, locals, ret,
                 apiVars>>

FreeVectorsStep(t) ==
  LET d == DevOf[t]
      x == Head(list[d])
  IN
  /\ pc[t] = "free_loop" /\ list[d] # <<>>
  /\ irqmap' = IF desc[x].irq # 0 THEN DisposeMapping(desc[x].irq) ELSE irqmap
  /\ reserved' = reserved \ {desc[x].hwirq}
  /\ Unlink(d, 1)
  /\ num_vectors' = [num_vectors EXCEPT ![d] = @ - 1]
  /\ desc' = [desc EXCEPT ![x] = FreeSlot]
  /\ UNCHANGED <<registered, lock, pc, locals, ret, apiVars>>

FreeVectorsDone(t) ==
  LET d == DevOf[t] IN
  /\ pc[t] = "free_loop" /\ list[d] = <<>>
  /\ lock' = [lock EXCEPT ![d] = NoThread]
  /\ pc'   = [pc EXCEPT ![t] = "idle"]
  /\ UNCHANGED <<registered, list, num_vectors, desc, domVars, locals, ret,
                 apiVars>>

-----------------------------------------------------------------------------
(* The public descriptor API used directly by a caller                     *)

\* msi_desc_alloc(dev, nvec): a zeroed, self-linked descriptor with one
\* reference (hwirq = irq = 0); the caller keeps the pointer.
msi_desc_alloc(t) ==
  LET x == KmallocDesc IN
  /\ t \in LegacyThreads /\ pc[t] = "idle"
  /\ handle[t] = NoDesc /\ x # NoDesc
  /\ desc'    = [desc EXCEPT ![x] = [FreeSlot EXCEPT !.live = TRUE,
                                                      !.refcount = 1]]
  /\ handle'  = [handle EXCEPT ![t] = x]
  /\ hlisted' = [hlisted EXCEPT ![t] = FALSE]
  /\ UNCHANGED <<regVars, domVars, pc, locals, ret, snap>>

\* Fault-injection variant of msi_desc_list_add: num_vectors is not
\* incremented.
msi_desc_list_add_NoCount(t) ==
  LET d == DevOf[t]
      x == handle[t]
  IN
  /\ t \in LegacyThreads /\ pc[t] = "idle"
  /\ x # NoDesc /\ ~hlisted[t]
  /\ registered[d] /\ lock[d] = NoThread
  /\ list' = [list EXCEPT ![d] = Append(@, x)]
  /\ desc' = [desc EXCEPT ![x].refcount = @ + 1, ![x].owner = d]
  /\ hlisted' = [hlisted EXCEPT ![t] = TRUE]
  /\ ret' = [ret EXCEPT ![t] = 0]
  /\ UNCHANGED <<registered, num_vectors, lock, domVars, pc, locals, handle>>

\* Fault-injection variant of msi_desc_list_add: the list takes no
\* reference (refcount++ missing).
msi_desc_list_add_NoRef(t) ==
  LET d == DevOf[t]
      x == handle[t]
  IN
  /\ t \in LegacyThreads /\ pc[t] = "idle"
  /\ x # NoDesc /\ ~hlisted[t]
  /\ registered[d] /\ lock[d] = NoThread
  /\ list' = [list EXCEPT ![d] = Append(@, x)]
  /\ num_vectors' = [num_vectors EXCEPT ![d] = @ + 1]
  /\ desc' = [desc EXCEPT ![x].owner = d]
  /\ hlisted' = [hlisted EXCEPT ![t] = TRUE]
  /\ ret' = [ret EXCEPT ![t] = 0]
  /\ UNCHANGED <<registered, lock, domVars, pc, locals, handle>>

\* msi_desc_list_add: under the lock, tail insert, num_vectors++,
\* refcount++.
msi_desc_list_add(t) ==
  LET d == DevOf[t]
      x == handle[t]
  IN
  /\ t \in LegacyThreads /\ pc[t] = "idle"
  /\ x # NoDesc /\ ~hlisted[t]
  /\ registered[d] /\ lock[d] = NoThread
  /\ list' = [list EXCEPT ![d] = Append(@, x)]
  /\ num_vectors' = [num_vectors EXCEPT ![d] = @ + 1]
  /\ desc' = [desc EXCEPT ![x].refcount = @ + 1, ![x].owner = d]
  /\ hlisted' = [hlisted EXCEPT ![t] = TRUE]
  /\ ret' = [ret EXCEPT ![t] = 0]
  /\ UNCHANGED <<registered, lock, domVars, pc, locals, handle>>

\* msi_desc_free: drop the caller's reference; at zero, unlink through the
\* descriptor's own list pointers (no lock, num_vectors untouched) and
\* kfree.  The caller no longer holds the pointer.
msi_desc_free(t) ==
  LET x == handle[t]
      o == desc[x].owner
      k == IF o = NoDevice THEN 0
           ELSE SelectInSeq(list[o], LAMBDA y : y = x)
  IN
  /\ t \in LegacyThreads /\ pc[t] = "idle"
  /\ x # NoDesc
  /\ IF desc[x].refcount > 1
       THEN /\ desc' = [desc EXCEPT ![x].refcount = @ - 1]
            /\ UNCHANGED list
       ELSE /\ desc' = [desc EXCEPT ![x] = FreeSlot]
            /\ IF k = 0 THEN UNCHANGED list ELSE Unlink(o, k)
  /\ handle' = [handle EXCEPT ![t] = NoDesc]
  /\ UNCHANGED <<registered, num_vectors, lock, domVars, pc, locals, ret,
                 hlisted>>

-----------------------------------------------------------------------------

Next ==
  \E t \in Threads :
    \/ msi_device_init(t)
    \/ msi_device_cleanup(t)
    \/ \E lo, hi \in ReqVals : AllocRejects(t, lo, hi) \/ AllocEnter(t, lo, hi)
    \/ AllocReserves(t)
    \/ AllocStep(t)
    \/ AllocStepFails(t)
    \/ AllocDone(t)
    \/ AllocRollback(t)
    \/ AllocRollbackDone(t)
    \/ FreeVectorsEnter(t)
    \/ FreeVectorsBegin(t)
    \/ FreeVectorsStep(t)
    \/ FreeVectorsDone(t)
    \/ msi_desc_alloc(t)
    \/ msi_desc_list_add(t)
    \/ msi_desc_free(t)

Spec == Init /\ [][Next]_vars

-----------------------------------------------------------------------------
(* Properties                                                              *)

TypeOK ==
  /\ registered \in [Devices -> BOOLEAN]
  /\ list \in [Devices -> Seq(DescIds)]
  /\ num_vectors \in [Devices -> Nat]
  /\ lock \in [Devices -> Threads \cup {NoThread}]
  /\ desc \in [DescIds -> DescRec]
  /\ reserved \subseteq Hwirqs
  /\ irqmap \in [Hwirqs -> Nat]
  /\ pc \in [Threads -> {"idle", "alloc_enter", "alloc_loop", "alloc_cleanup",
                         "free_enter", "free_loop"}]
  /\ nvec \in [Threads -> 0..MSI_MAX_VECTORS]
  /\ i \in [Threads -> 0..MSI_MAX_VECTORS]
  /\ handle \in [Threads -> DescIds \cup {NoDesc}]

\* Threads between taking the lock in msi_alloc_vectors and returning
InFlight == {t \in Threads : pc[t] \in {"alloc_loop", "alloc_cleanup"}}

\* Mapped descriptors: those msi_alloc_vectors created
MappedDescs == {x \in LiveDescs : desc[x].irq # 0}

\* Domain accounting (spec 3, 4.4, 7): the hwirqs the shared MSI domain
\* holds reserved are exactly those of live mapped descriptors plus the
\* blocks of allocations still in progress, and no hwirq is owned twice.
\* Broken by a rollback or free_vectors that returns too little or too
\* much of a block, including across devices sharing the domain.
DomainAccounting ==
  /\ reserved = {desc[x].hwirq : x \in MappedDescs}
                \cup UNION {Block(base[t], nvec[t]) : t \in InFlight}
  /\ \A x, y \in MappedDescs : x # y => desc[x].hwirq # desc[y].hwirq

\* Mapping accounting (spec 3, 8.3): virq is non-zero iff irq_create_mapping
\* holds a mapping for the descriptor's hwirq, the domain maps no hwirq
\* that no live descriptor owns, and every descriptor on a registry list
\* has a mapped virq.
MappingAccounting ==
  /\ \A x \in MappedDescs : irqmap[desc[x].hwirq] = desc[x].irq
  /\ \A h \in Hwirqs : irqmap[h] # 0 => \E x \in MappedDescs : desc[x].hwirq = h
  /\ \A d \in Devices : \A k \in 1..Len(list[d]) : desc[list[d][k]].irq # 0

\* Registry integrity (spec 3, 4.3): for every device with a registry,
\* num_vectors equals the list length, the list holds distinct live
\* descriptors with a positive reference count, and no descriptor is on
\* two devices' lists.
RegistryIntegrity ==
  /\ \A d \in Devices : registered[d] =>
       /\ num_vectors[d] = Len(list[d])
       /\ IsInjective(list[d])
       /\ \A k \in 1..Len(list[d]) :
            desc[list[d][k]].live /\ desc[list[d][k]].refcount >= 1
  /\ \A d, e \in Devices : d # e => ToSet(list[d]) \cap ToSet(list[e]) = {}

\* A step on which thread t returns from msi_alloc_vectors after taking
\* the lock
AllocReturns(t) == t \in InFlight /\ pc'[t] = "idle"

\* Outcome of msi_alloc_vectors (spec 4.4, 7, 8.1, 8.2, 8.5): a success
\* returns a power of two n with min_vecs <= n <= max_vecs and leaves the
\* device list as it was at lock time followed by n descriptors with
\* consecutive hwirqs in list order; a failure leaves the list exactly as
\* it was at lock time.
AllocOutcome ==
  [][\A t \in Threads : AllocReturns(t) =>
      LET d == DevOf[t]
          n == ret'[t]
          L == list'[d]
          m == Len(snap[t])
      IN IF n > 0
           THEN /\ IsPow2(n) /\ req[t][1] <= n /\ n <= req[t][2]
                /\ Len(L) = m + n
                /\ SubSeq(L, 1, m) = snap[t]
                /\ \A k \in 1..n :
                     desc'[L[m + k]].hwirq = desc'[L[m + 1]].hwirq + k - 1
           ELSE L = snap[t]]_vars

\* No leak (spec 3, 4.3): every live descriptor is reachable, from a
\* registry list or from a caller holding a reference.  msi_device_cleanup
\* drops one reference per listed descriptor, but msi_alloc_vectors leaves
\* them with two, so a device cleaned up without msi_free_vectors strands
\* its descriptors together with their mappings and hwirqs.
NoLeak ==
  LiveDescs \subseteq UNION {ToSet(list[d]) : d \in Devices}
                       \cup {handle[t] : t \in Threads}

\* A reference keeps its descriptor (spec 3): a descriptor a caller still
\* holds a reference to has not been kfree'd.  msi_free_vectors and the
\* rollback of msi_alloc_vectors kfree listed descriptors whatever their
\* reference count.
NoDanglingHandle ==
  \A t \in Threads : handle[t] # NoDesc => desc[handle[t]].live



\* msi_desc_free unlinks without the lock only from no list (spec 3, 4.3,
\* 5): a descriptor a caller holds that sits on a registry list carries the
\* list's reference besides the caller's, so the caller's msi_desc_free
\* drops the count to one and leaves the list alone.  Otherwise its
\* lock-free list_del would race the walks alloc_vectors, free_vectors and
\* cleanup make of that list under the lock.
ListedHeldHasListRef ==
  \A t \in Threads :
    LET x == handle[t] IN
    x # NoDesc /\ (\E d \in Devices : x \in ToSet(list[d])) =>
      desc[x].refcount >= 2

\* Links into a live registry (spec 9: cleanup paths must never reach the
\* registry after it is destroyed): a descriptor a caller can still pass to
\* msi_desc_free, and whose list pointers are not self-linked, is on the
\* list of a registry that exists, since msi_desc_free unlinks through
\* those pointers.  msi_device_cleanup unlinks the descriptors from the
\* sentinel but leaves their own pointers aimed at the registry it kfrees.
HeldLinksValid ==
  \A t \in Threads :
    LET x == handle[t] IN
    x # NoDesc /\ desc[x].live /\ desc[x].owner # NoDevice =>
      registered[desc[x].owner] /\ x \in ToSet(list[desc[x].owner])

\* The registry outlives its users (spec 1, 4.3, 9): when
\* msi_device_cleanup kfrees a device's registry, no other call on that
\* device is under way.  msi_alloc_vectors and msi_free_vectors read
\* dev->msi_data before they take its lock, and cleanup unlocks before its
\* kfree, so a call that read the pointer (or spins on the lock) while
\* cleanup runs goes on to lock and walk freed memory.
RegistryFreedUnused ==
  [][\A d \in Devices :
       registered[d] /\ ~registered'[d] =>
         \A t \in Threads : DevOf[t] = d => pc[t] = "idle"]_vars

-----------------------------------------------------------------------------
(* Refinement of MsiRegistry                                               *)

\* hwirqs of a list of descriptors, in list order
HwirqsOf(s) == [k \in 1..Len(s) |-> desc[s[k]].hwirq]

\* The registry as callers see it: an allocation takes effect when it
\* returns (until then the device shows its list at lock time); a
\* msi_free_vectors takes effect when it takes the lock.
AbsVectors(d) ==
  IF \E t \in Threads : DevOf[t] = d /\ pc[t] = "free_loop" THEN <<>>
  ELSE IF \E t \in InFlight : DevOf[t] = d
       THEN HwirqsOf(snap[CHOOSE t \in InFlight : DevOf[t] = d])
       ELSE HwirqsOf(list[d])

Registry == INSTANCE MsiRegistry
              WITH absReg <- registered,
                   vectors <- [d \in Devices |-> AbsVectors(d)]

\* msi.c implements the registry contract: every step of init, cleanup,
\* alloc_vectors (including its failures and rollback) and free_vectors,
\* in any interleaving of threads and devices, is either invisible or one
\* atomic registry operation, so a device's hwirqs are appended as one
\* fresh block of consecutive ids that no device owns, and drained whole.
RefinesRegistry == Registry!Spec

-----------------------------------------------------------------------------
(* Liveness                                                                *)

\* A thread holding a registry lock runs with local interrupts disabled
\* (spin_lock_irqsave) and is not preempted, so each of its steps until
\* the unlock is eventually taken.
LockedSteps(t) ==
  \/ AllocStep(t) \/ AllocStepFails(t) \/ AllocDone(t)
  \/ AllocRollback(t) \/ AllocRollbackDone(t)
  \/ FreeVectorsStep(t) \/ FreeVectorsDone(t)

FairSpec == Spec /\ \A t \in Threads : WF_vars(LockedSteps(t))

\* Where a thread holds the registry lock of its device
LockHeld == {"alloc_loop", "alloc_cleanup", "free_loop"}

\* Every thread that took a registry lock in msi_alloc_vectors or
\* msi_free_vectors eventually returns and releases it: the population
\* loop, the rollback loop with its list search, and the free walk all
\* terminate.  (A thread still spinning for the lock is not promised it:
\* the spin lock grants it in no particular order.)
LockHolderReturns ==
  \A t \in Threads : pc[t] \in LockHeld ~> pc[t] = "idle"

=============================================================================
