# A TLA+ model of the LonganPi-3H SDK drivers

The repository is the SDK of a board with an Allwinner H616/H618. Most of it is
patches, headers and build scripts. The program it contains is two kernel
drivers under `bsp/drivers`:

* **cedar-ve** (`ve/cedar-ve/cedar_ve.c`), the driver of the video engine: user
  space runs the codec through ioctls and mapped registers, the driver
  arbitrates who may use the engine, powers it, and reports its interrupts;
* **sunxi-iommu** (`iommu/sunxi-iommu-pgtable.c`, `sunxi-iommu-v1.c`), the
  IOMMU through which the engine and the display see memory: the driver keeps a
  two-level page table and invalidates the translation caches of the hardware.

Both are concurrent: ioctls of many processes, the death of any of them,
interrupts, system sleep, and a device that reads the tables without a lock.
None of that is covered by a test in the repository. This directory models the
parts where it matters, checks them with TLC and proves the central results
with TLAPS.

Paths below are relative to `src/bsp/drivers`.

## 1. Inventory

| Component | State | Operations | Hard behaviour | Correct when | Module |
|---|---|---|---|---|---|
| VE locks | five mutexes, `lock_flags` of each file | `IOCTL_GET_LOCK`, `IOCTL_RELEASE_LOCK`, `cedardev_open`, `cedardev_release` | threads sharing a file, death inside a call, wrong arguments | one holder per lock, none lost | `VeLock` |
| VE power | `ref_count`, `sem`, `clk_status`, counts of clocks and power domain | `IOCTL_ENGINE_REQ/REL`, `ENABLE_VE`, `DISABLE_VE`, `RESET_VE`, `SET_REFCOUNT`, suspend, resume | failing clocks, sleep with users, deaths | on while used, off when not, counts exact | `VeEngine` |
| VE interrupts | flag and value per channel | `VideoEngineInterupt`, `IOCTL_WAIT_VE_*`, open, release | handler and waiter without a common lock, timeouts | a wait answers for its own job and ends | `VeIrq` |
| VE process info | `ve_debug_proc_info`, `lock_proc` | `IOCTL_SET/COPY/STOP_PROC_INFO`, debugfs reader | a mutex held across two ioctls | one writer at a time, whole texts, reader not stuck | `VeProcInfo` |
| VE debug info | 16 slots `debug_info`, `debug_info_cur_index` | `IOCTL_PROC_INFO_COPY/STOP` | index written outside the lock, failed copy | a text is in its thread's slot and freed once | `VeDebugInfo` |
| VE DMA buffers | list of imported buffers, `lock_mem` | `IOCTL_GET/FREE_IOMMU_ADDR`, `IOCTL_MAP/UNMAP_DMA_BUF` | descriptor reuse, death, failing copies | each reference, attachment and mapping given back once | `VeDmaBuf` |
| VE case load | `load_infos`, frequency | `UPDATE_CASE_LOAD_PARAM`, release, `SET_VE_FREQ` | unlocked reader, 32-bit sum | loads as announced, frequency that fits them | `VeLoad` |
| VE power requests | `power_manage_request_ref` | `IOCTL_POWER_SETUP/SHUTDOWN` | unlocked count | powered while requested | another SoC, not modelled |
| VE life cycle | what `cedardev_init` has acquired | init, exit, probe, remove | failure half-way | all is given back once, after its last use | `VeLifecycle` |
| VE mapping, cache, registers | none | `cedardev_mmap`, `FLUSH_CACHE_RANGE`, register ioctls | - | - | pure I/O, not modelled |
| VE task queue | - | - | - | - | dead code (`#undef USE_CEDAR_ENGINE`), not modelled |
| IOMMU page table | directory, second level tables, slab cache | map, unmap, `iova_to_phys`, clearing of a freed domain | allocation failure and unrolling, ranges in pieces, address wrap | all-or-nothing requests, no table lost | `IommuPgtable` |
| IOMMU TLB | TLB, page-walk cache | invalidations of map, unmap, sync per hardware version, of faults, flush | the device walks at any time, faults, resume | no stale translation | `IommuTlb` |
| IOMMU devices and domains | one global domain and group, bypass bits | alloc, free, probe, release, xlate, suspend, resume | free and reuse of the global domain | a bound device is translated, across sleep | `IommuDevice` |
| IOMMU fault interrupt | status and reset registers | `sunxi_iommu_irq` | faults and resets while the handler runs | each fault ends in a reset of its master | `IommuDevice`, `IommuTlb` |
| IOMMU reserved regions | `rsv_list` | `sunxi_iommu_check_cmd`, `get_resv_regions` | filled lazily, re-initialised | every region once | one device at a time, not modelled |
| IOVA trace | two lists | vendor hooks | no lock | list matches the allocator | not built, not modelled |
| IOMMU tests | - | debugfs | - | - | test code; its expectations became properties |
| IOMMU V2, V3 | - | - | - | - | copies for other SoCs; one of the three is built |
| headers, patches, scripts, overlay | - | - | - | - | no program state |

How the parts interact. A client opens the device, requests the engine
(`VeEngine`), takes the lock of the part it needs (`VeLock`), starts a job through
the mapped registers and waits for its interrupt (`VeIrq`), and gives lock and
engine back. `VeIrq` therefore takes from `VeLock` that one client at a time runs a job,
and from `VeEngine` that `ref_count` is 0 exactly when nobody has requested the
engine. The buffers of the job are mapped through the DMA API, which calls the
IOMMU driver (`IommuPgtable`) while the engine, through the caches of `IommuTlb`,
keeps reading other buffers; the driver's own list of these buffers is `VeDmaBuf`,
the power of the IOMMU and its devices `IommuDevice`. Beside that a client
publishes texts about itself (`VeProcInfo`, `VeDebugInfo`) and its load (`VeLoad`).
When a process dies, `cedardev_release` cleans up in `VeLock`, `VeEngine`, `VeIrq`,
`VeProcInfo` and `VeLoad`, but not in `VeDebugInfo` and `VeDmaBuf`. All of it exists
between probe and remove (`VeLifecycle`).

The hazards, each at its line, are listed in `PROJECT.json`, with the properties
that cover them or the reason why none does.

## 2. Modules

| Module | What it is |
|---|---|
| `VeLockService` | abstract: locks are granted to one thread and come back by return or reclamation |
| `VeLock` | the lock ioctls, one step per mutex operation or section under `lock_flag_io`; refines `VeLockService` |
| `VeLockProofs` | the theorems about `VeLock` |
| `VeEngine` | power, cut at the semaphore, the change of `ref_count`, the spinlock section and the clock switching |
| `VeEngineProofs` | the theorems about `VeEngine` |
| `VeIrq` | interrupt handler against the waiting ioctl |
| `VeIrqProofs` | the theorems about `VeIrq` |
| `IommuAddressSpace` | abstract: a map from pages to frames, changed by requests that are all-or-nothing |
| `IommuPgtable` | the tables, one step per directory entry or chunk of a table; refines `IommuAddressSpace` |
| `IommuPgtableProofs` | the theorems about `IommuPgtable` |
| `IommuTlb` | `IommuPgtable` with the TLB and the page-walk cache |
| `IommuTlbProofs` | the theorems about `IommuTlb`, on top of those about `IommuPgtable` |
| `IommuDevice` | devices, the one domain, bypass, sleep, resets and faults |
| `VeProcInfo` | the texts behind the debugfs file, and the mutex held between two ioctls |
| `VeDebugInfo` | the table of texts behind the sysfs file, and its unprotected index |
| `VeLoad` | the announced loads and the frequency picked from them |
| `VeClientProofs` | the theorems about `VeProcInfo`, `VeDebugInfo` and `VeLoad` |
| `VeBufferService` | abstract: a buffer is there as long as somebody names it, is mapping it or has mapped it |
| `VeDmaBuf` | the list of imported buffers, one step per thing acquired; refines `VeBufferService` |
| `VeDmaBufProofs` | the theorems about `VeDmaBuf` |
| `VeLifecycle` | init, failure half-way, exit and unbinding, under users |
| `DriversProofs` | the theorems about `VeLifecycle` and `IommuDevice` |
| `MCVeLock`, `MCVeEngine`, `MCVeIrq`, `MCVeProcInfo`, `MCVeTables`, `MCIommu`, `MCIommuTlb`, `MCDrivers` | values of the constants for TLC |

Each definition and the lines it models are in `"map"` of `PROJECT.json`.
Definitions commented "Faulty variant" are not part of the specifications: each is
what a plausible mistake in the code would look like, and some property is
violated when it replaces the definition it varies.

### VeLock

`mutex[l]` is the kernel mutex, `lock_flags[f]` is `info->lock_flags` of a file,
`filp[f]` whether the file is open, `pc` and `lock_type` where a thread is and with
which argument; `holds[t]` is what a client was *told*, which the properties
compare with what the driver remembers. A lock type is a set of bits, as in the code; one
that is not exactly one bit takes the "invalid lock type" branch and goes on.
`GET_LOCK` is `GetLock`, `MutexLock` (or the branch past it) and `SetFlag`; `RELEASE_LOCK` is
`CheckFlag` (without the lock, as in the code), `ClearFlag`, `MutexUnlock`.
Sharing of a file (fork, threads), `close`, and a fatal signal are external actions; `mutex_lock` is
uninterruptible, so a killed thread that waits in it stays. `cedardev_release`
runs only when no thread is attached to the file. `ReleaseLostLock` gives back the
locks in one step: nobody else can reach the file any more, and each unlock commutes with what
other files do. With `Polite`, a client releases what it was granted; without it, any lock
at any time. Clients nest locks in the order `Rank`, as user-space does; otherwise
they could block each other, which is no fault of the driver.

### VeEngine

`count[s]` are the enable counts of the runtime-PM reference and the bus, mbus
and engine clocks. A request is `EngineReq` (takes `sem`), `ReqCount`, `ReqClk` (tests and sets
`clk_status` under the spinlock) and `ReqOn` (switches the supplies, in order, with a
failure possible at each one); a release mirrors it. Suspend and resume do not
take the semaphore; user space is frozen before them, so no thread is inside a
call (`Suspend` requires that). `ENABLE_VE` and `DISABLE_VE` change the count of the engine's clock
without asking who has enabled it: `EnableVe` may fail and returns 0 all the same, and `DisableVe` may come
from anybody at any time, and then switches the clock off under a user. `faults` is a history variable: it remembers
whether a client has misused the interface ("misuse": a release without a request,
`RESET_VE`, `IOCTL_SET_REFCOUNT` at will), has called `DISABLE_VE` without an `ENABLE_VE` before it ("unpaired"), or a
clock has failed to start ("failure"). What holds only as long as none has happened says so
(`PoweredWhileUsed`); the ownership of the semaphore in `Inv` survives all of them, and each part of `ClkStatusTrue` names those
it does not survive: no supply but the engine's clock is ever enabled twice, the others are on exactly when `clk_status` says
so until a clock fails, and the engine's clock is counted right until a failure or an unpaired `DISABLE_VE`.
A client that dies leaves its count behind, as in the code (`lost`).

### VeIrq

One of the three identical channels. The handler stores the value and then the flag
(`IsrValue`, `IsrFlag`), and may do so on another processor, between any two
accesses of a waiter, at which the ioctl is cut. Stores are seen in program order: a weaker
memory order would only add behaviours to the violation that `ve_irq_lost` shows
already. `races` is a history variable for the three situations the protocol
cannot handle: "handover", a close at `ref_count` 0 while another client has the
device open, which sets that client's flag (`cedar_ve.c:2228`); "late", a wait that
times out before its job's interrupt, which is then taken for the next job's;
"torn", a wait that begins between the handler's two stores. The properties say exactly
which of them each answer survives, so they fail if the code had any further
race.

### IommuPgtable

Addresses are pages, frames are physical pages. A request of the IOMMU API
becomes pieces of one page size each, as `iommu_map` and `iommu_unmap` of the
kernel cut it (external: `Fitting` is `iommu_pgsize`; `sunxi_iommu_map` maps one page size per
call and ignores `count`). A piece runs `PrepareL1` for each directory entry, including the
one of `iova_end`, as in the code, whose loop has `<=`; then `PrepareL2` for each chunk of a table; an unmap runs
`DeleteL2` per chunk. An allocation may fail at each `PrepareL1`; the core then unmaps what
the earlier pieces mapped. `CpuPhyToIommuPhy`, `IommuPhyToCpuPhy` and `PteFrame` are the
wrap of physical addresses into the 32 bits of an entry, done by arithmetic. `owned` is
the clients' own account of what they mapped. Clients may unmap ranges
they have not wholly mapped (`Polite` is FALSE in the run): a directory entry that
is invalid makes `sunxi_pgtable_delete_l2_tables` fail, the loop of `sunxi_iommu_unmap` ends, and the whole size
is returned. The history variable `hole` remembers that. From then on entries that clients
believe unmapped may be valid, so `NoOverwrite` and the refinement hold until
then; the ownership and emptiness of tables and the return of every request
hold for ever. `DomainFree` ends the domain: `sunxi_pgtable_clear` empties all tables
in one step, as it holds `dt_lock` and whoever frees a domain has stopped its devices; the kernel
passes a freed domain to nobody, so no request follows. Range ends are exclusive; protection
bits are left out; `WARN_ON(*pent)` is the property `NoOverwrite`.

### IommuTlb

`Walk` is the device: it may at any moment fetch the entry of a page in use, and the
directory entry with it, and `Evict` may drop either. An unmap of a range implies that its
client no longer uses that range (`InUse`). `plat_data` is a row of the table of
platforms, chosen when the device is probed. With `prefetch` the hardware may fetch
any page; the H616/H618 (sun50iw9) disables that (`sunxi-iommu-v1.c:1815`). The three
families of invalidation follow `version`: up to V11 single pages and only at the end,
V12-V13 ranges before and directory entries after the deletion, from V14 both before.
The register accesses of one invalidation are one step: they happen under
`iommu_lock` and take effect with the write of the enable register. `Flushed` empties both caches: for a
freed domain after its tables, and in `sunxi_iommu_hw_init` (`TlbHwInit`), which a resume runs at any point of a
request; `TlbIrq` is the invalidation around the page of a fault, as likely in the middle of one.

### IommuDevice

A device is "off", "probed" or "bound" (`probe_finalize` has been called). `hw` is what the
registers say: whether the table base leads to the domain's table, the bypass bits and whether
translation is enabled; `bypass` is the driver's copy of the bits. The kernel's core
(external) probes a device, asks for a domain and finalizes, in this order; it gives everybody the one
`global_sunxi_iommu_domain`. A sleep switches the clock off and loses the registers, and
`IommuResume` runs the same `HwInit` as the first allocation, which may fail (`hw_fails`).

`sunxi_reset_device_iommu` reads and writes the reset register without a lock, and `sunxi_iommu_irq` reads the status
registers while the masters go on; both are cut at each access of a register that they share, the handler into `IrqRead`,
`IrqClear`, `IrqLow` and `IrqRaise`. It holds `iommu_lock` meanwhile (`LockFree`). A `PermissionFault` or
`WalkFault` is what the hardware (external) may report of a master that translates, at any of these points. It is assumed that a
bit of `INT_STA` which is written to `INT_CLR` clears the fault it stands for: a master has a bit of its own there for
permissions, and one bit stands for the walks of all masters, so that it may clear more than the handler has read. The
handler may also run with no master in the registers, for a prefetch or for nothing. Its callbacks are left out: which of
them is called (with no master, the one of `__ffs(0)`) changes nothing, as nothing in the repository registers one.
`owed` is a history variable with the masters whose fault has not ended in a reset by the handler; `torn` and `late`
remember the two situations the driver cannot handle, a reset that reads the register with another master low, and
a fault of a page walk between the handler's reading and clearing.

### VeProcInfo

`lock_proc` is the owner of the mutex, `proc_flag` the files with `VE_LOCK_PROC_INFO`.
A text is a value; `proc_len[i]` is the text whose *length* channel `i` announces and `proc_data[i]`
the one whose *bytes* are there, so that "the reader sees a whole text" is that they are equal.
SET is `ProcSet`, `ProcLock` and `ProcSetDone` or `ProcSetFails`, and returns with the mutex; COPY is
`ProcCopy`, which clears the flag, and the copying, which may fail, stop half-way (`torn`)
or meet a NULL pointer ("oops": the process is killed in the kernel, with the mutex).
`ProcStop` takes no lock. Clients call COPY after a successful SET and not otherwise, as the
codec library does.

### VeDebugInfo

A call is cut before `lock_debug_info` is taken, because `debug_info_cur_index` is reset there, and between
the search, which sets the index, and its use. `IndexOf` is the choice that the data race leaves to the
build: the index is loaded again, or the value just stored is used. Texts are
allocations: `vsize[b]` is how many bytes buffer `b` has, 0 when it is free. `mishaps` remembers which of three
things has happened: an allocation that failed, a copy that failed, an index that was not the
caller's.

### VeDmaBuf and VeBufferService

The four ioctls are two pairs of the same code. A mapping is cut at each thing it acquires
(reference, attachment, mapping, list entry, answer), each of which may fail and
be unwound; unmapping is one section under `lock_mem`. Descriptors are numbers that a process closes and uses again
for another buffer; `file_count`, `attached` and `mapped` are the counts kept by the
kernel's dma-buf (external). A file is shared by forked processes, and entries are found by
descriptor, process and file. Each process makes one call at a time. Nothing is undone when a
file is released: the call of `unmap_dma_buf_addr` there is commented out. `VeBufferService` is what clients may rely on: a call that
fails leaves nothing, whichever of its steps fails; a mapping outlives the descriptor and the process; and a buffer is freed neither
before nor after its last referrer goes. A call is there only as the buffer it pins, the list as the number of mappings (`Mappings`).

### VeLoad

Compiled with `VE_SUPPORT_DVFS`. An announcement changes its entry under the spinlock; the summation
(`LoadSeesNoRate`, `LoadStoreRate`, `LoadAdd`, one entry at a time) has no lock, and stores a default
rate by a test and a write that another announcement may come between
(`overwritten`). The sum is taken modulo `Word`, as it is a `u32`. `settled` says that a call has set the
frequency and nothing has changed since.

### VeLifecycle

`Chain` is what `cedardev_init` acquires, in order, `GivenBack` what `cedardev_exit` gives back; any
element of `MayFail` may fail, upon which only `create_char_device` unwinds. The driver's `probe` returns
0 all the same, so `remove` follows. Files are opened and closed, sysfs and debugfs read
and power callbacks called whenever the kernel (external) lets them: the device can be unbound while files are
open, and `debugfs_remove_recursive` waits for readers. `faults` remembers double frees, accesses to freed memory and, as
"write after free", that of the last line of `cedardev_exit`, which writes `bInitEndFlag` to what the line before it has
freed, at every removal; `failed`, `removed`, `pulled` and `early` what may have led to them.

## 3. Runs

Passing runs (bounds in parentheses):

| Run | Shows |
|---|---|
| `ve_lock_shared` (3 threads, 2 on one file, 2 locks) | one holder per lock, no rightful release is refused, refinement of `VeLockService` |
| `ve_lock_own` (2 threads with a file each, any release) | the same accounting with clients that release what they do not hold; every lock of an aborted client comes back |
| `ve_engine` (3 threads, `MaxLost` deaths with a request, `ref_count` down to -`MaxUnder`) | powered while used and off when unused, until a fault; the count of users exact until a misuse, also when clocks fail; no supply but the engine's clock enabled twice whatever happens, on exactly when `clk_status` says so until a clock fails, and the engine's clock too until an unpaired `DISABLE_VE`; the semaphore comes back on every path, across sleep |
| `ve_irq` (3 clients) | no interrupt is reported to another job, none is left over, none is reported as a timeout, except after the named races; each wait ends |
| `iommu_pgtable` (2 tables of 4, 6 ranges, frames up to and over the wrap, failing allocation, any unmap) | refinement of `IommuAddressSpace`, no table lost, freed dirty or used unprepared, not even by a domain that is freed, no entry overwritten, every request returns |
| `iommu_tlb` (4 tables of 2, V12 and V15 without prefetching, failing allocation) | no stale translation is used or left, no freed table is walked, with flushes and faults at any point and after the end of the domain |
| `ve_proc_info` (3 clients, two of them on one of 2 channels, a reader) | one writer at a time although the mutex is held in user space; the reader shows whole texts only; whoever waits gets the mutex; only clients that share a channel can make each other fault |
| `ve_tables` (3 threads and 2 slots; 2 processes on one file, 2 descriptors, 2 buffers and 2 entries; 2 files of 2 channels, 2 entries) | a thread has one slot and its text is in it, each text, reference, attachment and mapping is given back once, refinement of `VeBufferService`, lists agree with what the clients were told, the frequency fits the loads |
| `drivers` (2 open files; 3 devices on 2 masters, 2 threads that reset; `MaxTogether` devices, resets and handlers at once) | memory and resources of the driver are given back once and, but for the last line of `cedardev_exit`, after their last use; a bound device is translated across sleep and other devices; resets and the handler leave no master in reset, except after the named race; each fault ends in a reset of its master |

Why the bounds are enough: three threads are a holder, a waiter and one that dies
or shares a file with one of them; two locks are the nesting that user space uses; tables of four
entries have a first, an inner and a last one, and sizes of a part, one and two tables
give every branch of the chunk loop; in `IommuTlb` eight pages let a range exceed
what `sunxi_zap_tlb` invalidates at its ends and contain two whole tables.
In `VeProcInfo` two clients share a channel and one has its own, which is every relation two clients
can have. In `ve_tables` three threads compete for two slots, so that the table is full; two
processes share one file, which is the case where an entry is not found by file alone; loads of 2 at a rate
of 1 or the default of 2 make sums of 2 to 8, which hit both rows of the table, exceed neither,
or wrap to 0 at `Word`. With two entries the case of more than two decoders cannot occur:
it takes the same branch as an encoder or two formats, which do. `ve_tables` and `drivers` each run
modules that share no variable; a behaviour concerns one of them, chosen by `table` or `driver` at the
beginning, so that the state spaces add up. Symmetry permutes threads, tables, processes, buffers or
channels that the specification does not tell apart, and is used in no run with a liveness property.
With `MaxTogether` = 3 the run has three devices, two masters that fault around a running handler, two devices and a reset, or a device
with the handler and a reset or with two resets. The bounds `MaxLost` and `MaxUnder` only stop the two counters of `VeEngine` that clients can
drive without limit.

Runs that show a violation, each a finding in `PROJECT.json` with the line it contradicts:

| Run | What the code does |
|---|---|
| `ve_lock_abort` | an aborted process whose one thread waits for a lock that the other held: the wait keeps the file, the file keeps the lock |
| `ve_engine_half_on` | `clk_status` stays set after a failed start; the next request is told that the engine is on |
| `ve_irq_lost` | the value is cleared between the handler's two stores: a finished job is reported as a timeout |

Further disagreements that the models contain, outside the bounds of the passing
runs or excepted by a history variable. Each is reproduced by the change named:

* `LockTypes <- AllTypes` in `VeLockOwn.cfg` violates `LockAccounted`: `IOCTL_GET_LOCK`
  logs "invalid lock type" for a type that is not one lock, then sets the flags and returns 0.
* `Polite = FALSE` in `VeLockShared.cfg` with `ReleaseUnlocksOwn` as the property: two
  threads of one file that release the same lock both pass the check before `lock_flag_io` is
  taken, and the second unlocks a mutex that another file may own by then.
* `NoSpurious` without "handover" in its exception: `cedardev_release` sets the
  interrupt flags for a client that has only opened the device, whose first wait
  then reports an interrupt that was never generated.
* `NoOverwrite` without `~hole`: after an unmap that met a hole, a map meets
  `WARN_ON(*pent)` (`sunxi-iommu-pgtable.c:196`).
* a platform of version 11, or of version 14 with prefetch, in `Platforms` violates
  `UnmapRevokes`: up to V11 nothing invalidates the inner pages of a range; from V14 on a page
  prefetched between invalidation and deletion stays. Neither is the H616/H618.
* `OnlySharersFault` and `ProcWaitEnds` except a client killed in the kernel: STOP sets the buffer pointer of a
  channel to NULL without `lock_proc`; if another client that shares the channel is between SET and COPY, its COPY
  writes to NULL and `lock_proc` is lost. A COPY without SET, which the model's clients do not make, would
  unlock a mutex of somebody else; a `RELEASE_LOCK` with `VE_LOCK_PROC_INFO` clears the flag without unlocking,
  so that the death of its client unlocks nothing.
* `TextsOwned` and `ShowSurvives` without their exceptions: a copy that fails leaves a pointer to the freed
  text in the slot; a table that is full lets the call go on with an index that is -1 (the call fails) or,
  if another call has set it meanwhile, another thread's slot (its text is replaced). A slot without text
  makes `ve_info_show` read NULL with `lock_debug_info` held.
* `ClientsKnowTheirs` without `strays`: an answer that cannot be copied to user space, or a
  descriptor that is closed while mapped, leaves an entry that is found again under a number that names another
  buffer by then. The buffers of a dead process stay attached and mapped for ever.
* `LoadsAsAnnounced` for files that are gone: the release of a file removes one entry of it, although it may have one
  per channel (the comment at `cedar_ve.c:608` speaks of all), and none at all if a signal interrupts the
  `down_interruptible` before it.
* `LoadsAsAnnounced` without `overwritten`: the default frame rate is stored without the spinlock and may hit an announcement
  made in between. The sum of loads wraps at 32 bits: a load that is too high for every row may look like none.
* Every removal, also a clean one, writes to freed memory: `cedardev_exit` sets `bInitEndFlag` after the `kfree`
  (`cedar_ve.c:2919-2920`; `MemoryLives` says so, and with `"write after free" \notin faults` in its place is violated).
* `MemoryLives` without its other exceptions: `free_devp` leaves `cedar_devp` pointing to freed memory, `cedardev_exit`
  frees it again, and so does the next probe; an unbinding under
  an open file leaves the file with freed memory. `regs_sys_cfg` and `regs_ccmu` are never unmapped, and the debugfs file
  is there before the mutex it takes is initialised.
* `TranslatedWhileBound` without `hw_fails`: `sunxi_iommu_domain_alloc` returns the domain although the hardware could
  not be initialised.
* `NotLeftInReset` without `torn`: a reset that reads the register while another one, or the handler between its two
  writes (`sunxi-iommu-v1.c:1175-1176`), has another master low writes that back, and nobody raises it.
* `FaultsEndInReset` without `late`: the handler clears the bit that stands for the page walks of all masters and resets
  those it has read before. Outside the model, it takes `__ffs` of a bitmap that may be empty (line 1127) and uses the result as an
  index, when an interrupt comes with no master in the registers.
* `ClkStatusTrue` without "unpaired": `IOCTL_DISABLE_VE` (`cedar_ve.c:1740-1747`) without an `ENABLE_VE`, by any
  client, switches the engine's clock off under its user. Without "failure": `IOCTL_ENABLE_VE` returns 0 although the clock
  did not start.
* Outside the models: a version register that does not match the platform makes `probe` return 0 without a driver
  (`sunxi-iommu-v1.c:1674`); entries of the IOVA trace have an uninitialised `next`; `sunxi_iommu_check_cmd`
  that runs out of memory leaves the list of reserved regions incomplete for ever; `map_dma_buf_addr` reads its
  entry after `lock_mem` (`cedar_ve.c:1306`), when another thread of the process may have unmapped it.

Deadlock is checked except in the runs of `VeLock` in which threads share a file: there
threads may wait for a thread of their own file that died with the lock (`ve_lock_abort`), and
the system does stop; and in `ve_proc_info` and `ve_tables`, whose clients come to an end: a dead
thread, process or file does not return, and a mutex that was lost stays locked; and in `iommu_pgtable`, where
a domain that is freed takes no request any more.

### Fairness

* `VeLock`: the kernel runs its code (weak fairness of the steps inside a call and of
  `cedardev_release`), a mutex is handed to a waiter that keeps asking (strong fairness of
  `MutexLock`; kernel mutexes hand off to a starving waiter), an aborted thread exits, and clients release
  what they hold in the end.
* `VeEngine`: threads inside the driver run on. No clock or client is assumed to do anything.
* `VeIrq`: a wait runs on, its timer expires, the handler runs. A job need not finish.
* `VeProcInfo`: a call that is not waiting runs on, a mutex that is free again and again is handed to
  each waiter, the reader's loop runs on, and a client between SET and COPY calls COPY or dies: the
  driver depends on user space for this, and the property says so in its name of the section.
* `IommuPgtable`: the thread with `dt_lock` runs on. Clients need not ask for anything.

## 4. Proofs

`VeLockProofs` proves for *all* threads, files, locks and lock types:

| Theorem | Statement | Assumes |
|---|---|---|
| `TypeCorrect` | the type invariant | - |
| `Exclusion` | `MutualExclusion` | `SoundUse` |
| `Accounting` | every taken mutex can be found by `cedardev_release`, every flag is backed by a mutex | `SoundUse` |
| `NothingLost` | a closed file owns no mutex | `SoundUse` |
| `OwnUnlocked` | `ReleaseUnlocksOwn` | `SoundUse` |
| `NeverRefused` | a rightful release is not refused | `PoliteUse` |
| `Refinement` | `VeLock` implements `VeLockService` | `SoundUse` |

`PoliteUse` says that clients pass one lock at a time and release what they
were granted; `SoundUse` admits also clients that release anything, if each thread has
a file of its own. The disagreements of section 3 show that the results fail without it. It says
nothing of deaths and aborts.

`MutualExclusion` speaks of the clients' view and is not inductive. The invariant
`Inv` ties that view to the driver's state: what a thread was told it holds, it
owns and the file's flag says so (`HoldsOwned`); a taken mutex is recorded in the flag of its owner's file or its owner is in
one of the two windows of a call where it is not (`LockAccounted`), and each flag is
backed by a mutex owned through the file (`FlagOwned`); inside a call, mutex and flag are in the
state that the position in the call implies (`CallOrder`); threads of a closed
file are away (`FileLife`). `InvStep` shows it preserved, action by action; the
theorems follow from it, and the refinement needs it for two steps: a `MutexUnlock` is a `Return` by
the *holder* (`CallOrder`), and `ReleaseLostLock` reclaims only locks whose holders are gone
(`FlagOwned` with the guard that nobody is attached).
The two kinds of use differ in one step, `CheckFlag`: a polite client holds what it releases (`HoldsOwned`),
and one with its own file can only pass the check for a lock that it owns (`FlagOwned`).

`VeEngineProofs` proves for any finite set of threads, any bounds `MaxLost` and
`MaxUnder` and any arguments of `SET_REFCOUNT`:

| Theorem | Statement |
|---|---|
| `Invariance` | the inductive invariant `Inv`, of which each part names the faults it survives |
| `CountIsExact` | `RefCountExact`: the count of users, until a misuse of the calls |
| `ClkStatusIsTrue` | `ClkStatusTrue`: no supply but the engine's clock enabled twice; the enable counts, until a clock fails, that of the engine's clock also until an unpaired `DISABLE_VE` |
| `UsersHavePower` | `PoweredWhileUsed` |
| `OffAtLast` | `OffWhenUnused` |

No assumption restricts the clients: what holds only until a misuse, an unpaired `DISABLE_VE` or a failure says so
itself through `faults`. `PoweredWhileUsed` speaks of users and hardware, which only meet through
`ref_count` and `clk_status`; so `Inv` links users to `ref_count` (`RefCountExact`, by the cardinality of
`Counted`, which includes the threads between count and grant), `ref_count` to `clk_status` (`PowerPhase`: at each point of
a call what the two must be, and between calls that one is set exactly when the
other is positive) and `clk_status` to the supplies and the reset line (`ClkStatusTrue`, `ResetPhase`). The
semaphore keeps at most one thread inside a call (`SemOwned`). The argument that needs most
care is `UsedIdle`: while somebody uses the engine nobody is switching it, since a second counted
thread would make `ref_count` at least 2.

`VeIrqProofs` proves for any set of clients:

| Theorem | Statement |
|---|---|
| `Invariance` | the inductive invariant `Inv` |
| `NothingSpurious` | `NoSpurious`, an action property |
| `NothingLost` | `NoLost`, an action property |
| `NothingLeft` | `NoLeftover` |

Its `Inv` says who may be in a wait (`OwnerPhase`), that a finished job whose wait has begun is still to be seen in
the handler, the flag or the value (`DonePhase`), and that flag and value come
from this job and nothing else (`JobPhase`). The last holds only outside the races
"handover" and "late", which is where the code does otherwise.

`VeClientProofs` proves about `VeProcInfo`, for any clients, channels and texts, however clients share channels:

| Theorem | Statement |
|---|---|
| `OnlyOneWriter` | `OneWriter` |
| `FaultsAreShared` | `OnlySharersFault` |
| `Whole` | outside the section from SET to COPY every channel that is shown has the text it announces |
| `ReadsWhole` | `ReaderSeesWhole`, an action property |

The reader holds `lock_proc`, so nobody is midway (`OneWriter` with `LockHasOwner`); a channel whose
announced length and bytes differ belongs to somebody midway or was left by a copy that
broke off (`WholeButMidway`). `BufferThere` is what makes faults the sharers' own: the buffer of a
client midway can only have been taken by a client of the same channel.

`VeClientProofs` proves about `VeDebugInfo`, for any threads, slots and lengths:

| Theorem | Statement |
|---|---|
| `TextsAreSafe` | `TextsSafe`: one slot per thread, each text in one slot, every slot that is shown readable |
| `StoredInOwnSlot` | `FoundInOwnSlot`, an action property |

`FoundOwn` says why the index may be reset without the mutex: after the search it is the slot found or -1,
nothing else, so whatever is loaded again is the thread's own slot or none. It needs that a search which
finds an empty slot is of a thread that has none (`KeysDiffer`). The texts are then counted in two
steps, since a failing copy breaks one of them but not the other: `Owned`, the one-to-one relation of
slots and allocations, and `OthersReadable`, all but the slot under way.

`VeClientProofs` proves about `VeLoad`, for any files, channels, announcements, size of the table, word size and table of performances:

| Theorem | Statement |
|---|---|
| `LoadInvariance` | the inductive invariant `LoadInv` |
| `LoadsAnnounced` | `LoadsAsAnnounced` |
| `FrequencyFits` | `RateFits` |

`RateFits` compares a frequency with the table at one moment, but the sum behind it was read entry by entry. `SumsRight` carries it
through the summation: a call that has seen no other change (`undisturbed`) has collected exactly the entries below its place
(`SumBelow`), and a default rate it is about to store still finds its entry used. Other summations may store default rates at any
point; these change an entry but not what it amounts to (`WithRate`, `RatesKept`), until one hits another announcement
(`overwritten`). That the table is what was announced needs, besides, that a channel has one entry (`OnePerChannel`): a search takes the first
entry that fits, and there is only one. A release removes one entry, which is all of a file that announced one channel. That entries correspond to announcements one to one gives the equality of
their numbers, by a bijection. What the sum is, and which row of a table it picks, does not enter the proof.

`VeDmaBufProofs` proves for any finite sets of processes, descriptors and buffers, and any length of the list:

| Theorem | Statement |
|---|---|
| `RefInvariance` | the inductive invariant `RefInv` |
| `RefsAccounted` | `EveryRefAccounted` |
| `ListKnown` | `ClientsKnowTheirs` |
| `BufferRefinement` | `VeDmaBuf` implements `VeBufferService` |

Both properties compare numbers with cardinalities, of sets of places in the list, of calls and of descriptors. `CountAt` says how a cardinality
changes when two sets differ in one element; from it follow `PlacesAppend` and `PlacesRemoveAt` for the list (the order behind the removed entry
shifts, so the places are related by a bijection), `CallsMove` for a call that goes on and `DescriptorsMove` and `DescriptorsDie` for descriptors. `AccountedGo` then
reduces a step to its own process: the accounts are kept if what the step adds to a count is what it adds to the other side. That each put finds a
reference to put (`AccountedBounds`), so that no count goes below zero and a freed buffer is never touched (`FreedUnused`), follows from
the accounts themselves. `ListKnown` needs `Knows` for every point of a call: the buffer the call has is still the one its
descriptor names, as the process is in the call and cannot close it, and between the list and the answer there is one entry
more than the client was told of. Steps of other processes only touch entries with their own `p_id` (`ListStep`).

The refinement replaces the three counts by what they stand for. In `VeBufferService` a buffer is referenced while a descriptor names it,
a call is mapping it or a mapping of it exists, and is freed in the step after which none of these holds. `ReferencedIs` says that this is so
exactly when `file_count` is positive, which takes the accounts in both directions: something that refers is counted, and a
count of nothing is zero. `PutFrees` then turns each `dma_buf_put` into the freeing the service asks for. `MappingsAppend` and
`MappingsRemoveAt` relate the list to its number of entries for each process, descriptor and buffer; `CallsKnown`, the part of `Knows` that holds for
every process and not only for those that see all their entries, gives `MapAdd` the descriptor it began with. The steps in
between (attach, map, answer, a refused call) are not seen by the service.

`DriversProofs` proves about `VeLifecycle`, for any number of open files:

| Theorem | Statement |
|---|---|
| `LifeInvariance` | the inductive invariant `LifeInv` |
| `DriverLifeSafe` | `LifeSafe`: its memory, but for the write that ends every removal and the named cases, and its resources |
| `ClientsServedWhole` | `ServedWhole` |

`HeldInPhase` says what is acquired at each step of `cedardev_init` and given back at each step of `cedardev_exit`, `DevpInPhase` where
`cedar_devp` points, `UsersServed` who may still be there. The excuses of the properties are needed where the invariant uses them: after
a failed initialisation `cedar_devp` dangles while the device is bound, and a device that is unbound under an open file leaves
a client behind.

`DriversProofs` proves about `IommuDevice`, for any devices, masters and resetting threads:

| Theorem | Statement |
|---|---|
| `DevicesTranslated` | `TranslatedWhileBound` |
| `ResetsEnd` | `NotLeftInReset` |
| `FaultsAreEnded` | `FaultsEndInReset` |

A bound device has a domain (`DomainThere`), with a domain the registers have the driver's copy of the bypass bits and,
unless their initialisation failed, translate (`HardwareFollows`), and the bit of a master with one device is what that device
asked for (`BitsAsAsked`): sleep disturbs only the second, and `IommuResume` restores it. `ResetInv` is
about the register through the accesses of any number of resets and the handler, as long as no reset has read it with another master low:
what a reset has read lacks at most its own master (`ReadWhole`), and what the register lacks is the master of one reset that
has yet to look at it, or the handler has yet to raise all (`RaisedLater`). `FaultInv` follows a fault through the handler:
before the clearing the status registers have it, between clearing and reset the handler's copies do.

`IommuPgtableProofs` proves for tables of any size, any set of page sizes that are a part or a multiple of what a table
maps, any requests, frames and failures:

| Theorem | Statement |
|---|---|
| `TypeCorrect` | the type invariant: an entry fits the 32-bit window |
| `FrameRoundTrip` | `iommu_phy_to_cpu_phy` undoes the wrap of an entry, over the boundary too |
| `NoTableLost` | `TablesOwned` |
| `FreedEmpty` | `FreeTablesEmpty` |
| `TablesThere` | `L2Ready` |
| `BooksKept` | the inductive invariant `Books` |
| `NothingReplaced` | `NoOverwrite` |
| `Refinement` | `IommuPgtable` implements `IommuAddressSpace` |

The first five hold for ever, the others until an unmap meets a hole, as the run does. `TablesThere` is about
the odd loop of `sunxi_pgtable_prepare_l1_tables`: it starts at `at`, not at the beginning of its table, and steps
by a table; `LoopCovers` shows that it is past the call only when it has been to the table of each page,
because a call is aligned to its size. For the rest, `Books` adds to types and tables (`Sound`) the position of
the loops (`Extent`) and what is mapped at each moment: `Front` is how far a request is, `Held(p)` that page `p` is owned and
not yet cleared or written by the map under way and not yet taken back; `Accounted` says that exactly these have an
entry, and `Placed` that those of a map under way lead to the frames of the request. Only two steps
change an entry, and each changes those of one chunk (`LookupMapped`, `LookupCleared`, from `TablesOwned`: no other directory entry leads
to that table). The freeing of the domain empties all of them, and with them `owned`. With a request done, `Held` is `owned`, and the address space that the tables stand for changes in one step, at the end.

`IommuTlbProofs` proves, for tables of any size, any requests and walks, on hardware of version 12 or later without prefetching and
with clients that unmap what they have mapped (`Supported`):

| Theorem | Statement |
|---|---|
| `TlbInvariance` | the inductive invariant `TlbInv` |
| `Translated` | `TranslationCorrect` |
| `NoneFreed` | `NoFreedTable` |
| `Revoked` | `UnmapRevokes` |

`Books` is its base, since the caches only watch the tables (`TablesAlike`). Such clients never meet a hole (`NoHole`): a directory entry
on the way of a deletion is valid because the pages under it are `Held`. `TlbOk`: the TLB has entries of the tables, and
none of the range under deletion, because a walk only starts for a page in use, which is outside it (`UsedIsMapped`).
`PtwOk`: so has the page-walk cache, with one exception up to V13, the table that was freed a moment ago, between
`DeleteL2` and the invalidation that follows it; from V14 on that invalidation came before, and no walk can have brought the entry
back, as a table is only freed when all its pages are in the range (`Whole`). A flush and the invalidation of a fault only take
entries out (`Shrunk`); with the domain all tables go at once, and nothing is cached any more (`CachesFreed`).

Of the constants only what the `ASSUME`s of the modules say is assumed: their types, sentinels outside the sets, the sizes
of the tables, and that sets that are counted (threads, processes, descriptors) are finite. Every invariant, action property and refinement that a
passing run checks is proved. Only model-checked is liveness (`LostLocksReturn`, `SemReturned`, `WaitEnds`, `RequestEnds`,
`ProcWaitEnds`), which TLAPS does not handle under fairness.

## 5. Plan

What is modelled now is what the first plan named, except where section 6 says why not. What is left
is a composition of `VeLock`, `VeEngine` and `VeIrq`: one client session end to end, from
which the assumptions that `VeIrq` takes from the other two follow.

## 6. Not modelled

Details without which the models are complete: bit layouts of registers and the decoding of status bits; protection bits of
entries; cache maintenance of the tables (memory is coherent in the model); the clock tree below a single
enable count. Time-outs of invalidations are left out because the driver ignores them: with one, no
property of the caches can hold.

Components without a module:

* **VE power requests** (`IOCTL_POWER_SETUP`, `IOCTL_POWER_SHUTDOWN`): compiled only for `CONFIG_ARCH_SUN8IW16P1`. An unlocked counter: with two
  clients nothing holds of it, with one its properties would restate two assignments.
* **VE task queue**: `cedar_ve.c:85` undefines `USE_CEDAR_ENGINE`, so it is not compiled.
* **VE mapping, cache flushing and register ioctls**: one access to hardware or kernel per call, no state of the driver.
* **IOMMU reserved regions**: a list built when the first device asks; the kernel's core asks for one device at a
  time, so nothing interleaves. Running out of memory half-way is in section 3.
* **IOVA trace**: depends on `ANDROID_VENDOR_HOOKS`, which the kernel of this SDK does not have.
* **IOMMU tests**: they drive the DMA API; what they expect became `UnmapRevokes` and `TranslationCorrect`.
* **IOMMU V2 and V3**: of the three files one is built, for the H616/H618 `sunxi-iommu-v1.c`. V3 differs in 467 lines of a diff, all of them register
  layouts, wider addresses and the reading of the platform from the device tree; its control is that of V1 with a version of at
  least 14. V2 has the same operations over other registers. A second set of modules would say the same again.
* **Headers**: declarations, register layouts and constants of the device tree.
* **Patches** of Linux, U-Boot and the firmware: the programs they change are not in the repository.
* **Scripts and overlay**: straight-line shell scripts and configuration files.

Most of the lines of the repository are in the last three: the two drivers that are built and have state of their own are about 5000 lines,
of which the models map about half; the rest of them are register accesses, tables of platforms, printing and
what is listed here.
