# Formal models of the `ryan-peter` OS/161 kernel

The repository collects course projects on operating systems. Most are small,
unrelated simulators. One is a complete kernel: `src/CSE5305/ryan-peter/kern`,
OS/161 1.x for a single MIPS processor, in which the team replaced `dumbvm` by
a virtual memory system of its own. That kernel is the system modelled here.
Paths below are relative to its `kern/` directory.

## 1. Inventory

| Part | Files | State | Operations |
|---|---|---|---|
| Physical memory | `arch/mips/mips/ram.c`, `arch/mips/mips/vm.c` 1-156 | `firstpaddr`, `lastpaddr`, `lo`, `system_pages`, `ipt[]`, `avail_pages` | `ram_stealmem`, `vm_bootstrap`, `alloc_kpages`, `free_kpages` |
| Address spaces | `vm/addrspace.c`, `vm.c` 158-350, `userprog/runprogram.c`, `userprog/loadelf.c` | region fields, two-level page table, TLB | `as_create`, `as_activate`, `as_define_region`, `vm_fault`, `walk_pt`, `as_destroy` |
| Threads | `thread/thread.c`, `thread/scheduler.c`, `thread/hardclock.c` | `curthread`, `runqueue`, `sleepers`, `zombies`, `numthreads`, `lbolt_counter` | `thread_fork`, `thread_yield`, `thread_sleep`, `thread_wakeup`, `thread_exit`, `mi_switch`, `hardclock`, `clocksleep` |
| Semaphores | `thread/synch.c` | `count` | `P`, `V`; locks and condition variables are empty stubs |
| Containers | `lib/array.c`, `lib/queue.c` | `num`, `max`; ring indices, `size` | add, remove, preallocate |
| Interrupts, traps | `interrupt.c`, `spl.c`, `pcb.c`, `trap.c` | `curspl`, `in_interrupt`, pcb | `splx`, `md_switch`, `mips_interrupt`, `mips_trap` |
| Kernel heap | `lib/kheap.c` | page references, free lists | `kmalloc`, `kfree` |
| Disk driver | `dev/lamebus/lhd.c`, callers `fs/sfs/sfs_io.c`, `fs/vfs/device.c` | `lh_clear`, `lh_done`, `lh_result`, the card's registers and buffer | `lhd_io`, `lhd_irq`, `sfs_rwblock` |
| Console | `dev/generic/console.c`, `dev/lamebus/lser.c`, `con_lser.c` | `cs_wsem`, `cs_rsem`, `cs_gotchar`, `ls_wbusy`, delayed buffer | `con_io`, `putch`, `getch`, `lser_irq`, configuration at boot |
| SFS | `fs/sfs` | free map, inodes and their dirty flags, vnode table, the directory, the disk | map, read, write, truncate, creat, link, remove, rename, reclaim, sync, mount, unmount |
| VFS | `fs/vfs` | `vn_refcount`, `vn_opencount`, known devices | open, close, remove, rename, link, sync, mount, unmount |

How they interact. Everything allocates through `kmalloc`, which takes pages
with `alloc_kpages`; page tables and user pages come from the same allocator.
A user program's memory access that misses in the TLB traps to `mips_trap`,
which calls `vm_fault`. The clock interrupt calls `hardclock`, which yields
*inside the handler*, so every thread with interrupts on can be switched out
between any two instructions. Drivers wake threads with `V` from interrupt
handlers. There is one processor: mutual exclusion is `splhigh`. A file call
goes from the VFS layer through the root vnode into SFS, which reads and writes
single blocks with `sfs_rwblock` and so `lhd_io`.

What is hard: code that forgot to raise spl (`free_ppages`), code that runs
between a trap and its handler, the idle loop running on the stack of a thread
that may be dead, per-thread values kept in globals, lists that must have room
because an allocation failure cannot be handled where they grow, the many paths
on which memory runs out, devices that answer before or after they are waited
for, polled output in the middle of interrupt-driven output, and file calls of
several disk writes any of whose reads can fail. `PROJECT.json` lists each of these at its line
under "hazards".

## 2. Modules

| Module | What it is |
|---|---|
| `PageAllocator` | Abstract specification of the page allocator: a set of disjoint regions, granted and released whole |
| `PhysMem` | `ram.c` and the allocator of `vm.c`, the scan of `alloc_ppages` iteration by iteration; implements `PageAllocator` |
| `AddrSpace` | Address spaces, page tables, TLB, faults, loading and exit of programs |
| `Threads` | Threads, scheduler, clock, semaphores, capacities of the lists |
| `SectorDisk` | Abstract specification of a disk that serves requests of several threads sector by sector |
| `Lhd` | The disk driver, its interrupt handler, and the retries of `sfs_rwblock`; implements `SectorDisk` |
| `KHeap` | `kmalloc` and `kfree` with the subpage allocator, over `PageAllocator` |
| `Console` | Console and serial driver from `config_lser` on |
| `Files` | Abstract specification of the file calls: names, contents, descriptors |
| `Sfs` | SFS under the calls of VFS; implements `Files` |
| `ListFacts` | Lemmas about lists and induction that several proofs use |
| `PhysMem_proofs`, `AddrSpace_proofs`, `Threads_proofs`, `Lhd_proofs`, `KHeap_proofs`, `Console_proofs`, `Sfs_proofs` | Theorems and their TLAPS proofs |
| `MC*` | Instances for TLC |

Variables carry the names of the code's variables wherever there is one, and
actions are named for the function, or for the part of the function, that they
model. Operators named `M_...` are deliberate mistakes: each differs from the
definition below it in one respect (a dropped reset, an off-by-one, a missing
flush) and makes one property fail. They are in no specification; they document
that the property can be broken by a plausible error in that code.

### PhysMem

Addresses are page numbers. `Steal` and `StealFail` are `alloc_kpages` before
`vm_bootstrap`; `VmBootstrap` ends by starting the call that reserves the
table's own pages. A call of `alloc_ppages` is `AllocStart`, then iterations
`ScanSkip` (an allocated region) and `ScanFree` (a free page), then `AllocFail`
or `AllocFound`. Interrupts are off for the whole call, so while `call` is not
idle nothing else happens. `free_ppages` does not raise spl and is three steps
(`FreeStart` reads, `FreeAdd` stores `avail_pages`, `FreeClear` clears the
entry) that other threads interleave with. `held` is the callers' view: what
they were given and have not given back, page 0 included when a failure was
returned as `PADDR_TO_KVADDR(0)`. Freeing that page (`FreeWild`) accesses the
table out of bounds; its outcome is undefined and the model stops there. The
callers' contract not to free pages stolen before bootstrap (comment in `vm.c`
at `free_kpages`) is a guard of `FreeStart`.

### AddrSpace

A program thread goes through `phase`: started, address space created,
regions being defined, segments being loaded, user mode, or failed. Everything
`vm_fault` does happens at splhigh, so a fault is one step; but `Miss` and the
fault are separate, since `mips_trap` lowers spl in between, and `Switch` may
come between any two steps. `alloc_ppages(1)` is reduced to "the first free
frame, never the last" (`FirstFree`), which is what the scan of `PhysMem`
computes for one page; a failed `alloc_ppages` is handled in `walk_pt`
(`FaultNoMem`), a failed `alloc_kpages` is not and overwrites the exception
handlers (`HandlersLost`). `mem` abstracts the content of a frame to zeros, the
data of one live program, or anything else. `KernelAlloc`/`KernelFree` are the
rest of the kernel competing for pages. The menu waits for no program, but
starts them one at a time; the model allows several at once, which the
context-switch code is written for and which includes the code's behaviours.
An executable is its sequence of loadable segments `<<p_vaddr, p_memsz>>`;
reading it may fail at any point (`LoadFail`). `Hits` and `Store` model the
processor's TLB and are external. Frames start free: the pages early boot and
the allocation table occupy are simply not counted in `NFrames`.

### Threads

What the kernel does at splhigh is one step. A step that calls `mi_switch`
ends in the next thread or in the idle loop on the stack of the thread that
left (`stack` and `curthread` differ only there). A thread that has run before
comes back in `mi_switch` and exorcises zombies; a new one does not. `Tick` is
a clock interrupt of a running thread, which yields inside the handler
("preempted") and returns later (`InterruptReturn`); `IdleTick` is the same
interrupt in the idle loop, where `mi_switch` returns at once. `V` stands for
calls by threads and by device interrupt handlers. `qsize`, `smax` and `zmax`
are the allocated sizes of the three lists, grown by the rules of `queue.c` and
`array.c`. `ForkFail` is a failed allocation inside `thread_fork`, with the
lists already enlarged staying so. Allocation failures inside `mi_switch`, which
the code answers with an assertion, are not modelled as failures: instead
`SleepersPreallocated`, `RunqueuePreallocated` and `ZombiesPreallocated` state
that no allocation is needed there; only the first holds.

### Lhd

Each thread is at one place in `sfs_rwblock` or `lhd_io` (`pc`), with its uio
and its locals in `io`. A caller is either sfs, single sectors with retries, or
the raw device, runs of sectors without. `P` and `V` are atomic, as `Threads`
shows them to be; everything else interleaves with other threads, the card and
`lhd_irq`. The card is external: from "busy" it goes to success, moving the
sector, or to a media error (`CardOk`, `CardFail`). `FillFault` and
`MoveOutFault` are `uiomove` failing on a user's buffer. `landed` counts the
sectors the card moved for the current call and is what `SuccessMeansLanded`
compares the result with. The refinement places a sector's move at the instant
the card finishes, between the copy into the buffer and the copy out of it.

### KHeap

`subpage_kmalloc` and `subpage_kfree` run at splhigh, so a call is one step.
Before `vm_bootstrap` pages are stolen, after it they are granted as
`PageAllocator` grants them, any free run or none at all; `PhysMem` implements
that. `held` is what callers have. When a page cannot be had, the failure is
page 0 (see section 4): the heap or its caller writes over the exception
handlers, `wild` is set and the model stops, as it does when a page stolen at
boot is given to `free_kpages`.

### Console

`phase` follows the configuration: interrupts of the device are enabled, the
console attached, its semaphores made, the delayed output flushed. `io` is a
thread's place in `con_io`, `putch` and `getch`. `LserWritepolled` is a polled
character with interrupts off, from `kprintf` in a handler or a panic; while it
waits for the card no other step of the kernel can come, so it is one step that
leaves the card as it ends. `tx`, `wirq`, `rx` and `rirq` are the device. Keys
are numbered and characters sent are labelled with their thread so that order
and origin can be stated; `out` and `taken` are that record. `hurried` notes
that a key was typed before the previous one was taken, which the code accepts
to lose, and `fault` that a key came before there was a console, or that a
polled character would wait for an interrupt that never comes.

### Sfs

The file system is one record `fs`: the disk, the free map and its dirty flag,
the loaded vnodes with their inode, dirty flag and two counts. A function of
the code is an operator from such a record to the set of its outcomes (new
state, error code, value), put together with `Then` (return early on an error),
`Finally` (clean up on every path) and `Swallow` (an error only printed). A
call of the VFS layer is one step. That is an assumption, not a fact: the locks
that would make it one have no code in this kernel, and the code's comments say
that its static buffers are for one caller at a time. What remains is
everything between calls and every failure inside them: any read of the disk
can fail (`Faulty`), a vnode cannot be allocated, the disk or the file is full.
A disk write is taken to land; `sfs_rwblock` reports nothing else, and finding
`lhd_retry` says when it is wrong. `panic` is "io" where the code gives up on a
failed read (`sfs_getroot`, the recovery of `sfs_rename`) and "bug" where one
of its assertions or consistency checks fails, which `NoPanic` excludes.

A block of the disk is a cleared block, an inode, a block of block numbers, a
block of `Slots` units, or the map. Units are directory entries or data, so
that files and the directory go through the same `sfs_io`, with whole and
partial blocks. A cleared block reads as any kind. `sfs_truncate` is modelled
for length 0, the only one its callers pass. The current directory and the boot
file system would hold a reference to the root vnode; paths are taken to name
the volume, so the root is loaded by each call and reclaimed at its end.
`Shutdown` is `vfs_unmountall` followed by the end of everything in memory: a
volume with open files is synced but not unmounted. Losing power at any other
moment is not modelled, since nothing in SFS claims to survive it. `lost` counts
the blocks that stay marked though nothing refers to them, `seen` is what the
refinement shows of the state.

## 3. Runs

| Run | Bounds | Shows |
|---|---|---|
| `phys_mem` | 2 threads, 7 pages of RAM (1 kernel image), 3 table entries per page, requests of 1-2 pages | `HeldApart` no page granted twice; `TableReserved`; `FailsOnlyWhenFull` the scan misses nothing but the boundary case; `NoLeak`; `AllocTerminates`; `AbsSpec` refinement |
| `addr_space` | 2 programs, 6 frames (5 usable), 2 TLB slots, 2 user pages, pages of 2 bytes, 1 kernel page | `FramesExclusive`, `FramesAccounted`, `TlbCoherent`, `TlbUnique`, `NoDataLeak`, `SegmentsAccessible` |
| `threads` | 3 threads, 1 semaphore, HZ 2, sleeps of 1-2 seconds | `OnePlace` (with `numthreads`), `StackAllocated`, `NotInInterrupt`, `NoLostWakeup`, `SleepersPreallocated`, `RunnableRuns`, `ClockSleepEnds` |
| `lhd` | 2 threads, one of which also uses the raw device, 2 sectors, runs of 2, 2 retries | `OneUser` of the device, `OneCompletion` for each wait, `SuccessMeansLanded`, `GivenBack`, `AbsSpec` refinement |
| `kheap` | 6 pages of 12 units, 2 block sizes, requests of 4-13 units, 3 pagerefs | `BlocksPartitioned`, `ListsAgree`, `HeldApart`, `PagesAccounted` |
| `console` | 2 threads, 2 lines, reads of 2, 3 keys, delayed buffer of 2 | `OneWriter`, `OutputFaithful`, `InputFaithful`, `OutputProgress` |
| `sfs` | 7 blocks, 1 direct and 2 indirect blocks a file, 2 entries a block, 2 names, 2 descriptors, every read may fail | `BlocksAccounted`, `CountsExact`, `FlagsTruthful`, `NoPanic`, `AbsSpec` refinement |
| `phys_mem_last` | as `phys_mem` | `FailMeansNoRegion` fails |
| `phys_mem_null` | as `phys_mem` | `FailureIsNull` fails |
| `threads_queue` | as `threads` | `RunqueuePreallocated` fails |
| `threads_zombies` | as `threads` | `ZombiesPreallocated` fails |
| `lhd_retry` | as `lhd` | `SuccessIsWritten` fails |

Why the bounds are enough. With six managed pages and one to three stolen at
boot, requests of two pages meet every situation of the scan: a table of one or
two pages, fragmentation, a free run that is too short, a run at the very end,
and exhaustion. `AvailMin`/`AvailMax` stop the drift of `avail_pages`, which
the code does not bound; both limits lie beyond the failures of interest. Five
usable frames do not suffice for two programs with two nodes and pages each, so
every out-of-memory path is taken, and two TLB slots for two pages let entries be
replaced and would let duplicates appear. `MCExecutables` has an empty segment,
one that straddles a page boundary and a third region. In `MCThreads`, the
initial queue size 32 and the array limit 16 are scaled to 2, so that three
threads cross them; `HZ` is 2 instead of 100, so that a second is more than one
tick. The same run with four threads passes too (about 185,000 states).

In `MCLhd` the second thread's sector can come between the two of a run, and
two tries show a first failure, a second and giving up. In `MCKHeap` a page
holds two or three blocks, so it goes from full through partly used to empty and
back, and three pagerefs run out. In `MCConsole` a line outlasts an interrupt
and the third key overtakes two that nobody has read.

`MCSfs` has four blocks for the directory, inodes and data. That is enough for
two files, a file that reaches into its indirect block, a disk that fills up
at every allocation (an indirect block without room for its data, a directory
without room to grow, no room for an inode), files removed while open and
vnodes that cannot be reclaimed. Without failing reads eight blocks pass too
(110,527 states). Descriptors and names are interchangeable (`SYMMETRY`). The
`VIEW` of the run leaves out how the last call ended and the copy in `seen`,
which no action reads, and blocks of the disk whose contents are replaced before
anything reads them: a free block (allocation clears it), the inode of a
dirty vnode and the map while it is dirty (a sync or a reclaim writes them
before the volume can be mounted again). States that agree on the rest have the
same steps and the same properties.

Deadlock is checked in `lhd`, where a thread can always go on. In the other runs
it is not: a kernel whose memory is exhausted, whose threads all sleep, or that
has halted or panicked may stop.

Fairness. `PhysMem`: weak fairness of the scan, which the processor executes
with interrupts off, so nothing else can run. `Threads`: strong fairness of the
clock interrupt, because the timer's request stays pending while interrupts are
off and is taken when they are next on; weak fairness of code that runs at
splhigh and of the idle loop, which nothing but themselves can delay. Nothing
is assumed of what threads choose to do. `Lhd`: weak fairness of each thread's
steps inside a request (a thread that can run is run, `RunnableRuns`), of the
card, which answers every command, and of its interrupt. `Console`: the same, with
`lser` for the card; configuration goes on. `GivenBack` and `OutputProgress` say
that the device, or the turn to write, always comes back; that a given thread
gets it does not hold, because `V` wakes everybody and a newcomer may be faster.
`AddrSpace`, `KHeap` and `Sfs` state safety only.

## 4. Where the code departs from its comments

* `alloc_ppages` fails ("We got to the end of the IPT without finding a
  region", `vm.c:100`) also when the region found ends at the last page.
* `alloc_kpages` converts the failure value 0 to a kernel address before
  anyone can test it, against the note at `PADDR_TO_KVADDR` in
  `arch/mips/include/vm.h:52`.
* `scheduler_preallocate(n)` makes room for n - 1 threads in the worst case:
  the ring buffer keeps a slot free. `make_runnable` can then allocate in a
  context switch, which its comment (`scheduler.c:35`) rules out.
* `array_setsize(zombies, 0)` in `exorcise` frees an array of more than 16
  entries (`lib/array.c:80`), undoing the preallocation of `thread_fork`: a later
  `thread_exit` allocates in `mi_switch` (`thread.c:408`, "Because we preallocate
  during thread_fork, this should not fail"). The array has 30 entries once
  there are 15 threads.
* `sfs_rwblock` retries a failed write with the uio that `lhd_io` has already
  emptied (`lhd.c:210`), so the retry moves nothing and succeeds: the caller is
  told that a block was written which was not, where `lhd.c:240` says "If we
  failed, return the error".

These are the runs that expect a violation. Seen while modelling, without a run
of their own:

* `avail_pages` (`vm.c:35`) is decremented by failed allocations (`vm.c:110`) and
  its update in `free_ppages` can be lost. Nothing reads it.
* `subpage_kfree` (`kheap.c:532`) gives a page stolen at boot to `free_kpages`
  when its last block is freed, although `vm.c:152` says such pages must not be
  freed; the table is then indexed with a negative number (`wild` in `KHeap`).
* Between `config_lser`, which enables the device's interrupts, and `config_con`,
  which makes the semaphores, a typed character goes through pointers that are
  not set (`fault` in `Console`), while `arch/mips/mips/lamebus_mips.c:30` says "Now we can take
  interrupts without croaking".
* `con_io` takes a lock "so user I/Os are atomic" (`console.c:41`), but lock
  functions do nothing in this kernel, so lines of two threads can mix.
* `sfs_makeobj` keeps the block of a new inode when its vnode cannot be loaded
  (`sfs_vnode.c:782`), and shutting down with an unlinked file open leaves its
  blocks marked on the disk; both are `lost` in `Sfs`, and nothing frees them.
* `sfs_reclaim` of an unlinked file whose indirect block cannot be read leaves
  the vnode loaded with a reference nobody holds; the volume cannot be unmounted
  any more (the exception in `CountsExact`).
* A failing `open` with `O_TRUNC` can have discarded part of the file, and `open`
  with `O_CREAT` and a flag SFS refuses leaves the new file behind (both are in
  `Files`).
* `sfs_truncate` compares `blocklen < baseblock+j` and `blocklen < highblock`
  where its comment ("past the new EOF") needs `<=`. With length 0, the only one
  used, it makes no difference.

## 5. Proofs

TLAPS proves the following for every value of the constants that satisfies the
modules' assumptions (sizes are natural numbers, the kernel image leaves some
RAM, at least two table entries fit a page, names are distinct, the disk has a
sector, there is a longest request).

`PhysMem_proofs`: `TypeCorrect`, `NoSharedPage` (HeldApart), `TableSafe`
(TableReserved), `ScanComplete` (FailsOnlyWhenFull), `NothingLeaks` (NoLeak),
and `Refinement` (AbsSpec). None of these is inductive. The table stores only
the *length* of a region at its first page, so the argument needs to say that
stored regions are apart and inside the table, that the scan position `i` is
never inside a region, that the `len` pages before `i` are free and that every
free run that ends before `i` has been seen to be too short, that the first
region is the table's own and covers all its entries, and that `held` and the
frees under way correspond to table entries one to one. Their conjunction with
`TypeOK` is preserved by every action; the properties follow, and each step of
the scan or of a free maps to a step of `PageAllocator` or leaves its regions
unchanged.

`AddrSpace_proofs`: `TypeCorrect`, `FramesDisjoint` (FramesExclusive),
`FramesReturned` (FramesAccounted), `TranslationsOwn` (TlbCoherent),
`TranslationsUnique` (TlbUnique), `DataPrivate` (NoDataLeak). The invariant
adds that a thread without an address space has no frames, that the allocated
frames are exactly those with a place, that each frame has one place, that a
page is mapped only through a node that exists, that a pending miss belongs to a
thread in a phase that can fault and is for a page the TLB does not hold *while
that thread runs* (a switch away and back flushes), and that valid entries
belong to the running program. The last is what makes the unflushed TLB after
`thread_exit` harmless.

`Lhd_proofs`: `DeviceExclusive` (OneUser), `CompletionsMatch` (OneCompletion),
`SuccessLanded` (SuccessMeansLanded), `SfsNotRefused` (the panic of `sfs_rwblock`
on `EINVAL` is not reached) and `Refinement` (AbsSpec), for any number of
threads, sectors and retries. The number of a request's sectors that have
landed is tied to what the uio and the loop counter say, but differently at
each place in `lhd_io`: a write takes its value from the uio before the card
moves it, a read gives it back after, and a failed write leaves the uio one
short. `LocalsInv` says this place by place, `LandedInv` adds what the card has
moved, `CardInv` that a busy card works on the sector of the thread that waits
for it, in its direction, and `CallerInv` what each caller asks for and that
only sfs comes again with a uio already used. For the refinement, the value of a
write that is in the card's buffer, or of a read that is not yet in the uio,
belongs to the abstract request; the step of the card that moves it is the
abstract transfer, `Enter` invokes or rejects, `Clear` and `Finish` end a
request, and every other step leaves the abstract state alone.

The same argument gives `SegmentsReachable` (SegmentsAccessible) with an
invariant of its own, `SegInv`: each segment defined so far has no pages or is
one of the two regions as as_define_region rounded it, because a slot is only
reused when its region is empty; and a thread that does not run a program has
none defined, so the next program starts afresh.

`Threads_proofs`: `TypeCorrect`, `EveryThreadInOnePlace` (OnePlace),
`StackNeverFreed` (StackAllocated), `InterruptPerThread` (NotInInterrupt),
`WakeupNotLost` (NoLostWakeup) and `SleepersHaveRoom` (SleepersPreallocated), for
any number of threads. `PlaceInv` says that the three lists repeat no thread, are
disjoint from each other and from the running thread, cover exactly the threads
that exist, and that the zombies are those on the zombie list; it is stated on
the lists (`Located`) so that it can be followed through mi_switch, which moves
several threads in one step, with one lemma for each list operation (append,
take the head, filter). `CpuInv` adds to `StackAllocated` and `NotInInterrupt`
that a saved `in_interrupt` of 1 belongs to a preempted thread, except that of
the thread whose stack is in use, which is out of date; `WaitInv` says what a
thread in the loop of P or clocksleep waits for; `CountInv`, that `numthreads`
is the number of threads alive; `RoomInv`, that the array of sleepers has room
for all of them once it has been made.

`Console_proofs`: `TurnInOnePlace` (OneWriter), `LinesComeOutWhole`
(OutputFaithful), `KeysReadInOrder` (InputFaithful) and `NoFaultOnceLive`, for any
number of threads, lines of any length and any number of keys. `TurnInv` places
the turn: in `cs_wsem`, with one thread or with the device, made when the
console is and idle before. `LineInv` says that what is out, what the device
holds and what the thread has left are, joined, the line that was asked for;
the lemmas move characters from one part to the next, and `Printed` is unfolded a
line at a time. `KeyInv` says that `cs_gotchar` never passes the last key and that
keys typed one at a time are at most one ahead of the reader. `BootInv` and
`FaultInv` order what happens before the console is up.

`KHeap_proofs`: `BlocksAlwaysPartitioned` (BlocksPartitioned), `ListsAlwaysAgree`
(ListsAgree), `HeldAlwaysApart` (HeldApart) and `PagesAlwaysAccounted`
(PagesAccounted), for any number of pages and pagerefs, any page size and any
block sizes that divide it. The invariant looks at the heap from two sides.
`Parted` is about one page: its free list and what callers hold of it divide its
blocks; moving one block between the two preserves it, and when all blocks but
one are free, the block being freed is, by counting, the only one held
(`LastOne`), so giving the page back takes nothing from anybody. `InUse` is the
set of regions of memory the heap uses, one for each pageref and each large
allocation; `PlaceInv` says each was stolen at boot or is granted by the table,
`ApartInv` that no two meet, `OwnInv` that the table has granted nothing else.
An operation adds or removes at most one region, and freeing one that was stolen
at boot finds no region in the table, which is when `wild` is set. `HeldApart`
follows by the arithmetic of blocks in a page (`OffsetsApart`) and of pages.

`Sfs_proofs`: `ChecksNeverFail` (NoPanic), `CleanIsOnDisk` (FlagsTruthful),
`CountsAlwaysExact` (CountsExact) and `BlocksAlwaysAccounted` (BlocksAccounted),
for any disk, block sizes, directory and number of descriptors, whichever reads
and allocations fail. The four hold only together: a flag is truthful because a
write of data never hits an inode, which needs that each block has one place,
which needs that a vnode is reclaimed at the right time, which needs the link
counts. They come from one invariant, followed through the functions of the code
from blocks up to calls, one lemma for the outcomes of each:

- `Sound(m, L, H)` is what holds of the disk and the inodes at every point inside
  a call: the blocks in use are divided among the map, the inodes `L`, what each
  holds, and `H`; an inode holds no block twice and each block it holds is of
  the kind it is read as; what is not dirty is on the disk. `Attach` and
  `FreedDid` move one block, or one inode's blocks, into and out of an inode.
- `Did(m, m2, L, H, ino)` is what a function on one inode leaves alone, the other
  files, the counts and the links, also where it fails half way: block mapping,
  the steps of `sfs_io` (by induction over the blocks), truncation.
- `Good(m, op, rc)` adds the directory and the counts, for given numbers of open
  counts and references that somebody answers for. A function that loads or
  drops a vnode changes `rc` by one (`Referred`, `Released`), so that every path
  of rename or create, with its clean-up, is counted to the end.
- `Consistent` says that between calls these numbers are what the descriptors
  make, and that a volume that is not mounted would be `Good` if it were.

The exception in `CountsExact` (a vnode nobody refers to, kept because its
indirect block could not be read) is part of `Good`: it is what the swallowed
error of `sfs_reclaim` leaves, and the proof goes through only with it.

`ListFacts` holds what these proofs share: elements of lists that are joined,
popped or filtered, lists without duplicates, and induction. The library's
induction theorems take an operator as a parameter, which the provers cannot
instantiate; `Induction` and `BoundedInduction` state it for a set instead, from
the least element of a set of numbers. A recursive function is shown to exist by
such an induction before its equation is used (`RunningConcat`, `FlattenIs`).

The constants' assumptions are those of the modules and say no more than the
code fixes: the sizes of memory, of table entries, blocks and buffers are
positive and fit each other as the headers' values do, a block size divides the
page, names used as markers (`"none"`, `"printed"`) are not threads, descriptors
are finitely many, and the marker of a free directory slot is neither an entry
nor data.

Only model-checked: the liveness properties (`AllocTerminates`, `RunnableRuns`,
`ClockSleepEnds`, `GivenBack`, `OutputProgress`), which the provers do not reach,
and the refinement of `Files` by `Sfs`, whose proof needs to follow the contents
of every file through the same functions.

## 6. Not modelled

Overlapping file calls: SFS relies on locks that do nothing here, so it promises
nothing for them. Power loss without a sync. Path parsing, the current
directory, the boot file system and the table of devices: string processing and
lookups. The ring indices of `lib/queue.c` (only its capacity is in `Threads`).
The emulated host file system, bus probing and the remaining devices are pure
I/O; `copyin`/`copyout` copy bytes; the menu parses commands; system calls other
than reboot and exit are not implemented; `dumbvm.c` is not configured; `as_copy`
has no caller. The other course projects in the repository are independent
programs, most of them single-threaded simulations with printed output.

## 7. Plan

Done, in this order: `PageAllocator`, `PhysMem` and its proofs, `AddrSpace` and
its proofs, `Threads`, `SectorDisk` and `Lhd` and their proofs, `KHeap`,
`Console`, `Files` and `Sfs`; then the proofs of `Threads`, `Console` and
`KHeap`, of `SegmentsAccessible`, and of the invariants of `Sfs`.

Next:

1. The refinement of `Files` in `Sfs_proofs`: what each lemma on a function says of
   the contents (`Wrote`, `SameContents`, `Dir`), carried up to the calls.
2. `Queue`, the ring buffer of `lib/queue.c` with its two indices, implementing
   the capacity rule that `Threads` uses.
