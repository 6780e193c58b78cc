# Upanix in TLA+

Upanix is a single-CPU operating system kernel: processes and threads under a
round-robin scheduler, kernel services run by server processes, a paged memory
manager with a kernel heap, IO descriptors, disk drives behind a cache, a
FAT-like file system, device drivers, a graphical console. This directory holds
TLA+ modules of its core logic, configurations that check them with TLC, and
proofs for TLAPS. `PROJECT.json` maps every definition to the lines of the
source it stands for, lists the hazards of the code at their lines, and has a
mutation of the code for every property that a run checks.

Contents: [inventory](#inventory) · [modules](#modules) ·
[how the modules correspond to the code](#how-the-modules-correspond-to-the-code) ·
[runs](#runs) · [bounds](#bounds) · [fairness](#fairness) ·
[findings](#findings) · [proofs](#proofs) ·
[model-checked only](#model-checked-only) · [not modelled](#not-modelled)

## Inventory

| Component | State | Operations | Hard part | What makes it correct |
|---|---|---|---|---|
| Process table and scheduler (`process/`) | `_processMap`, `_processSchedulerList`, per process status, parent, children, group, wait data, thread list with its cursor | Create, CreateThreadTask, Kill, exit, WaitOnChild, the waits, StartScheduler, DoContextSwitch, forSchedule, Destroy | Kill and creation are preemptible; lists of raw pointers are walked while they change | nothing deleted is reachable from a list; groups and parents outlive who needs them; nothing leaks; no starvation; waits end |
| Timer (`kernel/PIT.cpp`) | tick count, task-switch flag | PIT_Handler, Enable/DisableTaskSwitch, ProcessSwitchLock | preemption anywhere the flag allows | a locked stretch is not interrupted, every process is preempted in the end |
| Resource mutex (`kernel/ResourceMutex.cpp`) | busy flag, task-switch flag | Lock, UnLock, WaitOnResource | a wake-up is not a hand-over | at most one holder |
| Kernel service (`kernel/KernelService.cpp`) | request queue, completion flag of each process | Request*, Server, GetRequest, WakeUpFromKSWait | answer before the requester sleeps; requester killed meanwhile | every request is answered once, and not used after it is deleted |
| Interrupts (`kernel/IrqManager.*`, `IDT`, `PIC`, `Apic`) | sticky counters, handler table | Signal, Consume | interrupt before the wait | a signal ends one wait |
| IO descriptors (`io/`) | descriptor table, reference counts, redirects, stream buffers | allocate, free, dup2, inherit | one parent, many redirects | a descriptor lives as long as somebody refers to it |
| Memory (`memory/`) | page bitmap, kernel page pool, stack blocks, heap free list | AllocatePhysicalPage, DeAllocatePhysicalPage, DMM_Allocate, DMM_DeAllocate, page faults | page faults inside an allocation, failure half-way | no page or byte has two owners; none is lost |
| Drives and cache (`drivers/DeviceDrive.cpp`, `DiskCache.cpp`) | cache, dirty list, release list, drive mutex | Read, Write, FlushDirtyCacheSectors, ReleaseCache, Mount, UnMount | background tasks share the cache with readers and writers | a read returns the last write, UnMount leaves it on the medium |
| Partitions (`drivers/PartitionManager.cpp`) | the tables on the disk | create, delete, clear, read | a command of several writes is cut short | partitions are disjoint and keep their place |
| File system (`filesystem/`) | sector table and its cache, free pool, directory entries, working directories | AllocateSector, LoadFreeSectors, CreateFile, Delete, FileWrite, ChangeDir | cache and disk disagree about free sectors; copies of entries are written back | no sector belongs to two files; a directory has the entries it counts |
| ATA and IDE (`drivers/ide/`) | port records, chip registers | probe, set the speed, read, write | the mode is agreed among drive, cable, port and chip; retries without a new command | drive and chip agree; what succeeds moved what was asked |
| USB (`drivers/usb/`) | frame list, queue heads, rings, toggles, command blocks | Probe, control and bulk transfers, event handler, frame cleaner | the controller walks the lists; time-outs with late answers | one user for each frame and descriptor; an answer is for who asked |
| PCI and SCSI (`drivers/bus/`) | list of functions, bridge registers | ScanBus; Open, Read, Write with sense | numbering in a recursion, retries | functions are listed once where they answer |
| Keyboard, mouse, windows (`drivers/keyboard/`, `drivers/ps2/`, `drivers/video/`, `kernel/KBInputHandler.cpp`) | key and mouse queues, foreground list, base stacks | put, get, dispatch; add, remove and switch foreground process | focus is read while windows come and go | keys arrive once, in order, with the process in front |
| Clock and calendar (`kernel/RTC.cpp`, `libmcpp/cal/`) | registers of the chip | GetDateTime, date arithmetic | the chip goes on while it is read; leap years; word width | the time told is one that was |
| Floppy (`drivers/floppy/`) | the controller, seek and transfer retries, motor flags | Initialize, Read, Write, motor task | replies and signals of what was given up | a transfer that is reported good moved what was asked |
| Users, network, ACPI | a file; registers | | | see [not modelled](#not-modelled) |
| Loading, system calls, boot, platform, utilities | none of their own that outlives a call | | | |

Calls go from system calls and console commands into the process manager, file
system and drives. Kernel threads serve process creation and page faults
(`KernelService`), flush and release the disk cache, clean USB frames and
dispatch keys. All share the one CPU, and the scheduler is the only code that
the timer cannot interrupt. A file is read through `Directory` (entries),
`FileSystem` (table), `DeviceDrive` (cache) and a disk driver: ATA, or SCSI over
USB over one of three host controllers. Each layer is a module or two; where an
upper layer needs the lower one it stands on its promise: the table on "a read
returns the last write or throws", which `DiskDrive` shows of the cache; the
directories on "sectors are handed out once", which `FileSystem` shows.

## Modules

| Module | Models | Composes, refines, or is proved in |
|---|---|---|
| `ProcessManager` | process map, scheduler, creation, threads, Kill, Destroy, groups | `ProcessManager_proofs` |
| `Processes` | many processes that nobody kills, or fewer that kill one another | extends `ProcessManager`; `ProcessManager_proofs` |
| `RequestResponse` | what a client of the kernel service is promised | abstract |
| `KernelService` | queue, waits, servers with their borrowed group and drive | implements `RequestResponse` (`ImplementsPromise`); `KernelService_proofs` |
| `Waits` | sleep, interrupt, event and resource waits, the task-switch flag, poll waits | `KernelParts_proofs` |
| `Progress` | clients of the kernel service and waiting processes, with fairness | composes `KernelService` and `Waits` |
| `Heap` | the first-fit heap of the kernel or of a process | `KernelParts_proofs` |
| `Pages` | the page map, address spaces, stacks, page faults | `KernelParts_proofs` |
| `Descriptors` | descriptor tables, redirects, counts | `KernelParts_proofs` |
| `KernelParts` | | composes `Waits`, `Heap`, `Pages` (three kinds of behaviour), `Descriptors` |
| `DiskDrive` | Read, Write, flush, release list, Mount and UnMount over the disk cache | `DiskDrive_proofs` |
| `Directories` | nodes, sectors of entries, working directories, concurrent calls | |
| `Partitions` | the tables of a raw disk, commands cut short | |
| `Drives` | | composes `DiskDrive`, `Directories`, `Partitions` |
| `FileSystem` | the sector table, its cache and free pool, the chains, Mount, UnMount, Format, reboot | stands on `DiskDrive`'s promise; `FileSystem_proofs` |
| `UsbDisk` | SCSI commands, the bulk-only protocol, bulk transfers packet by packet | `UsbDisk_proofs` |
| `UhciFrames` | the frame list of a UHCI controller, its cleaner, Probe | `Volumes_proofs` |
| `Volumes` | | composes `FileSystem`, `UsbDisk`, `UhciFrames`; `Volumes_proofs` |
| `AtaPorts` | an IDE controller is set up with its drives and the vendor's chip | |
| `AtaTransfers` | PIO and DMA transfers with errors, retries, late interrupts | `Devices_proofs` |
| `EhciPorts` | the asynchronous list, control requests of the devices at the ports | |
| `XhciRings` | command, transfer and event rings, key reports, interrupts and polling | |
| `PciBus` | the scan of the PCI buses, the numbering of bridges | |
| `Clock` | the clock chip, the calendar loops in both directions | `Devices_proofs` |
| `Floppy` | the floppy controller, a transfer with its seeks and retries, the motor task | `Devices_proofs` |
| `Keyboard` | from the keyboard through handler, queue and dispatcher to a process | |
| `Windows` | the list of windows, the bases, the input focus | |
| `Devices` | | composes the device modules; `Devices_proofs` |

The parts of a composition share no variables: a behaviour of it is one of one
part while the others stay at an initial state. They are checked together so
that one run answers for all of them, and `EachPartBehaves`, `StorageBehaves`
and `DevicesBehave` prove that what is shown of a part holds in the composition.

Definitions that begin with "Mutation of" or "A bug" in their comment are not
part of a specification: each is a wrong version of a definition, kept to show
that a property notices it.

## How the modules correspond to the code

What the code does between two points where the timer, another context or the
device may get in is one action. Where the code would follow a pointer to
something deleted or read what was never written, the execution is undefined
from there on: a variable says so (`fault`, `wild`, `undefined`, `upset`,
`trouble`), and the properties speak of executions without it. Those steps are
listed in [findings](#findings).

### ProcessManager, Processes

State: one record `pcb[p]` per pid, the process map `procMap`, the allocated
objects `live`, groups with their counts, the scheduler's `list`, the part of it
still to be visited (`pass`), who runs (`cur`), and for every process the place
inside a call where it was preempted (`pc`, `arg`).

The scheduler runs in kernel mode and is one action per turn: `Dispatch(b)` picks
from list entry `b` through `forSchedule` a process that can run and switches to
it; `Skip(b)` is a turn that ends without a switch and may release and delete the
process. A process gives the CPU back in `Preempt`, `Exit`, `Wait`,
`WaitOnChild`, `RequestKernelService` or `KillSelf`. Creation is `CreateProcess`,
`LinkToParent`, `AddToSchedulerList`; a thread is `CreateThread`,
`AddToProcessMap`; `Kill` is the check followed by the five stretches of Destroy.
`CreateFails` is a constructor that throws, and `AddToSchedulerList` a full
process map: both leave an object that stays `NEW` with all it has taken, since
nobody gives it back. Abstractions: all waits but those for
a child and for a kernel service are one status `WAIT` that ends at any time;
stack, page tables, environment and descriptors are the single flag `held`; the
order of list members inside a pass is left open. `Processes` has the same
actions with two sets of roles, so that one run sees four processes without
kills and three with them (`kills`).

### KernelService, RequestResponse, Waits, Progress

`KernelService`: the queue, each client's status and `_kernelServiceComplete`, the
request it will delete (`mine`), each server's `job`, whose `group` and `drive`
it has, and `runs`, how often a client's latest request was executed.
`AddRequest` and `WaitOnKernelService` are two actions for the ordinary requests
and one (`PageFault`) for a page fault, which makes its request in the handler
with interrupts off. A server's round is `GetRequest`, `JoinGroup`, then
`Execute` or, for a program start, `CopyDiskDrive`, `Create`, `RestoreDrive`, and
at last `WakeUpFromKSWait`. A client may be killed and leave the process map at
any point; a server that then looks it up throws, which nothing catches: it stops
with its request (`Stops`). So does one that serves a page fault or a frame buffer
when no page is left (`ExecuteThrows`). Program starts, threads and libraries
throw as well, but `ProcessManager::Create`, `CreateThreadTask` and
`DLLAllocCopy::Execute` catch it: for these a failure is an answer.
`RequestResponse` knows only that a client has asked, was served or goes on; the
refinement reads its phase off `mine` and `runs`.

`Waits`: who has cleared the task-switch flag (`noSwitch`), the depth of
`ProcessSwitchLock` of each process, its status and what it waits for, pending
signals, completed events, the resource's busy flag, and time. A wait clears the
flag, sets the status and yields, and the scheduler sets the flag again: one
action. Inside a `ProcessSwitchLock` there is no yielding (`DoPollWait`), the
process polls until `PollOver`. Time is a clock of `ClockPeriod` values that
starts at `Boot`, so it wraps as the 32-bit tick counter does.

### Heap, Pages, Descriptors

`Heap`: the free list in order, with `held` blocks and, for a process's heap, the
call in progress (`place`), because a thread can die at a page fault between two
steps of an allocation, and its unlocked mutex lets the next one in. A kernel
call is one action, since it runs under `IrqGuard`.

`Pages`: the page map, the pages `mapped` by each process in each kind of place,
kernel stack blocks, and for each thread how far a service is with its page fault.
Creation and end take or give one page per action, so those of two processes
interleave and each can fail anywhere; what a failure leaves marked is
`unreachable`. A fault is a request (`Fault`), a look-up under `_pageFaultMutex`
(`LookUp`), a page for the table (`MapTable`), one for the heap (`MapPage`), and the
wake-up (`GoOn`); the threads of a process fault beside each other, either may be
killed in between, and `NoPageLeft` stops the service. `AllocatePage` refuses every
fault of a stack (`Refuse`). The heap has three pages: an allocation touches the
header of what remains before the pages between, so that there can be a hole, and
`EndPages` returns the heap up to the first hole, as
`DMM_DeAllocatePhysicalPages` does. A service that goes on with a process that was
killed uses tables that are being given back: `stray`, and nothing is said from
there on.

`Descriptors`: a table of counts and
redirects per process. Closing follows a chain of redirects to its end
(`RealOf`), while opening counts at the next link: `crossed` marks a redirect to
a redirect that was closed, from where the counts differ.

### DiskDrive, FileSystem, Directories, Partitions

`DiskDrive`: the medium, the cache as a function from sectors, the dirty list, the
release list as a bag, whether it is `built`, the traversal of the release task
(`visit`, `running`), whether the cache is `enabled`, and the operation that
holds the drive mutex (`op`). One sector of one loop is one action, so the
release task, which holds only `lruMutex`, gets in between any two. The rank of a
sector (age by hit count) is left open. A transfer can fail at any time.

`FileSystem`: the table on the `drive`, the blocks of it in `_fsTableCache`
(`cached`, `copy`, and which have been `written`), the pool of free sectors, the
count `used` and its copy in the `boot` block, the first sector of each node, and
the call in progress (`op`). One access to the table is one action, and so is one
batch of `LoadFreeSectors`. An access brings a block into the cache (`Access`),
which may throw another one out to the drive (`Evicted`). Format writes the table
block by block on the drive (`BeginFormat`, `FormatBlock`, `Format`). Each
transfer can fail, and the exception ends the call, a format too, where it stands.
`trouble` keeps the first event after which the table may be wrong for good: a
call that failed between two of its writes or a format that failed (`partial`),
free sectors offered from a stale block (`stale`), a format that is going on
(`formatting`) or that left a filled cache (`reformatted`), and the zeroed entry a
failed load leaves in the cache (`undefined`, since it passes for block 0).
Failures that harm nothing are followed.

`Directories`: the nodes in their slots of the directory sectors, the copies that
processes (`pwd`) and the file system (`root`) keep, and per process the call it
is in (`todo`). A call finds, reads the sector of an entry, changes its copy and
writes the copy back; two processes are interleaved between any two of these. A
descriptor remembers an index and the sector there (`file`), and a write starts from
there: `Walk` follows the chain, `Taken` and `Linked` extend it. Two
descriptors of one empty file both remember that there is no sector; the second
to write takes one that cannot be linked, which is then in `lost`. `trouble` marks
an overlap that undoes a write (`ghost`, `stale`), a removed working directory, a
failure half-way, and a write through the descriptor of a deleted file into
sectors that are another's by now (`foreign`).

`Partitions`: a boot sector is its four entries; a command works out the `writes`
it will do from what it read, and then does them one by one, or is cut short.
Relative sector numbers wrap at `Modulus` as those of the tables do. `upset` marks
tables that another tool or a reused disk left.

### UsbDisk, UhciFrames

`UsbDisk` has the three layers of a USB disk in one module, because its hazards
lie between them: the retries of `SCSIHandler`, the three phases of a command and
the recovery (`reset`, `clear in`, `clear out`), and the transfers of an EHCI or
UHCI controller packet by packet. A transfer that timed out stays linked and may
still move packets. The data toggles are kept by both sides.

`UhciFrames`: a transfer claims a frame, builds its queue head, links it, and when
it is over queues the frame for the cleaner. `Probe` runs before the cleaner
exists, with the exceptions a device can throw. Blocks of the heap are counted,
since the code never frees the descriptors of a transfer.

### Devices: AtaPorts, AtaTransfers, EhciPorts, XhciRings, PciBus, Clock, Floppy, Keyboard, Windows

`AtaPorts` goes from the mode of a controller to the registers of the vendor's
chip for each drive; masks of speeds are sets. `AtaTransfers` is one call, chunk by
chunk; the drive, its interrupt and the bus master are actions of their own, and
the other disk of the channel may raise the shared interrupt (`foreign`).

`EhciPorts`: the controller (`hc`) walks the asynchronous list while `Probe` links
queue heads into it, and runs descriptors while the driver polls, gives up and
frees. `XhciRings`: the rings with their cycle bits, the event ring, the event
results, one thread that probes and reads the disk, the timed task that queues
key reports, and the interrupt handler in between. A TRB is written in two steps.

`PciBus` is the recursion of `ScanBus` with its frames in `scan`: reads and writes
of configuration space go to the functions that would hear them through the
bridges as they are numbered at that moment. A machine is a set of paths.

`Clock`: the chip ticks between the reads of its registers; then each pass of the
loops of `mdate.cpp` is a step, on exact integers until `GetTimeOfDay` puts them
into a word.

`Floppy`: the controller seeks, transfers and raises its interrupt by itself (`fdc`,
`senses`); the driver is at a step of an operation (`step`), and an exception takes
it to the next of the three tries of a transfer or of the three seeks around them
(`Throw`). The task that turns the motor off has its three writes as steps.

`Keyboard`: what the keyboard sends is the sequence `events`, and a key is known by
its place in it, so that the order and the modifiers of what arrives can be compared
with what was typed. The interrupt handler (or the driver of the USB keyboard),
the queue and the dispatcher `kbed` are actions; whether the stream of a process
has room is a choice. Keys are one of each kind the tables distinguish.

`Windows`: an operation of `GraphicsVideo`, atomic by its mutex, makes a list, a
stack of covered bases and a focus of what they were (`Order`). Processes, the
kernel service, a killer with others between its steps, the refresh task and the
mouse dispatcher call them. `strayed` marks a race the code does not look for.

## Runs

| Run | Configuration | Shows |
|---|---|---|
| pm_life | `Processes` | Rule 6a of Destroy: children get a parent that can still wait (`OrphansHaveAParent`); what was created gives back stack, pages, group and descriptors (`EndsLeakNothing`); the scheduler's lists hold no deleted object, under kills too (`NoDanglingSchedule`); death is final (`DeathIsFinalUnlessKilled`) |
| pm_fair | `Processes` | No starvation, waits for children end, zombies are reaped |
| prog_fair | `Progress` | The kernel service refines `RequestResponse`, no request is used after delete or has two owners, servers are themselves again; sleeps and waits for events end, and so do page faults unless their server has stopped |
| wt_safe | `KernelParts` | Exclusion under `ProcessSwitchLock`, no early wake-up, one wait per signal; heaps tile; pages have owners; descriptor counts cover redirects |
| dd_safe | `Drives` | What was written is found and flushed; directories stay sound; partitions stay disjoint and in place |
| fs_safe | `Volumes` | Chains are disjoint, the free sectors are known, an unmounted table is saved; a USB read has its own data; UHCI frames have one user and are not lost |
| dev_safe | `Devices` | Drives and chips agree, PCI functions are found; requests are answered by who was asked; sectors move as asked; dates are right and the time told is one that was; a floppy transfer that is reported good moved what was asked; keys arrive as they were typed; the focus is with a window that is there |
| pm_kill_race | `ProcessManager` | Violation: a thread outlives its process |
| ks_lost_wakeup | `KernelService` | Violation: a wait for the kernel service never ends |
| wt_mutex | `Waits` | Violation: two holders of a resource |
| pg_stacks | `Pages` | Violation: a thread that needs another page of its stack is refused it |
| fs_shared_sector | `FileSystem` | Violation: two chains share a sector although nothing failed |

Every action of every module fires in a passing run. Types of modules whose type
theorem is proved are not checked again by a run.

### Bounds

- Pids are never reused, so `MaxPid` bounds how many processes are ever created:
  four give a parent, a child, a thread and a grandchild; three suffice for a
  killer, a target and a witness. `MAX_NO_PROCESS` is at or below it so that
  creation at the limit happens. `Servers` may serve requests. A flaw that needs
  a fifth pid was found by a proof and not by the run (see
  [findings](#findings)); the theorems have no bound.
- `MaxRequests` 2: a second request meets what the first left behind. Two servers
  is what `UpanixMain` spawns.
- `MaxTicks` 3, `Durations` {2}, `ClockPeriod` 8 with `Boot` 5: a sleep before and
  one across the wrap. `MaxPending` 1: one signal to fight over.
- `HeapSize` 12 with a header of 1: room for two aligned blocks, a remainder too
  small for a header, and an exhausted list. Eleven pages: for two processes (`pages`), and for one
  beside kernel stacks (`stacks`), three of them were lost to earlier failures, so
  that both fail at every allocation; a process whose threads meet page faults
  (`faults`) can use all. Faults of several processes together, or beside kernel
  stacks, are not in the run but in the theorem.
- `MaxFd` 3, `MaxOpen` 3, two processes below the root: a redirect to a redirect,
  a full table, and numbers used up.
- Three sectors, a cache for two (32 in the code), a release list of two: a range
  of three has a cached sector between two missing ones, the cache is full, the
  list holds a sector twice. Two values tell old from new (they are only compared,
  hence the symmetry). `FlushCount` 1 makes the flush task stop half-way.
- Directories of two entries a sector, four sectors, two names, three calls of
  two processes: a directory grows into a second sector and shrinks, and every
  pair of calls overlaps; the drive may begin filled, with a file open in both. A
  disk of 13 sectors with tracks of `DEF_START_SEC` 2 (63 in the code): three
  primaries or an extended chain of three fit.
- Six sectors in three table blocks, a cache for two of them, a batch of two (8
  in the code), a pool for two, six calls. `FS_double` has a cache for all three
  blocks: the violation needs no eviction. The run follows a format through its
  blocks and its failures, and no execution after `partial`, `stale` or
  `reformatted` (`Followed`).
- Two packets a phase and six command blocks: a retry of every phase. 24 frames
  and 115 heap blocks (1024 frames in the code): the heap and the frames are both
  used up by Probe.
- An xHCI ring of three slots and its link (256), an event ring of two: both wrap
  and both are full. Chunks of four sectors, three retries as in the code. The
  bases of the clock are two (60, 60, 24), and a word holds some 1875 days: the dates
  shown lie around the seed date, the ends of years and leap days, and one of
  them is before the seed. PCI buses of two devices of two functions and a list
  of five (32, 8, 255): bridges beside and inside each other, a list that is
  full.
- A floppy of two tracks, heads and sectors each, sectors of two bytes and a DMA
  word of eight (512 and 64 K): transfers within a track, over the end of a
  cylinder and above the DMA limit; two requests, the second meeting what the first
  left. A key queue of two (1024) is full after three of the four events, and
  sets of keys have two of a kind, Caps Lock with a shift, or a prefix. Three
  processes beside the root: a base over a base with a window on top.

### Fairness

- `ProcessManager`: `StartScheduler` is an endless loop, so the scheduler takes
  another turn (weak fairness of `Dispatch` or `Skip`); the PIT interrupts 1000
  times a second, so who runs is preempted in the end (weak fairness of
  `Preempt`). Nothing is assumed of what processes do, and `NoStarvation` is what
  follows.
- `KernelService`: every client that can continue does, every server that has
  work goes on: that is `NoStarvation`. Calls and kills are never forced.
  A server may stop, for a killed client or for want of pages; `EveryFaultEnds`
  excepts a fault whose own server stopped and the time when all have
  (`Forsaken`). A page fault cannot lose its wake-up, since request and wait are one
  step; the other requests can, which is the violation `ks_lost_wakeup`.
- `Waits`: time passes, interrupts come, controllers complete. A process leaves
  its `ProcessSwitchLock` (strong fairness, since others may interrupt its turns),
  polls end, and a wait whose end has come is noticed although others hold the
  task-switch flag now and then: the scheduler tries it again after each of them,
  and what it waits for does not go away.
- `Progress` has the fairness of both its parts. All other modules promise safety
  only and assume none.

Deadlock is checked in `Processes` and the violations except `pg_stacks`: `Stop` covers
an execution that is undefined from here on, `SleepsIdle` and `Spin` a server and
a scheduler that find nothing to do. `Progress` stops when both servers have, the
other compositions where calls, commands or dates run out, pages at a stray access.

## Findings

Five runs show that the code does something else than a comment or a note of
the repository says:

- `pm_kill_race`: Kill marks its target and can be preempted before it destroys
  the target's threads; the scheduler meanwhile releases and deletes the marked
  process, and its threads stay. `SchedulableProcess.cpp:79` says that all child
  threads are destroyed.
- `ks_lost_wakeup`: a server that answers between AddRequest and
  WaitOnKernelService sets a flag that the wait resets. `src/todo.txt:113-115`
  reports the hang and calls it done.
- `wt_mutex`: a process that was woken from WaitOnResource neither takes the
  resource nor looks again. `src/todo.txt:84-85` calls the use of mutexes done.
- `pg_stacks`: the test for a stack in `MemManager::AllocatePage` (508) joins two
  inequalities by `||` and is always true; what it guards fails with the DMM flag on
  as well as off, so that no fault in a stack is served and the thread exits.
  `SchedulableProcess.cpp:233` leaves the growth of stacks to page faults.
- `fs_shared_sector`: when the pool is empty, `LoadFreeSectors` reads up to eight
  table sectors and asks the cache only for the first of them. A later one that
  is cached and has been written is believed as it stands on the drive, and its
  used sectors are handed out again. `src/todo.txt:260-273` doubts the logic of
  cache and pool and calls the corruption seen then resolved.

One was found by a proof: `OrphansHaveAParent` was first stated of all processes
and held in the run, whose four pids are too few. A server makes a process for a
thread that is destroyed with its main thread meanwhile; the new process has a
parent that is gone, nobody releases it, and when it exits its own children are
not handed on. The property now says of whom children are handed on
(`ChildrenAreHandedOn`).

Met while modelling; the models contain these as steps, and the properties
exempt them:

- Processes: a new thread is schedulable before it is in the process map; a
  terminated process keeps the pointer to its group; a process killed while it
  holds a resource or has the task switch off keeps it so. A constructor that throws
  and a full process map keep all they took. A sleep whose end lies
  behind the wrap of the clock ends at once.
- Kernel service: without a page for a fault or a frame buffer, or with a client
  that has left the process map, a server stops for ever.
- Memory: a heap whose list becomes empty is made anew over blocks in use; the pages
  behind a hole in a heap are never given back; a service that stops at a fault may
  leave the mutex of the process's faults locked;
  `AllocateKernelStack`, a failed Load and a failed thread keep their pages; `CopyImageFails` frees
  through an uninitialised page directory.
- Descriptors: a descriptor duplicated from a duplicate counts at one place and
  uncounts at another; `dup2(x, x)` loses x; a write over several buffers never
  advances in the buffer.
- Cache: a sector found when a range is looked up can be deleted while the same
  operation fills in those around it, the release task looks at a node that is
  being popped, and a sector listed twice disables the cache for good, with what
  was dirty in it.
- File system: a format keeps the table cache, and one that fails leaves a table
  half old and half new on a drive that stays mounted; a table block that could not be
  read stays in the cache as block 0; a write that fails loses the sector it had
  allocated, a delete that fails leaves a file with free sectors; two calls that
  copy the same directory sector undo each other; a working directory can be
  removed; a descriptor on an empty file remembers that there is no sector, so that
  the second of two loses what it writes and a sector; a descriptor outlives its
  file and then writes into sectors of others.
- Disks: a failed DMA transfer is started again without a new command; Intel and
  VIA test the cable by a flag that only UDMA 66 on the second channel passes;
  AMD's loop over its ports never ends; the timings of a channel are merged
  before they are rounded; the interrupt of a shared line may be the other disk's.
- USB: UHCI never links the descriptors of a transfer, so nothing moves; an EHCI
  transfer that timed out stays linked; every command block has tag 0, so a late
  status of a write can be taken for the next one's; the address counter has no
  bound; in xHCI poll mode whoever polls throws away the events of others; halted
  endpoints are not reset; key reports overlap by half.
- Clock and PCI: the clock is read while it changes; every fourth year is a leap
  year (which holds until 2100); dates before the seed wrap in the word; the
  header type of function 0 is believed for the functions of a device, and that
  of the device before where function 0 is missing.
- Floppy: whether a transfer succeeded is read from the head and drive bits of the
  status, so for drive 1 any reply is a success (`Floppy.cpp:358`); the last sector
  is refused (297-299); a transfer that does not fit in the cylinder may be
  reported good; the signal of the reset is never consumed, so waits run one
  signal ahead; a command given up while it executes leaves reply bytes that block
  the next; the motor task may turn a motor off that was just started.
- Input: the modifier byte of a USB keyboard has no effect; letting go of one of two
  held shifts counts as both; the function key of a session that has ended
  throws in the interrupt handler; a drag goes to the focus and not to the window
  it began in, as `PS2MouseDriver.cpp:148` has it; a covered base that ends or resigns
  brings up another one on top of the first; a click on a window that has
  just ended lists it again; `GenericUtil_ReadInput`, which nothing calls, would be a
  second reader of the key queue.
- Users: `FileOperations_Exists` returns a bool, which `UserManager.cpp:36` compares
  with `FileOperations_SUCCESS`, that is 0: with a list a new one is created, which
  fails, without one it is loaded, which fails. A session that needs users ends.
- SCSI: `SCSIHandler_DoStartStop` never queues its command.

## Proofs

All theorems hold for every value of the constants under the assumptions the
modules name, which say no more than that sizes are positive naturals, that
special values differ from others, and of a floppy that the DMA channel's limit is
a multiple of a sector. `PROJECT.json` lists the theorems with the
properties they state.

**`ProcessManager_proofs`.** `NoDanglingSchedule` is not inductive: a kill frees
the threads of its target while the target is still in the list, which is
harmless only because the target is already marked dead; a new process enters
the list later than it is created, which is harmless only because nobody but its
creator knows it. `IInv` says so: threads belong to the list of their own main
thread (`ThreadsBelong`), list members are main threads (`ListOfMains`), the
running process is alive and has had its turn (`CurrentAlive`), an object under
construction is private (`NewIsPrivate`, `ArgsDiffer`), a target is dead from the
mark on (`KillTarget`), and only dead processes list deleted threads
(`LiveThreads`). Operations on the table are described once by
`Frame(W, V, D, L)`: from W to V the objects L are deleted, only D die and threads
only leave lists. `NothingIsLost` (`EndsLeakNothing`) adds `AllInHand`: the counts of
groups cover their holders, and who still holds something is alive, was never
completed (`NEW`), or is the target of a killer that will get to it. Where nobody kills, `NoOrphans` and
`DeathIsFinal` rest on `CalmIInv`: the `Family` of every process (an exit is over
in one step, threads have mains, children and parents know each other, everyone is
cared for) and what calls in progress may assume (`AtWork`). `ProcessesIInv` puts
these together for both kinds of behaviour.

**`KernelService_proofs`.** The invariant ties every request in use to the client
that will delete it, to one owner, and to the client's place: who has asked and
is not yet awake has a request that was executed at most once, and a completion
flag only if it was executed. `PromiseIsKept` maps each action to a step of
`RequestResponse` or to a stutter: the initial state to the initial state, and
then step by step. `ServersComeBack` needs what a server has borrowed (`Borrowed`).

**`KernelParts_proofs`.** Waits: the flag is cleared by exactly the process inside
a lock; resources are only waited for outside of one. That each signal ends one
wait follows from the type of `irq` for waiting processes; that nobody wakes
early, from `SleepsBegan` and arithmetic of a clock that wraps. Descriptors
(`RedirectsAreCounted`): numbers above those handed out are unused, and the count
of each covers the redirects to it. Heap (`HeapIsTiled`): the free list, the held
blocks, what dead threads left and the block an allocation is taking tile the
heap, at every step of splitting and relinking. Pages (`PagesHaveOwners`):
`OwnedOnce`, every marked page is owned once, and `Lives`, who owns what at which
stage of a life, with `StillMissing`: while a service is between the look-up and
the mapping it holds the mutex, is the only one of the process, and what it found
missing still is; `DuringEnd` allows for the holes of a heap. `EachPartBehaves`
carries the four to the composition.

**`DiskDrive_proofs`.** `NoLostWrite`, `DirtyIsListed` and `ReadsLastWrite` hold
together or not at all. `IInv` joins them to what an operation may rely on
between two of its sectors: a sector it has to transfer stays out of the cache
until its turn comes (`Reading`, `Writing`, by the drive mutex), a sector in the
dirty list is in the cache (`DirtyIsCached`, because a victim is not dirty), and
a sector that replaces a victim in the middle of a read is on the medium already.

**`FileSystem_proofs`.** `UnmountedIsSaved` needs what holds while the drive is
mounted: a cached block that differs from the drive has a write count
(`CleanIsSaved`), and a block with a count is cached (`WrittenIsCached`). Then
eviction and unmount lose nothing. `ChainsAreDisjoint` and `FreeIsKnown` rest on
`ChainsIInv`: the table as it is now, the first sectors of the nodes and the
sector about to be linked form disjoint chains that end, given by ranks instead
of by following links, so that no induction is needed; a write in progress is on
its node's chain, a delete has cut it where it stands. A format that comes to its end
makes a table that can be trusted again, because of what it has written by then
(`HalfFormatted`).

**`UsbDisk_proofs`.** `ReadsAndTogglesAgree`: per phase of a command, what the
device can be doing and what may lie in the buffer (`AtCBW`, `AtData`, `AtCSW`);
toggles are in step at each endpoint that did not stray.

**`Volumes_proofs`.** `OneUserEach` and `NoFrameIsLost`: a claimed frame has one
caller or one place in the queue or is the cleaner's, and blocks recorded for a
frame are its own (`FramesGood`). `StorageBehaves` carries the parts over.

**`Devices_proofs`.** `SectorsMoveAsAsked`: while no interrupt of the other disk
came, a call is at the sector its job says, what was moved is what it is past, and
between chunks the drive is quiet (`InCall`). `CalendarIsKept`: in the counting
loops the days counted and those still to come add up to the days between the
dates (`CountInv`); on the way back the days of the date and those left add up to
the time (`BackInv`). `TheTimeIsTold` adds to that what the registers read so far
have to do with the chip: as long as only its seconds change they say what it
shows, and the second put together from them is one since the start (`InStep`,
`WasRead`); in the end the date the loop gets to is the one read because two days
of the calendar with the same number are the same (`DaysInOrder`). `FloppyMoves`:
while the driver waits for a transfer the controller executes the one asked for
or holds the reply to it (`InTransfer`), although signals of earlier commands may
wake the driver before; and from the start of the motor to the end of the
transfer its task rests (`MotorRuns`). `DevicesBehave` carries the three to the
composition.

### Model-checked only

- Liveness under fairness: `NoStarvation`, `ChildWaitEnds`, `ZombiesAreReaped`,
  `EveryFaultEnds`, `SleepEnds`, `EventWaitEnds`; the prover has no rule for them.
- `PartitionsAreDisjoint`, `PartitionsKeep`, `TreeIsSound` and with them
  `DrivesTypeOK`: the tables and the tree are read by functions that recurse along
  chains of sectors or with folds, and what these compute is a matter of induction
  over data.
- Of `HardwareIsAsTaken` what is said of PCI and IDE controllers, of
  `RequestsAreAnswered` what is said of EHCI and xHCI, and `DevicesTypeOK`: PCI
  paths are sequences of any length, bus numbers count sets of them; speeds and
  timings are tables; the rings and lists of the controllers are close to the
  hardware's own state and checked at their wraps.
- `InputGetsThrough`: streams, queues and lists of any length, with folds over them.

## Not modelled

Registers, ports, page-table layout, ELF and packet formats are data or device
I/O without an order of steps this project could get wrong differently from the
code; `PROJECT.json` names the reason for each component. Some code is not
reached: `ExecuteATAPICommand` and `GetMaxLun` have no callers, `MountManager` is
never initialised, `Floppy_FullFormat` and `Floppy_FormatTrack` are reached by nothing, the users' list is never read (see [findings](#findings)), the network stack is unfinished. Of `mdate.cpp` only
what the clock uses is modelled, of PCI not the sizes of memory windows and the
interrupt lines. `HRS_IN_DAY` (the seconds of a day, which `SystemUtil` divides
by), the containers, `upan::mutex` and the B-tree come from a library that is not
in the repository and are taken for what the code uses them as. `ProcessManager`
leaves out page tables and stacks; `Waits` has no kills; `DiskDrive` has neither
Format nor the list of drives; `FileSystem` leaves out names, paths and
permissions; `Directories` takes sectors from a set.
