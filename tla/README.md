# CybOS in TLA+

CybOS is a small 32 bit operating system kernel for the PC: boot loaders, paging,
preemptive scheduling of forked processes, a virtual file system with a few file
systems and drivers under it, and an ELF loader.  This directory holds TLA+
specifications of its core, translated from the source, their TLC configurations,
and proofs about them.  Paths below are relative to `src/source/kernel/` unless
they start with `src/`.

All runs are started in this directory, for example `tlc -config MCSched.cfg MCSched.tla`; the
proofs with `tlapm SchedProofs.tla`, and likewise `TaskListProofs`, `MemoryProofs`,
`PrivateMemoryProofs`, `FloppyProofs`, `VfsProofs`, `KeyboardProofs` and `NumberLemmas`.
`VfsProofs` takes about ten minutes, the others less.

## 1. Inventory

What each part keeps, does, and talks to; what is hard about it; what it must keep.

| Part | State | Operations | Hard about it | Correct when |
|---|---|---|---|---|
| Scheduler (`schedule.c`, `task.S`) | linked task list, `task_t` (state, alarm, signals, pids, saved context), current task, last pid, tick count, one wait queue | reschedule, fork, sleep, exit, sleep on a queue, wake-up, signals | preemption, signals that end a wait, stale queue entries, exit that must not return, starvation | one running task, idle task always there, no lost wake-up, no starvation, an exited task never runs, the search ends |
| Interrupts (`isr.S`, `idt.c`, `timer.c`) | interrupt flag, tick counters | timer, floppy, exceptions, system call gate | where interrupts are enabled | kernel entries do not nest |
| Memory (`paging.c`, `page.S`, `heap.c`, `kmem.c`) | frame bitmap with a cached position, page directories and tables, top of the heap | allocate a frame, map, clone a directory, kmalloc | two sources of frames, sharing decided per page table, nothing is freed | a frame has one owner, fork isolates, kernel tables are shared, the heap grows |
| Loader (`exec.c`, `ff/elf.c`) | the mapping of the calling process | execve | sleeps between the mapping and the contents of a section | a process loads its own memory only |
| Floppy (`drivers/floppy/floppy.c`, `dma.c`) | selected drive, DMA buffer, command in progress, interrupt flag | calibrate, reset, seek, read a sector | two readers without a lock, early wake-up by a signal, retries, what a chip still owes | a reader gets the sector it asked for, a read returns, calls leave nothing behind |
| VFS and mounts (`vfs.c`) | file system table with counts, mount table | register, unregister, mount, path walk | failing steps, remounts, tables that must agree | no mount without its file system, a name is mounted once, a supernode belongs to its device |
| Devices (`device.c`, `vfs/devfs.c`) | device list, device nodes in a fixed table | register, look up | list and nodes must agree | what is registered is found under its name |
| IDE, partitions (`drivers/ide/*`) | drive and partition tables filled at boot | identify, parse tables, read by polling | address conversion, nested tables, minor numbers, offsets inside sectors | a read returns the bytes of the drive or partition asked for |
| FAT12, ext2, CybFS (`vfs/*.c`) | information of a mounted volume, a copy of the FAT | mount, read a range, search and list a directory | chains and inode tables, ranges over boundaries, ends of directories | the bytes read are those of the file, a name leads to its entry |
| Keyboard (`keyboard.c`) | modifiers, locks, key buffer, console being chosen | key interrupt, poll, switch | interrupts between the steps of a poll, state of a switch | keys are read in order, choosing a console ends |
| Consoles (`console.c`, `conio.c`) | list of consoles, the current one; cursor, buffer and changed block of each | create, destroy, write, scroll, flush, switch | consoles destroyed while shown, output in the background, partial flush | TAB goes round all consoles, only the current one is drawn |
| Queue, mutex (`queue.c`, `mutex.c`) | doubly linked list; one bit | insert, remove; test and set | first and last item | implements a sequence |
| PCI (`pci.c`) | nothing that changes | enumeration at boot | hardware | - |
| Boot (`kernel.c`, `gdt.c`, `idt.c`, `src/source/boot`) | tables written once | initialise each part | runs once, in order | - |

How they interact.  A program enters the kernel through one trap gate
(`handle_syscall_int`), which calls `service_interrupt()` with interrupts disabled.
`execve` calls the loader, which reads through the VFS, a file system and a
driver; the floppy driver sleeps on `fdc_wait_queue`, and with it the whole call
chain, until `floppy_interrupt()` wakes the queue.  The timer interrupt counts
alarms down (`global_task_administration`) and reschedules at the end of a time
slice.  `fork` clones the page directory and the kernel stack.  A path is looked up in the mount
table, then component by component in the file system of the mount; the driver of a
mount's device is found in the device list, to which the drives are added at boot and a
node in devfs for each.  A partition hands its reads to its drive.  The keyboard interrupt
draws its debug line on the construct, fills the key buffer and switches consoles; system
calls and kernel messages write to consoles.  What the parts share is global: the current
task, the task list, the frame bitmap, the heap, the selected drive and its DMA buffer, the
current console and the key buffer.

## 2. Modules

| Module | What it is |
|---|---|
| `Sched` | scheduler, timer and floppy interrupt, system calls fork, sleep, exit and the waits of a reading call |
| `SchedProofs` | inductive invariant of `Sched` and the theorems that follow |
| `TaskSeq` | abstract: the task list as a sequence without repetitions |
| `TaskList` | the list as linked by `next` and `prev`; implements `TaskSeq` |
| `TaskListProofs` | that it does, that its links agree, and that its walk is the search of `Sched` |
| `ProcessMemory` | abstract: the private memory of each process |
| `Memory` | frames, heap, page directories, fork and the loader; keeps the promise of `ProcessMemory` |
| `MemoryProofs` | proofs about the frames and tables of `Memory` |
| `PrivateMemoryProofs` | proofs that frames stay private and that `Memory` implements `ProcessMemory` |
| `Floppy` | the floppy driver with the controller and the DMA channel it programs |
| `FloppyProofs` | inductive invariant of `Floppy` in three layers, and the theorems that follow |
| `BlockDevices` | what a read of a floppy, an IDE drive or a partition returns; the devices of a drive |
| `Fat12`, `Ext2` | the two file systems as functions on a volume |
| `Vfs` | devices, file system and mount tables, path lookup; composes the three above |
| `VfsProofs` | proofs about the tables and devices of `Vfs`, and about what is read and found on them |
| `Console` | operations on consoles: buffers, flush, the list |
| `Keyboard` | key interrupt, key buffer, console switch and the calls that use consoles |
| `KeyboardProofs` | proofs about `Keyboard`: keys, ring of consoles, screen |
| `NumberLemmas` | facts about natural numbers that several proofs use |
| `MCSched`, `MCTaskList`, `MCMemory`, `MCFloppy`, `MCVfs`, `MCKeyboard` | instances for TLC |

### Sched

The grain.  Every entry of the kernel disables interrupts (`cli` in `isr.S`) and no
modelled path enables them before the final `iret`, except the idle call just before
`hlt`.  An action is therefore a whole kernel entry: system call or interrupt, the
switch to another task it causes, and the signal that task consumes when it comes
out of `reschedule()`.  The exception is the floppy driver: a task that slept in it
resumes in the middle of the kernel, with interrupts disabled; such a task is at
`resume = "wait"`, and only it can step.

State.  `list` is the set of linked tasks: tasks are numbered as they are created and
the list is always in that order (`TaskList` shows that the pointers implement the
sequence and that the walk finds what `NextTask` finds).  `state`, `alarm`,
`signal`, `pid`, `ppid` are the fields of `task_t`; `resume` stands for the saved
context; `cur`, `lastPid`, `ticks` and `slots` are `_current_task`, `current_pid`,
`_schedule_ticks` and `fdc_wait_queue.task`.  `fdcIrq` is the interrupt the
controller still owes.  `dozing` is history: who asked to sleep for 0 ms.

| Action | Code |
|---|---|
| `Tick` | `timer_interrupt`, `global_task_administration`, `reschedule` |
| `FloppyIrq` | `floppy_interrupt`, `sched_wakeup`, `reschedule` |
| `Fork` | `sys_fork`; the idle task forks once (`kernel_entry`) |
| `Sleep` | `sys_sleep` |
| `WaitForIrq`, `FinishRead` | `fdc_wait_for_irq` with `sched_interruptable_sleep`; return of the system call |
| `Exit` | `sys_exit`: orphans, then zombie with a signal to the parent, or removal |
| `Halted` | `kpanic`, or the endless search: interrupts are off for good |

`Reschedule` is `switch_task()` and `handle_pending_signals()`: declined because of a
pending signal, no other task, the endless search, or a switch.

### TaskList and TaskSeq

`TaskSeq` has a sequence, an append and a removal.  `TaskList` has the pointers; a
removed task keeps its own, and `exiting` is the task that was removed and from which the
next search starts.  The refinement maps the sequence to the walk from the head.
`SearchAgrees` compares the walk of `get_next_runnable_task()`, for every set of runnable
tasks and every current task, with the search by sets that `Sched` uses.

### Memory and ProcessMemory

An action is what the kernel does without sleeping: a fork (one only by the idle process), the
beginning of an execve, the mapping of one section after the previous one has been read, a write of
a program.  Loads of several processes interleave at every read.  `used` and `firstempty` are the
frame bitmap; `heapTop` is the top of the heap in units; `table` and `entry` are the page
directories: who created the table of a region, and the frames in it (a table that is linked has the
kernel as its owner); `mem` is what a frame contains.  There are six regions, one page directory
entry each: the low megabytes (with the programs linked at 0x00100000), 0x08048000 (where a linker
puts programs by itself), the user stack, the heap, the image of the kernel at 0xC0000000, and the
window at 0xF0000000 (`paging.c:538`).  The tables of the last three never change once the kernel
runs, and only which directory has them is followed.  A section has an address and a size in units,
and neither need be a whole number of pages: it is mapped onto a block of the heap that begins at a
page (`.bss`: where the heap ended), from the page of its address on, and the kernel reads its
contents to that address through the pages that are mapped when the read ends.

`ProcessMemory` says what a process may rely on: a child starts with a copy, and
afterwards a step changes the private memory of one process.  `KeepsPromise` is the
refinement, with a process's private pages as its view: its stack and the whole pages of the
sections read from its file, unless the program lies in a table of the kernel.  The last page of a
section is not among them, and neither is the `.bss` section: their frames go on with the next
block of the heap, which may be the kernel's or another process's `.bss` (further defects in section
4).  A load whose pages lie behind the mapped heap is not followed further (`mode = "lost"`): it maps
frames from 0 on.  `mode = "unmapped"` is a page fault of the kernel or of a program on a page of a
section that was not mapped.

Through the window every process may read and write the low 16 megabytes of physical memory, the
frames of all others included (`paging.c:540`: it is a table of the user's), and these frames are
not marked for it.  The model has the window as a table that is linked, and programs that write to
their own pages only: nothing is private from a program that writes to 0xF0000000.  `MappedMarked`
therefore speaks of the frames that forks took and the loader mapped, and `PrivateFrames` of pages
outside the window.

### Floppy

A step of the driver is the code between two waits for the interrupt: busy waits while booting
(`boot`), sleeps on `fdc_wait_queue` later (`pc`).  `cur` is `_currentDrive`, `flag` is
`fdc_receivedIRQ`, `buffer` the sector in the DMA buffer.  The hardware is modelled from what the
driver sends to it, and is external to the source: seeks run in parallel, a READ occupies the
controller, seven result bytes follow it, a reset owes four status reads, a drive reports where its
heads are, and the 8237 moves one byte more than its count.  `InitController`, `CalibrateWoken` and
`ResetWoken` are the boot of the driver; `Read`, `SeekWoken` and `ReadWoken` a block read;
`Signalled` is a signal that ends a wait; `SeekEnds`, `ReadEnds` and `Interrupt` the controller.
`disturbed` remembers that two reads overlapped or a wait was cut short: from then on the driver has
no promise to keep, and the model stops at the first such state's consequences (`Halted`).

### BlockDevices, Fat12, Ext2, Vfs

A byte is named by its place on a disk, so that a read either returns the right bytes or names the
ones it got instead.  `DriveRead` has the conversion of addresses (48 bit, 28 bit, CHS) and the head
and tail of a range as the code cuts it, the byte-wide offset included; `PartitionRead` finds the
drive through the minor number.  `FatRead` follows the chain to the first cluster and reads on from
there; the copy of the FAT in memory lies in a block of 0 bytes (its size is computed in a byte), so
what is allocated next lies over it.  `heap` is how far the heap has gone past the beginning of the
FAT, and `lost` how many bytes of it have been written over, which is more where a mount writes
behind its blocks.  Every allocation counts with its size: `Allocate` those of others, `MountUses`
those of a mount, and `FindDir` the buffer that the search itself takes before it follows the chain
(`fat12.c:444`).  `fat12_readdir()` takes one as well, but follows its chain before anything is
written there (`fat12.c:337`).  `Ext2Find` stops where the three joined conditions of the code
stop.  `FatFormatted` and `Ext2Formatted` say what a volume by the format is; they are what the code
relies on and never checks.  A search looks at the sectors of the volume itself and at whether a
read delivers them in full; that a read delivers the right ones is `BlockReadRight` and
`FatReadRight`.

`Vfs` boots a machine drive by drive (`InitFloppy`, `InitDrive`: devices, partitions and nodes),
then mounts, registers and unregisters in any order.  `Mount` is `sys_mount()` as a whole: it
counts, fills in the slot, and only then learns whether the file system mounts; a failing remount
leaves an enabled slot without a supernode.  A call that returns early changes nothing and is not an
action.  A file system has one static supernode for all its mounts (`fat12.c:36`, `ext2.c:34`):
`root` of a mount names the file system whose supernode it points to, and `super` is the mount that
the one of Ext2 names, the last.  `SuperNode` is the copy a path begins with, in which
`vfs_get_node_from_path()` sets the mount again.  The length in the supernode of Ext2 is also that
of the last mount; it is only printed, and left out.  In this kernel `sys_mount()` is called three
times at boot and `vfs_unregister_filesystem()` never; the model calls them in every order.  CybFS
and devfs are given no device, and a device is mounted with the file system that is on it. FAT12 and
CybFS have the older form of `finddir` and `readdir`, which return a node or an entry of their own
instead of filling in the caller's: a path through them ends in an unfilled node (`Unfilled`), so
that no program is loaded from FAT12 at this commit, and their listing gives the caller no name
(`AnyName`, finding 6); `ext2_read()` returns 0.  `FatReadRight` therefore states what the read
operation does when it is called with the node of a file, and `FindRight` and `ListedIsFound` what
the two walks along a directory come to, whether or not it gets to the caller.

### Console and Keyboard

`Console` has the record of a console (cursor, changed block, flush mode, buffer, links) and the
operations, as functions from consoles and screen to consoles and screen. The block of a partial
flush is the code's, without the last changed column.  A fresh console has any flush mode:
`kmalloc()` does not clear; that its changed block is just as uninitialised is left out, it is taken
to be empty.  `Keyboard` has the steps.  System calls and the interrupt run with interrupts
disabled, and one of them is one step; `keyboard_poll()` enables them and is three (`PollWaits`,
`PollReads`, `PollTakes`).  No system call number leads to it at this commit; the model has two
readers call it. The interrupt is split by what it does: `SwitchFini` (release of CTRL), `SwitchRun`
(TAB), `WhileChoosing`, `MakeKey`, `BreakKey`.  A destroyed console keeps its links and may be
shown, chosen, written to and destroyed again: nothing refuses it.  `twice` is history: it remembers
that one was destroyed a second time, after which the list need not have all consoles and
`RingComplete` promises nothing.  A destruction prints on the construct, whatever is shown.  Before
multitasking starts, kernel messages are printed with interrupts enabled, and the interrupt may come
in the middle of one: that grain is not modelled.

## 3. Runs

| Run | Checks | Shows |
|---|---|---|
| `sched` (`MCSched.cfg`) | `TypeOK`, `OnlyCurrentRuns`, `IdleAvailable`, `ParentAlive`, `NoLostSleeper`, `PanicOnlyQueueFull`, `RemovedNeverResumes`, `IdleOnlyIfNothingElse`; `RunnableRuns`, `SleeperWakes`, `SignalHandled` | the scheduler under every interleaving; no starvation, no endless sleep, no signal forgotten, under fairness |
| `sched_exit` (`MCSchedExit.cfg`) | `ExitedNeverRuns`, violated | finding 1 |
| `sched_search` (`MCSchedSearch.cfg`) | `SearchReturns`, violated | finding 2 |
| `task_list` (`MCTaskList.cfg`) | `BackLinks`, `SearchAgrees`, `ImplementsTaskSeq` | the pointers are the list |
| `memory` (`MCMemory.cfg`) | `TypeOK`, `CacheExact`, `MappedMarked`, `PrivateFrames`, `KernelLinked`, `KeepsPromise` | frames and private memory under every order of forks, loads and writes |
| `memory_shared` (`MCMemoryShared.cfg`) | `UserMemoryCopied`, violated | finding 3 |
| `memory_heap` (`MCMemoryHeap.cfg`) | `HeapExpands`, violated | finding 4 |
| `floppy` (`MCFloppy.cfg`) | `TypeOK`, `ReadRight`, `StopsOnlyDisturbed`, `SettingsMatch`, `QuietBetweenReads`, `ReadReturns` | one reader at a time gets its sector, and returns; what overlapping readers lead to |
| `files` (`MCVfs.cfg`) | `TypeOK`, `MountsBacked`, `RootBelongs`, `DeviceReachable`, `BlockReadRight`, `FatReadRight`, `FindRight`, `ListedIsFound` | tables agree; reads and searches give what is on the disk, with the excuses each property names |
| `files_lookup` (`MCVfsLookup.cfg`) | `LookupRight`, violated | finding 5 |
| `files_listing` (`MCVfsListing.cfg`) | `ListingIsNamed`, violated | finding 6 |
| `console` (`MCKeyboard.cfg`) | `TypeOK`, `ChoosingHoldsCtrl`, `RingComplete`, `KeysInOrder`, `DrawsCurrentOnly` | keys, switches and output under every interleaving |

The excuses in `ReadRight`, `BlockReadRight`, `FatReadRight`, `FindRight` and `RingComplete` are as
narrow as the code allows: each names a defect of the code (section 4, further defects), and the
property says that it is the only one.

### Bounds, and why they are enough

- `MaxTasks` = 4 (3 where a violation is shown): the idle task, a parent, and two that can be its
  child and grandchild or two children; enough for orphans of a zombie, for two
  sleepers beside a running task, and for round robin to pass somebody over.  It caps
  the number of forks.
- `MaxPid` >= `MaxTasks`: pids do not wrap.  In the kernel they wrap after 65535 forks,
  and memory, which is never freed, is gone long before.
- `Slots` = 3 (2 where a violation is shown): fewer slots than tasks and stale entries, so that the queue fills.
- `ScheduleTicks` = 2: ticks inside a time slice and at its end.
- `SleepTimes` up to 2 ticks: 0 (no alarm), an alarm at once, and one that rings when the
  task may be doing something else.
- `task_list`: six tasks in every order of creation and removal.
- `memory`: three processes, three loads, one write; four programs: one page at 0x00100000, padded
  as `cybos.ld` does, and three at 0x08048000 that are not padded: one with `.text`, `.rodata` and
  `.bss` on two pages, the second shared by all three; one with two whole pages of `.text` and two
  more sections behind them, of which the `.bss` begins late in its page; one whose only section
  does.  Two processes can load at once, and one of them can load over what it forked with.  The
  heap (26 pages of three units) and the frames (42, of which the bitmap holds 10 words of 4) end
  within reach: two loaded programs fit, a fork of the larger one panics, and further loads run off
  the heap.  A unit is a third of a page: a section can end in the middle of one, and begin late in
  it.  One write tells copies apart: frames carry the number of their last writer.
- `floppy`: two readers, two drives with two cylinders of two tracks of two sectors, one of
  unknown type possibly; sectors at the end of a cylinder, at the beginning of the next, and
  one that is not on the disk.  Two attempts to calibrate.  A state is followed until
  the first disturbance has had its effect; the view `ControlOnly` then drops the data, which nobody
  reads any more.
- `files`: sectors of 4 bytes (a byte-wide offset then wraps at 2, as it does at 256 in 512), 2
  heads and 3 sectors per track, 28 bit addresses up to 12: every form of address, and ranges over
  every boundary, occur on a drive of 52 sectors.  The first machine has two floppies, a large drive
  with an extended partition and a small CHS drive; the second one partition too many for the minor
  numbers, and more devices than devfs has room for.  Three mounts under two names, so that names
  are reused, slots run out and a system is mounted twice; a FAT of three sectors, a file over three
  clusters, one that ends where the floppy does, a directory over two clusters, the first with the
  higher number, so that its chain is lost after some allocations and not after others; inodes in
  four groups, of which the code counts two and a bit.  The records a mount allocates have 1, 3 and
  4 bytes, and others allocate 4 bytes (`Blocks`), so that the FAT is lost in three steps, or at
  once by a mount. All reads and names of these volumes are evaluated in every state.  The
  two names a mount may have are exchangeable (`NameSymmetry`): they are only compared with each other and with
  those of paths.
- `console`: screens of 4 by 2 cells (the debug line uses three columns of the first), three
  consoles, six events, two codes typed into a buffer of three bytes: a console can be
  created, chosen, left and written to in the background, destroyed in the middle and at the
  end of the list, and again; a key of two codes meets a buffer with room for one.  The view
  `KeysOrConsoles` drops the screens once keys are typed: keys never reach a console.

`memory`, `task_list`, `files` and `console` do not check for deadlock: their calls are numbered up to a
bound and stop there.  The other runs do: the kernel always has a step until it halts.

### Fairness

`FairSpec` of `Sched` assumes strong fairness of `Tick` and of `FloppyIrq`, and weak fairness of the
driver.  The interrupts are latched by the interrupt controller: one that is raised while
interrupts are disabled is delivered when they are enabled next, so an interrupt that can
come again and again does come, which is strong fairness.  The floppy interrupt is owed only
after a command was sent.  A task in the driver has the CPU and interrupts disabled:
it goes on, and either sends its next command or returns.  Programs promise nothing: they
may compute for ever, so no system call is assumed to be made.  The liveness properties
except a kernel that has stopped (`mode # "run"`); for what reasons it can stop is the
subject of `PanicOnlyQueueFull` and of finding 2.

`FairSpec` of `Floppy` assumes weak fairness of the driver's steps, of the delivery of its
interrupt, and of the controller: a command ends.  A seek may end on a wrong cylinder; strong fairness
says that a drive that is sent to a cylinder again and again gets there once, which is what
the retry loop without a bound (`floppy.c:377`) rests on.

## 4. Findings

1. **An exited task runs again** (`sched_exit`, `schedule.c:561`).  A comment behind
   `reschedule()` in `sys_exit()` says the code is never reached.  `switch_task()` returns at once when
   the current task has a signal pending, so that a task that exits with one returns to
   its program.
2. **The search for a task does not end** (`sched_search`, `schedule.c:222`).  A task without a parent
   is unlinked when it exits; the search starts from it and stops at a runnable task or
   when it is back at its start, which is not in the list.  With every other task asleep the
   kernel loops with interrupts disabled, instead of returning NULL for the idle task.
3. **fork shares the memory of programs at 0x00100000** (`memory_shared`, `paging.c:235`).
   They lie in page table 0, which is in the kernel directory and so is linked, not copied,
   against the comment in `stack_init()`.
4. **The heap does not grow** (`memory_heap`, `heap.c:85`).  `heap_expand()` maps nothing.
5. **A name is taken for one it begins with** (`files_lookup`, `vfs/ext2.c:426`).  The loop that is to
   "iterate until we find the correct name" joins its conditions with `&&`: it ends at the first
   entry of the same length, or with which the name begins.
6. **A listing has no names** (`files_listing`, `vfs.c:104`).  `fat12_readdir()` and
   `cybfs_readdir()` take two arguments and return an entry of their own; `vfs_readdir()` passes a
   third, the entry of its caller, and `readdir()` of `kernel.c` looks up the name in that one,
   which nobody has filled: "File cannot be found (huh?)".

Further defects met while modelling.  Each can be read off its line, the models have it,
and no run is spent on it.

- `conio.c:44`: a partial flush leaves out the last changed column and forgets it; a single
  character that is flushed does not appear.  `con_plot` and `con_printf` say that it does.
- `console.c:220`: a switch to a console without pending output draws nothing: the bar and the
  other console stay on the screen, against "force an update so it automatically stops
  displaying the ctrltab-bar" (`keyboard.c:218`).
- `conio.c:281`: a backspace in the first column puts the cursor on column `max_px`, from where
  it never again meets the end of a line.
- `keyboard.c:122`: ALT falls through to caps lock; the lock keys toggle at press and release.
- `keyboard.c:118`: `ctrltab_console` is never reset, so every later release of CTRL switches to
  the console last chosen.
- `keyboard.c:182`: the second byte of a long code is always 0; the cursor and function keys
  cannot be told apart.
- `queue.c:163`, `device.c:67`: removal of the only item, and of any device; nobody calls them.
- `console.c:71`: destroying a console a second time links the neighbours it had when it was in the
  list, and the consoles created behind them since are lost to TAB; the excuse of `RingComplete`.
- `ext2.c:34`: one supernode for all mounts of the file system, which each mount
  rewrites (that of FAT12, `fat12.c:36`, names no mount at all); the assignment at `vfs.c:263` makes up
  for it, except for the length.  `fat12.c:72`: 512
  bytes are read into a block of 64.
- `ide.c:409`, `fat12.c:128`, `fat12.c:269`, `ext2.c:231`: the byte-wide offset, the FAT in a block of 0
  bytes, fragmented files, the number of descriptors; the excuses of the properties of `files`.
- `fat12.c:203`: a read takes as much as was asked for, not what is left of the file; behind the end of
  a floppy that does not come back.  `fat12.c:499`: the search of a directory ends at cluster 2, which is
  data (readdir goes on).  `ext2.c:400`: nothing is found in a directory of more than 12 blocks, not even
  what lies in the first.  These three came up in the proofs: no volume of the run had them, and the
  properties had to name them.
- `partitions.c:22`, `ide.h`: sixteen partitions per drive are promised and not enforced; the
  seventeenth has the minor number of the next drive's first.
- `floppy.c:165`: the DMA count; the excuse of `ReadRight`.  `floppy.c:459` copies a drive
  out of a table of smaller infos.
- `paging.c:511`, `ff/elf.c:190`: size of the bitmap, TLB.  `ff/elf.c:195`, `:199`: `.bss` is given
  a block that need not begin at a page and is mapped by whole frames, and what is cleared is the
  memory at its offset in the file.
- `ff/elf.c:187`: a section that does not fill its last page shares the frame with the next block of
  the heap (`heap.c:112`), which may be a kernel block or the `.bss` of another process: each sees
  and changes the other's memory.  Only programs of `cybos.ld`, which are padded, escape it, and
  those are shared by forks (finding 3).
- `ff/elf.c:191`: a section that does not begin at a page is read to its place in the page, not to
  the beginning of its block, and so up to a page behind the block.
- `paging.c:373`: of two sections in one page, the page is mapped for the later one, and what was
  read of the earlier there is gone.
- `paging.c:386`: the number of pages does not count where in its page a section begins: the last
  one may be missing (`mode = "unmapped"`), or one too many is mapped.
- `paging.c:540`: the window on the low 16 megabytes can be written by every program.
- `schedule.c:455`, `:549`: the scan for a pid misses the last task, zombies are never reaped.

## 5. Proofs

`SchedProofs` proves, for every number of tasks, slots and ticks (assumption
`SchedAssumption`: they are positive, and `MaxTasks <= MaxPid`), all properties of `sched`
that need no fairness: six invariants and two action properties.

The invariant.  None of the properties is inductive alone.  `IInv` is their conjunction with
two facts no property states: `PidsFollowCreation` (a task's pid is its number, so that the last pid
handed out is the last task's and the scan for a free pid ends at once) and `LiveLinked` (a task
that has not exited is in the list; one that was removed is at its exit).  The first is what makes
`WithPid(ppid)` a single task; with the second, `ParentAlive` survives an exit: the
children of the task that leaves become orphans in the same step, and nobody else named it.
`IdleAvailable` carries that no path sends a signal to the idle task, puts it in a queue, or lets
it sleep.  `NoLostSleeper` needs the type of the wait queue and that a wake-up empties the
queue only after having made everybody on it runnable.

The argument.  `RescheduleWorks` states once what `reschedule()` does, whatever state its caller
prepared: a contract every action cites, so that no proof of an action looks into the search.
`NextTaskInList` says what the search returns.  Then there is one lemma per action (`TickKeeps` ...
`ExitKeeps`) which shows that it preserves `IInv` and moves the CPU as `CpuMoves` says; `NextKeeps`
combines them, and the theorems follow by temporal logic.

`TaskListProofs` proves, for every number of task structures (`TaskListAssumption`: there is one),
all three properties of `task_list`.  The invariant `ListInv` says that there is a sequence in the
order of creation which the pointers represent, in both directions, and what the pointers of the
task removed last still lead to: its `next` and `prev` are those of the moment it was unlinked, and
the search that starts from it must come into the list by them.  That a walk finds the represented
sequence (`WalkIs`, `PathIs`) is shown by its least counterexample, the first element at which it
would differ.  With it a step only has to name the sequence its pointers represent, and the
refinement follows step by step (`TaskListImplementsTaskSeq`): an addition appends, a removal takes
one out.  `TaskListSearch` is the walk of `get_next_runnable_task()` for every start and every set
of runnable tasks: it goes round once from the start (`PathGoesAround`), from a removed task once
through the list, and picks what the sets of `Sched` pick.

`MemoryProofs` proves, for every number of processes, frames, frames in a word, sizes and programs
(assumption `MemoryAssumption`: sizes are positive, the first stack lies in memory, and programs are
laid out as `LaidOut` says), four invariants of `Memory`.  `KernelStaysLinked` and
`MappedStaysMarked` need the type of the tables and that only a process that exists is in
`execve()`, so that the region a section is mapped into has the kernel's table when it is one of the
kernel's (`MapKeeps`).  `CacheStaysExact` is about the order of allocation: `bm_findfirst()` caches
the word before the one it found a frame in, and a fork calls it once for each page.  The proof says
that these calls return the first free frames without a gap (`NoGap`): by counting what lies below
(`RankExists`, `RankUnique`), the frame of the page with so many pages below it has as many free
frames below it.  Hence nothing is left free below the last one, and `CacheAfterForkExact` follows.
The loader marks frames without the cache, which only makes fewer of them free.  The invariant
`FrameInv` is the conjunction. `MemoryTypeCorrect` is the type invariant.  It needs `Regular`: the
heap ends in a frame that is mapped, what a page table maps lies below that frame or among the
frames a fork takes, and an `execve()` that has not ended is at a suffix of its program's sections.

`LaidOut` is a condition on programs: their sections lie one behind the other, `.bss` last, and each
stays in the page table it begins in.  They may have any size and begin anywhere, and two of them
may share a page, as in `initdump`, which was linked without the script.  The first part is what a
linker does (with `gcc -O0` nothing is left for the `.rodata` that `cybos.ld` in
`src/source/userapps` puts behind `.bss`).  The second is a matter of size: the heap has 80 pages
(`MIN_HEAP_SIZE`, `heap.c:14`), a larger program does not load, and 0x00100000 and 0x08048000 leave
more than that to the end of their 4 MB.

`PrivateMemoryProofs` builds on it: `PrivateStaysPrivate` (`PrivateFrames`) and the refinement
`MemoryKeepsPromise`.  Neither is inductive: that a frame belongs to one page now does not keep the
heap from handing it out again.  `Apart` adds why not.  Private pages lie in *cold* frames: below
the frame in which the heap ends, which it has passed and never comes back to, or among the frames a
fork takes, which the heap does not reach.  A section's whole pages come to lie there because its
block begins at a page and ends in the frame behind them: that frame, which the loader maps as well,
is the one in which the heap then ends, and this is why the last page of a section is not private.
A later section of the same program maps that page again and reads its contents through the pages as
they are then: no whole page of the earlier one is among them (`LaidOut`).  A fork takes frames
nobody has (they are unmarked, and what is mapped is marked); the loader takes frames from the top
of the heap, past every cold one.  For the refinement, a step of `Memory` is looked at through the
private pages of each process (`StepPromised`): of all processes but one they stay what they were
(`OthersKept`), a child's are those of its parent, and a stack survives whatever is loaded
(`StackKept`).

`FloppyProofs` proves, for every number of readers, disk geometry and set of addresses (assumption
`FloppyAssumption`: tracks and cylinders are not empty, at least one attempt to calibrate), all five
invariants of `floppy`.  The inductive invariant has three layers.  `Typed` holds whatever happens
(`FloppyTypeCorrect`).  `Orderly` says what the driver has of the controller at each of its waits as
long as nothing disturbed it: which drive is seeking or has an interrupt to be sensed, that nothing
is owed between two calls, that a reset owes four status reads, and that the wait is over exactly
when the interrupt has been delivered.  It gives `FloppyStops`, `FloppySettings` and `FloppyQuiet`.
`Traced` follows the sectors: which was moved last and the one before, and whether the DMA channel
still waits for a byte.  With `ChsRoundTrip`, the conversion of an address to cylinder, head and
sector and back, it gives `FloppyReads` (`ReadRight`).  The steps of the controller (`SeekEnds`,
`ReadEnds`, `Interrupt`) have lemmas of their own in each layer; what a command does to the
controller is stated once (`SpecifiedDoes` ... `ReadsDoes`) and cited by the driver's steps.

`VfsProofs` proves, for every machine, volumes and number of slots (`VfsAssumption`: a slot for each
of the four systems registered at boot, and one mount; no mount is named DEVICE, like the one of
devfs), all eight invariants of `files`, and one that no run names. `MountsStayBacked` and
`RootsBelong` are about the tables. Three facts no property states make them inductive.
`FirstSlotsUsed`: mounts fill the table from the front.  `sys_mount()` takes the first slot that is
free or has the name; were there a free slot in front, a remount would take it and the name be
mounted twice.  It holds because there is no unmount, and it is a theorem of its own
(`MountsFillFromFront`): who writes the unmount that is a stub today breaks it.  `Counted`: the
count of each file system is at least the number of its mounts; a failing mount counts as well, so
it may be more, never less.  `RootTagged`: a mount that has a supernode has that of the file system
in its slot, since a failing remount takes the supernode away in the same step in which it changes
the system.  `RootsBelong` then follows from what a path begins with (`LookupOfNone`), which does
not depend on whom the supernode names.

`DevicesAreReachable` adds the devices.  `BootInv`: the n-th file of devfs is that of the n-th
device of the list, as long as there is room, and the devices of every drive initialised so far are
in the list.  `SlotInv`: devfs stays in the first slot of the mount table, since nothing else is
given its name.  A name then leads through the mount of devfs and its file to the device's numbers,
and by these to the device.  What the machine must give is `MachineAssumption`: devices of one name
are one device. It is how names are made, printed from the numbers of controller, drive and
partition (`drivers/floppy/floppy.c:486`, `drivers/ide/ide.c:258`, `drivers/ide/partitions.c:82`).
That registration, a loop over a drive's devices, does what it should is shown of its recursive
function by the least counterexample.

`BlockReadsRight` (`BlockReadRight`) goes on to the bytes.  `AtaSectorIsLba`: whichever form of
address is used, CHS included, the drive is asked for the sector meant.  `SectorByteIsThere` and
`DriveReadsBytes`: head, middle and tail of a range, read sector by sector, are together the bytes
of that range.  `PartitionMinor` and `DevicesTellApart`: from a partition's minor number the driver
comes to the partition's own drive and table entry, under the property's condition that no drive has
more partitions than minor numbers.  `PartitionReadsBytes` puts the start of the partition in front
and cuts at its end.  `DriveAssumption` says what a drive reports: it is numbered by its place on
the controller (`ide.c:246`: controller, channel and drive have bits of their own), and one without
48 bit addresses has no more sectors than 28 bits count.

The file systems rest on these.  `VolumeInv` is the invariant that ties the tables to the disks: what is
mounted from a device was mounted after booting, from a device of the list that holds a volume of
that system.  `LossInv` says that what is lost of a FAT is a number of bytes; the three are `MountedInv`,
which gives `VfsTypeCorrect`.  A volume is whatever `VolumeAssumption` allows: formatted (`FatFormatted`,
`Ext2Formatted`), with its files and blocks inside its device and a partition inside its drive.

`FileReadsRight` (`FatReadRight`).  `ContiguousSkips`: the walk along the FAT in memory, of which a
part may be laid over, comes to the cluster in which the read begins, if the entries it looks at are
still there. `FileIsLinear`: from there a file whose clusters follow one another is one range of the
disk. `DeviceReads` says of each of the three kinds of devices what a read from the beginning of a
sector, or on a floppy of a part of one, returns.  `FatReadsFile` puts together the pieces into
which the read is cut: each begins where its device can begin to read, and each byte lies in the
last piece that begins at or before it.  `Readable` collects what it needs.

`SearchesFind` (`FindRight`).  `FatEntries`, the entries of a directory by the format, is a
concatenation along the chain up to the first end mark: the k-th of them is the entry with that
index in the sector the chain has there (`ChainEntriesAre`).  A search that goes through these
sectors stops at no entry of another name, since names differ, and at no end mark, since there is
none before; so it stops at the entry it is for. The chain has to be there after the buffer of the
search has been laid over the FAT.  For Ext2, the number of an inode leads to the block and index
where the format has it, and the concatenated blocks of a directory are what the format calls its
entries.

`ListingsComplete` (`ListedIsFound`).  Of FAT12 it follows from the same lemmas, since `readdir` and
`finddir` go along the same sectors; of Ext2 from where its search stops, at the first entry that
its condition lets it (`StopIs`); of CybFS from its table, in which no two entries have the same
parent and name (`LayoutDiffers`), and of devfs from its invariant.

What the recursive functions of the model do (`Skipped`, `FindInChain`, the concatenations) has to be
derived from their being some function with that equation (`CHOOSE`).  For each a lemma shows that one
exists, by exhibiting it or by the least number of steps at which none would; that two
functions with the same equation agree, or that a walk comes where it should, is shown by the least
counterexample.  Two definitions were rewritten for the proofs without a change of meaning:
`FindInRoot` takes the least sector at which the search stops instead of filtering a sequence of
results, and the reading of an Ext2 directory is told apart from its entries.

`KeyboardProofs` proves, for every table of codes, size of the key buffer and of the screen, number of
readers and of consoles (assumption `KeyboardAssumption`: the debug line fits the width, and
positions are those a byte can hold), all five properties of `console`.  `ChoosingHolds`: CTRL is
down while a console is chosen.  Its invariant `SwitchInv` adds what the code leaves implicit,
that a console is chosen as soon as the switch begins: without it the release of CTRL would be
one more key that is ignored.  It holds because the walk through the ring always comes to a console
(`NextConsoleExists`).  `KeysArriveInOrder`: until two readers poll at once, no code is lost,
doubled or out of order.  Its invariant `BufferInv` says that a reader past the wait has a key to
take and that the key it has read stays the first one whatever the interrupt adds;
`StuffKeyAppends` shows that a stuffed key changes nothing before it, also when it does not fit, and
`ShiftedDropsFirst` that the removal takes exactly one.  `BufferStaysBounded` holds with several
readers too, where the order does not.

`RingStaysComplete`: as long as no console is destroyed twice, TAB goes round all consoles of the
list from whatever one it begins at.  The invariant has two parts.  `LinkInv` holds whatever is
destroyed, and how often: `next` leads to a younger console or to none, `prev` to an older one.
`RingInv` holds until one is destroyed twice: the consoles of the list are linked to their nearest
neighbours there, in both directions.  So a walk from a destroyed console, which keeps its links and
may be shown, climbs, comes to the end, and the head of the list follows.  `PictureInv`, with
`LinkInv`, gives `KeyboardTypeCorrect`: the cursor and the changed block of each console stay where
the drawing expects them.  `OnlyCurrentIsDrawn` is an action property: each operation on a screen is
shown to redraw the cells of one console and no other (`FlushBlockDraws`, `UpdateScreenDraws`,
`ShowFlagsDraws`, ...), the panic that prints twice with a switch in between included (`PrintedIs`).

`NumberLemmas` has what these share: the least element of a set of numbers, with which a fact about
every number is proved by its least counterexample (the induction theorems of the library take an
operator as a parameter, which the provers cannot instantiate); division with remainder; what a
function applied again and again leads to.

Model-checked only: the liveness properties and everything that rests on fairness (out of the
prover's reach), and the six violations.  Every invariant and every action property of a
passing run is stated by a theorem.

## 6. Not modelled

Time accounting, priorities (unused by the code), task names.  The translation look-aside buffer.
The contents of `.bss`.  Failing reads of the loader (the code ignores them).  The idle call and
`hlt` (the idle task is running or is not).  The queue and the mutex, which nothing calls.  Of the
file systems: open, close and write (stubs), unmount (a stub), `device_unregister()` (no caller).
Of IDE: identification and the polling of registers, which is sequential and has no interrupt.  Of
the consoles: colours, palettes, the VGA cursor, `con_gets()` (no caller), formatting.  Writes
outside a screen buffer, which the run-away cursor leads to, are dropped by the model.  Boot
loaders, host tools, PCI, descriptor tables: run once, in order, or outside the system.

## 7. Plan

Done: every part with state that changes while the kernel runs.  What could follow:

1. The boot phase with interrupts enabled: the keyboard interrupt in the middle of a kernel
   message.
2. `Floppy` composed with `Sched` through the wait queue, in place of the interface they share now.
