# Glendum in TLA+

Glendum is the kernel of 9vx's cousin: the Plan 9 PC kernel, ported so that it
runs as an ordinary user-mode process of a host Linux. A small host program,
`src/umhost/umhost.c`, loads the kernel image, links it to a table of host
calls and jumps into it. The port itself is in `src/kernel-um/sys-src-9/um/`
(called `K` below); the portable half of the kernel (`../port`: processes,
segments, faults, queues, locks) is not in the repository and is modelled only
as far as the code here uses it.

This directory holds TLA+ modules for the parts of the port that have a
protocol worth checking, the TLC configurations that check them on small
instances, and TLAPS proofs about them for every instance.

## 1. Inventory

What is linked is decided by `K mkfile` and the configuration `K um`. Most
of the directory, nine lines in ten, is inherited from the pc port
and not linked (`ether*.c` drivers, `vga*`, `usb*`, `sd*`, `pci.c`, `mmu.c`,
`memory.c`, `mp.c`, `apic.c` ...): it is listed in PROJECT.json as not modelled.
One of the drivers, `ether8139.c`, is modelled as a representative,
because the multiplexer that is linked is only as right as what is under it.
The interrupt code of `trap.c` and `i8259.c` is compiled, but `archgeneric` of
`devarch.c` has stubs in the place of its entries.

| component | code | state | operations | talks to |
|---|---|---|---|---|
| page allocator | `umpage.c` | `palloc` (free list, count), the hash of cached pages, each `Page` (ref, name, lock) | newpage, putpage, auxpage, duppage, cachepage, uncachepage, lookpage, ptecpy | the page-fault path of port; segments; the pager |
| user threads | `uthread.c` | `uthreads[]`, the kernel data in each thread (`curmap`, `upstk`) | uthreadinit, touser, umem_remap, do_maps, handle_remap, kthread_loop | the host's ptrace, through umhost |
| host loader and calls | `src/umhost/umhost.c` | the loaded image, host memory | load and patch the kernel; ptrace and mmap wrappers | everything |
| console input | `devumcons.c` | staging ring, `kbdq`, `lineq`, the line, raw mode | kbdputc, kbdputcclock/echo, consread, consctl open/write/close | keyboard drivers, the clock, readers |
| console output and logs | `devumcons.c` | `kmesg`, `kprintoq` | putstrn, kmesgputs, kprint, iprint, panic | everything that prints |
| random device | `random.c` | `rb` | genrandom, randomclock, randomread | the clock, `#c/random` |
| traps and notes | `trap.c` | the notes and registers of `up` | trapenable, trap, syscall, notify, noted | user code |
| FPU, boot | `main.c` | `up->fpstate` | mathemu, procsave, procsetup; FPON and FPOFF are NOPs here | the scheduler, notes |
| keyboard driver | `kbd.c`, `devkbin.c` | prefix, modifier and compose state for two sources; the map; the busy flag | kbdputsc, kbdputmap, kbinopen, kbinwrite, kbinclose | `kbdputc` |
| interrupts | `trap.c`, `i8259.c` | `vctl[]`, the masks, the two chips | intrenable, intrdisable, trap, i8259enable, i8259disable, i8259isr | drivers, the scheduler |
| ethernet multiplexer | `devether.c` | the table of connections, `oq`, the counters | etheriq, etheroq, etherwrite, etherbwrite, open, close | `netif` of port, the driver |
| rtl8139 driver | `ether8139.c` | a ring of transmit descriptors, the receive buffer, the chip | transmit, interrupt, receive, init | the multiplexer, the chip |
| arch device | `devarch.c` | the list of I/O port ranges | ioreserve, ioalloc, iofree, iounused | drivers |
| memory-type registers | `mtrr.c` | slots, the posted operation, two barriers | mtrr, mtrrop, mtrrclock | the clock of every processor |

What makes each hard, and what makes it correct:

* **Page allocator.** The lock order is page before hash and palloc before
  page, but duppage comes from the other side: it holds a page, only tries
  `palloc`, and after a failure lets the page go and starts over. A page's
  name is looked up without its lock, so it may be renamed or reused before
  lookpage gets the lock. Correct means: reference counts are exact, a free
  page is nobody's, a page that can be written is reachable from one place
  only, no check of the allocator panics (duppage's own panic, after it has given
  up too often, is another matter), and no set of processes waits in a ring.
* **User threads.** To change the mappings of a traced thread the kernel makes
  the thread itself run a kernel function with host system calls switched on.
  Stops come for many reasons and are told apart by the call number in a
  register. Correct means: user code is never resumed with host calls on, the
  remap is one step as user code sees it, and every remap ends.
* **Console input.** A producer under a lock and a consumer without it share a
  ring; a line buffer is shared by readers that can be interrupted; the raw
  flag is switched by others in the middle. Correct means: what is stored is
  echoed, once and in order; what consread has put in `lineq` reaches the readers,
  in order and without loss; nobody sleeps on characters in raw mode; raw mode ends with its last user.
* **Random device.** Three parties share two indices without a lock and wake
  each other. Correct means: a byte is handed out once, no wakeup is lost,
  every read ends although readers may be interrupted anywhere.
* **Notes.** Handlers nest, the saved registers form a chain in user memory
  that user code can write. Correct means: at most one note in progress, and
  NRSTR undoes exactly one NSAVE.
* **Memory-type registers.** All processors must change a register between two
  barriers, whoever of them learns of the operation first.
* **Ethernet.** A packet goes to several connections, its block to one of
  them; blocks are freed in six places. The process that queues a packet may
  be interrupted before it starts the transmitter, and the handler must tell
  apart events that chip and processes produce while it looks. Correct means:
  each block has one owner; each connection that wants a packet gets it once, or is out
  of room; what is queued leaves, in order.
* **Keyboard.** A release is looked up in the table the modifiers select when it
  comes, not in the one its press was looked up in; two keyboards may feed one
  source; programs come and go behind `kbin`. Correct means: no modifier
  sticks, `kbin` has one holder, and nothing but Ctrl and Alt with one of the two
  keys that are a Del reboots; with the exceptions of section 4.
* **Interrupts.** Handlers of shared lines come and go, some lines are ended
  before their handlers and some after, on one chip or two; a request can
  vanish before it is acknowledged; the handler's process may be switched away.
  Correct means: the masks follow the table, nothing is left in service while
  processes run, and a device that asks is served.

Every place where this can go wrong is listed with its line in PROJECT.json
under `hazards`, with the property that covers it or why none does.

## 2. Modules

| module | models | kind |
|---|---|---|
| `PageAlloc` | `umpage.c`, and the fault path around it | component |
| `PageAlloc_proofs` | the inductive invariant, the lock order, the theorems | proofs |
| `UserSwitch` | what a user thread sees of a remap | abstract specification |
| `UThread` | `uthread.c` with the host side of ptrace | component, refines `UserSwitch` |
| `UThread_proofs` | confinement of user code and the refinement, for any threads and address space | proofs |
| `BytePipe` | a bounded lossless pipe | abstract specification |
| `ConsKbd` | console input in `devumcons.c` | component, its ring refines `BytePipe` |
| `ConsKbd_proofs` | the refinement, lines, the end of raw mode | proofs |
| `RandomDev` | `random.c` | component |
| `RandomDev_proofs` | the ring and the wakeups, for any ring and any readers | proofs |
| `NoteStack` | what a process that handles notes sees | abstract specification |
| `Notes` | the note half of `trap.c` | component, refines `NoteStack` |
| `Mtrr` | `mtrr.c` on several processors | component |
| `Mtrr_proofs` | the barriers for any number of processors | proofs |
| `PacketHub` | what the connections of an ethernet device are promised | abstract specification |
| `EtherMux` | `devether.c`, with the queues of port | component |
| `Ether8139` | `ether8139.c` and its chip, over `EtherMux` | composition, refines `PacketHub` |
| `Ether8139_proofs` | blocks, order of output and the refinement, for any connections, blocks and rings | proofs |
| `Kbd` | `kbd.c` and `devkbin.c` | component |
| `Kbd_proofs` | scan state, modifiers and the holder of `kbin`, for any channels, keys in use and map | proofs |
| `Intr` | the interrupt half of `trap.c`, `i8259.c` | component |
| `Trap_proofs` | masks and in-service bits, for any devices; notes and their refinement, for any registers and queue | proofs |
| `*MC` | constants for TLC, symmetry (`UThread` and `Notes` need none) | instances |

An operator whose name starts like an action of the code and says how it
deviates (`StoreByteUnchecked`, `handle_remap_first`, ...), under a comment that
begins with "Mutant", is a bug somebody could plausibly make. PROJECT.json
pairs each with the property it breaks, which shows that the property depends
on the code and not on the shape of the model.

Four modules (`ConsKbd`, `EtherMux` with `Ether8139`, `Kbd`, `Intr`) have a constant
`Loads` and a variable that `Init` sets to one of its members: what is typed,
sent, pressed or wired up in this behaviour. The machine is the same for all; the
states of a run are the sum over its loads, not the product, so that each can have the
combination that makes it interesting.

### PageAlloc

State. `freelist` is the list from `palloc.head` to `palloc.tail`; `ref`, `name` and
the locks are fields of `Page` and `palloc`. The hash chains need no variable: a page is on its
chain exactly when its image is set (`name`), so `lookpage` finds the same pages as the code. A *slot* is a page table entry of a segment: what it points to, and
whether it can be written. Each process carries a program counter and the
locals of the function it is in. The locks (`palloc`, the hash lock, one per
page) are what make a stretch of code a single action: an action runs from one
point where another process can interfere to the next.

Actions follow `newpage`, `putpage`, `duppage`, `lookpage`, `cachepage` and
`uncachepage` branch by branch. The callers (`fixfault`, `pio` and segment
duplication in `../port`) are external: a slot is given a fresh page, a page
found by name or a copy, is made writable by a fault, is copied to another slot by
`ptecpy`, and is emptied.

Abstractions: one colour, so `duppage` looks for the first free page; the
contents of pages are left out; processes come in two kinds, those that stop at
`highwater` and kernel processes that do not. `duppage` gives up after
`dupretries` attempts, a static that starts at 15000, grows by 100 each time anybody gives up and,
past 100000, ends in `panic("duppage\n")` (lines 265 and 278 to 282). `DupRetries`, `DupMore` and
`DupLimit` are these three numbers; `DupGiveUp` and `DupPanic` are the two outcomes. A
panic is `exit(1)`: nothing follows it (`Exited`).
`Name`s beyond those in `NoText` are text images that page cache may hold.

### UThread

The kernel process and the host processes of the user threads. The host's side
(`Traceme`, `DoMaps`, `CallEntry`, `CallPerformed`, `UserTrap`, `UserCall`,
`HostSignal`) is what Linux does to a traced process; the kernel's
(`Fork`, `WaitStarted`, `touser`, `kthread_loop`) is `uthread.c`. A thread's
code is the list of host calls it has still to make. `Init` allows any set of
resident pages and both values of `newtlb`. The refinement maps the state
of a thread to `UserSwitch`: nothing while it is in kernel code, the registers
and the address space from the moment it is resumed in user code.

Only the first thread is ever bound to a process, which is how far the port
has got: `kthread_loop` answers the stops of a remap and prints all others.

### ConsKbd

State: the ring `istage` with `ir` and `iw`, the two queues, the line, raw mode
and the count of consctl. The clock is a process of its own that runs between
any two bytes `kbdputc` stores, because it does not take `lockputc`; its
pass is five steps (look at the indices, echo the upper part, wrap, echo the
lower part, move `ir`). A reader holds the queue lock from `ReadCall` to
`ReadReturn` and can be interrupted where it sleeps. Bytes are model values:
only those the code compares with have names.

### EtherMux and Ether8139

State: the configuration of each connection (type, promiscuous, bridge, headers only),
the input queues and `oq`, the packet in each block of memory or `Free`, the
counters; for each process that sends, where in `etheroq` it is. `etheriq` runs
at interrupt level or between `splhi` and `splx`, so it is one step that folds
over the connections, like the loop it models (`Loop`; `Give` is one turn).
An error before it (a bad length, a buffer that faults) frees the block (`EtherReject`).
`etheroq` is four: the loopback (`EtherFeed`), the end of a loopback packet (`EtherFree`),
`qbwrite` (`EtherQueue`, `EtherFlow`, `EtherInterrupted`: it queues first,
waits for room after, and a note may end the wait by an error), and the
driver's transmit. `qpass` and `qbwrite` are external and modelled
by how they are used; lengths count packets.

`Ether8139` adds the descriptors with `ntd`, `tdh` and `tdi`, the chip's own
index, its status register, and the handler: read the status, acknowledge it,
receive frame by frame, reap, refill, reset, read again. The chip is external:
it sends descriptors in order, fails, receives, sets a status bit for every event, between any
two of the handler's steps. With one processor no process runs while the
handler does. The receive buffer is a queue of whole frames: one that is still being copied
(`rtl8139receive` breaks off at a length of 0xFFF0) is not in it yet, and ends the
loop as an empty buffer does. The queues of the model
need `OqLimit` above 1, as a queue of one would stop `qbwrite` at the packet
it brings. Left out: link changes, statistics, the multicast filter, attach.

`PacketHub` is the device as its connections know it: a packet is heard by
those it is meant for, in order; one without room may miss it, which is
counted (not for a connection that takes headers only). Whether what a bridge sends for
other machines comes back at all is left open, as code and comment disagree (section 4);
if it does, no bridge hears it. `Ether8139` refines it whatever blocks and queues do.

### Kbd

State: for each of the two sources (the controller, and `kbin`) the prefixes, the
modifiers and the compose buffer; the five tables; the busy flag and where each
channel on `kbin` is. `kbdputsc` is an operator from the state, one byte and the rune
its position stands for to the possible states; it is used by both callers.
A byte is a prefix or one of ten positions, one or two of each kind the tables
distinguish; `Codes` says which bytes a key sends. The Del key sends `e0 53` and the keypad's
point a bare 53, which is Del under AltGr (`kbtabaltgr`). A keyboard sends the bytes of one
key without others in between; `kbin` may have two. `latin1` is external: it may
decide at any character, and does by the fifth.

Two releases are known to go astray (`Excuse`): with AltGr down, that of Alt is
looked up as AltGr's and that of CapsLock (Ctrl in these tables) as nothing. So
are modifiers held when the map is written or when the program behind
`kbin` goes away. The variable `excused` remembers just those, and the properties
hold for everything else. Likewise `stray`: `kbinclose` is also called for a
channel that was refused or only looked at, and clears the flag of another.
Left out: mouse buttons on keys, `kdebug`, Caps, which is in no table, and Num, which is at 0x45 and
toggles a `num` that nothing reads. The keys send the bytes of `Codes` and the bytes of a key reach `kbin` in
order: what a program writes to `kbin` that no keyboard sends (releases without presses, prefixes
that end nothing), and two writes on one channel at the same time, are not modelled,
and the properties say nothing about them.

### Intr

State: the handlers of each irq in the order of their links, the mask in memory and
the masks of the chips, the lines, the edges seen, what is in service, and where
the processor is between taking an interrupt and the end of `trap`: acknowledge, for the slave
acknowledge again, then the calls that `trap` has still to make (isr, the
handlers, eoi, `preempted`). Lines rise and fall between any two of these. The
chips are external and are what `i8259init` makes of them: fully nested,
non-specific end of interrupt, the slave on level 2 of the master. One processor;
a driver keeps a device that shares its line quiet while its handler is not enabled.
Left out: `trapenable` and exceptions, `irqallocread`, the ELCR probe (which irqs
are level-triggered is part of a load).

### RandomDev

State: `rp` and `wp` as indices, one flag per byte saying that it has been
written and not yet read, and where the clock, `genrandom` and each reader are.
`sleep` and `wakeup` are external and modelled by their contract.

### Notes

State: the registers of one process, the frames on its stack, `up->ureg`,
`up->note`, `up->notified`, `up->notify`, and a program counter (`upc`) that says
whether the process is in user mode or where in `trap`, `syscall`, `noted` or
`notify`. The registers are what the process computes with (`code`), the bits of
the flags a user may not set (`sys`), and the stack pointer, counted in frames:
`notify` pushes one frame for each note, with the address of the previous frame
in the word under it (`link`).

`Syscall`, `Return` and `SyscallEnd` are `syscall`; `Resume` (NCONT, NRSTR),
`Save` (NSAVE) and `NotedSuicide` are `noted`; `NotifySuicide`, `NotifyLater`
and `NotifyPush` are `notify`; `Fault`, `ClockTick` and `TrapEnd` are what
`trap` does for a user process. `up->debug` makes each of `notify` and `noted`
one action. `postnote` and `pexit` (`../port`) are external; a note may be
posted between any two actions. `NotedSuicide` is always possible: whether the
registers the process offers are valid is its own doing.

Assumed of the process: it does not move its stack pointer over a frame by
itself, and it edits only the frame it was handed. Left out: `procctl`, the FPU
flag, exec.

`NoteStack` says what this is for: a stack of interrupted contexts. `Chain`
follows the links from `up->ureg` on and is its stack. `Intr` and `Notes` are the
two halves of one file: the names they would share begin with `Notes` here, so that
`Trap_proofs` can extend both.

### Mtrr

State: each processor's registers, the two counters, `postedop`, the holder of
`mtrrlk`, where the process of each processor is in `mtrr` (`ppc`), its `entry` and `op` (the slot is
chosen before the wait for `postedop`, as in the code), and where the
processor is in `mtrrop` (`at`), which the process enters from `mtrr` and the
clock from `mtrrclock`. A tick can interrupt the process at any point where `at`
is "out": the code raises the priority in `mtrrop` only. One process per
processor calls `mtrr` over and over; one with no register to use (`NoSlot`)
leaves with the lock held, as the code does. Spinning and sleeping are
waiting to be enabled. A register holds a range and a type, or is free. The
validation of arguments and the encoding of a register are left out.

## 3. Runs

| run | instance | shows |
|---|---|---|
| `page_race` | 3 processes (1 kernel process), 2 pages, 2 slots, 2 names (1 notext) | every race of the allocator, with `duppage` giving up after one retry, then after two, then panicking: all six properties |
| `uthread_remap` | 2 threads, 3 pages, host signals, fairness | user code is confined and no thread exits, whatever signals arrive; the remap is one step for user code, and ends unless a signal stops it |
| `cons_input` | ring of 3, a reader, 2 consctl channels; 7 different bytes and a rune of two, 3 typed; or 2 typed under a change of mode; fairness | the ring is a `BytePipe` and is drained; what is put in `lineq` is received in order and without loss; no close is missed; a line in raw mode is sent |
| `cons_lastclose` | 2 consctl channels | **violation**: see Findings |
| `random_reads` | 2 readers, ring of 3, reads of 1 and 4 bytes, fairness | bytes once, no lost wakeup, reads end |
| `notes_stack` | 3 notes, queue of 2, all calls, fairness | `Notes` implements `NoteStack`; a note is delivered, or kills, or waits for the handler |
| `mtrr_setup` | 3 processors, 2 registers, a range above 4GB | no one runs while another sets up; registers end up the same |
| `mtrr_tick` | 1 processor | **violation**: see Findings |
| `mtrr_again` | 2 processors, fairness | **violation**: see Findings |
| `ether_link` | 2 connections, 4 blocks, 2 descriptors, queues of 1 and 2, a writer and a bridge; or 4 packets against a ring of 2; an error, fairness | blocks have one owner, `Ether8139` implements `PacketHub`, output is in order and leaves |
| `kbd_scan` | 6 loads of 2 to 6 keys, 2 channels, 1 write to the map | no modifier sticks but as said above; `kbin` has one holder until a stray close; only Ctrl-Alt-Del, or Ctrl-Alt-AltGr and the keypad's point, exits |
| `intr_lines` | 3 devices, 3 loads (shared level, edges on IRQ 7 and 15, both), each asks 3 times, fairness | masks follow the table, nothing stays in service, devices are served |

Why the bounds suffice. In `page_race` two processes can be in `duppage` and
`lookpage` for the same page while a third allocates the other page, which one
of them has just let go of or is about to copy to: the longest chain of
hand-overs the code has. Three pages instead of two (400 000 states with one
name) showed nothing new, and the proofs take over where the instance ends. In `cons_input` three bytes wrap a ring of 3 (it holds 2), fill it in the middle of
a two-byte rune, fill the line (2) and leave one over, and reach `^T^T` and a letter.
In `ether_link` two connections are enough for one to get the block and the other a
copy, in either order, and four blocks for memory to run out under that; a ring of two
descriptors and an `oq` of two overflow with four packets, go round twice, and leave one
process asleep in `qbwrite`. The loads of `kbd_scan` have every pair of modifiers
together, the keys that send several prefixes, two keyboards for
one modifier, and two sources at once. In `intr_lines` there is a shared line, both
irqs where a chip reports a request that is gone, and a second handler on an
edge-triggered line, which is refused; three requests let one be in service, one
pending and one still to come.
In `random_reads` a read of 4 needs more than the ring holds (2), so that it
sleeps at least once, and the other reader can be interrupted at each point.
Three notes nest handlers three deep (deliver, NSAVE, deliver, NSAVE,
deliver) and overflow the queue of two. With three processors one can be past
the second barrier, one in it and one before it; with two registers,
two ranges and two types the choice of a slot has all its outcomes, `NoSlot` too.

`DupLimit` is 1 and `dupretries` starts at 0, so that `duppage` meets all three of its ends: it
retries, gives up, and panics; with the code's numbers it takes hundreds of give-ups to
get there, each after 15000 or more failures of `canlock`.

Bounds that are guards of the model: `MaxNotes` (notes posted in a
behaviour), `MaxRemaps` (writes to the map), and the numbers of a load: bytes typed,
packets, ctl messages and errors, requests of a device (`typed`,
`packets`, `ctls`, `errors`, `asks`). All other state is finite by itself.

`CHECK_DEADLOCK FALSE` is set where the system may stop for good: the kernel
after a trap it only prints (`uthread_remap`), nobody typing any more
(`cons_input`), a process that has exited (`notes_stack`), the lock left held or the
barriers stuck (`mtrr_setup`, `mtrr_again`), nobody sending, typing or asking any more
(`ether_link`, `intr_lines`), and the kernel after `exit(0)` (`kbd_scan`).

### Fairness

* `UThread`: the host schedules every runnable process, the kernel and the
  threads. Signals are not fair, and a remap is claimed to end only unless
  a signal stops the thread, which the code does not then continue.
* `ConsKbd`: the clock runs (`addclock0link` is what puts `kbdputcclock` on
  its list), `kbdputc` runs on to the end of its rune, and a process that can
  run does so. Nobody is obliged to type, read or open anything.
* `RandomDev`: the clock ticks, `genrandom` runs when it is ready (it only
  yields), a reader that can run does. A reader keeps its turn on the lock:
  QLocks are first come first served.
* `Notes`: the kernel gets on with its work, and the clock interrupts user
  code again and again. That is strong fairness of the tick, since the
  process is in user mode again and again but not for good: no system
  call can keep the interrupt out for ever. The process need do nothing.
* `Mtrr`: every processor executes and its clock ticks.
* `Ether8139`: the chip sends what it was given, an interrupt that is raised is taken
  and handled, a process in `etheroq` runs while no handler does. Nobody has to send or
  read, and nothing need arrive.
* `Intr`: the processor goes on, and takes an interrupt while one is raised and its
  interrupts are on. Devices need not ask, and ask finitely often: an irq of
  higher priority that never rests would keep the others out, as it does on the chips.
* `Kbd` claims nothing to happen and has no fairness.

The clock itself belongs to `../port` and the host: `K umhost.c` has a stub
for its timer at this commit. What the two devices promise is relative to its
ticks, and that is how the fairness reads.

## 4. Findings

`cons_lastclose`. `consclose` says "last close of control file turns off raw"
(`K devumcons.c:679`). It decrements the count, and clears `kbd.raw` if the
count became zero, with nothing to hold the two together: `consopen` and a
"rawon" of somebody else fit in between, and their raw mode is turned off
under a consctl that is open. TLC's trace: open 1, close 1 (count 0), open 2,
rawon 2, then `kbd.raw = 0` of the first close.

`mtrr_tick`. The comment on `splhi` in `mtrrop` is "avoid race with mtrrclock"
(`K mtrr.c:191`). `mtrr` has by then set `postedop` (line 310). A tick between
the two finds it, carries it out and clears it; the pass of `mtrr` itself then
reads `(*op)->reg` of nothing. With more processors the caller waits in the
first barrier for processors that have no reason to come.

`mtrr_again`. "Wait for all CPUs to sync here" (`K mtrr.c:194`). The first
counter also lets processors out, when it is down to zero (line 226). TLC's
trace: both processors have done an operation and decremented `bar1`; one sees
the zero, returns and posts its next operation, which increments `bar1`; the
other, which has not looked, now waits for a zero that will not come, and the
first for a second arrival. On real processors the window is the 10
microseconds between two looks. `mtrrclock` is called by `apic.c`, which the um
configuration does not link, so both findings are about the code as it stands
and not about a failure of this build.

A fourth, without a run. "To enable bridging to work, only packets that were originated by this
interface are fed back", says the comment in `etheroq` (`K devether.c:229`). The code
feeds back every packet that is for this machine, a broadcast, or sent while somebody is
promiscuous, whatever its source (line 235); `etheriq` skips a foreign source for the
connections of bridges only (line 175). So what a bridge sends for another machine
is heard by every other promiscuous connection, and a broadcast of it by everybody who
takes its type: in the runs, a connection that snoops headers hears the frames of `Bridged`. What the comment
is for holds, as no bridge hears them; what it says does not. `PacketHub` is
written so that it allows either.

Met on the way, with no text in the repository that they would contradict, and
therefore allowed for in the properties instead of being runs of their own:

* `duppage` panics when it has given up often enough (`K umpage.c:281`). Its limit is a static that
  never comes down, so contention for `palloc` counts over the life of the kernel.
* With Ctrl, Alt and AltGr held, the keypad's point calls `exit(0)` (`K kbd.c:408`, `kbtabaltgr`).
* Alt, or CapsLock, released while AltGr is down stays set (`K kbd.c:363`): with
  AltGr alone the table for it has AltGr in the place of Alt and nothing for
  CapsLock. From then on Ctrl-Del, say, reboots.
* `kbinclose` clears the busy flag for every channel that was walked to the file
  (`K devkbin.c:71`), also for one that got Einuse or was only looked at: a
  second program can then open `kbin`.
* "Call all interrupt routines, just in case" (`K trap.c:379`) calls none: the loop runs
  from `VectorPIC`, 32, to `MaxIrqLAPIC`, 31. `EventIsServed` holds without it.
* `mtrr` without a free register raises an error with `mtrrlk` held (`K mtrr.c:303`).
* After a bus error the rtl8139 driver frees the packets in its ring and leaves
  `oq` to the next transmit (`K ether8139.c:671`).
* A staging ring that fills in the middle of a rune keeps its first bytes
  (`K devumcons.c:497`).

## 5. Proofs

`PageAlloc_proofs` proves, for every finite set of processes, pages and slots, any
names and any high-water mark:

| theorem | says |
|---|---|
| `TypeCorrect` | `Spec => []TypeOK` |
| `ChecksNeverFire` | `Spec => []OnlyContentionPanics`: if the allocator panics it is `duppage` that has given up too often; the checks in `newpage`, `auxpage`, `putpage` and `cachepage` never do |
| `CountsAreExact` | `Spec => []RefExact`: `ref` counts slots and processes that hold the page |
| `FreeListIsRight` | `Spec => []FreeIsUnused`: no page is free twice, free and used, or lost |
| `WritesArePrivate` | `Spec => []WritableIsPrivate` |
| `Invariance` | `Spec => []IndInv`, from which they follow |
| `LocksNeverCycle` | `Spec => []NoLockCycle` |

The only assumption is `PageAllocAssumption` in `PageAlloc`: finite sets, the
null values outside them, natural numbers for `highwater` and the numbers of `dupretries`.

The properties are not inductive. That a page may be taken from the free list
without a check, say, needs that nobody who has found it by name still believes
it is in the cache, which needs to know what each process at each program
counter holds. `IndInv` is the conjunction of

* `TypeOK`, `OnlyContentionPanics`, `RefExact`, `FreeIsUnused`;
* `LockInv`: who holds which lock, by program counter;
* `SlotInv`, `OwnInv`: a slot being filled or emptied belongs to one process,
  and what the process says it holds is what is there;
* `PickInv`: what `duppage` knows of the page it has picked from the free list,
  which it locks only after it has moved it;
* `TextInv`: a name that is not a text's is on no page in the cache;
* `WritableInv`: who may write to a page, at each step of a fault;
  `WritableIsPrivate` is what remains of it when no fault is in progress.

There is one lemma per conjunct, saying that every action preserves it given
all of them before the step (`TypeStep`, `RefStep`, `PanicStep`, `LockStep`,
`FreeStep`, `PickStep`, `SlotStep`, `OwnStep`, `TextStep`, `WritableStep`),
each by cases on the actions, and `StepInv` puts them together. The counting
lemmas (`RefExact` sums holders) rest on `FiniteSetTheorems`. TLC checked
`IndInv` as an invariant before it was proved.

`LocksNeverCycle` needs the converse of `LockInv`: not who holds which lock at a
program counter, but at which program counters the owner of each lock can be
(`OwnerInv`, a second invariant on top of `IndInv`). Every process has a `Rank` by its
program counter, and one that waits has a higher rank than the one it waits for
(`WaitsDescend`). The delicate case is `duppage`, which waits for a page with
another one and `palloc` held: nobody else who holds a page's lock waits at all. A
ring of waiting processes would have no member of least rank.

`Mtrr_proofs` proves, for any finite set of processors and any number of
registers (`MtrrAssumption`):

| theorem | says |
|---|---|
| `TypeCorrect` | `Spec => []TypeOK`, with both counters in `0..nmach` |
| `AllSetUpTogether` | `Spec => []SetupTogether` |
| `AllTheSame` | `Spec => []SameEverywhere` |
| `Invariance` | `Spec => []IndInv`, from which they follow |

The argument: a counter is the number of processors between its increment and
its decrement (`CountInv`), so who passes a barrier knows that all are there
or none is (`Barriers`). While one is between the barriers, waits at the second
or leaves, `OrderInv` bounds where the others can be, though a fast processor
may be in its next operation: a processor that waits for the first counter to
drain cannot go on before all have passed the second. So nobody posts while
an operation is carried out and nobody clears it before all have read it, and
`SameInv` says how far the registers have got: some base on those that have yet
to write, the base with the operation's register on the others. That the
operation gets done does not hold (`mtrr_again`), and is not claimed.

`UThread_proofs` proves, for any set of threads and any finite address space
(`UThreadAssumption`: one thread is the first, and `NoRegs` is no set of
registers):

| theorem | says |
|---|---|
| `TypeCorrect` | `Spec => []TypeOK`; what is saved are the registers `touser` set |
| `UserCodeIsConfined` | `Spec => []UserIsConfined` |
| `ThreadsSurvive` | `Spec => []NoThreadExits` |
| `Invariance` | `Spec => []IndInv`, from which they follow |
| `SwitchRefinement` | `Spec => EntersUserCodeAtomically`: `UThread` implements `UserSwitch` |

The argument: host calls are on while a thread is remapping and at no other
time, and a remapping thread is in `do_maps` (`ThreadInv`), so what is resumed
in user code is resumed with them off. `do_maps` has one call that would end
the thread, its last (`ProgInv`), and a thread stopped at the entry of that call
is resumed elsewhere (the last conjunct of `ThreadInv`). Signals and traps only
stop a thread, and what is not at a call gets no answer while it remaps.

For the refinement `SpaceInv` says what is mapped in the middle of a remap: `do_maps`
was given its pages in some order and has the last so many calls of it still
to make, so the pages of the calls it has made are mapped as the process wants them, and the
others not at all. When no call is left that is the wanted address space, and the
step that resumes the thread in user code is the one step of `UserSwitch`; all
others leave what user code sees alone.

`ConsKbd_proofs` proves, for any ring and line, any bytes, readers and finite set of
channels (`ConsAssumption`: the ring has more than one place, runes are
sequences of bytes, `^T` and `^P` differ):

| theorem | says |
|---|---|
| `RingIsAPipe` | `Spec => StagingIsAPipe`: the staging ring implements `BytePipe` |
| `NoRawLeft` | `Spec => []RawOffWhenUnused` |
| `SentIsReceived` | `Spec => []LinesAreDelivered`: what was put in `lineq` is what was received and what is still there; not how lines are edited |
| `TypeCorrect` | `Spec => []TypeOK` |

The argument: the clock works from its copy of `iw`. While it does, the copy is
between `ir` and `iw` going round the ring (`RingInv`), since `kbdputc` stops
short of `ir`, which the clock moves last. So what is still to be echoed begins
where `RingFrom` says and ends at `iw`: a stored byte is added at its end
(`AddByte`), each `echo` takes its first bytes (`TakeBytes`), and moving `ir` changes
nothing. For raw mode, `kbd.ctl` counts the channels that are open, so a
channel that can switch raw mode on is one of those counted, and the close
that brings the count to zero is on its way to clear `kbd.raw` (`RawInv`).
A reader past `qlock` is the owner of the lock, so there is one; it puts a line in `lineq`
only where it has seen it empty, and sends the line before it outgrows its buffer
(`LineInv`): `lineq` is empty or one line, and nothing is dropped. `TypeOK` rests
on all of this and on what `echo` does with a run of bytes, a fold: `Induction`
(below) carries its invariant from byte to byte. That the bytes are ones that
were typed follows from `RingIsAPipe`.

`RandomDev_proofs` proves, for any ring of more than one byte, any readers and
any reads (`RandomAssumption`):

| theorem | says |
|---|---|
| `TypeCorrect` | `Spec => []TypeOK` |
| `BytesOnce` | `Spec => []EachByteOnce` |
| `NoWakeupLost` | `Spec => []NoMissedWakeup` |
| `Invariance` | `Spec => []IndInv`, from which they follow |

The argument: who is past `qlock` heads the queue of the lock, so there is one
(`LockInv`). The clock that is about to write has room, as nobody else fills the
ring, and the reader that has taken a byte still has it, as nobody else empties
it (`RingInv`); each then moves one end of the run of unread bytes by one
(`EndsMove`). A reader about to sleep has said so and has woken `genrandom`
(`WakeInv`), and `genrandom` sleeps only on a full ring, which is not empty.

`Trap_proofs` holds the proofs about both halves of `trap.c`. On interrupts, for any
devices on any lines, level- or edge-triggered
(`IntrAssumption`):

| theorem | says |
|---|---|
| `TypeCorrect` | `Spec => []TypeOK` |
| `MasksFollowTheTable` | `Spec => []MaskMatchesTable` |
| `ServiceEnds` | `Spec => []NothingInService` |
| `Invariance` | `Spec => []IndInv`, from which they follow |

The argument: `ServiceInv` says what is in service at each point of `trap`. An
acknowledge leaves the irq, the master's place for the slave, or nothing when
the request was gone; exactly one end of interrupt is among the calls still to
be made as long as something is in service, and it comes before `preempted`. The
masks change with the table, in one critical section, and agree by
themselves.

On notes, for any registers, any queue length, any handler and any number of notes
(`NotesAssumption`; `NoFrame` and `Gone` are no frame and no register set):

| theorem | says |
|---|---|
| `NotesTypeCorrect` | `NotesSpec => []NotesTypeOK` |
| `NotesStack` | `NotesSpec => IsNoteStack`: `notify` and `noted` implement `NoteStack` |

`NotesTypeOK` is not inductive: `notify` writes above the stack pointer, and nothing in it
says that there is memory for the frame, or that the frame it links to is not
the one it writes over. The invariant, `NotesInv`, adds two conjuncts. `FramesOK`: a frame at `a` was
pushed from a stack pointer at `a - 1`, whatever the handler has made of the rest of its
registers, and what it is linked to is a frame. `StackOK`: the newest frame is
at or under the stack pointer, and at it while a note is handled; frames and
notes in the queue together are no more than the notes that were posted, so there is room.
`Chain` follows the links with a recursive function. `ChainIs` unfolds it by one
link, `ChainAgree` says that frames above where a chain starts are not on it, so that a
push leaves the old chain under the new frame, and `RewrittenChain` that rewriting the newest
frame changes one element; the first two are by induction on the depth.
With these each action is a step of `NoteStack`, one lemma for each.

`Kbd_proofs` proves, for any channels, whichever keys are used on which keyboard, and any
changes of the map (`KbdAssumption`):

| theorem | says |
|---|---|
| `TypeCorrect` | `Spec => []TypeOK`, with at most four characters in `kc` after a byte |
| `OneHolder` | `Spec => []KbinIsExclusive` |
| `Invariance` | the two together, on which they rest |
| `NoModifierSticks` | `RemapsKeepModifiers` implies `Spec => []ModifiersMatchKeys`: a flag is set only while a key for it is down (not conversely), but for `excused` and `stray` |
| `ExitsTakeThreeKeys` | `RemapsKeepModifiers` implies `Spec => OnlyCtrlAltDelExits`, but for an `excused` Ctrl or Alt and `stray` |

The last two are about the byte sequences of `Codes`, and they are not true of arbitrary maps: who makes Shift of the letter A in the
plain table only, and presses A, then AltGr, then lets go of A, has Shift set for good.
`RemapsKeepModifiers` is what they need of the entries that are written to the map,
stated for each entry alone: in the places where the release of a modifier may be
looked up (`Keeps`) there stays what the table had, and a rune that is a modifier
goes only to places from which it is also taken back (`Makes`). All that is not about modifiers
may be changed, and the entries that `kbd_scan` writes satisfy it, which
`KbdMC` states as an assumption that TLC evaluates.

The argument (`ModInv`): when no byte of a source's keyboards is pending, a
modifier is set only while a key for it is down (`Resting`). Between the bytes
of one key, `Midkey` says which key it is, how many of its bytes are through and
what the prefixes are by then. A source has one keyboard that sends: the controller, or the
holder of `kbin`, of which there is one until a stray close (`OneHolder`). For each key and each of its bytes the tables say which
flags may change, whatever the modifiers select. The
invariant excepts what `excused` remembers, and one excused flag of AltGr,
Shift or the prefixes excuses them all, because the others are looked up through it.

`Ether8139_proofs` proves, for any number of connections, blocks and descriptors,
queues of any length, any packets, processes and loads (`EtherAssumption`,
`LoadAssumption`, `DriverAssumption`: `oq` holds more than one packet; `Free`,
`Closed` and `NoBlock` are no packets, configurations and blocks):

| theorem | says |
|---|---|
| `TypeCorrect` | `Spec => []TypeOK` |
| `OneOwner` | `Spec => []BlocksHaveOneOwner` |
| `OutputOrder` | `Spec => []OutputInOrder` |
| `HubRefinement` | `Spec => EveryoneHears`: multiplexer and driver implement `PacketHub` |

The invariant is `IInv`, three conjuncts:

* `Types`, `TypeOK` and what `TypeOK` leaves out (`rx` holds frames);
* `OwnInv`: the blocks in use are those in the connections' queues, each in one queue
  once, and those elsewhere (`Given`); `oq`, the descriptors and the processes
  have different blocks, and a process has one at certain steps only (`Apart`);
* `Ordered`: there is a number `k` of descriptors the chip has still to send.
  `RingInv(k)` says that the chip is `k` places behind `tdh` and `tdi` is `ntd`
  places behind it, with what the chip is done with in between; `OrderInv(k)` says
  place by place what `left`, those `k` and `oq` have of `queued`.

What a handler sees is the result of two loops, `etheriq` over the connections and
`rtl8139txstart` over the packets that fit. Both are folds, and both have a loop
invariant of their own: `GiveMem` (each turn keeps `Given`, and gives at most one
connection the packet) and, for the ring, what is true after `j` descriptors are
filled. For the refinement the loop invariant is `LoopInv`: after `k` turns a set `A` has
missed the packet, everyone in `A` had no room, all others whom the packet is for
have it, but for the one (`fx`) that is to get the block; the overflows counted are those
of `A` which read whole packets; and no more than `k` blocks are gone, so that a
connection that finds memory exhausted was not promised room. `EtheriqHears`
ends it with the block itself, and all other steps leave what connections have
heard alone, or open or close one.

Induction. The library's induction theorems take an operator as a parameter, which the
provers cannot instantiate. `Induction` in `ConsKbd_proofs`, `Ether8139_proofs`
and `Trap_proofs` is the same for a set (it holds 0, and `k + 1` with `k`), from `WFMin` on the
natural numbers. With it the function by which `FoldLeft` is defined is
followed turn by turn, and a chain of frames link by link.

Only model-checked, because it is out of the prover's reach: liveness under
fairness (`RemapCompletes`, `EverythingIsEchoed`, `RawLineIsSent`, `ReadsEnd`,
`NotesAreDelivered`, `QueuedIsSent`, `EventIsServed`), and statements with
`ENABLED`.

## 6. Not modelled

Of the code that is linked:

* Page contents, page colours, the swap device (`cachedel` runs only with one;
  this build configures none), `pageinit`'s sizing, the debug printers.
* The lazy switching of the FPU (`mathemu`, `procsave`, `notify`): `FPON` and
  `FPOFF` in `K l.s` are NOPs, and a user thread has the FPU of its host process.
* Boot and the host loader (`K main.c`, `src/umhost/umhost.c` from line 320 on): sequential
  set-up before anything else runs, with no state that is changed later.
* The list of I/O ports in `devarch.c`: it stays empty, as `ioalloc` is a stub
  that fails.
* `kmesg` and `kprint`: `putstrn` hands everything to the host here, so nothing is written to
  `kprintoq`, and `kmesg`, one critical section, receives echoed input only.
* `trapenable` and the exceptions of `trap.c`, `devlpt.c`, `i8253.c` (the host's clock takes
  its place), the MMU stubs, formatting and the reading of processor data.

Of the code that is not linked, everything but `ether8139.c` and `mtrr.c`'s clock
hook. These hundred files are drivers and
processor support as they are for the pc port. Nothing in the port calls them, most of their lines are
register layouts, tables and probing for one chip or another, and a model of one
is a model of its chip. That is why the models cover two fifths of the
files they are about and a small part of the directory.

## 7. Plan

Done: all modules are checked, and every safety property, action property and
refinement that a passing run checks has a proof.

To model if the port gets there: threads beyond the first (`uthread.c` forks
them and binds none), the entry from a stopped thread into `trap` and `syscall`,
a swap device, interrupts on several processors (`trap` walks the handlers
without the lock that `intrdisable` holds).
