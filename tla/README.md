# A formal model of kvmulate

kvmulate runs an x86 guest under Linux KVM and emulates the peripherals of an
IBM PC in one process. This directory holds TLA+ models of its devices, the TLC
configurations that check them on small instances, and TLAPS proofs of the
properties that hold for every value of the constants.

## 1. The system

Two threads share the process.

* The **VCPU thread** (`sys_run_vcpu`, `system.c`) runs the guest until KVM
  exits for a port or memory access, and dispatches it: `handle_io` to the port
  table of `io.c`, `handle_mmio` to the device list of `mmio.c`. A device
  handler runs to its end before the guest continues.
* The **viewer thread** (`vga/viewer.c`) draws the screen and turns SDL key
  events into calls of `kbd_inject`.

Devices call `irq_set`, which sets the level of a line of KVM's interrupt
controller. There are no locks anywhere. `ASSERT` calls `abort()`.

| Component | State | Operations | Interacts with | What is hard, and what correctness means |
|---|---|---|---|---|
| Keyboard controller, `i8042.c` | status, command byte, output buffer and index, pending parameters | guest reads and writes of 0x60/0x64, `kbd_inject` | viewer thread (shared record), IRQ 1 | two threads, no lock: index in bounds, flag, index and line agree, a second byte gets its interrupt, no byte twice, the buffer drains |
| ATA controller, `ata/controller.c` | task-file registers, read and write buffers with offsets, address of the pending write | commands, resets, device selection, data words | backing file, IRQ 14 | long sequences of legal accesses, a file that fails: transfers keep their address and length, the data port stays in the buffer |
| Floppy controller, `floppy.c` | MSR, FIFO with one index for both directions, position, DMA buffer | command, parameter and result bytes, reset | DMA, image file, IRQ 6 | phases and resets, edges of the line, stale sectors in the buffer |
| DMA controllers, `i8237-dma.c` | byte pairs, flip-flops, page registers | register accesses, resets, `dma_transfer_from_device` | floppy, guest memory | half-accessed pairs |
| Port dispatcher, `io.c` | table of handlers | register, remap, in/out of three widths | all devices, `handle_io` | overlapping ranges, a full table |
| Port map, `devices.c` | order of registration | start-up | all devices | a device shadowed by another |
| MMIO dispatcher, `mmio.c` | list of devices | register, read, write | VGA memory and ROM | a device that moves; 32-bit masks |
| PCI, `pci.c`, `vga/rom.c` | address register, devices, mapped ROM | configuration accesses | MMIO | the ROM answers where it was enabled last; a write reaches the selected device only, also at odd offsets and below register 0 |
| CMOS, `cmos.c` | index, status registers | 0x70/0x71 | host clock, memory size | sizes split over bytes: they fit the slots; BCD |
| QEMU paravirtual, `qemu_paravirt.c` | reply buffer, offset | 0x510/0x511 | memory map | the offset across selections; a fixed memory map |
| VGA, `vga/registers.c`, `vga/ram.c`, `vga/viewer.c` | index and data registers, palette, planes; the frame being drawn | port and memory accesses; the viewer's loop | viewer thread | a frame drawn while mode, start address, planes and palette change: it is a view of one time span, and a torn one is replaced |
| Memory map, `system.c` | KVM slots, low memory pointers | `map_ram`, `load_bios`, `sys_getLowMem` | DMA, CMOS, MMIO | refused slots that nobody notices, ranges at their edges |
| Serial, parallel, debug, PS/2 POS | none, or one byte | port accesses | | only their port ranges matter |

`PROJECT.json` lists the hazards at their lines, under `hazards`, with the
properties that cover each of them.

## 2. The modules

| Module | Models | Built on |
|---|---|---|
| `I8042` | keyboard controller and key events | |
| `BlockDevice` | what a programmed-I/O disk promises (abstract) | |
| `AtaController` | ATA controller | instance of `BlockDevice` |
| `PortBus` | port dispatcher | |
| `PcPortMap` | the machine's port table | instance of `PortBus` |
| `I8237` | DMA controllers | |
| `Floppy` | floppy controller and its DMA channel | extends `I8237` |
| `GuestMemory` | memory slots, MMIO dispatcher, exit loop | |
| `Cmos` | CMOS memory and clock | extends `GuestMemory` |
| `QemuParavirt` | QEMU paravirtual configuration | extends `GuestMemory` |
| `PciRom` | PCI configuration space, VGA ROM, the PCI side of ATA | extends `GuestMemory` |
| `Platform` | composition: start-up, memory, CMOS, paravirtual configuration, PCI | extends the three above |
| `Vga` | VGA registers, planes and the viewer thread | |
| `MC*` | instances for TLC | the module of the name |
| `I8042Proofs`, `AtaProofs`, `PortBusProofs`, `PcPortMapProofs`, `FloppyProofs`, `PlatformProofs`, `VgaProofs` | proofs | the component's module |

Definitions have the names of the C functions they model where there is one.
Some are preceded by a *mutant*: the same definition with a plausible mistake,
kept to show that a property notices it (`mutants` in `PROJECT.json`). No
specification uses a mutant.

### I8042

The variables are the fields of `regs`. `vcpu` and `viewer` say where each
thread is in its handler, and `vtmp`, `vndx`, `wtmp` are the registers into
which the compiled code loads shared fields; the Makefile asks for no
optimisation, so `regs.status |= 1` is a load and a store. The first step of a
handler also changes what only the VCPU thread uses. Steps interleave
sequentially consistently; the store buffers of x86 could delay a store
further, which is not modelled. `guest` holds what the guest learnt from the
last access. With `PoliteGuest` it writes only after it saw an empty output
buffer and reads only after it saw a full one. `overlap` becomes true once a
call starts while another is running; the properties that only hold of calls
one after the other say so with it.

### AtaController and BlockDevice

One action per port access; the VCPU thread is the only one here. Buffers are
functions from word offsets. `BlockDevice` knows only a disk and a transfer with
its address, length and position. `AtaController!Block` maps the controller to
it: the transfer is idle unless DRQ is set, and its address is the one the
pending write stored. `FileFaults` lets `read` and `write` move any prefix. The
driver is assumed to move words only while DRQ is set for that direction:
`pio_inw` and `pio_outw` test nothing. `ControlBlock` says whether the device
control port reaches the controller; the runs set it, so that resets are
covered, although in the assembled machine it does not (`ImplementedReached`).

### PortBus and PcPortMap

A handler is the set of its ports and the set of its callbacks. `claimed` is a
history of who claimed a port first. An access ends in `served`, in the value
of an unhandled read, in an ASSERT (a missing write callback) or in a call
through NULL (a missing read callback). `PcPortMap` computes the sets from the
bases and masks of the init functions and registers them in the order of
`devices_register_all`. `Selects` is the test `(address & mask) == base` of
`lookup_handler`, bit by bit. `Implemented` are the ports for which each
device's callbacks have code. Two of them are `Unreached`, 0x3B4 of the VGA and
0x3F6 of ATA: `DevicesReached` says that they, and no others, do not reach their
device; `ImplementedReached`, without the exception, is false.

### I8237 and Floppy

`regs`, `flipflop` and `page` are the fields of `dma`; a flip-flop counts up in
the code and only its lowest bit is used. `sent` and `next` are what the driver
takes the registers and flip-flops to be. In `Floppy` a sector of the image is
named by its number, so a copy shows which sectors went where. `copied` is what
READ DATA put in memory. `unsensed` makes the driver send SENSE INTERRUPT after
a reset, a seek or a recalibration, and `missed` records a completion that found
the line high. The driver accesses DMA registers between commands and in pairs,
uses a buffer below 640K or beyond 1M, and sets byte 6 of READ DATA to the last
sector it wants; without that the count could exceed what was read. Past the end
of the image `fread` leaves the buffer as it was and the old sectors are copied;
`ReadDelivers` speaks only of the sectors that the image has. `fread` itself may
write behind the buffer: that it does not is what `TypeOK` says of `pDMABuffer`.

### GuestMemory, Cmos, QemuParavirt, PciRom and Platform

These parts are what a firmware sees of the machine, and each must agree with
another: CMOS and the E820 table with the slots, the slots with the video window
and with `sys_getLowMem`, the expansion ROM register with the MMIO list.
`GuestMemory` has the slots in granules of 16 KB, the largest unit that divides
every address of the map, with the real addresses. A slot names its allocation,
so that two pointers to the same memory can be compared. `Accepts` is KVM's
refusal of an empty or overlapping slot (external); `sys_map` ignores it, as its
callers do, which is why the VGA BIOS at 0xC0000 keeps its place and the second
block of low memory is never seen by the guest. `boot` follows `sys_create`, and
`run` ends in `aborted` (ASSERT), `crashed` or `stopped` (KVM_RUN failed).
The MMIO masks have 32 bits, so devices answer again from 4 GB on, where their
callbacks leave their buffers.

`Cmos` has real byte values: the size registers are computed as in `cmos_inb`,
wrap-around included. In `QemuParavirt` a byte of the buffer is the item that
wrote it, `chosen` and `taken` are the history of the reader. In `PciRom` a
32-bit value is its granule and its lowest bit; `asked` is the last address the
guest wrote. Dwords may be written at every port behind 0xCF8, so at any offset
from -3 to 258 of a device's configuration: a register that got parts of two
values is `Mixed`, and below register 0 lie the bus, device and function number
by which `getDevice` finds the device (`number`, `Renumber`). Of the bus number
four bits are kept (`pci.c` 139), so a write to bus 16 changes the devices of
bus 0; `ConfigOnlySelected` speaks of the buses below 16.

`Platform` composes them: `sys_create` to its end, then any access at any time.

### Vga

The VCPU's accesses are one step each. The viewer's loads are a step each: the
mode once per frame, the high and the low byte of the start address, every byte
of the picture and its colours (the components of a colour together; the
property speaks of each component alone). A frame is the sequence of the bytes
drawn and the colours they had. `seen` holds every value that the registers,
planes and palette had since the frame began, which is what `OneViewPerFrame`
compares it with. A load behind a plane finds anything or ends the program. A
palette write that has run into the pointers behind `pel` does not end the
program: it carries on with a plane that lies elsewhere, until it uses it. The
model does not follow it there; `run` is then `moved`. In `updateGraphics` the
width and height are overwritten with 320 and 200, so the other branch is not
modelled, nor is `drawCursor`, which is never called.

A start address may be torn: the guest writes its two bytes with two accesses,
and the viewer loads them one by one. In text mode a torn address can point
behind the plane although neither the old nor the new one does. `DrawsInPlane`
says that this is the only way there apart from an address that does not fit.

## 3. The runs

| Run | States | Shows |
|---|---|---|
| `i8042_safety` | 1.2 million | `TypeOK`, `ReadIndexInBounds`, `QuietConsistent`, `NoDuplicate`, `LineAfterRead` with an unconstrained guest. One command of each kind, an unknown one, and parameters. |
| `i8042_live` | 74 thousand | `Drained` for a polling guest, as long as no two calls have overlapped. |
| `ata` | 238 thousand | `TypeOK`, `PioInWindow`, `IrqMeansProgress`, and `ImplementsBlockDevice` as refinement, with a file that may fail. |
| `port_bus` | 3.7 thousand | `TypeOK`, `FirstClaimWins`. |
| `pc_ports` | 8 thousand | `DevicesReached` for the real table. |
| `floppy` | 7.0 million | `TypeOK`, `FifoInPhase`, `NoMissedInterrupt`, `LineTellsInterrupt`, `ReadDelivers`. |
| `platform` | 350 thousand | `TypeOK`, `VideoWindowOpen`, `MemorySizesAgree`, `ReportedRamIsMapped`, `DmaReachesGuest`, `RomPlaced`, `ReplyFromStart`, `ClockDecodes`, `ConfigOnlySelected`. |
| `vga` | 86 thousand | `TypeOK`, `OneViewPerFrame`, `DrawsInPlane`, `QuietFrameExact`, and `Settles` under fairness of the viewer. |
| `i8042_polled_read` | violation | a key event during a read leaves OBF set with nothing in the buffer: a polled read finds it empty (`i8042.c` 211, 226). |
| `i8042_params` | violation | READ COMMAND BYTE falls through and swallows the next keyboard byte (`i8042.c` 87-94). |
| `pc_implemented` | violation | port 0x3F6 reaches the floppy controller, not ATA (`ata_internal.h` 3-4, `devices.c` 35-36), and 0x3B4 nobody, although `vgareg_inb` answers it (`vga/registers.c` 104, 252, 262). |
| `dma_flipflop` | violation | a flip-flop reset clears seven bytes of seven ints (`i8237-dma.c` 96). |

**Bounds.** None of the runs limits the number of steps, except that `pc_ports`
makes one access, which leaves the table as it was, and `vga` three, at any
point of any frame: enough to enable a plane, write it, and change mode or start
address, or to write both bytes of a start address. In `i8042_*` there is one
scan code with make and break; values do not influence control. In `ata` a
sector has two words, so that the last word of a sector and of a transfer differ
from the others, a read has one or two sectors, since a count of 0 means two,
and a write has one; the addresses are 0 and 1. `BlockDevice` takes any address,
so how the registers make one is not in question here, only that it stays the
same; longer writes are left to the proofs. `port_bus` has handlers that overlap
in every way, a port nobody claims, and a table that fills after three. `floppy`
has 2 cylinders, heads and sectors, an image one sector short of that, a buffer
of three sectors, byte counts that end in the first and in the second sector,
and reads of two sectors, which leave the end of the buffer as it was (from the
second sector on only one of them may be copied), of three, and of four, one
above what the ASSERT admits. `platform` has the real addresses and memory sizes
of 2 and 16 MB (where the size registers wrap and are zero), 3584, 3585 and 3586
MB (around the hole; at 3585 the slot above 4 GB is empty and refused), and the
8192 MB of `main.c`. The reply buffer has four bytes. CMOS, PCI and the
paravirtual configuration share only guest memory and no property relates two of
them, so `MCPlatform` lets a behaviour use one of the three, chosen at the
start. Of PCI it has either a firmware that places the ROM, or, on the smallest
machine, dwords at all seven ports behind 0xCF8 for both devices, an absent
function and bus 16, with the first register, the ROM's and the last. `vga` has
two planes of six bytes and pictures of two, placed so that a text page fits or
not, and a palette of two colours.

**Deadlock** is not checked: an ASSERT or a crash ends the program, and the
models have `run` for it.

**Fairness** (`i8042_live`). Weak fairness of a handler's later steps and of
`kbd_inject`'s: the host schedules both threads. Strong fairness of a status
read and of a data read: a guest that polls does get to it, whatever else it
does in between; a guest that never polls is no reader of this property. Once a
call of `kbd_inject` has overlapped one of the guest, OBF may stay set over an
empty buffer for good (`i8042_polled_read`), and `Drained` promises nothing. In
`vga`, weak fairness of the viewer's steps: its loop has no exit and waits for
nothing. The guest has no fairness, and need not use its three accesses.

## 4. The proofs

Every property of the passing runs is a theorem, for every value of the
constants, except the two liveness properties named at the end of this section.

* `I8042Proofs`: `TypeOK` is not inductive, because the decrement of
  `ndx_output` uses a copy. `IndexHeld` adds that between the test and the
  decrement the index and its copy are at least 0: nothing but the decrement of
  the VCPU thread itself lowers it, and `kbd_inject` stores 0. From it follow
  `TypeCorrect` and `ReadsInBounds`. `SerialInv` is about calls that have not
  overlapped: one thread is then outside its handler, and for each point where
  the other may be it says how status, index, line and the freshness of element
  0 are related. Theorems `SerialCallsConsistent`, `SerialCallsDeliverOnce` and,
  an action property, `SerialReadsRaise`.
* `AtaProofs`: the conjunction of the type invariant, the windows and the
  interrupt property is inductive. One lemma per command shows what it leaves in
  the registers; theorems `TypeCorrect`, `DataPortInWindow`,
  `InterruptMeansProgress`. On top of them one lemma per access shows that under
  the mapping `Transfer` it is a step of `BlockDevice` or a stutter; theorem
  `ControllerImplementsBlockDevice`. The windows are what makes the mapping
  work: without `PioInWindow` a last word could miss the flush.
* `PortBusProofs`: `FirstUnique` shows that the slot `lookup_handler` chooses is
  determined, and each operation keeps `claimed` equal to it; theorems
  `FirstClaimAlwaysWins` and `TypeCorrect`.
* `PcPortMapProofs`: `DevicesReached` for all 65536 ports. The lemmas turn the
  bits of a mask into numbers, one bit at a time (`OneBitMore`, `AgreeAbove`): a
  mask that clears the low bits selects the block of ports at its base
  (`SelectsBlock`), the mask 0xFE of CMOS every port whose low byte is 0x70 or
  0x71 (`SelectsCmos`), the mask of ATA two blocks, the second of which is that
  of the floppy controller (`SelectsAta`). `Booting` is the invariant: the table
  holds the first `booted` handlers in their order. `FirstTaker` then says which
  slot `lookup_handler` returns: the first that selects the port; `NoTaker` that
  it returns none where nobody does, and `NotReached` applies both to the two
  ports that do not reach their device. Theorems `EveryDeviceReached`;
  `AtaControlNeverReached`, half of the finding of run `pc_implemented` in
  every state of the booted machine; and `MachineIsPortBus`, that start-up and
  accesses are behaviours of `PortBus`.
* `FloppyProofs`: `NoMissedInterrupt` needs `LineOwned`: a raised line is
  waiting either for SENSE INTERRUPT or for the end of a result phase, never for
  both, and for neither when another command executes. Theorems
  `FifoStaysInPhase`, `InterruptsHaveEdges` and `LineAlwaysTells`. `FloppyInv`
  adds `ParametersSent` (every parameter in the FIFO is one that its place in
  the command allows) and `DmaInv`: the flip-flops stand where the driver
  believes and the registers hold what it sent. It is the driver's resets that
  make this so; without them it is false (run `dma_flipflop`); theorem
  `ChannelInStep`. `BeforeIsLba` counts: `chs_to_lba` is the number of sectors
  before the one named, by the cardinalities of products and unions. `freadIs`
  needs the test of the length: with it a read stays in the buffer. Theorems
  `TypeCorrect` and, an action property, `ReadsDeliver`.
* `PlatformProofs`: `Decoded` says that `pci` is the decoded form of the address
  last asked for, from which `WritesGoWhereAddressed` follows for the sixteen
  buses that the decoding tells apart, whatever number a device has by then;
  `ReplyHeld` that the offset counts the bytes taken and the whole reply is in
  the buffer (`RepliesFromStart`); `WindowClear` that every slot asked for is
  clear of the video window, so the answer of KVM does not matter
  (`VideoWindowStaysOpen`). `SlotLayout` gives the slots themselves at each
  stage of `sys_create`, for every size of memory: from it follow
  `DevicesReachGuestMemory`, `TableTellsRam` and, by arithmetic on the bytes of
  the CMOS registers, `CmosTellsMemory`. The last has a hypothesis: the three
  bytes for memory above 4 GB can express less than 1 TB, and for more the
  firmware would be told less. `RomFollows` relates the ROM's place to the BAR
  last written (`RomWhereEnabled`). `ClockTellsTime` is about every time of this
  century, of which `ClockDecodes` samples a hundred. `TypeCorrect` joins these
  invariants.
* `VgaProofs`: `TypeCorrect` for registers, pictures and viewer. `FrameSeen` is
  the invariant of the race: what the guest's state holds now has been seen
  (`NowSeen`), and so has what the viewer holds, its mode, the start address or
  its high byte, the byte it has loaded, and every cell already in the frame
  (`HeldSeen`). A guest's step only adds to `seen`. Theorems `FramesAreViews`
  and `ReadsInPlane`. `FrameShaped` adds that a cell has as many colours as its
  byte asks for; when `seen` is then just what is there now, each cell is the
  one that belongs there. This is `QuietFramesExact`, the safety half of
  `Settles`: what remains is that the viewer goes on drawing. The proofs rest on
  the assumptions that a plane holds a graphics picture from every start
  address, which the code's sizes satisfy (64000 + 65535 bytes in 128 KiB), that
  the palette index fits its 16 bits, and that the set of register values has
  the low nibbles that the sequencer's map mask keeps.

They assume only the named `ASSUME`s on the constants in the modules, and the
one hypothesis of `CmosTellsMemory`. Model-checked only: `Drained` and
`Settles`, since liveness under fairness is beyond the prover. The properties of
the four violation runs are false, and their counterexamples are what TLC
shows.

## 5. Not modelled, and the plan

Not modelled for good: glyphs, pixels and the font; logging; CPUID and the
KVM calls before `load_bios`; failures of `irq_set`, `mmap` and `malloc`;
the passing of time between two reads of the clock; what memory and ROM hold.
The stateless ports (serial, parallel, PS/2 POS, debug) matter for their ranges
only. Also left out: register 7 and page 15 of the DMA controllers, which lie
outside their arrays; which bytes a PCI register holds once parts of two values
met in it; and the machine after a plane of the VGA was moved.

`IDENTIFY DEVICE` reports 15 or 16 heads (`controller.c` 165-171) while the CHS
translation of the commands uses 255 (123): `AtaController` takes the latter,
and the block that IDENTIFY returns is a parameter.

The plan is carried out as far as the prover reaches. Hazards without a property
have a note in `PROJECT.json`: their outcome is modelled (an ASSERT or a crash
that ends the run), or the code leaves nothing to promise. A next step would be
a protocol for the palette ports, a guest that writes three bytes after each
address, under which `palette_write` stays within `pel`.
