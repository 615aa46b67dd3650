# A TLA+ model of muir

muir simulates the MIT CADR Lisp machine and its evolution, QUUX: a processor
run by one of three engines, the bus interface, a disk controller with its
drives, the I/O board with its keyboard, mouse, serial port and Chaosnet
interface, a display, and what a host puts at the far end of each cable. This
directory models the parts of it whose behaviour depends on the *order* of
things, or on data that is easy to get wrong at a boundary, checks them with TLC
on small instances and proves the most important properties with TLAPS for every
instance.

All paths below are relative to `src/` of the repository unless they begin with
`tests/` or `docs/`; `PROJECT.json` gives for each definition the lines it
models (a helper whose lines lie within another definition's is not listed
again), the hazards the properties are for, and a mutant of the code's
definitions that breaks each property.

## 1. The system

| Component | State it keeps | Operations | Hard behaviour |
|---|---|---|---|
| `micro` engine (`micro.rs`) | two-deep pipeline, SPC stack with a late write, location counter, `inhibit`, delayed MD | `step`: one microinstruction | must agree with `rtl` on everything software can see, though it runs in one pass what the hardware does in two phases and an edge |
| `rtl` engine (`rtl.rs`) | the registers of the drawings, the memory cycle in flight | `step_body`: phases, edge, wait, hang | a hung microcycle pulses its write early; control store writes take two microcycles more; MD is loaded between two instructions |
| `chip` engine (`chip.rs`, `part.rs`, `cable.rs`) | every net, flip-flop and mark | settle, transition, exchange over a cable | evaluates only what is marked out of date; sleeps; a loop of gates; several edges at one instant |
| Arithmetic (`ttl.rs`, `muldiv.rs`) | none | ALU, byte, multiply and divide steps | four implementations of one function |
| Clock generator (`clock.rs`) | transitions to come | tick, hang, reset, restart | tap chosen in mid-cycle |
| Bus interface (`busint.rs`) | cycle in flight, arbitration, debug master, debug registers, the memory boards' timers | request, edge, poll, finish; debug request and release | arbitration between processor and debug cable at any instant; a timeout inhibited and lifted; a reset in mid-cycle |
| Memory port and cache of QUUX (`memory_port.rs`, `cache.rs`) | cycle, tags, write buffer, prefetched word | start, poll, transfer, drop | a prefetched word against stores, transfers and map writes |
| Disk controller and drives (`disk_controller.rs`, `disk_unit.rs`) | four registers, error flops, one `done_at`, per drive position, attention, fault, sectors | stores into the registers, START, walk of the command list | a list in the memory the transfer writes; an error at any block; the timeout flag before and after its time |
| Block disk (`block_disk.rs`, `disk_image.rs`) | registers, the image's allocation table | START, walk, sector writes | a growing file cut at any write |
| Chaosnet (`chaos/board.rs`, `chaos/ether.rs`, `chaos/udp.rs`) | interface registers and buffers, the cable's transmissions, the node's queues | register accesses, `advance`, a frame's instants, datagrams | collision, abort, retry, loop back, a receiver decided on before the frame lands, checkpoints |
| I/O board (`ioboard.rs`, `quux_input.rs`) | keyboard word, mouse counts, clocks, interrupt requests | register accesses, `advance` | words lost and counted; two halves of a clock read at two instants |
| Serial port (`serial.rs`) and the netlist's 2651 (`part.rs`) | holding and shift registers, modem lines | access, poll | brought up to the time however late |
| File device (`file_device.rs`) | registers, rings' indexes, the command taken, handles | register stores, `advance`, ten commands as host calls | indexes that wrap, a response ring that is full, host calls that fail half-way, a host that changes the folders meanwhile |
| Display (`tv.rs`, `tv/sync.rs`) | mode, sync program, flag | stores, reads at any time | the sync program is never run: read by arithmetic |
| Terminal (`terminal/*`) | viewers, pressed keys, queues | socket polls, key events, updates | keys held when a viewer leaves; a screen that changes between two rows sent |
| Lashup (`lashup.rs`, `fabric.rs`) | two machines, cable events, promises; a window to an FPGA | step whichever may run | neither may pass the other's promise, neither may starve; a run killed and another started |
| Checkpoint (`checkpoint.rs`) | none | save, load | zero runs, truncated files, another machine's file; a save in the middle of anything |
| Command line (`cli.rs`, `prompt.rs`) | held or running, breakpoints, lines from a thread, signal counts | run loop, commands | lines and signals arriving at any microcycle |
| Off-line tools (`diskpack.rs`, `band.rs`, `dcmicro.rs`, `mcr.rs`, `prom.rs`, `sym.rs`) | a file | edit, read, assemble | none concurrent |

Everything runs on one thread: an engine's step runs one microinstruction, and
in it advances the devices to the machine's clock (`Machine`'s device fields);
the devices answer register accesses in the middle of a step; the cable's ends
are polled between steps. Concurrency is of four kinds: the software against
the devices' own time, the devices against what the host delivers (datagrams,
keys, lines) or does meanwhile (its folders, a kill), the engines against each
other, which is what `tests/cosim.rs` compares, and two machines on a debug
cable.

What makes each part correct: the engines agree; the bus has one master and MD
its own read's word; the controller moves the blocks the list names and reports
where it stopped; the Chaosnet loses nothing it does not count and neither
repeats nor reorders; the file device answers every command once and in order,
and leaves the host's files whole; what has been put by so as not to be looked
at again still holds when it is used; a checkpoint resumes to what was saved;
every operation the software waits for ends.

## 2. The modules

| Module | What it is |
|---|---|
| `Microcode` | constants, instructions and arithmetic both engines share |
| `MicroEngine`, `RtlEngine` | `Micro::step`'s sequencing half; pages CONTRL, SPC, SPCW, LC and LCC of `Rtl` |
| `Lockstep`, `LockstepProofs` | the two side by side, under the rules the microcode keeps; its theorems |
| `Busint` | the bus interface as a record and its methods as operators |
| `MemoryCycle` | the processor at its bus interface: starts, -WAIT, -HANG, -MEMACK, the debug master's words; one turn of `step_body` is `Step` |
| `Bus`, `BusProofs` | one machine with a debugger on its cable, and its checkpoint; its theorems |
| `Lashup` | two machines of `MemoryCycle` on a debug cable, in one process and over a stream |
| `MemoryPort` | QUUX's port, cache, write buffer, prefetch and fused return |
| `BlockDisk`, `DiskImage` | QUUX's block-disk and the file under it |
| `Fabric` | the FPGA window of the debug cable |
| `FileQueue` | abstract: a queue of commands and a queue of answers |
| `FileRings`, `FileRingsProofs` | the file device's registers, rings and indexes; refines `FileQueue`; its theorems |
| `FileStore` | the file device's commands against the host's folders |
| `Quux`, `QuuxProofs` | the QUUX parts above beside each other; theorems of the window, the folders, the port and the block-disk |
| `ChaosChannel` | abstract: an in-order, at-most-once channel |
| `Chaosnet`, `ChaosnetProofs` | interface, cable and CHUDP node; refines `ChaosChannel` once in each direction; its theorems |
| `DiskUnit`, `DiskController`, `DiskProofs` | a drive; registers, commands and the walk of a command list; their theorems |
| `Keyboard`, `IoBoard`, `Serial`, `Terminal`, `Tv` | the desk: keys to words, the I/O board's registers and mouse, the serial port, the viewers, the display |
| `IoBoardProofs` | the theorem of the mouse and the microsecond clock |
| `Desk` | the five beside each other |
| `Part`, `Chip` | what pins and parts do; the engine that evaluates a board of them, with the far end of its cable |
| `Bench`, `Pci` | the memory, queue and selector parts on a bench each; the 2651 bit by bit |
| `Alu`, `Checkpoint` | the arithmetic; a checkpoint's file |
| `ClockGen`, `ClockGenProofs` | the clock generator; its theorem |
| `MCBus`, `MCQuux`, `MCGates`, `MCLockstep`, `MCDiskController` | the instances for TLC (`Chaosnet` and `FileRings` need none, `Desk` ends with its own) |

### Chaosnet

State: `loop`, `spy`, `transmit_done`, `transmit_abort`, `receive_done`, `lost`,
`xmit`, `rcv` are the interface's CSR bits and buffers; `ready` is `turn.ready`,
`looped` `incoming`, `tdone` `tdone_at`. `pending`, `boardTx`, `nodeTx`, `run`,
`aborting`, `not_taken`, `cable_full`, `cable_spy` are the ether's. `sock`,
`out`, `waiting`, `tries` are the node's. A packet is its number and its
destination; a frame's time is the order of its instants: first edge, `START^`,
destination word, end, idle, delivery. The actions are the register accesses
(`WriteBuffer`, `ReadStart`, `WriteCsr`), `Interface::advance`'s outcomes
(`TransmitDone`, `Launch`, `LoopOver`), the ether's instants (`BoardStart`,
`NodeStart`, `Ract`, `DestWord`, `NodeAbort`, `BoardAbort`, `NodeOver`,
`BoardOver`, `AbortOver`, `RunOver`), the node's (`SocketArrival`, `Ask`) and
`Resume`. UDP's losses, repetitions and reorderings happen before
`SocketArrival`, which takes any datagram at any time. A checkpoint is taken and
resumed from in one action: what is not saved (the whole cable and the node)
is lost.

Fairness: the engines advance the interface every microcycle, so every instant
the code has set comes; the software and the network owe nothing. `BoardAbort`
has none, an interference may never happen.

### Disk

The registers are `cmd`, `clp`, `da`, with `err`, `timeout` and `active` (which
is `now < done_at`); the drives `units` and `pack`; main memory `mem`, one word
a page, which is at once the page's contents and the channel command word it
would be read as. A transfer runs inside the store to START; each command word
is a step (`walk`) because a list need not end, and nothing else is enabled
while one is on. A sector has its data, whether its header is its address's own
or another's or does not check, and whether its data checks. `Timed` is
`--disk-timing`; `Polite` says whether software waits for not-active before
START, as the drivers do. Fairness: the walk is one call; the clock goes on.

### Engines

`MicroEngine` follows `Micro::step`: the late SPC write, reads before it lands,
`push_spc` and `pop_spc` with their one-count-a-microcycle flags, the location
counter stepped in `dispatch` and `fetch_and_clock`. `RtlEngine` follows the
nets of `read_phase`, the pulse of `write_phase` and the edge of `clock_edge`.
`Lockstep` runs both on the same instruction; the control store is the
environment's, any instruction of `Code` may be next, so every program over the
instruction set of the instance is covered. `rtl` spends nopped microcycles
where `micro` only charges its clock (`CatchUp`); `HangOne` is a microcycle of
`rtl`'s hung on MD. `Rules` are the microcode's conventions outside which the
engines part: leaving one out of the cfg's `Rules` gives TLC's shortest
sequence on which they do.

### Bus

`Busint` is the struct and its `&mut self` methods, one operator each, so that a
module can hold one machine's interface or two. Instants are natural numbers and
`Never` is `u64::MAX`. `state` is the processor's cycle (`Requested`,
`Arbitrating` with its stage and SACK, `Granted`, `Acked`), `debug` the debug
master's, `unibusMaster` LMUB MASTER, `memrqUp` when -MEMRQ went up. `MclkEdge` is
the whole master clock edge in the source's order: the boards' twins, the debug
master's advance, LM NEED UB, the cycle, the debug master's synchronous step.
`MemoryCycle` puts the processor to it: `Carried` is what a microcycle does up
to its end (land the write, the debug cycle, -MEMACK, MD), `ClockEdge` and
`MasterClockEdge` the two edges, `Wait` and `Hang` the two ways the clock stops,
`HeldStep` time passing under the debugger's reset. In `Bus` the debugger puts
requests at any instant, also ahead of the machine, and gives up on them, and a
caller may bound a hang or a held step at any time. `expect` is a ghost: the
word MD is to have. `RtlSave` and `RtlLoad` are the checkpoint, field by
position.

`Lashup` composes two machines. A turn steps whichever side may run by the
other's promise (`DebugInPromise`, `DebugOutPromise`); over a stream the frames
wait in an inbox and a debugger may vanish in the middle of a request. There is
no fairness: its properties are all of safety, and "neither waits on the other"
is the statement that one of them may step. That rests on the debuggee's answer
never falling within a slowest cycle of the debugger's timeout, as the delays
of the hardware have it.

Left out: page faults (a start the map refuses right after a start turns the
first cycle round and loads MD without READ IN PROGRESS), the speed
synchronizer, single stepping.

### QUUX: port, disk, window, folders

`MemoryPort` follows the port's states under a processor that starts reads,
writes and fetches, a location counter whose return may be fused with the
prefetched word, and devices that transfer behind it. The microcode is not in
the repository: `MicrocodeAssumption` says what its programs keep to. A map names
a page main memory has; the microcycle of a fetch, the one after a return, writes
no VMA and no map; the one after that writes no map. `DiskImage` is the dynamic VHD as sectors in the order they are written;
`Cut` ends the run between any two. A read after a cut may find a torn sector
only in the block being written; a torn word read as a command may be any command.
`Fabric`'s adapter is not in the repository
and is modelled from what `fabric.rs` guards against; it is assumed that an
adapter that holds a request takes one of the next `SeqCount - 1` stores.

`FileRings` has the registers and indexes of `FileDevice` under their own names;
`head` is `head_due` being `Some`, and `main` is word 0 of the entry at each
address. Each store into a register is an action, of any value at any time;
`Complete` is one turn of `advance`'s loop. The driver is assumed to keep its two
rings apart and not to write over a command it has posted (`Apart`, `Fill`);
nothing in the device makes it. Fairness: the engines call
`advance_file_device` every microcycle, so a command due is done.

`FileStore` is what `command` does, its host calls each a step: the look (which
refuses, changing nothing), then the temporary file made, the copy of an append,
the rename, the removal; between any two of them `Host` makes or removes files
and folders. A path is its mount and its components; a file is who made it, so
that a replacement shows; a write keeps the bytes it counts (`held`) and the
bytes its file has (`len`), which part when `write_all_at` fails half-way. `flag`
says whether the file system has `RENAME_NOREPLACE`: without it the code looks
and then renames, and promises less.

### The desk

`Keyboard` takes a viewer's keysyms through the bounded queue and the mapping to
the keyboard's words, into the I/O board's register, QUUX's FIFO or the netlist
board's cable; `IoBoard` has the mouse with its quadrature phases and the
pointer queue, the clocks and the CSR. `Serial` runs the port twice, once
brought up at every tick and once only when something asks (`serFine`,
`serPort`): they must stand alike. What the devices on the socket did since
the endpoint last looked is part of its turn (`Since`), for nothing else sees it.
A `Terminal` viewer may ask for any part of the screen (`Asked`); `missed` is a
ghost: the rows its copy of the screen has and the viewer does not, which
`ShowsTheScreen` leaves out and the run `viewer_part` is about. `Tv` runs the board's sync program beside the
timeline the emulator reads. Excluded from the comparisons, since the code
does not promise them: the lookahead while the modem lines have not been seen
yet and in local loop back; outbound characters are compared in time order; a
sync program with no frame drives no sync.

### Gates

`Chip` runs the engine beside itself without its economies: `slow` marks
everything before every call, never leaves a wire out and never sleeps.
`Part` gives each family of parts one section's worth of pins; the boards of
`MCGates` chain every kind of register and cascade every kind of counter. `far`
is what the far end drives, `FarNet` where its net then stands (a wire may have a
pull-up there), and a board that `reacts` has a far end that answers each
exchange by driving other levels. Carrying moves the far end's generation and
stamps its net (`farMoved`), so that the next exchange reads the wire again: a
level of the moment carried to the far end is put right by that. What is not is a wire
read while a driver of it is marked and *found as it was given*; these are `early`,
the comparison leaves them out, and they are the finding of `gates_glitch`;
`EarlyAlone`, a part of `EngineKept`, says that no other wire is ever stale. Gates that were replaced
and gates with a delay of their own are not modelled. `Alu` has words of four
bytes of one bit: the shifts, masks, carries and the tag all happen; a divide is
checked for a dividend that is not negative and a divisor that is not 0.
`ClockGen`'s unit is 5 ns. `Checkpoint` has bytes of four values, so that the
runs, the literals and the counts' continuation bits occur; the file has no
checksum, and bits that flip are not modelled.

## 3. The runs

Every action and every disjunct of every next-state relation is taken in some
passing run. Deadlock is not checked where the bounds on what the software or the
host may still do end the behaviour; `file_rings` and the disk, whose software
never stops, say nothing of the kind.

| Run | Shows | Bounds |
|---|---|---|
| `chaosnet` | the cable's copy of the receiver is the interface's; `not_taken` is the run's own; one retry counter suffices (`IndInv`); a packet waiting is not overwritten; a frame lost is counted; packets arrive in order, at most once, in each direction; every START no checkpoint is still to interrupt ends in Transmit Done; the node's queues drain | 3 register accesses, 2 datagrams, 1 resume, Lost Count of 1 bit, 2 tries: enough for loop back against the cable, an abort, and a retry with a second frame queued |
| `disk` | walk in step with the pack, disk address after a transfer, a timeout shown is a hang's, unsound sectors move nowhere, read-only packs are kept, `dma_written` covers memory, every transfer ends | 4 stores of every code; 3 pages (one past the end of memory), lists that overwrite themselves, end and run on; every kind of sector and an image that fails; `Timed`, which includes the untimed behaviours |
| `lockstep` | same instruction, same source read, same stack, same location counter and fetch | 4 control store words and 3 stack words, so that PC and pointer wrap; a counter of 8 in both modes; length unbounded. TLC's stream instructions have no dispatch that calls and no push with a POPJ: the theorem covers them |
| `file_rings` | a command is taken exactly while one waits and its answer has room; entries lie in main memory; the rings are queues; the head is answered | indexes of 8 values, rings of 1 and 2 entries and a size that is refused, bases on and off a line and at the end of memory: the indexes wrap under both rings, the rings differ in size, each fills |
| `bus` | MD has its own read, writes land before -MEMACK; a promise on the cable is kept, a finished cycle holds no refresh; one Unibus master; a checkpoint between any two steps resumes to the same machine; two machines never pass each other's promise, refuse a request, wait on each other, or read another word than in one process | one memory board, a Unibus device, an empty address; programs of two starts and uses of MD; instants in units of about 50 ns up to 45, past a timeout, its inhibit lifted and a refresh |
| `quux` | a fused return takes memory's word; a disk file cut anywhere opens again with every other block kept; an answer at the window is the request's own; the host's folders are kept, RENAME and if-exists error replace nothing | 8 words in 2 pages, one set of 2 lines, 1 transfer; 4 blocks in 2 VHD blocks, 3 jobs, 1 cut; `SeqCount` 3, 4 requests, 2 runs; 2 handles, 2 folders, files of up to 2 bytes, host calls that fail; handles and names symmetric |
| `desk` | what software holds down the keyboard has down; the pointer is where it was put, the halves of a clock are of one instant; a port brought up late is one brought up at every tick; a viewer shows the screen but for the rows an update of a part passed over; flag and sync read as the board's | six turns of a key, queues of 2 and 3; mouse counters of 2 bits, 3 moves against a queue of 2, so that one is dropped, 5 ticks; 2 calls of the software and 1 character of the terminal on the serial line, over 13 ticks where a frame is 6: sent characters end, in local loop back too, a second waits behind the first, and one received overruns another; the devices call and type in the first 2 of them; 1 viewer that comes and goes, that asks for the whole of a screen of 2 rows or for one of them, 2 stores; 3 stores into the display, programs that cross a frame |
| `gates` | marks cover what is out of date; the engine that does only what moved is where the one that does everything is; registers and counters act as one; the arithmetic is that of its definition; 2651s exchange characters whole; the generator's pulses keep apart; a checkpoint reads back or is refused | boards of every register, shift register and counter, and three whose far end answers over the cable, each run to time 18 with 1 poke or resume; words of 4 bytes of 1 bit; 2 characters each way; 2 cycles of the generator with 2 holds; files of up to 3 fields of bytes of 4 values |

Three of the runs check several parts at once. `Quux`, `Desk` and `MCGates` are
parts that share no state in the code, so their `Next` lets one part go on while
the others rest (`focus`, `onDesk`, `tried`): every behaviour of a part is there,
and the product of the parts, in which nothing new can happen, is not built.
`MCBus` has its one machine and its two machines side by side the same way
(`machines`).

Fairness is stated only where the code's scheduling gives it: the engines advance
their devices every microcycle (`Chaosnet`, `FileRings`, `DiskController`).
`HeadIsAnswered` asks besides that the driver goes on reading answers, without which the ring
stays full and the device rightly waits.

### What the repository's text says and the code does not do

Four runs each check one statement of the repository and find it violated; the
findings in `PROJECT.json` quote the lines.

* `file_left`: RENAME of a folder in which the machine has a write open. The
  write knows its temporary file by its old path: it cannot be landed, and
  neither CLOSE, a disable nor the end of the run removes it. `quux` is the same
  without such a RENAME (`MovesOpen`).
* `lashup_done`: the debuggee's run ends first; the debugger's next request takes
  back the promise `Done` had lifted, and neither end steps again.
* `gates_glitch`: two boards that answer each other. A wire is read while a gate
  that drives it is marked, as the level of the moment, and carried; the far
  end's stamp has it read again, but its drivers have moved meanwhile and are
  marked once more, it is found as it was given, nothing is driven, and the gate
  settles where it was and stamps nothing: at rest the far end keeps a level the
  board does not drive.
* `viewer_part`: an update of a part of the screen takes the whole frame into
  the viewer's copy, so a row that changed outside the part is not sent to an
  incremental request for the whole, until it changes again.

Seen with these modules, and not kept as runs:

* A Write All or Read All whose list never clears More is walked for ever inside
  the store; one the image refuses ends with no fault.
* A timeout is shown early, or again, when a seek is started while or after an
  operation hangs; the lossage goes with the unit selected, with no store into
  the command register.
* A dispatch with IR<24> in the microcycle a return armed steps `micro`'s
  location counter twice (`micro.rs:1668`, against the comment at :659) and
  `rtl`'s once; `micro` and `rtl` part outside each other rule of `Lockstep`.
  MD used in the microcycle after a start reads the word before the start's.
* A checkpoint between an interface's launch and the first edge loses the packet
  and its Transmit Done (`chaos/board.rs:839`), which is why `StartIsAnswered`
  speaks of the packets no checkpoint is still to interrupt. A frame can land with the buffer
  full, after a loop back that was switched off while its frame was clocked;
  Clear Transmitter does not withdraw a frame the cable is committed to.
* A disabled file device takes a ring size of up to 2^15 (`file_device.rs:1414`)
  and saves it in a checkpoint that `load` then refuses.
* QUUX: a map write right after a fetch's start leaves the prefetch filled from
  the old page, and a fused return takes the stale word (`memory_port.rs:316`;
  `docs/quux.md:1485`).
* A debugger's reset strobe that lifts within one microcycle, during a granted
  write, clears WRCYC before it is polled, so that -MEMACK loads MD. A start right
  after a start is one cycle on the CADR, and is held on QUUX.
* A key's release is dropped while a prefix stands and under a latched shifting
  key (`terminal/keyboard.rs:1328`, 1386): the software holds the key until it
  is pressed and released again. Only the words that do go are checked (`KeysKept`).
* A checkpoint taken with a key held resumes to software that holds it; the
  netlist board's cable word may replace one not yet read; a bell joins the outbox
  of a viewer that does not drain; a serial line hung up and taken again in one
  turn stays plugged.
* A gate with more unknown inputs than `MAX_UNKNOWN` answers unknown though a
  known one decides it; `set_state_bit` does not refresh `prev_nets`, nor do
  `set_cell_bit` and `load_rom` the generation.

The microcode the repository runs does none of the sequences that are the software's
to make.

## 4. The proofs

Eight modules hold theorems. Each theorem is for every value of the constants that
the named assumptions allow, and for behaviours of any length; the bounds of
the runs are constants too, so a theorem holds for all of them. Every
inductive invariant below was checked by TLC on an instance before it was proved.

**`ChaosnetProofs`**, from `AddressAssumption` and `BoundAssumption`: `TypeCorrect`,
`TheCableIsTold`, `NotTakenBelongs`, `TriesCorrect`, `BufferIsKept`, `LossIsCounted`
and the refinements `InboundOrder` and `OutboundOrder`. None of the invariants but the type
is inductive alone: that a retry goes back to the *front* of the order needs
the queues to be sorted and the frame on the cable to be older than all of them,
which needs the node to offer nothing while its run is on the cable, which needs
`run.from` to be right. That what is lost is counted
(`LossInv`) needs datagrams to be for this cable (`Accepts`), the frame's own note of
the receiver to be the run's between START^ and the destination word, and a Lost
Count of more than one value. `IndInv` is the conjunction (`CableInv`, `TriesInv`,
`LossInv`, `InboundInv`, `OutboundInv`); the proof has a lemma per action.

**`DiskProofs`**, from `GeometryAssumption` and `DiskAssumption`: `DiskTypes` (the
heads stay on the pack), `WalkStaysInStep` (the position after `moved` steps of
`next_block` is the block `moved` past the first, through track and cylinder
ends, by the arithmetic lemmas on `Lba`), `ReadOnlySafe` (strengthened with
`WriterMay`), `DaCorrect`, `TransferIsSafe` (every page a walk changes is noted, no
unsound sector moves), and `TimeoutCorrect`, for software that waits for
not-active before START (`Polite`; without it the code shows a timeout early, as
section 3 says). `HangInv` adds to the ghost of the last operation what the
controller keeps of it: active as long as its end is to come, and the timeout put
by exactly when it hangs.

**`LockstepProofs`**: `EnginesInStep` (`LockInv`) and from it `InstructionsAgree`,
`StacksAgree`, `StreamsAgree`, `ReadsAgree`, for every control store, stack and
counter of `AddrsAssumption`, `DepthAssumption`, `LcAssumption` and any
instructions, under all the rules of the microcode (`AllRules \subseteq Rules`): every
rule is needed, since the engines part outside each. What TLC compares is only
the outcome; the invariant says where each engine is in every microcycle. `micro`
is in one of five places relative to `rtl` (`Booting`; `Nopping` with it;
`Aligned`; `Behind`, a nopped microcycle of `rtl` to go; `Writing`, in a
control store write), the stacks are the same once each has landed the push it
owes (`Stacks`), a counter never written steps nothing (`Unset`). The lemmas give
the registers each call of `micro` leaves, put an instruction's calls together,
and match the result with `rtl`'s nets.

**`FileRingsProofs`**, from `IndexAssumption`, `SizeAssumption`, `EntriesAssumption`
and `MemoryAssumption`: `RingsHold` (`RingInv`, which is inductive: the types, the
head taken exactly when it can be, the indexes within the rings), `InMemory`, and
the refinement `RingsAreQueues`, which rests on two facts of arithmetic proved
from division with remainder: a slot goes on past the wrap of its index as if it
had not wrapped (`SlotRunsOn`, where the sizes must divide the width), and
entries nearer each other than a ring is long have different slots (`SlotsDiffer`).

**`QuuxProofs`**. `WindowSafe`, from `FabricAssumption`, for any number of requests
and of runs of muir: `FabInv` says that a request at the window is the one the
debugger waits for, and that muir's sequence number is ahead of the one the
adapter holds by the requests made since, which are fewer than `SeqCount`, so
that equal numbers mean equal requests; a run killed leaves the adapter holding
what a run started then finds. `StoreSafe` and `RenameSafe`, from
`StoreAssumption` and without a RENAME of a folder with a write open in it
(`MovesOpen = FALSE`: with it the property is false, which is `file_left`):
`StoreInv` ties each temporary file to the handle or to the step of the command
that holds it (`BusyOK`), a lemma per host call.

There too, from `PortAssumption` and `MicrocodeAssumption`, `PortSafe`: for any sizes of memory, page, line and cache, any delays, any reach of the
prefetch, and any transfers and resumes. That a fused return took memory's word
is not inductive: it says nothing of the word that stands ready. `PrefetchedIs`
does: unless a transfer is still to be seen (`dma`), the word is memory's at the
address the map gives, and no store on its way to memory is to it. For that a
fetch, from its start to its answer, has to be of the map as it stands
(`Fetching`), which is what the microcode's rules are for; `RulesLeft` keeps them
for what is left of the program, and `InCycle` keeps the processor's cycle and the
port's one. `BehindOK` orders the acknowledged writes, from which one at most is
outstanding at any time. `IsRecent` and `StampsOK` tie a set's order to when each
line was last read; a read stamps its line with a time later than every stamp.
A prefetch is fitted by making the port afresh, before the machine has run, when
it is still as it was made (`AsMade`). The
lemmas begin with pages (the next address is the next word of its page unless it
ends it) and with a set (`ReadIsRecent`); then there is one for each operation of
the port and one for each action.

Last, from `DiskImageAssumption` and `BlockDiskAssumption`, `BlockDiskSafe`: for any size of disk, file and memory, any jobs, and the file cut
between or inside any of its writes, any number of times. What a block reads back
is not inductive: it says nothing of where the block lies. `ImageOK` says that the
image stands in the file as its table says: each block named lies whole below the
end, and no two share a sector. `ReadsOK` says of every block what the file gives
(one of the contents the cuts so far allow) and what the run's own kept copy gives,
with the block that START is in the middle of writing read as some sectors of the
new and some of the old (`HalfOf`). `SavedOK` carries the same through a checkpoint;
`WalkOK`, `PagesOK`, `ReadStill` and `BusyOf` follow START's loop: what is still to be
written, the pages moved so far, and the time they take. The lemmas begin with the
file: a sector's write leaves the image standing (`SectorWritten`), so does any
prefix of one (`SectorCut`), and so does opening what a cut left (`OpenStands`);
then there is one per action.

**`BusProofs`**, from `BusintAssumption`, `MemoryAssumption` and `BusAssumption`
(delays are natural numbers, those divided by are not 0), for any programs,
debugger's scripts, boards and instants: `BusIsSafe` (`BusSafe`, inductive) and from
it `UnibusIsApart`, `TwinsAreSeen` and `CheckpointResumes`. One master on the Unibus
is not inductive alone. UBMAST is the processor's from SACK to the end of
its cycle (`Selected`); the debug master takes the bus between two edges only when
the processor's cycle ended under its SACK (`Taken`), which is when there is no
cycle (`Free`); and the look at an edge comes after -MEMRQ went up (`Timed`), so
that no edge finds the bus still to be taken. `TwinsSeen` says that the instant
put by so as not to look at the memory boards is never past a board's next
change. The lemmas follow the code: one per operation of the interface, then
one per operation of the machine.

**`ClockGenProofs`**, from `ClkAssumption`: `ClockIsKept`, for any number of cycles, any
time passed over at once, and inputs, resets, holds and an old file at any moment they
can come. That a cycle took every transition once as the next begins says
nothing of the middle of one, so `ClkInv` does: what is on the list is what the cycle has
to take and has not (`Listing`), each due when the tap says (`Due`) and the next start as
much later as the generator was held; what was taken came in order and none of it is
due later than now (`Taking`), which is why WP is never up before the read phase ends and
why a tap chosen twice finds its cycle's end on the list; the pulses that are up
are those between their two transitions (`Pulses`); and the phase last counted is the
time since the last start (`Counted`), so a start is counted exactly when the phase
falls, a cycle cut by RESET before any time passed included. The lemmas begin with the
list: a transition is scheduled in its place (`SchedulePlace`, `ScheduleIs`), the head is
the soonest (`TailIs`), and what a start and a tap leave on it (`StartedIs`, `RestIs`).

**`IoBoardProofs`**, from `IoBoardAssumption`: `PointerIsWherePut`, for counters and
a pointer queue of any size, any places and step times, however late the edges are
sampled, and the mouse plugged into either board or QUUX's register. The property
speaks of counters once the mouse has seen a place; `MotionIsKept` speaks of them always:
counters, motion left in the encoders and motion not delivered are together a whole
number of turns from how far the mouse has come (`Same`, `Come`), and the latch has the
lines of the phase the encoders are at, without which an edge would count from
a phase the mouse was never in. What many edges do in one look, and many pointers in one
poll, are recursive functions in the model; `Iterates` proves once that such a function
is there, by building it from a function of its steps, and `AllAlong` that what each
step keeps it keeps, both by the least number at which it fails. `SampleKeeps` is then that the board at
rest sampled as far as the time and no further, and `TakenAdds` that differences add up.

Only model-checked:

* everything under fairness (`StartIsAnswered`, `NodeDrains`, `TransferEnds`,
  `HeadIsAnswered`), which is out of the prover's reach;
* `CycleWhole`, `TimesKept` and `LashupKept`: each needs of the delays more than
  that they are numbers (a strobe no longer than its acknowledge, an answer
  sooner than a timeout), and two machines need the invariant of one;
* the desk but for the mouse and, of the gates' run, all but the clock generator: what
  they compare is computed by RECURSIVE operators and folds over data (a board's settling,
  the 2651's bits, a checkpoint's groups, the bits of a sum), which is induction over
  data, out of the prover's reach. `Chip`, `Checkpoint`, `Serial`, `Terminal` and `Tv`
  declare RECURSIVE operators; `KeysKept` rests on folds over the mapping's tables.

## 5. What is not modelled, and the plan

`PROJECT.json` lists every component with the reason. Not modelled at all: the
packet formats of the Chaosnet, the machine's state and memory map as such, the
engine interface, the netlists and wire lists (data), the far end of the flat
cables and the Xbus and Unibus harnesses of the netlist machine, the spy bus, the
glass TTY, fonts and monitor, the capture of signals, the command line, the
off-line tools for packs and bands, the netlist disk controller and the
benchmarks. Left out within the modelled ones: the arithmetic of turns and cells,
two boards on one cable and an interface without a cable; the ECC register, the
block counter and the Trident seen from its cable; the data path, OA registers
and run/step control of the engines; the file device's READ, probe, DIRECTORY,
COMPLETE and LOG, which change neither the host nor the handles, its buffers,
symbolic links and the lengths of its times.

Next, in order of importance:

1. Proofs: `CycleWhole` (MD's ghost and the write's landing beside `BusInv`), then
   `TimesKept`, and `LashupKept` from the invariant of one machine.
2. Models: the command line's loop with its thread and signals; the spy
   registers with run and step control; the label editor.
