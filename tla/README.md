# A verification development for ScrutinyLib

ScrutinyLib is a C library, with a small Linux kernel driver and a command line
over it, that finds Broadcom SAS expanders and PCIe switches and reads their
registers, logs, counters and firmware regions. A device is reached in one of
three ways: in-band through the SCSI generic nodes of Linux, over PCI through
the driver, or over the serial debug (SDB) console.

This directory holds TLA+ models of the parts of it whose correctness depends on
more than one step at a time, their TLC configurations, and proofs.

    tlc -config SerialBuffer.cfg SerialBuffer.tla
    tlc -config DeviceManager.cfg MCDeviceManager.tla
    tlc -config AladinCapture.cfg MCAladinCapture.tla
    tlc -config Eyes.cfg MCEyes.tla
    tlc -config LogCapture.cfg MCLogCapture.tla
    tlc -config LaneMargin.cfg MCLaneMargin.tla
    tlc -config HealthCheck.cfg MCHealthCheck.tla
    tlc -config LaneMarginGap.cfg MCLaneMargin.tla
    tlc -config TestProgram.cfg MCTestProgram.tla
    tlapm Serial_proofs.tla
    tlapm DeviceManager_proofs.tla
    tlapm Memory_proofs.tla
    tlapm AladinCapture_proofs.tla
    tlapm Eyes_proofs.tla
    tlapm Checks_proofs.tla
    tlapm LogCapture_proofs.tla
    tlapm TestProgram_proofs.tla

The configurations not named here go with the module of their own name.
`PROJECT.json` lists the components, runs, mutants, the source lines each
definition models, the hazards and the theorems.

## 1. Inventory

Paths are relative to `src/scrutiny_lib` unless they begin with another directory.

| component | state it keeps | operations | what is hard | what makes it correct |
|---|---|---|---|---|
| serial port `ial/com/linuxserial.c`, host buffer `osalserial.c` | descriptors and flock of the tty, a buffer with a count, a semaphore, a reader thread for every open | open, close, read, write, flush; the reader thread | two threads, an unlocked poll, descriptor numbers reused by the kernel, a thread nobody joins | a first-in first-out channel; one session at a time; a closed port is left alone |
| SDB console `ial/sdb/sdbconsole.c` | the last address read (static), the device's copy of the port handle | connect, memory read and write of 8, 16 and 32 bits | lost and late bytes, retries, a command that depends on the console's memory | a successful read returns the word of its address |
| life cycle and device list `libinternal.c`, `libdevmgr.c`, `scrutinylib.c` | the manager, the list, the discovery parameters, the flags | initialise, exit, discover, count, information, handle lookup | orders of calls, what a discovery leaves behind for the next | fresh list at each discovery, handles name their devices, everything is released |
| SCSI generic devices `ial/sg/sglinux.c` | a descriptor in each device record | scan, qualify, open, pass-through with retries, close | partial failures, a descriptor owned by two pieces of code | commands reach their node, no descriptor lost or closed twice |
| qualification `hal/expander/expdevmgr.c`, `cobra.c`, `hal/switch/switchdevmgr.c`, `atlas.c` | identity fields of the device record | recognise the family, read the address and the versions | ignored failures | each enclosure once |
| SCSI commands `hal/scsi/brcmscsisdk.c` | none | memory access, buffer regions, configuration pages | chunk arithmetic, one chunk of several failing | whole region or an error |
| PCI scan and driver interface `ial/pci` | the driver's descriptor, BAR sizes | scan of the buses, BAR sizing, configuration cycles | sizing writes and restores a live register | BARs restored |
| switch registers over PCI `hal/switch/atlaspci.c` | a shared window in the switch | chime-to-AXI read and write | busy polling, fallbacks, the window shared with other hosts | the value belongs to the address |
| driver `scrutiny_drv/sdrv/linux/SliffDriver.c` | the ECAM probe state, mapped windows, allocated memory | probe, register access, ioctl, allocate, free | several opens at a time, partial initialisation | probe once, a mapping freed once |
| switch link training `switchltssm.c` | the recorder in the switch | start, poll, read | polling bounds | entries in order |
| switch diagnostics `switchaladin.c`, `switchsignalintegrity.c`, `switchlanemargin.c`, `switchregbla.c` | capture engines in the switch, registers that select what others show | configure, arm, poll, upload; save, select, sample, restore | order of register writes, timeouts, a failure between taking over and giving back | capture read after it ended, what is shown is what was selected, settings given back |
| switch counters `switchportcounters.c`, `switchportperformance.c`, `switchportproperties.c` | counters in the switch, a read pointer in each station, the read-out before | start, read, stop; read properties and errors | a counter's place depends on how often its station was read, wrap-around, traffic during a read-out | statistics are what was carried between two read-outs |
| switch health and core dump `switchhealthmon.c`, `switchcoredump.c` | static limits of the last ini file | collect, compare, dump, write a baseline; upload | limits left over from another check, a failing access, a file the user edits | a bit reported per limit of the file exceeded |
| expander trace, logs, core dump, health `exptrace.c`, `exphealthlogs.c`, `expcoredump.c`, `exphealthmon.c` | upload buffers and files | upload loops | chunk arithmetic, error paths that leak | the file is the region |
| expander command line and phys `expcli.c`, `expphy.c`, `expphyenable.c`, `margay.c` | a mailbox in the expander | exchange a command and its output, change phys | polling, read-modify-write | the output belongs to the command |
| temperature `brcmscsigettemperature.c` | none | find the sensor in the configuration page, read it from the status page | two pages that are counted differently | the first sensor's value |
| configuration `libconfigini.c` | a dictionary for each file, an ini file for each family | read, parse, look up, write | sections and keys out of order, twice or unknown | what the file says last holds |
| operating system `libosal.c`, logging `libdebug.c` | loggers | wrap the C library, log | failures that go unreported | a file reported as written is whole |
| test program `scrutiny_libtest/scrutinyTest.c` | the selected device, the options of the command | parse a line or ask in a menu, then a sequence of API calls | options in any order and number, units of memory accesses, failures half way | the request is what was given, the device changes as asked |

Interactions. Discovery (`slibiDiscoverDevices`) frees the devices of the last
discovery and then either connects the console (`sdbiConnectSdb`: open the port,
check the console, copy the handle into a device record, qualify it, add it) or
scans PCI and the SCSI generic nodes. A scanned node is opened, qualified by
register reads that are pass-through commands on the same node, and added to
the list unless it is a duplicate. An API call turns its handle into a device
and ends in `bsdiMemoryRead32` and its relatives, which go to the console, to
the SCSI pass-through or to PCI according to the handle type of the device. The
test program makes one or a few such calls for each command, and the diagnostic
calls of a switch are long sequences of them on registers that several commands and
both recorders of a station share. The reader thread and the application thread share the host buffer; everything
else runs in the application's thread.

## 2. The modules

| module | models | extends or uses |
|---|---|---|
| `SerialChannel` | the promise of the serial layer: a reliable byte channel with a consumer that reads or drops prefixes | |
| `SerialBuffer` | one open port: reader thread, application thread, buffer, semaphore | refines `SerialChannel` |
| `SerialSessions` | opening and closing the port several times: descriptors, flock, handles and their copies, a reader thread each | |
| `Serial_proofs` | theorems about `SerialBuffer` and `SerialSessions` | both |
| `SdbConsole` | console commands over such a channel | |
| `DeviceManager`, `MCDeviceManager` | library life cycle, device list, SCSI generic nodes | |
| `DeviceManager_proofs` | theorems about `DeviceManager` | `DeviceManager` |
| `AtlasWindow` | register access to a PCI switch through its window | |
| `Memory_proofs` | theorems about `AtlasWindow` and `SdbConsole`, the two ways to a device's memory that have a state of their own | both |
| `AladinCapture`, `MCAladinCapture` | the capture recorders of a switch and the two parts of the library that share them | |
| `AladinCapture_proofs` | theorems about `AladinCapture` | `AladinCapture` |
| `SoftwareEye` | the sweep of the software eye over the lanes of a switch | |
| `HardwareEye` | a hardware eye command: start, polls, read-out, clean-up | |
| `MCEyes` | either of the two, for their common run | both |
| `Eyes_proofs` | theorems about `SoftwareEye` and `HardwareEye` | both |
| `LogCapture`, `MCLogCapture` | the logs, core dump, trace and command line output of expanders and switches, from the device to the files | |
| `LogCapture_proofs` | theorems about `LogCapture` | `LogCapture` |
| `LaneMargin`, `MCLaneMargin` | lane margining at the receivers of a switch port | |
| `HealthCheck`, `MCHealthCheck` | the health checks of switches and expanders with their ini files | |
| `Checks_proofs` | theorems about `LaneMargin` and `HealthCheck` | both |
| `PortPerformance` | the performance monitor of a switch | |
| `DeviceStatus` | the equalizer and coefficient read-outs and the temperature | extends `PortPerformance` |
| `TestProgram`, `MCTestProgram` | the test program: command lines, menu, requests, library calls, device memory | extends `DeviceStatus` |
| `TestProgram_proofs` | theorems about `PortPerformance` and the devices under `TestProgram` | `TestProgram` |

### SerialBuffer

Every access to shared memory is a step. `rpc` is where the reader thread is in
`spReadThread`, `spReadData`, `wsbiAddData` and the lock calls; `apc` where the
application is in `wsbiGetData` or `wsbiFlush`. `data` is `PtrBuffer` (the null
pointer is the empty sequence), `bytesUnRead` is `BytesUnRead`, and the two are
assigned in different steps as in the code. The poll of `wsbiGetData` is three
steps without the semaphore (`PollEnough`, `PollSame` or `PollDiffers`,
`PollRemember`). A byte is the number of its transmission, so that the stream is
right exactly if the bytes that left are 1, 2, 3 and so on.

The refinement of `SerialChannel` maps `pending` to what the application has not
copied out, what the reader thread holds and what the tty queues, in this order.

### SerialSessions

A session is a successful `open` of the tty: its two descriptors, the handle the
reader thread keeps for good, and the copy a connected device has of it. The
kernel gives out the lowest free number, so numbers are reused; the application
opens other files, another process takes the flock. `spiClosePort` is two steps,
the closes and the reset of the handle it was given: the thread's own after a
failed console check, the device's copy otherwise. `pthread_create` may fail.

### SdbConsole

One action per step of a call: the flush that begins an attempt, the write of
the command, the read of the answer, the read of the prompt; a block read goes
on to the next word. A connection resets the remembered address, flushes, writes a
carriage return (`Wake`, which may fail) and flushes again. The commands `G`, `n`, `P` are records and an answer is the
bytes of a word. The console is external: it answers `G` with the word it
names, `n` with the word after the one it remembers. The line may lose a
command, lose the end of an answer, deliver after the silence the library waits
for (`late`), and the port may refuse a write.

### DeviceManager

`lib`, `list`, `params` are the manager, `PtrDeviceList` and
`PtrDiscoveryParams`; `record` and `handle` are the locals of the scan; `io` is
the pass-through in progress with its `retryCount`. `fdTable` gives each
descriptor number what it refers to, so that the life of the number stored in
the device record is visible. An application thread follows the code from
`sgLinuxCheckDevice` through `edmiIsBroadcomExpander`, `sdmiIsBroadcomSwitch`,
the address read and `ldmiAddScrutinyDevice` back to the directory loop. What a
null pointer or an index beyond the list leads to is a state nothing follows.

### AtlasWindow

`fsm`, `ready`, `wAddress`, `wData` are the window as the library uses it: bits 2
and 3 of the control and status register, the address and the data register.
Every access to the switch is a step, so the engine (`EngineCompletes`) and the loss of
the link (`Vanish`) come between any two. `pc` follows
`atlasFSMBusyClearCheck`, `atlasiPciChimeToAxiReadRegister` or its sibling for
writes, and the fallbacks; a read of several words is the loop of
`bsdiMemoryRead32`. Registers are named by number and divided into those the
fallback maps, those it skips and the rest. `expected` and `overtaken` are
history: what the successful writes left in each register, and that a fallback
access went ahead of a write to the same register that the engine still had. The
window has one client; nothing in the library keeps a second process or host off
it, and with one no statement about data would hold.

### AladinCapture

`rec` is the recorder of each station (running, triggered, its multiplexer, its RAM
with the write pointer and the wrap), `log` the history of what it wrote, `config`
the station in the global configuration of `switchaladin.c`, `call` the command in
progress and `file` what the last read-out left. The recorder moves between any two
register accesses. A trace (`-ltssmtrace`: `sltLtssmSetup`, the polls of the test
program, `sltStopAndGetLtssm`) and a dump of the Aladin menu share `OpenFile` to
`PrintLines`; where they differ (a dump neither stops the recorder nor looks at a
status) the action says so. Link states are the trigger and any other; the text of
a line is left out. A configuration that fails leaves the station `Nowhere`.

### SoftwareEye

A lane (`hw`) has its offset, its phase, its polarity bits, the request, the sample
counter, and `taken`, the registers that hold what the library wrote and not what they
held before. `SetUp` lists the thirteen registers that `ssiSoftEyeSerdesInit` writes, in
its order; of four of them (`Borrowed`) the old value is kept in `saved` and given back,
the others are overwritten for good. A set-up may fail after any of the registers and a
restore at any of its steps (`HalfBack`). `at` is the place in `ssiSoftwareEyeWithBuf`: the
loops over the active lanes are the index `at.i`, the sweep is `at.v`, `at.lohi` and
`at.phase`. `phase` is `CurrentPhase`, from which the library moves by steps of one; a
move that fails may stop anywhere on the way. What a cell of the grid holds is the point
the hardware really was at. `found` and `astray` are history: the lanes as the call found
them, and those whose phase stopped on its way from the centre.

### HardwareEye

One action per lane and call: `Look` and `Start` are the two loops of
`ssiHardwareEyeStart`, then `Poll`, `Get` and `Clean`; the statuses are ignored as
`scrtnySwitchHwEye` ignores them. An eye is the number of the command whose reset
began its measurement, so that an earlier one is told from the command's own.

### LogCapture

`store` is what the devices keep of each log, as pieces (statements, entries,
sections, lines); `saved` what the file or the caller's buffer got, `outcome` the
status of each log. `Recipe` lists what the function that fetches a log does, in its
order, and the step actions (`Open`, `AskSize`, `Upload` and so on) carry it out; an
upload is a loop of chunks, and any access may fail (`Break`). A capture goes over the
devices (`NextDevice`) and their logs (`NextLog`), a single log goes to a buffer with
room for some pieces and is asked for again with the size that was told (`AskAgain`),
while a trace may grow. The firmware's side is external.

### LaneMargin

A lane (`hw`) has the command last written to it, the command it answers and the
answer's code, and whether its sampler is moved; `link` holds the three settings that a
call takes over and gives back. The lane answers asynchronously (`Answer`), so a read
may find the answer to the command before; that and failing accesses are the faults.
`at` is the place in the call: `Look`, `Change` of the settings, the loop over the
bitmap (`NextLane`), the write and read of each command and of the `NoCommand` after
it, `GiveBack`. What follows an answered command is `Answered`, what follows any other
`NotAnswered`. `truth` counts the steps that really passed.

### HealthCheck

One process checks devices one after the other; between the checks a user may put
another ini file in place. `ini` is the file of each family, a sequence of headers,
entries and other lines that is parsed as the code parses it; `ref` is the static
`gSwhHealthConfigData` or `gExpHealthConfigData`, which outlives a check; `got` is what
the device told in this one, `errors` the bits the caller gets, `dumped` the text of a
dump and `baseline` whether it goes to the ini file. A check reads the file, the
device's own items, then port by port (`idx`, `listed`), each an access that may fail.
Items that the code compares in the same way stand for each other: a count for all
error counters, `max` for what must be equal, `negotiated` for what must be equal while
the link is up, and a mask is a set of bits. The expander's check starts with whatever
is on its stack (`StackValues`).

### PortPerformance

`monitor` is what is at work in the switch, started and stopped station by station and
port by port. A station has one register for all its counters: a read hands out the
counter at its `pointer` and moves on, so what a read means depends on the reads before.
`count` are the counters, modulo `CounterMod`; `Carry` lets a port carry a packet
between any two accesses. `data` are the two read-outs and the statistics made of their
differences; `carried` and `mark` remember what was really carried. Rates and link
utilisation, which divide by a time, are left out.

### DeviceStatus

The read-outs of the receiver's equalizers and the transmitter's coefficients are plans
of accesses: save a register, select an item with it, sample another, restore. What is
sampled is told by what the register holds, which is one per station for the
coefficients and the LTSSM probe, one per lane for the equalizers. The temperature
counts the elements of the configuration page and takes the reading from the status
page, where each group has an overall element in front.

### TestProgram

A run of the program: a command line or the menu, the parser of each command with its
guards and without the ones it lacks, the request, then the plan of library calls
(`plan`, `step`), each going on or giving up by what the one before answered, and the
prompt of the menu again. Device memory is kept in bytes and read and written in each
unit the program has, and a length of 0 fails but over SCSI; a value equal to
`INVALID_PARAMETER` counts as not given; an uninitialised variable holds any of `StackValues`, and memory
never written `HeapByte`. The calls of `DeviceStatus` and `PortPerformance` are carried
out on the switch; the others, modelled in modules of their own, succeed, fail, find
the buffer too small or see what was polled for. `before` and `broken` remember what
the devices were and whether a call failed.

## 3. The runs

Every run is described in `PROJECT.json`; here is what they show together.

**`buffer`** (4 bytes, 3 calls of read 1, read 3 or flush, a poll limit of 2;
37,630 states). Four bytes let two arrive before and two during a call; reads
of one and three bytes end in the partial copy, the exact copy and the short
read. A larger poll limit adds only more rounds of the same three steps, and the
proofs hold for every limit. Checked: the integrity of the stream, that a short
read follows silence, the refinement of the channel, and that bytes that arrive are
read in the end. Mutual exclusion, the agreement of the buffer with its count and the
count under a poll are proved and not run.

**`sessions`** (two sessions, four descriptor numbers, two bytes; 785,901
states). Two sessions are one closed and one current, and four numbers let the
second session get the first one's numbers, its own, or one of each. Checked: the
lock is held by the session in use, closes hit their own descriptors, no bytes of
an earlier session, threads of closed ports end.

**`console`** (a block of two neighbouring words, three calls, two attempts, two
faults of any kind; 321,958 states). Two attempts and two faults let a call
recover once and fail once; two neighbours make the short command appear inside a
block, between calls and after a failure. `ReadsRight` names the only things that
upset the library: an answer later than the silence, a 16-bit read, and a short
command sent while the console remembers another address. Every call returns.

**`manager`** (two nodes, three enclosures of which every two agree in all but one
part of their identity, four sets of bounds; 808,713 states). The sets of bounds
are a scan that a move or a failure disturbs, commands that use up their
attempts, two discoveries with a call and a file of the application, and an
enclosure replaced around a call. Two nodes suffice for everything that is about
pairs: a duplicate and the order of the directory.

**`window`** (three registers, one of each kind, two values, two polls of the busy
bit and three of the ready bit, four calls; 139,628 states). The code polls 10 and
100 times: the engine may finish between any two polls, so a larger number adds
only rounds of the same step, and the proofs hold for every number. Three registers
let a read span all kinds; four calls are a write that is left with the engine, one
that goes round it, and two more. Checked: words read and writes reported as done
are right, the window is not touched under the engine. The two data properties
except a lost link and an overtaken write. The exception is reachable: ten polls
after a posted write the library goes round the window, and the older write lands
on top of the newer one.

**`capture`** (two stations of two ports, a RAM of two records; 610,696 states). Two
records are the least that wrap, and four records wrap twice round; the bounds are
three commands in a row, two with a failing access, one with a long capture, and
every pair of probe modules. Checked: a file holds the newest records in order,
each with its whole time, and fillers after them; a trace never takes a running
recorder; both buses show their modules.

**`eyes`** (1,668,780 states) has behaviours of software eyes and behaviours of hardware
eyes; what a command of one kind leaves in a lane for one of the other is not modelled.

The software eyes: two lanes, three offsets by three phases, two calls, a failing access.
The code sweeps 127 by 42; three by three has the centre, both signs and both edges. Two
lanes are one that is done before the other, and any set of them may be active. Checked:
cells are in their place, and a call that returns success has released its lanes.
Released is not "as they were": the offset is zero, the request and the counter are off
and the four borrowed registers are what they were, but the other registers keep what
the library wrote, for the code saves none of them. The phase of a lane that stopped on
its way from the centre is left out. "move phase back to center" says the restore
(`switchsignalintegrity.c:2140`), but it walks from `CurrentPhase`, which is set only when
a move has ended: after a walk from the centre that breaks off midway it is still 0, the
restore takes no step, and its success becomes the call's.

The hardware eyes: two lanes, two polls, three commands, two failing accesses. Two
failures in three commands are a clean-up that fails and a start or poll that fails after
it. Checked: a command shows only its own eyes and leaves no lane measuring unless its
clean-up failed.

**`logs`** (an expander in-band, a switch and an expander on the console; regions of
three pieces moved in chunks of two, one piece of spare room, two calls, two faults;
542,209 states). Three pieces are a whole chunk and a part; two calls show what an
erase that broke off leaves for the next. Checked: a successful log without a lost
write is whole, a log that fails keeps no other from being saved, a buffer of the size
that was told suffices.

**`margin`** (a link of two lanes, the first with time margining in both directions,
the second with voltage margining, two steps, two calls, one fault or late answer, the
bitmaps of lane 0, of lanes 0 to 2, the last beyond the link, and of lane 1 alone; 492,348 states).
Checked: the settings a call changes are put back, lanes go back to normal unless an
access failed, a reported step is one the receiver really passed unless an answer came
late, calls for lanes without a gap return.

**`margin_gap`** (the same link, one call for the second lane only, no fault) expects
`AskedLanesAnswered` to be violated. The bitmap "indicates which lane in the port need to
perform lane margining" (`scrutinydef.h:1560`), any of them, but the number of the lane
moves on only behind a lane of the bitmap (`switchlanemargin.c:1811`): from a lane left out
below one asked for the loop never moves, and the link stays as the call set it up.
`CallsReturn` promises an end only for the bitmaps without such a gap (`LeavesNoGap`).

**`health`** (a switch in each mode and an expander, four ports of which one is a
management port and one has a clock, two checks, one failing access, six ini files of
the user; 455,317 states). Two checks are the least in which the static limits of one
meet the other, or a check meets the baseline written by the one before; the six files
have every section, entries twice, a broken header, unknown and unprintable lines, and
a range that runs backwards. Checked: the bits reported are those of the limits the
file sets and the readings reach, a dump says what was read of the ports it comes to, a
user's file is never changed.

`DumpReadsBack` speaks only of ports up to the stored number of ports. The walk over the
ports that were read ends at the first above it (`switchhealthmon.c:973`), and base mode
never sets it: all ports but port 0 are dumped as zeros, and none but port 0 is compared,
although "when=TRUE mean the related read back status valve dump to a file"
(`scrutinylib.c:2249`). In the other mode only management ports lie above it.

**`program`** (a switch over PCI, over SCSI and at the console and an expander, every
command line of `MCLines`, two commands from the menu; 401,787 states). The sizes are
scaled: 16 bytes of memory, a READ BUFFER command that can say 8 for 2^16, counters of
32 for 2^32, two stations of two ports with a management port, two packets during a
command, one failing access. The performance monitor is driven from command lines of
two of the switches only, as each such run is long and nothing else happens in it.
Checked: a request is what was given and a line is refused otherwise, devices change
and values are shown as asked, statistics are what was carried between the read-outs.

The terminal states of all runs but `buffer`, `sessions` and `window` are used-up
bounds, the end of the program, and the states after a null pointer was followed or an
array left, so deadlock is not checked there.

The models follow the code where it deviates from its own comments or from what one
would expect. The loop that never ends has a run of its own, `margin_gap`, and is listed as a
finding; for the others the properties name the exceptions that they make necessary.

Serial port, console and discovery:

- `sdbiCheckConsole` flushes the host buffer only (`sdbconsole.c:420` "Flush the
  existing values."), not the tty queue or the reader's hands;
- `sdbiMemoryRead16` compares the received count with 1 after two bytes were asked
  for, so every 16-bit read uses up its attempts and fails (`sdbconsole.c:585`);
- address 0 is both "none" and an address, so address 4 is asked for with `n` out of
  the blue (`sdbconsole.c:641`);
- a discovery that found nothing leaves its parameters in force for the next one
  (`libdevmgr.c:85`);
- `wsbiGetData` reports success after a timeout without a byte although
  `osalserial.c:217-219` announces an error;
- `ScrutinyGetDeviceInfo` lets the index one past the end through
  (`scrutinylib.c:232`), `ScrutinyExit` without a library and a serial discovery
  without parameters follow a null pointer, and the driver node is opened again at
  each discovery;
- the reader thread of a closed port goes on with a reused descriptor number
  (`linuxserial.c:270-271`, 296), and the first descriptor of each scanned device was
  overwritten and stays open (`libdevmgr.c:91`, `sglinux.c:339`);
- a retried `n` returns another address's word with success (`sdbconsole.c:617-619`).

Diagnostics of a switch:

- a dump that begins with a continuation leaves an empty file, still open, and
  succeeds (`switchaladin.c:2541`); a failed configuration takes the recorder out of
  the menu's reach (`switchaladin.c:118`);
- the software eye returns without giving any lane back when a set-up fails or the
  polarity cannot be set (`switchsignalintegrity.c:1724`, 1951); nine of the registers it
  sets up are overwritten before anything is saved of them: E00 is left at a constant, E70
  gets back the value it had after the first write to it, and the rest nothing; the restore overwrites the status of
  a time-out or of a failed access, which becomes a success without a file
  (`switchsignalintegrity.c:1615`, 2133);
- a step of lane margining that is answered late reads the answer to the command
  before, whose bits look like a pass (`switchlanemargin.c:1250`); a read of all ones
  is a success with step 0 (1231-1236); the early returns skip the way back to normal
  (1220-1263); the error limit is set at receiver 6 whichever is asked for (1045); 0
  steps are not "the device defined" ones of `scrutinydef.h:1562-1563` but none;
- an access that fails in the equalizer or coefficient read-out leaves the selection in
  the register, and the registers that the coefficients use belong to the whole station;
- a failing poll of a link training trace leaves the recorder running.

Logs and dumps:

- the count `fwrite` returns is dropped (`libosal.c:2187`), so a log that did not fit
  on the disk is reported as saved, although the comment says "STATUS_SUCCESS if the
  file has been written" (2172-2173);
- `sosiMkDir` asks for two values of `errno` at once (`libosal.c:2523-2563`), so a
  folder that cannot be made goes unnoticed and `ScrutinyOneTimeCaptureLogs`, which
  also ignores the status of each log (`scrutinylib.c:363`), succeeds with nothing
  saved; devices whose SAS address is 0 share a folder;
- the raw core dump never tells the size it needs (`expcoredump.c:1906-1910`) and a
  folder or file that cannot be made leaks its buffer; command line output is cut off
  with success and its sequence number is never looked at (`expcli.c:374-391`); the raw
  health log over the console takes the header of the flash for an entry
  (`exphealthlogs.c:690-710`), and the formatter goes one entry past the end
  (`exphealthlogs.c:761`).

Health checks:

- an enable register that cannot be read counts as a disabled port
  (`switchportcounters.c:242`);
- the base mode never stores the number of ports, so none of its ports but port 0 is
  compared;
- the expander's bits of its own and the phys beyond its total come from an
  uninitialised stack; an ini file that is missing becomes a *directory*
  (`exphealthmon.c:986`);
- the switch uses the bounds of the expander's keys, so an unknown key is never
  rejected (`switchhealthmon.c:472`, 585); the entries under a malformed header join
  the section before; port numbers are not compared with the size of the array, and
  files with larger ones are not among the inputs;
- the walk over the ports repeats a port that fails, and one of width 0, for ever
  (`switchportproperties.c:135-138`, 155-162); the error counters compare the chip id
  in binary where the others read it as decimal digits (`switchportcounters.c:479`);
- counts and the temperature of a switch are reported at their limit, the temperature
  of an expander beyond it (`switchhealthmon.c:1110`, `exphealthmon.c:1355`), so a
  baseline just recorded is over its own limits even where nothing was counted
  (1249-1281);
- the test program prints four words of which the library writes only the first.

Performance monitor and test program:

- a counter that comes round twice between two read-outs shows no trace of it; that
  takes 2^33 dwords, about a second on a wide and fast link, and the interval is the
  user's;
- a read-out that fails, asks for no time, or finds a link of an unknown generation
  leaves the monitor running; the RAM enable and bit 21 of 0xF30 stay after the stop;
  the read-out overwrites 0x3F0 without the bits that the start set;
- `-size` after `-val` writes beyond the buffer, `memwrite` without `-val` uses an
  uninitialised pointer, some parsers read past the last word, and options that were
  not given are used uninitialised;
- a length beyond 16 bits is cut off in the SCSI command; a 16-bit read at the console
  never succeeds;
- a group without elements makes the temperature the one of the group behind it.

### Fairness

Four modules state fairness; it does not change what is reachable. `SerialBuffer`:
weak fairness of the reader thread and of a call in progress, which is what a
scheduler gives two runnable threads; nothing makes the device transmit or the
application call. `SerialSessions`: weak fairness of each reader thread. `SdbConsole`:
a call in progress goes on, and the console and the line handle what is queued; faults
are not fair. `LaneMargin`: the program goes on and each lane answers in the end,
though perhaps after it was read. The other runs are about safety only: their calls are
sequences whose loops the models bound as the code does, and the loops that the code
does not bound are among the deviations above.

## 4. What is proved

`Serial_proofs` proves of `SerialBuffer`, for every number of bytes, every set of read sizes
and every poll limit: type correctness, mutual exclusion, that the count is the
buffer's length whenever the semaphore is free, that the stream is intact, that a
short read follows a full run of silent polls, that the count never drops under a
poll, and that the port implements `SerialChannel`. The only assumption is
`BufferAssumption`, on the constants.

The stream and the count are not inductive alone: between the two assignments of
`wsbiAddData` the buffer is longer than its count, between those of `wsbiGetData`
shorter. `BufferShape` says what the difference is at each control point, and
`IInv` is the conjunction with the types, the critical sections and the stream.
The proof of the stream classifies every step: it leaves the stream as it is, it
adds the next byte, or it moves a prefix of what is pending to what was taken
(`StreamMoves`); the preservation of the stream and the refinement both follow
from that. The short read needs one more invariant, `PollShape`: what the poll saw
can only have grown.

`Memory_proofs` proves of `AtlasWindow`, for every set of registers, values and numbers of
retries: type correctness, `WindowReadsRight`, `WritesLand` and `WindowUndisturbed`, from
`WindowAssumption` alone. The data properties need `WindowShape`, which says that the
engine is idle from the busy check to the command and that the ready bit is clear and
the address and data registers are the call's own after the step that writes them;
`CallShape`, which says which register a word belongs to; and `WordsSettled`, that no
word already delivered is about to be changed by a posted write.

`Serial_proofs` also proves of `SerialSessions`, for every number of sessions, descriptors and bytes,
that the session in use holds the lock, that closes hit their own descriptors and that
a session reads no byte of an earlier one. The invariant says of each descriptor in
the kernel's table which session it belongs to (`Own`), which session was begun and is
the latest (`Begun`, `Latest`), that the flock is with it (`Held`), and that the bytes
in the buffer are of the session that counts (`Bytes`).

`Eyes_proofs` proves of `HardwareEye`, for every set of lanes, number of polls and number of
commands, that a command shows only eyes it measured itself and leaves no lane
measuring unless its clean-up failed. The invariant says which lanes may be active at
each step (`Restless`), that the eye of an active lane was begun by the command in
progress (`Measured`), and that the failures counted are the failures met (`Counted`).

Of `SoftwareEye` it proves, for every set of lanes, every grid and every number of
samples, calls and faults, that a cell of a file was measured at its own offset, phase
and polarity (`CellsAreInPlace`), and that a call that returns success has released all of
its lanes, the borrowed registers as they were, whatever access failed and whichever lane
timed out, while no call touches a lane whose link is down (`LanesAreGivenBack`). Only the
phase of a lane that stopped on its way from the centre is left out. The invariant says,
for each stage of the sweep and each side of the lane whose turn it is, which of offset,
polarity and phase are the point's own (`Placed`), that the cells of the points behind the
call hold those points (`Filled`, `Behind`), and whether a lane is as the call found it,
held or given back (`Known`). `Held` says that what the borrowed registers held is kept,
that all registers are set up, and that a lane believed in the centre is there unless it
went astray: that is what makes a restore that takes no step right. `EyeAssumption` has
`Left > 0`, -20 in the code: `Placed` says that a lane still to be moved to the first
column is not believed to be there already, so that the move writes its phase.

`Checks_proofs` proves of `LaneMargin`, for every width, request, number of steps, calls and
faults, that after every call, wherever it gave up, a setting of the link differs from
what it was only if an access to it failed (`SettingsAreRestored`), and a lane is moved
only if it broke off among its steps or its way back was not answered
(`LanesAreNormal`). The invariant says where a call can be with which lane
(`Whereabouts`), which of the three settings are still to be given back at each place
(`Given`), and which lanes may be moved (`Found`). `StepsAreMeasured` says that a step in
the answer is the last one that passed of its own lane and direction, unless an answer to
a step was late or all ones. It needs a second invariant, `MInv`, kept by every step from
a state with the first: the slot of the lane at hand is the number of lanes asked for
below it (`Packed`), so no two lanes share one; slots and directions that are to come are
untouched (`ToCome`, `ToDo`), which rests on a lane naming each direction at most once
(`DirectionsOnce`); the steps that passed are those the call has counted, one more between
the answer and the increment (`Counted`); and no answer to a step is there before the step
was sent (`Quiet`), because NoCommand was answered before.

Of `HealthCheck` it proves, for every ini file and every order of checks and edits, that
while a check is at work its limits are what loading the present file of its family gives
(`LimitsAreOfThisFile`), though the reference is static and outlives the check before it;
and that no check changes an ini file that is there (`UserFilesAreKept`). The second rests
on the first: a baseline goes to the ini file only if loading found none, the loading of an
expander never comes to that, and nothing but the end of the check writes in between. What
the loading makes of the lines of a file is left to TLC (`VerdictMatchesFile`).

`AladinCapture_proofs` proves, for every number of ports and entries, every size of the
RAM and every number of records, polls and failing accesses, that the lines of a trace
are the newest records of the capture (`LinesAreCapture`), that each bus shows the
module it was given whatever the other shows (`BusesAreApart`), and that a trace leaves
a running recorder alone (`RunningIsSpared`). The lines are a statement about the end of
a call, and what makes it inductive is a relation at every stage between three things:
the log of what a recorder wrote, its RAM and the entries read so far. `RamHoldsLog`
ties the first two: before the wrap the RAM up to the pointer is the log, after it the
RAM read from the pointer round to the pointer is the end of the log. `ReadsRam` ties
the entries to the RAM: as long as no access failed, the cell in hand is as many cells
from the first as were read, and the entries show the records of those cells (`Shows`:
each value with its port and state, lasting one for itself and one for each
continuation, or `Full`). The recorder must not move meanwhile: `StandsStill` says from
which stage on it is stopped, and `Paths` that nothing but the call in progress starts it
again. `LogsGrammatical` (a value follows a full counter) and `TraceOfPort` (a capture
started for a port holds nothing else) carry what the lines say of ports. From
`CaptureAssumption` the proof needs that the time of a value with a full counter is not
less than the number of records in the RAM; in the code they are 2^32 and 2048.

`LogCapture_proofs` proves, for every list of devices, every size of the regions and of
the transfers and any number of calls and failing accesses, that a log reported a success
was saved whole (`SavedIsWhole`), that a log, a device or a folder that fails keeps no
other log from being tried (`FailuresApart`), and that the size a call names is enough
for the next one unless the trace outgrew it (`SizesSuffice`). The invariant follows a
log from the device to the file. `StoreOK` says what a device keeps: the blank pieces
come last, and an erase takes the first piece of a dump first, which is why a dump that
an erase broke off in is never taken for a valid one. `Course` says which steps can be
left of the function that fetches the log (`Stages`), and `Working` what is in the
buffer and in the file at each of them: a beginning of the log as long as the upload
runs, all of it from then on, and a file that is empty from its opening to its write.
What the decoding makes of the buffer is then the log without its blank pieces, whatever
the firmware's header and the entry looked at past the end bring (`TextsFit`), and two
readings of a health log differ by one entry at most (`TextsDiffer`). `Capturing` says
that the logs still to be taken are among those asked for, each once, and that all the
others were tried. `Told` keeps, from the answer "too small" to the end of the second
call, that the size is enough for anything that can be made of the log, or, for a trace,
for what it was when it was measured. For the entry past the end of a health log read
from the memory this needs that `SCRUTINY_LIB_EXTRA_BUFFER_SIZE`, 1024, holds the text of
one entry, 648 characters at most: `LogAssumption` has `Extra > 0`.

`DeviceManager_proofs` proves, for every set of nodes and enclosures and every number of
descriptors, that a pass-through goes out on a descriptor of its device's node
(`CommandsReach`), that no path leaves a descriptor open (`DescriptorsCounted`), that a
handle leads to the device the application was told of until the next discovery
(`HandlesNameTheirDevice`), that a discovery nothing disturbed lists every enclosure
exactly once (`EnclosuresListed`), and that no file of the application is closed
(`FilesSurvive`). The assumption is `ManagerAssumption`; of the kernel it takes that a
descriptor given out was free. The invariant says what a scan or a call has in hand at
each stage (`Course`), that a record has a second descriptor only between the open and
the close of one pass-through (`Second`), and counts the descriptors on nodes: the
devices added, one for the node looked at, one for the command in progress (`Count`).
`Told` says what a held handle stands for. What is listed can be shown only while
nothing disturbed the scan: then each listed device is what is behind its node, no two
are the same enclosure, and a node is either still to be scanned, being looked at, or
its enclosure is listed (`Undisturbed`).

`Memory_proofs` proves of `SdbConsole`, for every address space, block, number of attempts, calls
and faults, that block reads store the words of their addresses, that nothing of an
answer is left on the line between calls, and that the console remembers the address
the library takes it to remember: the first two unless one of the three things that
upset the library happened, the last as long as the console's answers get through
besides. At each stage of a call either the command is still
unanswered and the line empty, or what is left of its answer is all there is, in the
buffer and on the wire together (`InStep`); retries keep this because an attempt is
over only after a silence. `Cache` follows the remembered address through a command:
it changes on both sides, or the answer is still whole. `Course` says which operations
forget it.

`TestProgram_proofs` proves, for every number of stations, ports and packets, every size of
a payload and any failing accesses, that the statistics of a port are the packets and
bytes that passed between the two reads of each of its counters (`TrafficIsCounted`), and
that a command leaves all devices but its own as they are (`OthersAreUntouched`).

A station hands out its counters through one register, so which counter a read yields
depends on how often the station was read. `Position` gives every counter its place in a
read-out, the lemmas `Located` and `EveryPlace` say that `StationOrder` has exactly that
counter there, and `Rewound` that every station stands at its first counter when the
read-out comes to it, and that the station being read stands at the place the library
takes it to be at. So the buffer holds each counter at its place (`Copied`), and what the
library decodes from the buffer is the counter of that port, direction and kind (`Decoded`).
Between the two passes packets go on passing. `History` relates the counters that were read
to the packets by then and now (`Follows`: a count grew by what the packets added, with the
overhead that the hardware counts among the dwords of the ingress only), and `Remembered`
keeps the first pass in `pre` through the second. A counter may come round once in
between: `Difference` shows that the difference the library takes is what it grew by, as
long as that is less than 2^32. `Tally` supplies this from `PerformanceAssumption`: the
packets of one command bring fewer than 2^32 dwords to a counter, which also keeps the
totals within 64 bits. That is a bound on the traffic and not a promise of the code: a
command whose interval is so long that a counter grows by more is outside the theorem, and
outside of what the library can tell.

Only model-checked, and why:

- liveness (`BytesArrive`, `ClosedThreadsExit` and the two `CallsReturn`): TLAPS does not
  cover fairness and ENABLED here;
- `VerdictMatchesFile` and `DumpReadsBack` of `HealthCheck`: they compare the parser and the
  writer of the ini file, which go over sequences of any length, with what the lines say by
  their places, and that needs induction over the data;
- `RequestAsGiven` and `DeviceChangesAsAsked` of `TestProgram`: they are about the options of
  a line read one after the other and about the plans of calls made from them, again for
  sequences of any length. That the other devices stay as they are is proved.

## 5. What is not modelled

- the driver: its state is the ECAM probe, which several opens share without a lock
  (`SliffDriver.c` tries one way to the configuration space, then another), and
  references to PCI devices that are taken at each call and not given back; it needs a
  model of the kernel's side of its own and touches nothing that the library keeps;
- the qualification of PCI switches, the walk over their bridges, the sizing of BARs;
- the expander's phys (`expphy.c`, `expphyenable.c`, `margay.c`), the flash, the
  configuration pages, the decoding of power-on and status registers and of the
  statements of a trace;
- rates and link utilisation of the performance monitor;
- secondary subenclosures of an enclosure;
- the termios settings; `sdbiReestablishConnection`, which nothing calls; logging, the
  text and layout of anything printed and of the sections of a dump;
- the Windows, UEFI and BMC branches of the code; the controller
  (`LIB_SUPPORT_CONTROLLER` is not defined in the Linux build).

## 6. Plan

In this order:

1. the expander's phys: read-modify-write of the phy pages, with the failures between;
2. the driver's probe under concurrent opens, and what its close gives back;
3. the qualification of PCI switches and the walk over their bridges
   (`atlasIsParentFound`, which reads fields of `child` that nothing set), with the
   sizing of BARs, which writes to live registers;
4. the rest of the port counters, and rates against the interval that was asked for;
5. configuration pages, flash, and the decoding of power-on and status registers;
6. proofs: `DeviceChangesAsAsked` of `TestProgram` for the commands whose plan has a fixed
   length.
