# emuMMC in TLA+

emuMMC is injected into FS, the file system process of Horizon, and redirects
its eMMC accesses to the SD card: to a raw partition of it (`SD_Raw`), or to
image files on its FAT volume (`SD_File`).  It hooks FS's SDMMC functions,
brings along hekate's SD driver and FatFs, and has to share the SD card, the
controller and two mutexes with FS.  These modules say what of that has to hold
and why it does.  Paths below are relative to `src/`.

Modelled and model-checked are all parts that run on the console and carry its
logic: the start, the hooks, the storage driver, the command path, the bring-up
of the card, the buffers of a transfer, mounting and opening the image files, and
the requests to them.  Each of these has proofs for every value of its constants: of the
properties that the runs check only liveness is left to TLC.  Seven
disagreements between code and comments came up; four are runs of their own, three are
named only (see "Where the code does something else").

## 1. Inventory

| component | state | operations | what is hard | what makes it correct | module |
|---|---|---|---|---|---|
| FS hooks (`source/emuMMC/emummc.c`) | the two mutexes of FS, `custom_driver`, `_current_accessor`, `sdmmc_first_init`, `init_done`, `storageSDinitialized`, `fat_mounted`, `f_emu` | `sdmmc_wrapper_read`, `_write`, `_controller_open`, `_controller_close`; lazy and repeated initialization; mount, open, close; nand patrol | any thread of FS calls at any time; the lock handlers depend on a flag that a hook changes; the boot sysmodule cuts the SD card's power; closing takes no mutex | one user of the controller at a time; mutexes given back, one lock order; the driver uses the caller's accessor; the power cut, and nothing else, leads to the one reinitialization; accesses find their files open | `EmummcHooks` |
| SD storage driver (`source/emmc/nx_sd.c`, storage layer of `sdmmc.c`) | `sd_mode`, `sd_storage.initialized`, `card_clock_enabled`, the power pin; of a transfer: sector, count, buffer, retries | `nx_sd_initialize`, `nx_sd_init_retry`, `sdmmc_storage_end`, `_sdmmc_storage_readwrite` | retries in reinitializations in a loop over commands, with a `goto` back into it; every step may fail, the power may go | restarts are consistent; success means everything moved; the speed only sinks and ends at a failure; calls return | `SdTransfer`, `SdCard`, `SdDevice` |
| SDMMC controller, command path (`sdmmc_driver.c`) | the registers, `dma_addr_next`, `powersave_enabled` | `sdmmc_execute_cmd`, `sdmmc_stop_transmission`, `sdmmc_card_clock_powersave`, `_sdmmc_reset` | controller and card act between any two polls; DMA stops at 512 KiB; four timeouts race them; what is left of an abandoned command | own response, own data in place, no lost interrupt, clock gating restored, commands return | `SdCommand` |
| Split images over FatFs fast I/O (`emummc.c`, `libs/fatfs/ff.c`) | `f_emu`, of each `FIL` the pointer, cluster, error and link map | file part of `emummc_read_write_inner`, `f_lseek`, `f_expand_cltbl`, `f_read_fast`, `f_write_fast` | requests cut at parts, gathered over clusters, begun inside a cluster; failing commands | each sector goes to its place; success means everything moved; no foreign clusters | `FileIo`, `LinkMap` |
| SD card bring-up (`sdmmc_storage_init_sd` in `sdmmc.c`, `nx_sd.c`, host part of `sdmmc_driver.c`, `soc/clock.c`, `power/max7762x.c`) | `sd_storage`, `sdmmc_t`, the remembered clock source; registers of controller, clocks, pads, PMIC; the card | some fifteen commands, voltage switch, speed switch, tuning; `sdmmc_init`, `sdmmc_end` | every command may fail; a failure may be taken for an old card; the voltage switch spans card, regulator and controller; state is remembered over bring-ups | a card marked initialized agrees with its host in voltage, width, timing; it is never fed 3.3 V while it signals at 1.8 V, nor clocked too fast; switching off switches off | `SdInit`, `SdHost` |
| DMA buffers, calls into FS's driver (`sdmmc.c` 51-162, 363-467) | `sdmmc_memcpy_buf`, `last_dma_idx`, `dmaBuffers` of both accessors | choice of a buffer, copying, lending one to FS's driver | boundaries of the buffers, a flag left over, a list of FS's that is changed for a call | data reaches the caller's buffer and nobody else's memory; FS's list is given back as it was | `DmaBuffers` |
| FatFs apart from fast I/O (`libs/fatfs/ff.c`) | the volume, its one-sector window, the open files, the card | `f_mount`, `f_open`, `f_expand_cltbl`, `f_sync`, `f_close` | one dirty window for all files; failing commands and a power loss at every point; long names and entry sets over several entries | the mounted files are the image's; nothing but the sizes of written files changes | `FatVolume` |
| Boot and patching (`main.c`), FS versions and offsets (`source/FS`) | handles, mapping of FS, the words written, 60 tables | process handle over a session with a thread of its own; hooks, nops, paths | a second thread on the first one's stack; a table per build, and three ways to decide what is patched; address arithmetic | the helper is gone before its stack; the handle is known; what is patched is what the table lists; hooks and paths lead where they should | `Boot`, `ProcessHandle`, `FsPatch`, `FsOffsets` |
| SoC, PMIC, svc/smc | registers; handles | | | | as far as the above use them |
| Utilities | I/O mapping cache | `fatal_abort`, timers | | | `fatal_abort` only |
| eMMC and game card drivers in `sdmmc.c`, `nx_emmc.c` | | called by nothing | | | not modelled |

### How they interact

    FS threads --call--> hooks --(custom_driver)--> storage driver --> command path --> controller, card
                          |  \                          ^
                          |   `-- split images, FatFs --'  (disk_read, disk_write)
                          `--(~custom_driver)--> FS's own SD driver (external)
    boot sysmodule --cuts power--> card
    start (main.c) --patches--> FS, once, before any of this

- Locks: hooks call `lock_mutex(sd_mutex)`, `lock_mutex(nand_mutex)` of FS; FS's
  own SD driver takes `sd_mutex` itself.
- Globals as implicit parameters: `_current_accessor` (hooks to driver),
  `custom_driver` (hooks to storage driver), `sd_mode` (storage driver to itself
  across calls), `sdmmc_memcpy_buf`.
- Failure goes up as a return value of 0 until a hook turns it into
  `FS_READ_WRITE_ERROR`, or `fatal_abort` stops the console.

The hard points of the code, each with its line and the properties that watch it,
are the list "hazards" of `PROJECT.json`.

## 2. Modules

| module | contents |
|---|---|
| `RecursiveMutex` | FS's mutexes (external): owner and nesting |
| `SdCard` | what the storage driver promises, one operator per operation, as sets of outcomes |
| `SdDevice` | the abstract driver made of those outcomes: one step per call |
| `EmummcHooks` | the hooks, over `RecursiveMutex` and `SdCard` |
| `MCEmummcHooks` | its instances for TLC |
| `EmummcHooksProofs` | theorems about it |
| `SdTransfer` | the storage driver step by step; implements `SdDevice` |
| `SdTransferProofs` | theorems about it, the refinement among them |
| `SdCommand` | one command against the controller |
| `SdCommandProofs` | theorems about it |
| `SdHost` | the hardware around the card, as operators on a record |
| `SdInit` | the bring-up command by command over it; implements `SdDevice` |
| `SdInitProofs` | theorems about it, the refinement among them |
| `DmaBuffers` | the buffers of a transfer, with either driver |
| `DmaBuffersProofs` | theorems about it |
| `MCSdAccess` | instances of `SdInit` and `DmaBuffers` |
| `LinkMap` | FatFs's cluster link map as a pure function |
| `FileIo` | a request on a split image, over the link map |
| `FileIoProofs` | theorems about it |
| `FatVolume` | from a card to the open files of an image, and back to the card |
| `FatVolumeProofs` | theorems about it |
| `MCFileIo`, `MCFileImage` | instances of `FileIo`; cards for `FatVolume`, and the two together |
| `FsOffsets` | the tables of the 60 builds of FS |
| `FsPatch` | the instructions that are written over FS |
| `ProcessHandle` | the exchange that gets the process handle |
| `Boot`, `MCBoot` | the whole of `__init` over these three; its instance |
| `BootProofs` | theorems about it |

The modules are stacked by contract.  `EmummcHooks` uses `SdCard`'s outcomes for
every use of the driver and shows that one thread at a time is inside.
`SdTransfer` takes that as its starting point and shows that the real driver has
no other outcomes (`ImplementsDevice`), with the bring-up as one step; `SdInit`
shows the same of the bring-up command by command, against the same `SdDevice`.
`SdTransfer`'s commands end, successfully or not, because `SdCommand` shows they
do; `FileIo`'s and `FatVolume`'s do because `SdTransfer`'s calls do.  `FatVolume`
ends with files whose tables are their chains (`MountedIsImage`), which is where
`FileIo` starts.

### EmummcHooks

`pc[t]` is the place of thread `t` in its hook.  A step ends where another thread
can interfere: at each lock and unlock, each test of a global that others
write, each use of a driver.

| action | code |
|---|---|
| `Call` | FS enters a hook; closing goes straight to `_file_based_emmc_finalize` |
| `LockTest`, `LockSd`, `LockNand` | `mutex_lock_handler`: the test of `custom_driver` and the two locks are three steps |
| `Enter` | `_current_accessor = _this`, `_sdmmc_ensure_device_attached` |
| `Ensure`, `Finalize`, `Initialize`, `Mount`, `OpenFiles`, `Patrol` | `_sdmmc_ensure_initialized` and `sdmmc_initialize`, one step for each use of the card; each ends in `fatal_abort` where the code does |
| `FirstSdRead` | the swap to FS's driver (`emummc.c:493-506`) |
| `Transfer`, `HekateDone` | `emummc_read_write_inner`, `sdmmc_storage_read/write` |
| `FsLock`, `FsDone` | FS's own SD driver (external) |
| `UnlockNand`, `UnlockSd` | `mutex_unlock_handler`, the second test included |
| `CloseFiles`, `CloseSync`, `Unmount`, `CloseLock`, `CloseDone` | `sdmmc_wrapper_controller_close`, without mutex; `f_close` of a modified file writes through hekate's driver |
| `BootKillsPower` | the boot sysmodule (external); once |

`aborted` is `fatal_abort`: nothing moves any more.  `QuiescentClose` is the one
assumption on FS: it closes the eMMC when no other call is running.  The close
hook takes no mutex, so without it two users meet in the driver at once; FS
closes its controllers when it shuts down or goes to sleep.

### SdTransfer

Variables are the code's, in sectors; `moved` records what reached which place in
the buffer.  `CallTransfer`, `TryDone`, `TryFailed`, `Reinit` are
`_sdmmc_storage_readwrite`; `BringUpDone`, `BringUpFailed`, `NextSpeed` are
`nx_sd_init_retry` and the loop of `nx_sd_initialize`; `CallEnd` is
`sdmmc_storage_end`.  `sd_mode` is a number modulo `Wrap`.  The refinement mapping
shows the card of `SdDevice` as it was when the call began (`entry`) until the
call returns, and as it is between calls; a power cut changes both.

### SdCommand

Driver actions (`WaitCmd` to `WaitBusy`) follow the code from poll to poll; the
controller and the card (`Respond`, `Move`, `Unbusy`, `Break`) take their steps in
between.  Addresses are counted in units of which `BlkSize` make a block and
`Boundary` the 512 KiB at which the DMA stops.  `own` marks what belongs to the
driver's present command, as opposed to what an abandoned one has left.  Timeouts
have no clock: a wait may end without its bit at any moment.  When it does so
although controller or card could still have acted, or when they break off,
`fault` is set; `NoFalseFailure` says that there is no other failure.  A reset
that the controller ignores for two seconds is such a fault as well.

### FileIo and LinkMap

A request goes through `Seek` (`f_lseek` and the start of `f_read_fast`), `HeadIo`
(the part before a cluster boundary), `First`, `Join`, `Flush`, `Final` (gathering
clusters into commands), `PartDone` (the next part).  `Failed` and `HeadFailed` are
failing commands, `NoCluster` the end of the chain, `err` the sticky error of a
`FIL`.  Reads and writes share the module: `f_write_fast` is the same code line for
line but for the calls it makes; a write at the end of a file makes it longer
through `f_write`.  `moved` pairs places in the buffer with sectors of the card, and
`Place` says from the chains alone where a sector belongs.

### SdInit and SdHost

`SdHost` has one operator per driver function, on a record of what the function
writes: `sdmmc_init`, `sdmmc_end`, `sdmmc_setup_clock`, `sdmmc_enable_low_voltage`
and what they call.  Those that talk to the PMIC give a set of outcomes.  `SdInit`
takes one step per command and what the driver does on its answer; any command may
fail, also after the card has obeyed it where that matters (the voltage switch).
The card is external and follows the SD specification: it does not hear commands
while it is off or in the middle of the switch, keeps its signal voltage over
GO_IDLE_STATE, and forgets it with its power.  `rounds` counts bring-ups up to two,
`fault` records that the PMIC or a power cycle has failed: the two exceptions that
`ReadyAgrees` and `NeverOverdriven` need, see section 5.

### DmaBuffers

Memory is a function from addresses to what they hold, in sectors.  A cell of memory
holds its own address and the i-th sector of the request is -i, so `Delivered` can say
of every cell whether it was moved, moved to the wrong place, or overwritten.  What
FS's lists look like is not in this repository: `ListsAssumption` says that a request
fits some buffer and that the entry that is lent is free.  Without it the code reads
and writes past a buffer or past the array of three.

### FatVolume

Each step is one use of the window of the volume: write back the dirty sector (which
may fail), read the one that is wanted (which may fail), look at it.  `at` says
which loop of the code it belongs to, of `find_volume`, `dir_find`, `dir_sdi`,
`create_linkmap`, `f_sync` and what they call, and `task` whether directory entries are
searched, loaded or stored.  Directory entries are records
of what the code looks at and writes: kind, name, order, checksum (a value that equals only
that of the same entries), directory and read-only attribute, first cluster, flags of the
chain, size.  The card survives `PowerLoss` and
`fatal_abort`; `medium` is what was on it at first.  Volumes are FAT32 or exFAT, with
directories that are chains that end: FAT12 and FAT16 hold no eMMC image, and FatFs
checks no more than this.  Files are opened, written to inside their last cluster, and
closed: nothing is created and the FAT is never written.  The program opens all files for
writing, so a read-only one is refused (`ff.c:3690`): as BOOT0, BOOT1 or 00 that is fatal, as a
later part it ends the list like a missing one.

FatFs takes much of a volume for granted.  `CardsAssumption` names it: the partition table
points to sectors of the card, the chains of directories lead through entries of the FAT to
an end (`IsChain`), an entry that stands for a directory leads to such a chain
(`SoundEntry`), and no sector of entries belongs to two directories or twice to one
(`Formatted`).  A card's `dirs` are the chains of its directories, and `images` what the names
on it stand for and which of its files are read-only; the actions never look at them.  `ImagesAssumption` is the definition of an
image: `path` are the directories that `Path` stands for, from the root as far as it leads;
an entry there with the name of a file (`HasName`) is that file, whose size fits its chain
(`LeadsTo`, `IsFile`); what is in the image is listed where a search finds it, under one entry
only (`IsComplete`); chains consist of
clusters of the volume and blocks of their entries (`IsOrderly`).  With a name of a directory
in place of a file, a chain that is shorter than its file, or two files of one name FatFs would
do something, but nothing that one could call right.  A part may be empty: it has no chain and
an empty table.

`OthersKept` compares the card with what it was, sector by sector: an entry may only
differ in its size, or on exFAT the first one of a block in its checksum, and only if it is
that of a file in `touched`, by its place on the card and its names (`BelongsTo`).

### Boot

`boot` follows `__init` function by function; `_init_process_handle` and the thread it
starts interleave in between (`ProcessHandle`).  FS is seen through `written`, the list
of the words written over it; `FsOffsets` holds the tables of all builds and `FsPatch`
encodes the instructions and decodes what the processor makes of them.  A text is the
sequence of its pieces, a pair of instructions its index in the table.  Every call of
the kernel and of the secure monitor may fail.  Addresses that need more than 31 bits
are counted in pages.

## 3. Runs

| run | question | bounds | result |
|---|---|---|---|
| `HooksFile` | file based: exclusion, accessor, lock order, no leak, power cut, files | 2 threads, all calls, 2 GPP files | holds |
| `HooksRaw` | raw: exclusion, no transfer in hekate's driver after the hand-over | 3 threads, all calls | holds (may deadlock, see below) |
| `HooksLive` | every call returns | 2 threads, strong fairness | holds |
| `Transfer` | restarts, speeds, refinement of `SdDevice`, calls return | up to 5 sectors, 2 per command, `sd_mode` modulo 8 | holds |
| `SdCommand` | responses, data, interrupts, clock, commands return | blocks of 2 units, up to 3 blocks, boundary every 3 units, three alignments | holds |
| `SdAccess` | bring-up: card and host agree, voltage, clock, switching off, refinement of `SdDevice`; buffers: data delivered, FS's list restored | 5 cards on both SoCs; 3 lists of the SD accessor, 2 of the eMMC's, requests up to 2 sectors everywhere | holds |
| `FileIo` | opening: the right files, nothing else changed; requests: sectors in place, success complete, own clusters, requests return | 4 cards, any failures, 2 files written to; cluster of 2 sectors, 4 clusters in every order and with gaps as one file, and as 2 and 3 files, requests up to 7 sectors | holds |
| `Boot` | helper's stack, handle, what is patched and where it leads, the start ends | all 60 builds, 4 places of the image | holds |
| `HooksSwapRace` | `emummc.c:503` | 2 threads, raw | violated |
| `HooksCloseSingle` | `emummc.c:101` | 1 thread, 1 GPP file | violated |
| `TransferCycle` | `nx_sd.c:38` | as `Transfer` | violated |
| `FileIoHead` | `ff.c:3931` | as `FileIo`'s requests, 3 sectors | violated |

`SdAccess` and `FileIo` each check two modules that share no variable: a behaviour of
the run is one of the two, and as neither can disturb the other that covers every
interleaving of both.

Why these bounds are enough.  Two threads are enough for every pairing of hooks in
a file based emuMMC, where a thread always owns both mutexes; the raw swap needs a
third: one that swaps, one that waits on `sd_mutex`, one that enters after.  Two
GPP files give both a part list and a missing last part.  Five sectors in commands
of two make three commands, so a restart can come in the first, a middle and the
last; four speeds are the code's own, and a modulus of 8 is enough to see a wrap
below 0.  Blocks of two units against a boundary of three put boundaries inside a
block, at its end, and twice in one transfer.  The proofs then drop these bounds, and
those below.

The five cards of `SdAccess` are one that stops at each branch of the bring-up: version
1, no 1.8 V, every UHS mode, and each fallback below the one asked for.  The number of
bring-ups is not bounded: the speed sinks, and what is remembered from one to the next is
in the state.  The lists have the only fitting buffer first, second, and behind one that
is too small; two sectors make requests that fit a buffer exactly, begin inside it and
end with it.  The cards of `FileIo` have what the code distinguishes: a short name only, a
long name, one that is left over from a deleted file; entries that cross a sector and a
cluster; a fragmented directory; files with a chain and without (exFAT); a second
partition with another image; a single file and two and three parts, one of them empty, and read-only ones,
before which the list ends (one with a further part behind it); a card
that is not formatted.  The decoy images make a wrong turn end at a file that exists.  Seven sectors
reach over every boundary of the parts, and past the end; `MaxWritten` bounds the
files that are ever written to, as two are enough for the window to hold one's entry
while the other's is wanted.  `Boot` needs no bound on versions; its places are:
the image and FS in one 4 GB window, a boundary between them, inside FS, and inside the
image between its strings.

Deadlock checking is on, except in `HooksRaw`, where the code really deadlocks:
with the custom driver off a hook holds `nand_mutex` when FS's driver asks for
`sd_mutex`, while a hook that passed the test of `custom_driver` earlier owns
`sd_mutex` and asks for `nand_mutex`; and in the two one-invariant hook runs.

Fairness.  `HooksLive`: strong fairness of each thread's steps.  A thread of FS is
scheduled, and Horizon's mutexes hand a released mutex to a waiter
(`svcArbitrateUnlock`), so a waiter is not passed over for ever.  `Transfer`,
`SdCommand`, `FileIo` (the requests): weak fairness of the driver's steps, as every one
of its waits has a timeout and its thread keeps running; of the controller, the card, FS's
decision to call and the power cut nothing is assumed.  `Boot`: weak fairness of the two
threads, and strong fairness of a mapping that succeeds: `_map_fs_rw` tries random places
for ever, and one that is free comes up.  `SdAccess` and the opening of files are checked
for safety alone.

Every property has a mutant: a bug of a plausible kind put into one definition, after
which its run finds the property violated.  The definitions named "Mutant of" in the
modules are these; no behaviour of the modules uses them.

## 4. Proofs

TLAPS proves, for all values of the constants under the named assumptions of
the modules:

`EmummcHooksProofs` (any set of threads, any number of files up to 32):
`TypeCorrect`, `Exclusion`, `Accessor`, `HandOver`, `NoLeak`, `LockOrder`, `InitDone`,
`FilesOpen`.  The inductive invariant is `TypeOK` with three parts that state who owns
what: `NandInv` (a thread owns `nand_mutex`, once, exactly between the handlers),
`CloseInv` (nothing runs beside a close, from `QuiescentClose`) and `SdInv` (file based:
the custom driver stays, so a hook owns `sd_mutex` exactly between the handlers, twice
inside FS's driver).  Exclusion alone is not inductive, as it does not say that a
thread in the driver owns anything; with `NandInv` it follows, whichever driver is used
and whatever has become of `sd_mutex`, for everything but the close, which is `CloseInv`.
`InitDone` needs `CutInv`: a card whose clock is on and whose power is off was cut from
outside, because `sdmmc_storage_end` switches both off together.

`SdTransferProofs` (any request, any number of sectors a command, any width of
`sd_mode`): `TypeCorrect`, `SpeedInRange`, `TransferInStep`, `Complete`, `ClockOn`,
`TryingUp`, `Slowing` and `Implements`, the refinement of `SdDevice`.  `SpeedInRange` needs
`RetryInv` (wherever a speed is given up, one is left); `Complete` needs `CoverInv` (all
before `sct_off` has moved); `Implements` needs `EntryInv`, which relates the card to the one
the call began with: what a reinitialization that fails half-way may and may not have
done to it.  Each action of `SdTransfer` is then shown to be an outcome of `SdCard` or a
stutter.

`SdCommandProofs` (blocks of any size, boundaries any distance apart, any number of
blocks, any buffer): `TypeCorrect`, `ClockIsGated`, `ResponseOwned`, `DataPlaced`,
`SuccessComplete`, `FailureIsFault`.  The inductive invariant `IInv` says what belongs to
the present command and where it stands: `CmdInv` (once the command line was seen free, what
it does is the driver's own), `LineInv` (a command with data waited for the data line, so
the transfer and its interrupt bits are its own, and a set bit means a stopped or ended
transfer), `AddrInv` (the DMA stands where the moved data ends, and `dma_addr_next` is the
very next boundary: `NextBoundaryMeets` and `BoundaryMet` are the arithmetic of the mask
`0xFFFFFFFFFFF80000` for any distance), `PlacedInv` (what was placed is what moved),
`RoundInv` (`blkcnt` only sinks) and `FaultInv` (without a fault each wait has something to
come).  `DataInPlace` is carried along with it, for after a reset `placed` still holds what
an abandoned command has moved.

`SdInitProofs` (any card, either SoC, any number of bring-ups): `TypeCorrect`,
`CardAndHostAgree`, `CardIsNotOverdriven`, `CommandsAreSlowEnough`, `EndTakesThePower` and
`Implements`, the refinement of `SdDevice` command by command.  The inductive invariant says
of each place in the bring-up what card and host have agreed on so far: `PowerInv` and
`VoltInv` for power and voltage (`NeverOverdriven` alone is not inductive: where the next
`sdmmc_init` will feed 3.3 V no card may signal at 1.8 V), `HighInv` and `LowInv` for the
timing of a bring-up at 3.3 V and at 1.8 V, `CardInv` for width and mode, `TrimInv` for what
the first bring-up leaves of Erista on Mariko, `CallInv` for the card that the call began
with.  Each operator of `SdHost` has a lemma that says what it does to every host record.

`DmaBuffersProofs` (buffers of any size, anywhere in a memory of any size, requests of any
length): `ListsAreRestored`, `DataIsDelivered`, and `FsDriverFindsTheBuffer` (a single entry of the
SD accessor's list, as it is when FS's driver is called, holds all that it is sent to), under
`ListsAssumption` and `PlacesAssumption` (where the controller sees one cell it sees no other).  `Restorable` says which entry of FS's list
may differ and that it was free; `Fresh`, `InFs`, `InHekate` where the data is meanwhile, and
`Untouched` that nothing else has moved.

`FileIoProofs` (clusters of any size, chains of any length in any order, any number of parts,
any request): `NothingGoesAstray`, `SuccessMeansAll`, `KeepsToItsClusters`, under
`ImageAssumption` (the chains are as long as the sizes say; the parts but the last are of one
size, and the last is not larger).  The properties speak of a request that has ended; the invariant says how far
it has come: `Under` and `Seeking` where the next part begins, `InPart` that what is left of this
part and what is gathered fills the buffer up to `buf`, `AtHead` and `Aligned` that clusters are
only looked up at a cluster boundary, `Gathering` that the sectors of the command being
gathered follow one another where they belong, `MovedOK` that everything before `wbuff` is there.
`Aligned` holds only while no head has failed unseen (section 5).  `total_sect` is a recursive
function of the number of parts; `TotalIs` gives its closed form, by counting the arguments
for which it holds (`UptoInduction`), as the library's induction theorems cannot be used here.

`BootProofs`: `SpecStackInUse`, `SpecHandleKnown` and `SpecHelperGone`, from the invariant
`HandleInv`: what each of the two threads knows of the other by where it is (`Handshake`), and
that FS is only mapped after the exchange (`BootOrder`).  The properties alone are not
inductive: that the caller has waited says nothing unless the helper's last steps are ordered.
`BranchReaches` and `AdrpReaches` are the arithmetic of the two instructions for all
addresses; the second says exactly when the 32-bit mask of `write_adrp_add` loses the
destination.  `SpecPatchedAsListed`, `SpecHooksReach` and `SpecPathsRedirected` say what FS
looks like when it begins to run, for any image and any place.  The invariant `PatchInv` says
what is in `written`, `path_text` and `emuMMC_ctx` at each step of `__init`; as every word is
written at another place (`Lists`, `ListsJoined`), the processor fetches each of them as it
was written (`WordOf`).  The proofs use of the tables only `TablesAssumption`: the sites are there
from the version on at which the code asks for them, lie within 64 MB, are aligned and differ.
The tables are constants, and TLC evaluates the assumption to the last of the 60, so nothing of
it is left open.  `SpecHooksReach` takes the image to be no larger than 64 MB: a branch reaches
128 MB, and FS's own sites are less than 64 MB behind the image.

`FatVolumeProofs` (any formatted card: any number of partitions, clusters of any size,
directories of any length and depth, any number of files): `VolInvariant`, `VolOthersKept` and
`VolMountedIsImage`, in two parts.

The first is about what is written.  A write of `f_sync` goes to the place of the entry that
`f_open` left in the FIL, or on exFAT to wherever `dir_sdi` and `dir_next` lead from there, through a window that other calls have
used and left, perhaps dirty, perhaps invalid.  So the invariant `VolInv` has a part for each:
`DiskInv` (the card and the window hold, sector by sector, what the card held at first but for
what may change, `Kept`), `WalkInv` (the sector and the cluster at which a directory stands are
those of its `dptr` in the chain, `DirAt`), `LongInv` (when `ord` is 0 the entry before has the
long name), `BlockInv` (what is loaded of a block is that of the directory, and the next entry to
load or store is the next of it), `FilesInv` and `SyncInv` (an open file's entry has the file's
name, and only open files are synchronized).  `DirStep`, `DirCluster` and `DirWithin` are the
arithmetic of entries, sectors and clusters; `GetFat` says that a cluster read from the FAT, or
computed for a contiguous object, is the next of the chain; `ReadEntry` and `EditEntry` what one
use of the window reads and leaves.  The names do not lead to the wrong file even where a block
is torn, as its name entries never change.

The second is about what is found.  `VolInv` says that what `f_open` finds has the name it looked
for, but not that it looked in the right directory, nor anything of a name that it does not find,
nor of the table.  The invariant `ImageInv` adds:

- `DataInv`: sizes on the card and in the window stay between the size at first and the end of
  the last cluster (`SizesOK`), and a window that is not dirty is the card's sector.  A contiguous
  object's chain is computed from its size, so without this nothing could be said of it after a
  write: `UpToFacts` says that no such size changes the number of clusters.
- `FoundInv`: at each segment the directory that is searched is the one the path leads to
  (`SegInv`); an open file is that of an entry of the image (`FileAtInv`); a loaded block
  is as it is in the directory now (`BufInv`); the table holds the clusters before the one
  at which the file stands, and at the end all (`LinkInv`, `DoneInv`).
- `SoughtInv`: no entry that the search has passed has the name.  It is not inductive alone.  On
  FAT32 the entries of a long name come before the short one, and the search has forgotten them
  but for `ord` and `sum`; `SeqInv` says that these count what was read of any long name that is
  still complete.  On exFAT a block is skipped once its last entry is read, and passing over its
  entries one by one needs `IsOrderly`, that no block begins inside another.
- `CompleteInv` with `CalmInv`: that the parts are all there is a claim about the card as it was
  when the directory was read, and the card changes afterwards.  While no command has failed since
  `f_mount`, a dirty window is one that is about to be written (`CalmInv`), so a block that was
  torn stays torn until it is stored whole.  A part that is left out of the row means such a block
  (`CompleteInv`: `Torn`), and with `Whole` there is none.
- `FirstInv`: unless a command has failed, the entries of the partition table that `find_volume` has
  passed over begin no volume, so that what it mounts is the first (`FirstVolume`).

What a table says of a chain is by its form an induction over the fragments.  `Maps` gives instead the
numbers of the clusters at which the fragments begin; `ExtendMaps` shows that a cluster more keeps
this, and `TableIsChain` that `clmt_clust` then returns each cluster, and 0 behind the last.  The
induction in it counts the fragments for which this holds, as in `FileIoProofs`.  So `FileIo` starts
where this theorem ends, for every card.

All of it holds under `CardsAssumption` and `ImagesAssumption`, which TLC evaluates for the four
cards of `MCFileImage`.

Not among the runs' properties, but proved: `TypeCorrect` of the storage driver and of the
command path, `SpeedInRange`, `ClockOn`, `TryingUp`.

Model-checked only: liveness (`CallsReturn` of `FileIo`, `Transfer` and `HooksLive`,
`CommandsReturn`, `BootEnds`), as the prover treats neither fairness of this kind nor `ENABLED`.
Every invariant and every other action property of a passing run is stated by a theorem.

## 5. Where the code does something else

- **`HooksSwapRace`**: `sdmmc_wrapper_read` swaps drivers and unlocks `sd_mutex` once
  (`emummc.c:504`); a thread that locked it before the swap, or waited for it, comes to
  `mutex_unlock_handler` with `custom_driver` off and keeps it (`emummc.c:301`), although
  "FS will handle sd mutex w/o custom driver from here on" (`emummc.c:503`).
- **`HooksCloseSingle`**: with a single image file `f_emu.parts` is 0 and the loop that is to
  "Close all open handles" (`emummc.c:101`) closes none.
- **`TransferCycle`**: `sdmmc_storage_end` returns early when GO_IDLE_STATE fails, so
  `nx_sd_init_retry`'s "Power cycle SD card." (`nx_sd.c:38`) gives up a speed and leaves the
  card on.
- **`FileIoHead`**: `f_read_fast` ignores the result of `f_read` (`ff.c:3934`); after a failure it
  goes on inside the cluster it meant to leave ("align to cluster", `ff.c:3931`), returns
  `FR_OK`, and the rest of the buffer holds other sectors.  `NothingMisplaced` and
  `SuccessIsComplete` of `FileIo` are therefore stated for parts whose `err` is clear.

Some more, which are no runs of their own; the models have them, and the properties are stated
so as to say what the code does, or to leave them out.  The first three contradict a comment:

- `nx_sd.c:48` says "Reset to max." of `SD_INIT_FAIL`.  The code there only returns 0: nothing ever
  sets `sd_mode` back, and a driver that has given up stays so until the next boot.  `NeverFaster`
  states what the code does, the opposite of that comment.
- `sdmmc.c:323` says "Reinit SD Card to a lower speed."  The first reinitialization of a transfer,
  `nx_sd_initialize(true)`, power cycles the card and tries the same speed; only when that fails, and
  from the second on, it is a lower one.  `NeverFaster` therefore says no more than "not higher".
- `emummc.c:206` says of the list of parts "stop if next doesn't exist".  Any failure of `f_open` ends
  it (`emummc.c:211`): a failing command, or a part that exists and is read-only.  `MountedIsImage`:
  the parts are those up to the first that is missing or read-only, when no command has failed.
- After a GO_IDLE_STATE that failed in a power cycle a card that signals at 1.8 V is brought up by
  a host at 3.3 V (`nx_sd.c:42`); so it is when the PMIC does not take a voltage, as the results of
  the I2C transfers are not looked at (`max7762x.c:103`).  `NeverOverdriven`, `ReadyAgrees`: `~h.fault`.
- On Mariko the first bring-up sets Erista's trim values (`sdmmc_driver.c:1226`).  `ReadyAgrees`:
  `rounds = 2`.
- An unreadable partition is passed over (`ff.c:3302`), and the image of the next one is mounted.
  `MountedIsImage`: it is the first volume of the card when no command has failed.
- A power loss inside `store_xdir` leaves a torn exFAT entry set, and `dir_read` stops at it.
  `MountedIsImage`: `Whole`.
- Paths of FS in another 4 GB window than the image are not redirected (`main.c:272`).
  `PathsRedirected` says so; the address space of the process makes it unlikely.

## 6. Not modelled, and why

- Delays, drive strengths, pin multiplexing, the DLL and the single blocks of the tuning loop:
  register writes whose effect is electrical.  A command that fails for such a reason is a failing
  command.
- SDMMC2, SDMMC4, HS400, eMMC and the game card: code from hekate that this program does not call.
- FatFs beyond what the image files need: FAT12/16, creating, extending and removing files, writes
  to the FAT, times, the archive attribute and others, code pages.
- The refusals of `_sdmmc_config_dma` (`sdmmc_driver.c:884`, `900`): `Commands` has no data command
  without blocks, as no caller makes one, and FS's buffers are aligned.
- The single steps of `f_mount` and of opening the files in `EmummcHooks`: there each of the two is one
  use of the card with the outcomes that it has in the end; the steps are `FatVolume`'s.
- The clock and power of other devices, the bytes on the I2C bus, the I/O mapping cache, timers.
- The image's own start code and relocation (`start.s`, `dynamic.c`).
- FS, its driver and its mutexes, the kernel, the boot sysmodule: not in this
  repository; modelled from how it uses them, marked external in the map.
- Requests near 2^32 sectors (`emummc.c:329`, `345`): counters have no width in `FileIo`.
- Requests that fit no DMA buffer, lists without a free entry behind the fitting one
  (`ListsAssumption`).
- A second power cut, and any cut after the swap to FS's driver.

## 7. Plan

Done: `RecursiveMutex`, `SdCard`, `EmummcHooks`, `SdTransfer`, `SdDevice`, `SdCommand` and their
proofs; `LinkMap`, `FileIo`; `Boot` with its three parts and `BootProofs`; `SdHost`, `SdInit`,
`DmaBuffers` and their proofs; `FatVolume`; proofs
about `FileIo`, the rest of `Boot`, and all of `FatVolume`.  Left:

1. The short read past the end of a single file (`emummc.c:395`).
2. Requests near 2^32 sectors, which need counters with a width in `FileIo`.
