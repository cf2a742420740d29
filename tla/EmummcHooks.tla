----------------------------- MODULE EmummcHooks ----------------------------
(***************************************************************************)
(* The hooks that emuMMC puts in place of FS's SDMMC controller functions  *)
(* (source/emuMMC/emummc.c), called at any time by any thread of FS:       *)
(* sdmmc_wrapper_read, sdmmc_wrapper_write, sdmmc_wrapper_controller_open  *)
(* and sdmmc_wrapper_controller_close.                                     *)
(*                                                                         *)
(* A call is a sequence of steps of its thread, cut wherever another       *)
(* thread can see or change what the next statement uses: each lock and    *)
(* unlock, each test of a global, each use of a driver.  What the driver   *)
(* does with the card in one call is SdCard's.                             *)
(*                                                                         *)
(* External, and modelled from how this code uses it: FS's mutexes, and    *)
(* FS's own SD driver behind accessor_sd->vtab.  The latter takes sd_mutex *)
(* itself ("FS will handle sd mutex w/o custom driver from here on",       *)
(* emummc.c:503; "Recursive Mutex", emummc.c:414).                         *)
(*                                                                         *)
(* Calls that only pass through to FS's vtab (game card, eMMC open) or     *)
(* return at once (SD close) change nothing here and are left out.         *)
(***************************************************************************)
EXTENDS RecursiveMutex

CONSTANTS
  Threads,         (* The threads of FS that call the hooks.               *)
  EMMC_Type,       (* emuMMC_ctx.EMMC_Type: SD_Raw or SD_File.             *)
  Calls,           (* The calls that FS makes.                             *)
  GppFiles,        (* How many files hold the GPP partition on the card.   *)
  QuiescentClose   (* FS closes the eMMC only while no other call runs.    *)

SD_Raw  == "SD_Raw"
SD_File == "SD_File"

ASSUME ThreadsAssumption == NoOwner \notin Threads
ASSUME TypeAssumption    == EMMC_Type \in {SD_Raw, SD_File}
ASSUME CallsAssumption   ==
  Calls \subseteq {[op |-> "read",  dev |-> "EMMC"], [op |-> "read",  dev |-> "SD"],
                   [op |-> "write", dev |-> "EMMC"], [op |-> "write", dev |-> "SD"],
                   [op |-> "open",  dev |-> "SD"],   [op |-> "close", dev |-> "EMMC"]}
ASSUME GppAssumption     == GppFiles \in 1..32  \* EMUMMC_FILE_MAX_PARTS
ASSUME CloseAssumption   == QuiescentClose \in BOOLEAN

VARIABLES
  pc,                    (* Where each thread is in its call.              *)
  call,                  (* [op, dev] of the call each thread is making.   *)
  sd_mutex, nand_mutex,
  custom_driver,         (* SD transfers go through hekate's driver.       *)
  first_sd_read,
  current_accessor,      (* _current_accessor, whose DMA buffers hekate's  *)
                         (* driver uses.                                   *)
  did_attach,
  sdmmc_first_init, storageSDinitialized, init_done,
  fat_mounted,
  parts,                 (* f_emu.parts: GPP files opened, 0 for only one. *)
  open_files,            (* The FIL handles that are open.                 *)
  dirty_files,           (* Those with FA_MODIFIED set.                    *)
  nand_patrol_checked,
  card,                  (* The SD card, as SdCard describes it.           *)
  aborted                (* fatal_abort was called: the console has stopped.*)

lockVars  == <<sd_mutex, nand_mutex>>
initVars  == <<sdmmc_first_init, storageSDinitialized, init_done,
               nand_patrol_checked>>
fileVars  == <<fat_mounted, parts, open_files, dirty_files>>
modeVars  == <<custom_driver, first_sd_read>>
vars == <<pc, call, lockVars, initVars, fileVars, modeVars, current_accessor,
          did_attach, card, aborted>>

Device == INSTANCE SdCard

NoAccessor == "none"

NoCall == [op |-> "none", dev |-> "none"]

\* FIL handles: the two boot partitions and the GPP files, numbered from 0.
BootFiles == {<<"BOOT", 0>>, <<"BOOT", 1>>}
Gpp(n) == {<<"GPP", i>> : i \in 0..(n - 1)}
Files == BootFiles \cup Gpp(GppFiles)

-----------------------------------------------------------------------------
(* Control points.                                                         *)

\* Under nand_mutex and inside hekate's driver, with _current_accessor set.
HekatePcs == {"ensure", "finalize", "initialize", "mount", "openFiles",
              "patrol", "firstSd", "transfer", "hekate"}
\* Under nand_mutex, in FS's SD driver or on the way into it.
FsPcs == {"fsLock", "fsBusy"}
LockedPcs == {"enter"} \cup HekatePcs \cup FsPcs \cup {"unlockNand"}
ClosePcs == {"closeFiles", "closeSync", "unmount", "closeLock", "closeBusy"}
Pcs == {"idle", "lockTest", "lockSd", "lockNand", "unlockSd"}
         \cup LockedPcs \cup ClosePcs

Goto(t, to) == pc' = [pc EXCEPT ![t] = to]

Return(t) == Goto(t, "idle") /\ call' = [call EXCEPT ![t] = NoCall]

Step(t, from) == ~aborted /\ pc[t] = from

fatal_abort == aborted' = TRUE

-----------------------------------------------------------------------------
Init ==
  /\ pc = [t \in Threads |-> "idle"]
  /\ call = [t \in Threads |-> NoCall]
  /\ sd_mutex = Free /\ nand_mutex = Free
  /\ custom_driver = TRUE /\ first_sd_read = TRUE
  /\ current_accessor = NoAccessor
  /\ did_attach = FALSE
  /\ sdmmc_first_init = FALSE /\ storageSDinitialized = FALSE
  /\ init_done = FALSE /\ nand_patrol_checked = FALSE
  /\ fat_mounted = FALSE /\ parts = 0 /\ open_files = {} /\ dirty_files = {}
  /\ card \in Device!FreshCards
  /\ aborted = FALSE

\* Mutant of HookStart: the SD write hook forgets mutex_lock_handler.
HookStartUnlocked(c) ==
  IF c.op = "close" THEN "closeFiles"
  ELSE IF c = [op |-> "write", dev |-> "SD"] THEN "transfer" ELSE "lockTest"

\* Where a hook begins; closing the eMMC takes no mutex.
HookStart(c) == IF c.op = "close" THEN "closeFiles" ELSE "lockTest"

\* A thread of FS calls a hook.
Call(t) ==
  /\ Step(t, "idle")
  /\ \E c \in Calls :
       /\ QuiescentClose =>
            /\ c.op = "close" => \A u \in Threads : pc[u] = "idle"
            /\ \A u \in Threads : pc[u] \notin ClosePcs
       /\ call' = [call EXCEPT ![t] = c]
       /\ Goto(t, HookStart(c))
  /\ UNCHANGED <<lockVars, initVars, fileVars, modeVars, current_accessor,
                 did_attach, card, aborted>>

-----------------------------------------------------------------------------
(* mutex_lock_handler                                                      *)

\* Mutant of FirstLock: the handler locks nand_mutex only.
FirstLockNand == "lockNand"

FirstLock == IF custom_driver THEN "lockSd" ELSE "lockNand"

\* if (custom_driver): the test, before any lock is held.
LockTest(t) ==
  /\ Step(t, "lockTest")
  /\ Goto(t, FirstLock)
  /\ UNCHANGED <<call, lockVars, initVars, fileVars, modeVars,
                 current_accessor, did_attach, card, aborted>>

LockSd(t) ==
  /\ Step(t, "lockSd") /\ CanLock(sd_mutex, t)
  /\ sd_mutex' = Locked(sd_mutex, t)
  /\ Goto(t, "lockNand")
  /\ UNCHANGED <<call, nand_mutex, initVars, fileVars, modeVars,
                 current_accessor, did_attach, card, aborted>>

LockNand(t) ==
  /\ Step(t, "lockNand") /\ CanLock(nand_mutex, t)
  /\ nand_mutex' = Locked(nand_mutex, t)
  /\ Goto(t, "enter")
  /\ UNCHANGED <<call, sd_mutex, initVars, fileVars, modeVars,
                 current_accessor, did_attach, card, aborted>>

\* Mutant of SetAccessor: the write hooks leave _current_accessor as it is.
SetAccessorOnRead(t) ==
  current_accessor' = IF call[t].op = "read" THEN call[t].dev ELSE current_accessor

\* _current_accessor = _this
SetAccessor(t) == current_accessor' = call[t].dev

(* First statements of the hook under the locks: a read attaches the device
   and checks the initialization, a write goes to its transfer, an open to
   FS's driver.                                                            *)
Enter(t) ==
  /\ Step(t, "enter")
  /\ \/ /\ call[t].op = "open"
        /\ Goto(t, "fsLock")
        /\ UNCHANGED <<current_accessor, did_attach>>
     \/ /\ call[t].op = "read"
        /\ SetAccessor(t)
        /\ did_attach' = TRUE
        /\ Goto(t, "ensure")
     \/ /\ call[t].op = "write"
        /\ SetAccessor(t)
        /\ Goto(t, "transfer")
        /\ UNCHANGED did_attach
  /\ UNCHANGED <<call, lockVars, initVars, fileVars, modeVars, card, aborted>>

-----------------------------------------------------------------------------
(* _sdmmc_ensure_initialized, sdmmc_finalize, sdmmc_initialize             *)

\* Where a read goes once the card is initialized.
AfterEnsure(t) == IF call[t].dev = "SD" THEN "firstSd" ELSE "transfer"

\* Mutant of NeedsReinit: the power pin is not looked at.
NeedsReinitOnce == ~init_done

\* The card has lost its power since the first initialization.
NeedsReinit == ~init_done /\ ~card.power

Ensure(t) ==
  /\ Step(t, "ensure")
  /\ Goto(t, IF ~sdmmc_first_init THEN "initialize"
             ELSE IF NeedsReinit THEN "finalize"
             ELSE AfterEnsure(t))
  /\ UNCHANGED <<call, lockVars, initVars, fileVars, modeVars,
                 current_accessor, did_attach, card, aborted>>

\* Mutant of FinalizeFailed: the read tries again instead of giving up.
FinalizeFailedRetry(t) == Goto(t, "ensure") /\ UNCHANGED aborted

FinalizeFailed(t) == fatal_abort /\ UNCHANGED pc

Finalize(t) ==
  /\ Step(t, "finalize")
  /\ \E o \in Device!EndOutcomes(card) :
       /\ card' = o.card
       /\ \/ /\ o.ok
             /\ storageSDinitialized' = FALSE
             /\ Goto(t, "initialize")
             /\ UNCHANGED aborted
          \/ ~o.ok /\ FinalizeFailed(t) /\ UNCHANGED storageSDinitialized
  /\ UNCHANGED <<call, lockVars, sdmmc_first_init, init_done,
                 nand_patrol_checked, fileVars, modeVars, current_accessor,
                 did_attach>>

\* The end of _sdmmc_ensure_initialized after sdmmc_initialize: the first time
\* sets sdmmc_first_init, the second init_done.
Initialized(t) ==
  /\ sdmmc_first_init' = TRUE
  /\ init_done' = sdmmc_first_init
  /\ Goto(t, AfterEnsure(t))

(* The retry loop around nx_sd_initialize(false).  The loop's later rounds
   change nothing: a failed nx_sd_initialize leaves no speed to try.       *)
Initialize(t) ==
  /\ Step(t, "initialize")
  /\ \/ /\ storageSDinitialized
        /\ Initialized(t)
        /\ UNCHANGED <<storageSDinitialized, card, aborted>>
     \/ /\ ~storageSDinitialized
        /\ \E o \in Device!InitOutcomes(card) :
             /\ card' = o.card
             /\ \/ /\ o.ok
                   /\ storageSDinitialized' = TRUE
                   /\ Goto(t, IF EMMC_Type = SD_File /\ ~fat_mounted
                              THEN "mount" ELSE "patrol")
                   /\ UNCHANGED aborted
                \/ ~o.ok /\ fatal_abort /\ UNCHANGED <<pc, storageSDinitialized>>
        /\ UNCHANGED <<sdmmc_first_init, init_done>>
  /\ UNCHANGED <<call, lockVars, nand_patrol_checked, fileVars, modeVars,
                 current_accessor, did_attach>>

(* f_mount: reads the card through hekate's driver.                        *)
Mount(t) ==
  /\ Step(t, "mount")
  /\ \E o \in Device!TransferOutcomes(card) :
       /\ card' = o.card
       /\ \/ o.ok /\ fat_mounted' = TRUE /\ Goto(t, "openFiles") /\ UNCHANGED aborted
          \/ ~o.ok /\ fatal_abort /\ UNCHANGED <<pc, fat_mounted>>
  /\ UNCHANGED <<call, lockVars, initVars, parts, open_files, dirty_files,
                 modeVars, current_accessor, did_attach>>

\* Mutant of PartCount: one part too many.
PartCountOffByOne(n) == IF n = 1 THEN 0 ELSE n + 1

\* f_emu.parts for n files opened.
PartCount(n) == IF n = 1 THEN 0 ELSE n

(* _file_based_emmc_initialize: BOOT0, BOOT1 and 00 must open; the first later
   file that does not open, for whatever reason, ends the list.            *)
OpenFiles(t) ==
  /\ Step(t, "openFiles")
  /\ \E o \in Device!TransferOutcomes(card) :
       /\ card' = o.card
       /\ \/ \E n \in 1..GppFiles :
               /\ o.ok => n = GppFiles
               /\ parts' = PartCount(n)
               /\ open_files' = open_files \cup BootFiles \cup Gpp(n)
               /\ dirty_files' = dirty_files \ (BootFiles \cup Gpp(n))
               /\ Goto(t, "patrol")
               /\ UNCHANGED aborted
          \/ /\ ~o.ok
             /\ fatal_abort
             /\ UNCHANGED <<pc, parts, open_files, dirty_files>>
  /\ UNCHANGED <<call, lockVars, initVars, fat_mounted, modeVars,
                 current_accessor, did_attach>>

(* _nand_patrol_ensure_integrity: one read and perhaps one write, once; and
   the return to _sdmmc_ensure_initialized.                                *)
Patrol(t) ==
  /\ Step(t, "patrol")
  /\ \/ nand_patrol_checked /\ UNCHANGED card
     \/ /\ ~nand_patrol_checked
        /\ \E r \in Device!TransferOutcomes(card) :
             \/ card' = r.card
             \/ r.ok /\ \E w \in Device!TransferOutcomes(r.card) : card' = w.card
  /\ nand_patrol_checked' = TRUE
  /\ Initialized(t)
  /\ UNCHANGED <<call, lockVars, storageSDinitialized, fileVars, modeVars,
                 current_accessor, did_attach, aborted>>

-----------------------------------------------------------------------------
(* The transfer                                                            *)

\* After the first SD read of a raw emuMMC, SD goes back to FS's driver.
FirstSdRead(t) ==
  /\ Step(t, "firstSd")
  /\ first_sd_read' = FALSE
  /\ \/ /\ first_sd_read /\ EMMC_Type = SD_Raw
        /\ custom_driver' = FALSE
        /\ sd_mutex' = Unlocked(sd_mutex)
     \/ /\ ~(first_sd_read /\ EMMC_Type = SD_Raw)
        /\ UNCHANGED <<custom_driver, sd_mutex>>
  /\ Goto(t, "transfer")
  /\ UNCHANGED <<call, nand_mutex, initVars, fileVars, current_accessor,
                 did_attach, card, aborted>>

FileCall(t) == EMMC_Type = SD_File /\ call[t].dev = "EMMC"

\* f_lseek and f_read_fast refuse a handle that is not open on the mounted
\* volume.
FileValid(f) == fat_mounted /\ f \in open_files

\* Mutant of TransferError: the error path forgets nand_mutex.
TransferErrorKeepsNand(t) == Goto(t, "unlockSd")

\* return 0 from emummc_read_write_inner, FS_READ_WRITE_ERROR from the hook.
TransferError(t) == Goto(t, "unlockNand")

\* Mutant of Driver: sdmmc_storage_read does not look at custom_driver.
DriverHekate == "hekate"

\* The driver that sdmmc_storage_read and sdmmc_storage_write choose.
Driver == IF custom_driver THEN "hekate" ELSE "fsLock"

(* emummc_read_write_inner and the test in sdmmc_storage_read/write: an eMMC
   access may be out of bounds or have no valid file to go to.             *)
Transfer(t) ==
  /\ Step(t, "transfer")
  /\ \/ call[t].dev = "EMMC" /\ TransferError(t)
     \/ /\ FileCall(t) => \E f \in Files : FileValid(f)
        /\ Goto(t, Driver)
  /\ UNCHANGED <<call, lockVars, initVars, fileVars, modeVars,
                 current_accessor, did_attach, card, aborted>>

(* hekate's driver returns; a file written with f_write_fast is now
   FA_MODIFIED and stays so until it is closed.                            *)
HekateDone(t) ==
  /\ Step(t, "hekate")
  /\ \E o \in Device!TransferOutcomes(card) : card' = o.card
  /\ \/ /\ FileCall(t) /\ call[t].op = "write"
        /\ \E f \in Files : FileValid(f) /\ dirty_files' = dirty_files \cup {f}
     \/ UNCHANGED dirty_files
  /\ Goto(t, "unlockNand")
  /\ UNCHANGED <<call, lockVars, initVars, fat_mounted, parts, open_files,
                 modeVars, current_accessor, did_attach, aborted>>

\* FS's SD driver: sd_mutex around its own transfer or initialization.
FsLock(t) ==
  /\ Step(t, "fsLock") /\ CanLock(sd_mutex, t)
  /\ sd_mutex' = Locked(sd_mutex, t)
  /\ Goto(t, "fsBusy")
  /\ UNCHANGED <<call, nand_mutex, initVars, fileVars, modeVars,
                 current_accessor, did_attach, card, aborted>>

FsDone(t) ==
  /\ Step(t, "fsBusy")
  /\ \/ UNCHANGED card
     \/ call[t].op = "open" /\ card' = [card EXCEPT !.power = TRUE]
  /\ sd_mutex' = Unlocked(sd_mutex)
  /\ Goto(t, "unlockNand")
  /\ UNCHANGED <<call, nand_mutex, initVars, fileVars, modeVars,
                 current_accessor, did_attach, aborted>>

-----------------------------------------------------------------------------
(* mutex_unlock_handler, and the return to FS                              *)

UnlockNand(t) ==
  /\ Step(t, "unlockNand")
  /\ nand_mutex' = Unlocked(nand_mutex)
  /\ Goto(t, "unlockSd")
  /\ UNCHANGED <<call, sd_mutex, initVars, fileVars, modeVars,
                 current_accessor, did_attach, card, aborted>>

UnlockSd(t) ==
  /\ Step(t, "unlockSd")
  /\ sd_mutex' = IF custom_driver THEN Unlocked(sd_mutex) ELSE sd_mutex
  /\ Return(t)
  /\ UNCHANGED <<nand_mutex, initVars, fileVars, modeVars,
                 current_accessor, did_attach, card, aborted>>

-----------------------------------------------------------------------------
(* sdmmc_wrapper_controller_close(FS_SDMMC_EMMC): no mutex is taken        *)

\* The handles _file_based_emmc_finalize closes: BOOT0, BOOT1 and the first
\* f_emu.parts GPP files.
ClosedHandles == BootFiles \cup Gpp(parts)

CloseFiles(t) ==
  /\ Step(t, "closeFiles")
  /\ \/ /\ EMMC_Type = SD_File /\ fat_mounted
        /\ open_files' = open_files \ (ClosedHandles \ dirty_files)
        /\ Goto(t, IF dirty_files \cap ClosedHandles = {} THEN "unmount"
                   ELSE "closeSync")
     \/ /\ ~(EMMC_Type = SD_File /\ fat_mounted)
        /\ Goto(t, "closeLock")
        /\ UNCHANGED open_files
  /\ UNCHANGED <<call, lockVars, initVars, fat_mounted, parts, dirty_files,
                 modeVars, current_accessor, did_attach, card, aborted>>

\* f_close syncs a modified file: hekate's driver writes its directory entry.
\* A handle whose sync fails stays open.
CloseSync(t) ==
  /\ Step(t, "closeSync")
  /\ \E o \in Device!TransferOutcomes(card) :
       \E synced \in SUBSET (dirty_files \cap ClosedHandles) :
         /\ o.ok => synced = dirty_files \cap ClosedHandles
         /\ card' = o.card
         /\ open_files' = open_files \ synced
         /\ dirty_files' = dirty_files \ synced
  /\ Goto(t, "unmount")
  /\ UNCHANGED <<call, lockVars, initVars, fat_mounted, parts, modeVars,
                 current_accessor, did_attach, aborted>>

\* Mutant of Unmounted: fat_mounted is not reset.
UnmountedKeepsFlag == UNCHANGED fat_mounted

Unmounted == fat_mounted' = FALSE

Unmount(t) ==
  /\ Step(t, "unmount")
  /\ Unmounted
  /\ Goto(t, "closeLock")
  /\ UNCHANGED <<call, lockVars, initVars, parts, open_files, dirty_files,
                 modeVars, current_accessor, did_attach, card, aborted>>

\* FS's controller_close of the SD card, which may cut its power, and of the
\* eMMC, which does not concern us.
CloseLock(t) ==
  /\ Step(t, "closeLock") /\ CanLock(sd_mutex, t)
  /\ sd_mutex' = Locked(sd_mutex, t)
  /\ Goto(t, "closeBusy")
  /\ UNCHANGED <<call, nand_mutex, initVars, fileVars, modeVars,
                 current_accessor, did_attach, card, aborted>>

CloseDone(t) ==
  /\ Step(t, "closeBusy")
  /\ \/ UNCHANGED card
     \/ card' = [card EXCEPT !.power = FALSE, !.cut = TRUE]
  /\ sd_mutex' = Unlocked(sd_mutex)
  /\ Return(t)
  /\ UNCHANGED <<nand_mutex, initVars, fileVars, modeVars,
                 current_accessor, did_attach, aborted>>

-----------------------------------------------------------------------------
(* "The boot sysmodule will eventually kill power to SD" (emummc.c:78).    *)
BootKillsPower ==
  /\ ~aborted /\ ~card.cut
  /\ card' = [card EXCEPT !.power = FALSE, !.cut = TRUE]
  /\ UNCHANGED <<pc, call, lockVars, initVars, fileVars, modeVars,
                 current_accessor, did_attach, aborted>>

\* After fatal_abort the console shows the error and stays there.
Stopped == aborted /\ UNCHANGED vars

ThreadStep(t) ==
  \/ LockTest(t) \/ LockSd(t) \/ LockNand(t) \/ Enter(t)
  \/ Ensure(t) \/ Finalize(t) \/ Initialize(t) \/ Mount(t) \/ OpenFiles(t)
  \/ Patrol(t) \/ FirstSdRead(t) \/ Transfer(t) \/ HekateDone(t)
  \/ FsLock(t) \/ FsDone(t) \/ UnlockNand(t) \/ UnlockSd(t)
  \/ CloseFiles(t) \/ CloseSync(t) \/ Unmount(t) \/ CloseLock(t) \/ CloseDone(t)

Next ==
  \/ \E t \in Threads : Call(t) \/ ThreadStep(t)
  \/ BootKillsPower
  \/ Stopped

Spec == Init /\ [][Next]_vars

(* A thread inside a call keeps running, and a thread that waits for a mutex
   is not passed over for ever: the kernel hands a released mutex to a waiter
   (svcArbitrateUnlock), hence strong fairness.  Nothing obliges FS to call,
   nor the boot sysmodule to cut the power.                                *)
Fairness == \A t \in Threads : SF_vars(ThreadStep(t))

FairSpec == Spec /\ Fairness

-----------------------------------------------------------------------------
(* Properties                                                              *)

Mutexes == [owner : Threads \cup {NoOwner}, count : Nat]

TypeOK ==
  /\ pc \in [Threads -> Pcs]
  /\ call \in [Threads -> Calls \cup {NoCall}]
  /\ sd_mutex \in Mutexes /\ nand_mutex \in Mutexes
  /\ custom_driver \in BOOLEAN /\ first_sd_read \in BOOLEAN
  /\ current_accessor \in {NoAccessor, "EMMC", "SD"}
  /\ did_attach \in BOOLEAN
  /\ sdmmc_first_init \in BOOLEAN /\ storageSDinitialized \in BOOLEAN
  /\ init_done \in BOOLEAN /\ nand_patrol_checked \in BOOLEAN
  /\ fat_mounted \in BOOLEAN /\ parts \in 0..GppFiles
  /\ open_files \subseteq Files /\ dirty_files \subseteq Files
  /\ card \in Device!Card
  /\ aborted \in BOOLEAN

\* The thread is using the SDMMC1 controller, by hekate's driver or by FS's.
InDriver(t) ==
  pc[t] \in {"finalize", "initialize", "mount", "openFiles", "patrol",
             "hekate", "fsBusy", "closeSync", "closeBusy"}

(* No two threads use the SD controller at the same time, whichever of the
   two drivers each of them uses and whatever has become of sd_mutex.      *)
OneDriverAtATime ==
  \A t, u \in Threads : InDriver(t) /\ InDriver(u) => t = u

(* hekate's driver takes its DMA buffers from the global _current_accessor:
   while a hook uses it, that is the accessor of the hook's own device.    *)
AccessorIsCallers ==
  \A t \in Threads : pc[t] \in HekatePcs => current_accessor = call[t].dev

(* A hook gives back what it takes: between two calls a thread owns neither
   mutex.                                                                  *)
NoMutexLeak ==
  \A t \in Threads : pc[t] = "idle" => t \notin {sd_mutex.owner, nand_mutex.owner}

(* sd_mutex comes before nand_mutex: no thread waits for sd_mutex while it
   holds nand_mutex and keeps others from letting sd_mutex go.             *)
SdBeforeNand ==
  \A t \in Threads :
    pc[t] \in {"lockSd", "fsLock"} /\ nand_mutex.owner = t => sd_mutex.owner = t

(* init_done records that the boot sysmodule's power cut has been dealt with:
   it is never set by a power pin that this driver has pulled low itself.  *)
InitDoneOnlyAfterCut == init_done => card.cut

(* Once SD has been handed to FS's driver no data moves through hekate's,
   although each transfer chose its driver on its own, earlier.            *)
HekateOnlyWhileCustom ==
  \A t \in Threads : pc[t] = "hekate" => custom_driver

(* While the volume is mounted, every handle that emummc_read_write_inner may
   index, up to f_emu.parts, is open, except while a thread is opening or
   closing them.                                                           *)
MountedFilesOpen ==
  fat_mounted /\ ~aborted
    /\ (\A t \in Threads : pc[t] \notin {"openFiles", "closeSync", "unmount"})
  => BootFiles \cup Gpp(1) \cup Gpp(parts) \subseteq open_files

(* Every call returns, unless the console has stopped.                     *)
CallsReturn ==
  \A t \in Threads : pc[t] # "idle" ~> (pc[t] = "idle" \/ aborted)

-----------------------------------------------------------------------------
(* The inductive invariant behind them (EmummcHooksProofs).                *)

\* nand_mutex is owned, once, by the thread between mutex_lock_handler and
\* mutex_unlock_handler.
NandInv ==
  /\ nand_mutex.count = IF nand_mutex.owner = NoOwner THEN 0 ELSE 1
  /\ \A t \in Threads : pc[t] \in LockedPcs <=> nand_mutex.owner = t

\* Nothing else runs while the eMMC is closed.
CloseInv ==
  QuiescentClose =>
    \A t, u \in Threads : pc[t] \in ClosePcs /\ u # t => pc[u] = "idle"

\* In a file based emuMMC the custom driver stays, and with it the rule that a
\* hook owns sd_mutex from its lock handler to its unlock handler.
SdPcs == {"lockNand", "unlockSd", "closeBusy"} \cup LockedPcs
SdInv ==
  EMMC_Type = SD_File =>
    /\ custom_driver
    /\ \A t \in Threads : pc[t] \in SdPcs <=> sd_mutex.owner = t
    /\ \A t \in Threads :
         sd_mutex.owner = t => sd_mutex.count = IF pc[t] = "fsBusy" THEN 2 ELSE 1
    /\ sd_mutex.owner = NoOwner => sd_mutex.count = 0

\* A second initialization is only ever on its way after a power cut.
CutInv ==
  /\ Device!Plausible(card)
  /\ init_done => card.cut
  /\ \A t \in Threads :
       /\ pc[t] = "finalize" => sdmmc_first_init /\ ~card.power
       /\ sdmmc_first_init /\ pc[t] \in {"initialize", "mount", "openFiles", "patrol"}
            => card.cut

-----------------------------------------------------------------------------
(* Properties that comments of emummc.c state and the code does not have.  *)

(* emummc.c:503: "FS will handle sd mutex w/o custom driver from here on".
   With the custom driver off, no thread that is back from its hook still
   owns sd_mutex.                                                          *)
FsHandlesSdMutex ==
  ~custom_driver => \A t \in Threads : pc[t] = "idle" => sd_mutex.owner # t

(* emummc.c:101: "Close all open handles".  Once the volume is unmounted no
   file handle is open.                                                    *)
AllHandlesClosed ==
  \A t \in Threads : pc[t] = "closeLock" => open_files = {}
=============================================================================
