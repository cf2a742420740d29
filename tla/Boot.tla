-------------------------------- MODULE Boot --------------------------------
(***************************************************************************)
(* What emuMMC does once, before FS begins to run: __init of               *)
(* source/main.c.  It learns where it was loaded, takes its configuration  *)
(* from the secure monitor, gets a handle of FS (ProcessHandle), maps FS's *)
(* code writable at a random place, writes the hooks, the nops and the     *)
(* path of its Nintendo folder over it, unmaps it, and starts I2C5.        *)
(*                                                                         *)
(* FS's code is seen through the words written: written is the list of     *)
(* every _write32, in order.                                               *)
(*                                                                         *)
(* External: the kernel and the secure monitor, whose calls may fail; the  *)
(* loader, which chooses text_base.                                        *)
(***************************************************************************)
EXTENDS ProcessHandle, FsOffsets, FsPatch, FiniteSets, Functions

CONSTANTS
  BasePages,    (* The pages that text_base can be in.                     *)
  InjectedSize, (* INJECTED_SIZE, a whole number of pages.                 *)
  Symbol,       (* Where the image has the functions and strings it links. *)
  FsVersions    (* The fs_version of a configuration; FS_VER_MAX is none.  *)

Wrappers == {"sdmmc_wrapper_read", "sdmmc_wrapper_write",
                 "sdmmc_wrapper_controller_open",
                 "sdmmc_wrapper_controller_close",
                 "clkrst_set_min_v_clock_rate"}
Strings == {"nintendo_path", "nintendo_path_album_100",
               "nintendo_path_contents_100"}

ASSUME BaseAssumption   == BasePages \subseteq Nat
ASSUME SizeAssumption   == InjectedSize \in Nat /\ InjectedSize % PageSize = 0
ASSUME SymbolAssumption ==
  /\ Symbol \in [Wrappers \cup Strings -> 0..(InjectedSize - 1)]
  /\ \A f \in Wrappers : Symbol[f] % 4 = 0
ASSUME VersionAssumption == FsVersions \subseteq 0..FS_VER_MAX

VARIABLES
  boot,          (* Where __init is.                                       *)
  text_base,     (* The page of the image's first byte.                    *)
  emuMMC_ctx,    (* The configuration taken.                               *)
  path_text,     (* What the strings of Strings hold.                   *)
  fs_offsets,    (* The table of this build of FS.                         *)
  fs_rw_mapping, (* "NULL", "random": chosen, or "mapped".                 *)
  written,       (* <<offset in FS's code, instruction>> of each _write32. *)
  pointers,      (* The functions and data of FS that the hooks use.       *)
  i2c5           (* "off", "clocked", "ready"                              *)

bootVars == <<text_base, emuMMC_ctx, path_text, fs_offsets, fs_rw_mapping,
              written, pointers, i2c5>>
vars == <<boot, bootVars, handleVars>>

NoContext == [fs_ver |-> FS_VER_MAX, EMMC_Type |-> "EMMC", file |-> FALSE,
              partition |-> FALSE]
NoTable    == [nintendo_paths |-> <<End>>]
NoPointers == [f \in {} |-> 0]

\* A text is the sequence of its pieces.
DefaultPaths ==
  [nintendo_path              |-> <<"Nintendo">>,
   nintendo_path_album_100    |-> <<"/", "Nintendo", "/Album">>,
   nintendo_path_contents_100 |-> <<"/", "Nintendo", "/Contents">>]

Init ==
  /\ HandleInit
  /\ boot = "query" /\ text_base \in BasePages
  /\ emuMMC_ctx = NoContext /\ path_text = DefaultPaths
  /\ fs_offsets = NoTable /\ fs_rw_mapping = "NULL"
  /\ written = <<>> /\ pointers = NoPointers /\ i2c5 = "off"

-----------------------------------------------------------------------------
(* Addresses                                                               *)

INJECT_OFFSET(offset) == InjectedSize + offset

PageOf(address) == text_base + address \div PageSize

\* emuMMC_ctx.fs_ver >= FS_VER_...; FS_VER is in the order of enum FS_VER.
AtLeast(name) == Since(name, emuMMC_ctx.fs_ver)

-----------------------------------------------------------------------------
(* The parts of __init                                                     *)

At(step) == boot = step

fatal_abort == boot' = "fatal"

\* svcQueryMemory of the image and of FS's code.
QueryMemory ==
  /\ At("query") /\ boot' = "config"
  /\ UNCHANGED <<bootVars, handleVars>>

\* What smcGetEmummcConfig can return.
Configs == [magic : BOOLEAN, type : {"EMMC", "SD_Raw", "SD_File"},
            fs_version : FsVersions, nintendo_path : {"", "custom"}]

\* emummc/Nintendo_%04x, of the id.
GeneratedPath == "emummc/Nintendo_id"

TakenVersion(c) == c.fs_version

load_emummc_ctx ==
  /\ At("config")
  /\ \E c \in Configs :
       /\ c.magic
       /\ emuMMC_ctx' = [fs_ver |-> TakenVersion(c), EMMC_Type |-> c.type,
                         file |-> c.type = "SD_File",
                         partition |-> c.type = "SD_Raw"]
       /\ path_text' = [path_text EXCEPT !.nintendo_path =
                          IF c.nintendo_path = "" THEN <<GeneratedPath>>
                          ELSE <<c.nintendo_path>>]
  /\ boot' = "offsets"
  /\ UNCHANGED <<text_base, fs_offsets, fs_rw_mapping, written, pointers, i2c5,
                 handleVars>>

\* The secure monitor refuses, or the magic is not EMUMMC_STORAGE_MAGIC.
ConfigFails ==
  /\ At("config") /\ fatal_abort
  /\ UNCHANGED <<bootVars, handleVars>>

ChooseOffsets ==
  /\ At("offsets")
  /\ emuMMC_ctx.fs_ver < FS_VER_MAX
  /\ fs_offsets' = get_fs_offsets[FS_VER[emuMMC_ctx.fs_ver + 1]]
  /\ boot' = "handle"
  /\ caller' = "createSession"
  /\ UNCHANGED <<text_base, emuMMC_ctx, path_text, fs_rw_mapping, written,
                 pointers, i2c5, helper, server, client, request,
                 thread_handle, self_proc_handle>>

\* Fatal_UnknownVersion
UnknownVersion ==
  /\ At("offsets") /\ emuMMC_ctx.fs_ver >= FS_VER_MAX /\ fatal_abort
  /\ UNCHANGED <<bootVars, handleVars>>

\* A step of _init_process_handle, or of the thread that it starts.
ProcessHandleStep ==
  /\ At("handle") /\ caller # "returned"
  /\ Caller
  /\ boot' = IF caller' = "fatal" THEN "fatal"
             ELSE IF caller' = "returned" THEN "map" ELSE boot
  /\ UNCHANGED bootVars

HelperStep == Helper /\ UNCHANGED <<boot, bootVars>>

\* One round of the loop of _map_fs_rw: taken, or to be tried elsewhere.
_map_fs_rw ==
  /\ At("map")
  /\ \/ /\ self_proc_handle = FsHandle
        /\ fs_rw_mapping' = "mapped" /\ boot' = "setup_hooks"
     \/ fs_rw_mapping' = "random" /\ boot' = "map"
  /\ UNCHANGED <<text_base, emuMMC_ctx, path_text, fs_offsets, written,
                 pointers, i2c5, handleVars>>

\* smcGenerateRandomBytes fails, or the kernel gives another error.
MapFails ==
  /\ At("map") /\ fatal_abort
  /\ UNCHANGED <<bootVars, handleVars>>

\* write_adrp_add: the pair of a path, made to give the address of a string.
write_adrp_add(path, string) ==
  LET pc  == INJECT_OFFSET(path.adrp_offset)
      reg == path.opcode_reg
  IN <<<<path.adrp_offset,
         GENERATE_ADRP(reg, PageOffset(PageOf(pc), PageOf(Symbol[string])))>>,
       <<path.adrp_offset + path.add_rel_offset,
         GENERATE_ADD(reg, reg, Symbol[string] % PageSize)>>>>

INJECT_HOOK(offset, function) ==
  <<<<offset, GENERATE_BRANCH(INJECT_OFFSET(offset), Symbol[function])>>>>

INJECT_HOOK_RELATIVE(offset, relative_destination) ==
  <<<<offset, GENERATE_BRANCH(INJECT_OFFSET(offset),
                          INJECT_OFFSET(offset) + relative_destination)>>>>

\* Mutant of ControllerOpenHook: hooked whether or not the build has it.
ControllerOpenHookAlways(fs) ==
  INJECT_HOOK(fs.sdmmc_accessor_controller_open,
              "sdmmc_wrapper_controller_open")

ControllerOpenHook(fs) ==
  IF fs.sdmmc_accessor_controller_open = 0 THEN <<>>
  ELSE INJECT_HOOK(fs.sdmmc_accessor_controller_open,
                   "sdmmc_wrapper_controller_open")

WriteHook(fs) == INJECT_HOOK(fs.sdmmc_wrapper_write, "sdmmc_wrapper_write")

\* The regulator is already on, and from 8.0.0 on FS would abort.
ClkrstHook(fs) ==
  IF AtLeast("FS_VER_8_0_0")
  THEN INJECT_HOOK(fs.clkrst_set_min_v_clock_rate,
                   "clkrst_set_min_v_clock_rate")
  ELSE <<>>

Hooks(fs) ==
  INJECT_HOOK_RELATIVE(fs.rtld, fs.rtld_destination)
    \o INJECT_HOOK(fs.sdmmc_wrapper_read, "sdmmc_wrapper_read")
    \o WriteHook(fs)
    \o ControllerOpenHook(fs)
    \o INJECT_HOOK(fs.sdmmc_accessor_controller_close,
                   "sdmmc_wrapper_controller_close")
    \o ClkrstHook(fs)

setup_hooks ==
  /\ At("setup_hooks") /\ boot' = "pointers"
  /\ written' = written \o Hooks(fs_offsets)
  /\ UNCHANGED <<text_base, emuMMC_ctx, path_text, fs_offsets, fs_rw_mapping,
                 pointers, i2c5, handleVars>>

Called  == {"sdmmc_accessor_gc", "sdmmc_accessor_sd", "sdmmc_accessor_nand",
            "lock_mutex", "unlock_mutex"}
DataOfFs == {"sd_mutex", "nand_mutex", "active_partition", "sdmmc_das_handle"}

populate_function_pointers ==
  /\ At("pointers") /\ boot' = "nops"
  /\ pointers' = [f \in Called \cup DataOfFs |-> INJECT_OFFSET(fs_offsets[f])]
  /\ UNCHANGED <<text_base, emuMMC_ctx, path_text, fs_offsets, fs_rw_mapping,
                 written, i2c5, handleVars>>

\* From 7.0.0 on FS would abort because SD is already attached.
INJECT_NOP(fs) ==
  IF AtLeast("FS_VER_7_0_0") THEN <<<<fs.sd_das_init, GENERATE_NOP>>>> ELSE <<>>

write_nops ==
  /\ At("nops") /\ boot' = "paths"
  /\ written' = written \o INJECT_NOP(fs_offsets)
  /\ UNCHANGED <<text_base, emuMMC_ctx, path_text, fs_offsets, fs_rw_mapping,
                 pointers, i2c5, handleVars>>

\* The pairs before the first one with adrp_offset 0.
PathIndices(paths) ==
  {i \in DOMAIN paths : \A j \in 1..i : paths[j].adrp_offset # 0}

\* The loop over the pairs, two words for each.
RedirectAll(paths) ==
  [k \in 1..(2 * Cardinality(PathIndices(paths))) |->
     write_adrp_add(paths[(k + 1) \div 2], "nintendo_path")[2 - (k % 2)]]

setup_nintendo_paths ==
  /\ At("paths") /\ boot' = "unmap"
  /\ LET paths == fs_offsets.nintendo_paths
         name  == path_text.nintendo_path
     IN IF AtLeast("FS_VER_2_0_0")  \* fs_ver > FS_VER_1_0_0
        THEN written' = written \o RedirectAll(paths) /\ UNCHANGED path_text
        ELSE /\ path_text' =
                  [nintendo_path              |-> name,
                   nintendo_path_album_100    |-> <<"/">> \o name \o <<"/Album">>,
                   nintendo_path_contents_100 |-> <<"/">> \o name \o <<"/Contents">>]
             /\ written' = written
                  \o write_adrp_add(paths[1], "nintendo_path_album_100")
                  \o write_adrp_add(paths[2], "nintendo_path_contents_100")
  /\ UNCHANGED <<text_base, emuMMC_ctx, fs_offsets, fs_rw_mapping, pointers,
                 i2c5, handleVars>>

_unmap_fs_rw ==
  /\ At("unmap") /\ boot' = "clock" /\ fs_rw_mapping' = "NULL"
  /\ UNCHANGED <<text_base, emuMMC_ctx, path_text, fs_offsets, written,
                 pointers, i2c5, handleVars>>

UnmapFails ==
  /\ At("unmap") /\ fatal_abort
  /\ UNCHANGED <<bootVars, handleVars>>

clock_enable_i2c5 ==
  /\ At("clock") /\ boot' = "i2c" /\ i2c5' = "clocked"
  /\ UNCHANGED <<text_base, emuMMC_ctx, path_text, fs_offsets, fs_rw_mapping,
                 written, pointers, handleVars>>

i2c_init ==
  /\ At("i2c") /\ boot' = "running" /\ i2c5' = "ready"
  /\ UNCHANGED <<text_base, emuMMC_ctx, path_text, fs_offsets, fs_rw_mapping,
                 written, pointers, handleVars>>

-----------------------------------------------------------------------------
Main ==
  \/ QueryMemory \/ load_emummc_ctx \/ ConfigFails
  \/ ChooseOffsets \/ UnknownVersion \/ ProcessHandleStep
  \/ _map_fs_rw \/ MapFails
  \/ setup_hooks \/ populate_function_pointers \/ write_nops
  \/ setup_nintendo_paths \/ _unmap_fs_rw \/ UnmapFails
  \/ clock_enable_i2c5 \/ i2c_init

\* FS runs, or a thread has called fatal_abort, which reboots the console.
Ended == boot \in {"running", "fatal"} \/ helper = "fatal"

Done == Ended /\ UNCHANGED vars

Next == Main \/ HelperStep \/ Done

\* Both threads are scheduled; a random place is free sooner or later.
Fairness ==
  /\ WF_vars(Main) /\ WF_vars(HelperStep)
  /\ SF_vars(_map_fs_rw /\ fs_rw_mapping' = "mapped")

Spec     == Init /\ [][Next]_vars
FairSpec == Spec /\ Fairness

-----------------------------------------------------------------------------
(* Properties                                                              *)

Running == boot = "running"

Sites == {written[i][1] : i \in DOMAIN written}

\* What the processor fetches at an offset that was written.
Word(offset) ==
  (CHOOSE w \in Range(written) : w[1] = offset)[2]

\* The sites of a build that are replaced by a branch, and the wrapper behind
\* each; 0 where the build has no such site.
HookSites ==
  {<<fs_offsets.sdmmc_wrapper_read, "sdmmc_wrapper_read">>,
   <<fs_offsets.sdmmc_wrapper_write, "sdmmc_wrapper_write">>,
   <<fs_offsets.sdmmc_accessor_controller_open,
     "sdmmc_wrapper_controller_open">>,
   <<fs_offsets.sdmmc_accessor_controller_close,
     "sdmmc_wrapper_controller_close">>,
   <<fs_offsets.clkrst_set_min_v_clock_rate, "clkrst_set_min_v_clock_rate">>}

Paths == fs_offsets.nintendo_paths

\* The pairs of instructions that name the Nintendo folder.
Pairs == {i \in DOMAIN Paths : Paths[i] # End}

\* When FS starts to run, the words changed are those that its table lists,
\* each of them once, whichever version made the code look at them: a site that
\* is 0 is left alone, one that is not is patched, and no two entries of a
\* build name the same place (main.c, 280 to 329 and 374 to 404).
PatchedAsListed ==
  Running =>
    /\ Sites = ({fs_offsets.rtld, fs_offsets.sd_das_init}
                  \cup {h[1] : h \in HookSites}
                  \cup {Paths[i].adrp_offset : i \in Pairs}
                  \cup {Paths[i].adrp_offset + Paths[i].add_rel_offset :
                          i \in Pairs}) \ {0}
    /\ \A i, j \in DOMAIN written : written[i][1] = written[j][1] => i = j

\* Every hooked function of FS goes to its wrapper, and rtld to its own
\* destination, wherever FS was loaded (main.c, 68 to 76 and 257).
HooksReach ==
  Running =>
    /\ \A h \in HookSites : h[1] # 0 =>
         BranchTarget(Word(h[1]), INJECT_OFFSET(h[1])) = Symbol[h[2]]
    /\ BranchTarget(Word(fs_offsets.rtld), INJECT_OFFSET(fs_offsets.rtld))
         = INJECT_OFFSET(fs_offsets.rtld + fs_offsets.rtld_destination)

\* The pair of instructions p gives the address of string s.
LeadsTo(p, s) ==
  LET adrp == Word(p.adrp_offset)
      add  == Word(p.adrp_offset + p.add_rel_offset)
  IN /\ adrp.reg = p.opcode_reg /\ add.reg = adrp.reg /\ add.target = adrp.reg
     /\ AdrpPage(adrp, PageOf(INJECT_OFFSET(p.adrp_offset)))
          = PageOf(Symbol[s])
     /\ add.imm = Symbol[s] % PageSize

SameWindow(a, b) == PageOf(a) \div Window = PageOf(b) \div Window

\* The string for a pair: 1.0.0 names its album and its contents apart.
StringFor(i) ==
  IF AtLeast("FS_VER_2_0_0") THEN "nintendo_path"
  ELSE IF i = 1 THEN "nintendo_path_album_100"
  ELSE "nintendo_path_contents_100"

\* Every place of FS that names the Nintendo folder is made to name emuMMC's,
\* never the console's own, exactly when the place and the string lie in the
\* same 4 GB of the address space: the mask of write_adrp_add drops the rest
\* of the difference (main.c, 268 and 374).
PathsRedirected ==
  Running =>
    \A i \in Pairs :
      /\ path_text[StringFor(i)] # DefaultPaths[StringFor(i)]
      /\ LeadsTo(Paths[i], StringFor(i))
           <=> SameWindow(INJECT_OFFSET(Paths[i].adrp_offset), Symbol[StringFor(i)])

\* Whatever fails, __init comes to an end: FS runs, or fatal_abort reboots.
BootEnds == <>Ended
=============================================================================
