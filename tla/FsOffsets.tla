----------------------------- MODULE FsOffsets ------------------------------
(***************************************************************************)
(* Where the code that emuMMC patches, calls and reads lies in each build  *)
(* of FS: source/FS/offsets/<build>.h, one record a header, with the       *)
(* fields of fs_offsets_t (FS_offsets.h) as DEFINE_OFFSET_STRUCT of        *)
(* FS_offsets.c fills them; source/FS/FS_versions.h for the order of the   *)
(* builds and get_fs_offsets for the choice.                               *)
(*                                                                         *)
(* Offsets are bytes from the start of FS's code; 0 stands for "this build *)
(* has no such site".  rtld_destination is relative to rtld and signed     *)
(* (the headers cast it to uintptr_t, and the sum wraps to the same        *)
(* address).  Where an exFAT build has the code of the plain one the       *)
(* record says so, and gives only the data that moved.                     *)
(***************************************************************************)
EXTENDS Integers, Sequences

\* fs_offsets_nintendo_path_t: an ADRP at adrp_offset into opcode_reg, and the
\* ADD that completes the address add_rel_offset bytes further.
Path(reg, adrp, add) ==
  [opcode_reg |-> reg, adrp_offset |-> adrp, add_rel_offset |-> add]

\* Half of what a branch reaches: 2^26 bytes.
Reach == 67108864

\* What ends a list of paths.
End == Path(0, 0, 0)

-----------------------------------------------------------------------------
FS_OFFSET_100 == [
  sdmmc_accessor_gc |-> \h6F850, sdmmc_accessor_sd |-> \h6F65C,
  sdmmc_accessor_nand |-> \h6F230, sdmmc_wrapper_read |-> \h6A930,
  sdmmc_wrapper_write |-> \h6A9F0, rtld |-> \h534, rtld_destination |-> \hA0,
  clkrst_set_min_v_clock_rate |-> 0, sd_das_init |-> 0,
  lock_mutex |-> \h2884, unlock_mutex |-> \h28F0,
  sdmmc_accessor_controller_open |-> 0,
  sdmmc_accessor_controller_close |-> \h6A8AC,
  sd_mutex |-> \hE36058, nand_mutex |-> \hE30610,
  active_partition |-> \hE30650, sdmmc_das_handle |-> \hE2F730,
  nintendo_paths |-> <<Path(8, \h32C58, \h8), Path(9, \h32F40, \h8), End>>]

FS_OFFSET_200 == [
  sdmmc_accessor_gc |-> \h78BAC, sdmmc_accessor_sd |-> \h7894C,
  sdmmc_accessor_nand |-> \h784BC, sdmmc_wrapper_read |-> \h73478,
  sdmmc_wrapper_write |-> \h73538, rtld |-> \h500, rtld_destination |-> \h98,
  clkrst_set_min_v_clock_rate |-> 0, sd_das_init |-> 0,
  lock_mutex |-> \h3264, unlock_mutex |-> \h32D0,
  sdmmc_accessor_controller_open |-> 0,
  sdmmc_accessor_controller_close |-> \h733F4,
  sd_mutex |-> \hE42268, nand_mutex |-> \hE3CED0,
  active_partition |-> \hE3CF10, sdmmc_das_handle |-> \hE3BDD0,
  nintendo_paths |-> <<Path(3, \h33F08, \h4), Path(3, \h35084, \hC), Path(3, \h3537C, \hC),
    End>>]

FS_OFFSET_200_EXFAT == [FS_OFFSET_200 EXCEPT
  !.sd_mutex = \hF22268, !.nand_mutex = \hF1CED0,
  !.active_partition = \hF1CF10, !.sdmmc_das_handle = \hF1BDD0]

FS_OFFSET_210 == [
  sdmmc_accessor_gc |-> \h78F8C, sdmmc_accessor_sd |-> \h78D2C,
  sdmmc_accessor_nand |-> \h7889C, sdmmc_wrapper_read |-> \h73858,
  sdmmc_wrapper_write |-> \h73918, rtld |-> \h500, rtld_destination |-> \h98,
  clkrst_set_min_v_clock_rate |-> 0, sd_das_init |-> 0,
  lock_mutex |-> \h3264, unlock_mutex |-> \h32D0,
  sdmmc_accessor_controller_open |-> 0,
  sdmmc_accessor_controller_close |-> \h737D4,
  sd_mutex |-> \hE43268, nand_mutex |-> \hE3DED0,
  active_partition |-> \hE3DF10, sdmmc_das_handle |-> \hE3CDD0,
  nintendo_paths |-> <<Path(3, \h342E0, \h4), Path(3, \h3545C, \hC), Path(3, \h35754, \hC),
    End>>]

FS_OFFSET_210_EXFAT == [FS_OFFSET_210 EXCEPT
  !.sd_mutex = \hF22268, !.nand_mutex = \hF1CED0,
  !.active_partition = \hF1CF10, !.sdmmc_das_handle = \hF1BDD0]

FS_OFFSET_300 == [
  sdmmc_accessor_gc |-> \h8FAAC, sdmmc_accessor_sd |-> \h8F84C,
  sdmmc_accessor_nand |-> \h8F3B8, sdmmc_wrapper_read |-> \h8A2F4,
  sdmmc_wrapper_write |-> \h8A3B4, rtld |-> \h4E8, rtld_destination |-> \h8C,
  clkrst_set_min_v_clock_rate |-> 0, sd_das_init |-> 0,
  lock_mutex |-> \h35CC, unlock_mutex |-> \h3638,
  sdmmc_accessor_controller_open |-> 0,
  sdmmc_accessor_controller_close |-> \h8A270,
  sd_mutex |-> \hE69268, nand_mutex |-> \hE646F0,
  active_partition |-> \hE64730, sdmmc_das_handle |-> \hE635A0,
  nintendo_paths |-> <<Path(3, \h391F4, \h4), Path(3, \h3A480, \hC), Path(3, \h3A778, \hC),
    End>>]

FS_OFFSET_300_EXFAT == [FS_OFFSET_300 EXCEPT
  !.sd_mutex = \hF4C268, !.nand_mutex = \hF476F0,
  !.active_partition = \hF47730, !.sdmmc_das_handle = \hF465A0]

FS_OFFSET_301 == [
  sdmmc_accessor_gc |-> \h8FB68, sdmmc_accessor_sd |-> \h8F908,
  sdmmc_accessor_nand |-> \h8F474, sdmmc_wrapper_read |-> \h8A3B0,
  sdmmc_wrapper_write |-> \h8A470, rtld |-> \h4E8, rtld_destination |-> \h8C,
  clkrst_set_min_v_clock_rate |-> 0, sd_das_init |-> 0,
  lock_mutex |-> \h3638, unlock_mutex |-> \h36A4,
  sdmmc_accessor_controller_open |-> 0,
  sdmmc_accessor_controller_close |-> \h8A32C,
  sd_mutex |-> \hE69268, nand_mutex |-> \hE646F0,
  active_partition |-> \hE64730, sdmmc_das_handle |-> \hE635A0,
  nintendo_paths |-> <<Path(3, \h39260, \h4), Path(3, \h3A4EC, \hC), Path(3, \h3A7E4, \hC),
    End>>]

FS_OFFSET_301_EXFAT == [FS_OFFSET_301 EXCEPT
  !.sd_mutex = \hF4C268, !.nand_mutex = \hF476F0,
  !.active_partition = \hF47730, !.sdmmc_das_handle = \hF465A0]

FS_OFFSET_400 == [
  sdmmc_accessor_gc |-> \hA3374, sdmmc_accessor_sd |-> \hA3114,
  sdmmc_accessor_nand |-> \hA2C80, sdmmc_wrapper_read |-> \h9DBCC,
  sdmmc_wrapper_write |-> \h9DC8C, rtld |-> \h4DC, rtld_destination |-> \h98,
  clkrst_set_min_v_clock_rate |-> 0, sd_das_init |-> 0,
  lock_mutex |-> \h39A0, unlock_mutex |-> \h3A0C,
  sdmmc_accessor_controller_open |-> 0,
  sdmmc_accessor_controller_close |-> \h9DB48,
  sd_mutex |-> \hE80268, nand_mutex |-> \hE7BC60,
  active_partition |-> \hE7BCA0, sdmmc_das_handle |-> \hE7ABF0,
  nintendo_paths |-> <<Path(3, \h2023C, \h4), Path(3, \h21BE8, \hC), Path(3, \h21EC4, \hC),
    End>>]

FS_OFFSET_400_EXFAT == [FS_OFFSET_400 EXCEPT
  !.sd_mutex = \hF63268, !.nand_mutex = \hF5EC60,
  !.active_partition = \hF5ECA0, !.sdmmc_das_handle = \hF5DBF0]

FS_OFFSET_410 == [
  sdmmc_accessor_gc |-> \hA33D8, sdmmc_accessor_sd |-> \hA3178,
  sdmmc_accessor_nand |-> \hA2CE4, sdmmc_wrapper_read |-> \h9DC30,
  sdmmc_wrapper_write |-> \h9DCF0, rtld |-> \h4DC, rtld_destination |-> \h98,
  clkrst_set_min_v_clock_rate |-> 0, sd_das_init |-> 0,
  lock_mutex |-> \h39A0, unlock_mutex |-> \h3A0C,
  sdmmc_accessor_controller_open |-> 0,
  sdmmc_accessor_controller_close |-> \h9DBAC,
  sd_mutex |-> \hE80268, nand_mutex |-> \hE7BC60,
  active_partition |-> \hE7BCA0, sdmmc_das_handle |-> \hE7ABF0,
  nintendo_paths |-> <<Path(3, \h2023C, \h4), Path(3, \h21BE8, \hC), Path(3, \h21EC4, \hC),
    End>>]

FS_OFFSET_410_EXFAT == [FS_OFFSET_410 EXCEPT
  !.sd_mutex = \hF63268, !.nand_mutex = \hF5EC60,
  !.active_partition = \hF5ECA0, !.sdmmc_das_handle = \hF5DBF0]

FS_OFFSET_500 == [
  sdmmc_accessor_gc |-> \hCF250, sdmmc_accessor_sd |-> \hCEFD0,
  sdmmc_accessor_nand |-> \hCE990, sdmmc_wrapper_read |-> \hC9420,
  sdmmc_wrapper_write |-> \hC9500, rtld |-> \h584, rtld_destination |-> \h94,
  clkrst_set_min_v_clock_rate |-> 0, sd_das_init |-> 0,
  lock_mutex |-> \h4080, unlock_mutex |-> \h40D0,
  sdmmc_accessor_controller_open |-> 0,
  sdmmc_accessor_controller_close |-> \hC9380,
  sd_mutex |-> \hEC3268, nand_mutex |-> \hEBDE58,
  active_partition |-> \hEBDE98, sdmmc_das_handle |-> \hEBCE30,
  nintendo_paths |-> <<Path(3, \h28980, \h4), Path(3, \h2ACE4, \h4), Path(3, \h2B220, \h4),
    End>>]

FS_OFFSET_500_EXFAT == [FS_OFFSET_500 EXCEPT
  !.sd_mutex = \hFA8268, !.nand_mutex = \hFA2E58,
  !.active_partition = \hFA2E98, !.sdmmc_das_handle = \hFA1E30]

FS_OFFSET_510 == [
  sdmmc_accessor_gc |-> \hCF620, sdmmc_accessor_sd |-> \hCF3A0,
  sdmmc_accessor_nand |-> \hCED60, sdmmc_wrapper_read |-> \hC97F0,
  sdmmc_wrapper_write |-> \hC98D0, rtld |-> \h584, rtld_destination |-> \h94,
  clkrst_set_min_v_clock_rate |-> 0, sd_das_init |-> 0,
  lock_mutex |-> \h4080, unlock_mutex |-> \h40D0,
  sdmmc_accessor_controller_open |-> 0,
  sdmmc_accessor_controller_close |-> \hC9750,
  sd_mutex |-> \hEC4268, nand_mutex |-> \hEBEE58,
  active_partition |-> \hEBEE98, sdmmc_das_handle |-> \hEBDE30,
  nintendo_paths |-> <<Path(3, \h289B0, \h4), Path(3, \h2AD14, \h4), Path(3, \h2B250, \h4),
    End>>]

FS_OFFSET_510_EXFAT == [FS_OFFSET_510 EXCEPT
  !.sd_mutex = \hFA9268, !.nand_mutex = \hFA3E58,
  !.active_partition = \hFA3E98, !.sdmmc_das_handle = \hFA2E30]

FS_OFFSET_600 == [
  sdmmc_accessor_gc |-> \h153780, sdmmc_accessor_sd |-> \h1534F0,
  sdmmc_accessor_nand |-> \h14F990, sdmmc_wrapper_read |-> \h1485A0,
  sdmmc_wrapper_write |-> \h148680, rtld |-> \h5B0, rtld_destination |-> \h98,
  clkrst_set_min_v_clock_rate |-> 0, sd_das_init |-> 0,
  lock_mutex |-> \h1412C0, unlock_mutex |-> \h141310,
  sdmmc_accessor_controller_open |-> 0,
  sdmmc_accessor_controller_close |-> \h148500,
  sd_mutex |-> \hF06268, nand_mutex |-> \hF01BA0,
  active_partition |-> \hF01BE0, sdmmc_das_handle |-> \hE01670,
  nintendo_paths |-> <<Path(3, \h790DC, \h4), Path(3, \h7A924, \h4), Path(3, \h7AB18, \h4),
    Path(3, \h7AEF4, \h4), End>>]

FS_OFFSET_600_EXFAT == [
  sdmmc_accessor_gc |-> \h15EE80, sdmmc_accessor_sd |-> \h15EBF0,
  sdmmc_accessor_nand |-> \h15B090, sdmmc_wrapper_read |-> \h153CA0,
  sdmmc_wrapper_write |-> \h153D80, rtld |-> \h5B0, rtld_destination |-> \h98,
  clkrst_set_min_v_clock_rate |-> 0, sd_das_init |-> 0,
  lock_mutex |-> \h14C9C0, unlock_mutex |-> \h14CA10,
  sdmmc_accessor_controller_open |-> 0,
  sdmmc_accessor_controller_close |-> \h153C00,
  sd_mutex |-> \hFEB268, nand_mutex |-> \hFE6BA0,
  active_partition |-> \hFE6BE0, sdmmc_das_handle |-> \hEE6670,
  nintendo_paths |-> <<Path(3, \h847DC, \h4), Path(3, \h86024, \h4), Path(3, \h86218, \h4),
    Path(3, \h865F4, \h4), End>>]

FS_OFFSET_700 == [
  sdmmc_accessor_gc |-> \h15BD90, sdmmc_accessor_sd |-> \h15BB00,
  sdmmc_accessor_nand |-> \h157FF0, sdmmc_wrapper_read |-> \h14FDF0,
  sdmmc_wrapper_write |-> \h14FED0, rtld |-> \h5B4, rtld_destination |-> \h9C,
  clkrst_set_min_v_clock_rate |-> 0, sd_das_init |-> \h85FE8,
  lock_mutex |-> \h148A90, unlock_mutex |-> \h148AE0,
  sdmmc_accessor_controller_open |-> 0,
  sdmmc_accessor_controller_close |-> \h14FD50,
  sd_mutex |-> \hF123E8, nand_mutex |-> \hF0DBE8,
  active_partition |-> \hF0DC28, sdmmc_das_handle |-> \hE0E7A0,
  nintendo_paths |-> <<Path(3, \h7DA90, \h4), Path(3, \h7F344, \h4), Path(3, \h7F538, \h4),
    Path(3, \h7F914, \h4), Path(4, \h7FAD8, \h4), End>>]

FS_OFFSET_700_EXFAT == [
  sdmmc_accessor_gc |-> \h167340, sdmmc_accessor_sd |-> \h1670B0,
  sdmmc_accessor_nand |-> \h1635A0, sdmmc_wrapper_read |-> \h15B3A0,
  sdmmc_wrapper_write |-> \h15B480, rtld |-> \h5B4, rtld_destination |-> \h9C,
  clkrst_set_min_v_clock_rate |-> 0, sd_das_init |-> \h91598,
  lock_mutex |-> \h154040, unlock_mutex |-> \h154090,
  sdmmc_accessor_controller_open |-> 0,
  sdmmc_accessor_controller_close |-> \h15B300,
  sd_mutex |-> \hFF73E8, nand_mutex |-> \hFF2BE8,
  active_partition |-> \hFF2C28, sdmmc_das_handle |-> \hEF3A00,
  nintendo_paths |-> <<Path(3, \h89040, \h4), Path(3, \h8A8F4, \h4), Path(3, \h8AAE8, \h4),
    Path(3, \h8AEC4, \h4), Path(4, \h8B088, \h4), End>>]

FS_OFFSET_800 == [
  sdmmc_accessor_gc |-> \h15EA20, sdmmc_accessor_sd |-> \h15E790,
  sdmmc_accessor_nand |-> \h15AC80, sdmmc_wrapper_read |-> \h152A80,
  sdmmc_wrapper_write |-> \h152B60, rtld |-> \h5B4, rtld_destination |-> \h9C,
  clkrst_set_min_v_clock_rate |-> \h16F370, sd_das_init |-> \h87D58,
  lock_mutex |-> \h14B6D0, unlock_mutex |-> \h14B720,
  sdmmc_accessor_controller_open |-> 0,
  sdmmc_accessor_controller_close |-> \h1529E0,
  sd_mutex |-> \hF1A3E8, nand_mutex |-> \hF15BE8,
  active_partition |-> \hF15C28, sdmmc_das_handle |-> \hE167C0,
  nintendo_paths |-> <<Path(3, \h7F5F0, \h4), Path(3, \h81084, \h4), Path(3, \h81278, \h4),
    Path(3, \h81654, \h4), Path(4, \h81818, \h4), End>>]

FS_OFFSET_800_EXFAT == [
  sdmmc_accessor_gc |-> \h169FD0, sdmmc_accessor_sd |-> \h169D40,
  sdmmc_accessor_nand |-> \h166230, sdmmc_wrapper_read |-> \h15E030,
  sdmmc_wrapper_write |-> \h15E110, rtld |-> \h5B4, rtld_destination |-> \h9C,
  clkrst_set_min_v_clock_rate |-> \h17A920, sd_das_init |-> \h93308,
  lock_mutex |-> \h156C80, unlock_mutex |-> \h156CD0,
  sdmmc_accessor_controller_open |-> 0,
  sdmmc_accessor_controller_close |-> \h15DF90,
  sd_mutex |-> \hFFE3E8, nand_mutex |-> \hFF9BE8,
  active_partition |-> \hFF9C28, sdmmc_das_handle |-> \hEFAA20,
  nintendo_paths |-> <<Path(3, \h8ABA0, \h4), Path(3, \h8C634, \h4), Path(3, \h8C828, \h4),
    Path(3, \h8CC04, \h4), Path(4, \h8CDC8, \h4), End>>]

FS_OFFSET_810 == FS_OFFSET_800

FS_OFFSET_810_EXFAT == FS_OFFSET_800_EXFAT

FS_OFFSET_900 == [
  sdmmc_accessor_gc |-> \h1430F0, sdmmc_accessor_sd |-> \h141200,
  sdmmc_accessor_nand |-> \h13C080, sdmmc_wrapper_read |-> \h1377E0,
  sdmmc_wrapper_write |-> \h1378C0, rtld |-> \h454, rtld_destination |-> \h9C,
  clkrst_set_min_v_clock_rate |-> \h136A00, sd_das_init |-> \h1472BC,
  lock_mutex |-> \h25280, unlock_mutex |-> \h252D0,
  sdmmc_accessor_controller_open |-> 0,
  sdmmc_accessor_controller_close |-> \h137740,
  sd_mutex |-> \hE1D3E8, nand_mutex |-> \hE18258,
  active_partition |-> \hE18298, sdmmc_das_handle |-> \hDFEFA0,
  nintendo_paths |-> <<Path(3, \h68A60, \h4), Path(3, \h70A40, \h4), Path(3, \h81CB4, \h4),
    Path(3, \h81EF4, \h4), Path(4, \h8211C, \h4), End>>]

FS_OFFSET_900_EXFAT == [FS_OFFSET_900 EXCEPT
  !.sd_mutex = \hE2B3E8, !.nand_mutex = \hE26258,
  !.active_partition = \hE26298, !.sdmmc_das_handle = \hE0CFA0]

FS_OFFSET_910 == [
  sdmmc_accessor_gc |-> \h143100, sdmmc_accessor_sd |-> \h141210,
  sdmmc_accessor_nand |-> \h13C090, sdmmc_wrapper_read |-> \h1377F0,
  sdmmc_wrapper_write |-> \h1378D0, rtld |-> \h454, rtld_destination |-> \h9C,
  clkrst_set_min_v_clock_rate |-> \h136A10, sd_das_init |-> \h1472CC,
  lock_mutex |-> \h25280, unlock_mutex |-> \h252D0,
  sdmmc_accessor_controller_open |-> 0,
  sdmmc_accessor_controller_close |-> \h137750,
  sd_mutex |-> \hE1D3E8, nand_mutex |-> \hE18258,
  active_partition |-> \hE18298, sdmmc_das_handle |-> \hDFEFA0,
  nintendo_paths |-> <<Path(3, \h68A70, \h4), Path(3, \h70A50, \h4), Path(3, \h81CC4, \h4),
    Path(3, \h81F04, \h4), Path(4, \h8212C, \h4), End>>]

FS_OFFSET_910_EXFAT == [FS_OFFSET_910 EXCEPT
  !.sd_mutex = \hE2B3E8, !.nand_mutex = \hE26258,
  !.active_partition = \hE26298, !.sdmmc_das_handle = \hE0CFA0]

FS_OFFSET_1000 == [
  sdmmc_accessor_gc |-> \h14DC90, sdmmc_accessor_sd |-> \h14BDA0,
  sdmmc_accessor_nand |-> \h146C20, sdmmc_wrapper_read |-> \h142380,
  sdmmc_wrapper_write |-> \h142460, rtld |-> \h634, rtld_destination |-> \h9C,
  clkrst_set_min_v_clock_rate |-> \h1415A0, sd_das_init |-> \h151CEC,
  lock_mutex |-> \h28910, unlock_mutex |-> \h28960,
  sdmmc_accessor_controller_open |-> 0,
  sdmmc_accessor_controller_close |-> \h1422E0,
  sd_mutex |-> \hE273E8, nand_mutex |-> \hE22DA0,
  active_partition |-> \hE22DE0, sdmmc_das_handle |-> \hE0AB90,
  nintendo_paths |-> <<Path(3, \h6BBA4, \h4), Path(3, \h78520, \h4), Path(3, \h7ED0C, \h4),
    Path(4, \h9115C, \h4), End>>]

FS_OFFSET_1000_EXFAT == [FS_OFFSET_1000 EXCEPT
  !.sd_mutex = \hE353E8, !.nand_mutex = \hE30DA0,
  !.active_partition = \hE30DE0, !.sdmmc_das_handle = \hE18B90]

FS_OFFSET_1020 == [
  sdmmc_accessor_gc |-> \h14E0F0, sdmmc_accessor_sd |-> \h14C200,
  sdmmc_accessor_nand |-> \h147080, sdmmc_wrapper_read |-> \h1427E0,
  sdmmc_wrapper_write |-> \h1428C0, rtld |-> \h634, rtld_destination |-> \h9C,
  clkrst_set_min_v_clock_rate |-> \h141A00, sd_das_init |-> \h15214C,
  lock_mutex |-> \h28910, unlock_mutex |-> \h28960,
  sdmmc_accessor_controller_open |-> 0,
  sdmmc_accessor_controller_close |-> \h142740,
  sd_mutex |-> \hE273E8, nand_mutex |-> \hE22DA0,
  active_partition |-> \hE22DE0, sdmmc_das_handle |-> \hE0AB90,
  nintendo_paths |-> <<Path(3, \h6BBA4, \h4), Path(3, \h78520, \h4), Path(3, \h7ED0C, \h4),
    Path(4, \h9115C, \h4), End>>]

FS_OFFSET_1020_EXFAT == [FS_OFFSET_1020 EXCEPT
  !.sd_mutex = \hE353E8, !.nand_mutex = \hE30DA0,
  !.active_partition = \hE30DE0, !.sdmmc_das_handle = \hE18B90]

FS_OFFSET_1100 == [
  sdmmc_accessor_gc |-> \h156D90, sdmmc_accessor_sd |-> \h154F40,
  sdmmc_accessor_nand |-> \h1500F0, sdmmc_wrapper_read |-> \h14B990,
  sdmmc_wrapper_write |-> \h14BA70, rtld |-> \h688, rtld_destination |-> -\h3C,
  clkrst_set_min_v_clock_rate |-> \h14AC40, sd_das_init |-> \h273B4,
  lock_mutex |-> \h28FF0, unlock_mutex |-> \h29040,
  sdmmc_accessor_controller_open |-> \h14B840,
  sdmmc_accessor_controller_close |-> \h14B8F0,
  sd_mutex |-> \hE323E8, nand_mutex |-> \hE2D338,
  active_partition |-> \hE2D378, sdmmc_das_handle |-> \hE15D40,
  nintendo_paths |-> <<Path(3, \h6D944, \h4), Path(3, \h7A3C0, \h4), Path(3, \h80708, \h4),
    Path(4, \h92198, \h4), End>>]

FS_OFFSET_1100_EXFAT == [FS_OFFSET_1100 EXCEPT
  !.sd_mutex = \hE403E8, !.nand_mutex = \hE3B338,
  !.active_partition = \hE3B378, !.sdmmc_das_handle = \hE23D40]

FS_OFFSET_1200 == [
  sdmmc_accessor_gc |-> \h154FD0, sdmmc_accessor_sd |-> \h156DE0,
  sdmmc_accessor_nand |-> \h155500, sdmmc_wrapper_read |-> \h150970,
  sdmmc_wrapper_write |-> \h150A30, rtld |-> \h688, rtld_destination |-> -\h3C,
  clkrst_set_min_v_clock_rate |-> \h14FCC0, sd_das_init |-> \h27244,
  lock_mutex |-> \h29350, unlock_mutex |-> \h293A0,
  sdmmc_accessor_controller_open |-> \h150850,
  sdmmc_accessor_controller_close |-> \h1508E0,
  sd_mutex |-> \hE3D3E8, nand_mutex |-> \hE38768,
  active_partition |-> \hE387A8, sdmmc_das_handle |-> \hE20DB0,
  nintendo_paths |-> <<Path(3, \h6E810, \h4), Path(3, \h7AEC0, \h4), Path(4, \h81254, \h4),
    Path(4, \h92850, \h4), End>>]

FS_OFFSET_1200_EXFAT == [FS_OFFSET_1200 EXCEPT
  !.sd_mutex = \hE4B3E8, !.nand_mutex = \hE46768,
  !.active_partition = \hE467A8, !.sdmmc_das_handle = \hE2EDB0]

FS_OFFSET_1203 == [
  sdmmc_accessor_gc |-> \h1550E0, sdmmc_accessor_sd |-> \h156EF0,
  sdmmc_accessor_nand |-> \h155610, sdmmc_wrapper_read |-> \h150A80,
  sdmmc_wrapper_write |-> \h150B40, rtld |-> \h688, rtld_destination |-> -\h3C,
  clkrst_set_min_v_clock_rate |-> \h14FDD0, sd_das_init |-> \h27244,
  lock_mutex |-> \h29350, unlock_mutex |-> \h293A0,
  sdmmc_accessor_controller_open |-> \h150960,
  sdmmc_accessor_controller_close |-> \h1509F0,
  sd_mutex |-> \hE3D3E8, nand_mutex |-> \hE38768,
  active_partition |-> \hE387A8, sdmmc_das_handle |-> \hE20DB0,
  nintendo_paths |-> <<Path(3, \h6E920, \h4), Path(3, \h7AFD0, \h4), Path(4, \h81364, \h4),
    Path(4, \h92960, \h4), End>>]

FS_OFFSET_1203_EXFAT == [FS_OFFSET_1203 EXCEPT
  !.sd_mutex = \hE4B3E8, !.nand_mutex = \hE46768,
  !.active_partition = \hE467A8, !.sdmmc_das_handle = \hE2EDB0]

FS_OFFSET_1300 == [
  sdmmc_accessor_gc |-> \h158C80, sdmmc_accessor_sd |-> \h15AA90,
  sdmmc_accessor_nand |-> \h1591B0, sdmmc_wrapper_read |-> \h154620,
  sdmmc_wrapper_write |-> \h1546E0, rtld |-> \h688, rtld_destination |-> -\h3C,
  clkrst_set_min_v_clock_rate |-> \h153820, sd_das_init |-> \h27744,
  lock_mutex |-> \h29690, unlock_mutex |-> \h296E0,
  sdmmc_accessor_controller_open |-> \h154500,
  sdmmc_accessor_controller_close |-> \h154590,
  sd_mutex |-> \hE133E8, nand_mutex |-> \hE0E768,
  active_partition |-> \hE0E7A8, sdmmc_das_handle |-> \hDF6E18,
  nintendo_paths |-> <<Path(3, \h6EBE0, \h4), Path(3, \h7BEEC, \h4), Path(4, \h82294, \h4),
    Path(4, \h9422C, \h4), End>>]

FS_OFFSET_1300_EXFAT == [FS_OFFSET_1300 EXCEPT
  !.sd_mutex = \hE203E8, !.nand_mutex = \hE1B768,
  !.active_partition = \hE1B7A8, !.sdmmc_das_handle = \hE03E18]

FS_OFFSET_1310 == [
  sdmmc_accessor_gc |-> \h158C20, sdmmc_accessor_sd |-> \h15AA30,
  sdmmc_accessor_nand |-> \h159150, sdmmc_wrapper_read |-> \h1545C0,
  sdmmc_wrapper_write |-> \h154680, rtld |-> \h688, rtld_destination |-> -\h3C,
  clkrst_set_min_v_clock_rate |-> \h1537C0, sd_das_init |-> \h27744,
  lock_mutex |-> \h29690, unlock_mutex |-> \h296E0,
  sdmmc_accessor_controller_open |-> \h1544A0,
  sdmmc_accessor_controller_close |-> \h154530,
  sd_mutex |-> \hE133E8, nand_mutex |-> \hE0E768,
  active_partition |-> \hE0E7A8, sdmmc_das_handle |-> \hDF6E18,
  nintendo_paths |-> <<Path(3, \h6EBE0, \h4), Path(3, \h7BEEC, \h4), Path(4, \h82294, \h4),
    Path(4, \h9422C, \h4), End>>]

FS_OFFSET_1310_EXFAT == [FS_OFFSET_1310 EXCEPT
  !.sd_mutex = \hE203E8, !.nand_mutex = \hE1B768,
  !.active_partition = \hE1B7A8, !.sdmmc_das_handle = \hE03E18]

FS_OFFSET_1400 == [
  sdmmc_accessor_gc |-> \h189F50, sdmmc_accessor_sd |-> \h18BD60,
  sdmmc_accessor_nand |-> \h18A480, sdmmc_wrapper_read |-> \h185AF0,
  sdmmc_wrapper_write |-> \h185B50, rtld |-> \h282B8, rtld_destination |-> -\h3C,
  clkrst_set_min_v_clock_rate |-> \h1A5D90, sd_das_init |-> \h27004,
  lock_mutex |-> \h17E9F0, unlock_mutex |-> \h17EA40,
  sdmmc_accessor_controller_open |-> \h185AA0,
  sdmmc_accessor_controller_close |-> \h185AD0,
  sd_mutex |-> \hF2E3F0, nand_mutex |-> \hF292F8,
  active_partition |-> \hF29338, sdmmc_das_handle |-> \hDFE9C8,
  nintendo_paths |-> <<Path(3, \h6D9C0, \h4), Path(3, \h7AC24, \h4), Path(4, \h813E8, \h4),
    Path(4, \h9387C, \h4), End>>]

FS_OFFSET_1400_EXFAT == [
  sdmmc_accessor_gc |-> \h1952D0, sdmmc_accessor_sd |-> \h1970E0,
  sdmmc_accessor_nand |-> \h195800, sdmmc_wrapper_read |-> \h190E70,
  sdmmc_wrapper_write |-> \h190ED0, rtld |-> \h282B8, rtld_destination |-> -\h3C,
  clkrst_set_min_v_clock_rate |-> \h1B1110, sd_das_init |-> \h27004,
  lock_mutex |-> \h189D70, unlock_mutex |-> \h189DC0,
  sdmmc_accessor_controller_open |-> \h190E20,
  sdmmc_accessor_controller_close |-> \h190E50,
  sd_mutex |-> \h10123F0, nand_mutex |-> \h100D2F8,
  active_partition |-> \h100D338, sdmmc_das_handle |-> \hE0B9C8,
  nintendo_paths |-> <<Path(3, \h6D9C0, \h4), Path(3, \h7AC24, \h4), Path(4, \h813E8, \h4),
    Path(4, \h9387C, \h4), End>>]

FS_OFFSET_1500 == [
  sdmmc_accessor_gc |-> \h183E20, sdmmc_accessor_sd |-> \h185AA0,
  sdmmc_accessor_nand |-> \h1842E0, sdmmc_wrapper_read |-> \h17FCF0,
  sdmmc_wrapper_write |-> \h17FD50, rtld |-> \h26518, rtld_destination |-> -\h3C,
  clkrst_set_min_v_clock_rate |-> \h1A0870, sd_das_init |-> \h25454,
  lock_mutex |-> \h1791A0, unlock_mutex |-> \h1791F0,
  sdmmc_accessor_controller_open |-> \h17FCB0,
  sdmmc_accessor_controller_close |-> \h17FCD0,
  sd_mutex |-> \hFF33F0, nand_mutex |-> \hFEE2E8,
  active_partition |-> \hFEE328, sdmmc_das_handle |-> \hFD38D8,
  nintendo_paths |-> <<Path(3, \h63050, \h4), Path(3, \h6FDE8, \h4), Path(4, \h768D4, \h4),
    Path(4, \h89364, \h4), End>>]

FS_OFFSET_1500_EXFAT == [
  sdmmc_accessor_gc |-> \h18EDB0, sdmmc_accessor_sd |-> \h190A30,
  sdmmc_accessor_nand |-> \h18F270, sdmmc_wrapper_read |-> \h18AC80,
  sdmmc_wrapper_write |-> \h18ACE0, rtld |-> \h26518, rtld_destination |-> -\h3C,
  clkrst_set_min_v_clock_rate |-> \h1AB800, sd_das_init |-> \h25454,
  lock_mutex |-> \h184130, unlock_mutex |-> \h184180,
  sdmmc_accessor_controller_open |-> \h18AC40,
  sdmmc_accessor_controller_close |-> \h18AC60,
  sd_mutex |-> \h10053F0, nand_mutex |-> \h10002E8,
  active_partition |-> \h1000328, sdmmc_das_handle |-> \hFE08D8,
  nintendo_paths |-> <<Path(3, \h63050, \h4), Path(3, \h6FDE8, \h4), Path(4, \h768D4, \h4),
    Path(4, \h89364, \h4), End>>]

FS_OFFSET_1600 == [
  sdmmc_accessor_gc |-> \h1862A0, sdmmc_accessor_sd |-> \h187F20,
  sdmmc_accessor_nand |-> \h186760, sdmmc_wrapper_read |-> \h1821F0,
  sdmmc_wrapper_write |-> \h182250, rtld |-> \h269B0, rtld_destination |-> -\h3C,
  clkrst_set_min_v_clock_rate |-> \h1A2D30, sd_das_init |-> \h258D4,
  lock_mutex |-> \h17B730, unlock_mutex |-> \h17B780,
  sdmmc_accessor_controller_open |-> \h1821B0,
  sdmmc_accessor_controller_close |-> \h1821D0,
  sd_mutex |-> \hFFB3F0, nand_mutex |-> \hFF6B58,
  active_partition |-> \hFF6B98, sdmmc_das_handle |-> \hFDC8B0,
  nintendo_paths |-> <<Path(3, \h63B48, \h4), Path(3, \h70D6C, \h4), Path(4, \h7790C, \h4),
    Path(4, \h8A754, \h4), End>>]

FS_OFFSET_1600_EXFAT == [
  sdmmc_accessor_gc |-> \h190F80, sdmmc_accessor_sd |-> \h192C00,
  sdmmc_accessor_nand |-> \h191440, sdmmc_wrapper_read |-> \h18CED0,
  sdmmc_wrapper_write |-> \h18CF30, rtld |-> \h269B0, rtld_destination |-> -\h3C,
  clkrst_set_min_v_clock_rate |-> \h1ADA10, sd_das_init |-> \h258D4,
  lock_mutex |-> \h186410, unlock_mutex |-> \h186460,
  sdmmc_accessor_controller_open |-> \h18CE90,
  sdmmc_accessor_controller_close |-> \h18CEB0,
  sd_mutex |-> \h100D3F0, nand_mutex |-> \h1008B58,
  active_partition |-> \h1008B98, sdmmc_das_handle |-> \hFE98B0,
  nintendo_paths |-> <<Path(3, \h63B48, \h4), Path(3, \h70D6C, \h4), Path(4, \h7790C, \h4),
    Path(4, \h8A754, \h4), End>>]

FS_OFFSET_1603 == [
  sdmmc_accessor_gc |-> \h1862F0, sdmmc_accessor_sd |-> \h187F70,
  sdmmc_accessor_nand |-> \h1867B0, sdmmc_wrapper_read |-> \h182240,
  sdmmc_wrapper_write |-> \h1822A0, rtld |-> \h269B0, rtld_destination |-> -\h3C,
  clkrst_set_min_v_clock_rate |-> \h1A2D80, sd_das_init |-> \h258D4,
  lock_mutex |-> \h17B780, unlock_mutex |-> \h17B7D0,
  sdmmc_accessor_controller_open |-> \h182200,
  sdmmc_accessor_controller_close |-> \h182220,
  sd_mutex |-> \hFFB3F0, nand_mutex |-> \hFF6B58,
  active_partition |-> \hFF6B98, sdmmc_das_handle |-> \hFDC8B0,
  nintendo_paths |-> <<Path(3, \h63B98, \h4), Path(3, \h70DBC, \h4), Path(4, \h7795C, \h4),
    Path(4, \h8A7A4, \h4), End>>]

FS_OFFSET_1603_EXFAT == [
  sdmmc_accessor_gc |-> \h190FD0, sdmmc_accessor_sd |-> \h192C50,
  sdmmc_accessor_nand |-> \h191490, sdmmc_wrapper_read |-> \h18CF20,
  sdmmc_wrapper_write |-> \h18CF80, rtld |-> \h269B0, rtld_destination |-> -\h3C,
  clkrst_set_min_v_clock_rate |-> \h1ADA60, sd_das_init |-> \h258D4,
  lock_mutex |-> \h186460, unlock_mutex |-> \h1864B0,
  sdmmc_accessor_controller_open |-> \h18CEE0,
  sdmmc_accessor_controller_close |-> \h18CF00,
  sd_mutex |-> \h100D3F0, nand_mutex |-> \h1008B58,
  active_partition |-> \h1008B98, sdmmc_das_handle |-> \hFE98B0,
  nintendo_paths |-> <<Path(3, \h63B98, \h4), Path(3, \h70DBC, \h4), Path(4, \h7795C, \h4),
    Path(4, \h8A7A4, \h4), End>>]

FS_OFFSET_1700 == [
  sdmmc_accessor_gc |-> \h18AD00, sdmmc_accessor_sd |-> \h18C9D0,
  sdmmc_accessor_nand |-> \h18B1D0, sdmmc_wrapper_read |-> \h186BC0,
  sdmmc_wrapper_write |-> \h186C20, rtld |-> \h29D10, rtld_destination |-> -\h3C,
  clkrst_set_min_v_clock_rate |-> \h1A7B60, sd_das_init |-> \h28C64,
  lock_mutex |-> \h17FEA0, unlock_mutex |-> \h17FEF0,
  sdmmc_accessor_controller_open |-> \h186B80,
  sdmmc_accessor_controller_close |-> \h186BA0,
  sd_mutex |-> \hFCE3F0, nand_mutex |-> \hFC9B78,
  active_partition |-> \hFC9BB8, sdmmc_das_handle |-> \hFAF840,
  nintendo_paths |-> <<Path(3, \h68068, \h4), Path(3, \h7510C, \h4), Path(4, \h7BEAC, \h4),
    Path(4, \h8F674, \h4), End>>]

FS_OFFSET_1700_EXFAT == [
  sdmmc_accessor_gc |-> \h195B60, sdmmc_accessor_sd |-> \h197830,
  sdmmc_accessor_nand |-> \h196030, sdmmc_wrapper_read |-> \h191A20,
  sdmmc_wrapper_write |-> \h191A80, rtld |-> \h29D10, rtld_destination |-> -\h3C,
  clkrst_set_min_v_clock_rate |-> \h1B29C0, sd_das_init |-> \h28C64,
  lock_mutex |-> \h18AD00, unlock_mutex |-> \h18AD50,
  sdmmc_accessor_controller_open |-> \h1919E0,
  sdmmc_accessor_controller_close |-> \h191A00,
  sd_mutex |-> \hFE03F0, nand_mutex |-> \hFDBB78,
  active_partition |-> \hFDBBB8, sdmmc_das_handle |-> \hFBC840,
  nintendo_paths |-> <<Path(3, \h68068, \h4), Path(3, \h7510C, \h4), Path(4, \h7BEAC, \h4),
    Path(4, \h8F674, \h4), End>>]

FS_OFFSET_1800 == [
  sdmmc_accessor_gc |-> \h18AB00, sdmmc_accessor_sd |-> \h18C800,
  sdmmc_accessor_nand |-> \h18AFE0, sdmmc_wrapper_read |-> \h186A50,
  sdmmc_wrapper_write |-> \h186AB0, rtld |-> \h2A3A4, rtld_destination |-> -\h44,
  clkrst_set_min_v_clock_rate |-> \h1A77D0, sd_das_init |-> \h28F24,
  lock_mutex |-> \h17FCC0, unlock_mutex |-> \h17FD10,
  sdmmc_accessor_controller_open |-> \h186A10,
  sdmmc_accessor_controller_close |-> \h186A30,
  sd_mutex |-> \hFD13F0, nand_mutex |-> \hFCCB28,
  active_partition |-> \hFCCB68, sdmmc_das_handle |-> \hFB1950,
  nintendo_paths |-> <<Path(3, \h68B08, \h4), Path(3, \h758DC, \h4), Path(4, \h7C77C, \h4),
    Path(4, \h905C4, \h4), End>>]

FS_OFFSET_1800_EXFAT == [
  sdmmc_accessor_gc |-> \h195B90, sdmmc_accessor_sd |-> \h197890,
  sdmmc_accessor_nand |-> \h196070, sdmmc_wrapper_read |-> \h191AE0,
  sdmmc_wrapper_write |-> \h191B40, rtld |-> \h2A3A4, rtld_destination |-> -\h44,
  clkrst_set_min_v_clock_rate |-> \h1B2860, sd_das_init |-> \h28F24,
  lock_mutex |-> \h18AD50, unlock_mutex |-> \h18ADA0,
  sdmmc_accessor_controller_open |-> \h191AA0,
  sdmmc_accessor_controller_close |-> \h191AC0,
  sd_mutex |-> \hFE33F0, nand_mutex |-> \hFDEB28,
  active_partition |-> \hFDEB68, sdmmc_das_handle |-> \hFBE950,
  nintendo_paths |-> <<Path(3, \h68B08, \h4), Path(3, \h758DC, \h4), Path(4, \h7C77C, \h4),
    Path(4, \h905C4, \h4), End>>]

FS_OFFSET_1810 == FS_OFFSET_1800

FS_OFFSET_1810_EXFAT == FS_OFFSET_1800_EXFAT

FS_OFFSET_1900 == [
  sdmmc_accessor_gc |-> \h195C00, sdmmc_accessor_sd |-> \h197F80,
  sdmmc_accessor_nand |-> \h1963B0, sdmmc_wrapper_read |-> \h191A70,
  sdmmc_wrapper_write |-> \h191AD0, rtld |-> \h275F0, rtld_destination |-> -\h50,
  clkrst_set_min_v_clock_rate |-> \h1B3880, sd_das_init |-> \h260C4,
  lock_mutex |-> \h18AC20, unlock_mutex |-> \h18AC70,
  sdmmc_accessor_controller_open |-> \h191A30,
  sdmmc_accessor_controller_close |-> \h191A50,
  sd_mutex |-> \hFE1408, nand_mutex |-> \hFDCB60,
  active_partition |-> \hFDCBA0, sdmmc_das_handle |-> \hFC1908,
  nintendo_paths |-> <<Path(3, \h67FC8, \h4), Path(3, \h75D6C, \h4), Path(4, \h7D1E8, \h4),
    Path(4, \h92818, \h4), End>>]

FS_OFFSET_1900_EXFAT == [
  sdmmc_accessor_gc |-> \h1A1430, sdmmc_accessor_sd |-> \h1A37B0,
  sdmmc_accessor_nand |-> \h1A1BE0, sdmmc_wrapper_read |-> \h19D2A0,
  sdmmc_wrapper_write |-> \h19D300, rtld |-> \h275F0, rtld_destination |-> -\h50,
  clkrst_set_min_v_clock_rate |-> \h1BF0B0, sd_das_init |-> \h260C4,
  lock_mutex |-> \h196450, unlock_mutex |-> \h1964A0,
  sdmmc_accessor_controller_open |-> \h19D260,
  sdmmc_accessor_controller_close |-> \h19D280,
  sd_mutex |-> \hFF4408, nand_mutex |-> \hFEFB60,
  active_partition |-> \hFEFBA0, sdmmc_das_handle |-> \hFCF908,
  nintendo_paths |-> <<Path(3, \h67FC8, \h4), Path(3, \h75D6C, \h4), Path(4, \h7D1E8, \h4),
    Path(4, \h92818, \h4), End>>]

FS_OFFSET_2000 == [
  sdmmc_accessor_gc |-> \h1A7DB0, sdmmc_accessor_sd |-> \h1AA130,
  sdmmc_accessor_nand |-> \h1A8560, sdmmc_wrapper_read |-> \h1A3C20,
  sdmmc_wrapper_write |-> \h1A3C80, rtld |-> \h2B594, rtld_destination |-> -\h4C,
  clkrst_set_min_v_clock_rate |-> \h1C6150, sd_das_init |-> \h289F4,
  lock_mutex |-> \h19CD80, unlock_mutex |-> \h19CDD0,
  sdmmc_accessor_controller_open |-> \h1A3BE0,
  sdmmc_accessor_controller_close |-> \h1A3C00,
  sd_mutex |-> \hFF5408, nand_mutex |-> \hFF0CF0,
  active_partition |-> \hFF0D30, sdmmc_das_handle |-> \hFD2B08,
  nintendo_paths |-> <<Path(3, \h6DB14, \h4), Path(3, \h7CE1C, \h4), Path(4, \h84A08, \h4),
    Path(4, \h9AE48, \h4), End>>]

FS_OFFSET_2000_EXFAT == [
  sdmmc_accessor_gc |-> \h1B36D0, sdmmc_accessor_sd |-> \h1B5A50,
  sdmmc_accessor_nand |-> \h1B3E80, sdmmc_wrapper_read |-> \h1AF540,
  sdmmc_wrapper_write |-> \h1AF5A0, rtld |-> \h2B594, rtld_destination |-> -\h4C,
  clkrst_set_min_v_clock_rate |-> \h1D1A70, sd_das_init |-> \h289F4,
  lock_mutex |-> \h1A86A0, unlock_mutex |-> \h1A86F0,
  sdmmc_accessor_controller_open |-> \h1AF500,
  sdmmc_accessor_controller_close |-> \h1AF520,
  sd_mutex |-> \h1006408, nand_mutex |-> \h1001CF0,
  active_partition |-> \h1001D30, sdmmc_das_handle |-> \hFDFB08,
  nintendo_paths |-> <<Path(3, \h6DB14, \h4), Path(3, \h7CE1C, \h4), Path(4, \h84A08, \h4),
    Path(4, \h9AE48, \h4), End>>]

-----------------------------------------------------------------------------
(***************************************************************************)
(* The builds, in the order of enum FS_VER, and their tables.              *)
(***************************************************************************)
FS_VER == <<
  "FS_VER_1_0_0", "FS_VER_2_0_0",
  "FS_VER_2_0_0_EXFAT", "FS_VER_2_1_0",
  "FS_VER_2_1_0_EXFAT", "FS_VER_3_0_0",
  "FS_VER_3_0_0_EXFAT", "FS_VER_3_0_1",
  "FS_VER_3_0_1_EXFAT", "FS_VER_4_0_0",
  "FS_VER_4_0_0_EXFAT", "FS_VER_4_1_0",
  "FS_VER_4_1_0_EXFAT", "FS_VER_5_0_0",
  "FS_VER_5_0_0_EXFAT", "FS_VER_5_1_0",
  "FS_VER_5_1_0_EXFAT", "FS_VER_6_0_0",
  "FS_VER_6_0_0_EXFAT", "FS_VER_7_0_0",
  "FS_VER_7_0_0_EXFAT", "FS_VER_8_0_0",
  "FS_VER_8_0_0_EXFAT", "FS_VER_8_1_0",
  "FS_VER_8_1_0_EXFAT", "FS_VER_9_0_0",
  "FS_VER_9_0_0_EXFAT", "FS_VER_9_1_0",
  "FS_VER_9_1_0_EXFAT", "FS_VER_10_0_0",
  "FS_VER_10_0_0_EXFAT", "FS_VER_10_2_0",
  "FS_VER_10_2_0_EXFAT", "FS_VER_11_0_0",
  "FS_VER_11_0_0_EXFAT", "FS_VER_12_0_0",
  "FS_VER_12_0_0_EXFAT", "FS_VER_12_0_3",
  "FS_VER_12_0_3_EXFAT", "FS_VER_13_0_0",
  "FS_VER_13_0_0_EXFAT", "FS_VER_13_1_0",
  "FS_VER_13_1_0_EXFAT", "FS_VER_14_0_0",
  "FS_VER_14_0_0_EXFAT", "FS_VER_15_0_0",
  "FS_VER_15_0_0_EXFAT", "FS_VER_16_0_0",
  "FS_VER_16_0_0_EXFAT", "FS_VER_16_0_3",
  "FS_VER_16_0_3_EXFAT", "FS_VER_17_0_0",
  "FS_VER_17_0_0_EXFAT", "FS_VER_18_0_0",
  "FS_VER_18_0_0_EXFAT", "FS_VER_18_1_0",
  "FS_VER_18_1_0_EXFAT", "FS_VER_19_0_0",
  "FS_VER_19_0_0_EXFAT", "FS_VER_20_0_0",
  "FS_VER_20_0_0_EXFAT">>

FS_VER_MAX == Len(FS_VER)

get_fs_offsets == [
  FS_VER_1_0_0 |-> FS_OFFSET_100,
  FS_VER_2_0_0 |-> FS_OFFSET_200,
  FS_VER_2_0_0_EXFAT |-> FS_OFFSET_200_EXFAT,
  FS_VER_2_1_0 |-> FS_OFFSET_210,
  FS_VER_2_1_0_EXFAT |-> FS_OFFSET_210_EXFAT,
  FS_VER_3_0_0 |-> FS_OFFSET_300,
  FS_VER_3_0_0_EXFAT |-> FS_OFFSET_300_EXFAT,
  FS_VER_3_0_1 |-> FS_OFFSET_301,
  FS_VER_3_0_1_EXFAT |-> FS_OFFSET_301_EXFAT,
  FS_VER_4_0_0 |-> FS_OFFSET_400,
  FS_VER_4_0_0_EXFAT |-> FS_OFFSET_400_EXFAT,
  FS_VER_4_1_0 |-> FS_OFFSET_410,
  FS_VER_4_1_0_EXFAT |-> FS_OFFSET_410_EXFAT,
  FS_VER_5_0_0 |-> FS_OFFSET_500,
  FS_VER_5_0_0_EXFAT |-> FS_OFFSET_500_EXFAT,
  FS_VER_5_1_0 |-> FS_OFFSET_510,
  FS_VER_5_1_0_EXFAT |-> FS_OFFSET_510_EXFAT,
  FS_VER_6_0_0 |-> FS_OFFSET_600,
  FS_VER_6_0_0_EXFAT |-> FS_OFFSET_600_EXFAT,
  FS_VER_7_0_0 |-> FS_OFFSET_700,
  FS_VER_7_0_0_EXFAT |-> FS_OFFSET_700_EXFAT,
  FS_VER_8_0_0 |-> FS_OFFSET_800,
  FS_VER_8_0_0_EXFAT |-> FS_OFFSET_800_EXFAT,
  FS_VER_8_1_0 |-> FS_OFFSET_810,
  FS_VER_8_1_0_EXFAT |-> FS_OFFSET_810_EXFAT,
  FS_VER_9_0_0 |-> FS_OFFSET_900,
  FS_VER_9_0_0_EXFAT |-> FS_OFFSET_900_EXFAT,
  FS_VER_9_1_0 |-> FS_OFFSET_910,
  FS_VER_9_1_0_EXFAT |-> FS_OFFSET_910_EXFAT,
  FS_VER_10_0_0 |-> FS_OFFSET_1000,
  FS_VER_10_0_0_EXFAT |-> FS_OFFSET_1000_EXFAT,
  FS_VER_10_2_0 |-> FS_OFFSET_1020,
  FS_VER_10_2_0_EXFAT |-> FS_OFFSET_1020_EXFAT,
  FS_VER_11_0_0 |-> FS_OFFSET_1100,
  FS_VER_11_0_0_EXFAT |-> FS_OFFSET_1100_EXFAT,
  FS_VER_12_0_0 |-> FS_OFFSET_1200,
  FS_VER_12_0_0_EXFAT |-> FS_OFFSET_1200_EXFAT,
  FS_VER_12_0_3 |-> FS_OFFSET_1203,
  FS_VER_12_0_3_EXFAT |-> FS_OFFSET_1203_EXFAT,
  FS_VER_13_0_0 |-> FS_OFFSET_1300,
  FS_VER_13_0_0_EXFAT |-> FS_OFFSET_1300_EXFAT,
  FS_VER_13_1_0 |-> FS_OFFSET_1310,
  FS_VER_13_1_0_EXFAT |-> FS_OFFSET_1310_EXFAT,
  FS_VER_14_0_0 |-> FS_OFFSET_1400,
  FS_VER_14_0_0_EXFAT |-> FS_OFFSET_1400_EXFAT,
  FS_VER_15_0_0 |-> FS_OFFSET_1500,
  FS_VER_15_0_0_EXFAT |-> FS_OFFSET_1500_EXFAT,
  FS_VER_16_0_0 |-> FS_OFFSET_1600,
  FS_VER_16_0_0_EXFAT |-> FS_OFFSET_1600_EXFAT,
  FS_VER_16_0_3 |-> FS_OFFSET_1603,
  FS_VER_16_0_3_EXFAT |-> FS_OFFSET_1603_EXFAT,
  FS_VER_17_0_0 |-> FS_OFFSET_1700,
  FS_VER_17_0_0_EXFAT |-> FS_OFFSET_1700_EXFAT,
  FS_VER_18_0_0 |-> FS_OFFSET_1800,
  FS_VER_18_0_0_EXFAT |-> FS_OFFSET_1800_EXFAT,
  FS_VER_18_1_0 |-> FS_OFFSET_1810,
  FS_VER_18_1_0_EXFAT |-> FS_OFFSET_1810_EXFAT,
  FS_VER_19_0_0 |-> FS_OFFSET_1900,
  FS_VER_19_0_0_EXFAT |-> FS_OFFSET_1900_EXFAT,
  FS_VER_20_0_0 |-> FS_OFFSET_2000,
  FS_VER_20_0_0_EXFAT |-> FS_OFFSET_2000_EXFAT]

-----------------------------------------------------------------------------
\* fs_ver >= FS_VER_...: the version of number v is not before name.
Since(name, v) == \E i \in 1..(v + 1) : FS_VER[i] = name

\* The words of an array of paths, two for each pair.
PathSite(paths, k) ==
  LET path == paths[(k + 1) \div 2]
  IN IF k % 2 = 1 THEN path.adrp_offset
     ELSE path.adrp_offset + path.add_rel_offset

Single == {"rtld", "sdmmc_wrapper_read", "sdmmc_wrapper_write",
           "sdmmc_accessor_controller_open", "sdmmc_accessor_controller_close",
           "clkrst_set_min_v_clock_rate", "sd_das_init"}

\* What main.c takes for granted of a table: the array of paths ends; a site is
\* there from the version on that the code asks for; the sites are instructions
\* in reach, and each is another one.
TableOK(fs, v) ==
  LET paths == fs.nintendo_paths
      words == 1..(2 * (Len(paths) - 1))
  IN /\ Len(paths) \in Nat \ {0} /\ DOMAIN paths = 1..Len(paths)
     /\ \A i \in DOMAIN paths :
          /\ paths[i].opcode_reg \in Nat
          /\ paths[i].adrp_offset \in Nat /\ paths[i].add_rel_offset \in Nat
          /\ paths[i] = End <=> i = Len(paths)
          /\ paths[i].adrp_offset = 0 <=> i = Len(paths)
     /\ ~Since("FS_VER_2_0_0", v) => Len(paths) = 3
     /\ \A f \in Single : fs[f] \in 0..(Reach - 1) /\ fs[f] % 4 = 0
     /\ fs.rtld_destination \in (-Reach)..Reach /\ fs.rtld_destination % 4 = 0
     /\ fs.rtld # 0 /\ fs.sdmmc_wrapper_read # 0 /\ fs.sdmmc_wrapper_write # 0
     /\ fs.sdmmc_accessor_controller_close # 0
     /\ fs.clkrst_set_min_v_clock_rate # 0 <=> Since("FS_VER_8_0_0", v)
     /\ fs.sd_das_init # 0 <=> Since("FS_VER_7_0_0", v)
     /\ \A f, g \in Single : fs[f] = fs[g] /\ fs[f] # 0 => f = g
     /\ \A k, l \in words : PathSite(paths, k) = PathSite(paths, l) => k = l
     /\ \A k \in words : \A f \in Single : PathSite(paths, k) # fs[f]

\* Every table is such a one.  The tables are constants: TLC evaluates this to
\* the last entry of each build.
ASSUME TablesAssumption ==
  /\ FS_VER_MAX \in Nat
  /\ \A v \in 0..(FS_VER_MAX - 1) : TableOK(get_fs_offsets[FS_VER[v + 1]], v)
=============================================================================
