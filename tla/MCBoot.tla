------------------------------- MODULE MCBoot -------------------------------
(***************************************************************************)
(* Boot on every build of FS, loaded where the image and FS's code lie in  *)
(* one 4 GB window, where a window ends between them, where one ends       *)
(* inside FS's code, and where one ends between the image's strings.       *)
(***************************************************************************)
EXTENDS Boot

\* An image of 256 pages, its strings in the last two of them.
MCInjectedSize == 256 * PageSize
MCBasePages == {32768, Window - 256, Window - 512, Window - 255}
MCSymbol ==
  [sdmmc_wrapper_read             |-> 4096,
   sdmmc_wrapper_write            |-> 5200,
   sdmmc_wrapper_controller_open  |-> 6160,
   sdmmc_wrapper_controller_close |-> 6236,
   clkrst_set_min_v_clock_rate    |-> 8192,
   nintendo_path                  |-> MCInjectedSize - 1800,
   nintendo_path_album_100        |-> MCInjectedSize - 5000,
   nintendo_path_contents_100     |-> MCInjectedSize - 300]
MCFsVersions == 0..FS_VER_MAX
=============================================================================
