----------------------------- MODULE BootProofs -----------------------------
(***************************************************************************)
(* Proofs about Boot: the exchange that gives emuMMC its process handle,   *)
(* for every schedule of the two threads and every failure of the kernel;  *)
(* what the instructions written over FS do, for every address; and what   *)
(* is written when FS begins to run, for every build and every image.      *)
(***************************************************************************)
EXTENDS Boot, FiniteSetTheorems, TLAPS

\* What each thread knows of the other, and of the session between them.
Handshake ==
  /\ caller \in {"notCalled", "createSession", "createThread"}
       => helper = "none"
  /\ caller = "startThread" => helper = "created"
  /\ caller \in {"notCalled", "createSession", "createThread", "startThread",
                 "send"} => request = "none"
  /\ caller \in {"closeThread", "returned"} => helper = "ended"
  /\ helper \in {"set", "closeSession", "exit", "ended"}
       => request = "received"
  /\ helper \in {"closeSession", "exit", "ended"}
       => self_proc_handle = FsHandle
  /\ helper \in {"exit", "ended"} => server = "closed"
  /\ caller \in {"wait", "closeThread", "returned"} => client = "closed"
  /\ caller = "returned" => thread_handle = "closed"

\* How far __init is, by where the exchange is.
BootOrder ==
  /\ boot \in {"query", "config", "offsets"} => caller = "notCalled"
  /\ boot \in {"map", "setup_hooks", "pointers", "nops", "paths", "unmap",
               "clock", "i2c", "running"} => caller = "returned"

HandleInv == HandleTypeOK /\ Handshake /\ BootOrder

USE DEF NoHandle, FsHandle

LEMMA InitHandle == Init => HandleInv
BY DEF Init, HandleInit, HandleInv, HandleTypeOK, Handshake, BootOrder, Ends,
       CallerPcs, HelperPcs, HelperLive, Inside

\* A step of _init_process_handle keeps what the two threads know.
LEMMA CallerKeeps ==
  ASSUME HandleTypeOK, Handshake, Caller
  PROVE  HandleTypeOK' /\ Handshake'
<1> USE DEF HandleTypeOK, Handshake, Ends, CallerPcs, HelperPcs, HelperLive,
            Inside, CallerGoes
<1>1. CASE CreateSession
  BY <1>1 DEF CreateSession
<1>2. CASE CreateThread
  BY <1>2 DEF CreateThread
<1>3. CASE StartThread
  BY <1>3 DEF StartThread
<1>4. CASE SendSyncRequest
  BY <1>4 DEF SendSyncRequest
<1>5. CASE SendFails
  BY <1>5 DEF SendFails
<1>6. CASE SendReturns
  BY <1>6 DEF SendReturns
<1>7. CASE CloseClient
  BY <1>7 DEF CloseClient
<1>8. CASE WaitSynchronization
  BY <1>8 DEF WaitSynchronization, WaitDone
<1>9. CASE CloseThread
  BY <1>9 DEF CloseThread
<1>10. ASSUME NEW from \in {"createSession", "createThread", "startThread",
                            "wait"},
              CallerFails(from)
       PROVE  HandleTypeOK' /\ Handshake'
  BY <1>10 DEF CallerFails
<1> QED
  BY <1>1, <1>2, <1>3, <1>4, <1>5, <1>6, <1>7, <1>8, <1>9, <1>10 DEF Caller

\* So does a step of the helper, which leaves the caller where it is.
LEMMA HelperKeeps ==
  ASSUME HandleTypeOK, Handshake, Helper
  PROVE  HandleTypeOK' /\ Handshake' /\ caller' = caller
<1> USE DEF HandleTypeOK, Handshake, Ends, CallerPcs, HelperPcs, HelperLive,
            Inside, HelperGoes
<1>1. CASE CopyHandle
  BY <1>1 DEF CopyHandle
<1>2. CASE ReplyAndReceive
  BY <1>2 DEF ReplyAndReceive
<1>3. CASE ReceiveFails
  BY <1>3 DEF ReceiveFails, ReceiveError
<1>4. CASE SetHandle
  BY <1>4 DEF SetHandle
<1>5. CASE CloseSession
  BY <1>5 DEF CloseSession
<1>6. CASE ExitThread
  BY <1>6 DEF ExitThread
<1> QED
  BY <1>1, <1>2, <1>3, <1>4, <1>5, <1>6 DEF Helper

\* The steps of __init around the exchange leave it alone, and follow it.
LEMMA NextHandle == HandleInv /\ [Next]_vars => HandleInv'
<1> SUFFICES ASSUME HandleInv, [Next]_vars
             PROVE  HandleInv'
  OBVIOUS
<1> USE DEF HandleInv, At, fatal_abort
<1>1. ASSUME UNCHANGED <<boot, handleVars>>
      PROVE  HandleInv'
  BY <1>1 DEF handleVars, HandleTypeOK, Handshake, BootOrder
<1>2. ASSUME UNCHANGED handleVars,
             \/ boot = "query" /\ boot' = "config"
             \/ boot = "config" /\ boot' = "offsets"
             \/ boot = "map" /\ boot' \in {"map", "setup_hooks"}
             \/ boot = "setup_hooks" /\ boot' = "pointers"
             \/ boot = "pointers" /\ boot' = "nops"
             \/ boot = "nops" /\ boot' = "paths"
             \/ boot = "paths" /\ boot' = "unmap"
             \/ boot = "unmap" /\ boot' = "clock"
             \/ boot = "clock" /\ boot' = "i2c"
             \/ boot = "i2c" /\ boot' = "running"
             \/ boot' = "fatal"
      PROVE  HandleInv'
  <2>1. HandleTypeOK' /\ Handshake'
    BY <1>2 DEF handleVars, HandleTypeOK, Handshake
  <2>2. BootOrder'
    BY <1>2 DEF handleVars, BootOrder
  <2> QED
    BY <2>1, <2>2
<1>3. CASE ChooseOffsets
  <2>1. HandleTypeOK' /\ Handshake'
    BY <1>3 DEF ChooseOffsets, HandleTypeOK, Handshake, BootOrder, CallerPcs
  <2>2. BootOrder'
    BY <1>3 DEF ChooseOffsets, BootOrder
  <2> QED
    BY <2>1, <2>2
<1>4. CASE ProcessHandleStep
  <2>1. HandleTypeOK' /\ Handshake'
    BY <1>4, CallerKeeps DEF ProcessHandleStep
  <2>2. BootOrder'
    BY <1>4 DEF ProcessHandleStep, BootOrder
  <2> QED
    BY <2>1, <2>2
<1>5. CASE HelperStep
  <2>1. HandleTypeOK' /\ Handshake' /\ caller' = caller /\ boot' = boot
    BY <1>5, HelperKeeps DEF HelperStep
  <2>2. BootOrder'
    BY <2>1 DEF BootOrder
  <2> QED
    BY <2>1, <2>2
<1>6. CASE Done \/ UNCHANGED vars
  BY <1>6, <1>1 DEF Done, vars
<1>7. CASE QueryMemory \/ ConfigFails \/ UnknownVersion \/ MapFails \/ UnmapFails
  BY <1>7, <1>2 DEF QueryMemory, ConfigFails, UnknownVersion, MapFails,
                    UnmapFails
<1>8. CASE load_emummc_ctx
  BY <1>8, <1>2 DEF load_emummc_ctx
<1>9. CASE _map_fs_rw
  BY <1>9, <1>2 DEF _map_fs_rw
<1>10. CASE setup_hooks \/ populate_function_pointers \/ write_nops
  BY <1>10, <1>2 DEF setup_hooks, populate_function_pointers, write_nops
<1>11. CASE setup_nintendo_paths
  BY <1>11, <1>2 DEF setup_nintendo_paths
<1>12. CASE _unmap_fs_rw \/ clock_enable_i2c5 \/ i2c_init
  BY <1>12, <1>2 DEF _unmap_fs_rw, clock_enable_i2c5, i2c_init
<1> QED
  BY <1>3, <1>4, <1>5, <1>6, <1>7, <1>8, <1>9, <1>10, <1>11, <1>12
     DEF Next, Main

LEMMA AlwaysHandleInv == Spec => []HandleInv
BY InitHandle, NextHandle, PTL DEF Spec

\* The helper's stack, and the handle it is given, outlive it: as long as it
\* can run, _init_process_handle has not returned (main.c, 185 and 219).
THEOREM SpecStackInUse == Spec => []StackInUse
<1>1. HandleInv => StackInUse
  BY DEF HandleInv, HandleTypeOK, Handshake, StackInUse, HelperLive, CallerPcs,
         Inside
<1> QED
  BY <1>1, AlwaysHandleInv, PTL

\* _init_process_handle returns with FS's handle and with nothing left open,
\* although it ignores what svcSendSyncRequest says (main.c, 213 to 226).
THEOREM SpecHandleKnown == Spec => []HandleKnown
<1>1. HandleInv => HandleKnown
  BY DEF HandleInv, Handshake, HandleKnown
<1> QED
  BY <1>1, AlwaysHandleInv, PTL

\* FS is patched, mapped and left to run only with its handle known and with
\* the helper gone (main.c, 426 to 432).
HelperGone ==
  boot \in {"map", "setup_hooks", "pointers", "nops", "paths", "unmap",
            "clock", "i2c", "running"}
    => helper = "ended" /\ self_proc_handle = FsHandle

THEOREM SpecHelperGone == Spec => []HelperGone
<1>1. HandleInv => HelperGone
  BY DEF HandleInv, Handshake, BootOrder, HelperGone
<1> QED
  BY <1>1, AlwaysHandleInv, PTL

-----------------------------------------------------------------------------
(* The instructions                                                        *)

LEMMA FieldDecodes ==
  ASSUME NEW n \in {Imm21, Imm26}, NEW x \in Int,
         -(n \div 2) <= x, x < n \div 2
  PROVE  Signed(x % n, n) = x
<1>1. CASE x >= 0
  BY <1>1, SMTT(30) DEF Signed, Imm21, Imm26
<1>2. CASE x < 0
  <2>1. x % n = x + n
    BY <1>2, SMTT(30) DEF Imm21, Imm26
  <2> QED
    BY <2>1, <1>2, SMTT(30) DEF Signed, Imm21, Imm26
<1> QED
  BY <1>1, <1>2

\* A branch written at source goes to destination, for every two instructions
\* less than 128 MB apart (main.c, 70 and 257).
THEOREM BranchReaches ==
  ASSUME NEW source \in Int, NEW destination \in Int,
         source % 4 = 0, destination % 4 = 0,
         -134217728 <= destination - source, destination - source < 134217728
  PROVE  BranchTarget(GENERATE_BRANCH(source, destination), source)
           = destination
<1> DEFINE words == (destination - source) \div 4
<1>1. words \in Int /\ destination - source = 4 * words
  OBVIOUS
<1>2. -(Imm26 \div 2) <= words /\ words < Imm26 \div 2
  BY <1>1, SMTT(30) DEF Imm26
<1> HIDE DEF words
<1>3. Signed(words % Imm26, Imm26) = words
  BY <1>1, <1>2, FieldDecodes
<1>4. GENERATE_BRANCH(source, destination).imm = words % Imm26
  BY DEF GENERATE_BRANCH, words
<1> QED
  BY <1>1, <1>3, <1>4 DEF BranchTarget

\* The ADRP written in page pc gives the page of destination exactly when both
\* are in the same 4 GB of the address space (main.c, 69 and 272): the offset
\* always fits the instruction, and only the mask loses something.
THEOREM AdrpReaches ==
  ASSUME NEW pc \in Nat, NEW destination \in Nat, NEW register
  PROVE  AdrpPage(GENERATE_ADRP(register, PageOffset(pc, destination)), pc)
           = destination
         <=> pc \div Window = destination \div Window
<1> DEFINE off == PageOffset(pc, destination)
<1>1. off = (destination % Window) - (pc % Window)
  BY DEF PageOffset
<1>2. /\ destination % Window \in Int /\ pc % Window \in Int
      /\ 0 <= destination % Window /\ destination % Window < Window
      /\ 0 <= pc % Window /\ pc % Window < Window
  BY SMTT(30) DEF Window
<1>3. off \in Int /\ -(Imm21 \div 2) <= off /\ off < Imm21 \div 2
  BY <1>1, <1>2, SMTT(30) DEF Window, Imm21
<1>4. Signed(off % Imm21, Imm21) = off
  BY <1>3, FieldDecodes
<1>5. AdrpPage(GENERATE_ADRP(register, off), pc) = pc + off
  BY <1>4 DEF AdrpPage, GENERATE_ADRP
<1>6. /\ pc = (Window * (pc \div Window)) + (pc % Window)
      /\ destination = (Window * (destination \div Window))
                         + (destination % Window)
      /\ pc \div Window \in Int /\ destination \div Window \in Int
  BY SMTT(30) DEF Window
<1> DEFINE p == pc \div Window
           d == destination \div Window
           r == pc % Window
           t == destination % Window
<1>7. /\ p \in Int /\ d \in Int /\ r \in Int /\ t \in Int
      /\ pc = (Window * p) + r /\ destination = (Window * d) + t
  BY <1>2, <1>6
<1> HIDE DEF off, p, d, r, t
<1>8. pc + (t - r) = destination <=> p = d
  BY <1>7, SMTT(30) DEF Window
<1>9. AdrpPage(GENERATE_ADRP(register, off), pc) = pc + (t - r)
  BY <1>1, <1>5 DEF r, t
<1> QED
  BY <1>8, <1>9 DEF off, p, d

-----------------------------------------------------------------------------
(* Lists of words to write                                                 *)

Instruction ==
  [op : {"b"}, imm : Int] \cup {GENERATE_NOP}
    \cup [op : {"adrp"}, reg : Nat, imm : Int]
    \cup [op : {"add"}, reg : Nat, target : Nat, imm : Int]

Writes == Seq(Int \X Instruction)

\* The words of s are those of W, each at a place of its own.
Lists(s, W) ==
  /\ s \in Writes
  /\ \A i, j \in DOMAIN s : s[i][1] = s[j][1] => i = j
  /\ {s[i] : i \in DOMAIN s} = W

LEMMA ListsNone == Lists(<<>>, {})
BY DEF Lists, Writes

LEMMA ListsOne ==
  ASSUME NEW o \in Int, NEW x \in Instruction
  PROVE  Lists(<<<<o, x>>>>, {<<o, x>>})
<1> DEFINE s == <<<<o, x>>>>
<1>1. s \in Writes /\ DOMAIN s = {1} /\ s[1] = <<o, x>>
  BY DEF Writes
<1> HIDE DEF s
<1>2. {s[i] : i \in DOMAIN s} = {<<o, x>>}
  BY <1>1
<1>3. \A i, j \in DOMAIN s : s[i][1] = s[j][1] => i = j
  BY <1>1
<1> QED BY <1>1, <1>2, <1>3 DEF Lists, s

LEMMA ListsJoined ==
  ASSUME NEW s, NEW t, NEW V, NEW W, Lists(s, V), Lists(t, W),
         \A x \in V : \A y \in W : x[1] # y[1]
  PROVE  Lists(s \o t, V \cup W)
<1> DEFINE u == s \o t
           m == Len(s)
           n == Len(t)
<1>1. /\ s \in Writes /\ t \in Writes /\ m \in Nat /\ n \in Nat
      /\ DOMAIN s = 1..m /\ DOMAIN t = 1..n
  BY DEF Lists, Writes
<1>2. /\ u \in Writes /\ DOMAIN u = 1..(m + n)
      /\ \A i \in 1..m : u[i] = s[i]
      /\ \A i \in 1..n : u[m + i] = t[i]
  BY <1>1 DEF Writes
<1> HIDE DEF u, m, n
<1>3. ASSUME NEW i \in DOMAIN u
      PROVE  \/ i \in 1..m /\ u[i] = s[i] /\ u[i] \in V
             \/ i - m \in 1..n /\ u[i] = t[i - m] /\ u[i] \in W
  <2>1. CASE i <= m
    <3>1. i \in 1..m
      BY <1>1, <1>2, <1>3, <2>1
    <3> QED BY <1>1, <1>2, <3>1 DEF Lists
  <2>2. CASE i > m
    <3>1. i - m \in 1..n /\ i = m + (i - m)
      BY <1>1, <1>2, <1>3, <2>2
    <3>2. u[i] = t[i - m]
      BY <1>2, <3>1
    <3> QED BY <1>1, <3>1, <3>2 DEF Lists
  <2> QED BY <1>1, <1>2, <1>3, <2>1, <2>2
<1>4. ASSUME NEW i \in DOMAIN u, NEW j \in DOMAIN u, u[i][1] = u[j][1]
      PROVE  i = j
  <2>1. CASE i \in 1..m /\ j \in 1..m
    BY <1>1, <1>2, <1>4, <2>1 DEF Lists
  <2>2. CASE i \notin 1..m /\ j \notin 1..m
    <3>1. i - m \in 1..n /\ j - m \in 1..n /\ u[i] = t[i - m] /\ u[j] = t[j - m]
      BY <1>3, <2>2
    <3>2. i - m = j - m
      BY <1>1, <1>4, <3>1 DEF Lists
    <3> QED BY <1>1, <1>2, <3>2
  <2>3. CASE i \in 1..m /\ j \notin 1..m
    <3>1. u[i] = s[i] /\ u[j] \in W
      BY <1>2, <1>3, <2>3
    <3>2. u[i] \in V
      BY <1>1, <2>3, <3>1 DEF Lists
    <3> QED BY <1>4, <3>1, <3>2
  <2>4. CASE i \notin 1..m /\ j \in 1..m
    <3>1. u[j] = s[j] /\ u[i] \in W
      BY <1>2, <1>3, <2>4
    <3>2. u[j] \in V
      BY <1>1, <2>4, <3>1 DEF Lists
    <3> QED BY <1>4, <3>1, <3>2
  <2> QED BY <2>1, <2>2, <2>3, <2>4
<1>5. {u[i] : i \in DOMAIN u} = V \cup W
  <2>1. ASSUME NEW x \in V \cup W PROVE \E i \in DOMAIN u : u[i] = x
    <3>1. CASE x \in V
      <4>1. PICK i \in 1..m : s[i] = x
        BY <1>1, <3>1 DEF Lists
      <4>2. i \in 1..(m + n) /\ u[i] = x
        BY <1>1, <1>2, <4>1
      <4> QED BY <1>2, <4>2
    <3>2. CASE x \in W
      <4>1. PICK i \in 1..n : t[i] = x
        BY <1>1, <3>2 DEF Lists
      <4>2. m + i \in 1..(m + n) /\ u[m + i] = x
        BY <1>1, <1>2, <4>1
      <4> QED BY <1>2, <4>2
    <3> QED BY <2>1, <3>1, <3>2
  <2> QED BY <1>3, <2>1
<1>6. u \in Writes
  BY <1>2
<1> QED BY <1>4, <1>5, <1>6 DEF Lists, u

\* What the processor fetches where a word of the list was written.
LEMMA WordOf ==
  ASSUME NEW W, Lists(written, W), NEW o, NEW x, <<o, x>> \in W
  PROVE  Word(o) = x
<1>1. Range(written) = W
  BY DEF Lists, Range
<1>2. \A v, w \in W : v[1] = w[1] => v = w
  BY DEF Lists
<1>3. \A w \in W : w[1] = o => w = <<o, x>>
  BY <1>2
<1> DEFINE c == CHOOSE w \in W : w[1] = o
<1>4. c \in W /\ c[1] = o
  <2>1. <<o, x>>[1] = o
    OBVIOUS
  <2> QED BY <2>1
<1> HIDE DEF c
<1>5. c = <<o, x>>
  BY <1>3, <1>4
<1>6. c[2] = x
  BY <1>5
<1> QED BY <1>1, <1>6 DEF Word, c

-----------------------------------------------------------------------------
(* What is written, by where __init is                                     *)

Version == emuMMC_ctx.fs_ver

BeforeOffsets == {"query", "config", "offsets"}
BeforeHooks   == BeforeOffsets \cup {"handle", "map", "setup_hooks"}
AfterPaths    == {"unmap", "clock", "i2c", "running"}

AllWrites ==
  LET w == <<>> \o Hooks(fs_offsets) \o INJECT_NOP(fs_offsets)
  IN IF AtLeast("FS_VER_2_0_0") THEN w \o RedirectAll(Paths)
     ELSE w \o write_adrp_add(Paths[1], "nintendo_path_album_100")
            \o write_adrp_add(Paths[2], "nintendo_path_contents_100")

\* Neither Nintendo's own folder nor a path into it.
Renamed(name) == name = <<name[1]>> /\ name[1] # "Nintendo"

PatchInv ==
  /\ text_base \in Nat
  /\ boot \in {"query", "config"} => path_text = DefaultPaths
  /\ boot \notin {"query", "config", "fatal"}
       => Version \in 0..FS_VER_MAX /\ Renamed(path_text.nintendo_path)
  /\ boot \notin BeforeOffsets \cup {"fatal"} =>
       /\ Version \in 0..(FS_VER_MAX - 1)
       /\ fs_offsets = get_fs_offsets[FS_VER[Version + 1]]
  /\ boot \in BeforeHooks => written = <<>>
  /\ boot \in {"pointers", "nops"} => written = <<>> \o Hooks(fs_offsets)
  /\ boot = "paths" => written = <<>> \o Hooks(fs_offsets) \o INJECT_NOP(fs_offsets)
  /\ boot \in AfterPaths =>
       /\ written = AllWrites
       /\ ~AtLeast("FS_VER_2_0_0") =>
            LET name == path_text.nintendo_path
            IN /\ path_text.nintendo_path_album_100 = <<"/">> \o name \o <<"/Album">>
               /\ path_text.nintendo_path_contents_100
                    = <<"/">> \o name \o <<"/Contents">>

LEMMA InitPatch == Init => PatchInv
BY BaseAssumption DEF Init, PatchInv, BeforeOffsets, BeforeHooks, AfterPaths

\* The steps that touch neither what is written nor what it is made from.
LEMMA PatchSame ==
  ASSUME PatchInv, text_base' = text_base, emuMMC_ctx' = emuMMC_ctx,
         path_text' = path_text, fs_offsets' = fs_offsets, written' = written,
         \/ boot' = boot \/ boot' = "fatal"
         \/ boot = "query" /\ boot' = "config"
         \/ boot = "handle" /\ boot' = "map"
         \/ boot = "map" /\ boot' = "setup_hooks"
         \/ boot = "pointers" /\ boot' = "nops"
         \/ boot = "unmap" /\ boot' = "clock"
         \/ boot = "clock" /\ boot' = "i2c"
         \/ boot = "i2c" /\ boot' = "running"
  PROVE  PatchInv'
<1>1. /\ Version' = Version /\ (\A v : AtLeast(v)' <=> AtLeast(v))
      /\ Hooks(fs_offsets)' = Hooks(fs_offsets)
      /\ INJECT_NOP(fs_offsets)' = INJECT_NOP(fs_offsets)
      /\ AllWrites' = AllWrites
  BY DEF Version, AtLeast, Hooks, INJECT_NOP, AllWrites, Paths, RedirectAll,
         write_adrp_add, PageOf, INJECT_HOOK, INJECT_HOOK_RELATIVE, WriteHook,
         ControllerOpenHook, ClkrstHook
<1>2. CASE boot' = boot
  BY <1>1, <1>2 DEF PatchInv
<1>3. CASE boot' = "fatal"
  BY <1>1, <1>3 DEF PatchInv, BeforeOffsets, BeforeHooks, AfterPaths
<1>4. CASE boot = "query" /\ boot' = "config"
  BY <1>1, <1>4 DEF PatchInv, BeforeOffsets, BeforeHooks, AfterPaths
<1>5. CASE \/ boot = "handle" /\ boot' = "map"
           \/ boot = "map" /\ boot' = "setup_hooks"
  BY <1>1, <1>5 DEF PatchInv, BeforeOffsets, BeforeHooks, AfterPaths
<1>6. CASE boot = "pointers" /\ boot' = "nops"
  BY <1>1, <1>6 DEF PatchInv, BeforeOffsets, BeforeHooks, AfterPaths
<1>7. CASE \/ boot = "unmap" /\ boot' = "clock"
           \/ boot = "clock" /\ boot' = "i2c"
           \/ boot = "i2c" /\ boot' = "running"
  BY <1>1, <1>7 DEF PatchInv, BeforeOffsets, BeforeHooks, AfterPaths
<1> QED BY <1>2, <1>3, <1>4, <1>5, <1>6, <1>7

LEMMA ConfigPatch == PatchInv /\ load_emummc_ctx => PatchInv'
<1> SUFFICES ASSUME PatchInv, load_emummc_ctx PROVE PatchInv'
  OBVIOUS
<1>1. PICK c \in Configs :
        /\ emuMMC_ctx' = [fs_ver |-> TakenVersion(c), EMMC_Type |-> c.type,
                          file |-> c.type = "SD_File",
                          partition |-> c.type = "SD_Raw"]
        /\ path_text' = [path_text EXCEPT !.nintendo_path =
                           IF c.nintendo_path = "" THEN <<GeneratedPath>>
                           ELSE <<c.nintendo_path>>]
  BY DEF load_emummc_ctx
<1>2. /\ boot = "config" /\ boot' = "offsets" /\ text_base' = text_base
      /\ fs_offsets' = fs_offsets /\ written' = written
  BY DEF load_emummc_ctx, At
<1>3. Version' \in 0..FS_VER_MAX
  BY <1>1, VersionAssumption DEF Version, Configs, TakenVersion
<1>4. Renamed(path_text.nintendo_path)'
  <2>1. path_text = DefaultPaths
    BY <1>2 DEF PatchInv
  <2> DEFINE x == IF c.nintendo_path = "" THEN GeneratedPath ELSE c.nintendo_path
  <2>2. path_text'.nintendo_path = <<x>>
    BY <1>1, <2>1 DEF DefaultPaths
  <2>3. c.nintendo_path \in {"", "custom"}
    BY DEF Configs
  <2>4. x \in {GeneratedPath, "custom"}
    BY <2>3
  <2> HIDE DEF x
  <2>5. x # "Nintendo"
    BY <2>4 DEF GeneratedPath
  <2> QED BY <2>2, <2>5 DEF Renamed
<1> QED BY <1>2, <1>3, <1>4 DEF PatchInv, BeforeOffsets, BeforeHooks, AfterPaths

LEMMA OffsetsPatch == PatchInv /\ ChooseOffsets => PatchInv'
<1> SUFFICES ASSUME PatchInv, ChooseOffsets PROVE PatchInv'
  OBVIOUS
<1>1. /\ boot = "offsets" /\ boot' = "handle" /\ text_base' = text_base
      /\ emuMMC_ctx' = emuMMC_ctx /\ path_text' = path_text /\ written' = written
      /\ Version < FS_VER_MAX
      /\ fs_offsets' = get_fs_offsets[FS_VER[Version + 1]]
  BY DEF ChooseOffsets, At, Version
<1>2. Version' = Version /\ Version \in 0..FS_VER_MAX
  BY <1>1 DEF PatchInv, Version, BeforeOffsets
<1>3. Version \in 0..(FS_VER_MAX - 1)
  BY <1>1, <1>2, TablesAssumption
<1> QED BY <1>1, <1>2, <1>3 DEF PatchInv, BeforeOffsets, BeforeHooks, AfterPaths

LEMMA HooksPatch == PatchInv /\ (setup_hooks \/ write_nops) => PatchInv'
<1> SUFFICES ASSUME PatchInv, setup_hooks \/ write_nops PROVE PatchInv'
  OBVIOUS
<1>1. /\ text_base' = text_base /\ emuMMC_ctx' = emuMMC_ctx
      /\ path_text' = path_text /\ fs_offsets' = fs_offsets
  BY DEF setup_hooks, write_nops
<1>2. /\ Version' = Version
      /\ Hooks(fs_offsets)' = Hooks(fs_offsets)
      /\ INJECT_NOP(fs_offsets)' = INJECT_NOP(fs_offsets)
  BY <1>1 DEF Version, AtLeast, Hooks, INJECT_NOP, INJECT_HOOK,
         INJECT_HOOK_RELATIVE, WriteHook, ControllerOpenHook, ClkrstHook
<1>3. CASE setup_hooks
  BY <1>1, <1>2, <1>3
     DEF setup_hooks, At, PatchInv, BeforeOffsets, BeforeHooks, AfterPaths
<1>4. CASE write_nops
  BY <1>1, <1>2, <1>4
     DEF write_nops, At, PatchInv, BeforeOffsets, BeforeHooks, AfterPaths
<1> QED BY <1>3, <1>4

LEMMA PathsPatch == PatchInv /\ setup_nintendo_paths => PatchInv'
<1> SUFFICES ASSUME PatchInv, setup_nintendo_paths PROVE PatchInv'
  OBVIOUS
<1>1. /\ boot = "paths" /\ boot' = "unmap" /\ text_base' = text_base
      /\ emuMMC_ctx' = emuMMC_ctx /\ fs_offsets' = fs_offsets
  BY DEF setup_nintendo_paths, At
<1>2. /\ Version' = Version /\ (\A v : AtLeast(v)' <=> AtLeast(v))
      /\ AllWrites' = AllWrites
  BY <1>1 DEF Version, AtLeast, Hooks, INJECT_NOP, AllWrites, Paths, RedirectAll,
         write_adrp_add, PageOf, INJECT_HOOK, INJECT_HOOK_RELATIVE, WriteHook,
         ControllerOpenHook, ClkrstHook
<1>3. /\ text_base \in Nat /\ Version \in 0..(FS_VER_MAX - 1)
      /\ Version \in 0..FS_VER_MAX
      /\ fs_offsets = get_fs_offsets[FS_VER[Version + 1]]
      /\ written = <<>> \o Hooks(fs_offsets) \o INJECT_NOP(fs_offsets)
  BY <1>1 DEF PatchInv, BeforeOffsets
<1>4. Renamed(path_text.nintendo_path)
  BY <1>1 DEF PatchInv
<1> DEFINE name == path_text.nintendo_path
<1>5. CASE AtLeast("FS_VER_2_0_0")
  <2>1. written' = AllWrites /\ path_text' = path_text
    BY <1>3, <1>5 DEF setup_nintendo_paths, AllWrites, Paths
  <2>2. Renamed(path_text.nintendo_path)'
    BY <1>4, <2>1 DEF Renamed
  <2> QED
    BY <1>1, <1>2, <1>3, <1>5, <2>1, <2>2
       DEF PatchInv, BeforeOffsets, BeforeHooks, AfterPaths
<1>6. CASE ~AtLeast("FS_VER_2_0_0")
  <2>1. /\ written' = AllWrites
        /\ path_text' =
             [nintendo_path              |-> name,
              nintendo_path_album_100    |-> <<"/">> \o name \o <<"/Album">>,
              nintendo_path_contents_100 |-> <<"/">> \o name \o <<"/Contents">>]
    BY <1>3, <1>6 DEF setup_nintendo_paths, AllWrites, Paths
  <2>2. Renamed(path_text.nintendo_path)'
    BY <1>4, <2>1 DEF Renamed
  <2> QED
    BY <1>1, <1>2, <1>3, <1>4, <2>1, <2>2
       DEF PatchInv, BeforeOffsets, BeforeHooks, AfterPaths
<1> QED BY <1>5, <1>6

LEMMA NextPatch == PatchInv /\ [Next]_vars => PatchInv'
<1> SUFFICES ASSUME PatchInv, [Next]_vars PROVE PatchInv'
  OBVIOUS
<1> USE DEF At, fatal_abort, bootVars
<1>1. CASE load_emummc_ctx
  BY <1>1, ConfigPatch
<1>2. CASE ChooseOffsets
  BY <1>2, OffsetsPatch
<1>3. CASE setup_hooks \/ write_nops
  BY <1>3, HooksPatch
<1>4. CASE setup_nintendo_paths
  BY <1>4, PathsPatch
<1>5. CASE QueryMemory \/ ConfigFails \/ UnknownVersion \/ MapFails \/ UnmapFails
  BY <1>5, PatchSame DEF QueryMemory, ConfigFails, UnknownVersion, MapFails,
                         UnmapFails
<1>6. CASE ProcessHandleStep
  BY <1>6, PatchSame DEF ProcessHandleStep
<1>7. CASE HelperStep \/ Done \/ UNCHANGED vars
  BY <1>7, PatchSame DEF HelperStep, Done, vars
<1>8. CASE _map_fs_rw
  BY <1>8, PatchSame DEF _map_fs_rw
<1>9. CASE populate_function_pointers \/ _unmap_fs_rw \/ clock_enable_i2c5 \/ i2c_init
  BY <1>9, PatchSame DEF populate_function_pointers, _unmap_fs_rw,
                         clock_enable_i2c5, i2c_init
<1> QED
  BY <1>1, <1>2, <1>3, <1>4, <1>5, <1>6, <1>7, <1>8, <1>9 DEF Next, Main

LEMMA AlwaysPatchInv == Spec => []PatchInv
BY InitPatch, NextPatch, PTL DEF Spec

-----------------------------------------------------------------------------
(* The words that a table lists                                            *)

RtldWord ==
  LET source == INJECT_OFFSET(fs_offsets.rtld)
  IN <<fs_offsets.rtld, GENERATE_BRANCH(source, source + fs_offsets.rtld_destination)>>

HookWord(h) == <<h[1], GENERATE_BRANCH(INJECT_OFFSET(h[1]), Symbol[h[2]])>>

\* One of HookSites, if the build has it.
HookPiece(h) == IF h[1] = 0 THEN <<>> ELSE INJECT_HOOK(h[1], h[2])
HookSet(h)   == IF h[1] = 0 THEN {} ELSE {HookWord(h)}

HookWords == {HookWord(h) : h \in {g \in HookSites : g[1] # 0}}

NopWords ==
  IF fs_offsets.sd_das_init = 0 THEN {} ELSE {<<fs_offsets.sd_das_init, GENERATE_NOP>>}

PairWord(k) ==
  write_adrp_add(Paths[(k + 1) \div 2], StringFor((k + 1) \div 2))[2 - (k % 2)]

PairWords == {PairWord(k) : k \in 1..(2 * (Len(Paths) - 1))}

LEMMA TableHolds ==
  ASSUME PatchInv, boot \in AfterPaths
  PROVE  /\ TableOK(fs_offsets, Version) /\ written = AllWrites
         /\ text_base \in Nat /\ Version \in Int
<1>1. /\ Version \in 0..(FS_VER_MAX - 1)
      /\ fs_offsets = get_fs_offsets[FS_VER[Version + 1]]
      /\ written = AllWrites /\ text_base \in Nat
  BY DEF PatchInv, BeforeOffsets, AfterPaths
<1> QED BY <1>1, TablesAssumption

LEMMA BranchType ==
  ASSUME NEW a \in Int, NEW b \in Int
  PROVE  GENERATE_BRANCH(a, b) \in Instruction
<1> DEFINE x == ((b - a) \div 4) % Imm26
<1>1. x \in Int
  BY SMTT(30) DEF Imm26
<1>2. GENERATE_BRANCH(a, b) = [op |-> "b", imm |-> x]
  BY DEF GENERATE_BRANCH
<1> HIDE DEF x
<1> QED BY <1>1, <1>2 DEF Instruction

LEMMA HookListed ==
  ASSUME TableOK(fs_offsets, Version), NEW h \in HookSites
  PROVE  /\ Lists(HookPiece(h), HookSet(h)) /\ h[1] \in Int
         /\ Symbol[h[2]] \in Int /\ INJECT_OFFSET(h[1]) \in Int
<1>1. h[1] \in Int /\ h[2] \in Wrappers
  BY DEF TableOK, HookSites, Single, Wrappers
<1>2. Symbol[h[2]] \in Int /\ INJECT_OFFSET(h[1]) \in Int
  BY <1>1, SymbolAssumption, SizeAssumption DEF INJECT_OFFSET
<1>3. CASE h[1] = 0
  BY <1>1, <1>2, <1>3, ListsNone DEF HookPiece, HookSet
<1>4. CASE h[1] # 0
  <2> DEFINE x == GENERATE_BRANCH(INJECT_OFFSET(h[1]), Symbol[h[2]])
  <2>1. x \in Instruction
    BY <1>2, BranchType
  <2>2. HookPiece(h) = <<<<h[1], x>>>> /\ HookSet(h) = {<<h[1], x>>}
    BY <1>4 DEF HookPiece, HookSet, HookWord, INJECT_HOOK
  <2> HIDE DEF x
  <2>3. Lists(<<<<h[1], x>>>>, {<<h[1], x>>})
    BY <1>1, <2>1, ListsOne
  <2> QED BY <1>1, <1>2, <2>2, <2>3
<1> QED BY <1>3, <1>4

LEMMA HooksListed ==
  ASSUME TableOK(fs_offsets, Version)
  PROVE  Lists(Hooks(fs_offsets), {RtldWord} \cup HookWords)
<1> DEFINE f  == fs_offsets
           h1 == <<f.sdmmc_wrapper_read, "sdmmc_wrapper_read">>
           h2 == <<f.sdmmc_wrapper_write, "sdmmc_wrapper_write">>
           h3 == <<f.sdmmc_accessor_controller_open, "sdmmc_wrapper_controller_open">>
           h4 == <<f.sdmmc_accessor_controller_close, "sdmmc_wrapper_controller_close">>
           h5 == <<f.clkrst_set_min_v_clock_rate, "clkrst_set_min_v_clock_rate">>
           r  == INJECT_HOOK_RELATIVE(f.rtld, f.rtld_destination)
           W1 == {RtldWord} \cup HookSet(h1)
           W2 == W1 \cup HookSet(h2)
           W3 == W2 \cup HookSet(h3)
           W4 == W3 \cup HookSet(h4)
           W5 == W4 \cup HookSet(h5)
<1>1. HookSites = {h1, h2, h3, h4, h5}
  BY DEF HookSites
<1>2. /\ h1[1] = f.sdmmc_wrapper_read /\ h2[1] = f.sdmmc_wrapper_write
      /\ h3[1] = f.sdmmc_accessor_controller_open
      /\ h4[1] = f.sdmmc_accessor_controller_close
      /\ h5[1] = f.clkrst_set_min_v_clock_rate
  OBVIOUS
<1>3. Hooks(f) = r \o HookPiece(h1) \o HookPiece(h2) \o HookPiece(h3)
                   \o HookPiece(h4) \o HookPiece(h5)
  <2>1. HookPiece(h1) = INJECT_HOOK(f.sdmmc_wrapper_read, "sdmmc_wrapper_read")
    BY DEF HookPiece, TableOK
  <2>2. HookPiece(h2) = WriteHook(f)
    BY DEF HookPiece, WriteHook, TableOK
  <2>3. HookPiece(h3) = ControllerOpenHook(f)
    BY DEF HookPiece, ControllerOpenHook
  <2>4. HookPiece(h4) = INJECT_HOOK(f.sdmmc_accessor_controller_close,
                                    "sdmmc_wrapper_controller_close")
    BY DEF HookPiece, TableOK
  <2>5. HookPiece(h5) = ClkrstHook(f)
    BY DEF HookPiece, ClkrstHook, TableOK, AtLeast, Version
  <2> QED BY <2>1, <2>2, <2>3, <2>4, <2>5 DEF Hooks
\* Each site is another one.
<1>4. /\ f.rtld \in Int /\ f.rtld # 0
      /\ h1[1] # f.rtld /\ h2[1] # f.rtld /\ h3[1] # f.rtld /\ h4[1] # f.rtld
      /\ h5[1] # f.rtld
      /\ h1[1] # 0 => h1[1] \notin {h2[1], h3[1], h4[1], h5[1]}
      /\ h2[1] # 0 => h2[1] \notin {h3[1], h4[1], h5[1]}
      /\ h3[1] # 0 => h3[1] \notin {h4[1], h5[1]}
      /\ h4[1] # 0 => h4[1] # h5[1]
  BY <1>2 DEF TableOK, Single
<1>5. \A h : \A x \in HookSet(h) : x[1] = h[1] /\ h[1] # 0
  BY DEF HookSet, HookWord
<1>6. RtldWord[1] = f.rtld
  BY DEF RtldWord
<1>7. Lists(r, {RtldWord})
  <2>1. f.rtld \in Int /\ f.rtld_destination \in Int
    BY DEF TableOK, Single
  <2>2. INJECT_OFFSET(f.rtld) \in Int
    BY <2>1, SizeAssumption DEF INJECT_OFFSET
  <2> DEFINE y == GENERATE_BRANCH(INJECT_OFFSET(f.rtld),
                                  INJECT_OFFSET(f.rtld) + f.rtld_destination)
  <2>3. y \in Instruction
    BY <2>1, <2>2, BranchType
  <2>4. r = <<<<f.rtld, y>>>> /\ RtldWord = <<f.rtld, y>>
    BY DEF RtldWord, INJECT_HOOK_RELATIVE
  <2> HIDE DEF y
  <2>5. Lists(<<<<f.rtld, y>>>>, {<<f.rtld, y>>})
    BY <2>1, <2>3, ListsOne
  <2> QED BY <2>4, <2>5
<1>8. /\ Lists(HookPiece(h1), HookSet(h1)) /\ Lists(HookPiece(h2), HookSet(h2))
      /\ Lists(HookPiece(h3), HookSet(h3)) /\ Lists(HookPiece(h4), HookSet(h4))
      /\ Lists(HookPiece(h5), HookSet(h5))
  <2> HIDE DEF h1, h2, h3, h4, h5
  <2> QED BY <1>1, HookListed
<1> HIDE DEF h1, h2, h3, h4, h5, r
<1>9. Lists(r \o HookPiece(h1), W1)
  BY <1>4, <1>5, <1>6, <1>7, <1>8, ListsJoined
<1>10. Lists(r \o HookPiece(h1) \o HookPiece(h2), W2)
  <2>1. \A x \in W1 : \A y \in HookSet(h2) : x[1] # y[1]
    BY <1>4, <1>5, <1>6
  <2> QED BY <1>8, <1>9, <2>1, ListsJoined
<1>11. Lists(r \o HookPiece(h1) \o HookPiece(h2) \o HookPiece(h3), W3)
  <2>1. \A x \in W2 : \A y \in HookSet(h3) : x[1] # y[1]
    BY <1>4, <1>5, <1>6
  <2> QED BY <1>8, <1>10, <2>1, ListsJoined
<1>12. Lists(r \o HookPiece(h1) \o HookPiece(h2) \o HookPiece(h3) \o HookPiece(h4), W4)
  <2>1. \A x \in W3 : \A y \in HookSet(h4) : x[1] # y[1]
    BY <1>4, <1>5, <1>6
  <2> QED BY <1>8, <1>11, <2>1, ListsJoined
<1>13. Lists(Hooks(f), W5)
  <2>1. \A x \in W4 : \A y \in HookSet(h5) : x[1] # y[1]
    BY <1>4, <1>5, <1>6
  <2> QED BY <1>3, <1>8, <1>12, <2>1, ListsJoined
<1>14. W5 = {RtldWord} \cup HookWords
  BY <1>1 DEF HookWords, HookSet
<1> QED BY <1>13, <1>14

LEMMA NopListed ==
  ASSUME TableOK(fs_offsets, Version)
  PROVE  Lists(INJECT_NOP(fs_offsets), NopWords)
<1>1. /\ fs_offsets.sd_das_init \in Int
      /\ fs_offsets.sd_das_init # 0 <=> AtLeast("FS_VER_7_0_0")
  BY DEF TableOK, Single, AtLeast, Version
<1>2. GENERATE_NOP \in Instruction
  BY DEF Instruction
<1>3. CASE fs_offsets.sd_das_init = 0
  BY <1>1, <1>3, ListsNone DEF INJECT_NOP, NopWords
<1>4. CASE fs_offsets.sd_das_init # 0
  BY <1>1, <1>2, <1>4, ListsOne DEF INJECT_NOP, NopWords
<1> QED BY <1>3, <1>4

\* The pair of a word, and which of its two words it is.
LEMMA HalfOf ==
  ASSUME NEW n \in Nat, NEW k \in 1..(2 * n)
  PROVE  /\ (k + 1) \div 2 \in 1..n
         /\ k % 2 = 1 => k = 2 * ((k + 1) \div 2) - 1
         /\ k % 2 = 0 => k = 2 * ((k + 1) \div 2)
         /\ k % 2 \in {0, 1}
BY SMTT(30)

LEMMA PairTypes ==
  ASSUME TableOK(fs_offsets, Version), text_base \in Nat, NEW i \in 1..(Len(Paths) - 1),
         NEW s \in Strings
  PROVE  /\ write_adrp_add(Paths[i], s)
              = <<<<Paths[i].adrp_offset,
                    GENERATE_ADRP(Paths[i].opcode_reg,
                                  PageOffset(PageOf(INJECT_OFFSET(Paths[i].adrp_offset)),
                                             PageOf(Symbol[s])))>>,
                  <<Paths[i].adrp_offset + Paths[i].add_rel_offset,
                    GENERATE_ADD(Paths[i].opcode_reg, Paths[i].opcode_reg,
                                 Symbol[s] % PageSize)>>>>
         /\ write_adrp_add(Paths[i], s) \in Writes
         /\ PageOf(INJECT_OFFSET(Paths[i].adrp_offset)) \in Nat /\ PageOf(Symbol[s]) \in Nat
<1> DEFINE p == Paths[i]
           pc == PageOf(INJECT_OFFSET(p.adrp_offset))
           to == PageOf(Symbol[s])
           x == GENERATE_ADRP(p.opcode_reg, PageOffset(pc, to))
           y == GENERATE_ADD(p.opcode_reg, p.opcode_reg, Symbol[s] % PageSize)
<1>1. p.opcode_reg \in Nat /\ p.adrp_offset \in Nat /\ p.add_rel_offset \in Nat
  <2>1. i \in DOMAIN Paths
    BY DEF TableOK, Paths
  <2> QED BY <2>1 DEF TableOK, Paths
<1>2. Symbol[s] \in Nat /\ InjectedSize \in Nat
  BY SymbolAssumption, SizeAssumption
<1>3. INJECT_OFFSET(p.adrp_offset) \in Nat
  BY <1>1, <1>2 DEF INJECT_OFFSET
<1>4. \A a \in Nat : a \div PageSize \in Nat
  BY SMTT(30) DEF PageSize
<1>5. pc \in Nat /\ to \in Nat
  <2> DEFINE a == INJECT_OFFSET(p.adrp_offset)
             b == Symbol[s]
  <2>1. pc = text_base + a \div PageSize /\ to = text_base + b \div PageSize
    BY DEF PageOf
  <2> HIDE DEF pc, to, a, b
  <2>2. a \div PageSize \in Nat /\ b \div PageSize \in Nat
    BY <1>2, <1>3, <1>4 DEF a, b
  <2> QED BY <2>1, <2>2
<1>6. write_adrp_add(p, s)
        = <<<<p.adrp_offset, x>>, <<p.adrp_offset + p.add_rel_offset, y>>>>
  BY DEF write_adrp_add
<1>7. PageOffset(pc, to) % Imm21 \in Int
  <2> HIDE DEF pc, to
  <2>1. pc % Window \in Int /\ to % Window \in Int
    BY <1>5, SMTT(30) DEF Window
  <2>2. PageOffset(pc, to) \in Int
    BY <2>1 DEF PageOffset
  <2> QED BY <2>2, SMTT(30) DEF Imm21
<1>8. Symbol[s] % PageSize \in Int
  BY <1>2, SMTT(30) DEF PageSize
<1>9. x = [op |-> "adrp", reg |-> p.opcode_reg, imm |-> PageOffset(pc, to) % Imm21]
  BY DEF GENERATE_ADRP
<1>10. y = [op |-> "add", reg |-> p.opcode_reg, target |-> p.opcode_reg,
            imm |-> Symbol[s] % PageSize]
  BY DEF GENERATE_ADD
<1>11. x \in Instruction
  <2> DEFINE m == PageOffset(pc, to) % Imm21
  <2> HIDE DEF m, x
  <2> QED BY <1>1, <1>7, <1>9 DEF Instruction, m
<1>12. y \in Instruction
  <2> DEFINE m == Symbol[s] % PageSize
  <2> HIDE DEF m, y
  <2> QED BY <1>1, <1>8, <1>10 DEF Instruction, m
<1> HIDE DEF x, y, pc, to
<1>13. <<<<p.adrp_offset, x>>, <<p.adrp_offset + p.add_rel_offset, y>>>> \in Writes
  BY <1>1, <1>11, <1>12 DEF Writes
<1> QED BY <1>5, <1>6, <1>13 DEF pc, to, x, y

LEMMA MemberOfSeq ==
  ASSUME NEW S, NEW s \in Seq(S), NEW j \in DOMAIN s
  PROVE  s[j] \in S
OBVIOUS

LEMMA PairWordIs ==
  ASSUME TableOK(fs_offsets, Version), text_base \in Nat,
         NEW k \in 1..(2 * (Len(Paths) - 1))
  PROVE  /\ PairWord(k) \in Int \X Instruction
         /\ PairWord(k)[1] = PathSite(Paths, k)
<1> DEFINE i == (k + 1) \div 2
           w == write_adrp_add(Paths[i], StringFor(i))
<1>1. Len(Paths) - 1 \in Nat
  BY DEF TableOK, Paths
<1>2. i \in 1..(Len(Paths) - 1) /\ k % 2 \in {0, 1}
  BY <1>1, HalfOf
<1>3. StringFor(i) \in Strings
  BY DEF StringFor, Strings
<1> HIDE DEF i
<1>4. /\ w \in Writes /\ DOMAIN w = 1..2 /\ w[1][1] = Paths[i].adrp_offset
      /\ w[2][1] = Paths[i].adrp_offset + Paths[i].add_rel_offset
  BY <1>2, <1>3, PairTypes
<1>5. 2 - (k % 2) \in 1..2
  BY <1>2
<1>6. PairWord(k) = w[2 - (k % 2)]
  BY DEF PairWord, i
<1> HIDE DEF w
<1>7. w[1] \in Int \X Instruction /\ w[2] \in Int \X Instruction
  <2>1. 1 \in 1..2 /\ 2 \in 1..2
    OBVIOUS
  <2>2. \A j \in DOMAIN w : w[j] \in Int \X Instruction
    <3>1. w \in Seq(Int \X Instruction)
      BY <1>4 DEF Writes
    <3> QED BY <3>1, MemberOfSeq
  <2> QED BY <1>4, <2>1, <2>2
<1>8. CASE k % 2 = 1
  BY <1>4, <1>6, <1>7, <1>8 DEF PathSite, i
<1>9. CASE k % 2 = 0
  BY <1>4, <1>6, <1>7, <1>9 DEF PathSite, i
<1> QED BY <1>2, <1>8, <1>9

\* A list of the words of pairs, from word a on.
LEMMA PairsInOrder ==
  ASSUME TableOK(fs_offsets, Version), text_base \in Nat, NEW a \in Nat, NEW n \in Nat,
         a + n <= 2 * (Len(Paths) - 1)
  PROVE  Lists([k \in 1..n |-> PairWord(a + k)], {PairWord(a + k) : k \in 1..n})
<1> DEFINE s == [k \in 1..n |-> PairWord(a + k)]
<1>1. Len(Paths) - 1 \in Nat
  BY DEF TableOK, Paths
<1>2. ASSUME NEW k \in 1..n
      PROVE  /\ PairWord(a + k) \in Int \X Instruction
             /\ PairWord(a + k)[1] = PathSite(Paths, a + k)
  <2>1. a + k \in 1..(2 * (Len(Paths) - 1))
    BY <1>1, <1>2
  <2> QED BY <2>1, PairWordIs
<1>3. s \in Writes /\ DOMAIN s = 1..n /\ \A k \in 1..n : s[k] = PairWord(a + k)
  BY <1>2 DEF Writes
<1>4. ASSUME NEW k \in 1..n, NEW l \in 1..n, s[k][1] = s[l][1]
      PROVE  k = l
  <2>1. a + k \in 1..(2 * (Len(Paths) - 1)) /\ a + l \in 1..(2 * (Len(Paths) - 1))
    BY <1>1
  <2>2. PathSite(Paths, a + k) = PathSite(Paths, a + l)
    BY <1>2, <1>3, <1>4
  <2>3. a + k = a + l
    BY <2>1, <2>2 DEF TableOK, Paths
  <2> QED BY <2>3
<1> HIDE DEF s
<1>5. {s[k] : k \in DOMAIN s} = {PairWord(a + k) : k \in 1..n}
  BY <1>3
<1> QED BY <1>3, <1>4, <1>5 DEF Lists, s

\* From 2.0.0 on the loop goes over every pair.
LEMMA LoopListed ==
  ASSUME TableOK(fs_offsets, Version), text_base \in Nat, AtLeast("FS_VER_2_0_0")
  PROVE  Lists(RedirectAll(Paths), PairWords)
<1> DEFINE n == Len(Paths) - 1
<1>1. /\ n \in Nat /\ DOMAIN Paths = 1..(n + 1) /\ n + 1 = Len(Paths)
      /\ \A i \in 1..(n + 1) : Paths[i].adrp_offset = 0 <=> i = n + 1
  BY DEF TableOK, Paths
<1>2. PathIndices(Paths) = 1..n
  <2> HIDE DEF n
  <2>1. ASSUME NEW i \in PathIndices(Paths) PROVE i \in 1..n
    <3>1. i \in 1..(n + 1) /\ i \in 1..i
      BY <1>1, <2>1 DEF PathIndices
    <3>2. Paths[i].adrp_offset # 0
      BY <2>1, <3>1 DEF PathIndices
    <3> QED BY <1>1, <3>1, <3>2
  <2>2. ASSUME NEW i \in 1..n PROVE i \in PathIndices(Paths)
    <3>1. i \in DOMAIN Paths /\ \A j \in 1..i : j \in 1..(n + 1) /\ j # n + 1
      BY <1>1
    <3> QED BY <1>1, <3>1 DEF PathIndices
  <2> QED BY <2>1, <2>2
<1>3. Cardinality(PathIndices(Paths)) = n
  <2> HIDE DEF n
  <2>1. Cardinality(1..n) = IF 1 > n THEN 0 ELSE n - 1 + 1
    BY <1>1, FS_Interval
  <2> QED BY <1>1, <1>2, <2>1
<1>4. \A i : StringFor(i) = "nintendo_path"
  BY DEF StringFor
<1> DEFINE s == [k \in 1..(2 * n) |-> PairWord(0 + k)]
<1>5. RedirectAll(Paths) = s
  <2>1. ASSUME NEW k \in 1..(2 * n)
        PROVE  PairWord(0 + k)
                 = write_adrp_add(Paths[(k + 1) \div 2], "nintendo_path")[2 - (k % 2)]
    <3>1. 0 + k = k
      OBVIOUS
    <3> QED BY <1>4, <3>1 DEF PairWord
  <2> HIDE DEF n
  <2> QED BY <1>3, <2>1 DEF RedirectAll
<1>6. Lists(s, {PairWord(0 + k) : k \in 1..(2 * n)})
  <2>1. 0 + 2 * n <= 2 * n /\ 2 * n \in Nat
    <3> HIDE DEF n
    <3> QED BY <1>1
  <2> QED BY <2>1, PairsInOrder
<1>7. {PairWord(0 + k) : k \in 1..(2 * n)} = PairWords
  <2>1. \A k \in 1..(2 * n) : 0 + k = k
    OBVIOUS
  <2> QED BY <2>1 DEF PairWords
<1> QED BY <1>5, <1>6, <1>7

\* 1.0.0 has a pair for its album and one for its contents.
LEMMA TwoListed ==
  ASSUME TableOK(fs_offsets, Version), text_base \in Nat, ~AtLeast("FS_VER_2_0_0")
  PROVE  /\ Lists(write_adrp_add(Paths[1], "nintendo_path_album_100"),
                  {PairWord(1), PairWord(2)})
         /\ Lists(write_adrp_add(Paths[2], "nintendo_path_contents_100"),
                  {PairWord(3), PairWord(4)})
         /\ PairWords = {PairWord(1), PairWord(2), PairWord(3), PairWord(4)}
<1> DEFINE u == write_adrp_add(Paths[1], "nintendo_path_album_100")
           v == write_adrp_add(Paths[2], "nintendo_path_contents_100")
<1>1. Len(Paths) = 3
  BY DEF TableOK, Paths, AtLeast, Version
<1>2. /\ StringFor(1) = "nintendo_path_album_100"
      /\ StringFor(2) = "nintendo_path_contents_100"
  BY DEF StringFor
<1>3. /\ u \in Writes /\ u = <<u[1], u[2]>> /\ v \in Writes /\ v = <<v[1], v[2]>>
  <2>1. 1 \in 1..(Len(Paths) - 1) /\ 2 \in 1..(Len(Paths) - 1)
    BY <1>1
  <2>2. /\ "nintendo_path_album_100" \in Strings /\ "nintendo_path_contents_100" \in Strings
    BY DEF Strings
  <2>3. u \in Writes /\ v \in Writes
    BY <2>1, <2>2, PairTypes
  <2> QED BY <2>3 DEF write_adrp_add
<1> HIDE DEF u, v
<1>4. u[1] = PairWord(1) /\ u[2] = PairWord(2) /\ v[1] = PairWord(3) /\ v[2] = PairWord(4)
  <2>1. /\ (1 + 1) \div 2 = 1 /\ (2 + 1) \div 2 = 1 /\ (3 + 1) \div 2 = 2
        /\ (4 + 1) \div 2 = 2
        /\ 2 - (1 % 2) = 1 /\ 2 - (2 % 2) = 2 /\ 2 - (3 % 2) = 1 /\ 2 - (4 % 2) = 2
    BY SMT
  <2> QED BY <1>2, <2>1 DEF PairWord, u, v
<1>5. Lists([k \in 1..2 |-> PairWord(0 + k)], {PairWord(0 + k) : k \in 1..2})
  <2>1. 0 + 2 <= 2 * (Len(Paths) - 1)
    BY <1>1
  <2> QED BY <2>1, PairsInOrder
<1>6. Lists([k \in 1..2 |-> PairWord(2 + k)], {PairWord(2 + k) : k \in 1..2})
  <2>1. 2 + 2 <= 2 * (Len(Paths) - 1)
    BY <1>1
  <2> QED BY <2>1, PairsInOrder
<1>7. /\ [k \in 1..2 |-> PairWord(0 + k)] = u
      /\ [k \in 1..2 |-> PairWord(2 + k)] = v
  <2>1. 0 + 1 = 1 /\ 0 + 2 = 2 /\ 2 + 1 = 3 /\ 2 + 2 = 4
    OBVIOUS
  <2>2. /\ [k \in 1..2 |-> PairWord(0 + k)] = <<PairWord(1), PairWord(2)>>
        /\ [k \in 1..2 |-> PairWord(2 + k)] = <<PairWord(3), PairWord(4)>>
    BY <2>1
  <2> QED BY <1>3, <1>4, <2>2
<1>8. /\ {PairWord(0 + k) : k \in 1..2} = {PairWord(1), PairWord(2)}
      /\ {PairWord(2 + k) : k \in 1..2} = {PairWord(3), PairWord(4)}
  <2>1. 1..2 = {1, 2} /\ 0 + 1 = 1 /\ 0 + 2 = 2 /\ 2 + 1 = 3 /\ 2 + 2 = 4
    OBVIOUS
  <2> QED BY <2>1
<1>9. PairWords = {PairWord(1), PairWord(2), PairWord(3), PairWord(4)}
  <2>1. 1..(2 * (Len(Paths) - 1)) = {1, 2, 3, 4}
    BY <1>1
  <2> QED BY <2>1 DEF PairWords
<1> QED BY <1>5, <1>6, <1>7, <1>8, <1>9 DEF u, v

LEMMA AllListed ==
  ASSUME TableOK(fs_offsets, Version), text_base \in Nat, written = AllWrites
  PROVE  Lists(written, {RtldWord} \cup HookWords \cup NopWords \cup PairWords)
<1> DEFINE H == {RtldWord} \cup HookWords
           N == H \cup NopWords
           w == <<>> \o Hooks(fs_offsets) \o INJECT_NOP(fs_offsets)
<1>1. \A x \in H : \E f \in Single \ {"sd_das_init"} : x[1] = fs_offsets[f] /\ x[1] # 0
  <2>1. \A h \in HookSites :
          \E f \in Single \ {"sd_das_init"} : h[1] = fs_offsets[f]
    BY DEF HookSites, Single
  <2>2. \A x \in HookWords : \E h \in HookSites : x[1] = h[1] /\ h[1] # 0
    BY DEF HookWords, HookWord
  <2>3. "rtld" \in Single \ {"sd_das_init"} /\ RtldWord[1] = fs_offsets["rtld"]
    BY DEF Single, RtldWord
  <2>4. fs_offsets["rtld"] # 0
    BY DEF TableOK
  <2> QED BY <2>1, <2>2, <2>3, <2>4
<1>2. \A x \in NopWords : x[1] = fs_offsets["sd_das_init"] /\ x[1] # 0
  BY DEF NopWords
<1>3. \A x \in PairWords : \A f \in Single : x[1] # fs_offsets[f]
  <2>1. ASSUME NEW k \in 1..(2 * (Len(Paths) - 1)), NEW f \in Single
        PROVE  PairWord(k)[1] # fs_offsets[f]
    <3>1. PairWord(k)[1] = PathSite(Paths, k)
      BY PairWordIs
    <3> QED BY <3>1 DEF TableOK, Paths
  <2> QED BY <2>1 DEF PairWords
<1>4. Lists(<<>> \o Hooks(fs_offsets), H)
  <2>1. {} \cup H = H
    OBVIOUS
  <2> HIDE DEF H
  <2>2. Lists(Hooks(fs_offsets), H)
    BY HooksListed DEF H
  <2>3. Lists(<<>> \o Hooks(fs_offsets), {} \cup H)
    BY <2>2, ListsNone, ListsJoined
  <2> QED BY <2>1, <2>3
<1>5. Lists(w, N)
  <2>1. \A x \in H : \A y \in NopWords : x[1] # y[1]
    <3>1. "sd_das_init" \in Single
      BY DEF Single
    <3> QED BY <1>1, <1>2, <3>1 DEF TableOK
  <2> HIDE DEF H
  <2> QED BY <1>4, <2>1, NopListed, ListsJoined DEF N, w
<1>6. \A x \in N : \A y \in PairWords : x[1] # y[1]
  <2>1. "sd_das_init" \in Single
    BY DEF Single
  <2> HIDE DEF H
  <2> QED BY <1>1, <1>2, <1>3, <2>1 DEF N
<1> HIDE DEF N, w
<1>7. CASE AtLeast("FS_VER_2_0_0")
  <2>1. written = w \o RedirectAll(Paths)
    BY <1>7 DEF AllWrites, w
  <2>2. Lists(w \o RedirectAll(Paths), N \cup PairWords)
    BY <1>5, <1>6, <1>7, LoopListed, ListsJoined
  <2> QED BY <2>1, <2>2 DEF N
<1>8. CASE ~AtLeast("FS_VER_2_0_0")
  <2> DEFINE u == write_adrp_add(Paths[1], "nintendo_path_album_100")
             v == write_adrp_add(Paths[2], "nintendo_path_contents_100")
             U == {PairWord(1), PairWord(2)}
             V == {PairWord(3), PairWord(4)}
  <2>1. written = w \o u \o v
    BY <1>8 DEF AllWrites, w
  <2>2. Lists(u, U) /\ Lists(v, V) /\ PairWords = U \cup V
    BY <1>8, TwoListed
  <2>3. \A x \in U : \A y \in V : x[1] # y[1]
    <3>1. Len(Paths) = 3
      BY <1>8 DEF TableOK, Paths, AtLeast, Version
    <3>2. \A k \in 1..4 : PairWord(k)[1] = PathSite(Paths, k)
      <4>1. 2 * (Len(Paths) - 1) = 4
        BY <3>1
      <4> QED BY <4>1, PairWordIs
    <3>3. \A k, l \in 1..4 : PathSite(Paths, k) = PathSite(Paths, l) => k = l
      <4>1. 2 * (Len(Paths) - 1) = 4
        BY <3>1
      <4> QED BY <4>1 DEF TableOK, Paths
    <3>4. \A k, l \in 1..4 : PairWord(k)[1] = PairWord(l)[1] => k = l
      BY <3>2, <3>3
    <3> HIDE DEF U, V
    <3>5. \A x \in U : \E k \in {1, 2} : x = PairWord(k)
      BY DEF U
    <3>6. \A y \in V : \E l \in {3, 4} : y = PairWord(l)
      BY DEF V
    <3> QED BY <3>4, <3>5, <3>6
  <2> HIDE DEF u, v, U, V
  <2>4. Lists(w \o u, N \cup U)
    BY <1>5, <1>6, <2>2, ListsJoined
  <2>5. Lists(w \o u \o v, (N \cup U) \cup V)
    BY <1>6, <2>2, <2>3, <2>4, ListsJoined
  <2> QED BY <2>1, <2>2, <2>5 DEF N
<1> QED BY <1>7, <1>8

-----------------------------------------------------------------------------
(* When FS runs                                                            *)

LEMMA RunningListed ==
  ASSUME PatchInv, Running
  PROVE  /\ TableOK(fs_offsets, Version) /\ text_base \in Nat
         /\ Lists(written, {RtldWord} \cup HookWords \cup NopWords \cup PairWords)
<1>1. boot \in AfterPaths
  BY DEF Running, AfterPaths
<1> QED BY <1>1, TableHolds, AllListed

LEMMA Halves ==
  ASSUME NEW i \in Int
  PROVE  /\ (2 * i) \div 2 = i /\ (2 * i + 1) \div 2 = i
         /\ (2 * i - 1) % 2 = 1 /\ (2 * i) % 2 = 0
<1>1. (2 * i) \div 2 = i /\ (2 * i) % 2 = 0
  OBVIOUS
<1>2. (2 * i + 1) \div 2 = i
  OBVIOUS
<1>3. (2 * i - 1) % 2 = 1
  OBVIOUS
<1> QED BY <1>1, <1>2, <1>3

LEMMA PairsAre ==
  ASSUME TableOK(fs_offsets, Version)
  PROVE  /\ Pairs = 1..(Len(Paths) - 1) /\ Len(Paths) - 1 \in Nat
         /\ \A i \in Pairs : /\ 2 * i - 1 \in 1..(2 * (Len(Paths) - 1))
                            /\ 2 * i \in 1..(2 * (Len(Paths) - 1))
                            /\ (2 * i) \div 2 = i /\ (2 * i + 1) \div 2 = i
                            /\ (2 * i - 1) % 2 = 1 /\ (2 * i) % 2 = 0
                            /\ Paths[i].adrp_offset # 0
                            /\ Paths[i].adrp_offset \in Nat
                            /\ Paths[i].add_rel_offset \in Nat
<1> DEFINE n == Len(Paths) - 1
<1>1. /\ n \in Nat /\ n = Len(Paths) - 1 /\ DOMAIN Paths = 1..(n + 1)
      /\ \A i \in 1..(n + 1) :
           /\ (Paths[i] = End <=> i = n + 1)
           /\ (Paths[i].adrp_offset = 0 <=> i = n + 1)
           /\ Paths[i].adrp_offset \in Nat /\ Paths[i].add_rel_offset \in Nat
  BY DEF TableOK, Paths
<1> HIDE DEF n
<1>2. Pairs = 1..n
  BY <1>1 DEF Pairs
<1>3. ASSUME NEW i \in Pairs
      PROVE  /\ 2 * i - 1 \in 1..(2 * n) /\ 2 * i \in 1..(2 * n)
             /\ (2 * i) \div 2 = i /\ (2 * i + 1) \div 2 = i
             /\ (2 * i - 1) % 2 = 1 /\ (2 * i) % 2 = 0
  <2>1. i \in Int /\ 1 <= i /\ i <= n /\ n \in Int
    BY <1>1, <1>2
  <2>2. 2 * i - 1 \in 1..(2 * n) /\ 2 * i \in 1..(2 * n)
    BY ONLY <2>1
  <2> QED BY <2>1, <2>2, Halves
<1>4. ASSUME NEW i \in Pairs
      PROVE  /\ Paths[i].adrp_offset # 0 /\ Paths[i].adrp_offset \in Nat
             /\ Paths[i].add_rel_offset \in Nat
  BY <1>1, <1>2
<1>5. \A i \in Pairs : /\ 2 * i - 1 \in 1..(2 * n)
                       /\ 2 * i \in 1..(2 * n)
                       /\ (2 * i) \div 2 = i /\ (2 * i + 1) \div 2 = i
                       /\ (2 * i - 1) % 2 = 1 /\ (2 * i) % 2 = 0
                       /\ Paths[i].adrp_offset # 0
                       /\ Paths[i].adrp_offset \in Nat
                       /\ Paths[i].add_rel_offset \in Nat
  BY <1>3, <1>4, Zenon
<1>6. n \in Nat
  BY <1>1
<1> USE DEF n
<1> QED BY <1>2, <1>5, <1>6, Zenon

\* The two words of a pair, among those listed.
LEMMA PairParts ==
  ASSUME TableOK(fs_offsets, Version), text_base \in Nat, NEW i \in Pairs
  PROVE  LET p  == Paths[i]
             s  == StringFor(i)
             pc == PageOf(INJECT_OFFSET(p.adrp_offset))
         IN /\ <<p.adrp_offset,
                 GENERATE_ADRP(p.opcode_reg, PageOffset(pc, PageOf(Symbol[s])))>>
                  = PairWord(2 * i - 1)
            /\ <<p.adrp_offset + p.add_rel_offset,
                 GENERATE_ADD(p.opcode_reg, p.opcode_reg, Symbol[s] % PageSize)>>
                  = PairWord(2 * i)
            /\ pc \in Nat /\ PageOf(Symbol[s]) \in Nat
            /\ PairWord(2 * i - 1) \in PairWords /\ PairWord(2 * i) \in PairWords
<1>1. /\ i \in 1..(Len(Paths) - 1)
      /\ 2 * i - 1 \in 1..(2 * (Len(Paths) - 1))
      /\ 2 * i \in 1..(2 * (Len(Paths) - 1))
      /\ (2 * i) \div 2 = i /\ (2 * i + 1) \div 2 = i
      /\ (2 * i - 1) % 2 = 1 /\ (2 * i) % 2 = 0
  BY PairsAre
<1>2. StringFor(i) \in Strings
  BY DEF StringFor, Strings
<1>3. PairWord(2 * i - 1) = write_adrp_add(Paths[i], StringFor(i))[1]
  <2>1. (2 * i - 1) + 1 = 2 * i /\ 2 - ((2 * i - 1) % 2) = 1
    BY <1>1
  <2> QED BY <1>1, <2>1 DEF PairWord
<1>4. PairWord(2 * i) = write_adrp_add(Paths[i], StringFor(i))[2]
  <2>1. 2 - ((2 * i) % 2) = 2
    BY <1>1
  <2> QED BY <1>1, <2>1 DEF PairWord
<1>5. PairWord(2 * i - 1) \in PairWords /\ PairWord(2 * i) \in PairWords
  BY <1>1 DEF PairWords
<1> QED BY <1>1, <1>2, <1>3, <1>4, <1>5, PairTypes

(* Whichever of the builds it is, the words changed when FS begins to run are
   those that its table lists, each of them once (main.c, 280 to 329 and 374 to
   404).                                                                   *)
THEOREM SpecPatchedAsListed == Spec => []PatchedAsListed
<1>1. ASSUME PatchInv PROVE PatchedAsListed
  <2> SUFFICES ASSUME Running PROVE PatchedAsListed
    BY DEF PatchedAsListed
  <2> DEFINE W == {RtldWord} \cup HookWords \cup NopWords \cup PairWords
             A == {Paths[i].adrp_offset : i \in Pairs}
             B == {Paths[i].adrp_offset + Paths[i].add_rel_offset : i \in Pairs}
             S == ({fs_offsets.rtld, fs_offsets.sd_das_init} \cup {h[1] : h \in HookSites}
                     \cup A \cup B) \ {0}
  <2>1. /\ TableOK(fs_offsets, Version) /\ text_base \in Nat /\ Lists(written, W)
    BY <1>1, RunningListed
  <2>2. ASSUME NEW w \in W PROVE w[1] \in S
    <3>1. CASE w = RtldWord
      BY <2>1, <3>1 DEF RtldWord, TableOK
    <3>2. CASE w \in HookWords
      BY <3>2 DEF HookWords, HookWord
    <3>3. CASE w \in NopWords
      BY <3>3 DEF NopWords
    <3>4. CASE w \in PairWords
      <4>1. PICK k \in 1..(2 * (Len(Paths) - 1)) : w = PairWord(k)
        BY <3>4 DEF PairWords
      <4>2. Len(Paths) - 1 \in Nat /\ Pairs = 1..(Len(Paths) - 1)
        BY <2>1, PairsAre
      <4>3. (k + 1) \div 2 \in Pairs /\ k % 2 \in {0, 1}
        BY <4>2, HalfOf
      <4> DEFINE i == (k + 1) \div 2
      <4>4. w[1] = IF k % 2 = 1 THEN Paths[i].adrp_offset
                   ELSE Paths[i].adrp_offset + Paths[i].add_rel_offset
        BY <2>1, <4>1, PairWordIs DEF PathSite
      <4> HIDE DEF i
      <4>5. /\ i \in Pairs /\ Paths[i].adrp_offset # 0 /\ Paths[i].adrp_offset \in Nat
            /\ Paths[i].add_rel_offset \in Nat
        BY <2>1, <4>3, PairsAre DEF i
      <4>6. Paths[i].adrp_offset + Paths[i].add_rel_offset # 0
        BY <4>5
      <4>7. w[1] # 0
        BY <4>4, <4>5, <4>6
      <4>8. w[1] \in A \cup B
        BY <4>4, <4>5
      <4> QED BY <4>7, <4>8
    <3> QED BY <3>1, <3>2, <3>3, <3>4
  <2>3. ASSUME NEW o \in S PROVE \E w \in W : w[1] = o
    <3>1. CASE o = fs_offsets.rtld
      <4>1. RtldWord \in W /\ RtldWord[1] = o
        BY <3>1 DEF RtldWord
      <4> HIDE DEF W
      <4> QED BY <4>1
    <3>2. CASE o = fs_offsets.sd_das_init
      <4>1. o # 0
        OBVIOUS
      <4> DEFINE w == <<o, GENERATE_NOP>>
      <4>2. w \in W /\ w[1] = o
        BY <3>2, <4>1 DEF NopWords
      <4> HIDE DEF W, w
      <4> QED BY <4>2
    <3>3. CASE o \in {h[1] : h \in HookSites}
      <4>1. PICK h \in HookSites : o = h[1] /\ h[1] # 0
        BY <3>3
      <4>2. HookWord(h) \in HookWords /\ HookWord(h)[1] = o
        BY <4>1 DEF HookWords, HookWord
      <4> QED BY <4>2
    <3>4. CASE o \in A
      <4>1. PICK i \in Pairs : o = Paths[i].adrp_offset
        BY <3>4
      <4>2. PairWord(2 * i - 1)[1] = o /\ PairWord(2 * i - 1) \in PairWords
        BY <2>1, <4>1, PairParts
      <4> QED BY <4>2
    <3>5. CASE o \in B
      <4>1. PICK i \in Pairs : o = Paths[i].adrp_offset + Paths[i].add_rel_offset
        BY <3>5
      <4>2. PairWord(2 * i)[1] = o /\ PairWord(2 * i) \in PairWords
        BY <2>1, <4>1, PairParts
      <4> QED BY <4>2
    <3> QED BY <3>1, <3>2, <3>3, <3>4, <3>5
  <2> HIDE DEF W, S
  <2>4. Sites = {w[1] : w \in W}
    <3>1. {written[i] : i \in DOMAIN written} = W
      BY <2>1 DEF Lists
    <3> QED BY <3>1 DEF Sites
  <2>5. Sites = S
    BY <2>2, <2>3, <2>4
  <2>6. \A i, j \in DOMAIN written : written[i][1] = written[j][1] => i = j
    BY <2>1 DEF Lists
  <2> QED BY <2>5, <2>6 DEF PatchedAsListed, S
<1> QED BY <1>1, AlwaysPatchInv, PTL

LEMMA Aligned4 == ASSUME NEW a \in Int, a % PageSize = 0 PROVE a % 4 = 0
BY SMTT(30) DEF PageSize

\* In reach, as an inequality.
LEMMA InReach ==
  /\ \A x \in 0..(Reach - 1) : x \in Int /\ 0 <= x /\ x < 67108864
  /\ \A x \in (-Reach)..Reach : x \in Int /\ -67108864 <= x /\ x <= 67108864
<1> DEFINE r == Reach
<1>1. r \in Int /\ r <= 67108864
  BY DEF Reach
<1> HIDE DEF r
<1>2. ASSUME NEW x \in 0..(r - 1) PROVE x \in Int /\ 0 <= x /\ x < 67108864
  BY <1>1
<1>3. ASSUME NEW x \in (-r)..r
      PROVE  x \in Int /\ -67108864 <= x /\ x <= 67108864
  BY <1>1
<1> QED BY <1>2, <1>3 DEF r

(* For an image of up to 64 MB, wherever it and FS are loaded, each hooked
   function of FS goes to its wrapper and rtld to its own destination (main.c,
   68 to 76 and 257).                                                      *)
THEOREM SpecHooksReach ==
  ASSUME InjectedSize <= Imm26
  PROVE  Spec => []HooksReach
<1>1. ASSUME PatchInv PROVE HooksReach
  <2> SUFFICES ASSUME Running PROVE HooksReach
    BY DEF HooksReach
  <2> DEFINE W == {RtldWord} \cup HookWords \cup NopWords \cup PairWords
  <2>1. TableOK(fs_offsets, Version) /\ Lists(written, W)
    BY <1>1, RunningListed
  <2>2. InjectedSize \in Nat /\ InjectedSize <= 67108864 /\ InjectedSize % 4 = 0
    BY SizeAssumption, Aligned4 DEF Imm26
  <2>3. ASSUME NEW f \in Single
        PROVE  fs_offsets[f] \in 0..(Reach - 1) /\ fs_offsets[f] % 4 = 0
    BY <2>1 DEF TableOK
  <2>4. ASSUME NEW h \in HookSites, h[1] # 0
        PROVE  BranchTarget(Word(h[1]), INJECT_OFFSET(h[1])) = Symbol[h[2]]
    <3> DEFINE a == INJECT_OFFSET(h[1])
               b == Symbol[h[2]]
    <3>1. h[1] \in 0..(Reach - 1) /\ h[1] % 4 = 0
      BY <2>3, <2>4 DEF HookSites, Single
    <3>2. b \in 0..(InjectedSize - 1) /\ b % 4 = 0
      BY <2>4, SymbolAssumption DEF HookSites, Wrappers
    <3>3. a = InjectedSize + h[1]
      BY DEF INJECT_OFFSET
    <3>4. Word(h[1]) = GENERATE_BRANCH(a, b)
      <4>1. <<h[1], GENERATE_BRANCH(a, b)>> \in HookWords
        BY <2>4 DEF HookWords, HookWord
      <4> QED BY <2>1, <4>1, WordOf
    <3> DEFINE o == h[1]
    <3> HIDE DEF a, b, o
    <3>5. /\ a \in Int /\ b \in Int /\ a % 4 = 0 /\ b % 4 = 0
          /\ -134217728 <= b - a /\ b - a < 134217728
      <4>1. o \in 0..(Reach - 1) /\ o % 4 = 0 /\ a = InjectedSize + o
        BY <3>1, <3>3 DEF o
      <4>2. o \in Int /\ 0 <= o /\ o < 67108864 /\ o % 4 = 0
        BY <4>1, InReach
      <4>3. a = InjectedSize + o
        BY <4>1
      <4>4. b \in Int /\ 0 <= b /\ b < InjectedSize /\ b % 4 = 0
        BY <2>2, <3>2
      <4> QED BY <2>2, <4>2, <4>3, <4>4
    <3>6. BranchTarget(GENERATE_BRANCH(a, b), a) = b
      BY <3>5, BranchReaches
    <3> QED BY <3>4, <3>6 DEF a, b
  <2>5. BranchTarget(Word(fs_offsets.rtld), INJECT_OFFSET(fs_offsets.rtld))
          = INJECT_OFFSET(fs_offsets.rtld + fs_offsets.rtld_destination)
    <3> DEFINE r == fs_offsets.rtld
               d == fs_offsets.rtld_destination
               a == INJECT_OFFSET(r)
               b == a + d
    <3>1. /\ r \in 0..(Reach - 1) /\ r % 4 = 0 /\ d % 4 = 0
          /\ d \in (-Reach)..Reach
      <4>1. "rtld" \in Single
        BY DEF Single
      <4>2. d % 4 = 0 /\ d \in (-Reach)..Reach
        BY <2>1 DEF TableOK
      <4> QED BY <2>3, <4>1, <4>2
    <3>2. a = InjectedSize + r
      BY DEF INJECT_OFFSET
    <3>3. Word(r) = GENERATE_BRANCH(a, b)
      <4>1. <<r, GENERATE_BRANCH(a, b)>> = RtldWord
        BY DEF RtldWord
      <4>2. RtldWord \in W
        OBVIOUS
      <4> HIDE DEF W
      <4> QED BY <2>1, <4>1, <4>2, WordOf
    <3>4. INJECT_OFFSET(r + d) = InjectedSize + (r + d)
      BY DEF INJECT_OFFSET
    <3> HIDE DEF r, d, a
    <3>5. /\ a \in Int /\ b \in Int /\ a % 4 = 0 /\ b % 4 = 0
          /\ -134217728 <= b - a /\ b - a < 134217728
      <4>1. /\ r \in Int /\ 0 <= r /\ r < 67108864 /\ r % 4 = 0
            /\ d \in Int /\ -67108864 <= d /\ d <= 67108864 /\ d % 4 = 0
        BY <3>1, InReach
      <4> QED BY <2>2, <3>2, <4>1
    <3>6. BranchTarget(GENERATE_BRANCH(a, b), a) = b
      BY <3>5, BranchReaches
    <3>7. INJECT_OFFSET(r + d) = b
      BY <2>2, <3>1, <3>2, <3>4
    <3> QED BY <3>3, <3>6, <3>7 DEF r, d, a
  <2> QED BY <2>4, <2>5 DEF HooksReach
<1> QED BY <1>1, AlwaysPatchInv, PTL

LEMMA Renames ==
  ASSUME PatchInv, Running, NEW i \in Pairs
  PROVE  path_text[StringFor(i)] # DefaultPaths[StringFor(i)]
<1> DEFINE name == path_text.nintendo_path
<1>1. /\ name = <<name[1]>> /\ name[1] # "Nintendo"
      /\ ~AtLeast("FS_VER_2_0_0") =>
           /\ path_text.nintendo_path_album_100 = <<"/">> \o name \o <<"/Album">>
           /\ path_text.nintendo_path_contents_100
                = <<"/">> \o name \o <<"/Contents">>
  BY DEF PatchInv, Running, AfterPaths, Renamed
<1>2. /\ DefaultPaths.nintendo_path = <<"Nintendo">>
      /\ DefaultPaths.nintendo_path_album_100 = <<"/", "Nintendo", "/Album">>
      /\ DefaultPaths.nintendo_path_contents_100 = <<"/", "Nintendo", "/Contents">>
  BY DEF DefaultPaths
<1> DEFINE x == name[1]
<1>3. name = <<x>> /\ x # "Nintendo"
  BY <1>1
<1> HIDE DEF x, name
<1>4. /\ (<<"/">> \o <<x>> \o <<"/Album">>)[2] = x
      /\ (<<"/">> \o <<x>> \o <<"/Contents">>)[2] = x
  OBVIOUS
<1>5. CASE AtLeast("FS_VER_2_0_0")
  <2>1. name # <<"Nintendo">>
    BY <1>3
  <2> QED BY <1>2, <1>5, <2>1 DEF StringFor, name
<1>6. CASE ~AtLeast("FS_VER_2_0_0")
  <2>1. /\ path_text.nintendo_path_album_100[2] = x
        /\ path_text.nintendo_path_contents_100[2] = x
    BY <1>1, <1>3, <1>4, <1>6 DEF name
  <2>2. /\ <<"/", "Nintendo", "/Album">>[2] = "Nintendo"
        /\ <<"/", "Nintendo", "/Contents">>[2] = "Nintendo"
    OBVIOUS
  <2>3. /\ path_text.nintendo_path_album_100 # DefaultPaths.nintendo_path_album_100
        /\ path_text.nintendo_path_contents_100
             # DefaultPaths.nintendo_path_contents_100
    BY <1>2, <1>3, <2>1, <2>2
  <2> QED BY <1>6, <2>3 DEF StringFor
<1> QED BY <1>5, <1>6

(* Wherever they are loaded: each pair of FS that names the Nintendo folder is
   made to name emuMMC's exactly when pair and string lie in the same 4 GB of
   the address space (main.c, 268 and 374).                                *)
THEOREM SpecPathsRedirected == Spec => []PathsRedirected
<1>1. ASSUME PatchInv PROVE PathsRedirected
  <2> SUFFICES ASSUME Running, NEW i \in Pairs
               PROVE  /\ path_text[StringFor(i)] # DefaultPaths[StringFor(i)]
                      /\ LeadsTo(Paths[i], StringFor(i))
                           <=> SameWindow(INJECT_OFFSET(Paths[i].adrp_offset),
                                          Symbol[StringFor(i)])
    BY DEF PathsRedirected
  <2> DEFINE W == {RtldWord} \cup HookWords \cup NopWords \cup PairWords
             p == Paths[i]
             s == StringFor(i)
             pc == PageOf(INJECT_OFFSET(p.adrp_offset))
             to == PageOf(Symbol[s])
             adrp == GENERATE_ADRP(p.opcode_reg, PageOffset(pc, to))
             add == GENERATE_ADD(p.opcode_reg, p.opcode_reg, Symbol[s] % PageSize)
  <2>1. /\ TableOK(fs_offsets, Version) /\ text_base \in Nat /\ Lists(written, W)
    BY <1>1, RunningListed
  <2>2. /\ <<p.adrp_offset, adrp>> \in PairWords
        /\ <<p.adrp_offset + p.add_rel_offset, add>> \in PairWords
        /\ pc \in Nat /\ to \in Nat
    BY <2>1, PairParts
  <2> HIDE DEF pc, to, adrp, add
  <2>3. Word(p.adrp_offset) = adrp /\ Word(p.adrp_offset + p.add_rel_offset) = add
    BY <2>1, <2>2, WordOf
  <2>4. /\ adrp.reg = p.opcode_reg /\ add.reg = p.opcode_reg
        /\ add.target = p.opcode_reg /\ add.imm = Symbol[s] % PageSize
    BY DEF adrp, add, GENERATE_ADRP, GENERATE_ADD
  <2>5. AdrpPage(adrp, pc) = to <=> pc \div Window = to \div Window
    BY <2>2, AdrpReaches DEF adrp
  <2>6. LeadsTo(p, s) <=> AdrpPage(adrp, pc) = to
    BY <2>3, <2>4 DEF LeadsTo, pc, to
  <2>7. SameWindow(INJECT_OFFSET(p.adrp_offset), Symbol[s])
          <=> pc \div Window = to \div Window
    BY DEF SameWindow, pc, to
  <2> QED BY <1>1, <2>5, <2>6, <2>7, Renames
<1> QED BY <1>1, AlwaysPatchInv, PTL
=============================================================================
