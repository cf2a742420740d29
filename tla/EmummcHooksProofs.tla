-------------------------- MODULE EmummcHooksProofs -------------------------
(***************************************************************************)
(* Proofs about EmummcHooks, for any number of threads, of GPP files and   *)
(* of calls.                                                               *)
(***************************************************************************)
EXTENDS EmummcHooks, TLAPS

-----------------------------------------------------------------------------
(* What the driver does with a card                                        *)

\* What every operation of the driver leaves of a card: a card, cut if it was.
Kept(c, d) ==
  d \in Device!Card /\ d.cut = c.cut /\ (Device!Plausible(c) => Device!Plausible(d))

LEMMA EndCard ==
  ASSUME NEW c \in Device!Card, NEW o \in Device!EndOutcomes(c)
  PROVE  Kept(c, o.card)
<1>1. CASE o = [ok |-> FALSE, card |-> c]
  BY <1>1 DEF Kept
<1>2. CASE c.clock /\ o = [ok |-> TRUE, card |-> Device!Off(c)]
  <2>1. o.card = Device!Off(c)
    BY <1>2
  <2>2. Kept(c, Device!Off(c))
    BY DEF Device!Card, Device!Off, Device!Plausible, Kept
  <2> QED BY <2>1, <2>2
<1> QED BY <1>1, <1>2 DEF Device!EndOutcomes

LEMMA InitCard ==
  ASSUME NEW c \in Device!Card, NEW o \in Device!InitOutcomes(c)
  PROVE  Kept(c, o.card)
<1>1. CASE o = [ok |-> FALSE, card |-> c]
  BY <1>1 DEF Kept
<1>2. CASE \E d \in Device!Up(c) : o = [ok |-> TRUE, card |-> d]
  BY <1>2 DEF Device!Up, Kept
<1>3. CASE \E d \in Device!Card : /\ d.cut = c.cut /\ Device!Plausible(d)
                                  /\ o = [ok |-> FALSE, card |-> d]
  BY <1>3 DEF Kept
<1> QED BY <1>1, <1>2, <1>3 DEF Device!InitOutcomes

LEMMA TransferCard ==
  ASSUME NEW c \in Device!Card, NEW o \in Device!TransferOutcomes(c)
  PROVE  Kept(c, o.card)
<1>1. CASE \E k \in BOOLEAN : o = [ok |-> k, card |-> c]
  BY <1>1 DEF Kept
<1>2. CASE \E d \in Device!Up(c) : o = [ok |-> TRUE, card |-> d]
  BY <1>2 DEF Device!Up, Kept
<1>3. CASE \E d \in Device!Card : /\ d.cut = c.cut /\ Device!Plausible(d)
                                  /\ o = [ok |-> FALSE, card |-> d]
  BY <1>3 DEF Kept
<1> QED BY <1>1, <1>2, <1>3 DEF Device!TransferOutcomes

LEMMA CutCard ==
  ASSUME NEW c \in Device!Card, NEW d,
         d = [c EXCEPT !.power = FALSE, !.cut = TRUE]
  PROVE  d \in Device!Card /\ d.cut /\ Device!Plausible(d)
  BY DEF Device!Card, Device!Plausible

LEMMA PowerCard ==
  ASSUME NEW c \in Device!Card, NEW d, d = [c EXCEPT !.power = TRUE]
  PROVE  Kept(c, d)
  BY DEF Device!Card, Device!Plausible, Kept

-----------------------------------------------------------------------------
(* Mutexes                                                                 *)

LEMMA MutexTypes ==
  ASSUME NEW m \in Mutexes, NEW t \in Threads
  PROVE  Free \in Mutexes /\ Locked(m, t) \in Mutexes /\ Unlocked(m) \in Mutexes
  BY DEF Mutexes, Free, Locked, Unlocked

-----------------------------------------------------------------------------
(* Types                                                                   *)

LEMMA BootInFiles == BootFiles \subseteq Files
  BY DEF Files

LEMMA InitType == Init => TypeOK
<1> SUFFICES ASSUME Init PROVE TypeOK
  OBVIOUS
<1>1. pc \in [Threads -> Pcs] /\ call \in [Threads -> Calls \cup {NoCall}]
  BY DEF Init, Pcs
<1>2. sd_mutex \in Mutexes /\ nand_mutex \in Mutexes
  BY DEF Init, Mutexes, Free
<1>3. card \in Device!Card
  BY DEF Init, Device!FreshCards
<1>4. parts \in 0..GppFiles
  BY GppAssumption DEF Init
<1> QED BY <1>1, <1>2, <1>3, <1>4 DEF Init, TypeOK, NoAccessor

LEMMA NextType ==
  TypeOK /\ [Next]_vars
    => TypeOK'
<1> SUFFICES ASSUME TypeOK, [Next]_vars PROVE TypeOK'
  OBVIOUS
<1> USE DEF TypeOK, Step, Goto, Return, Pcs, LockedPcs, HekatePcs, FsPcs,
            ClosePcs, lockVars, initVars, fileVars, modeVars
<1>1. ASSUME NEW t \in Threads, Call(t) PROVE TypeOK'
  BY <1>1, CallsAssumption DEF Call, HookStart, NoCall
<1>2. ASSUME NEW t \in Threads, LockTest(t) PROVE TypeOK'
  BY <1>2 DEF LockTest, FirstLock
<1>3. ASSUME NEW t \in Threads, LockSd(t) PROVE TypeOK'
  BY <1>3, MutexTypes DEF LockSd
<1>4. ASSUME NEW t \in Threads, LockNand(t) PROVE TypeOK'
  BY <1>4, MutexTypes DEF LockNand
<1>5. ASSUME NEW t \in Threads, Enter(t) PROVE TypeOK'
  <2>1. call[t].op \in {"read", "write"} => call[t].dev \in {"EMMC", "SD"}
    BY CallsAssumption DEF NoCall
  <2>2. pc' \in [Threads -> Pcs]
    BY <1>5 DEF Enter
  <2>3. current_accessor' \in {NoAccessor, "EMMC", "SD"} /\ did_attach' \in BOOLEAN
    BY <1>5, <2>1 DEF Enter, SetAccessor
  <2> QED BY <1>5, <2>2, <2>3 DEF Enter
<1>6. ASSUME NEW t \in Threads, Ensure(t) PROVE TypeOK'
  BY <1>6 DEF Ensure, AfterEnsure
<1>7. ASSUME NEW t \in Threads, Finalize(t) PROVE TypeOK'
  <2> PICK o \in Device!EndOutcomes(card) : Finalize(t)!2!(o)
    BY <1>7 DEF Finalize
  <2>1. card' \in Device!Card
    BY EndCard DEF Kept
  <2>2. storageSDinitialized' \in BOOLEAN /\ pc' \in [Threads -> Pcs] /\ aborted' \in BOOLEAN
    BY DEF FinalizeFailed, fatal_abort
  <2> QED BY <1>7, <2>1, <2>2 DEF Finalize
<1>8. ASSUME NEW t \in Threads, Initialize(t) PROVE TypeOK'
  <2>1. CASE storageSDinitialized
    BY <1>8, <2>1 DEF Initialize, Initialized, AfterEnsure
  <2>2. CASE ~storageSDinitialized
    <3>1. PICK o \in Device!InitOutcomes(card) : Initialize(t)!2!2!2!(o)
      BY <1>8, <2>2 DEF Initialize
    <3>2. card' \in Device!Card
      BY <3>1, InitCard DEF Kept
    <3>3. storageSDinitialized' \in BOOLEAN /\ pc' \in [Threads -> Pcs] /\ aborted' \in BOOLEAN
      BY <3>1 DEF fatal_abort
    <3> QED BY <1>8, <2>2, <3>2, <3>3 DEF Initialize
  <2> QED BY <2>1, <2>2
<1>9. ASSUME NEW t \in Threads, Mount(t) PROVE TypeOK'
  <2> PICK o \in Device!TransferOutcomes(card) : Mount(t)!2!(o)
    BY <1>9 DEF Mount
  <2>1. card' \in Device!Card
    BY TransferCard DEF Kept
  <2>2. fat_mounted' \in BOOLEAN /\ pc' \in [Threads -> Pcs] /\ aborted' \in BOOLEAN
    BY DEF fatal_abort
  <2> QED BY <1>9, <2>1, <2>2 DEF Mount
<1>10. ASSUME NEW t \in Threads, OpenFiles(t) PROVE TypeOK'
  <2> PICK o \in Device!TransferOutcomes(card) : OpenFiles(t)!2!(o)
    BY <1>10 DEF OpenFiles
  <2>1. card' \in Device!Card
    BY TransferCard DEF Kept
  <2>2. \A n \in 1..GppFiles : Gpp(n) \subseteq Files /\ PartCount(n) \in 0..GppFiles
    BY GppAssumption DEF Gpp, Files, PartCount
  <2>3. parts' \in 0..GppFiles /\ open_files' \subseteq Files /\ dirty_files' \subseteq Files
    BY <2>2, BootInFiles
  <2>4. pc' \in [Threads -> Pcs] /\ aborted' \in BOOLEAN
    BY DEF fatal_abort
  <2> QED BY <1>10, <2>1, <2>3, <2>4 DEF OpenFiles
<1>11. ASSUME NEW t \in Threads, Patrol(t) PROVE TypeOK'
  BY <1>11, TransferCard DEF Patrol, Kept, Initialized, AfterEnsure
<1>12. ASSUME NEW t \in Threads, FirstSdRead(t) PROVE TypeOK'
  BY <1>12, MutexTypes DEF FirstSdRead
<1>13. ASSUME NEW t \in Threads, Transfer(t) PROVE TypeOK'
  BY <1>13 DEF Transfer, TransferError, Driver
<1>14. ASSUME NEW t \in Threads, HekateDone(t) PROVE TypeOK'
  BY <1>14, TransferCard DEF HekateDone, Kept
<1>15. ASSUME NEW t \in Threads, FsLock(t) PROVE TypeOK'
  BY <1>15, MutexTypes DEF FsLock
<1>16. ASSUME NEW t \in Threads, FsDone(t) PROVE TypeOK'
  BY <1>16, MutexTypes, PowerCard DEF FsDone, Kept
<1>17. ASSUME NEW t \in Threads, UnlockNand(t) PROVE TypeOK'
  BY <1>17, MutexTypes DEF UnlockNand
<1>18. ASSUME NEW t \in Threads, UnlockSd(t) PROVE TypeOK'
  BY <1>18, MutexTypes DEF UnlockSd, NoCall
<1>19. ASSUME NEW t \in Threads, CloseFiles(t) PROVE TypeOK'
  BY <1>19 DEF CloseFiles
<1>20. ASSUME NEW t \in Threads, CloseSync(t) PROVE TypeOK'
  BY <1>20, TransferCard DEF CloseSync, Kept
<1>21. ASSUME NEW t \in Threads, Unmount(t) PROVE TypeOK'
  BY <1>21 DEF Unmount, Unmounted
<1>22. ASSUME NEW t \in Threads, CloseLock(t) PROVE TypeOK'
  BY <1>22, MutexTypes DEF CloseLock
<1>23. ASSUME NEW t \in Threads, CloseDone(t) PROVE TypeOK'
  <2>1. card' \in Device!Card
    BY <1>23, CutCard DEF CloseDone
  <2>2. sd_mutex' \in Mutexes /\ pc' \in [Threads -> Pcs] /\ call' \in [Threads -> Calls \cup {NoCall}]
    BY <1>23, MutexTypes DEF CloseDone
  <2> QED BY <1>23, <2>1, <2>2 DEF CloseDone
<1>24. ASSUME BootKillsPower PROVE TypeOK'
  BY <1>24, CutCard DEF BootKillsPower
<1>25. ASSUME UNCHANGED vars PROVE TypeOK'
  BY <1>25 DEF vars
<1> QED
  BY <1>1, <1>2, <1>3, <1>4, <1>5, <1>6, <1>7, <1>8, <1>9, <1>10,
         <1>11, <1>12, <1>13, <1>14, <1>15, <1>16, <1>17, <1>18, <1>19,
         <1>20, <1>21, <1>22, <1>23, <1>24, <1>25
  DEF Next, ThreadStep, Stopped

(* Every variable keeps its type, sd_mutex's nesting being a natural number
   for any number of locks and unlocks.                                    *)

(* Every variable keeps its type, sd_mutex's nesting being a natural number
   for any number of locks and unlocks.                                    *)

(* Every variable keeps its type, sd_mutex's nesting being a natural number
   for any number of locks and unlocks.                                    *)

(* Every variable keeps its type, sd_mutex's nesting being a natural number
   for any number of locks and unlocks.                                    *)
THEOREM TypeCorrect == Spec => []TypeOK
  BY InitType, NextType, PTL DEF Spec

-----------------------------------------------------------------------------
(* nand_mutex serialises the hooks                                         *)

LEMMA NandNext ==
  TypeOK /\ NandInv /\ [Next]_vars
    => NandInv'
<1> SUFFICES ASSUME TypeOK, NandInv, [Next]_vars PROVE NandInv'
  OBVIOUS
<1> USE ThreadsAssumption
    DEF TypeOK, NandInv, Step, Goto, Return, LockedPcs, HekatePcs, FsPcs, lockVars
<1>1. ASSUME NEW t \in Threads, Call(t) PROVE NandInv'
  BY <1>1 DEF Call, HookStart
<1>2. ASSUME NEW t \in Threads, LockTest(t) PROVE NandInv'
  BY <1>2 DEF LockTest, FirstLock
<1>3. ASSUME NEW t \in Threads, LockSd(t) PROVE NandInv'
  BY <1>3 DEF LockSd
<1>4. ASSUME NEW t \in Threads, LockNand(t) PROVE NandInv'
  BY <1>4 DEF LockNand, CanLock, Locked
<1>5. ASSUME NEW t \in Threads, Enter(t) PROVE NandInv'
  BY <1>5 DEF Enter
<1>6. ASSUME NEW t \in Threads, Ensure(t) PROVE NandInv'
  BY <1>6 DEF Ensure, AfterEnsure
<1>7. ASSUME NEW t \in Threads, Finalize(t) PROVE NandInv'
  BY <1>7 DEF Finalize, FinalizeFailed
<1>8. ASSUME NEW t \in Threads, Initialize(t) PROVE NandInv'
  BY <1>8 DEF Initialize, Initialized, AfterEnsure
<1>9. ASSUME NEW t \in Threads, Mount(t) PROVE NandInv'
  BY <1>9 DEF Mount
<1>10. ASSUME NEW t \in Threads, OpenFiles(t) PROVE NandInv'
  BY <1>10 DEF OpenFiles
<1>11. ASSUME NEW t \in Threads, Patrol(t) PROVE NandInv'
  BY <1>11 DEF Patrol, Initialized, AfterEnsure
<1>12. ASSUME NEW t \in Threads, FirstSdRead(t) PROVE NandInv'
  BY <1>12 DEF FirstSdRead
<1>13. ASSUME NEW t \in Threads, Transfer(t) PROVE NandInv'
  BY <1>13 DEF Transfer, TransferError, Driver
<1>14. ASSUME NEW t \in Threads, HekateDone(t) PROVE NandInv'
  BY <1>14 DEF HekateDone
<1>15. ASSUME NEW t \in Threads, FsLock(t) PROVE NandInv'
  BY <1>15 DEF FsLock
<1>16. ASSUME NEW t \in Threads, FsDone(t) PROVE NandInv'
  BY <1>16 DEF FsDone
<1>17. ASSUME NEW t \in Threads, UnlockNand(t) PROVE NandInv'
  BY <1>17 DEF UnlockNand, Unlocked, Free
<1>18. ASSUME NEW t \in Threads, UnlockSd(t) PROVE NandInv'
  BY <1>18 DEF UnlockSd
<1>19. ASSUME NEW t \in Threads, CloseFiles(t) PROVE NandInv'
  BY <1>19 DEF CloseFiles
<1>20. ASSUME NEW t \in Threads, CloseSync(t) PROVE NandInv'
  BY <1>20 DEF CloseSync
<1>21. ASSUME NEW t \in Threads, Unmount(t) PROVE NandInv'
  BY <1>21 DEF Unmount
<1>22. ASSUME NEW t \in Threads, CloseLock(t) PROVE NandInv'
  BY <1>22 DEF CloseLock
<1>23. ASSUME NEW t \in Threads, CloseDone(t) PROVE NandInv'
  BY <1>23 DEF CloseDone
<1>24. ASSUME BootKillsPower PROVE NandInv'
  BY <1>24 DEF BootKillsPower
<1>25. ASSUME UNCHANGED vars PROVE NandInv'
  BY <1>25 DEF vars
<1> QED
  BY <1>1, <1>2, <1>3, <1>4, <1>5, <1>6, <1>7, <1>8, <1>9, <1>10,
         <1>11, <1>12, <1>13, <1>14, <1>15, <1>16, <1>17, <1>18, <1>19,
         <1>20, <1>21, <1>22, <1>23, <1>24, <1>25
  DEF Next, ThreadStep, Stopped

\* _current_accessor is set first thing under nand_mutex.
LEMMA AccessorNext ==
  TypeOK /\ NandInv /\ AccessorIsCallers /\ [Next]_vars
    => AccessorIsCallers'
<1> SUFFICES ASSUME TypeOK, NandInv, AccessorIsCallers, [Next]_vars
             PROVE AccessorIsCallers'
  OBVIOUS
<1> USE DEF TypeOK, NandInv, AccessorIsCallers, Step, Goto, Return, LockedPcs, HekatePcs
<1>1. ASSUME NEW t \in Threads, Call(t) PROVE AccessorIsCallers'
  BY <1>1 DEF Call, HookStart
<1>2. ASSUME NEW t \in Threads, LockTest(t) PROVE AccessorIsCallers'
  BY <1>2 DEF LockTest, FirstLock
<1>3. ASSUME NEW t \in Threads, LockSd(t) PROVE AccessorIsCallers'
  BY <1>3 DEF LockSd
<1>4. ASSUME NEW t \in Threads, LockNand(t) PROVE AccessorIsCallers'
  BY <1>4 DEF LockNand
<1>5. ASSUME NEW t \in Threads, Enter(t) PROVE AccessorIsCallers'
  BY <1>5 DEF Enter, SetAccessor
<1>6. ASSUME NEW t \in Threads, Ensure(t) PROVE AccessorIsCallers'
  BY <1>6 DEF Ensure, AfterEnsure
<1>7. ASSUME NEW t \in Threads, Finalize(t) PROVE AccessorIsCallers'
  BY <1>7 DEF Finalize, FinalizeFailed
<1>8. ASSUME NEW t \in Threads, Initialize(t) PROVE AccessorIsCallers'
  BY <1>8 DEF Initialize, Initialized, AfterEnsure
<1>9. ASSUME NEW t \in Threads, Mount(t) PROVE AccessorIsCallers'
  BY <1>9 DEF Mount
<1>10. ASSUME NEW t \in Threads, OpenFiles(t) PROVE AccessorIsCallers'
  BY <1>10 DEF OpenFiles
<1>11. ASSUME NEW t \in Threads, Patrol(t) PROVE AccessorIsCallers'
  BY <1>11 DEF Patrol, Initialized, AfterEnsure
<1>12. ASSUME NEW t \in Threads, FirstSdRead(t) PROVE AccessorIsCallers'
  BY <1>12 DEF FirstSdRead
<1>13. ASSUME NEW t \in Threads, Transfer(t) PROVE AccessorIsCallers'
  BY <1>13 DEF Transfer, TransferError, Driver
<1>14. ASSUME NEW t \in Threads, HekateDone(t) PROVE AccessorIsCallers'
  BY <1>14 DEF HekateDone
<1>15. ASSUME NEW t \in Threads, FsLock(t) PROVE AccessorIsCallers'
  BY <1>15 DEF FsLock
<1>16. ASSUME NEW t \in Threads, FsDone(t) PROVE AccessorIsCallers'
  BY <1>16 DEF FsDone
<1>17. ASSUME NEW t \in Threads, UnlockNand(t) PROVE AccessorIsCallers'
  BY <1>17 DEF UnlockNand
<1>18. ASSUME NEW t \in Threads, UnlockSd(t) PROVE AccessorIsCallers'
  BY <1>18 DEF UnlockSd
<1>19. ASSUME NEW t \in Threads, CloseFiles(t) PROVE AccessorIsCallers'
  BY <1>19 DEF CloseFiles
<1>20. ASSUME NEW t \in Threads, CloseSync(t) PROVE AccessorIsCallers'
  BY <1>20 DEF CloseSync
<1>21. ASSUME NEW t \in Threads, Unmount(t) PROVE AccessorIsCallers'
  BY <1>21 DEF Unmount
<1>22. ASSUME NEW t \in Threads, CloseLock(t) PROVE AccessorIsCallers'
  BY <1>22 DEF CloseLock
<1>23. ASSUME NEW t \in Threads, CloseDone(t) PROVE AccessorIsCallers'
  BY <1>23 DEF CloseDone
<1>24. ASSUME BootKillsPower PROVE AccessorIsCallers'
  BY <1>24 DEF BootKillsPower
<1>25. ASSUME UNCHANGED vars PROVE AccessorIsCallers'
  BY <1>25 DEF vars
<1> QED
  BY <1>1, <1>2, <1>3, <1>4, <1>5, <1>6, <1>7, <1>8, <1>9, <1>10,
         <1>11, <1>12, <1>13, <1>14, <1>15, <1>16, <1>17, <1>18, <1>19,
         <1>20, <1>21, <1>22, <1>23, <1>24, <1>25
  DEF Next, ThreadStep, Stopped

\* The driver changes only under nand_mutex, after the transfer's own test.
LEMMA HandOverNext ==
  TypeOK /\ NandInv /\ HekateOnlyWhileCustom /\ [Next]_vars
    => HekateOnlyWhileCustom'
<1> SUFFICES ASSUME TypeOK, NandInv, HekateOnlyWhileCustom, [Next]_vars
             PROVE HekateOnlyWhileCustom'
  OBVIOUS
<1> USE DEF TypeOK, NandInv, HekateOnlyWhileCustom, Step, Goto, Return,
        LockedPcs, HekatePcs, modeVars
<1>1. ASSUME NEW t \in Threads, Call(t) PROVE HekateOnlyWhileCustom'
  BY <1>1 DEF Call, HookStart
<1>2. ASSUME NEW t \in Threads, LockTest(t) PROVE HekateOnlyWhileCustom'
  BY <1>2 DEF LockTest, FirstLock
<1>3. ASSUME NEW t \in Threads, LockSd(t) PROVE HekateOnlyWhileCustom'
  BY <1>3 DEF LockSd
<1>4. ASSUME NEW t \in Threads, LockNand(t) PROVE HekateOnlyWhileCustom'
  BY <1>4 DEF LockNand
<1>5. ASSUME NEW t \in Threads, Enter(t) PROVE HekateOnlyWhileCustom'
  BY <1>5 DEF Enter
<1>6. ASSUME NEW t \in Threads, Ensure(t) PROVE HekateOnlyWhileCustom'
  BY <1>6 DEF Ensure, AfterEnsure
<1>7. ASSUME NEW t \in Threads, Finalize(t) PROVE HekateOnlyWhileCustom'
  BY <1>7 DEF Finalize, FinalizeFailed
<1>8. ASSUME NEW t \in Threads, Initialize(t) PROVE HekateOnlyWhileCustom'
  BY <1>8 DEF Initialize, Initialized, AfterEnsure
<1>9. ASSUME NEW t \in Threads, Mount(t) PROVE HekateOnlyWhileCustom'
  BY <1>9 DEF Mount
<1>10. ASSUME NEW t \in Threads, OpenFiles(t) PROVE HekateOnlyWhileCustom'
  BY <1>10 DEF OpenFiles
<1>11. ASSUME NEW t \in Threads, Patrol(t) PROVE HekateOnlyWhileCustom'
  BY <1>11 DEF Patrol, Initialized, AfterEnsure
<1>12. ASSUME NEW t \in Threads, FirstSdRead(t) PROVE HekateOnlyWhileCustom'
  BY <1>12 DEF FirstSdRead
<1>13. ASSUME NEW t \in Threads, Transfer(t) PROVE HekateOnlyWhileCustom'
  BY <1>13 DEF Transfer, TransferError, Driver
<1>14. ASSUME NEW t \in Threads, HekateDone(t) PROVE HekateOnlyWhileCustom'
  BY <1>14 DEF HekateDone
<1>15. ASSUME NEW t \in Threads, FsLock(t) PROVE HekateOnlyWhileCustom'
  BY <1>15 DEF FsLock
<1>16. ASSUME NEW t \in Threads, FsDone(t) PROVE HekateOnlyWhileCustom'
  BY <1>16 DEF FsDone
<1>17. ASSUME NEW t \in Threads, UnlockNand(t) PROVE HekateOnlyWhileCustom'
  BY <1>17 DEF UnlockNand
<1>18. ASSUME NEW t \in Threads, UnlockSd(t) PROVE HekateOnlyWhileCustom'
  BY <1>18 DEF UnlockSd
<1>19. ASSUME NEW t \in Threads, CloseFiles(t) PROVE HekateOnlyWhileCustom'
  BY <1>19 DEF CloseFiles
<1>20. ASSUME NEW t \in Threads, CloseSync(t) PROVE HekateOnlyWhileCustom'
  BY <1>20 DEF CloseSync
<1>21. ASSUME NEW t \in Threads, Unmount(t) PROVE HekateOnlyWhileCustom'
  BY <1>21 DEF Unmount
<1>22. ASSUME NEW t \in Threads, CloseLock(t) PROVE HekateOnlyWhileCustom'
  BY <1>22 DEF CloseLock
<1>23. ASSUME NEW t \in Threads, CloseDone(t) PROVE HekateOnlyWhileCustom'
  BY <1>23 DEF CloseDone
<1>24. ASSUME BootKillsPower PROVE HekateOnlyWhileCustom'
  BY <1>24 DEF BootKillsPower
<1>25. ASSUME UNCHANGED vars PROVE HekateOnlyWhileCustom'
  BY <1>25 DEF vars
<1> QED
  BY <1>1, <1>2, <1>3, <1>4, <1>5, <1>6, <1>7, <1>8, <1>9, <1>10,
         <1>11, <1>12, <1>13, <1>14, <1>15, <1>16, <1>17, <1>18, <1>19,
         <1>20, <1>21, <1>22, <1>23, <1>24, <1>25
  DEF Next, ThreadStep, Stopped

-----------------------------------------------------------------------------
(* The close runs alone, if FS closes the eMMC only when nothing else runs *)

LEMMA CloseNext ==
  TypeOK /\ CloseInv /\ [Next]_vars
    => CloseInv'
<1> SUFFICES ASSUME TypeOK, CloseInv, [Next]_vars PROVE CloseInv'
  OBVIOUS
<1> USE DEF TypeOK, CloseInv, Step, Goto, Return, ClosePcs
<1>1. ASSUME NEW t \in Threads, Call(t) PROVE CloseInv'
  BY <1>1 DEF Call, HookStart
<1>2. ASSUME NEW t \in Threads, LockTest(t) PROVE CloseInv'
  BY <1>2 DEF LockTest, FirstLock
<1>3. ASSUME NEW t \in Threads, LockSd(t) PROVE CloseInv'
  BY <1>3 DEF LockSd
<1>4. ASSUME NEW t \in Threads, LockNand(t) PROVE CloseInv'
  BY <1>4 DEF LockNand
<1>5. ASSUME NEW t \in Threads, Enter(t) PROVE CloseInv'
  BY <1>5 DEF Enter
<1>6. ASSUME NEW t \in Threads, Ensure(t) PROVE CloseInv'
  BY <1>6 DEF Ensure, AfterEnsure
<1>7. ASSUME NEW t \in Threads, Finalize(t) PROVE CloseInv'
  BY <1>7 DEF Finalize, FinalizeFailed
<1>8. ASSUME NEW t \in Threads, Initialize(t) PROVE CloseInv'
  BY <1>8 DEF Initialize, Initialized, AfterEnsure
<1>9. ASSUME NEW t \in Threads, Mount(t) PROVE CloseInv'
  BY <1>9 DEF Mount
<1>10. ASSUME NEW t \in Threads, OpenFiles(t) PROVE CloseInv'
  BY <1>10 DEF OpenFiles
<1>11. ASSUME NEW t \in Threads, Patrol(t) PROVE CloseInv'
  BY <1>11 DEF Patrol, Initialized, AfterEnsure
<1>12. ASSUME NEW t \in Threads, FirstSdRead(t) PROVE CloseInv'
  BY <1>12 DEF FirstSdRead
<1>13. ASSUME NEW t \in Threads, Transfer(t) PROVE CloseInv'
  BY <1>13 DEF Transfer, TransferError, Driver
<1>14. ASSUME NEW t \in Threads, HekateDone(t) PROVE CloseInv'
  BY <1>14 DEF HekateDone
<1>15. ASSUME NEW t \in Threads, FsLock(t) PROVE CloseInv'
  BY <1>15 DEF FsLock
<1>16. ASSUME NEW t \in Threads, FsDone(t) PROVE CloseInv'
  BY <1>16 DEF FsDone
<1>17. ASSUME NEW t \in Threads, UnlockNand(t) PROVE CloseInv'
  BY <1>17 DEF UnlockNand
<1>18. ASSUME NEW t \in Threads, UnlockSd(t) PROVE CloseInv'
  BY <1>18 DEF UnlockSd
<1>19. ASSUME NEW t \in Threads, CloseFiles(t) PROVE CloseInv'
  BY <1>19 DEF CloseFiles
<1>20. ASSUME NEW t \in Threads, CloseSync(t) PROVE CloseInv'
  BY <1>20 DEF CloseSync
<1>21. ASSUME NEW t \in Threads, Unmount(t) PROVE CloseInv'
  BY <1>21 DEF Unmount
<1>22. ASSUME NEW t \in Threads, CloseLock(t) PROVE CloseInv'
  BY <1>22 DEF CloseLock
<1>23. ASSUME NEW t \in Threads, CloseDone(t) PROVE CloseInv'
  BY <1>23 DEF CloseDone
<1>24. ASSUME BootKillsPower PROVE CloseInv'
  BY <1>24 DEF BootKillsPower
<1>25. ASSUME UNCHANGED vars PROVE CloseInv'
  BY <1>25 DEF vars
<1> QED
  BY <1>1, <1>2, <1>3, <1>4, <1>5, <1>6, <1>7, <1>8, <1>9, <1>10,
         <1>11, <1>12, <1>13, <1>14, <1>15, <1>16, <1>17, <1>18, <1>19,
         <1>20, <1>21, <1>22, <1>23, <1>24, <1>25
  DEF Next, ThreadStep, Stopped

-----------------------------------------------------------------------------
(* sd_mutex, in a file based emuMMC                                        *)

LEMMA SdNext ==
  TypeOK /\ SdInv /\ [Next]_vars
    => SdInv'
<1> SUFFICES ASSUME TypeOK, SdInv, [Next]_vars PROVE SdInv'
  OBVIOUS
<1> USE ThreadsAssumption
    DEF TypeOK, SdInv, SdPcs, Step, Goto, Return, LockedPcs, HekatePcs, FsPcs,
        lockVars, modeVars
<1>1. ASSUME NEW t \in Threads, Call(t) PROVE SdInv'
  BY <1>1 DEF Call, HookStart
<1>2. ASSUME NEW t \in Threads, LockTest(t) PROVE SdInv'
  BY <1>2 DEF LockTest, FirstLock
<1>3. ASSUME NEW t \in Threads, LockSd(t) PROVE SdInv'
  BY <1>3 DEF LockSd, CanLock, Locked
<1>4. ASSUME NEW t \in Threads, LockNand(t) PROVE SdInv'
  BY <1>4 DEF LockNand
<1>5. ASSUME NEW t \in Threads, Enter(t) PROVE SdInv'
  BY <1>5 DEF Enter
<1>6. ASSUME NEW t \in Threads, Ensure(t) PROVE SdInv'
  BY <1>6 DEF Ensure, AfterEnsure
<1>7. ASSUME NEW t \in Threads, Finalize(t) PROVE SdInv'
  BY <1>7 DEF Finalize, FinalizeFailed
<1>8. ASSUME NEW t \in Threads, Initialize(t) PROVE SdInv'
  BY <1>8 DEF Initialize, Initialized, AfterEnsure
<1>9. ASSUME NEW t \in Threads, Mount(t) PROVE SdInv'
  BY <1>9 DEF Mount
<1>10. ASSUME NEW t \in Threads, OpenFiles(t) PROVE SdInv'
  BY <1>10 DEF OpenFiles
<1>11. ASSUME NEW t \in Threads, Patrol(t) PROVE SdInv'
  BY <1>11 DEF Patrol, Initialized, AfterEnsure
<1>12. ASSUME NEW t \in Threads, FirstSdRead(t) PROVE SdInv'
  BY <1>12 DEF FirstSdRead, SD_Raw, SD_File
<1>13. ASSUME NEW t \in Threads, Transfer(t) PROVE SdInv'
  BY <1>13 DEF Transfer, TransferError, Driver
<1>14. ASSUME NEW t \in Threads, HekateDone(t) PROVE SdInv'
  BY <1>14 DEF HekateDone
<1>15. ASSUME NEW t \in Threads, FsLock(t) PROVE SdInv'
  BY <1>15 DEF FsLock, CanLock, Locked
<1>16. ASSUME NEW t \in Threads, FsDone(t) PROVE SdInv'
  BY <1>16 DEF FsDone, Unlocked, Free
<1>17. ASSUME NEW t \in Threads, UnlockNand(t) PROVE SdInv'
  BY <1>17 DEF UnlockNand
<1>18. ASSUME NEW t \in Threads, UnlockSd(t) PROVE SdInv'
  BY <1>18 DEF UnlockSd, Unlocked, Free
<1>19. ASSUME NEW t \in Threads, CloseFiles(t) PROVE SdInv'
  BY <1>19 DEF CloseFiles
<1>20. ASSUME NEW t \in Threads, CloseSync(t) PROVE SdInv'
  BY <1>20 DEF CloseSync
<1>21. ASSUME NEW t \in Threads, Unmount(t) PROVE SdInv'
  BY <1>21 DEF Unmount
<1>22. ASSUME NEW t \in Threads, CloseLock(t) PROVE SdInv'
  BY <1>22 DEF CloseLock, CanLock, Locked
<1>23. ASSUME NEW t \in Threads, CloseDone(t) PROVE SdInv'
  BY <1>23 DEF CloseDone, Unlocked, Free
<1>24. ASSUME BootKillsPower PROVE SdInv'
  BY <1>24 DEF BootKillsPower
<1>25. ASSUME UNCHANGED vars PROVE SdInv'
  BY <1>25 DEF vars
<1> QED
  BY <1>1, <1>2, <1>3, <1>4, <1>5, <1>6, <1>7, <1>8, <1>9, <1>10,
         <1>11, <1>12, <1>13, <1>14, <1>15, <1>16, <1>17, <1>18, <1>19,
         <1>20, <1>21, <1>22, <1>23, <1>24, <1>25
  DEF Next, ThreadStep, Stopped

-----------------------------------------------------------------------------
(* The second initialization comes after a power cut                       *)

LEMMA CutNext ==
  QuiescentClose /\ TypeOK /\ NandInv /\ CloseInv /\ CutInv /\ [Next]_vars
    => CutInv'
<1> SUFFICES ASSUME QuiescentClose, TypeOK, NandInv, CloseInv, CutInv, [Next]_vars
             PROVE CutInv'
  OBVIOUS
<1> USE DEF TypeOK, NandInv, CloseInv, CutInv, Step, Goto, Return, LockedPcs, HekatePcs, FsPcs,
        ClosePcs, initVars
<1>1. ASSUME NEW t \in Threads, Call(t) PROVE CutInv'
  BY <1>1 DEF Call, HookStart
<1>2. ASSUME NEW t \in Threads, LockTest(t) PROVE CutInv'
  BY <1>2 DEF LockTest, FirstLock
<1>3. ASSUME NEW t \in Threads, LockSd(t) PROVE CutInv'
  BY <1>3 DEF LockSd
<1>4. ASSUME NEW t \in Threads, LockNand(t) PROVE CutInv'
  BY <1>4 DEF LockNand
<1>5. ASSUME NEW t \in Threads, Enter(t) PROVE CutInv'
  BY <1>5 DEF Enter
<1>6. ASSUME NEW t \in Threads, Ensure(t) PROVE CutInv'
  BY <1>6 DEF Ensure, AfterEnsure, NeedsReinit
<1>7. ASSUME NEW t \in Threads, Finalize(t) PROVE CutInv'
  BY <1>7, EndCard
  DEF Finalize, FinalizeFailed, Kept, Device!Plausible, Device!EndOutcomes,
      fatal_abort
<1>8. ASSUME NEW t \in Threads, Initialize(t) PROVE CutInv'
  BY <1>8, InitCard DEF Initialize, Initialized, AfterEnsure, Kept
<1>9. ASSUME NEW t \in Threads, Mount(t) PROVE CutInv'
  BY <1>9, TransferCard DEF Mount, Kept
<1>10. ASSUME NEW t \in Threads, OpenFiles(t) PROVE CutInv'
  BY <1>10, TransferCard DEF OpenFiles, Kept
<1>11. ASSUME NEW t \in Threads, Patrol(t) PROVE CutInv'
  BY <1>11, TransferCard DEF Patrol, Initialized, AfterEnsure, Kept
<1>12. ASSUME NEW t \in Threads, FirstSdRead(t) PROVE CutInv'
  BY <1>12 DEF FirstSdRead
<1>13. ASSUME NEW t \in Threads, Transfer(t) PROVE CutInv'
  BY <1>13 DEF Transfer, TransferError, Driver
<1>14. ASSUME NEW t \in Threads, HekateDone(t) PROVE CutInv'
  BY <1>14, TransferCard DEF HekateDone, Kept
<1>15. ASSUME NEW t \in Threads, FsLock(t) PROVE CutInv'
  BY <1>15 DEF FsLock
<1>16. ASSUME NEW t \in Threads, FsDone(t) PROVE CutInv'
  BY <1>16, PowerCard DEF FsDone, Kept
<1>17. ASSUME NEW t \in Threads, UnlockNand(t) PROVE CutInv'
  BY <1>17 DEF UnlockNand
<1>18. ASSUME NEW t \in Threads, UnlockSd(t) PROVE CutInv'
  BY <1>18 DEF UnlockSd
<1>19. ASSUME NEW t \in Threads, CloseFiles(t) PROVE CutInv'
  BY <1>19 DEF CloseFiles
<1>20. ASSUME NEW t \in Threads, CloseSync(t) PROVE CutInv'
  BY <1>20, TransferCard DEF CloseSync, Kept
<1>21. ASSUME NEW t \in Threads, Unmount(t) PROVE CutInv'
  BY <1>21 DEF Unmount
<1>22. ASSUME NEW t \in Threads, CloseLock(t) PROVE CutInv'
  BY <1>22 DEF CloseLock
<1>23. ASSUME NEW t \in Threads, CloseDone(t) PROVE CutInv'
  <2>1. \/ card' = card
        \/ card'.cut /\ ~card'.power /\ Device!Plausible(card)'
    BY <1>23, CutCard DEF CloseDone, Device!Card
  <2> QED BY <1>23, <2>1 DEF CloseDone
<1>24. ASSUME BootKillsPower PROVE CutInv'
  <2>1. card'.cut /\ ~card'.power /\ Device!Plausible(card)'
    BY <1>24, CutCard DEF BootKillsPower, Device!Card
  <2> QED BY <1>24, <2>1 DEF BootKillsPower
<1>25. ASSUME UNCHANGED vars PROVE CutInv'
  BY <1>25 DEF vars
<1> QED
  BY <1>1, <1>2, <1>3, <1>4, <1>5, <1>6, <1>7, <1>8, <1>9, <1>10,
         <1>11, <1>12, <1>13, <1>14, <1>15, <1>16, <1>17, <1>18, <1>19,
         <1>20, <1>21, <1>22, <1>23, <1>24, <1>25
  DEF Next, ThreadStep, Stopped

-----------------------------------------------------------------------------
(* The files                                                               *)

LEMMA FilesOpened ==
  ASSUME NEW n \in 1..GppFiles
  PROVE  Gpp(1) \subseteq Gpp(n) /\ Gpp(PartCount(n)) \subseteq Gpp(n)
  BY GppAssumption DEF Gpp, PartCount

LEMMA MountedNext ==
  TypeOK /\ MountedFilesOpen /\ [Next]_vars
    => MountedFilesOpen'
<1> SUFFICES ASSUME TypeOK, MountedFilesOpen, [Next]_vars
             PROVE MountedFilesOpen'
  OBVIOUS
<1> USE DEF TypeOK, MountedFilesOpen, Step, Goto, Return, fileVars
<1>1. ASSUME NEW t \in Threads, Call(t) PROVE MountedFilesOpen'
  BY <1>1 DEF Call, HookStart
<1>2. ASSUME NEW t \in Threads, LockTest(t) PROVE MountedFilesOpen'
  BY <1>2 DEF LockTest, FirstLock
<1>3. ASSUME NEW t \in Threads, LockSd(t) PROVE MountedFilesOpen'
  BY <1>3 DEF LockSd
<1>4. ASSUME NEW t \in Threads, LockNand(t) PROVE MountedFilesOpen'
  BY <1>4 DEF LockNand
<1>5. ASSUME NEW t \in Threads, Enter(t) PROVE MountedFilesOpen'
  BY <1>5 DEF Enter
<1>6. ASSUME NEW t \in Threads, Ensure(t) PROVE MountedFilesOpen'
  BY <1>6 DEF Ensure, AfterEnsure
<1>7. ASSUME NEW t \in Threads, Finalize(t) PROVE MountedFilesOpen'
  BY <1>7 DEF Finalize, FinalizeFailed, fatal_abort
<1>8. ASSUME NEW t \in Threads, Initialize(t) PROVE MountedFilesOpen'
  BY <1>8 DEF Initialize, Initialized, AfterEnsure, fatal_abort
<1>9. ASSUME NEW t \in Threads, Mount(t) PROVE MountedFilesOpen'
  BY <1>9 DEF Mount, fatal_abort
<1>10. ASSUME NEW t \in Threads, OpenFiles(t) PROVE MountedFilesOpen'
  BY <1>10, FilesOpened DEF OpenFiles, fatal_abort
<1>11. ASSUME NEW t \in Threads, Patrol(t) PROVE MountedFilesOpen'
  BY <1>11 DEF Patrol, Initialized, AfterEnsure
<1>12. ASSUME NEW t \in Threads, FirstSdRead(t) PROVE MountedFilesOpen'
  BY <1>12 DEF FirstSdRead
<1>13. ASSUME NEW t \in Threads, Transfer(t) PROVE MountedFilesOpen'
  BY <1>13 DEF Transfer, TransferError, Driver
<1>14. ASSUME NEW t \in Threads, HekateDone(t) PROVE MountedFilesOpen'
  BY <1>14 DEF HekateDone
<1>15. ASSUME NEW t \in Threads, FsLock(t) PROVE MountedFilesOpen'
  BY <1>15 DEF FsLock
<1>16. ASSUME NEW t \in Threads, FsDone(t) PROVE MountedFilesOpen'
  BY <1>16 DEF FsDone
<1>17. ASSUME NEW t \in Threads, UnlockNand(t) PROVE MountedFilesOpen'
  BY <1>17 DEF UnlockNand
<1>18. ASSUME NEW t \in Threads, UnlockSd(t) PROVE MountedFilesOpen'
  BY <1>18 DEF UnlockSd
<1>19. ASSUME NEW t \in Threads, CloseFiles(t) PROVE MountedFilesOpen'
  BY <1>19 DEF CloseFiles
<1>20. ASSUME NEW t \in Threads, CloseSync(t) PROVE MountedFilesOpen'
  BY <1>20 DEF CloseSync
<1>21. ASSUME NEW t \in Threads, Unmount(t) PROVE MountedFilesOpen'
  BY <1>21 DEF Unmount, Unmounted
<1>22. ASSUME NEW t \in Threads, CloseLock(t) PROVE MountedFilesOpen'
  BY <1>22 DEF CloseLock
<1>23. ASSUME NEW t \in Threads, CloseDone(t) PROVE MountedFilesOpen'
  BY <1>23 DEF CloseDone
<1>24. ASSUME BootKillsPower PROVE MountedFilesOpen'
  BY <1>24 DEF BootKillsPower
<1>25. ASSUME UNCHANGED vars PROVE MountedFilesOpen'
  BY <1>25 DEF vars
<1> QED
  BY <1>1, <1>2, <1>3, <1>4, <1>5, <1>6, <1>7, <1>8, <1>9, <1>10,
         <1>11, <1>12, <1>13, <1>14, <1>15, <1>16, <1>17, <1>18, <1>19,
         <1>20, <1>21, <1>22, <1>23, <1>24, <1>25
  DEF Next, ThreadStep, Stopped

-----------------------------------------------------------------------------
(* The theorems                                                            *)

IInv == TypeOK /\ NandInv /\ CloseInv /\ SdInv

LEMMA InitIInv == Init => IInv
<1> SUFFICES ASSUME Init PROVE IInv
  OBVIOUS
<1>1. NandInv
  BY ThreadsAssumption DEF Init, NandInv, Free, LockedPcs, HekatePcs, FsPcs
<1>2. CloseInv
  BY DEF Init, CloseInv
<1>3. SdInv
  BY ThreadsAssumption DEF Init, SdInv, SdPcs, Free, LockedPcs, HekatePcs, FsPcs
<1> QED BY InitType, <1>1, <1>2, <1>3 DEF IInv

LEMMA Inductive == Spec => []IInv
<1>1. IInv /\ [Next]_vars => IInv'
  BY NextType, NandNext, CloseNext, SdNext DEF IInv
<1> QED BY InitIInv, <1>1, PTL DEF Spec

(* OneDriverAtATime: whichever driver a thread uses, it does so between its
   lock and its unlock of nand_mutex, which is never given up in between, not
   even by the swap to FS's driver; the close holds neither and relies on FS. *)
THEOREM Exclusion ==
  ASSUME QuiescentClose PROVE Spec => []OneDriverAtATime
<1>1. TypeOK /\ NandInv /\ CloseInv => OneDriverAtATime
  BY ThreadsAssumption
  DEF TypeOK, NandInv, CloseInv, OneDriverAtATime, InDriver, LockedPcs, HekatePcs,
      FsPcs, ClosePcs
<1> QED BY Inductive, <1>1, PTL DEF IInv

(* AccessorIsCallers: hekate's driver never runs on the DMA buffers of another
   device's accessor, though they hang off one global variable.            *)
THEOREM Accessor == Spec => []AccessorIsCallers
<1>1. Init => AccessorIsCallers
  BY DEF Init, AccessorIsCallers, HekatePcs
<1>2. IInv /\ AccessorIsCallers /\ [Next]_vars => AccessorIsCallers'
  BY AccessorNext DEF IInv
<1> QED BY Inductive, <1>1, <1>2, PTL DEF Spec

(* HekateOnlyWhileCustom: the driver that a transfer has chosen is
   still the current one while it runs.                                    *)
THEOREM HandOver == Spec => []HekateOnlyWhileCustom
<1>1. Init => HekateOnlyWhileCustom
  BY DEF Init, HekateOnlyWhileCustom
<1>2. IInv /\ HekateOnlyWhileCustom /\ [Next]_vars
        => HekateOnlyWhileCustom'
  BY HandOverNext DEF IInv
<1> QED BY Inductive, <1>1, <1>2, PTL DEF Spec

(* NoMutexLeak, for a file based emuMMC: every path through a hook, the error
   returns included, gives back both mutexes.                              *)
THEOREM NoLeak ==
  ASSUME EMMC_Type = SD_File PROVE Spec => []NoMutexLeak
<1>1. NandInv /\ SdInv => NoMutexLeak
  BY DEF NandInv, SdInv, SdPcs, LockedPcs, HekatePcs, FsPcs, NoMutexLeak
<1> QED BY Inductive, <1>1, PTL DEF IInv

(* SdBeforeNand, for a file based emuMMC: one lock order, hence no deadlock
   between the two mutexes.                                                *)
THEOREM LockOrder ==
  ASSUME EMMC_Type = SD_File PROVE Spec => []SdBeforeNand
<1>1. NandInv /\ SdInv => SdBeforeNand
  BY DEF NandInv, SdInv, SdPcs, LockedPcs, HekatePcs, FsPcs, SdBeforeNand
<1> QED BY Inductive, <1>1, PTL DEF IInv

(* InitDoneOnlyAfterCut: the second initialization, which switches the card
   off and on again, is never taken for the power cut it waits for.        *)
THEOREM InitDone ==
  ASSUME QuiescentClose PROVE Spec => []InitDoneOnlyAfterCut
<1>1. Init => CutInv
  BY DEF Init, CutInv, Device!FreshCards, Device!Plausible
<1>2. IInv /\ CutInv /\ [Next]_vars => CutInv'
  BY CutNext DEF IInv
<1>3. CutInv => InitDoneOnlyAfterCut
  BY DEF CutInv, InitDoneOnlyAfterCut
<1> QED BY Inductive, <1>1, <1>2, <1>3, PTL DEF Spec

(* MountedFilesOpen: no read or write indexes a part that is not open.     *)
THEOREM FilesOpen == Spec => []MountedFilesOpen
<1>1. Init => MountedFilesOpen
  BY DEF Init, MountedFilesOpen
<1>2. IInv /\ MountedFilesOpen /\ [Next]_vars => MountedFilesOpen'
  BY MountedNext DEF IInv
<1> QED BY Inductive, <1>1, <1>2, PTL DEF Spec
=============================================================================
