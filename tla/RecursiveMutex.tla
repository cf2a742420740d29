--------------------------- MODULE RecursiveMutex ---------------------------
(***************************************************************************)
(* The recursive mutexes of Horizon's FS process.  emuMMC never looks      *)
(* inside them: it calls the two functions it finds in FS, lock_mutex and  *)
(* unlock_mutex, on the two objects sd_mutex and nand_mutex.  A mutex is a *)
(* record of its owner and of the number of times the owner has locked it. *)
(***************************************************************************)
EXTENDS Naturals

CONSTANT NoOwner  (* The owner of a free mutex; no thread.                 *)

Free == [owner |-> NoOwner, count |-> 0]

\* Thread t does not have to wait for m: m is free, or t's own already.
CanLock(m, t) == m.owner \in {NoOwner, t}

Locked(m, t) == [owner |-> t, count |-> m.count + 1]

\* Only the last unlock of a nest gives the mutex up.
Unlocked(m) ==
  IF m.count > 1 THEN [owner |-> m.owner, count |-> m.count - 1] ELSE Free
=============================================================================
