--------------------------- MODULE MCEmummcHooks ----------------------------
(***************************************************************************)
(* Instances of EmummcHooks for TLC.  Threads are interchangeable in every *)
(* safety property, hence the symmetry; the liveness run does not use it.  *)
(***************************************************************************)
EXTENDS EmummcHooks, TLC

\* Every call that changes the hooks' state.
AllCalls ==
  {[op |-> o, dev |-> d] : o \in {"read", "write"}, d \in {"EMMC", "SD"}} \cup
  {[op |-> "open", dev |-> "SD"], [op |-> "close", dev |-> "EMMC"]}

\* For the liveness run: every way through the locks, one device a kind.
LiveCalls ==
  {[op |-> "read", dev |-> "SD"], [op |-> "write", dev |-> "EMMC"],
   [op |-> "open", dev |-> "SD"], [op |-> "close", dev |-> "EMMC"]}

ThreadSymmetry == Permutations(Threads)
=============================================================================
