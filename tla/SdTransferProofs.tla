-------------------------- MODULE SdTransferProofs --------------------------
(***************************************************************************)
(* Proofs about SdTransfer, for every size of the requests and commands.   *)
(***************************************************************************)
EXTENDS SdTransfer, TLAPS

-----------------------------------------------------------------------------
(* Types, retries and speeds                                               *)

LEMMA TypeNext ==
  TypeOK /\ ModeInRange /\ RetryInv /\ [Next]_vars => TypeOK'
<1> SUFFICES ASSUME TypeOK, ModeInRange, RetryInv, [Next]_vars
             PROVE  TypeOK'
  OBVIOUS
<1> USE SectorsAssumption, BlocksAssumption, WrapAssumption
    DEF TypeOK, ModeInRange, RetryInv, InIo, SD_INIT_FAIL, SD_UHS_SDR104, Retries, ReinitRetries,
        cardVars, ioVars
<1>1. CASE CallEnd
  BY <1>1 DEF CallEnd, EndDone, EndFailed
<1>2. CASE CallInitialize
  BY <1>2 DEF CallInitialize, KeepSpeed
<1>3. CASE CallTransfer
  BY <1>3 DEF CallTransfer, FromTheStart, Return
<1>4. CASE TryDone
  <2>1. blkcnt \in Nat /\ sct_total - blkcnt \in Nat
    BY DEF blkcnt, Least
  <2>2. sct_off' \in Nat /\ sct_total' \in Nat /\ bbuf' \in Nat
    BY <1>4, <2>1 DEF TryDone
  <2>3. pc' \in {"try", "idle"} /\ result' \in BOOLEAN /\ retries' \in Nat
    <3>1. CASE sct_total = blkcnt
      BY <1>4, <3>1 DEF TryDone, Return
    <3>2. CASE sct_total # blkcnt
      BY <1>4, <3>2 DEF TryDone
    <3> QED BY <3>1, <3>2
  <2> QED BY <1>4, <2>2, <2>3 DEF TryDone
<1>5. CASE TryFailed
  BY <1>5 DEF TryFailed, LastTry
<1>6. CASE Reinit
  <2>1. sd_mode' \in 0..(Wrap - 1)
    BY <1>6 DEF Reinit, Slower
  <2>2. EndDone \/ EndFailed
    BY <1>6 DEF Reinit, PowerCycle
  <2> QED BY <1>6, <2>1, <2>2 DEF Reinit, EndDone, EndFailed
<1>7. CASE BringUpDone
  <2>1. sd_mode' \in 0..(Wrap - 1)
    BY <1>7 DEF BringUpDone, ModeOfSwitch
  <2>2. pc' \in {"try", "idle"} /\ result' \in BOOLEAN
    BY <1>7 DEF BringUpDone, Return
  <2>3. sct_off' \in Nat /\ sct_total' \in Nat /\ bbuf' \in Nat
    <3>1. CASE op = "io"
      BY <1>7, <3>1 DEF BringUpDone, FromTheStart
    <3>2. CASE op # "io"
      BY <1>7, <3>2 DEF BringUpDone
    <3> QED BY <3>1, <3>2
  <2> QED BY <1>7, <2>1, <2>2, <2>3 DEF BringUpDone
<1>8. CASE BringUpFailed
  <2>1. sd_mode' \in 0..(Wrap - 1)
    BY <1>8 DEF BringUpFailed, ModeOfSwitch
  <2>2. pc' \in {"slower", "idle"} /\ result' \in BOOLEAN
    BY <1>8 DEF BringUpFailed, Return
  <2>3. /\ initialized' \in BOOLEAN /\ card_clock_enabled' \in BOOLEAN
        /\ power' \in BOOLEAN /\ cut' \in BOOLEAN
    BY <1>8 DEF BringUpFailed
  <2> QED BY <1>8, <2>1, <2>2, <2>3 DEF BringUpFailed
<1>9. CASE NextSpeed
  <2>1. sd_mode' \in 0..(Wrap - 1)
    BY <1>9 DEF NextSpeed, Slower
  <2>2. EndDone \/ EndFailed
    BY <1>9 DEF NextSpeed, PowerCycle
  <2> QED BY <1>9, <2>1, <2>2 DEF NextSpeed, EndDone, EndFailed
<1>10. CASE PowerCut
  BY <1>10 DEF PowerCut
<1>11. CASE UNCHANGED vars
  BY <1>11 DEF vars
<1> QED
  BY <1>1, <1>2, <1>3, <1>4, <1>5, <1>6, <1>7, <1>8, <1>9,
     <1>10, <1>11
  DEF Next, InCall

LEMMA ModeNext ==
  TypeOK /\ RetryInv /\ TryingIsUp /\ ModeInRange /\ [Next]_vars => ModeInRange'
<1> SUFFICES ASSUME TypeOK, RetryInv, TryingIsUp, ModeInRange, [Next]_vars
             PROVE  ModeInRange'
  OBVIOUS
<1> USE WrapAssumption
    DEF TypeOK, ModeInRange, RetryInv, TryingIsUp, SD_INIT_FAIL, SD_UHS_SDR104
<1>1. CASE CallEnd
  BY <1>1 DEF CallEnd, EndDone, EndFailed
<1>2. CASE CallInitialize
  BY <1>2 DEF CallInitialize, KeepSpeed
<1>3. CASE CallTransfer
  BY <1>3 DEF CallTransfer, FromTheStart, Return
<1>4. CASE TryDone
  BY <1>4 DEF TryDone, Return, blkcnt, Least
<1>5. CASE TryFailed
  BY <1>5 DEF TryFailed, LastTry
<1>6. CASE Reinit
  BY <1>6 DEF Reinit, PowerCycle, EndDone, EndFailed, Slower
<1>7. CASE BringUpDone
  BY <1>7 DEF BringUpDone, SpeedLeft, ModeOfSwitch, FromTheStart, Return
<1>8. CASE BringUpFailed
  BY <1>8 DEF BringUpFailed, SpeedLeft, LoopEnds, ModeOfSwitch, Return
<1>9. CASE NextSpeed
  BY <1>9 DEF NextSpeed, Slower, PowerCycle, EndDone, EndFailed
<1>10. CASE PowerCut
  BY <1>10 DEF PowerCut
<1>11. CASE UNCHANGED vars
  BY <1>11 DEF vars
<1> QED
  BY <1>1, <1>2, <1>3, <1>4, <1>5, <1>6, <1>7, <1>8, <1>9,
     <1>10, <1>11
  DEF Next, InCall

LEMMA RetryNext ==
  TypeOK /\ ModeInRange /\ RetryInv /\ [Next]_vars => RetryInv'
<1> SUFFICES ASSUME TypeOK, ModeInRange, RetryInv, [Next]_vars
             PROVE  RetryInv'
  OBVIOUS
<1> USE WrapAssumption
    DEF TypeOK, ModeInRange, RetryInv, InIo, SD_INIT_FAIL, SD_UHS_SDR104, Retries, ReinitRetries, ioVars
<1>1. CASE CallEnd
  BY <1>1 DEF CallEnd, EndDone, EndFailed
<1>2. CASE CallInitialize
  BY <1>2 DEF CallInitialize, KeepSpeed
<1>3. CASE CallTransfer
  BY <1>3 DEF CallTransfer, FromTheStart, Return
<1>4. CASE TryDone
  BY <1>4 DEF TryDone, Return, blkcnt, Least
<1>5. CASE TryFailed
  BY <1>5 DEF TryFailed, LastTry
<1>6. CASE Reinit
  BY <1>6 DEF Reinit, PowerCycle, EndDone, EndFailed, Slower
<1>7. CASE BringUpDone
  BY <1>7 DEF BringUpDone, SpeedLeft, ModeOfSwitch, FromTheStart, Return
<1>8. CASE BringUpFailed
  BY <1>8 DEF BringUpFailed, SpeedLeft, LoopEnds, ModeOfSwitch, Return
<1>9. CASE NextSpeed
  BY <1>9 DEF NextSpeed, Slower, PowerCycle, EndDone, EndFailed
<1>10. CASE PowerCut
  BY <1>10 DEF PowerCut
<1>11. CASE UNCHANGED vars
  BY <1>11 DEF vars
<1> QED
  BY <1>1, <1>2, <1>3, <1>4, <1>5, <1>6, <1>7, <1>8, <1>9,
     <1>10, <1>11
  DEF Next, InCall

LEMMA UpNext ==
  TypeOK /\ ModeInRange /\ TryingIsUp /\ InitializedHasClock /\ [Next]_vars => InitializedHasClock'
<1> SUFFICES ASSUME TypeOK, ModeInRange, TryingIsUp, InitializedHasClock, [Next]_vars
             PROVE  InitializedHasClock'
  OBVIOUS
<1> USE DEF TypeOK, InitializedHasClock, cardVars
<1>1. CASE CallEnd
  BY <1>1 DEF CallEnd, EndDone, EndFailed
<1>2. CASE CallInitialize
  BY <1>2 DEF CallInitialize, KeepSpeed
<1>3. CASE CallTransfer
  BY <1>3 DEF CallTransfer, FromTheStart, Return
<1>4. CASE TryDone
  BY <1>4 DEF TryDone, Return, blkcnt, Least
<1>5. CASE TryFailed
  BY <1>5 DEF TryFailed, LastTry
<1>6. CASE Reinit
  <2>1. EndDone \/ EndFailed
    BY <1>6 DEF Reinit, PowerCycle
  <2> QED BY <2>1 DEF EndDone, EndFailed
<1>7. CASE BringUpDone
  BY <1>7 DEF BringUpDone, SpeedLeft, ModeOfSwitch, FromTheStart, Return
<1>8. CASE BringUpFailed
  <2>1. initialized' = FALSE \/ UNCHANGED cardVars
    BY <1>8 DEF BringUpFailed
  <2> QED BY <2>1
<1>9. CASE NextSpeed
  BY <1>9 DEF NextSpeed, Slower, PowerCycle, EndDone, EndFailed
<1>10. CASE PowerCut
  BY <1>10 DEF PowerCut
<1>11. CASE UNCHANGED vars
  BY <1>11 DEF vars
<1> QED
  BY <1>1, <1>2, <1>3, <1>4, <1>5, <1>6, <1>7, <1>8, <1>9,
     <1>10, <1>11
  DEF Next, InCall

LEMMA TryingNext ==
  TypeOK /\ ModeInRange /\ RetryInv /\ TryingIsUp /\ [Next]_vars => TryingIsUp'
<1> SUFFICES ASSUME TypeOK, ModeInRange, RetryInv, TryingIsUp, [Next]_vars
             PROVE  TryingIsUp'
  OBVIOUS
<1> USE DEF TypeOK, ModeInRange, TryingIsUp, RetryInv, SD_INIT_FAIL, SD_UHS_SDR104, Retries, ReinitRetries, cardVars, ioVars
<1>1. CASE CallEnd
  BY <1>1 DEF CallEnd, EndDone, EndFailed
<1>2. CASE CallInitialize
  BY <1>2 DEF CallInitialize, KeepSpeed
<1>3. CASE CallTransfer
  BY <1>3 DEF CallTransfer, FromTheStart, Return
<1>4. CASE TryDone
  BY <1>4 DEF TryDone, Return, blkcnt, Least
<1>5. CASE TryFailed
  BY <1>5 DEF TryFailed, LastTry
<1>6. CASE Reinit
  BY <1>6 DEF Reinit, PowerCycle, EndDone, EndFailed, Slower
<1>7. CASE BringUpDone
  BY <1>7 DEF BringUpDone, SpeedLeft, ModeOfSwitch, FromTheStart, Return
<1>8. CASE BringUpFailed
  BY <1>8 DEF BringUpFailed, SpeedLeft, LoopEnds, ModeOfSwitch, Return
<1>9. CASE NextSpeed
  BY <1>9 DEF NextSpeed, Slower, PowerCycle, EndDone, EndFailed
<1>10. CASE PowerCut
  BY <1>10 DEF PowerCut
<1>11. CASE UNCHANGED vars
  BY <1>11 DEF vars
<1> QED
  BY <1>1, <1>2, <1>3, <1>4, <1>5, <1>6, <1>7, <1>8, <1>9,
     <1>10, <1>11
  DEF Next, InCall

-----------------------------------------------------------------------------
(* Buffer and card                                                         *)

LEMMA StepNext ==
  TypeOK /\ RetryInv /\ InStep /\ [Next]_vars => InStep'
<1> SUFFICES ASSUME TypeOK, RetryInv, InStep, [Next]_vars
             PROVE  InStep'
  OBVIOUS
<1> USE DEF TypeOK, RetryInv, InStep, InIo, ioVars
<1>1. CASE CallEnd
  BY <1>1 DEF CallEnd, EndDone, EndFailed
<1>2. CASE CallInitialize
  BY <1>2 DEF CallInitialize, KeepSpeed
<1>3. CASE CallTransfer
  BY <1>3 DEF CallTransfer, FromTheStart, Return
<1>4. CASE TryDone
  <2>1. op = "io" /\ op' = "io" /\ bbuf = sct_off /\ sct_off + sct_total = num_sectors
    BY <1>4 DEF TryDone
  <2>2. blkcnt \in Nat /\ sct_total - blkcnt \in Nat
    BY BlocksAssumption DEF blkcnt, Least
  <2>3. bbuf' = sct_off' /\ sct_off' + sct_total' = num_sectors'
    BY <1>4, <2>1, <2>2 DEF TryDone
  <2>4. \A m \in moved' : m[1] = m[2]
    BY <1>4, <2>1 DEF TryDone
  <2> QED BY <2>3, <2>4
<1>5. CASE TryFailed
  BY <1>5 DEF TryFailed, LastTry
<1>6. CASE Reinit
  BY <1>6 DEF Reinit, PowerCycle, EndDone, EndFailed, Slower
<1>7. CASE BringUpDone
  BY <1>7 DEF BringUpDone, SpeedLeft, ModeOfSwitch, FromTheStart, Return
<1>8. CASE BringUpFailed
  BY <1>8 DEF BringUpFailed, SpeedLeft, LoopEnds, ModeOfSwitch, Return
<1>9. CASE NextSpeed
  BY <1>9 DEF NextSpeed, Slower, PowerCycle, EndDone, EndFailed
<1>10. CASE PowerCut
  BY <1>10 DEF PowerCut
<1>11. CASE UNCHANGED vars
  BY <1>11 DEF vars
<1> QED
  BY <1>1, <1>2, <1>3, <1>4, <1>5, <1>6, <1>7, <1>8, <1>9,
     <1>10, <1>11
  DEF Next, InCall

LEMMA CoverNext ==
  TypeOK /\ RetryInv /\ InStep /\ CoverInv /\ [Next]_vars => CoverInv'
<1> SUFFICES ASSUME TypeOK, RetryInv, InStep, CoverInv, [Next]_vars
             PROVE  CoverInv'
  OBVIOUS
<1> USE DEF TypeOK, RetryInv, InStep, CoverInv, InIo, ioVars
<1>1. CASE CallEnd
  BY <1>1 DEF CallEnd, EndDone, EndFailed
<1>2. CASE CallInitialize
  BY <1>2 DEF CallInitialize, KeepSpeed
<1>3. CASE CallTransfer
  <2>1. sct_off' = 0 /\ moved' = {} /\ num_sectors' \in Nat
    BY <1>3 DEF CallTransfer, FromTheStart
  <2>2. pc' = "idle" /\ result' => sct_total' = 0
    <3> PICK n \in 0..MaxSectors :
          /\ sct_total' = n
          /\ IF initialized /\ n > 0
             THEN pc' = "try" /\ UNCHANGED result
             ELSE Return(initialized)
      BY <1>3 DEF CallTransfer, FromTheStart
    <3>1. CASE initialized /\ n > 0
      BY <3>1
    <3>2. CASE ~initialized
      BY <3>2 DEF Return
    <3>3. CASE n = 0
      BY <3>3
    <3> QED BY <3>1, <3>2, <3>3, SectorsAssumption
  <2> QED BY <2>1, <2>2
<1>4. CASE TryDone
  <2>1. op = "io" /\ op' = "io" /\ bbuf = sct_off /\ sct_off + sct_total = num_sectors
    BY <1>4 DEF TryDone
  <2>2. blkcnt \in Nat /\ sct_total - blkcnt \in Nat
    BY BlocksAssumption DEF blkcnt, Least
  <2> DEFINE new == {<<sct_off + i, bbuf + i>> : i \in 0..(blkcnt - 1)}
  <2>3. {m[1] : m \in new} = sct_off..(sct_off + blkcnt - 1)
    <3>1. \A m \in new : m[1] \in sct_off..(sct_off + blkcnt - 1)
      BY <2>2
    <3>2. ASSUME NEW k \in sct_off..(sct_off + blkcnt - 1)
          PROVE  k \in {m[1] : m \in new}
      <4>1. k - sct_off \in 0..(blkcnt - 1) /\ sct_off + (k - sct_off) = k
        BY <2>2
      <4> DEFINE m == <<sct_off + (k - sct_off), bbuf + (k - sct_off)>>
      <4>2. m \in new /\ m[1] = k
        BY <4>1
      <4> QED BY <4>2
    <3> QED BY <3>1, <3>2
  <2>4. {m[1] : m \in moved'} = {m[1] : m \in moved} \cup {m[1] : m \in new}
    BY <1>4 DEF TryDone
  <2>5. /\ sct_off' = sct_off + blkcnt /\ sct_total' = sct_total - blkcnt
        /\ num_sectors' = num_sectors
    BY <1>4 DEF TryDone
  <2>6. sct_off..(sct_off + blkcnt - 1) \subseteq 0..(num_sectors - 1)
    BY <2>1, <2>2
  <2>7. 0..(sct_off + blkcnt - 1) \subseteq 0..(sct_off - 1) \cup sct_off..(sct_off + blkcnt - 1)
    BY <2>2
  <2>8. pc' = "idle" => sct_total' = 0
    <3>1. CASE sct_total = blkcnt
      BY <2>2, <2>5, <3>1
    <3>2. CASE sct_total # blkcnt
      BY <1>4, <3>2 DEF TryDone
    <3> QED BY <3>1, <3>2
  <2> HIDE DEF new
  <2>9. 0..(sct_off' - 1) \subseteq {m[1] : m \in moved'}
    <3>1. sct_off..(sct_off' - 1) \subseteq {m[1] : m \in moved'}
      <4>1. sct_off' - 1 = sct_off + blkcnt - 1
        BY <2>2, <2>5
      <4>2. {m[1] : m \in new} \subseteq {m[1] : m \in moved'}
        BY <2>4
      <4> QED BY <4>1, <4>2, <2>3
    <3>2. 0..(sct_off - 1) \subseteq {m[1] : m \in moved'}
      BY <2>1, <2>4
    <3>3. 0..(sct_off' - 1) \subseteq 0..(sct_off - 1) \cup sct_off..(sct_off' - 1)
      BY <2>5, <2>7
    <3> QED BY <3>1, <3>2, <3>3
  <2>10. {m[1] : m \in moved'} \subseteq 0..(num_sectors' - 1)
    BY <2>1, <2>3, <2>4, <2>5, <2>6
  <2> QED BY <2>8, <2>9, <2>10
<1>5. CASE TryFailed
  BY <1>5 DEF TryFailed, LastTry
<1>6. CASE Reinit
  BY <1>6 DEF Reinit, PowerCycle, EndDone, EndFailed, Slower
<1>7. CASE BringUpDone
  <2>1. op = "io" => pc' = "try" /\ sct_off' = 0
    BY <1>7 DEF BringUpDone, FromTheStart
  <2>2. UNCHANGED <<op, num_sectors, moved>>
    BY <1>7 DEF BringUpDone
  <2> QED BY <2>1, <2>2
<1>8. CASE BringUpFailed
  BY <1>8 DEF BringUpFailed, SpeedLeft, LoopEnds, ModeOfSwitch, Return
<1>9. CASE NextSpeed
  BY <1>9 DEF NextSpeed, Slower, PowerCycle, EndDone, EndFailed
<1>10. CASE PowerCut
  BY <1>10 DEF PowerCut
<1>11. CASE UNCHANGED vars
  BY <1>11 DEF vars
<1> QED
  BY <1>1, <1>2, <1>3, <1>4, <1>5, <1>6, <1>7, <1>8, <1>9,
     <1>10, <1>11
  DEF Next, InCall

-----------------------------------------------------------------------------
(* The abstract driver                                                     *)

LEMMA EntryNext ==
  /\ TypeOK /\ ModeInRange /\ RetryInv /\ InitializedHasClock /\ TryingIsUp /\ EntryInv
  /\ [Next]_vars
  => EntryInv'
<1> SUFFICES ASSUME TypeOK, ModeInRange, RetryInv, InitializedHasClock, TryingIsUp, EntryInv,
                    [Next]_vars
             PROVE  EntryInv'
  OBVIOUS
<1> USE DEF TypeOK, ModeInRange, RetryInv, InitializedHasClock, TryingIsUp, EntryInv, InIo, Now,
        SD_INIT_FAIL, SD_UHS_SDR104, cardVars, ioVars, SdCard!Plausible, SdCard!Card
<1>0. Now \in SdCard!Card /\ (TypeOK' => Now' \in SdCard!Card)
  OBVIOUS
<1>1. CASE CallEnd
  BY <1>1, <1>0 DEF CallEnd, EndDone, EndFailed
<1>2. CASE CallInitialize
  BY <1>2, <1>0 DEF CallInitialize, KeepSpeed
<1>3. CASE CallTransfer
  BY <1>3, <1>0 DEF CallTransfer, FromTheStart, Return
<1>4. CASE TryDone
  BY <1>4, <1>0 DEF TryDone, Return
<1>5. CASE TryFailed
  BY <1>5, <1>0 DEF TryFailed, LastTry
<1>6. CASE Reinit
  <2>1. /\ pc = "reinit" /\ pc' = "bringUp" /\ op = "io" /\ op' = "io"
        /\ first_reinit' = FALSE /\ entry' = entry
    BY <1>6 DEF Reinit
  <2>2. cut' = cut /\ SdCard!Plausible(Now)'
    <3>1. EndDone \/ EndFailed
      BY <1>6 DEF Reinit, PowerCycle
    <3> QED BY <3>1 DEF EndDone, EndFailed
  <2>3. entry.exhausted => sd_mode' = SD_INIT_FAIL
    <3>1. CASE first_reinit
      BY <1>6, <2>1, <3>1 DEF Reinit
    <3>2. CASE ~first_reinit
      BY <2>1, <3>2
    <3> QED BY <3>1, <3>2
  <2> QED BY <2>1, <2>2, <2>3
<1>7. CASE BringUpDone
  BY <1>7, <1>0 DEF BringUpDone, SpeedLeft, ModeOfSwitch, FromTheStart, Return
<1>8. CASE BringUpFailed
  BY <1>8, <1>0 DEF BringUpFailed, SpeedLeft, LoopEnds, ModeOfSwitch, Return
<1>9. CASE NextSpeed
  BY <1>9, <1>0 DEF NextSpeed, Slower, PowerCycle, EndDone, EndFailed
<1>10. CASE PowerCut
  <2>1. /\ entry' = [entry EXCEPT !.power = FALSE, !.cut = TRUE]
        /\ cut' = TRUE /\ power' = FALSE
        /\ UNCHANGED <<sd_mode, initialized, card_clock_enabled, pc, op, looping,
                       first_reinit>>
    BY <1>10 DEF PowerCut
  <2>2. entry' \in SdCard!Card /\ SdCard!Plausible(Now)'
    BY <2>1
  <2>3. /\ entry'.cut = TRUE /\ entry'.exhausted = entry.exhausted
        /\ entry'.initialized = entry.initialized
    BY <2>1
  <2>4. ASSUME entry = Now
        PROVE  entry' = Now'
    <3>1. entry' = [Now EXCEPT !.power = FALSE, !.cut = TRUE]
      BY <2>1, <2>4
    <3>2. Now' = [power |-> FALSE, clock |-> card_clock_enabled, initialized |-> initialized,
                  exhausted |-> sd_mode = SD_INIT_FAIL, cut |-> TRUE]
      BY <2>1
    <3> QED BY <3>1, <3>2
  <2>5. InIo' => entry'.initialized
    BY <2>1, <2>3
  <2>6. InIo' /\ first_reinit' => pc' \in {"try", "reinit"} /\ entry' = Now'
    BY <2>1, <2>4
  <2>7. pc' \in {"bringUp", "slower"} /\ op' # "io" =>
          /\ looping'
          /\ entry'.exhausted => pc' = "bringUp" /\ entry' = Now'
          /\ ~entry'.exhausted /\ (pc' = "slower" \/ sd_mode' = SD_INIT_FAIL)
               => ~initialized'
    BY <2>1, <2>3, <2>4, <1>10 DEF PowerCut
  <2> QED BY <2>1, <2>2, <2>3, <2>5, <2>6, <2>7
<1>11. CASE UNCHANGED vars
  BY <1>11, <1>0 DEF vars
<1> QED
  BY <1>1, <1>2, <1>3, <1>4, <1>5, <1>6, <1>7, <1>8, <1>9,
     <1>10, <1>11
  DEF Next, InCall

LEMMA SameCard ==
  ASSUME NEW c \in SdCard!Card, NEW d \in SdCard!Card,
         c.power = d.power, c.clock = d.clock, c.initialized = d.initialized,
         c.exhausted = d.exhausted, c.cut = d.cut
  PROVE  c = d
  BY DEF SdCard!Card

\* What PowerCut makes of a card.
Dark(c) == [c EXCEPT !.power = FALSE, !.cut = TRUE]

LEMMA Changes ==
  ASSUME NEW c \in SdCard!Card
  PROVE  /\ Device!Off(c) \in SdCard!Card
         /\ ~Device!Off(c).power /\ ~Device!Off(c).clock /\ ~Device!Off(c).initialized
         /\ Device!Off(c).exhausted = c.exhausted /\ Device!Off(c).cut = c.cut
         /\ Dark(c) \in SdCard!Card
         /\ ~Dark(c).power /\ Dark(c).cut
         /\ Dark(c).clock = c.clock /\ Dark(c).initialized = c.initialized
         /\ Dark(c).exhausted = c.exhausted
  BY DEF SdCard!Card, Device!Off, Dark

(* A step of a call that does not return is no step of the abstract driver;
   the one that returns is the whole call.                                 *)
LEMMA DeviceNext ==
  /\ TypeOK /\ ModeInRange /\ RetryInv /\ InitializedHasClock /\ TryingIsUp /\ EntryInv
  /\ TypeOK' /\ EntryInv'
  /\ [Next]_vars
  => [Device!Next]_<<IF pc = "idle" THEN Now ELSE entry, result>>
<1> DEFINE dcard == IF pc = "idle" THEN Now ELSE entry
<1> SUFFICES ASSUME TypeOK, ModeInRange, RetryInv, InitializedHasClock, TryingIsUp, EntryInv,
                    TypeOK', EntryInv', [Next]_vars
             PROVE  Device!Next \/ (dcard' = dcard /\ result' = result)
  OBVIOUS
<1> DEFINE Ends(o)   == o.card = dcard' /\ o.ok = result'
           Outcome   == [ok |-> result', card |-> dcard']
<1> USE DEF TypeOK, ModeInRange, EntryInv, InIo, Now,
        SD_INIT_FAIL, SD_UHS_SDR104, cardVars, ioVars
<1>0. /\ Now \in SdCard!Card /\ Now' \in SdCard!Card /\ Device!Card = SdCard!Card
      /\ dcard \in SdCard!Card
  BY DEF SdCard!Card, Device!Card
<1>e. Outcome \in Device!EndOutcomes(dcard) => Device!Next
  BY DEF Device!Next, Device!End, Device!Returns
<1>i. Outcome \in Device!InitOutcomes(dcard) => Device!Next
  BY DEF Device!Next, Device!Initialize, Device!Returns
<1>t. Outcome \in Device!TransferOutcomes(dcard) => Device!Next
  BY DEF Device!Next, Device!Transfer, Device!Returns
<1>1. CASE CallEnd
  <2>1. pc = "idle" /\ pc' = "idle" /\ dcard = Now /\ dcard' = Now'
    BY <1>1 DEF CallEnd
  <2>2. CASE EndDone /\ result' = TRUE /\ UNCHANGED sd_mode
    <3>1. Now.clock /\ Now' = Device!Off(Now)
      <4> DEFINE off == Device!Off(Now)
      <4>1. /\ off \in SdCard!Card
            /\ ~off.power /\ ~off.clock /\ ~off.initialized
            /\ off.exhausted = Now.exhausted /\ off.cut = Now.cut
        <5> HIDE DEF Now
        <5> QED BY <1>0, Changes
      <4>2. /\ card_clock_enabled /\ ~Now'.power /\ ~Now'.clock /\ ~Now'.initialized
            /\ Now'.exhausted = Now.exhausted /\ Now'.cut = Now.cut
        BY <2>2 DEF EndDone
      <4> HIDE DEF off, Now
      <4>3. Now' = off
        BY <4>1, <4>2, <1>0, SameCard DEF SdCard!Card
      <4> QED BY <4>2, <4>3 DEF Now, off
    <3> QED BY <3>1, <2>1, <2>2, <1>e DEF Device!EndOutcomes
  <2>3. CASE EndFailed /\ result' = FALSE /\ UNCHANGED sd_mode
    <3>1. Now' = Now
      BY <2>3 DEF EndFailed
    <3> QED BY <3>1, <2>1, <2>3, <1>e DEF Device!EndOutcomes
  <2> QED BY <1>1, <2>2, <2>3 DEF CallEnd
<1>2. CASE CallInitialize
  BY <1>2 DEF CallInitialize
<1>3. CASE CallTransfer
  <2>1. pc = "idle" /\ entry' = Now /\ Now' = Now /\ dcard = Now /\ dcard' = Now
    BY <1>3 DEF CallTransfer
  <2>2. result' = result \/ result' = initialized
    BY <1>3 DEF CallTransfer, Return
  <2>3. CASE result' = initialized
    BY <2>1, <2>3, <1>t DEF Device!TransferOutcomes
  <2> QED BY <2>1, <2>2, <2>3
<1>4. CASE TryDone
  <2>1. pc = "try" /\ dcard = entry /\ Now' = Now /\ entry' = entry /\ card_clock_enabled
        /\ entry.initialized
    BY <1>4 DEF TryDone
  <2>2. (pc' = "idle" /\ result' = TRUE) \/ (pc' = "try" /\ result' = result)
    BY <1>4, <2>1 DEF TryDone, Return
  <2>3. CASE pc' = "idle" /\ result' = TRUE
    <3>1. CASE first_reinit
      <4>1. dcard' = entry
        BY <2>1, <2>3, <3>1
      <4> QED BY <4>1, <2>1, <2>3, <1>t DEF Device!TransferOutcomes
    <3>2. CASE ~first_reinit
      <4>1. ~entry.exhausted /\ initialized /\ sd_mode # 0
        BY <2>1, <3>2 DEF TryingIsUp
      <4>2. Now \in Device!Up(entry)
        BY <4>1, <2>1, <1>0 DEF Device!Up, Device!Plausible, SdCard!Plausible
      <4>3. dcard' = Now
        BY <2>1, <2>3
      <4> QED BY <4>1, <4>2, <4>3, <2>1, <2>3, <1>t DEF Device!TransferOutcomes
    <3> QED BY <3>1, <3>2
  <2> QED BY <2>1, <2>2, <2>3
<1>5. CASE TryFailed
  <2>1. pc = "try" /\ pc' \in {"try", "reinit"} /\ UNCHANGED <<entry, result>>
    BY <1>5 DEF TryFailed
  <2> QED BY <2>1
<1>6. CASE Reinit
  <2>1. pc = "reinit" /\ pc' = "bringUp" /\ UNCHANGED <<entry, result>>
    BY <1>6 DEF Reinit
  <2> QED BY <2>1
<1>7. CASE BringUpDone
  <2>1. pc = "bringUp" /\ dcard = entry /\ entry' = entry /\ ~entry.exhausted
    BY <1>7 DEF BringUpDone, SpeedLeft
  <2>2. CASE op = "io"
    BY <1>7, <2>1, <2>2 DEF BringUpDone
  <2>3. CASE op # "io"
    <3>1. pc' = "idle" /\ result' = TRUE /\ dcard' = Now'
      BY <1>7, <2>3 DEF BringUpDone, Return
    <3>2. /\ initialized' = TRUE /\ card_clock_enabled' = TRUE /\ power' = TRUE
          /\ sd_mode' # 0 /\ cut' = cut
      BY <1>7 DEF BringUpDone, ModeOfSwitch, SpeedLeft
    <3>3. Now' \in Device!Up(entry)
      BY <3>2, <2>1, <1>0 DEF Device!Up, Device!Plausible
    <3> QED BY <3>1, <3>3, <2>1, <1>i DEF Device!InitOutcomes
  <2> QED BY <2>2, <2>3
<1>8. CASE BringUpFailed
  <2>1. pc = "bringUp" /\ dcard = entry /\ entry' = entry /\ op' = op /\ cut' = cut
    BY <1>8 DEF BringUpFailed
  <2>2. (pc' = "idle" /\ result' = FALSE) \/ (pc' = "slower" /\ result' = result)
    BY <1>8 DEF BringUpFailed, Return
  <2>3. CASE pc' = "idle" /\ result' = FALSE
    <3>1. dcard' = Now' /\ SdCard!Plausible(Now')
      BY <2>3
    <3>2. (looping => sd_mode' = 0)
      BY <1>8, <2>3 DEF BringUpFailed, LoopEnds, Return
    <3>3. \/ sd_mode = 0 /\ Now' = Now
          \/ sd_mode # 0 /\ sd_mode' # 0 /\ initialized' = FALSE
      BY <1>8 DEF BringUpFailed, SpeedLeft, ModeOfSwitch
    <3>4. CASE op = "io"
      <4>1. Now'.initialized => Now'.exhausted /\ Now'.clock
        BY <3>3 DEF InitializedHasClock
      <4>2. entry.exhausted => Now'.exhausted
        BY <3>3, <2>1
      <4>3. entry.initialized /\ Now'.cut = entry.cut
        BY <2>1, <3>4
      <4> HIDE DEF Now
      <4>4. Device!Plausible(Now')
        BY <3>1 DEF Device!Plausible, SdCard!Plausible
      <4>5. Outcome = [ok |-> FALSE, card |-> Now'] /\ dcard = entry
        BY <3>1, <2>1, <2>3
      <4>6. Outcome \in Device!TransferOutcomes(dcard)
        BY <4>1, <4>2, <4>3, <4>4, <4>5, <1>0 DEF Device!TransferOutcomes
      <4> QED BY <4>6, <1>t
    <3>5. CASE op # "io"
      <4>1. looping /\ Now' = Now /\ sd_mode = 0
        BY <3>2, <3>3, <3>5, <2>1
      <4>2. CASE entry.exhausted
        <5>1. entry = Now
          BY <4>2, <3>5, <2>1
        <5> QED BY <5>1, <4>1, <4>2, <3>1, <2>1, <2>3, <1>i DEF Device!InitOutcomes
      <4>3. CASE ~entry.exhausted
        <5>1. Now.exhausted /\ ~Now.initialized /\ Now.cut = entry.cut
          BY <4>1, <4>3, <3>5, <2>1
        <5> QED
          BY <5>1, <4>1, <4>3, <3>1, <2>1, <2>3, <1>0, <1>i
          DEF Device!InitOutcomes, Device!Plausible, SdCard!Plausible
      <4> QED BY <4>2, <4>3
    <3> QED BY <3>4, <3>5
  <2> QED BY <2>1, <2>2, <2>3
<1>9. CASE NextSpeed
  <2>1. pc = "slower" /\ pc' = "bringUp" /\ UNCHANGED <<entry, result>>
    BY <1>9 DEF NextSpeed
  <2> QED BY <2>1
<1>10. CASE PowerCut
  <2>1. dcard' = [dcard EXCEPT !.power = FALSE, !.cut = TRUE]
    <3>1. /\ entry' = [entry EXCEPT !.power = FALSE, !.cut = TRUE]
          /\ cut' = TRUE /\ power' = FALSE
          /\ UNCHANGED <<sd_mode, initialized, card_clock_enabled, pc>>
      BY <1>10 DEF PowerCut
    <3>2. Now' = [Now EXCEPT !.power = FALSE, !.cut = TRUE]
      <4> DEFINE dark == Dark(Now)
      <4>1. /\ dark \in SdCard!Card
            /\ ~dark.power /\ dark.cut
            /\ dark.clock = Now.clock /\ dark.initialized = Now.initialized
            /\ dark.exhausted = Now.exhausted
        <5> HIDE DEF Now
        <5> QED BY <1>0, Changes
      <4>2. /\ ~Now'.power /\ Now'.cut
            /\ Now'.clock = Now.clock /\ Now'.initialized = Now.initialized
            /\ Now'.exhausted = Now.exhausted
        BY <3>1
      <4> HIDE DEF dark, Now
      <4>3. Now' = dark
        BY <4>1, <4>2, <1>0, SameCard DEF SdCard!Card
      <4> QED BY <4>3 DEF dark, Dark
    <3>3. CASE pc = "idle"
      BY <3>1, <3>2, <3>3
    <3>4. CASE pc # "idle"
      BY <3>1, <3>4
    <3> QED BY <3>3, <3>4
  <2> QED BY <1>10, <2>1 DEF PowerCut, Device!Next, Device!PowerCut
<1>11. CASE UNCHANGED vars
  BY <1>11 DEF vars
<1> QED
  BY <1>1, <1>2, <1>3, <1>4, <1>5, <1>6, <1>7, <1>8, <1>9,
     <1>10, <1>11
  DEF Next, InCall

-----------------------------------------------------------------------------
(* The theorems                                                            *)

\* The inductive invariant: what every step keeps, and every property needs.
IInv == /\ TypeOK /\ ModeInRange /\ RetryInv
        /\ InitializedHasClock /\ TryingIsUp
        /\ InStep /\ CoverInv /\ EntryInv

LEMMA InitInv == Init => IInv
<1> SUFFICES ASSUME Init
             PROVE  IInv
  OBVIOUS
<1> USE WrapAssumption DEF Init, SD_INIT_FAIL, SD_UHS_SDR104
<1>1. TypeOK /\ ModeInRange
  <2>1. sd_mode \in 0..(Wrap - 1) /\ ModeInRange
    BY DEF ModeInRange
  <2>2. /\ initialized \in BOOLEAN /\ card_clock_enabled \in BOOLEAN
        /\ looping \in BOOLEAN /\ first_reinit \in BOOLEAN /\ result \in BOOLEAN
        /\ power \in BOOLEAN /\ cut \in BOOLEAN
    OBVIOUS
  <2>3. /\ num_sectors \in Nat /\ sct_off \in Nat /\ sct_total \in Nat /\ bbuf \in Nat
        /\ retries \in Nat
    OBVIOUS
  <2> QED BY <2>1, <2>2, <2>3 DEF TypeOK
<1>2. RetryInv /\ InitializedHasClock /\ TryingIsUp
  BY DEF RetryInv, InIo, InitializedHasClock, TryingIsUp
<1>3. InStep /\ CoverInv
  <2>1. op # "io"
    OBVIOUS
  <2> QED BY <2>1 DEF InStep, CoverInv
<1>4. EntryInv
  BY DEF EntryInv, InIo, Now, SdCard!Card, SdCard!Plausible
<1> QED
  BY <1>1, <1>2, <1>3, <1>4 DEF IInv

LEMMA NextInv == IInv /\ [Next]_vars => IInv'
  BY TypeNext, ModeNext, RetryNext, UpNext, TryingNext, StepNext, CoverNext, EntryNext
  DEF IInv

LEMMA Invariant == Spec => []IInv
  BY InitInv, NextInv, PTL DEF Spec

\* Every variable keeps to its type (nx_sd.c, sdmmc.c:296-359).
THEOREM TypeCorrect == Spec => []TypeOK
<1>1. IInv => TypeOK
  BY DEF IInv
<1> QED BY Invariant, <1>1, PTL

\* sd_mode, which nx_sd.c:41 counts down untested, never wraps.
THEOREM SpeedInRange == Spec => []ModeInRange
<1>1. IInv => ModeInRange
  BY DEF IInv
<1> QED BY Invariant, <1>1, PTL

\* However requests restart, card and buffer go back together (sdmmc.c:341-345).
THEOREM TransferInStep == Spec => []InStep
<1>1. IInv => InStep
  BY DEF IInv
<1> QED BY Invariant, <1>1, PTL

\* A transfer that reports success has moved each sector of its request, of
\* any size, split into commands of any size (sdmmc.c:296-359).
THEOREM Complete == Spec => []SuccessIsComplete
<1>1. IInv => SuccessIsComplete
  <2> SUFFICES ASSUME IInv, op = "io", pc = "idle", result
               PROVE  {m[1] : m \in moved} = 0..(num_sectors - 1)
    BY DEF SuccessIsComplete
  <2>1. sct_total = 0 /\ sct_off = num_sectors
    BY DEF IInv, TypeOK, InStep, CoverInv
  <2> QED BY <2>1 DEF IInv, CoverInv
<1> QED BY Invariant, <1>1, PTL

\* A card that transfers are attempted on has its clock: no failed power cycle
\* or bring-up leaves it initialized without (sdmmc.c:284-294, 331).
THEOREM ClockOn == Spec => []InitializedHasClock
<1>1. IInv => InitializedHasClock
  BY DEF IInv
<1> QED BY Invariant, <1>1, PTL

\* Sectors are tried on an initialized card with a speed left (sdmmc.c:303-356).
THEOREM TryingUp == Spec => []TryingIsUp
<1>1. IInv => TryingIsUp
  BY DEF IInv
<1> QED BY Invariant, <1>1, PTL

\* The speed never goes up again (nx_sd.c:33-91).
THEOREM Slowing == Spec => NeverFaster
<1>1. IInv /\ [Next]_vars => [sd_mode' <= sd_mode]_vars
  <2> SUFFICES ASSUME IInv, [Next]_vars
               PROVE  sd_mode' <= sd_mode
    OBVIOUS
  <2> USE DEF IInv, TypeOK, ModeInRange, RetryInv, TryingIsUp, SD_INIT_FAIL, SD_UHS_SDR104
  <2>1. CASE UNCHANGED sd_mode
    BY <2>1
  <2>2. CASE Reinit
    BY <2>2 DEF Reinit, Slower
  <2>3. CASE NextSpeed
    BY <2>3 DEF NextSpeed, Slower
  <2>4. CASE BringUpDone \/ BringUpFailed
    <3>1. sd_mode' = sd_mode \/ sd_mode' = ModeOfSwitch
      BY <2>4 DEF BringUpDone, BringUpFailed
    <3>2. ModeOfSwitch = sd_mode
      BY DEF ModeOfSwitch
    <3> QED BY <2>1, <3>1, <3>2
  <2>5. CASE \/ CallEnd \/ CallInitialize \/ CallTransfer \/ TryDone \/ TryFailed
             \/ PowerCut \/ UNCHANGED vars
    <3>1. UNCHANGED sd_mode
      BY <2>5
      DEF CallEnd, CallInitialize, KeepSpeed, CallTransfer, TryDone, TryFailed, PowerCut, vars
    <3> QED BY <2>1, <3>1
  <2> QED
    BY <2>2, <2>3, <2>4, <2>5 DEF Next, InCall
<1> QED BY Invariant, <1>1, PTL DEF Spec, NeverFaster

\* The driver's calls, with all their retries, reinitializations and failures,
\* do to the card what the hooks' model takes each call to do in one step.
THEOREM Implements == Spec => ImplementsDevice
<1>1. Init => Device!Init
  <2> SUFFICES ASSUME Init
               PROVE  Now \in Device!FreshCards /\ pc = "idle" /\ result = TRUE
    BY DEF Device!Init
  <2>1. Now \in Device!Card
    BY DEF Init, Now, Device!Card
  <2>2. ~Now.clock /\ ~Now.initialized /\ ~Now.exhausted /\ ~Now.cut
    <3>1. /\ sd_mode = 4 /\ initialized = FALSE /\ card_clock_enabled = FALSE
          /\ cut = FALSE
      BY DEF Init, SD_UHS_SDR104
    <3>2. Now.exhausted = (sd_mode = SD_INIT_FAIL)
      BY DEF Now
    <3>3. /\ Now.clock = card_clock_enabled /\ Now.initialized = initialized
          /\ Now.cut = cut
      BY DEF Now
    <3>4. sd_mode # SD_INIT_FAIL
      BY <3>1 DEF SD_INIT_FAIL
    <3> HIDE DEF Now
    <3> QED BY <3>1, <3>2, <3>3, <3>4
  <2> QED
    BY <2>1, <2>2 DEF Init, Device!FreshCards
<1>2. IInv /\ IInv' /\ [Next]_vars
        => [Device!Next]_<<IF pc = "idle" THEN Now ELSE entry, result>>
  BY DeviceNext DEF IInv
<1> QED BY Invariant, <1>1, <1>2, PTL DEF Spec, ImplementsDevice, Device!Spec

=============================================================================
